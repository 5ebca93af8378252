-------------------------- MODULE ShardReadsProofs --------------------------
(***************************************************************************)
(* Proofs about ShardReads and the buffer pool below it, for any number of *)
(* loaders, tensors and buffers: what the cache references is exactly the  *)
(* bytes of the files, page-locks never outlive their memory and overshoot *)
(* their ceiling by at most one buffer per other loader, and an arena      *)
(* keeps its slots.                                                        *)
(*                                                                         *)
(* None of the three is inductive.  The invariant says who owns each       *)
(* buffer (OwnInv) and bounds the locks that have been allowed together    *)
(* with those that have been taken (PinInv).                               *)
(***************************************************************************)
EXTENDS ShardReads, SumTheorems

-----------------------------------------------------------------------------
(* Capacities: the sum of the capacities of some buffers *)

\* A sum over a set is the sum over any larger one, of shares that are zero
\* elsewhere.
LEMMA SumSupport ==
  ASSUME NEW U, NEW S \in SUBSET U, NEW f, NEW g, NEW v,
         \A x \in S : g[x] = f[x], \A x \in U \ S : g[x] = 0,
         IsSum(f, S, v)
  PROVE  IsSum(g, U, v)
<1>1. PICK s \in PartialSums(f, S) : s[S] = v
  BY DEF IsSum
<1>2. /\ s \in [SUBSET S -> Nat] /\ s[{}] = 0
      /\ \A T \in SUBSET S : \A x \in T : s[T] = s[T \ {x}] + f[x]
  BY DEF PartialSums
<1> DEFINE r == [T \in SUBSET U |-> s[T \cap S]]
<1>3. r \in [SUBSET U -> Nat] /\ r[{}] = 0
  <2>1. {} \cap S = {}
    OBVIOUS
  <2> QED BY <1>2, <2>1
<1>4. ASSUME NEW T \in SUBSET U, NEW x \in T PROVE r[T] = r[T \ {x}] + g[x]
  <2>1. r[T] = s[T \cap S] /\ r[T \ {x}] = s[(T \ {x}) \cap S]
    OBVIOUS
  <2>2. CASE x \in S
    <3>1. x \in T \cap S /\ T \cap S \in SUBSET S /\ (T \ {x}) \cap S = (T \cap S) \ {x}
      BY <2>2
    <3>2. s[T \cap S] = s[(T \cap S) \ {x}] + f[x]
      BY <1>2, <3>1
    <3> QED BY <2>1, <2>2, <3>1, <3>2
  <2>3. CASE x \notin S
    <3>1. (T \ {x}) \cap S = T \cap S /\ T \cap S \in SUBSET S
      BY <2>3
    <3>2. s[T \cap S] \in Nat /\ g[x] = 0
      BY <1>2, <2>3, <3>1
    <3> HIDE DEF r
    <3> QED BY <2>1, <3>1, <3>2
  <2> QED BY <2>2, <2>3
<1>5. r[U] = v
  <2>1. U \cap S = S
    OBVIOUS
  <2> QED BY <1>1, <2>1
<1> HIDE DEF r
<1>6. r \in PartialSums(g, U)
  BY <1>3, <1>4 DEF PartialSums
<1> QED BY <1>5, <1>6 DEF IsSum

\* Each buffer's share of what the buffers of S hold.
Share(h, S) == [b \in Bufs |-> IF b \in S THEN h[b].cap ELSE 0]

\* The fold, written as the sum of a function.
LEMMA FoldOfCaps ==
  ASSUME NEW S
  PROVE  Capacity(S) = SumFunction([b \in S |-> heap[b].cap])
<1> DEFINE f == [b \in S |-> heap[b].cap]
           D1(g) == [t \in SUBSET S |->
             IF t = {} THEN 0
             ELSE heap[CHOOSE x \in t : TRUE].cap + g[t \ {CHOOSE x \in t : TRUE}]]
           D2(g) == [t \in SUBSET S |->
             IF t = {} THEN 0
             ELSE f[CHOOSE x \in t : TRUE] + g[t \ {CHOOSE x \in t : TRUE}]]
           i1 == CHOOSE g : g = D1(g)
           i2 == CHOOSE g : g = D2(g)
<1>1. Capacity(S) = i1[S]
  BY DEF Capacity, MapThenSumSet, MapThenFoldSet
<1>2. SumFunction(f) = i2[S]
  BY DEF SumFunction, SumFunctionOnSet, FoldFunctionOnSet, MapThenFoldSet
<1>3. \A g : D1(g) = D2(g)
  <2> SUFFICES ASSUME NEW g, NEW t \in SUBSET S, t # {}
               PROVE  heap[CHOOSE x \in t : TRUE].cap = f[CHOOSE x \in t : TRUE]
    OBVIOUS
  <2>1. (CHOOSE x \in t : TRUE) \in S
    OBVIOUS
  <2> QED BY <2>1
<1> HIDE DEF D1, D2
<1>4. i1 = i2
  BY <1>3
<1> QED BY <1>1, <1>2, <1>4

\* The fold over a set of buffers is the sum of their capacities.
LEMMA CapacitySum ==
  ASSUME NEW S \in SUBSET Bufs, \A b \in S : heap[b].cap \in Nat
  PROVE  IsSum(Share(heap, S), Bufs, Capacity(S))
<1> DEFINE f == [b \in S |-> heap[b].cap]
<1>1. IsFiniteSet(S)
  BY PoolAssumption, FS_Subset
<1>2. DOMAIN f = S /\ \A x \in S : f[x] \in Nat
  OBVIOUS
<1>3. \A x \in S : Share(heap, S)[x] = f[x]
  BY DEF Share
<1>4. \A x \in Bufs \ S : Share(heap, S)[x] = 0
  BY DEF Share
<1>5. Capacity(S) = SumFunction(f)
  BY FoldOfCaps
<1> HIDE DEF f
<1>6. IsSum(f, S, SumFunction(f))
  BY <1>1, <1>2, FoldIsSum
<1>7. IsSum(Share(heap, S), Bufs, SumFunction(f))
  BY <1>3, <1>4, <1>6, SumSupport
<1> QED BY <1>5, <1>7

\* One more buffer adds its capacity.
LEMMA ShareAdd ==
  ASSUME NEW h, NEW S, NEW b \in Bufs \ S, NEW v, \A c \in Bufs : h[c].cap \in Nat,
         IsSum(Share(h, S), Bufs, v)
  PROVE  IsSum(Share(h, S \cup {b}), Bufs, v + h[b].cap)
<1> DEFINE f == Share(h, S)  g == Share(h, S \cup {b})  d == h[b].cap
<1>1. /\ \A x \in Bufs : f[x] \in Nat
      /\ g[b] \in Nat /\ g[b] = f[b] + d /\ d \in Int
      /\ \A x \in Bufs \ {b} : g[x] = f[x]
  BY DEF Share
<1> HIDE DEF f, g, d
<1>2. IsSum(f, Bufs, v)
  BY DEF f
<1>3. IsSum(g, Bufs, v + d)
  BY <1>1, <1>2, SumUpdate
<1> QED BY <1>3 DEF g, d

\* One buffer less takes its capacity away.
LEMMA ShareRemove ==
  ASSUME NEW h, NEW S, NEW b \in Bufs \cap S, NEW v, \A c \in Bufs : h[c].cap \in Nat,
         IsSum(Share(h, S), Bufs, v)
  PROVE  IsSum(Share(h, S \ {b}), Bufs, v - h[b].cap)
<1> DEFINE f == Share(h, S)  g == Share(h, S \ {b})  d == 0 - h[b].cap
<1>1. /\ \A x \in Bufs : f[x] \in Nat
      /\ g[b] \in Nat /\ g[b] = f[b] + d /\ d \in Int
      /\ \A x \in Bufs \ {b} : g[x] = f[x]
  BY DEF Share
<1>2. v \in Nat
  BY SumBounds
<1>3. v + d = v - h[b].cap
  BY <1>2
<1> HIDE DEF f, g, d
<1>4. IsSum(f, Bufs, v)
  BY DEF f
<1>5. IsSum(g, Bufs, v + d)
  BY <1>1, <1>4, SumUpdate
<1> QED BY <1>3, <1>5 DEF g

\* Only the capacities of the buffers counted matter.
LEMMA ShareSame ==
  ASSUME NEW h, NEW k, NEW S, NEW v, \A b \in Bufs \cap S : k[b].cap = h[b].cap,
         IsSum(Share(h, S), Bufs, v)
  PROVE  IsSum(Share(k, S), Bufs, v)
<1>1. \A x \in Bufs : Share(k, S)[x] = Share(h, S)[x]
  BY DEF Share
<1> QED BY <1>1, SumSame

\* Fewer buffers hold no more.
LEMMA ShareLess ==
  ASSUME NEW h, NEW S, NEW T, NEW v, NEW w, \A b \in Bufs : h[b].cap \in Nat,
         Bufs \cap S \subseteq T, IsSum(Share(h, S), Bufs, v), IsSum(Share(h, T), Bufs, w)
  PROVE  v <= w
<1> DEFINE f == Share(h, S)  g == Share(h, T)
<1>1. \A x \in Bufs : f[x] \in Nat /\ g[x] \in Nat /\ f[x] <= g[x]
  BY DEF Share
<1>2. IsSum(f, Bufs, v) /\ IsSum(g, Bufs, w) /\ IsFiniteSet(Bufs)
  BY PoolAssumption
<1> HIDE DEF f, g
<1> QED BY <1>1, <1>2, SumMonotone

\* Setting a few buffers aside lowers the sum by at most the largest capacity
\* for each.
LEMMA ShareSplit ==
  ASSUME NEW h, NEW R, NEW D \in SUBSET Bufs, NEW v, NEW w, NEW M \in Nat,
         \A b \in Bufs : h[b].cap \in Nat /\ h[b].cap <= M,
         IsSum(Share(h, R), Bufs, v), IsSum(Share(h, R \ D), Bufs, w)
  PROVE  v <= w + Cardinality(D) * M
<1> DEFINE f == Share(h, R)  e == Share(h, R \ D)
           one == [b \in Bufs |-> IF b \in D THEN 1 ELSE 0]
           g == [b \in Bufs |-> one[b] * M]
           k == [b \in Bufs |-> e[b] + g[b]]
<1>0. IsFiniteSet(Bufs)
  BY PoolAssumption
<1>1. \A b \in Bufs : one[b] = (IF b \in D THEN 1 ELSE 0) /\ one[b] \in Nat
  OBVIOUS
<1>2. \A b \in Bufs : g[b] = one[b] * M
  OBVIOUS
<1>3. \A b \in Bufs : k[b] = e[b] + g[b]
  OBVIOUS
<1> HIDE DEF one, g, k
<1>4. \A b \in Bufs : g[b] = (IF b \in D THEN M ELSE 0) /\ g[b] \in Nat
  BY <1>1, <1>2
<1>5. IsSum(one, Bufs, Cardinality(D))
  BY <1>0, <1>1, SumCounts
<1>6. IsSum(g, Bufs, Cardinality(D) * M)
  BY <1>1, <1>2, <1>5, SumScale
<1>7. \A b \in Bufs : e[b] \in Nat /\ f[b] \in Nat /\ (b \notin D => f[b] = e[b]) /\ f[b] <= M
  BY DEF Share
<1>8. IsSum(f, Bufs, v) /\ IsSum(e, Bufs, w)
  OBVIOUS
<1> HIDE DEF e, f
<1>9. \A b \in Bufs : e[b] \in Nat /\ g[b] \in Nat /\ k[b] = e[b] + g[b]
  BY <1>3, <1>4, <1>7
<1>10. IsSum(k, Bufs, w + Cardinality(D) * M)
  BY <1>6, <1>8, <1>9, SumAdd
<1>11. \A b \in Bufs : f[b] \in Nat /\ k[b] \in Nat /\ f[b] <= k[b]
  BY <1>4, <1>7, <1>9
<1> QED BY <1>0, <1>8, <1>10, <1>11, SumMonotone

\* The largest capacity.
LEMMA MaxCapacity ==
  ASSUME NEW h, \A b \in Bufs : h[b].cap \in Nat
  PROVE  LET M == Max({0} \cup {h[b].cap : b \in Bufs})
         IN  M \in Nat /\ \A b \in Bufs : h[b].cap <= M
<1> DEFINE G == {T \in SUBSET Bufs :
                   \E m \in {0} \cup {h[b].cap : b \in Bufs} : \A b \in T : m >= h[b].cap}
<1>1. {} \in G
  OBVIOUS
<1>2. ASSUME NEW T \in SUBSET Bufs, T # {}, \A x \in T : T \ {x} \in G PROVE T \in G
  <2>1. PICK x \in T : T \ {x} \in G
    BY <1>2
  <2>2. PICK m \in {0} \cup {h[b].cap : b \in Bufs} : \A b \in T \ {x} : m >= h[b].cap
    BY <2>1
  <2>3. m \in Nat /\ h[x].cap \in Nat /\ h[x].cap \in {0} \cup {h[b].cap : b \in Bufs}
    OBVIOUS
  <2>4. CASE m >= h[x].cap
    <3>1. \A b \in T : m >= h[b].cap
      BY <2>2, <2>4
    <3> QED BY <3>1
  <2>5. CASE ~(m >= h[x].cap)
    <3>1. \A b \in T : h[x].cap >= h[b].cap
      BY <2>2, <2>3, <2>5
    <3> QED BY <2>3, <3>1
  <2> QED BY <2>4, <2>5
<1> HIDE DEF G
<1>3. Bufs \in G
  BY <1>1, <1>2, SubsetInduction, PoolAssumption
<1> USE DEF G
<1>4. PICK m \in {0} \cup {h[b].cap : b \in Bufs} : \A b \in Bufs : m >= h[b].cap
  BY <1>3
<1> HIDE DEF G
<1> DEFINE C == {0} \cup {h[b].cap : b \in Bufs}
<1>5. \A y \in C : y \in Nat
  OBVIOUS
<1>6. \E x \in C : \A y \in C : x >= y
  <2>1. \A y \in C : m >= y
    BY <1>4
  <2> QED BY <2>1
<1>6a. \A b \in Bufs : h[b].cap \in C
  OBVIOUS
<1> HIDE DEF C
<1>7. Max(C) \in C /\ \A y \in C : Max(C) >= y
  BY <1>6 DEF Max
<1>8. Max(C) \in Nat /\ \A b \in Bufs : h[b].cap <= Max(C)
  BY <1>5, <1>6a, <1>7
<1> QED BY <1>8 DEF C

-----------------------------------------------------------------------------
(* Spans: what the coalescing loop and the plan produce, by induction over how far *)
(* the loop has come                                                               *)

\* A nonempty set of naturals has a smallest element.
LEMMA Smallest ==
  ASSUME NEW S \in SUBSET Nat, S # {}
  PROVE  \E x \in S : \A y \in S : x <= y
<1>1. PICK k \in S : \A j \in S : ~(<<j, k>> \in OpToRel(<, Nat))
  BY NatLessThanWellFounded, WFMin
<1>2. ASSUME NEW y \in S PROVE k <= y
  <2>1. y \in Nat /\ k \in Nat
    OBVIOUS
  <2>2. ~(y < k)
    BY <1>1 DEF OpToRel
  <2> QED BY <2>1, <2>2
<1> QED BY <1>2

\* A finite nonempty group has a tensor that no other one comes after.
LEMMA Latest ==
  ASSUME NEW S \in SUBSET DOMAIN Tensor, IsFiniteSet(S), S # {}
  PROVE  \E m \in S : \A y \in S : ~Earlier(m, y)
<1> DEFINE G == {T \in SUBSET S : T # {} => \E m \in T : \A y \in T : ~Earlier(m, y)}
<1>0. \A n \in S : Tensor[n].file \in Nat /\ Tensor[n].off \in Nat
  BY IndexAssumption
<1>1. {} \in G
  OBVIOUS
<1>2. ASSUME NEW T \in SUBSET S, T # {}, \A x \in T : T \ {x} \in G PROVE T \in G
  <2>1. PICK x \in T : T \ {x} \in G
    BY <1>2
  <2>2. CASE T \ {x} = {}
    <3>1. ~Earlier(x, x)
      BY <1>0 DEF Earlier
    <3>2. \A y \in T : y = x
      BY <2>2
    <3> QED BY <3>1, <3>2
  <2>3. CASE T \ {x} # {}
    <3>1. PICK m \in T \ {x} : \A y \in T \ {x} : ~Earlier(m, y)
      BY <2>1, <2>3
    <3>2. CASE Earlier(m, x)
      <4>1. ASSUME NEW y \in T PROVE ~Earlier(x, y)
        <5>1. CASE y = x
          BY <1>0, <5>1 DEF Earlier
        <5>2. CASE y # x
          BY <1>0, <3>1, <3>2, <5>2 DEF Earlier
        <5> QED BY <5>1, <5>2
      <4> QED BY <4>1
    <3>3. CASE ~Earlier(m, x)
      <4>1. \A y \in T : ~Earlier(m, y)
        BY <3>1, <3>3
      <4> QED BY <4>1
    <3> QED BY <3>2, <3>3
  <2> QED BY <2>2, <2>3
<1> HIDE DEF G
<1>2a. \A T \in SUBSET S : T # {} /\ (\A x \in T : T \ {x} \in G) => T \in G
  BY <1>2
<1>3. S \in G
  <2>1. \A T \in SUBSET S : T \in G
    BY <1>1, <1>2a, SubsetInduction, Zenon
  <2> QED BY <2>1
<1> QED BY <1>3 DEF G

\* q lists T by file and offset.
Lists(q, T) == /\ q \in [1..Cardinality(T) -> T]
               /\ \A i, j \in 1..Cardinality(T) : i < j => q[i] # q[j] /\ ~Earlier(q[j], q[i])

\* A finite group can be sorted.
LEMMA OrderExists ==
  ASSUME NEW S \in SUBSET DOMAIN Tensor, IsFiniteSet(S)
  PROVE  Lists(Ordered(S), S)
<1> DEFINE G == {T \in SUBSET S : \E q : Lists(q, T)}
<1>1. {} \in G
  <2>1. Lists([i \in 1..0 |-> 0], {})
    BY FS_EmptySet DEF Lists
  <2> QED BY <2>1
<1>2. ASSUME NEW T \in SUBSET S, T # {}, \A x \in T : T \ {x} \in G PROVE T \in G
  <2>1. IsFiniteSet(T)
    BY FS_Subset
  <2>2. PICK m \in T : \A y \in T : ~Earlier(m, y)
    BY <1>2, <2>1, Latest
  <2>3. PICK q : Lists(q, T \ {m})
    BY <1>2
  <2> DEFINE n == Cardinality(T)
  <2>4. n \in Nat \ {0} /\ Cardinality(T \ {m}) = n - 1
    BY <2>1, FS_RemoveElement, FS_CardinalityType, FS_EmptySet, <1>2
  <2> HIDE DEF n
  <2>5. /\ q \in [1..(n - 1) -> T \ {m}]
        /\ \A i, j \in 1..(n - 1) : i < j => q[i] # q[j] /\ ~Earlier(q[j], q[i])
    BY <2>3, <2>4 DEF Lists
  <2> DEFINE p == [i \in 1..n |-> IF i = n THEN m ELSE q[i]]
  <2>6. p \in [1..n -> T]
    BY <2>4, <2>5
  <2>7. ASSUME NEW i \in 1..n, NEW j \in 1..n, i < j
        PROVE  p[i] # p[j] /\ ~Earlier(p[j], p[i])
    <3>1. i \in 1..(n - 1) /\ p[i] = q[i] /\ q[i] \in T \ {m}
      BY <2>4, <2>5, <2>7
    <3>2. CASE j = n
      <4>1. p[j] = m
        BY <3>2
      <4> QED BY <2>2, <3>1, <4>1
    <3>3. CASE j # n
      <4>1. j \in 1..(n - 1) /\ p[j] = q[j]
        BY <2>4, <3>3
      <4> QED BY <2>5, <2>7, <3>1, <4>1
    <3> QED BY <3>2, <3>3
  <2> HIDE DEF p
  <2>8. Lists(p, T)
    BY <2>6, <2>7 DEF Lists, n
  <2> QED BY <2>8
<1> HIDE DEF G
<1>2a. \A T \in SUBSET S : T # {} /\ (\A x \in T : T \ {x} \in G) => T \in G
  BY <1>2
<1>3. S \in G
  <2>1. \A T \in SUBSET S : T \in G
    BY <1>1, <1>2a, SubsetInduction, Zenon
  <2> QED BY <2>1
<1>4. \E q : Lists(q, S)
  BY <1>3 DEF G
<1> QED BY <1>4 DEF Lists, Ordered

\* A piece of a plan: the tensors of one run, which lie between its ends.  Only
\* the mark of a name the index does not have is empty.
Pieces ==
  {p \in [file : Nat, off : Nat, names : SUBSET DOMAIN Tensor, len : Nat] :
     /\ \A n \in p.names : /\ Tensor[n].file = p.file /\ p.off <= Tensor[n].off
                           /\ Tensor[n].off + Tensor[n].nbytes <= p.off + p.len
     /\ p # Missing => p.len > 0}

\* One tensor is a piece, and a piece stays one when the tensor that follows on it is
\* joined: no gap and no overlap comes into a span.
LEMMA PieceFacts ==
  ASSUME NEW n \in DOMAIN Tensor
  PROVE  /\ SpanOf(n) \in Pieces
         /\ \A p \in Pieces : FollowsOn(p, n) => Joined(p, n) \in Pieces
<1>1. /\ Tensor[n].file \in Nat /\ Tensor[n].off \in Nat /\ Tensor[n].nbytes \in Nat
      /\ Tensor[n].nbytes > 0
  BY IndexAssumption
<1>2. SpanOf(n) \in Pieces
  BY <1>1 DEF Pieces, SpanOf
<1>3. ASSUME NEW p \in Pieces, FollowsOn(p, n) PROVE Joined(p, n) \in Pieces
  <2> DEFINE q == Joined(p, n)
  <2>1. /\ p \in [file : Nat, off : Nat, names : SUBSET DOMAIN Tensor, len : Nat]
        /\ \A m \in p.names : /\ Tensor[m].file = p.file /\ p.off <= Tensor[m].off
                              /\ Tensor[m].off + Tensor[m].nbytes <= p.off + p.len
        /\ p.file = Tensor[n].file /\ Tensor[n].off = p.off + p.len
    BY <1>3 DEF Pieces, FollowsOn
  <2>1a. q = [file |-> p.file, off |-> p.off, names |-> p.names \cup {n},
              len |-> p.len + Tensor[n].nbytes]
    BY <2>1 DEF Joined
  <2>1b. /\ p.names \cup {n} \in SUBSET DOMAIN Tensor
         /\ p.file \in Nat /\ p.off \in Nat /\ p.len + Tensor[n].nbytes \in Nat
    BY <1>1, <2>1
  <2>2. /\ q \in [file : Nat, off : Nat, names : SUBSET DOMAIN Tensor, len : Nat]
        /\ q.file = p.file /\ q.off = p.off /\ q.names = p.names \cup {n}
        /\ q.len = p.len + Tensor[n].nbytes
    <3> HIDE DEF q
    <3> QED BY <2>1a, <2>1b
  <2> HIDE DEF q
  <2>3. p.off \in Nat /\ p.len \in Nat
    BY <2>1
  <2>4. ASSUME NEW m \in q.names
        PROVE  /\ Tensor[m].file = q.file /\ q.off <= Tensor[m].off
               /\ Tensor[m].off + Tensor[m].nbytes <= q.off + q.len
    <3>1. CASE m = n
      BY <1>1, <2>1, <2>2, <2>3, <3>1
    <3>2. CASE m # n
      <4>1. m \in p.names /\ m \in DOMAIN Tensor
        BY <2>1, <2>2, <3>2
      <4>2. Tensor[m].off \in Nat /\ Tensor[m].nbytes \in Nat
        BY <4>1, IndexAssumption
      <4>3. /\ Tensor[m].file = p.file /\ p.off <= Tensor[m].off
            /\ Tensor[m].off + Tensor[m].nbytes <= p.off + p.len
        BY <2>1, <4>1
      <4> QED BY <1>1, <2>2, <2>3, <4>2, <4>3
    <3> QED BY <3>1, <3>2
  <2>5. q.len > 0
    BY <1>1, <2>2, <2>3
  <2>6. q \in Pieces
    BY <2>2, <2>4, <2>5 DEF Pieces
  <2> QED BY <2>6 DEF q
<1> QED BY <1>2, <1>3

\* A group's runs are pieces.
LEMMA CoalescedPieces ==
  ASSUME NEW S \in SUBSET DOMAIN Tensor, IsFiniteSet(S)
  PROVE  Coalesced(S) \in Seq(Pieces)
<1> DEFINE N == Cardinality(S)
           order == Ordered(S)
           X == Seq(Pieces)
           Step(i, x) == IF i > 1 /\ FollowsOn(Last(x), order[i])
                         THEN [x EXCEPT ![Len(x)] = Joined(@, order[i])]
                         ELSE Append(x, SpanOf(order[i]))
           Def(g) == [i \in 0..N |-> IF i = 0 THEN <<>> ELSE Step(i, g[i - 1])]
           spans == CHOOSE g : g = Def(g)
<1>1. Coalesced(S) = spans[N]
  BY DEF Coalesced
<1>2. N \in Nat /\ \A i \in 1..N : order[i] \in DOMAIN Tensor
  BY OrderExists, FS_CardinalityType DEF Lists
<1>3. ASSUME NEW i \in 1..N, NEW x \in X PROVE Step(i, x) \in X
  <2>0. order[i] \in DOMAIN Tensor
    BY <1>2
  <2>1. CASE ~(i > 1 /\ FollowsOn(Last(x), order[i]))
    <3>1. Step(i, x) = Append(x, SpanOf(order[i]))
      BY <2>1
    <3> QED BY <2>0, <3>1, PieceFacts
  <2>2. CASE i > 1 /\ FollowsOn(Last(x), order[i])
    <3>1. Step(i, x) = [x EXCEPT ![Len(x)] = Joined(@, order[i])]
      BY <2>2
    <3>2. CASE x = <<>>
      <4>1. [x EXCEPT ![Len(x)] = Joined(@, order[i])] = x
        BY <3>2
      <4> QED BY <3>1, <4>1
    <3>3. CASE x # <<>>
      <4>1. Len(x) \in 1..Len(x) /\ x[Len(x)] \in Pieces /\ Last(x) = x[Len(x)]
        BY <3>3 DEF Last
      <4>2. Joined(x[Len(x)], order[i]) \in Pieces
        BY <2>0, <2>2, <4>1, PieceFacts
      <4>3. [x EXCEPT ![Len(x)] = Joined(x[Len(x)], order[i])] \in Seq(Pieces)
        BY <4>1, <4>2
      <4>4. [x EXCEPT ![Len(x)] = Joined(@, order[i])]
            = [x EXCEPT ![Len(x)] = Joined(x[Len(x)], order[i])]
        BY <4>1
      <4> QED BY <3>1, <4>3, <4>4
    <3> QED BY <3>2, <3>3
  <2> QED BY <2>1, <2>2
<1>4. <<>> \in X
  OBVIOUS
<1> HIDE DEF Step, X, N
<1>5. PICK f \in [0..N -> X] : f[0] = <<>> /\ \A i \in 1..N : f[i] = Step(i, f[i - 1])
  <2> DEFINE step == [i \in 1..N |-> [x \in X |-> Step(i, x)]]
  <2>1. step \in [1..N -> [X -> X]]
    BY <1>3
  <2>2. \A i \in 1..N : \A x \in X : step[i][x] = Step(i, x)
    OBVIOUS
  <2> DEFINE none == <<>>
  <2>2a. none \in X
    BY <1>4
  <2> HIDE DEF step, none
  <2>3. PICK f : Solves(f, X, N, none, step)
    BY <1>2, <2>1, <2>2a, Recursion
  <2>4. \A i \in 1..N : i - 1 \in 0..N
    BY <1>2
  <2>5. ASSUME NEW i \in 1..N PROVE f[i] = Step(i, f[i - 1])
    <3>1. f[i - 1] \in X
      BY <2>3, <2>4 DEF Solves
    <3> QED BY <2>2, <2>3, <3>1 DEF Solves
  <2> QED BY <2>3, <2>5 DEF none, Solves
<1>6. f = Def(f)
  <2>1. \A i \in 0..N : f[i] = IF i = 0 THEN <<>> ELSE Step(i, f[i - 1])
    BY <1>2, <1>5
  <2> QED BY <2>1
<1>7. spans = Def(spans)
  <2> HIDE DEF Def
  <2> QED BY <1>6
<1> HIDE DEF spans
<1>8. spans[0] = <<>> /\ \A i \in 1..N : spans[i] = Step(i, spans[i - 1])
  <2>1. \A i \in 0..N : spans[i] = IF i = 0 THEN <<>> ELSE Step(i, spans[i - 1])
    BY <1>7
  <2>2. 0 \in 0..N /\ \A i \in 1..N : i \in 0..N /\ i # 0
    BY <1>2
  <2> QED BY <2>1, <2>2
<1>9. \A i \in 1..N : spans[i - 1] \in X => spans[i] \in X
  BY <1>3, <1>8
<1>10. spans[N] \in X
  BY <1>2, <1>4, <1>8, <1>9, Stays
<1> QED BY <1>1, <1>10 DEF X

\* Sequences of pieces, one after the other, are a sequence of pieces.
LEMMA FlattenPieces ==
  ASSUME NEW P, NEW N \in Nat, NEW ss \in [1..N -> Seq(P)]
  PROVE  FlattenSeq(ss) \in Seq(P)
<1>1. Len(ss) = N /\ DOMAIN ss = 1..N
  <2>1. ss \in Seq(Seq(P))
    OBVIOUS
  <2> QED BY <2>1
<1>2. CASE N = 0
  <2>1. FlattenSeq(ss) = ss
    BY <1>1, <1>2 DEF FlattenSeq
  <2>2. ss = <<>>
    BY <1>1, <1>2
  <2> QED BY <2>1, <2>2
<1>3. CASE N # 0
  <2> DEFINE X == Seq(P)
             Def(g) == [i \in 1..N |-> IF i = 1 THEN ss[i] ELSE g[i - 1] \o ss[i]]
             flat == CHOOSE g : g = Def(g)
  <2>1. FlattenSeq(ss) = flat[N]
    BY <1>1, <1>3 DEF FlattenSeq
  <2>2. \A i \in 1..N : \A x \in X : x \o ss[i] \in X
    OBVIOUS
  <2>3. <<>> \in X /\ \A i \in 1..N : ss[i] \in X
    OBVIOUS
  <2>4. \A i \in 1..N : <<>> \o ss[i] = ss[i]
    OBVIOUS
  <2> HIDE DEF X
  <2>5. PICK f \in [0..N -> X] : f[0] = <<>> /\ \A i \in 1..N : f[i] = f[i - 1] \o ss[i]
    <3> DEFINE step == [i \in 1..N |-> [x \in X |-> x \o ss[i]]]
    <3>1. step \in [1..N -> [X -> X]]
      BY <2>2
    <3>2. \A i \in 1..N : \A x \in X : step[i][x] = x \o ss[i]
      OBVIOUS
    <3> DEFINE none == <<>>
    <3>2a. none \in X
      BY <2>3
    <3> HIDE DEF step, none
    <3>3. PICK f : Solves(f, X, N, none, step)
      BY <3>1, <3>2a, Recursion
    <3>4. \A i \in 1..N : i - 1 \in 0..N
      OBVIOUS
    <3>5. ASSUME NEW i \in 1..N PROVE f[i] = f[i - 1] \o ss[i]
      <4>1. f[i - 1] \in X
        BY <3>3, <3>4 DEF Solves
      <4> QED BY <3>2, <3>3, <4>1 DEF Solves
    <3> QED BY <3>3, <3>5 DEF none, Solves
  <2> DEFINE e == [i \in 1..N |-> f[i]]
  <2>6. e = Def(e)
    <3>1. ASSUME NEW i \in 1..N PROVE e[i] = IF i = 1 THEN ss[i] ELSE e[i - 1] \o ss[i]
      <4>1. e[i] = f[i - 1] \o ss[i]
        BY <2>5
      <4>2. CASE i = 1
        <5>1. f[i - 1] = <<>>
          BY <2>5, <4>2
        <5> QED BY <2>4, <4>1, <4>2, <5>1
      <4>3. CASE i # 1
        <5>1. i - 1 \in 1..N
          BY <4>3
        <5>2. e[i - 1] = f[i - 1]
          BY <5>1
        <5> HIDE DEF e
        <5> QED BY <4>1, <4>3, <5>2
      <4> QED BY <4>2, <4>3
    <3>2. DOMAIN e = 1..N
      OBVIOUS
    <3> QED BY <3>1
  <2>7. flat = Def(flat)
    <3> HIDE DEF Def, e
    <3> QED BY <2>6
  <2> HIDE DEF flat
  <2> DEFINE g == [i \in 0..N |-> IF i = 0 THEN ss[1] ELSE flat[i]]
  <2>8. \A i \in 1..N : flat[i] = IF i = 1 THEN ss[i] ELSE flat[i - 1] \o ss[i]
    BY <2>7
  <2>9. ASSUME NEW i \in 1..N, g[i - 1] \in X PROVE g[i] \in X
    <3>1. g[i] = flat[i]
      OBVIOUS
    <3>2. CASE i = 1
      BY <2>3, <2>8, <3>1, <3>2
    <3>3. CASE i # 1
      <4>1. i - 1 \in 0..N /\ i - 1 # 0
        BY <3>3
      <4>2. g[i - 1] = flat[i - 1]
        BY <4>1
      <4>3. flat[i] = flat[i - 1] \o ss[i]
        BY <2>8, <3>3
      <4> HIDE DEF g
      <4> QED BY <2>2, <2>9, <3>1, <4>2, <4>3
    <3> QED BY <3>2, <3>3
  <2>10. g[0] \in X /\ g[N] = flat[N]
    BY <1>3, <2>3
  <2> HIDE DEF g
  <2>11. g[N] \in X
    BY <2>9, <2>10, Stays
  <2> QED BY <2>1, <2>10, <2>11 DEF X
<1> QED BY <1>2, <1>3

\* Every call's plan is a sequence of pieces.
LEMMA PlanPieces ==
  ASSUME NEW s \in Setups, NEW l \in Loaders, NEW r \in s.calls[l]
  PROVE  r.single \in BOOLEAN /\ Plan[r] \in Seq(Pieces)
<1>1. /\ r.single \in BOOLEAN /\ Len(r.groups) \in Nat /\ DOMAIN s.calls = Loaders
      /\ \A g \in 1..Len(r.groups) : IsFiniteSet(r.groups[g])
  BY LoadAssumption
<1> DEFINE N == Len(r.groups)
           ss == [g \in 1..N |-> IF r.groups[g] \subseteq DOMAIN Tensor THEN Coalesced(r.groups[g])
                                 ELSE <<Missing>>]
<1>2. r \in UNION {UNION Range(t.calls) : t \in Setups}
  <2>1. s.calls[l] \in Range(s.calls)
    BY <1>1 DEF Range
  <2> QED BY <2>1
<1>3. Plan[r] = FlattenSeq(ss)
  BY <1>2 DEF Plan
<1>4. Missing \in Pieces
  BY DEF Missing, Pieces
<1>5. ASSUME NEW g \in 1..N PROVE ss[g] \in Seq(Pieces)
  <2>1. CASE r.groups[g] \subseteq DOMAIN Tensor
    BY <1>1, <2>1, CoalescedPieces
  <2>2. CASE ~(r.groups[g] \subseteq DOMAIN Tensor)
    BY <1>4, <2>2
  <2> QED BY <2>1, <2>2
<1>6. ss \in [1..N -> Seq(Pieces)]
  BY <1>5
<1> HIDE DEF ss
<1>7. FlattenSeq(ss) \in Seq(Pieces)
  BY <1>1, <1>6, FlattenPieces
<1> QED BY <1>1, <1>3, <1>7

-----------------------------------------------------------------------------
(* Types *)

\* A byte is a file and an offset.
Bytes == Nat \X Nat

\* The memory: a capacity and the bytes of each buffer.
HeapT == [Bufs -> [cap : Nat, data : Seq(Bytes)]]

\* A span: each of its tensors lies where the bytes of its file from read_off on
\* begin, and inside what is read.
SpanT ==
  {s \in [file : Nat, read_off : Nat, read_len : Nat, skew : Nat, buf : Bufs \cup {NoBuf},
          views : SUBSET [name : DOMAIN Tensor, at : Nat]] :
     /\ s.buf = NoBuf => s.skew = 0
     /\ \A v \in s.views :
          /\ Tensor[v.name].file = s.file /\ s.read_off <= Tensor[v.name].off
          /\ v.at = s.skew + (Tensor[v.name].off - s.read_off)
          /\ s.buf # NoBuf =>
               Tensor[v.name].off + Tensor[v.name].nbytes <= s.read_off + s.read_len}

\* A call of a loader.
LoadT == [pc : {"idle", "span", "wait", "register", "read", "pool", "unwind", "free"},
          single : BOOLEAN, todo : Seq(Pieces), spans : Seq(SpanT), buf : Bufs \cup {NoBuf},
          spins : Nat]

\* What arena_init may have claimed.
ArenaT == {a \in [slot_bytes : Nat, slots : Nat] :
             1..a.slots \subseteq Bufs /\ (a.slots > 0 => a.slot_bytes > 0)}

\* The types of the variables; PINNED records exactly what the driver has locked.
TypeInv ==
  /\ arena \in ArenaT /\ pinMax \in Nat /\ heap \in HeapT /\ pool \in Seq(Bufs)
  /\ registered \in SUBSET Bufs /\ pinned = registered
  /\ flags.dio \in BOOLEAN
  /\ \A l \in Loaders : \A r \in calls[l] : r.single \in BOOLEAN /\ Plan[r] \in Seq(Pieces)
  /\ ld \in [Loaders -> LoadT] /\ held \in SUBSET SpanT /\ evictor \in SpanT
  /\ doubtful \in BOOLEAN

\* Rounding up does not go below.
LEMMA RoundUpBound ==
  ASSUME NEW n \in Nat
  PROVE  RoundUp(n) \in Nat /\ n <= RoundUp(n)
<1> DEFINE A == DIO_ALIGN
           m == n + A - 1
           q == m \div A
<1>1. A \in Nat \ {0}
  BY PoolAssumption
<1>2. m \in Nat
  BY <1>1
<1>3. q \in Nat /\ (m % A) < A /\ (m % A) \in Nat /\ m = q * A + (m % A)
  <2> HIDE DEF m, A
  <2> QED BY <1>1, <1>2, DivMod
<1> DEFINE r == m % A
           p == q * A
<1>4. RoundUp(n) = p
  BY DEF RoundUp
<1>5. p \in Nat
  BY <1>1, <1>3
<1> HIDE DEF p, q, r
<1>6. n + A - 1 = p + r /\ r \in Nat /\ r < A
  BY <1>3 DEF p, r
<1> QED BY <1>1, <1>4, <1>5, <1>6

-----------------------------------------------------------------------------
(* A span fits the buffer it is set up in *)

\* The size of the buffer a piece is read into.
Size(d, p) == IF d THEN RoundUp((p.off % DIO_ALIGN) + p.len) + DIO_ALIGN ELSE p.len

\* A span set up for a piece in a buffer of the size asked for is what SpanT says,
\* and what is read of it fits the buffer wherever the allocation lies.
LEMMA HeapSpanOk ==
  ASSUME NEW l, NEW p \in Pieces, p # Missing, NEW b \in Bufs
  PROVE  /\ HeapSpan(l, p, b) \in SpanT
         /\ HeapSpan(l, p, b).buf = b
         /\ Want(l, p) = Size(Dio(l), p) /\ Want(l, p) \in Nat /\ Want(l, p) > 0
         /\ HeapSpan(l, p, b).skew + HeapSpan(l, p, b).read_len <= Want(l, p)
<1> DEFINE A == DIO_ALIGN
           pad == Pad(l, p)
           n == ReadLen(l, p)
           sk == Skew(l, b)
           s == HeapSpan(l, p, b)
<1>1. /\ p.file \in Nat /\ p.off \in Nat /\ p.names \in SUBSET DOMAIN Tensor /\ p.len \in Nat
      /\ p.len > 0
      /\ \A m \in p.names : /\ Tensor[m].file = p.file /\ p.off <= Tensor[m].off
                            /\ Tensor[m].off + Tensor[m].nbytes <= p.off + p.len
  BY DEF Pieces
<1>2. A \in Nat \ {0} /\ Addr[b] \in 0..(A - 1) /\ b # NoBuf
  BY PoolAssumption, LoadAssumption
<1>3. pad \in Nat /\ pad <= p.off
  <2>1. (p.off % A) \in Nat /\ (p.off % A) <= p.off
    BY <1>1, <1>2, DivMod
  <2> QED BY <1>1, <2>1 DEF Pad
<1>4. n \in Nat /\ pad + p.len <= n
  <2>1. CASE Dio(l)
    <3>1. pad + p.len \in Nat
      BY <1>1, <1>3
    <3> HIDE DEF pad
    <3>2. RoundUp(pad + p.len) \in Nat /\ pad + p.len <= RoundUp(pad + p.len)
      BY <3>1, RoundUpBound
    <3> QED BY <2>1, <3>2 DEF ReadLen, pad
  <2>2. CASE ~Dio(l)
    BY <1>1, <2>2 DEF ReadLen, Pad
  <2> QED BY <2>1, <2>2
<1>5. sk \in Nat /\ sk <= IF Dio(l) THEN A ELSE 0
  <2>1. CASE Dio(l)
    <3> DEFINE d == A - Addr[b]
    <3>1. d \in Nat
      BY <1>2
    <3> HIDE DEF d
    <3>2. (d % A) \in Nat /\ (d % A) < A
      BY <1>2, <3>1, DivMod
    <3>3. sk = d % A
      BY <2>1 DEF Skew, d
    <3> QED BY <1>2, <2>1, <3>2, <3>3
  <2>2. CASE ~Dio(l)
    BY <2>2 DEF Skew
  <2> QED BY <2>1, <2>2
<1>6. /\ s.file = p.file /\ s.read_off = p.off - pad /\ s.read_len = n /\ s.skew = sk /\ s.buf = b
      /\ s.views = {[name |-> m, at |-> (sk + pad) + Tensor[m].off - p.off] : m \in p.names}
      /\ s = [file |-> p.file, read_off |-> p.off - pad, read_len |-> n, skew |-> sk, buf |-> b,
              views |-> Views(p, sk + pad)]
  BY DEF HeapSpan, Views
<1>7. Want(l, p) = n + IF Dio(l) THEN A ELSE 0
  BY DEF Want
<1>8. Want(l, p) = Size(Dio(l), p)
  <2>1. CASE Dio(l)
    BY <2>1 DEF Want, Size, ReadLen, Pad
  <2>2. CASE ~Dio(l)
    <3>1. Size(Dio(l), p) = p.len
      BY <2>2 DEF Size
    <3>2. Want(l, p) = p.len + 0
      BY <2>2 DEF Want, ReadLen
    <3> QED BY <1>1, <3>1, <3>2
  <2> QED BY <2>1, <2>2
<1> HIDE DEF pad, n, sk
<1>9. s \in SpanT
  <2>1. ASSUME NEW v \in s.views
        PROVE  /\ v \in [name : DOMAIN Tensor, at : Nat]
               /\ Tensor[v.name].file = s.file /\ s.read_off <= Tensor[v.name].off
               /\ v.at = s.skew + (Tensor[v.name].off - s.read_off)
               /\ Tensor[v.name].off + Tensor[v.name].nbytes <= s.read_off + s.read_len
    <3>1. PICK m \in p.names : v = [name |-> m, at |-> (sk + pad) + Tensor[m].off - p.off]
      BY <1>6
    <3>2. v.name = m /\ v.at = (sk + pad) + Tensor[m].off - p.off
      BY <3>1
    <3>3. m \in DOMAIN Tensor /\ Tensor[m].off \in Nat /\ Tensor[m].nbytes \in Nat
      BY <1>1, IndexAssumption
    <3>4. Tensor[m].file = p.file /\ p.off <= Tensor[m].off
          /\ Tensor[m].off + Tensor[m].nbytes <= p.off + p.len
      BY <1>1
    <3>5. (sk + pad) + Tensor[m].off - p.off \in Nat
      BY <1>1, <1>3, <1>5, <3>3, <3>4
    <3>6. (sk + pad) + Tensor[m].off - p.off = sk + (Tensor[m].off - (p.off - pad))
      BY <1>1, <1>3, <1>5, <3>3
    <3>7. p.off - pad <= Tensor[m].off
      BY <1>1, <1>3, <3>3, <3>4
    <3>8. Tensor[m].off + Tensor[m].nbytes <= (p.off - pad) + n
      BY <1>1, <1>3, <1>4, <3>3, <3>4
    <3>9. v \in [name : DOMAIN Tensor, at : Nat]
      BY <3>1, <3>3, <3>5
    <3> HIDE DEF s
    <3> QED BY <1>6, <3>2, <3>4, <3>6, <3>7, <3>8, <3>9
  <2>2. p.off - pad \in Nat
    BY <1>1, <1>3
  <2>3. s.views \in SUBSET [name : DOMAIN Tensor, at : Nat]
    BY <2>1
  <2>4. s \in [file : Nat, read_off : Nat, read_len : Nat, skew : Nat, buf : Bufs \cup {NoBuf},
               views : SUBSET [name : DOMAIN Tensor, at : Nat]]
    <3> HIDE DEF s
    <3>1. Views(p, sk + pad) = s.views
      BY <1>6
    <3> QED BY <1>1, <1>4, <1>5, <1>6, <2>2, <2>3, <3>1
  <2>5. s.buf # NoBuf
    BY <1>2, <1>6
  <2> HIDE DEF s
  <2> QED BY <2>1, <2>4, <2>5 DEF SpanT
<1>10. Want(l, p) \in Nat /\ Want(l, p) > 0 /\ sk + n <= Want(l, p)
  <2>1. CASE Dio(l)
    BY <1>1, <1>2, <1>3, <1>4, <1>5, <1>7, <2>1
  <2>2. CASE ~Dio(l)
    BY <1>1, <1>2, <1>3, <1>4, <1>5, <1>7, <2>2
  <2> QED BY <2>1, <2>2
<1> HIDE DEF s
<1>11. s.skew + s.read_len <= Want(l, p)
  BY <1>6, <1>10
<1> QED BY <1>6, <1>8, <1>9, <1>10, <1>11 DEF s

\* So is a span served from the mapping.
LEMMA MappedSpanOk ==
  ASSUME NEW p \in Pieces
  PROVE  MappedSpan(p) \in SpanT /\ MappedSpan(p).buf = NoBuf
<1> DEFINE s == MappedSpan(p)
<1>1. /\ p.file \in Nat /\ p.off \in Nat /\ p.names \in SUBSET DOMAIN Tensor
      /\ \A m \in p.names : Tensor[m].file = p.file /\ p.off <= Tensor[m].off
  BY DEF Pieces
<1>2. /\ s.file = p.file /\ s.read_off = p.off /\ s.read_len = 0 /\ s.skew = 0 /\ s.buf = NoBuf
      /\ s.views = {[name |-> m, at |-> 0 + Tensor[m].off - p.off] : m \in p.names}
      /\ s = [file |-> p.file, read_off |-> p.off, read_len |-> 0, skew |-> 0, buf |-> NoBuf,
              views |-> Views(p, 0)]
  BY DEF MappedSpan, Views
<1>3. ASSUME NEW v \in s.views
      PROVE  /\ v \in [name : DOMAIN Tensor, at : Nat]
             /\ Tensor[v.name].file = s.file /\ s.read_off <= Tensor[v.name].off
             /\ v.at = s.skew + (Tensor[v.name].off - s.read_off)
  <2>1. PICK m \in p.names : v = [name |-> m, at |-> 0 + Tensor[m].off - p.off]
    BY <1>2
  <2>2. v.name = m /\ v.at = 0 + Tensor[m].off - p.off
    BY <2>1
  <2>3. m \in DOMAIN Tensor /\ Tensor[m].off \in Nat
    BY <1>1, IndexAssumption
  <2>4. Tensor[m].file = p.file /\ p.off <= Tensor[m].off
    BY <1>1
  <2>5. 0 + Tensor[m].off - p.off \in Nat /\ 0 + Tensor[m].off - p.off = 0 + (Tensor[m].off - p.off)
    BY <1>1, <2>3, <2>4
  <2>6. v \in [name : DOMAIN Tensor, at : Nat]
    BY <2>1, <2>3, <2>5
  <2> HIDE DEF s
  <2> QED BY <1>2, <2>2, <2>4, <2>5, <2>6
<1> HIDE DEF s
<1>4. s \in [file : Nat, read_off : Nat, read_len : Nat, skew : Nat, buf : Bufs \cup {NoBuf},
             views : SUBSET [name : DOMAIN Tensor, at : Nat]]
  <2>1. Views(p, 0) = s.views /\ s.views \in SUBSET [name : DOMAIN Tensor, at : Nat]
    BY <1>2, <1>3
  <2> QED BY <1>1, <1>2, <2>1
<1>5. s \in SpanT
  BY <1>2, <1>3, <1>4 DEF SpanT
<1> QED BY <1>2, <1>5 DEF s

\* The blank records of the model have their types; a blank buffer has the length asked for.
LEMMA Blanks ==
  /\ NoSpan \in SpanT /\ Idle \in LoadT
  /\ \A n \in Nat : Blank(n) \in Seq(Bytes) /\ Len(Blank(n)) = n
<1>1. NoSpan \in SpanT
  BY DEF NoSpan, SpanT, NoBuf
<1>2. Idle \in LoadT
  BY DEF Idle, LoadT, NoBuf
<1>3. ASSUME NEW n \in Nat PROVE Blank(n) \in Seq(Bytes) /\ Len(Blank(n)) = n
  <2>1. Unread \in Bytes
    BY DEF Unread, Bytes
  <2> QED BY <2>1 DEF Blank
<1> QED BY <1>1, <1>2, <1>3

-----------------------------------------------------------------------------
(* Reading the tiles of a span *)

\* The end of a tile is the smaller of two numbers.
LEMMA MinTwo ==
  ASSUME NEW a \in Nat, NEW b \in Nat
  PROVE  Min({a, b}) = IF a <= b THEN a ELSE b
<1> DEFINE m == IF a <= b THEN a ELSE b
<1>1. m \in {a, b} /\ \A y \in {a, b} : m <= y
  OBVIOUS
<1>2. \A x \in {a, b} : (\A y \in {a, b} : x <= y) => x = m
  OBVIOUS
<1> HIDE DEF m
<1>3. (CHOOSE x \in {a, b} : \A y \in {a, b} : x <= y) = m
  BY <1>1, <1>2
<1>4. Min({a, b}) = m
  BY <1>3, Zenon DEF Min
<1> QED BY <1>4 DEF m

\* The span's bytes are in the buffer, as far as the file has them.
Read(h, s) ==
  s.buf # NoBuf => \A o \in 0..(s.read_len - 1) :
    s.read_off + o < FileLen[s.file] => h[s.buf].data[s.skew + o + 1] = <<s.file, s.read_off + o>>

\* A buffer keeps its length, and every byte of the file that belongs to the span
\* is written: the tiles leave no gap.
LEMMA FilledOk ==
  ASSUME NEW s \in SpanT, NEW data \in Seq(Bytes)
  PROVE  /\ Filled(s, data) \in Seq(Bytes) /\ Len(Filled(s, data)) = Len(data)
         /\ s.skew + s.read_len <= Len(data) =>
              \A o \in 0..(s.read_len - 1) : s.read_off + o < FileLen[s.file] =>
                Filled(s, data)[s.skew + o + 1] = <<s.file, s.read_off + o>>
<1> DEFINE R == READ_SUB
           F == FileLen[s.file]
           tile(o) == {k \in Tiles(s) : o >= k * R /\ o < TileEnd(s, k)}
           Byte(i) == IF tile(i - 1 - s.skew) # {} /\ s.read_off + (i - 1 - s.skew) < F
                      THEN <<s.file, s.read_off + (i - 1 - s.skew)>> ELSE data[i]
           f == [i \in 1..Len(data) |-> Byte(i)]
<1>1. s.file \in Nat /\ s.read_off \in Nat /\ s.read_len \in Nat /\ s.skew \in Nat
  BY DEF SpanT
<1>2. R \in Nat \ {0} /\ Len(data) \in Nat
  BY LoadAssumption
<1>3. Filled(s, data) = f
  BY DEF Filled
<1>4. ASSUME NEW i \in 1..Len(data) PROVE Byte(i) \in Bytes
  <2> DEFINE o == i - 1 - s.skew
  <2>1. o \in Int
    BY <1>1, <1>2
  <2>2. CASE tile(o) # {} /\ s.read_off + o < F
    <3>1. PICK k \in Tiles(s) : o >= k * R
      BY <2>2
    <3>2. k \in Nat
      BY <1>1 DEF Tiles
    <3>3. k * R \in Nat
      BY <1>2, <3>2
    <3> HIDE DEF o
    <3>4. o \in Nat
      BY <2>1, <3>1, <3>3
    <3>5. s.read_off + o \in Nat
      BY <1>1, <3>4
    <3>6. <<s.file, s.read_off + o>> \in Bytes
      BY <1>1, <3>5 DEF Bytes
    <3>7. Byte(i) = <<s.file, s.read_off + o>>
      BY <2>2 DEF o
    <3> QED BY <3>6, <3>7
  <2>3. CASE ~(tile(o) # {} /\ s.read_off + o < F)
    <3>1. Byte(i) = data[i]
      BY <2>3
    <3>2. data[i] \in Bytes
      BY <1>2
    <3> QED BY <3>1, <3>2
  <2> QED BY <2>2, <2>3
<1>5. f \in Seq(Bytes) /\ Len(f) = Len(data)
  <2> HIDE DEF Byte
  <2> QED BY <1>2, <1>4
<1>6. ASSUME s.skew + s.read_len <= Len(data), NEW o \in 0..(s.read_len - 1), s.read_off + o < F
      PROVE  f[s.skew + o + 1] = <<s.file, s.read_off + o>>
  <2> DEFINE i == s.skew + o + 1
             k == o \div R
  <2>1. i \in 1..Len(data) /\ i - 1 - s.skew = o /\ o \in Nat
    BY <1>1, <1>2, <1>6
  <2>2. k \in Nat /\ k * R <= o /\ o < k * R + R
    <3>1. k \in Nat /\ (o % R) \in Nat /\ (o % R) < R /\ o = k * R + (o % R)
      BY <1>2, <2>1, DivMod
    <3> DEFINE r == o % R
               q == k * R
    <3>2. q \in Nat
      BY <1>2, <3>1
    <3> HIDE DEF r, q, k
    <3>3. o = q + r /\ r \in Nat /\ r < R /\ k \in Nat
      BY <3>1 DEF r, q
    <3>4. q <= o /\ o < q + R
      BY <1>2, <2>1, <3>2, <3>3
    <3> QED BY <3>3, <3>4 DEF q
  <2> HIDE DEF k
  <2> DEFINE q == k * R
  <2>3. q \in Nat /\ (k + 1) * R = q + R /\ k <= q
    <3>1. q \in Nat /\ (k + 1) * R = q + R
      BY <1>2, <2>2
    <3>2. k <= q
      BY <1>2, <2>2
    <3> QED BY <3>1, <3>2
  <2> HIDE DEF q
  <2>4. q <= o /\ o < q + R
    BY <2>2 DEF q
  <2>5. k \in Tiles(s)
    <3>1. k \in 0..s.read_len /\ q < s.read_len
      BY <1>1, <2>1, <2>2, <2>3, <2>4
    <3> QED BY <3>1 DEF Tiles, q
  <2>6. o < TileEnd(s, k)
    <3>1. TileEnd(s, k) = IF s.read_len <= q + R THEN s.read_len ELSE q + R
      <4>1. q + R \in Nat
        BY <1>2, <2>3
      <4>2. TileEnd(s, k) = Min({s.read_len, q + R})
        BY <2>3 DEF TileEnd
      <4> QED BY <1>1, <4>1, <4>2, MinTwo
    <3> QED BY <1>1, <2>1, <2>4, <3>1
  <2>7. k \in tile(o)
    BY <2>4, <2>5, <2>6 DEF q
  <2>8. Byte(i) = <<s.file, s.read_off + o>>
    <3>1. tile(o) # {}
      BY <2>7
    <3> HIDE DEF i, tile
    <3> QED BY <1>6, <2>1, <3>1
  <2> QED BY <2>1, <2>8
<1> HIDE DEF f
<1> QED BY <1>3, <1>5, <1>6

\* Reading the tiles of some spans leaves every capacity and every length, does
\* not touch other buffers, and leaves the bytes of each of these spans in its buffer.
LEMMA AfterOk ==
  ASSUME heap \in HeapT, NEW S \in SUBSET SpanT
  PROVE  /\ After(S) \in HeapT
         /\ \A b \in Bufs : /\ After(S)[b].cap = heap[b].cap
                            /\ Len(After(S)[b].data) = Len(heap[b].data)
                            /\ (\A s \in S : s.buf # b) => After(S)[b] = heap[b]
         /\ \A s \in S :
              (/\ s.buf # NoBuf => s.skew + s.read_len <= Len(heap[s.buf].data)
               /\ \A t \in S : t.buf = s.buf => t = s \/ s.buf = NoBuf)
              => Read(After(S), s)
<1> DEFINE g == After(S)
           own(b) == CHOOSE s \in S : s.buf = b
<1>1. ASSUME NEW b \in Bufs PROVE heap[b] \in [cap : Nat, data : Seq(Bytes)]
  BY DEF HeapT
<1>2. g = [b \in Bufs |-> IF \E s \in S : s.buf = b
                          THEN [heap[b] EXCEPT !.data = Filled(own(b), @)] ELSE heap[b]]
  BY DEF After
<1>3. ASSUME NEW b \in Bufs, \A s \in S : s.buf # b PROVE g[b] = heap[b]
  BY <1>2, <1>3
<1>4. ASSUME NEW b \in Bufs, \E s \in S : s.buf = b
      PROVE  /\ own(b) \in S /\ own(b).buf = b
             /\ g[b] \in [cap : Nat, data : Seq(Bytes)]
             /\ g[b].cap = heap[b].cap /\ g[b].data = Filled(own(b), heap[b].data)
             /\ Len(g[b].data) = Len(heap[b].data)
  <2>1. own(b) \in S /\ own(b).buf = b
    BY <1>4
  <2> HIDE DEF own
  <2>2. g[b] = [heap[b] EXCEPT !.data = Filled(own(b), @)]
    BY <1>2, <1>4
  <2>3. Filled(own(b), heap[b].data) \in Seq(Bytes)
        /\ Len(Filled(own(b), heap[b].data)) = Len(heap[b].data)
    BY <1>1, <2>1, FilledOk
  <2> HIDE DEF g
  <2> QED BY <1>1, <2>1, <2>2, <2>3
<1> HIDE DEF own
<1>5. g \in HeapT
  <2>1. \A b \in Bufs : g[b] \in [cap : Nat, data : Seq(Bytes)]
    <3> TAKE b \in Bufs
    <3>1. CASE \A s \in S : s.buf # b
      <4> HIDE DEF g
      <4> QED BY <1>1, <1>3, <3>1
    <3>2. CASE \E s \in S : s.buf = b
      <4> HIDE DEF g
      <4> QED BY <1>4, <3>2
    <3> QED BY <3>1, <3>2
  <2>2. g = [b \in Bufs |-> g[b]]
    BY <1>2
  <2> HIDE DEF g
  <2> QED BY <2>1, <2>2 DEF HeapT
<1> HIDE DEF g
<1>6. \A b \in Bufs : g[b].cap = heap[b].cap /\ Len(g[b].data) = Len(heap[b].data)
  <2> TAKE b \in Bufs
  <2>1. CASE \A s \in S : s.buf # b
    BY <1>3, <2>1
  <2>2. CASE \E s \in S : s.buf = b
    BY <1>4, <2>2
  <2> QED BY <2>1, <2>2
<1>7. ASSUME NEW s \in S, s.buf # NoBuf => s.skew + s.read_len <= Len(heap[s.buf].data),
             \A t \in S : t.buf = s.buf => t = s \/ s.buf = NoBuf
      PROVE  Read(g, s)
  <2>1. SUFFICES ASSUME s.buf # NoBuf, NEW o \in 0..(s.read_len - 1),
                        s.read_off + o < FileLen[s.file]
                 PROVE  g[s.buf].data[s.skew + o + 1] = <<s.file, s.read_off + o>>
    BY DEF Read
  <2>2. s \in SpanT /\ s.buf \in Bufs
    BY <2>1 DEF SpanT
  <2>3. own(s.buf) = s /\ g[s.buf].data = Filled(s, heap[s.buf].data)
    BY <1>4, <1>7, <2>1, <2>2
  <2>4. heap[s.buf].data \in Seq(Bytes)
    BY <1>1, <2>2
  <2>5. Filled(s, heap[s.buf].data)[s.skew + o + 1] = <<s.file, s.read_off + o>>
    BY <1>7, <2>1, <2>2, <2>4, FilledOk
  <2> QED BY <2>3, <2>5
<1> QED BY <1>3, <1>5, <1>6, <1>7 DEF g

\* The first fit is a position of the pool whose buffer is large enough.
LEMMA FitOk ==
  ASSUME heap \in HeapT, pool \in Seq(Bufs), NEW len \in Nat, Fit(len) > 0
  PROVE  Fit(len) \in 1..Len(pool) /\ pool[Fit(len)] \in Bufs /\ heap[pool[Fit(len)]].cap >= len
<1> DEFINE I == {i \in 1..Len(pool) : heap[pool[i]].cap >= len}
           m == Min(I)
<1>1. Fit(len) = IF I # {} THEN m ELSE 0
  BY Zenon DEF Fit, SelectInSeq
<1>2. I # {}
  BY <1>1
<1>3. I \in SUBSET Nat
  OBVIOUS
<1>4. m \in I
  <2> HIDE DEF I
  <2>1. \E x \in I : \A y \in I : x <= y
    BY <1>2, <1>3, Smallest
  <2>2. m = CHOOSE x \in I : \A y \in I : x <= y
    BY Zenon DEF Min
  <2> HIDE DEF m
  <2> QED BY <2>1, <2>2
<1> HIDE DEF m
<1>5. Fit(len) = m
  BY <1>1, <1>2
<1> QED BY <1>4, <1>5

\* swap_remove takes exactly the one entry out of a list without repetitions.
LEMMA SwapRemovedOk ==
  ASSUME NEW p \in Seq(Bufs), NEW i \in 1..Len(p), \A j, k \in 1..Len(p) : p[j] = p[k] => j = k
  PROVE  /\ SwapRemoved(p, i) \in Seq(Bufs)
         /\ Len(SwapRemoved(p, i)) = Len(p) - 1
         /\ \A j \in 1..(Len(p) - 1) : /\ \E k \in 1..Len(p) : SwapRemoved(p, i)[j] = p[k]
                                       /\ SwapRemoved(p, i)[j] # p[i]
         /\ \A j, k \in 1..(Len(p) - 1) : SwapRemoved(p, i)[j] = SwapRemoved(p, i)[k] => j = k
<1> DEFINE n == Len(p)
           q == [p EXCEPT ![i] = p[n]]
           r == SwapRemoved(p, i)
<1>1. n \in Nat /\ n >= 1 /\ n \in 1..n /\ p[n] \in Bufs
  OBVIOUS
<1>2. q \in Seq(Bufs) /\ Len(q) = n /\ \A j \in 1..n : q[j] = IF j = i THEN p[n] ELSE p[j]
  BY <1>1
<1>3. r = SubSeq(q, 1, n - 1)
  BY DEF SwapRemoved, Last
<1> HIDE DEF q, r
<1>4. r \in Seq(Bufs) /\ Len(r) = n - 1 /\ \A j \in 1..(n - 1) : r[j] = q[j]
  BY <1>1, <1>2, <1>3
<1>5. \A j \in 1..(n - 1) : r[j] = IF j = i THEN p[n] ELSE p[j]
  BY <1>1, <1>2, <1>4
<1>6. ASSUME NEW j \in 1..(n - 1) PROVE (\E k \in 1..n : r[j] = p[k]) /\ r[j] # p[i]
  <2>1. j \in 1..n /\ j # n
    BY <1>1
  <2>2. CASE j = i
    BY <1>1, <1>5, <2>1, <2>2
  <2>3. CASE j # i
    BY <1>1, <1>5, <2>1, <2>3
  <2> QED BY <2>2, <2>3
<1>7. ASSUME NEW j \in 1..(n - 1), NEW k \in 1..(n - 1), r[j] = r[k] PROVE j = k
  <2>1. j \in 1..n /\ k \in 1..n /\ j # n /\ k # n
    BY <1>1
  <2> QED BY <1>1, <1>5, <1>7, <2>1
<1> QED BY <1>4, <1>6, <1>7 DEF r

-----------------------------------------------------------------------------
(* Who owns a buffer.  The proofs carry two ghost functions: kind says whether *)
(* a buffer is free, pooled, a loader's, referenced by the cache or being      *)
(* dropped by it, and who says which loader's.                                 *)

Kinds == {"free", "pool", "load", "held", "evict"}

\* An owned buffer is allocated, and a locked one is owned.
BufOk(kind, h, reg) ==
  \A b \in Bufs : (kind[b] # "free" => h[b].cap > 0) /\ (b \in reg => kind[b] # "free")

\* The pool lists pooled buffers, each once.
PoolOk(kind, p) ==
  /\ \A i \in 1..Len(p) : kind[p[i]] = "pool"
  /\ \A i, j \in 1..Len(p) : p[i] = p[j] => i = j

\* What is read of a span fits its buffer.
Fits(h, s) == s.buf # NoBuf => s.skew + s.read_len <= Len(h[s.buf].data)

\* A loader owns the buffers of its spans, one for each span.
SpansOk(kind, who, h, k, ss) ==
  /\ \A i \in 1..Len(ss) : /\ ss[i].buf # NoBuf => kind[ss[i].buf] = "load" /\ who[ss[i].buf] = k
                           /\ Fits(h, ss[i])
  /\ \A i, j \in 1..Len(ss) : ss[i].buf = ss[j].buf => i = j \/ ss[i].buf = NoBuf

\* Between pin_alloc's check and its lock the loader has a buffer of its own that
\* is not locked, in no span yet, and of the size it asked for.
RegisterOk(kind, who, h, reg, d, k, r) ==
  r.pc = "register" =>
    /\ r.buf \in Bufs /\ kind[r.buf] = "load" /\ who[r.buf] = k /\ r.buf \notin reg
    /\ \A i \in 1..Len(r.spans) : r.spans[i].buf # r.buf
    /\ r.todo # <<>> /\ Head(r.todo) # Missing
    /\ Len(h[r.buf].data) = Size(d /\ ~r.single, Head(r.todo))

\* What is freed is the first span's buffer, and an arena only frees small ones.
FreeOk(h, a, r) ==
  r.pc = "free" => /\ r.spans # <<>> /\ Head(r.spans).buf # NoBuf
                   /\ a.slots > 0 => h[Head(r.spans).buf].cap < POOL_MIN

\* A single read has read its spans, but for the one it is about to read.
ReadOk(h, r) ==
  /\ r.pc = "idle" => r.spans = <<>>
  /\ r.pc = "read" => r.spans # <<>>
  /\ r.single /\ r.pc \notin {"unwind", "free"} =>
       \A i \in 1..Len(r.spans) : i < Len(r.spans) \/ r.pc # "read" => Read(h, r.spans[i])

\* What holds of the call r of the loader k.
LoadOk(kind, who, h, reg, a, d, k, r) ==
  /\ SpansOk(kind, who, h, k, r.spans) /\ RegisterOk(kind, who, h, reg, d, k, r)
  /\ FreeOk(h, a, r) /\ ReadOk(h, r)

\* The cache owns the buffers of the spans it references, and they have been read.
HeldOk(kind, h, dbt, H) ==
  \A s \in H : /\ s.buf # NoBuf => kind[s.buf] = "held"
               /\ Fits(h, s) /\ (~dbt => Read(h, s))
               /\ \A t \in H : s.buf = t.buf => s = t \/ s.buf = NoBuf

\* The buffer being dropped is one the pool rejected.
EvictOk(kind, h, a, e) ==
  e # NoSpan => /\ e.buf # NoBuf /\ kind[e.buf] = "evict"
                /\ a.slots > 0 => h[e.buf].cap < POOL_MIN

\* The arena's slots are there, and they leave the pool only when they are large
\* enough to come back.
ArenaOk(kind, h, a) ==
  \A b \in 1..a.slots : /\ h[b].cap = a.slot_bytes
                        /\ kind[b] \in {"load", "held", "evict"} => a.slot_bytes >= POOL_MIN

\* All of it, of the whole state.
Own(kind, who, h, reg, p, x, H, e, a, d, dbt) ==
  /\ kind \in [Bufs -> Kinds] /\ who \in [Bufs -> Loaders]
  /\ BufOk(kind, h, reg) /\ PoolOk(kind, p) /\ ArenaOk(kind, h, a)
  /\ \A k \in Loaders : LoadOk(kind, who, h, reg, a, d, k, x[k])
  /\ HeldOk(kind, h, dbt, H) /\ EvictOk(kind, h, a, e)

\* What the reader of a span sees depends on its buffer alone.
LEMMA SameBuffer ==
  ASSUME NEW h, NEW g, NEW s, s.buf # NoBuf => g[s.buf] = h[s.buf]
  PROVE  (Fits(g, s) <=> Fits(h, s)) /\ (Read(g, s) <=> Read(h, s))
BY DEF Fits, Read

\* A loader's part of the invariant depends on its own buffers alone.
LEMMA FrameLoad ==
  ASSUME NEW kind, NEW who, NEW h, NEW reg, NEW kind2, NEW who2, NEW h2, NEW reg2,
         NEW a, NEW d, NEW k, NEW r \in LoadT, LoadOk(kind, who, h, reg, a, d, k, r),
         \A b \in Bufs : kind[b] = "load" /\ who[b] = k =>
           kind2[b] = "load" /\ who2[b] = k /\ h2[b] = h[b] /\ (b \in reg2 => b \in reg)
  PROVE  LoadOk(kind2, who2, h2, reg2, a, d, k, r)
<1>1. r.spans \in Seq(SpanT) /\ \A i \in 1..Len(r.spans) : r.spans[i].buf \in Bufs \cup {NoBuf}
  <2>1. r.spans \in Seq(SpanT)
    BY DEF LoadT
  <2>2. \A i \in 1..Len(r.spans) : r.spans[i] \in SpanT
    BY <2>1
  <2>3. \A s \in SpanT : s.buf \in Bufs \cup {NoBuf}
    BY DEF SpanT
  <2> QED BY <2>1, <2>2, <2>3
<1>2. \A i \in 1..Len(r.spans) : r.spans[i].buf # NoBuf =>
        /\ kind2[r.spans[i].buf] = "load" /\ who2[r.spans[i].buf] = k
        /\ h2[r.spans[i].buf] = h[r.spans[i].buf]
  BY <1>1 DEF LoadOk, SpansOk
<1>3. \A i \in 1..Len(r.spans) : /\ Fits(h2, r.spans[i]) <=> Fits(h, r.spans[i])
                                 /\ Read(h2, r.spans[i]) <=> Read(h, r.spans[i])
  BY <1>2, SameBuffer
<1>4. SpansOk(kind2, who2, h2, k, r.spans)
  BY <1>2, <1>3 DEF LoadOk, SpansOk
<1>5. RegisterOk(kind2, who2, h2, reg2, d, k, r)
  <2>1. SUFFICES ASSUME r.pc = "register" PROVE RegisterOk(kind2, who2, h2, reg2, d, k, r)
    BY DEF RegisterOk
  <2>2. /\ r.buf \in Bufs /\ kind[r.buf] = "load" /\ who[r.buf] = k /\ r.buf \notin reg
        /\ \A i \in 1..Len(r.spans) : r.spans[i].buf # r.buf
        /\ r.todo # <<>> /\ Head(r.todo) # Missing
        /\ Len(h[r.buf].data) = Size(d /\ ~r.single, Head(r.todo))
    BY <2>1 DEF LoadOk, RegisterOk
  <2>3. kind2[r.buf] = "load" /\ who2[r.buf] = k /\ h2[r.buf] = h[r.buf] /\ r.buf \notin reg2
    BY <2>2
  <2> QED BY <2>2, <2>3 DEF RegisterOk
<1>6. FreeOk(h2, a, r)
  <2>1. SUFFICES ASSUME r.pc = "free" PROVE FreeOk(h2, a, r)
    BY DEF FreeOk
  <2>2. r.spans # <<>> /\ Head(r.spans).buf # NoBuf
        /\ (a.slots > 0 => h[Head(r.spans).buf].cap < POOL_MIN)
    BY <2>1 DEF LoadOk, FreeOk
  <2>3. 1 \in 1..Len(r.spans) /\ Head(r.spans) = r.spans[1]
    BY <1>1, <2>2
  <2>4. h2[Head(r.spans).buf] = h[Head(r.spans).buf]
    BY <1>2, <2>2, <2>3
  <2> QED BY <2>2, <2>4 DEF FreeOk
<1>7. ReadOk(h2, r)
  BY <1>3 DEF LoadOk, ReadOk
<1> QED BY <1>4, <1>5, <1>6, <1>7 DEF LoadOk

\* So do the cache's parts.
LEMMA FrameHeld ==
  ASSUME NEW kind, NEW h, NEW kind2, NEW h2, NEW dbt, NEW dbt2, NEW H \in SUBSET SpanT,
         HeldOk(kind, h, dbt, H), dbt => dbt2,
         \A b \in Bufs : kind[b] = "held" => kind2[b] = "held" /\ h2[b] = h[b]
  PROVE  HeldOk(kind2, h2, dbt2, H)
<1>1. \A s \in H : s.buf \in Bufs \cup {NoBuf}
  BY DEF SpanT
<1>2. \A s \in H : s.buf # NoBuf => kind2[s.buf] = "held" /\ h2[s.buf] = h[s.buf]
  BY <1>1 DEF HeldOk
<1>3. \A s \in H : (Fits(h2, s) <=> Fits(h, s)) /\ (Read(h2, s) <=> Read(h, s))
  BY <1>2, SameBuffer
<1> QED BY <1>2, <1>3 DEF HeldOk

\* The buffer being dropped by the cache only has to keep its capacity.
LEMMA FrameEvict ==
  ASSUME NEW kind, NEW h, NEW kind2, NEW h2, NEW a, NEW e \in SpanT, EvictOk(kind, h, a, e),
         \A b \in Bufs : kind[b] = "evict" => kind2[b] = "evict" /\ h2[b].cap = h[b].cap
  PROVE  EvictOk(kind2, h2, a, e)
<1>1. e.buf \in Bufs \cup {NoBuf}
  BY DEF SpanT
<1> QED BY <1>1 DEF EvictOk

-----------------------------------------------------------------------------
(* The inductive invariant *)

\* The buffers whose lock has been allowed and not yet taken.
Pend(x) == {x[k].buf : k \in {k \in Loaders : x[k].pc = "register"}}

\* But for a few buffers, fewer than there are loaders, S is below the ceiling m.
Over(h, S, m) ==
  \E D \in SUBSET Bufs : \E v \in Nat :
    /\ Cardinality(D) <= Cardinality(Loaders) - 1
    /\ IsSum(Share(h, S \ D), Bufs, v) /\ v <= m

\* Some assignment of owners describes the state.
OwnInv == \E kind, who :
  Own(kind, who, heap, registered, pool, ld, held, evictor, arena, flags.dio, doubtful)

\* The counter is what is locked, and what is locked or about to be is below the
\* ceiling but for a buffer of each other loader.
PinInv == /\ IsSum(Share(heap, registered), Bufs, pinBytes)
          /\ Over(heap, registered \cup Pend(ld), pinMax)

\* The inductive invariant.
IInv == TypeInv /\ OwnInv /\ PinInv

\* Fewer buffers, of the same capacities, stay below the ceiling.
LEMMA OverLess ==
  ASSUME NEW h \in HeapT, NEW g \in HeapT, NEW S, NEW T, NEW m \in Nat, Over(h, S, m),
         T \cap Bufs \subseteq S, \A b \in Bufs \cap T : g[b].cap = h[b].cap
  PROVE  Over(g, T, m)
<1>1. PICK D \in SUBSET Bufs, v \in Nat :
        /\ Cardinality(D) <= Cardinality(Loaders) - 1
        /\ IsSum(Share(h, S \ D), Bufs, v) /\ v <= m
  BY DEF Over
<1>2. \A b \in Bufs : h[b].cap \in Nat /\ g[b].cap \in Nat
  BY DEF HeapT
<1> DEFINE f == Share(h, T \ D)
<1>3. \A b \in Bufs : f[b] \in Nat
  BY <1>2 DEF Share
<1>4. PICK w : IsSum(f, Bufs, w)
  <2> HIDE DEF f
  <2> QED BY <1>3, SumExists, PoolAssumption
<1>5. w \in Nat /\ w <= v
  <2>1. w \in Nat
    BY <1>4, SumBounds
  <2>2. Bufs \cap (T \ D) \subseteq S \ D
    OBVIOUS
  <2>3. w <= v
    BY <1>1, <1>2, <1>4, <2>2, ShareLess
  <2> QED BY <2>1, <2>3
<1>6. IsSum(Share(g, T \ D), Bufs, w)
  BY <1>4, ShareSame
<1>7. w <= m
  BY <1>1, <1>5
<1> QED BY <1>1, <1>5, <1>6, <1>7 DEF Over

\* A step in which one loader alone changes, with nothing but its own call.
LEMMA PrivateStep ==
  ASSUME IInv, NEW l \in Loaders, NEW r \in LoadT, ld' = [ld EXCEPT ![l] = r],
         r.pc = "register" => ld[l].pc = "register" /\ r.buf = ld[l].buf,
         \A kind, who : LoadOk(kind, who, heap, registered, arena, flags.dio, l, ld[l]) =>
           LoadOk(kind, who, heap, registered, arena, flags.dio, l, r),
         UNCHANGED <<poolVars, flags, calls, held, evictor>>,
         doubtful' \in BOOLEAN, doubtful => doubtful'
  PROVE  IInv'
<1>1. /\ arena' = arena /\ pinMax' = pinMax /\ heap' = heap /\ pool' = pool
      /\ registered' = registered /\ pinned' = pinned /\ pinBytes' = pinBytes
      /\ flags' = flags /\ calls' = calls /\ held' = held /\ evictor' = evictor
  BY DEF poolVars
<1>2. ld \in [Loaders -> LoadT] /\ held \in SUBSET SpanT
  BY DEF IInv, TypeInv
<1>3. ld' \in [Loaders -> LoadT] /\ ld'[l] = r /\ \A k \in Loaders : k # l => ld'[k] = ld[k]
  BY <1>2
<1>4. TypeInv'
  BY <1>1, <1>3 DEF IInv, TypeInv
<1>5. OwnInv'
  <2>1. PICK kind, who :
          Own(kind, who, heap, registered, pool, ld, held, evictor, arena, flags.dio, doubtful)
    BY DEF IInv, OwnInv
  <2>2. LoadOk(kind, who, heap, registered, arena, flags.dio, l, r)
    BY <2>1 DEF Own
  <2>3. \A k \in Loaders : LoadOk(kind, who, heap, registered, arena, flags.dio, k, ld'[k])
    BY <1>3, <2>1, <2>2 DEF Own
  <2>4. HeldOk(kind, heap, doubtful', held)
    BY <1>2, <2>1, FrameHeld DEF Own
  <2>5. Own(kind, who, heap, registered, pool, ld', held, evictor, arena, flags.dio, doubtful')
    BY <2>1, <2>3, <2>4 DEF Own
  <2> QED BY <1>1, <2>5 DEF OwnInv
<1>6. PinInv'
  <2>1. Pend(ld') \subseteq Pend(ld)
    BY <1>3 DEF Pend
  <2>2. (registered \cup Pend(ld')) \cap Bufs \subseteq registered \cup Pend(ld)
    BY <2>1
  <2>3. Over(heap, registered \cup Pend(ld'), pinMax)
    BY <2>2, OverLess DEF IInv, TypeInv, PinInv
  <2> QED BY <1>1, <2>3 DEF IInv, PinInv
<1> QED BY <1>4, <1>5, <1>6 DEF IInv

-----------------------------------------------------------------------------
(* Steps of a loader that touch no buffer *)

\* The fields of a loader's call, and of its spans, have their types.
LEMMA LoaderTypes ==
  ASSUME TypeInv, NEW l \in Loaders
  PROVE  /\ ld \in [Loaders -> LoadT] /\ ld[l] \in LoadT
         /\ ld[l].pc \in {"idle", "span", "wait", "register", "read", "pool", "unwind", "free"}
         /\ ld[l].single \in BOOLEAN /\ ld[l].todo \in Seq(Pieces) /\ ld[l].spans \in Seq(SpanT)
         /\ ld[l].buf \in Bufs \cup {NoBuf} /\ ld[l].spins \in Nat
         /\ \A i \in 1..Len(ld[l].spans) :
              ld[l].spans[i] \in SpanT /\ ld[l].spans[i].buf \in Bufs \cup {NoBuf}
<1>1. ld \in [Loaders -> LoadT] /\ ld[l] \in LoadT
  BY DEF TypeInv
<1>2. /\ ld[l].pc \in {"idle", "span", "wait", "register", "read", "pool", "unwind", "free"}
      /\ ld[l].single \in BOOLEAN /\ ld[l].todo \in Seq(Pieces) /\ ld[l].spans \in Seq(SpanT)
      /\ ld[l].buf \in Bufs \cup {NoBuf} /\ ld[l].spins \in Nat
  BY <1>1 DEF LoadT
<1>3. \A i \in 1..Len(ld[l].spans) : ld[l].spans[i] \in SpanT
  BY <1>2
<1>4. \A s \in SpanT : s.buf \in Bufs \cup {NoBuf}
  BY DEF SpanT
<1> QED BY <1>1, <1>2, <1>3, <1>4

\* A call that fails keeps its spans, to be dropped; so does one whose ring failed,
\* and one that waits.
LEMMA UnwindOk ==
  ASSUME IInv, NEW l \in Loaders, Unwind(l), ld[l].pc # "free",
         UNCHANGED <<poolVars, flags, calls, held, evictor, doubtful>>
  PROVE  IInv'
<1> DEFINE none == <<>>
           r == [ld[l] EXCEPT !.pc = "unwind", !.todo = none]
<1>0. TypeInv
  BY DEF IInv
<1>1. none \in Seq(Pieces) /\ ld' = [ld EXCEPT ![l].pc = "unwind", ![l].todo = none]
  BY DEF Unwind
<1> HIDE DEF none
<1>2. ld' = [ld EXCEPT ![l] = r]
  BY <1>0, <1>1, LoaderTypes
<1>3. r.pc = "unwind" /\ r.spans = ld[l].spans /\ r \in LoadT
  BY <1>0, <1>1, LoaderTypes DEF LoadT
<1> HIDE DEF r
<1>4. ASSUME NEW kind, NEW who, LoadOk(kind, who, heap, registered, arena, flags.dio, l, ld[l])
      PROVE  LoadOk(kind, who, heap, registered, arena, flags.dio, l, r)
  BY <1>3, <1>4 DEF LoadOk, RegisterOk, FreeOk, ReadOk
<1>5. /\ UNCHANGED <<poolVars, flags, calls, held, evictor>>
      /\ doubtful' \in BOOLEAN /\ (doubtful => doubtful')
  BY <1>0 DEF TypeInv
<1> QED BY <1>2, <1>3, <1>4, <1>5, PrivateStep

\* A call begins with the plan of its groups, and no spans.
LEMMA BeginOk ==
  ASSUME IInv, NEW l \in Loaders, Begin(l)
  PROVE  IInv'
<1>0. TypeInv
  BY DEF IInv
<1>1. PICK c \in calls[l] :
        ld' = [ld EXCEPT ![l].pc = "span", ![l].single = c.single, ![l].todo = Plan[c]]
  BY DEF Begin
<1> DEFINE one == c.single
           todo == Plan[c]
           r == [ld[l] EXCEPT !.pc = "span", !.single = one, !.todo = todo]
<1>2. one \in BOOLEAN /\ todo \in Seq(Pieces)
  BY <1>0 DEF TypeInv
<1>3. ld' = [ld EXCEPT ![l].pc = "span", ![l].single = one, ![l].todo = todo]
  BY <1>1
<1> HIDE DEF one, todo
<1>4. ld' = [ld EXCEPT ![l] = r]
  BY <1>0, <1>3, LoaderTypes
<1>5. r.pc = "span" /\ r.spans = ld[l].spans /\ r \in LoadT
  BY <1>0, <1>2, LoaderTypes DEF LoadT
<1> HIDE DEF r
<1>6. ld[l].pc = "idle"
  BY DEF Begin
<1>7. ASSUME NEW kind, NEW who, LoadOk(kind, who, heap, registered, arena, flags.dio, l, ld[l])
      PROVE  LoadOk(kind, who, heap, registered, arena, flags.dio, l, r)
  <2>1. ld[l].spans = <<>>
    BY <1>6, <1>7 DEF LoadOk, ReadOk
  <2> QED BY <1>5, <1>7, <2>1 DEF LoadOk, RegisterOk, FreeOk, ReadOk
<1>8. /\ UNCHANGED <<poolVars, flags, calls, held, evictor>>
      /\ doubtful' \in BOOLEAN /\ (doubtful => doubtful')
  BY <1>0 DEF Begin, TypeInv
<1> QED BY <1>4, <1>5, <1>7, <1>8, PrivateStep

\* A mapped span needs no buffer, and is read from the start.
LEMMA MapSpanOk ==
  ASSUME IInv, NEW l \in Loaders, MapSpan(l)
  PROVE  IInv'
<1>0. TypeInv
  BY DEF IInv
<1> DEFINE s == MappedSpan(Head(ld[l].todo))
           ss == Append(ld[l].spans, s)
           rest == Tail(ld[l].todo)
           r == [ld[l] EXCEPT !.todo = rest, !.spans = ss]
<1>1. ld[l].pc = "span" /\ ld[l].todo # <<>>
  BY DEF MapSpan, Pending
<1>2. Head(ld[l].todo) \in Pieces /\ rest \in Seq(Pieces)
  BY <1>0, <1>1, LoaderTypes
<1>3. s \in SpanT /\ s.buf = NoBuf
  BY <1>2, MappedSpanOk
<1>4. ld' = [ld EXCEPT ![l].todo = rest, ![l].spans = ss]
  BY <1>0, LoaderTypes DEF MapSpan
<1> HIDE DEF s, rest
<1>5. /\ ss \in Seq(SpanT) /\ Len(ss) = Len(ld[l].spans) + 1 /\ Len(ld[l].spans) \in Nat
      /\ \A i \in 1..Len(ss) : ss[i] = IF i \in 1..Len(ld[l].spans) THEN ld[l].spans[i] ELSE s
  BY <1>0, <1>3, LoaderTypes
<1> HIDE DEF ss
<1>6. ld' = [ld EXCEPT ![l] = r]
  BY <1>0, <1>4, LoaderTypes
<1>7. r.pc = "span" /\ r.spans = ss /\ r.single = ld[l].single /\ r \in LoadT
  BY <1>0, <1>1, <1>2, <1>5, LoaderTypes DEF LoadT
<1> HIDE DEF r
<1>8. ASSUME NEW kind, NEW who, LoadOk(kind, who, heap, registered, arena, flags.dio, l, ld[l])
      PROVE  LoadOk(kind, who, heap, registered, arena, flags.dio, l, r)
  <2>1. SpansOk(kind, who, heap, l, ss)
    <3>1. SpansOk(kind, who, heap, l, ld[l].spans)
      BY <1>8 DEF LoadOk
    <3>2. Fits(heap, s)
      BY <1>3 DEF Fits
    <3> QED BY <1>3, <1>5, <3>1, <3>2 DEF SpansOk
  <2>2. ReadOk(heap, r)
    <3>1. ld[l].single => \A i \in 1..Len(ld[l].spans) : Read(heap, ld[l].spans[i])
      BY <1>1, <1>8 DEF LoadOk, ReadOk
    <3>2. Read(heap, s)
      BY <1>3 DEF Read
    <3> QED BY <1>5, <1>7, <3>1, <3>2 DEF ReadOk
  <2> QED BY <1>7, <2>1, <2>2 DEF LoadOk, RegisterOk, FreeOk
<1>9. /\ UNCHANGED <<poolVars, flags, calls, held, evictor>>
      /\ doubtful' \in BOOLEAN /\ (doubtful => doubtful')
  BY <1>0 DEF MapSpan, TypeInv
<1> QED BY <1>6, <1>7, <1>8, <1>9, PrivateStep

\* A caller that waits for an arena slot keeps what it has.
LEMMA WaitOk ==
  ASSUME IInv, NEW l \in Loaders, Wait(l)
  PROVE  IInv'
<1>0. TypeInv
  BY DEF IInv
<1> DEFINE n == IF ld[l].spins < SPINS THEN ld[l].spins + 1 ELSE SPINS
           r == [ld[l] EXCEPT !.pc = "wait", !.spins = n]
<1>1. ld[l].pc \in {"span", "wait"}
  BY DEF Wait, Pending
<1>2. n \in Nat
  BY <1>0, LoaderTypes, PoolAssumption
<1>3. ld' = [ld EXCEPT ![l].pc = "wait", ![l].spins = n]
  BY <1>0, LoaderTypes DEF Wait
<1> HIDE DEF n
<1>4. ld' = [ld EXCEPT ![l] = r]
  BY <1>0, <1>3, LoaderTypes
<1>5. r.pc = "wait" /\ r.spans = ld[l].spans /\ r.single = ld[l].single /\ r \in LoadT
  BY <1>0, <1>2, LoaderTypes DEF LoadT
<1> HIDE DEF r
<1>6. ASSUME NEW kind, NEW who, LoadOk(kind, who, heap, registered, arena, flags.dio, l, ld[l])
      PROVE  LoadOk(kind, who, heap, registered, arena, flags.dio, l, r)
  BY <1>1, <1>5, <1>6 DEF LoadOk, RegisterOk, FreeOk, ReadOk
<1>7. /\ UNCHANGED <<poolVars, flags, calls, held, evictor>>
      /\ doubtful' \in BOOLEAN /\ (doubtful => doubtful')
  BY <1>0 DEF Wait, TypeInv
<1> QED BY <1>4, <1>5, <1>6, <1>7, PrivateStep

\* After a ring that failed the batch is still the loader's, in the same buffers.
LEMMA RingFailsOk ==
  ASSUME IInv, NEW l \in Loaders, RingFails(l)
  PROVE  IInv'
<1>0. TypeInv
  BY DEF IInv
<1> DEFINE r == [ld[l] EXCEPT !.pc = "pool"]
<1>1. ld[l].pc = "span" /\ ~ld[l].single
  BY DEF RingFails, SetUp, Dio
<1>2. ld' = [ld EXCEPT ![l] = r]
  BY <1>0, LoaderTypes DEF RingFails
<1>3. r.pc = "pool" /\ r.spans = ld[l].spans /\ r.single = ld[l].single /\ r \in LoadT
  BY <1>0, LoaderTypes DEF LoadT
<1> HIDE DEF r
<1>4. ASSUME NEW kind, NEW who, LoadOk(kind, who, heap, registered, arena, flags.dio, l, ld[l])
      PROVE  LoadOk(kind, who, heap, registered, arena, flags.dio, l, r)
  BY <1>1, <1>3, <1>4 DEF LoadOk, RegisterOk, FreeOk, ReadOk
<1>5. /\ UNCHANGED <<poolVars, flags, calls, held, evictor>>
      /\ doubtful' \in BOOLEAN /\ (doubtful => doubtful')
  BY <1>0 DEF RingFails, TypeInv
<1> QED BY <1>2, <1>3, <1>4, <1>5, PrivateStep

\* A failed call has dropped all its spans when it returns.
LEMMA FailOk ==
  ASSUME IInv, NEW l \in Loaders, Fail(l)
  PROVE  IInv'
<1>0. TypeInv
  BY DEF IInv
<1>1. ld' = [ld EXCEPT ![l] = Idle] /\ Idle \in LoadT
  BY Blanks DEF Fail
<1>2. Idle.pc = "idle" /\ Idle.spans = <<>> /\ Idle.single = FALSE
  BY DEF Idle
<1>3. ASSUME NEW kind, NEW who
      PROVE  LoadOk(kind, who, heap, registered, arena, flags.dio, l, Idle)
  BY <1>2 DEF LoadOk, SpansOk, RegisterOk, FreeOk, ReadOk
<1>4. /\ UNCHANGED <<poolVars, flags, calls, held, evictor>>
      /\ doubtful' \in BOOLEAN /\ (doubtful => doubtful')
  BY <1>0 DEF Fail, TypeInv
<1> QED BY <1>1, <1>2, <1>3, <1>4, PrivateStep

-----------------------------------------------------------------------------
(* Steps of a loader that take or use a buffer *)

\* Loader l's call becomes r, and nobody else's changes.
Turns(l, r) == ld' = [ld EXCEPT ![l] = r]

\* The buffers of the other loaders, and of the evictor, stay as they are.
OthersKeep(l, kind, who, h, reg, kind2, who2, g, reg2) ==
  \A c \in Bufs : (kind[c] = "load" /\ who[c] # l) \/ kind[c] = "evict" =>
    kind2[c] = kind[c] /\ who2[c] = who[c] /\ g[c] = h[c] /\ (c \in reg2 => c \in reg)

\* Loader l's own buffers, but for b, stay as they are.
OwnKeep(l, b, kind, who, h, kind2, who2, g) ==
  \A c \in Bufs \ {b} : kind[c] = "load" /\ who[c] = l =>
    kind2[c] = "load" /\ who2[c] = l /\ g[c] = h[c]

\* No span of ss has the buffer b.
NotIn(b, ss) == \A i \in 1..Len(ss) : ss[i].buf # b

\* A step of the loader l that touches no buffer of another loader.
LEMMA OwnStep ==
  ASSUME TypeInv, NEW kind, NEW who, NEW l \in Loaders, NEW r,
         Own(kind, who, heap, registered, pool, ld, held, evictor, arena, flags.dio, doubtful),
         NEW kind2 \in [Bufs -> Kinds], NEW who2 \in [Bufs -> Loaders], Turns(l, r),
         OthersKeep(l, kind, who, heap, registered, kind2, who2, heap', registered'),
         BufOk(kind2, heap', registered'), PoolOk(kind2, pool'), ArenaOk(kind2, heap', arena),
         LoadOk(kind2, who2, heap', registered', arena, flags.dio, l, r),
         HeldOk(kind2, heap', doubtful', held'),
         arena' = arena, flags' = flags, evictor' = evictor
  PROVE  OwnInv'
<1>1. ld \in [Loaders -> LoadT] /\ evictor \in SpanT
  BY DEF TypeInv
<1>2. ASSUME NEW k \in Loaders
      PROVE  LoadOk(kind2, who2, heap', registered', arena, flags.dio, k, ld'[k])
  <2>1. CASE k = l
    BY <1>1, <2>1 DEF Turns
  <2>2. CASE k # l
    <3>1. ld'[k] = ld[k] /\ ld[k] \in LoadT
      BY <1>1, <2>2 DEF Turns
    <3>2. LoadOk(kind, who, heap, registered, arena, flags.dio, k, ld[k])
      BY DEF Own
    <3>3. \A b \in Bufs : kind[b] = "load" /\ who[b] = k =>
            /\ kind2[b] = "load" /\ who2[b] = k /\ heap'[b] = heap[b]
            /\ b \in registered' => b \in registered
      BY <2>2 DEF OthersKeep
    <3>4. LoadOk(kind2, who2, heap', registered', arena, flags.dio, k, ld[k])
      BY <3>1, <3>2, <3>3, FrameLoad
    <3> QED BY <3>1, <3>4
  <2> QED BY <2>1, <2>2
<1>3. EvictOk(kind2, heap', arena, evictor)
  <2>1. \A b \in Bufs : kind[b] = "evict" => kind2[b] = "evict" /\ heap'[b].cap = heap[b].cap
    BY DEF OthersKeep
  <2>2. EvictOk(kind, heap, arena, evictor)
    BY DEF Own
  <2> QED BY <1>1, <2>1, <2>2, FrameEvict
<1>4. Own(kind2, who2, heap', registered', pool', ld', held', evictor, arena, flags.dio, doubtful')
  BY <1>2, <1>3 DEF Own
<1> QED BY <1>4 DEF OwnInv

\* The loader's call once a buffer of the right size is its own: the next span.
LEMMA GotOk ==
  ASSUME TypeInv, NEW l \in Loaders, NEW b \in Bufs, Got(l, b),
         ld[l].pc \in {"span", "wait", "register"}, ld[l].todo # <<>>, Head(ld[l].todo) # Missing,
         NEW kind, NEW who, NEW h, NEW reg, NEW a, NEW d, NEW kind2, NEW who2, NEW g, NEW reg2,
         LoadOk(kind, who, h, reg, a, d, l, ld[l]),
         OwnKeep(l, b, kind, who, h, kind2, who2, g), NotIn(b, ld[l].spans),
         kind2[b] = "load", who2[b] = l, Len(g[b].data) = Want(l, Head(ld[l].todo))
  PROVE  \E r \in LoadT : /\ Turns(l, r) /\ r.pc # "register"
                          /\ LoadOk(kind2, who2, g, reg2, a, d, l, r)
<1> DEFINE p == Head(ld[l].todo)
           s == HeapSpan(l, p, b)
           old == ld[l].spans
           ss == Append(old, s)
           rest == Tail(ld[l].todo)
           pc == IF ld[l].single THEN "read" ELSE "span"
           zero == 0
           r == [ld[l] EXCEPT !.pc = pc, !.buf = NoBuf, !.spins = zero, !.todo = rest, !.spans = ss]
<1>1. p \in Pieces /\ rest \in Seq(Pieces)
  BY LoaderTypes
<1>2. s \in SpanT /\ s.buf = b /\ s.skew + s.read_len <= Want(l, p)
  BY <1>1, HeapSpanOk
<1>3. ld' = [ld EXCEPT ![l].pc = pc, ![l].buf = NoBuf, ![l].spins = zero, ![l].todo = rest,
                       ![l].spans = ss]
  BY LoaderTypes DEF Got
<1>4. b # NoBuf
  BY LoadAssumption
<1> HIDE DEF s, rest
<1>5. /\ old \in Seq(SpanT) /\ ss \in Seq(SpanT) /\ Len(ss) = Len(old) + 1 /\ Len(old) \in Nat
      /\ \A i \in 1..Len(ss) : ss[i] = IF i \in 1..Len(old) THEN old[i] ELSE s
  BY <1>2, LoaderTypes
<1>6. pc \in {"read", "span"} /\ (pc = "read" <=> ld[l].single) /\ zero \in Nat
  BY LoaderTypes
<1> HIDE DEF ss, pc, zero
<1>7. Turns(l, r)
  BY <1>3, LoaderTypes DEF Turns
<1>8. r.pc = pc /\ r.spans = ss /\ r.single = ld[l].single /\ r \in LoadT
  <2> DEFINE x == ld[l]
  <2>1. x \in LoadT /\ r = [x EXCEPT !.pc = pc, !.buf = NoBuf, !.spins = zero, !.todo = rest, !.spans = ss]
    BY LoaderTypes
  <2>2. rest \in Seq(Pieces) /\ ss \in Seq(SpanT) /\ pc \in {"read", "span"} /\ zero \in Nat
    BY <1>1, <1>5, <1>6
  <2> HIDE DEF x, r
  <2>3. r.pc = pc /\ r.spans = ss /\ r.single = x.single /\ r \in LoadT
    BY <2>1, <2>2 DEF LoadT
  <2> QED BY <2>3 DEF x
<1> HIDE DEF r
<1>9. \A i \in 1..Len(old) : old[i].buf # NoBuf =>
        /\ kind2[old[i].buf] = "load" /\ who2[old[i].buf] = l /\ g[old[i].buf] = h[old[i].buf]
  BY LoaderTypes DEF LoadOk, SpansOk, OwnKeep, NotIn
<1>10. \A i \in 1..Len(old) :
        (Fits(g, old[i]) <=> Fits(h, old[i])) /\ (Read(g, old[i]) <=> Read(h, old[i]))
  BY <1>9, SameBuffer
<1>11. SpansOk(kind2, who2, g, l, ss)
  <2>1. SpansOk(kind, who, h, l, old)
    BY DEF LoadOk
  <2>2. Fits(g, s)
    BY <1>2 DEF Fits
  <2>3. ASSUME NEW i \in 1..Len(ss)
        PROVE  (ss[i].buf # NoBuf => kind2[ss[i].buf] = "load" /\ who2[ss[i].buf] = l) /\ Fits(g, ss[i])
    <3>1. CASE i \in 1..Len(old)
      BY <1>5, <1>9, <1>10, <2>1, <3>1 DEF SpansOk
    <3>2. CASE i \notin 1..Len(old)
      BY <1>2, <1>5, <2>2, <3>2
    <3> QED BY <3>1, <3>2
  <2>4. ASSUME NEW i \in 1..Len(ss), NEW j \in 1..Len(ss), ss[i].buf = ss[j].buf
        PROVE  i = j \/ ss[i].buf = NoBuf
    <3>1. CASE i \in 1..Len(old) /\ j \in 1..Len(old)
      BY <1>5, <2>1, <2>4, <3>1 DEF SpansOk
    <3>2. CASE i \notin 1..Len(old) /\ j \notin 1..Len(old)
      BY <1>5, <3>2
    <3>3. CASE i \notin 1..Len(old) /\ j \in 1..Len(old)
      BY <1>2, <1>5, <2>4, <3>3 DEF NotIn
    <3>4. CASE i \in 1..Len(old) /\ j \notin 1..Len(old)
      BY <1>2, <1>5, <2>4, <3>4 DEF NotIn
    <3> QED BY <3>1, <3>2, <3>3, <3>4
  <2> QED BY <2>3, <2>4 DEF SpansOk
<1>12. ReadOk(g, r)
  <2>1. ld[l].single => \A i \in 1..Len(old) : Read(h, old[i])
    BY DEF LoadOk, ReadOk
  <2>2. ss # <<>>
    BY <1>5
  <2> QED BY <1>5, <1>6, <1>8, <1>10, <2>1, <2>2 DEF ReadOk
<1>13. r.pc # "register" /\ r.pc # "free"
  BY <1>6, <1>8
<1>14. LoadOk(kind2, who2, g, reg2, a, d, l, r)
  BY <1>8, <1>11, <1>12, <1>13 DEF LoadOk, RegisterOk, FreeOk
<1> QED BY <1>7, <1>8, <1>13, <1>14

\* What is locked and counted stays so while the capacities of these buffers stay.
LEMMA PinSame ==
  ASSUME TypeInv, PinInv, heap' \in HeapT, registered' = registered, pinBytes' = pinBytes,
         pinMax' = pinMax, Pend(ld') \subseteq Pend(ld),
         \A c \in Bufs : c \in registered \/ c \in Pend(ld') => heap'[c].cap = heap[c].cap
  PROVE  PinInv'
<1>1. IsSum(Share(heap', registered), Bufs, pinBytes)
  <2>1. \A c \in Bufs \cap registered : heap'[c].cap = heap[c].cap
    OBVIOUS
  <2> QED BY <2>1, ShareSame DEF PinInv
<1>2. Over(heap', registered \cup Pend(ld'), pinMax)
  <2>1. heap \in HeapT /\ pinMax \in Nat /\ Over(heap, registered \cup Pend(ld), pinMax)
    BY DEF TypeInv, PinInv
  <2>2. (registered \cup Pend(ld')) \cap Bufs \subseteq registered \cup Pend(ld)
    OBVIOUS
  <2>3. \A c \in Bufs \cap (registered \cup Pend(ld')) : heap'[c].cap = heap[c].cap
    OBVIOUS
  <2> QED BY <2>1, <2>2, <2>3, OverLess
<1> QED BY <1>1, <1>2 DEF PinInv

\* A loader that is not about to lock a buffer adds none.
LEMMA PendLess ==
  ASSUME TypeInv, NEW l \in Loaders, NEW r, Turns(l, r), r.pc # "register"
  PROVE  Pend(ld') \subseteq Pend(ld)
<1>1. ld \in [Loaders -> LoadT]
  BY DEF TypeInv
<1>2. ld'[l] = r /\ \A k \in Loaders : k # l => ld'[k] = ld[k]
  BY <1>1 DEF Turns
<1> QED BY <1>2 DEF Pend

\* A loader's buffer is allocated, and not in another one's spans.
LEMMA PendOwned ==
  ASSUME TypeInv, NEW kind, NEW who,
         Own(kind, who, heap, registered, pool, ld, held, evictor, arena, flags.dio, doubtful),
         NEW c \in Pend(ld)
  PROVE  /\ c \in Bufs /\ kind[c] = "load" /\ c \notin registered
         /\ \E k \in Loaders : ld[k].pc = "register" /\ ld[k].buf = c /\ who[c] = k
<1>1. PICK k \in Loaders : ld[k].pc = "register" /\ ld[k].buf = c
  BY DEF Pend
<1>2. RegisterOk(kind, who, heap, registered, flags.dio, k, ld[k])
  BY DEF Own, LoadOk
<1> QED BY <1>1, <1>2 DEF RegisterOk

\* with_len from the pool: the buffer leaves the pool under the lock, so it was nobody's
\* and is the loader's now.
LEMMA TakeOk ==
  ASSUME IInv, NEW l \in Loaders, Take(l)
  PROVE  IInv'
<1>0. TypeInv /\ PinInv
  BY DEF IInv
<1> DEFINE len == Want(l, Head(ld[l].todo))
<1>1. PICK b \in Bufs : Recycle(b, len) /\ Got(l, b)
  BY DEF Take
<1>2. ld[l].pc \in {"span", "wait"} /\ ld[l].todo # <<>> /\ Head(ld[l].todo) # Missing
  BY DEF Take, Pending
<1>3. len \in Nat /\ len > 0
  <2>1. Head(ld[l].todo) \in Pieces
    BY <1>0, <1>2, LoaderTypes
  <2> QED BY <1>1, <1>2, <2>1, HeapSpanOk
<1> HIDE DEF len
<1>4. PICK kind, who :
        Own(kind, who, heap, registered, pool, ld, held, evictor, arena, flags.dio, doubtful)
  BY DEF IInv, OwnInv
<1> DEFINE i == Fit(len)
           kind2 == [kind EXCEPT ![b] = "load"]
           who2 == [who EXCEPT ![b] = l]
<1>5. /\ len >= POOL_MIN /\ i > 0 /\ b = pool[i] /\ pool' = SwapRemoved(pool, i)
      /\ heap' = [heap EXCEPT ![b].data = Blank(len)]
      /\ arena' = arena /\ pinMax' = pinMax /\ pinned' = pinned /\ registered' = registered
      /\ pinBytes' = pinBytes
  BY <1>1 DEF Recycle
<1>6. heap \in HeapT /\ pool \in Seq(Bufs)
  BY <1>0 DEF TypeInv
<1>7. i \in 1..Len(pool) /\ heap[b].cap >= len
  BY <1>3, <1>5, <1>6, FitOk
<1> HIDE DEF i
<1>8. kind \in [Bufs -> Kinds] /\ who \in [Bufs -> Loaders] /\ PoolOk(kind, pool) /\ kind[b] = "pool"
  BY <1>4, <1>5, <1>7 DEF Own, PoolOk
<1>9. /\ kind2 \in [Bufs -> Kinds] /\ who2 \in [Bufs -> Loaders] /\ kind2[b] = "load" /\ who2[b] = l
      /\ \A c \in Bufs : c # b => kind2[c] = kind[c] /\ who2[c] = who[c]
  BY <1>8 DEF Kinds
<1> HIDE DEF kind2, who2
<1>10. /\ heap' \in HeapT /\ heap'[b].cap = heap[b].cap /\ Len(heap'[b].data) = len
       /\ \A c \in Bufs : c # b => heap'[c] = heap[c]
  <2> DEFINE new == Blank(len)
  <2>1. new \in Seq(Bytes) /\ Len(new) = len
    BY <1>3, Blanks
  <2> HIDE DEF new
  <2>2. heap' = [heap EXCEPT ![b].data = new]
    BY <1>5 DEF new
  <2> QED BY <1>6, <2>1, <2>2 DEF HeapT
<1>11. BufOk(kind2, heap', registered')
  <2>1. BufOk(kind, heap, registered)
    BY <1>4 DEF Own
  <2>2. heap[b].cap > 0
    BY <1>8, <2>1 DEF BufOk
  <2> QED BY <1>5, <1>9, <1>10, <2>1, <2>2 DEF BufOk
<1>12. pool' \in Seq(Bufs) /\ PoolOk(kind2, pool')
  <2> DEFINE q == SwapRemoved(pool, i)
             n == Len(pool) - 1
  <2>1. /\ q \in Seq(Bufs) /\ Len(q) = n
        /\ \A j \in 1..n : (\E k \in 1..Len(pool) : q[j] = pool[k]) /\ q[j] # pool[i]
        /\ \A j, k \in 1..n : q[j] = q[k] => j = k
    BY <1>6, <1>7, <1>8, SwapRemovedOk DEF PoolOk
  <2> HIDE DEF q, n
  <2>2. \A j \in 1..n : kind2[q[j]] = "pool"
    <3> TAKE j \in 1..n
    <3>1. PICK k \in 1..Len(pool) : q[j] = pool[k]
      BY <2>1
    <3>2. pool[k] \in Bufs /\ pool[k] # b /\ kind[pool[k]] = "pool"
      BY <1>5, <1>6, <1>8, <2>1, <3>1 DEF PoolOk
    <3> QED BY <1>9, <3>1, <3>2
  <2>3. pool' = q
    BY <1>5 DEF q
  <2> QED BY <2>1, <2>2, <2>3 DEF PoolOk
<1>13. ArenaOk(kind2, heap', arena)
  <2>1. ArenaOk(kind, heap, arena) /\ 1..arena.slots \subseteq Bufs
    BY <1>0, <1>4 DEF Own, TypeInv, ArenaT
  <2>2. ASSUME NEW c \in 1..arena.slots
        PROVE  /\ heap'[c].cap = arena.slot_bytes
               /\ kind2[c] \in {"load", "held", "evict"} => arena.slot_bytes >= POOL_MIN
    <3>1. c \in Bufs /\ heap'[c].cap = heap[c].cap /\ heap[c].cap = arena.slot_bytes
      BY <1>10, <2>1 DEF ArenaOk
    <3>2. CASE c = b
      <4>1. heap[b].cap \in Nat /\ POOL_MIN \in Nat
        BY <1>6, PoolAssumption DEF HeapT
      <4> QED BY <1>3, <1>5, <1>7, <3>1, <3>2, <4>1
    <3>3. CASE c # b
      BY <1>9, <2>1, <3>1, <3>3 DEF ArenaOk
    <3> QED BY <3>2, <3>3
  <2> QED BY <2>2 DEF ArenaOk
<1>14. UNCHANGED <<flags, calls, held, evictor, doubtful>>
  BY DEF Take
<1>15. HeldOk(kind2, heap', doubtful', held')
  <2>1. HeldOk(kind, heap, doubtful, held) /\ held \in SUBSET SpanT
    BY <1>0, <1>4 DEF Own, TypeInv
  <2>2. \A c \in Bufs : kind[c] = "held" => kind2[c] = "held" /\ heap'[c] = heap[c]
    BY <1>8, <1>9, <1>10
  <2> QED BY <1>14, <2>1, <2>2, FrameHeld
<1>16. PICK r \in LoadT : /\ Turns(l, r) /\ r.pc # "register"
                          /\ LoadOk(kind2, who2, heap', registered', arena, flags.dio, l, r)
  <2>1. LoadOk(kind, who, heap, registered, arena, flags.dio, l, ld[l])
    BY <1>4 DEF Own
  <2>2. OwnKeep(l, b, kind, who, heap, kind2, who2, heap')
    BY <1>9, <1>10 DEF OwnKeep
  <2>3. NotIn(b, ld[l].spans)
    <3>1. b # NoBuf
      BY LoadAssumption
    <3> QED BY <1>8, <2>1, <3>1 DEF LoadOk, SpansOk, NotIn
  <2>4. Len(heap'[b].data) = Want(l, Head(ld[l].todo))
    BY <1>10 DEF len
  <2> QED BY <1>0, <1>1, <1>2, <1>9, <2>1, <2>2, <2>3, <2>4, GotOk
<1>17. OwnInv'
  <2>1. OthersKeep(l, kind, who, heap, registered, kind2, who2, heap', registered')
    BY <1>5, <1>8, <1>9, <1>10 DEF OthersKeep
  <2>2. flags' = flags /\ evictor' = evictor
    BY <1>14
  <2> QED BY <1>0, <1>4, <1>5, <1>9, <1>11, <1>12, <1>13, <1>15, <1>16, <2>1, <2>2, OwnStep
<1>18. PinInv'
  <2>1. Pend(ld') \subseteq Pend(ld)
    BY <1>0, <1>16, PendLess
  <2>2. \A c \in Bufs : heap'[c].cap = heap[c].cap
    BY <1>10
  <2> QED BY <1>0, <1>5, <1>10, <2>1, <2>2, PinSame
<1>19. TypeInv'
  <2>1. ld' \in [Loaders -> LoadT]
    BY <1>0, <1>16 DEF TypeInv, Turns
  <2> QED BY <1>0, <1>5, <1>10, <1>12, <1>14, <2>1 DEF TypeInv
<1> QED BY <1>17, <1>18, <1>19 DEF IInv

\* While loader l is not about to lock a buffer, fewer buffers wait for their lock
\* than there are loaders.
LEMMA PendCount ==
  ASSUME TypeInv, NEW l \in Loaders, ld[l].pc # "register"
  PROVE  Cardinality(Pend(ld)) <= Cardinality(Loaders) - 1
<1> DEFINE K == {k \in Loaders : ld[k].pc = "register"}
           f == [k \in K |-> ld[k].buf]
           img == {f[k] : k \in K}
<1>1. Pend(ld) = img
  BY DEF Pend
<1>2. IsFiniteSet(Loaders) /\ K \subseteq Loaders \ {l}
  BY LoadAssumption
<1>3. /\ IsFiniteSet(Loaders \ {l}) /\ Cardinality(Loaders \ {l}) = Cardinality(Loaders) - 1
      /\ Cardinality(Loaders) \in Nat
  BY <1>2, FS_RemoveElement, FS_CardinalityType
<1>4. IsFiniteSet(K) /\ Cardinality(K) <= Cardinality(Loaders \ {l}) /\ Cardinality(K) \in Nat
  <2> HIDE DEF K
  <2> QED BY <1>2, <1>3, FS_Subset, FS_CardinalityType
<1>5. \A y \in img : \E k \in K : f[k] = y
  OBVIOUS
<1>6. f \in [K -> img] /\ f \in Surjection(K, img)
  <2>1. f \in [K -> img]
    OBVIOUS
  <2> HIDE DEF f, img, K
  <2> QED BY <1>5, <2>1 DEF Surjection
<1>7. IsFiniteSet(img) /\ Cardinality(img) <= Cardinality(K)
  <2> HIDE DEF f, img, K
  <2> QED BY <1>4, <1>6, FS_Surjection
<1>8. Cardinality(img) \in Nat
  <2> HIDE DEF img
  <2> QED BY <1>7, FS_CardinalityType
<1> HIDE DEF img, K
<1> QED BY <1>1, <1>3, <1>4, <1>7, <1>8

\* with_len from the allocator: a fresh buffer, whose lock may be allowed here and is
\* taken later.  Every other loader has at most one such lock outstanding.
LEMMA AllocOk ==
  ASSUME IInv, NEW l \in Loaders, Alloc(l)
  PROVE  IInv'
<1>0. TypeInv /\ PinInv
  BY DEF IInv
<1> DEFINE p == Head(ld[l].todo)
           len == Want(l, p)
<1>1. PICK b \in Bufs :
        /\ Allocate(b, len)
        /\ IF PinAllowed(len) THEN ld' = [ld EXCEPT ![l].pc = "register", ![l].buf = b] ELSE Got(l, b)
  BY DEF Alloc
<1>2. ld[l].pc \in {"span", "wait"} /\ ld[l].todo # <<>> /\ p # Missing
  BY DEF Alloc, Pending
<1>3. len \in Nat /\ len > 0 /\ len = Size(flags.dio /\ ~ld[l].single, p)
  <2>1. p \in Pieces
    BY <1>0, <1>2, LoaderTypes
  <2>2. Dio(l) = (flags.dio /\ ~ld[l].single)
    BY DEF Dio
  <2> HIDE DEF p
  <2> QED BY <1>1, <1>2, <2>1, <2>2, HeapSpanOk
<1> HIDE DEF len
<1>4. PICK kind, who :
        Own(kind, who, heap, registered, pool, ld, held, evictor, arena, flags.dio, doubtful)
  BY DEF IInv, OwnInv
<1> DEFINE kind2 == [kind EXCEPT ![b] = "load"]
           who2 == [who EXCEPT ![b] = l]
<1>5. /\ heap[b].cap = 0
      /\ heap' = [heap EXCEPT ![b] = [cap |-> len, data |-> Blank(len)]]
      /\ arena' = arena /\ pinMax' = pinMax /\ pool' = pool /\ pinned' = pinned
      /\ registered' = registered /\ pinBytes' = pinBytes
  BY <1>1 DEF Allocate
<1>6. heap \in HeapT /\ pool \in Seq(Bufs) /\ registered \in SUBSET Bufs
  BY <1>0 DEF TypeInv
<1>7. kind \in [Bufs -> Kinds] /\ who \in [Bufs -> Loaders] /\ kind[b] = "free" /\ b \notin registered
  BY <1>4, <1>5 DEF Own, BufOk
<1>8. /\ kind2 \in [Bufs -> Kinds] /\ who2 \in [Bufs -> Loaders] /\ kind2[b] = "load" /\ who2[b] = l
      /\ \A c \in Bufs : c # b => kind2[c] = kind[c] /\ who2[c] = who[c]
  BY <1>7 DEF Kinds
<1> HIDE DEF kind2, who2
<1>9. /\ heap' \in HeapT /\ heap'[b].cap = len /\ Len(heap'[b].data) = len
      /\ \A c \in Bufs : c # b => heap'[c] = heap[c]
  <2> DEFINE new == Blank(len)
  <2>1. new \in Seq(Bytes) /\ Len(new) = len
    BY <1>3, Blanks
  <2> HIDE DEF new
  <2>2. heap' = [heap EXCEPT ![b] = [cap |-> len, data |-> new]]
    BY <1>5 DEF new
  <2> QED BY <1>3, <1>6, <2>1, <2>2 DEF HeapT
<1>10. BufOk(kind2, heap', registered')
  <2>1. BufOk(kind, heap, registered)
    BY <1>4 DEF Own
  <2> QED BY <1>3, <1>5, <1>8, <1>9, <2>1 DEF BufOk
<1>11. PoolOk(kind2, pool')
  <2>1. PoolOk(kind, pool)
    BY <1>4 DEF Own
  <2>2. \A i \in 1..Len(pool) : pool[i] \in Bufs /\ pool[i] # b
    BY <1>6, <1>7, <2>1 DEF PoolOk
  <2> QED BY <1>5, <1>8, <2>1, <2>2 DEF PoolOk
<1>12. ArenaOk(kind2, heap', arena)
  <2>1. ArenaOk(kind, heap, arena) /\ arena \in ArenaT
    BY <1>0, <1>4 DEF Own, TypeInv
  <2>2. 1..arena.slots \subseteq Bufs /\ arena.slots \in Nat /\ (arena.slots > 0 => arena.slot_bytes > 0)
        /\ arena.slot_bytes \in Nat
    BY <2>1 DEF ArenaT
  <2>3. b \notin 1..arena.slots
    BY <1>5, <2>1, <2>2 DEF ArenaOk
  <2> QED BY <1>8, <1>9, <2>1, <2>2, <2>3 DEF ArenaOk
<1>13. UNCHANGED <<flags, calls, held, evictor, doubtful>>
  BY DEF Alloc
<1>14. HeldOk(kind2, heap', doubtful', held')
  <2>1. HeldOk(kind, heap, doubtful, held) /\ held \in SUBSET SpanT
    BY <1>0, <1>4 DEF Own, TypeInv
  <2>2. \A c \in Bufs : kind[c] = "held" => kind2[c] = "held" /\ heap'[c] = heap[c]
    BY <1>7, <1>8, <1>9
  <2> QED BY <1>13, <2>1, <2>2, FrameHeld
<1>15. LoadOk(kind, who, heap, registered, arena, flags.dio, l, ld[l])
  BY <1>4 DEF Own
<1>16. OwnKeep(l, b, kind, who, heap, kind2, who2, heap')
  BY <1>8, <1>9 DEF OwnKeep
<1>17. NotIn(b, ld[l].spans)
  <2>1. b # NoBuf
    BY LoadAssumption
  <2> QED BY <1>7, <1>15, <2>1 DEF LoadOk, SpansOk, NotIn
<1>18. OthersKeep(l, kind, who, heap, registered, kind2, who2, heap', registered')
  BY <1>5, <1>7, <1>8, <1>9 DEF OthersKeep
<1>19. ASSUME NEW r \in LoadT, Turns(l, r),
              LoadOk(kind2, who2, heap', registered', arena, flags.dio, l, r)
       PROVE  OwnInv' /\ TypeInv'
  <2>1. flags' = flags /\ evictor' = evictor
    BY <1>13
  <2>2. OwnInv'
    BY <1>0, <1>4, <1>5, <1>8, <1>10, <1>11, <1>12, <1>14, <1>18, <1>19, <2>1, OwnStep
  <2>3. ld' \in [Loaders -> LoadT]
    BY <1>0, <1>19 DEF TypeInv, Turns
  <2>4. TypeInv'
    BY <1>0, <1>5, <1>9, <1>13, <2>3 DEF TypeInv
  <2> QED BY <2>2, <2>4
<1>20. b \notin Pend(ld) /\ Pend(ld) \in SUBSET Bufs /\ Pend(ld) \cap registered = {}
  <2>1. \A c \in Pend(ld) : c \in Bufs /\ kind[c] = "load" /\ c \notin registered
    BY <1>0, <1>4, PendOwned
  <2> QED BY <1>7, <2>1
\* The lock is refused at once, or not worth taking.
<1>21. CASE ~PinAllowed(len)
  <2>1. Got(l, b)
    BY <1>1, <1>21
  <2>2. Len(heap'[b].data) = Want(l, Head(ld[l].todo))
    BY <1>9 DEF len
  <2>3. PICK r \in LoadT : /\ Turns(l, r) /\ r.pc # "register"
                           /\ LoadOk(kind2, who2, heap', registered', arena, flags.dio, l, r)
    BY <1>0, <1>2, <1>8, <1>15, <1>16, <1>17, <2>1, <2>2, GotOk
  <2>4. Pend(ld') \subseteq Pend(ld)
    BY <1>0, <2>3, PendLess
  <2>5. \A c \in Bufs : c \in registered \/ c \in Pend(ld') => heap'[c].cap = heap[c].cap
    BY <1>7, <1>9, <1>20, <2>4
  <2>6. PinInv'
    BY <1>0, <1>5, <1>9, <2>4, <2>5, PinSame
  <2> QED BY <1>19, <2>3, <2>6 DEF IInv
\* The check passes: the buffer is below the ceiling with all that is locked, though
\* not with what others are about to lock.
<1>22. CASE PinAllowed(len)
  <2> DEFINE r == [ld[l] EXCEPT !.pc = "register", !.buf = b]
  <2>1. Turns(l, r)
    BY <1>0, <1>1, <1>22, LoaderTypes DEF Turns
  <2>2. /\ r.pc = "register" /\ r.buf = b /\ r.spans = ld[l].spans /\ r.single = ld[l].single
        /\ r.todo = ld[l].todo /\ r \in LoadT
    BY <1>0, LoaderTypes DEF LoadT
  <2> HIDE DEF r
  <2>3. LoadOk(kind2, who2, heap', registered', arena, flags.dio, l, r)
    <3> DEFINE ss == ld[l].spans
    <3>1. \A i \in 1..Len(ss) : ss[i].buf # NoBuf =>
            kind2[ss[i].buf] = "load" /\ who2[ss[i].buf] = l /\ heap'[ss[i].buf] = heap[ss[i].buf]
      BY <1>0, <1>15, <1>16, <1>17, LoaderTypes DEF LoadOk, SpansOk, OwnKeep, NotIn
    <3>2. \A i \in 1..Len(ss) : /\ Fits(heap', ss[i]) <=> Fits(heap, ss[i])
                                /\ Read(heap', ss[i]) <=> Read(heap, ss[i])
      BY <3>1, SameBuffer
    <3>3. SpansOk(kind2, who2, heap', l, ss)
      BY <1>15, <3>1, <3>2 DEF LoadOk, SpansOk
    <3>4. ReadOk(heap', r)
      BY <1>2, <1>15, <2>2, <3>2 DEF LoadOk, ReadOk
    <3>5. RegisterOk(kind2, who2, heap', registered', flags.dio, l, r)
      <4>1. Len(heap'[b].data) = Size(flags.dio /\ ~r.single, Head(r.todo))
        BY <1>3, <1>9, <2>2
      <4> QED BY <1>2, <1>5, <1>7, <1>8, <1>17, <2>2, <4>1 DEF RegisterOk, NotIn
    <3> QED BY <2>2, <3>3, <3>4, <3>5 DEF LoadOk, FreeOk
  <2>4. Pend(ld') = Pend(ld) \cup {b}
    <3>1. ld'[l] = r /\ \A k \in Loaders : k # l => ld'[k] = ld[k]
      BY <1>0, <2>1, LoaderTypes DEF Turns
    <3> QED BY <1>2, <2>2, <3>1 DEF Pend
  <2>5. IsSum(Share(heap', registered), Bufs, pinBytes)
    <3>1. \A c \in Bufs \cap registered : heap'[c].cap = heap[c].cap
      BY <1>7, <1>9
    <3> QED BY <1>0, <3>1, ShareSame DEF PinInv
  <2>6. IsSum(Share(heap', registered \cup {b}), Bufs, pinBytes + len)
    <3>1. \A c \in Bufs : heap'[c].cap \in Nat
      BY <1>9 DEF HeapT
    <3> QED BY <1>7, <1>9, <2>5, <3>1, ShareAdd
  <2>7. Over(heap', registered \cup Pend(ld'), pinMax)
    <3>1. (registered \cup Pend(ld')) \ Pend(ld) = registered \cup {b}
      BY <1>20, <2>4
    <3>2. pinBytes + len \in Nat /\ pinBytes + len <= pinMax
      BY <1>22, <2>6, SumBounds DEF PinAllowed
    <3>3. Cardinality(Pend(ld)) <= Cardinality(Loaders) - 1
      BY <1>0, <1>2, PendCount
    <3> QED BY <1>20, <2>6, <3>1, <3>2, <3>3 DEF Over
  <2>8. PinInv'
    BY <1>5, <2>5, <2>7 DEF PinInv
  <2> QED BY <1>19, <2>1, <2>2, <2>3, <2>8 DEF IInv
<1> QED BY <1>21, <1>22

\* pin_alloc after the driver's answer: the lock that was allowed is counted, or given up.
LEMMA PinTakeOk ==
  ASSUME IInv, NEW l \in Loaders, PinTake(l)
  PROVE  IInv'
<1>0. TypeInv /\ PinInv
  BY DEF IInv
<1> DEFINE b == ld[l].buf
<1>1. ld[l].pc = "register" /\ Got(l, b) /\ (PinRegister(b) \/ UNCHANGED poolVars)
  BY DEF PinTake
<1>2. PICK kind, who :
        Own(kind, who, heap, registered, pool, ld, held, evictor, arena, flags.dio, doubtful)
  BY DEF IInv, OwnInv
<1>3. LoadOk(kind, who, heap, registered, arena, flags.dio, l, ld[l])
  BY <1>2 DEF Own
<1>4. /\ b \in Bufs /\ kind[b] = "load" /\ who[b] = l /\ b \notin registered
      /\ \A i \in 1..Len(ld[l].spans) : ld[l].spans[i].buf # b
      /\ ld[l].todo # <<>> /\ Head(ld[l].todo) # Missing
      /\ Len(heap[b].data) = Size(flags.dio /\ ~ld[l].single, Head(ld[l].todo))
  BY <1>1, <1>3 DEF LoadOk, RegisterOk
<1>5. b \in Pend(ld)
  BY <1>1 DEF Pend
<1> HIDE DEF b
<1>6. NotIn(b, ld[l].spans)
  BY <1>4 DEF NotIn
<1>7. Len(heap[b].data) = Want(l, Head(ld[l].todo))
  <2>1. Head(ld[l].todo) \in Pieces
    BY <1>0, <1>4, LoaderTypes
  <2>2. Dio(l) = (flags.dio /\ ~ld[l].single)
    BY DEF Dio
  <2> QED BY <1>4, <2>1, <2>2, HeapSpanOk
<1>8. OwnKeep(l, b, kind, who, heap, kind, who, heap)
  BY DEF OwnKeep
<1>9. /\ kind \in [Bufs -> Kinds] /\ who \in [Bufs -> Loaders] /\ BufOk(kind, heap, registered)
      /\ PoolOk(kind, pool) /\ ArenaOk(kind, heap, arena) /\ HeldOk(kind, heap, doubtful, held)
  BY <1>2 DEF Own
<1>10. UNCHANGED <<flags, calls, held, evictor, doubtful>>
  BY DEF PinTake
<1>11. /\ arena' = arena /\ pinMax' = pinMax /\ heap' = heap /\ pool' = pool
       /\ \/ /\ registered' = registered \cup {b} /\ pinned' = pinned \cup {b}
             /\ pinBytes' = pinBytes + heap[b].cap
          \/ registered' = registered /\ pinned' = pinned /\ pinBytes' = pinBytes
  BY <1>1 DEF PinRegister, poolVars
<1>12. PICK r \in LoadT : /\ Turns(l, r) /\ r.pc # "register"
                          /\ LoadOk(kind, who, heap, registered', arena, flags.dio, l, r)
  BY <1>0, <1>1, <1>3, <1>4, <1>6, <1>7, <1>8, GotOk
<1>13. OwnInv'
  <2>1. OthersKeep(l, kind, who, heap, registered, kind, who, heap, registered')
    BY <1>4, <1>11 DEF OthersKeep
  <2>2. BufOk(kind, heap, registered')
    BY <1>4, <1>9, <1>11 DEF BufOk
  <2>3. flags' = flags /\ evictor' = evictor /\ held' = held /\ doubtful' = doubtful
    BY <1>10
  <2>4. /\ OthersKeep(l, kind, who, heap, registered, kind, who, heap', registered')
        /\ BufOk(kind, heap', registered') /\ PoolOk(kind, pool') /\ ArenaOk(kind, heap', arena)
        /\ LoadOk(kind, who, heap', registered', arena, flags.dio, l, r)
        /\ HeldOk(kind, heap', doubtful', held') /\ arena' = arena
    BY <1>9, <1>11, <1>12, <2>1, <2>2, <2>3
  <2> QED BY <1>0, <1>2, <1>9, <1>12, <2>3, <2>4, OwnStep
<1>14. Pend(ld') \subseteq Pend(ld)
  BY <1>0, <1>12, PendLess
<1>15. heap \in HeapT /\ pinMax \in Nat /\ registered \in SUBSET Bufs /\ \A c \in Bufs : heap[c].cap \in Nat
  BY <1>0 DEF TypeInv, HeapT
<1>16. PinInv'
  <2>1. CASE registered' = registered /\ pinBytes' = pinBytes
    <3>1. heap' \in HeapT /\ \A c \in Bufs : heap'[c].cap = heap[c].cap
      BY <1>11, <1>15
    <3> QED BY <1>0, <1>11, <1>14, <2>1, <3>1, PinSame
  <2>2. CASE registered' = registered \cup {b} /\ pinBytes' = pinBytes + heap[b].cap
    <3>1. IsSum(Share(heap, registered \cup {b}), Bufs, pinBytes + heap[b].cap)
      BY <1>0, <1>4, <1>15, ShareAdd DEF PinInv
    <3>2. Over(heap, registered \cup Pend(ld), pinMax)
      BY <1>0 DEF PinInv
    <3>3. (registered' \cup Pend(ld')) \cap Bufs \subseteq registered \cup Pend(ld)
      BY <1>5, <1>14, <2>2
    <3>4. Over(heap, registered' \cup Pend(ld'), pinMax)
      BY <1>15, <3>2, <3>3, OverLess
    <3> QED BY <1>11, <2>2, <3>1, <3>4 DEF PinInv
  <2> QED BY <1>11, <2>1, <2>2
<1>17. TypeInv'
  <2>1. ld' \in [Loaders -> LoadT]
    BY <1>0, <1>12 DEF TypeInv, Turns
  <2>2. registered' \in SUBSET Bufs /\ pinned' = registered'
    BY <1>0, <1>4, <1>11 DEF TypeInv
  <2> QED BY <1>0, <1>10, <1>11, <2>1, <2>2 DEF TypeInv
<1> QED BY <1>13, <1>16, <1>17 DEF IInv

\* A buffer that is not loader l's.
Foreign(kind, who, l, c) == ~(kind[c] = "load" /\ who[c] = l)

\* g differs from h in the bytes of l's buffers only, not in sizes.
Rewrites(kind, who, l, h, g) ==
  /\ g \in HeapT
  /\ \A c \in Bufs : /\ g[c].cap = h[c].cap /\ Len(g[c].data) = Len(h[c].data)
                     /\ Foreign(kind, who, l, c) => g[c] = h[c]

\* The set of a call's spans is the elements of its sequence.
LEMMA SpansRange ==
  ASSUME TypeInv, NEW l \in Loaders
  PROVE  /\ Range(ld[l].spans) \in SUBSET SpanT
         /\ \A s \in Range(ld[l].spans) : \E i \in 1..Len(ld[l].spans) : s = ld[l].spans[i]
         /\ \A i \in 1..Len(ld[l].spans) : ld[l].spans[i] \in Range(ld[l].spans)
<1>1. ld[l].spans \in Seq(SpanT)
  BY LoaderTypes
<1> QED BY <1>1 DEF Range

\* Reading some of a loader's spans changes bytes of its own buffers only, and
\* leaves the bytes of each of these spans in place.
LEMMA Filling ==
  ASSUME TypeInv, NEW l \in Loaders, NEW kind, NEW who, SpansOk(kind, who, heap, l, ld[l].spans),
         NEW S \in SUBSET Range(ld[l].spans)
  PROVE  /\ Rewrites(kind, who, l, heap, After(S))
         /\ \A s \in S : Read(After(S), s)
         /\ \A c \in Bufs : (\A s \in S : s.buf # c) => After(S)[c] = heap[c]
<1> DEFINE ss == ld[l].spans
           g == After(S)
<1>1. heap \in HeapT /\ S \in SUBSET SpanT
  BY SpansRange DEF TypeInv
<1>2. \A s \in S : /\ s.buf # NoBuf => s.skew + s.read_len <= Len(heap[s.buf].data)
                   /\ s.buf # NoBuf => kind[s.buf] = "load" /\ who[s.buf] = l
  <2> TAKE s \in S
  <2>1. PICK i \in 1..Len(ss) : s = ss[i]
    BY SpansRange
  <2> QED BY <2>1 DEF SpansOk, Fits
<1>3. \A s, t \in S : t.buf = s.buf => t = s \/ s.buf = NoBuf
  <2> TAKE s, t \in S
  <2>1. PICK i \in 1..Len(ss) : s = ss[i]
    BY SpansRange
  <2>2. PICK j \in 1..Len(ss) : t = ss[j]
    BY SpansRange
  <2> QED BY <2>1, <2>2 DEF SpansOk
<1>4. /\ g \in HeapT
      /\ \A c \in Bufs : /\ g[c].cap = heap[c].cap /\ Len(g[c].data) = Len(heap[c].data)
                         /\ (\A s \in S : s.buf # c) => g[c] = heap[c]
  BY <1>1, AfterOk
<1>5. \A s \in S : Read(g, s)
  BY <1>1, <1>2, <1>3, AfterOk
<1> HIDE DEF g
<1>6. ASSUME NEW c \in Bufs, Foreign(kind, who, l, c) PROVE g[c] = heap[c]
  <2>1. c # NoBuf
    BY LoadAssumption
  <2>2. \A s \in S : s.buf # c
    BY <1>2, <1>6, <2>1 DEF Foreign
  <2> QED BY <1>4, <2>2
<1>7. Rewrites(kind, who, l, heap, g)
  BY <1>4, <1>6 DEF Rewrites
<1> QED BY <1>4, <1>5, <1>7 DEF g

\* The call returns: its spans, read or in doubt, are the cache's from now on.
LEMMA ReturnOk ==
  ASSUME IInv, NEW l \in Loaders, ld[l].pc # "register", NEW kind, NEW who,
         Own(kind, who, heap, registered, pool, ld, held, evictor, arena, flags.dio, doubtful),
         Return(l), Rewrites(kind, who, l, heap, heap'),
         doubtful' \in BOOLEAN, doubtful => doubtful',
         ~doubtful' => \A i \in 1..Len(ld[l].spans) : Read(heap', ld[l].spans[i]),
         UNCHANGED <<arena, pinMax, pool, pinned, registered, pinBytes, flags, calls, evictor>>
  PROVE  IInv'
<1>0. TypeInv /\ PinInv
  BY DEF IInv
<1> DEFINE ss == ld[l].spans
           kind2 == [c \in Bufs |-> IF Foreign(kind, who, l, c) THEN kind[c] ELSE "held"]
<1>1. /\ kind \in [Bufs -> Kinds] /\ who \in [Bufs -> Loaders] /\ BufOk(kind, heap, registered)
      /\ PoolOk(kind, pool) /\ ArenaOk(kind, heap, arena) /\ HeldOk(kind, heap, doubtful, held)
      /\ LoadOk(kind, who, heap, registered, arena, flags.dio, l, ld[l])
  BY DEF Own
<1>2. /\ kind2 \in [Bufs -> Kinds]
      /\ \A c \in Bufs : /\ Foreign(kind, who, l, c) => kind2[c] = kind[c]
                         /\ ~Foreign(kind, who, l, c) => kind2[c] = "held" /\ kind[c] = "load"
  <2>1. \A c \in Bufs : ~Foreign(kind, who, l, c) => kind[c] = "load"
    BY DEF Foreign
  <2> QED BY <1>1, <2>1 DEF Kinds
<1> HIDE DEF kind2
<1>3. /\ heap' \in HeapT
      /\ \A c \in Bufs : /\ heap'[c].cap = heap[c].cap /\ Len(heap'[c].data) = Len(heap[c].data)
                         /\ Foreign(kind, who, l, c) => heap'[c] = heap[c]
  BY DEF Rewrites
<1>4. /\ arena' = arena /\ pinMax' = pinMax /\ pool' = pool /\ pinned' = pinned
      /\ registered' = registered /\ pinBytes' = pinBytes /\ flags' = flags /\ calls' = calls
      /\ evictor' = evictor /\ held' = held \cup Range(ss)
  BY DEF Return
<1>5. Turns(l, Idle) /\ Idle.pc = "idle" /\ Idle.spans = <<>> /\ Idle.single = FALSE /\ Idle \in LoadT
  BY Blanks DEF Return, Turns, Idle
<1>6. held \in SUBSET SpanT /\ Range(ss) \in SUBSET SpanT /\ \A s \in SpanT : s.buf \in Bufs \cup {NoBuf}
  BY <1>0, SpansRange DEF TypeInv, SpanT
<1>7. HeldOk(kind2, heap', doubtful', held)
  <2>1. \A c \in Bufs : kind[c] = "held" => kind2[c] = "held" /\ heap'[c] = heap[c]
    BY <1>2, <1>3 DEF Foreign
  <2> QED BY <1>1, <1>6, <2>1, FrameHeld
<1>8. \A s \in Range(ss) : /\ s.buf # NoBuf => kind2[s.buf] = "held" /\ kind[s.buf] = "load"
                           /\ Fits(heap', s) /\ (~doubtful' => Read(heap', s))
                           /\ \A t \in Range(ss) : s.buf = t.buf => s = t \/ s.buf = NoBuf
  <2> TAKE s \in Range(ss)
  <2>1. PICK i \in 1..Len(ss) : s = ss[i]
    BY <1>0, SpansRange
  <2>2. /\ ss[i].buf # NoBuf => kind[ss[i].buf] = "load" /\ who[ss[i].buf] = l
        /\ Fits(heap, ss[i])
        /\ \A j \in 1..Len(ss) : ss[i].buf = ss[j].buf => i = j \/ ss[i].buf = NoBuf
    BY <1>1 DEF LoadOk, SpansOk
  <2>3. s.buf \in Bufs \cup {NoBuf}
    BY <1>6
  <2>4. s.buf # NoBuf => kind2[s.buf] = "held" /\ kind[s.buf] = "load"
    BY <1>2, <2>1, <2>2, <2>3 DEF Foreign
  <2>5. Fits(heap', s)
    BY <1>3, <2>1, <2>2, <2>3 DEF Fits
  <2>6. ASSUME NEW t \in Range(ss), s.buf = t.buf PROVE s = t \/ s.buf = NoBuf
    <3>1. PICK j \in 1..Len(ss) : t = ss[j]
      BY <1>0, SpansRange
    <3> QED BY <2>1, <2>2, <2>6, <3>1
  <2> QED BY <2>1, <2>4, <2>5, <2>6
<1>9. HeldOk(kind2, heap', doubtful', held')
  <2>1. \A s \in held : \A t \in Range(ss) : s.buf = t.buf => s.buf = NoBuf
    <3>1. \A s \in held : s.buf # NoBuf => kind[s.buf] = "held"
      BY <1>1 DEF HeldOk
    <3> QED BY <1>8, <3>1
  <2>2. ASSUME NEW s \in held'
        PROVE  /\ s.buf # NoBuf => kind2[s.buf] = "held"
               /\ Fits(heap', s) /\ (~doubtful' => Read(heap', s))
               /\ \A t \in held' : s.buf = t.buf => s = t \/ s.buf = NoBuf
    <3>1. CASE s \in held
      BY <1>4, <1>7, <2>1, <3>1 DEF HeldOk
    <3>2. CASE s \in Range(ss)
      BY <1>4, <1>8, <2>1, <3>2
    <3> QED BY <1>4, <2>2, <3>1, <3>2
  <2> QED BY <2>2 DEF HeldOk
<1>10. BufOk(kind2, heap', registered') /\ PoolOk(kind2, pool') /\ ArenaOk(kind2, heap', arena)
  <2>1. BufOk(kind2, heap', registered')
    BY <1>1, <1>2, <1>3, <1>4 DEF BufOk
  <2>2. PoolOk(kind2, pool')
    <3>1. \A i \in 1..Len(pool) : pool[i] \in Bufs
      BY <1>0 DEF TypeInv
    <3> QED BY <1>1, <1>2, <1>4, <3>1 DEF PoolOk
  <2>3. ArenaOk(kind2, heap', arena)
    <3>1. 1..arena.slots \subseteq Bufs
      BY <1>0 DEF TypeInv, ArenaT
    <3> QED BY <1>1, <1>2, <1>3, <3>1 DEF ArenaOk
  <2> QED BY <2>1, <2>2, <2>3
<1>11. OwnInv'
  <2>1. OthersKeep(l, kind, who, heap, registered, kind2, who, heap', registered')
    BY <1>2, <1>3, <1>4 DEF OthersKeep, Foreign
  <2>2. LoadOk(kind2, who, heap', registered', arena, flags.dio, l, Idle)
    BY <1>5 DEF LoadOk, SpansOk, RegisterOk, FreeOk, ReadOk
  <2> QED BY <1>0, <1>1, <1>2, <1>4, <1>5, <1>9, <1>10, <2>1, <2>2, OwnStep
<1>12. PinInv'
  <2>1. Pend(ld') \subseteq Pend(ld)
    <3>1. Idle.pc # "register"
      BY <1>5
    <3> QED BY <1>0, <1>5, <3>1, PendLess
  <2> QED BY <1>0, <1>3, <1>4, <2>1, PinSame
<1>13. TypeInv'
  <2>1. ld' \in [Loaders -> LoadT]
    BY <1>0, <1>5 DEF TypeInv, Turns
  <2>2. held' \in SUBSET SpanT
    BY <1>4, <1>6
  <2> QED BY <1>0, <1>3, <1>4, <2>1, <2>2 DEF TypeInv
<1> QED BY <1>11, <1>12, <1>13 DEF IInv

\* A drained ring: the spans it did not cut short have been read, and the cut ones make
\* the history doubtful.
LEMMA RingDrainsOk ==
  ASSUME IInv, NEW l \in Loaders, RingDrains(l)
  PROVE  IInv'
<1>0. TypeInv
  BY DEF IInv
<1>1. PICK short \in SUBSET BufsOf(ld[l].spans) :
        /\ heap' = After({s \in Range(ld[l].spans) : s.buf \notin short})
        /\ doubtful' = (doubtful \/ short # {})
  BY DEF RingDrains
<1> DEFINE S == {s \in Range(ld[l].spans) : s.buf \notin short}
<1>2. PICK kind, who :
        Own(kind, who, heap, registered, pool, ld, held, evictor, arena, flags.dio, doubtful)
  BY DEF IInv, OwnInv
<1>3. SpansOk(kind, who, heap, l, ld[l].spans)
  BY <1>2 DEF Own, LoadOk
<1>4. Rewrites(kind, who, l, heap, heap') /\ \A s \in S : Read(heap', s)
  <2>1. S \in SUBSET Range(ld[l].spans) /\ heap' = After(S)
    BY <1>1
  <2> HIDE DEF S
  <2> QED BY <1>0, <1>3, <2>1, Filling
<1>5. ~doubtful' => \A i \in 1..Len(ld[l].spans) : Read(heap', ld[l].spans[i])
  <2>1. SUFFICES ASSUME ~doubtful', NEW i \in 1..Len(ld[l].spans) PROVE Read(heap', ld[l].spans[i])
    OBVIOUS
  <2>2. short = {}
    BY <1>1, <2>1
  <2>3. ld[l].spans[i] \in S
    BY <1>0, <2>2, SpansRange
  <2> QED BY <1>4, <2>3
<1>6. /\ ld[l].pc # "register" /\ Return(l)
      /\ UNCHANGED <<arena, pinMax, pool, pinned, registered, pinBytes, flags, calls, evictor>>
  BY DEF RingDrains, SetUp
<1>7. doubtful' \in BOOLEAN /\ (doubtful => doubtful')
  BY <1>1
<1> QED BY <1>2, <1>4, <1>5, <1>6, <1>7, ReturnOk

\* A batch whose tiles were all read leaves with its bytes.
LEMMA PoolReadsOk ==
  ASSUME IInv, NEW l \in Loaders, PoolReads(l)
  PROVE  IInv'
<1>0. TypeInv
  BY DEF IInv
<1> DEFINE S == Range(ld[l].spans)
<1>2. PICK kind, who :
        Own(kind, who, heap, registered, pool, ld, held, evictor, arena, flags.dio, doubtful)
  BY DEF IInv, OwnInv
<1>3. SpansOk(kind, who, heap, l, ld[l].spans)
  BY <1>2 DEF Own, LoadOk
<1>4. Rewrites(kind, who, l, heap, heap') /\ \A s \in S : Read(heap', s)
  <2>1. heap' = After(S)
    BY DEF PoolReads
  <2> QED BY <1>0, <1>3, <2>1, Filling
<1>5. \A i \in 1..Len(ld[l].spans) : Read(heap', ld[l].spans[i])
  BY <1>0, <1>4, SpansRange
<1>6. /\ ld[l].pc # "register" /\ Return(l)
      /\ UNCHANGED <<arena, pinMax, pool, pinned, registered, pinBytes, flags, calls, evictor>>
  BY DEF PoolReads, PoolStart, SetUp
<1>7. doubtful' \in BOOLEAN /\ (doubtful => doubtful')
  BY <1>0 DEF PoolReads, TypeInv
<1> QED BY <1>2, <1>4, <1>5, <1>6, <1>7, ReturnOk

\* A single call leaves with spans it has read one by one.
LEMMA SingleDoneOk ==
  ASSUME IInv, NEW l \in Loaders, SingleDone(l)
  PROVE  IInv'
<1>0. TypeInv
  BY DEF IInv
<1>1. ld[l].pc = "span" /\ ld[l].single /\ Return(l) /\ heap' = heap /\ doubtful' = doubtful
  BY DEF SingleDone, SetUp, poolVars
<1>2. PICK kind, who :
        Own(kind, who, heap, registered, pool, ld, held, evictor, arena, flags.dio, doubtful)
  BY DEF IInv, OwnInv
<1>3. ReadOk(heap, ld[l])
  BY <1>2 DEF Own, LoadOk
<1>4. Rewrites(kind, who, l, heap, heap')
  BY <1>0, <1>1 DEF Rewrites, TypeInv
<1>5. \A i \in 1..Len(ld[l].spans) : Read(heap', ld[l].spans[i])
  BY <1>1, <1>3 DEF ReadOk
<1>6. UNCHANGED <<arena, pinMax, pool, pinned, registered, pinBytes, flags, calls, evictor>>
  BY DEF SingleDone, poolVars
<1>7. doubtful' \in BOOLEAN /\ (doubtful => doubtful') /\ ld[l].pc # "register"
  BY <1>0, <1>1 DEF TypeInv
<1> QED BY <1>1, <1>2, <1>4, <1>5, <1>6, <1>7, ReturnOk

-----------------------------------------------------------------------------
(* A single read, and buffers given back *)

\* pread_chunked fills the last span, and none of those read before it.
LEMMA SingleReadsOk ==
  ASSUME IInv, NEW l \in Loaders, SingleReads(l)
  PROVE  IInv'
<1>0. TypeInv /\ PinInv
  BY DEF IInv
<1> DEFINE ss == ld[l].spans
           S == {Last(ss)}
           r == [ld[l] EXCEPT !.pc = "span"]
<1>1. PICK kind, who :
        Own(kind, who, heap, registered, pool, ld, held, evictor, arena, flags.dio, doubtful)
  BY DEF IInv, OwnInv
<1>2. /\ kind \in [Bufs -> Kinds] /\ who \in [Bufs -> Loaders] /\ BufOk(kind, heap, registered)
      /\ PoolOk(kind, pool) /\ ArenaOk(kind, heap, arena) /\ HeldOk(kind, heap, doubtful, held)
      /\ LoadOk(kind, who, heap, registered, arena, flags.dio, l, ld[l])
  BY <1>1 DEF Own
<1>3. ld[l].pc = "read" /\ heap' = After(S)
  BY DEF SingleReads
<1>4. ss \in Seq(SpanT) /\ Len(ss) \in 1..Len(ss) /\ Last(ss) = ss[Len(ss)] /\ S \in SUBSET Range(ss)
  <2>1. ss \in Seq(SpanT) /\ ss # <<>>
    BY <1>0, <1>2, <1>3, LoaderTypes DEF LoadOk, ReadOk
  <2>2. Len(ss) \in 1..Len(ss) /\ Last(ss) = ss[Len(ss)]
    BY <2>1 DEF Last
  <2> QED BY <1>0, <2>1, <2>2, SpansRange
<1> HIDE DEF S
<1>5. /\ Rewrites(kind, who, l, heap, heap') /\ \A s \in S : Read(heap', s)
      /\ \A c \in Bufs : (\A s \in S : s.buf # c) => heap'[c] = heap[c]
  BY <1>0, <1>2, <1>3, <1>4, Filling DEF LoadOk
<1>6. /\ heap' \in HeapT
      /\ \A c \in Bufs : /\ heap'[c].cap = heap[c].cap /\ Len(heap'[c].data) = Len(heap[c].data)
                         /\ Foreign(kind, who, l, c) => heap'[c] = heap[c]
  BY <1>5 DEF Rewrites
<1>7. Turns(l, r)
  BY <1>0, LoaderTypes DEF SingleReads, Turns
<1>8. r.pc = "span" /\ r.spans = ss /\ r.single = ld[l].single /\ r \in LoadT
  BY <1>0, LoaderTypes DEF LoadT
<1> HIDE DEF r
<1>9. /\ arena' = arena /\ pinMax' = pinMax /\ pool' = pool /\ pinned' = pinned
      /\ registered' = registered /\ pinBytes' = pinBytes /\ flags' = flags /\ calls' = calls
      /\ evictor' = evictor /\ held' = held /\ doubtful' = doubtful
  BY DEF SingleReads
<1>10. LoadOk(kind, who, heap', registered', arena, flags.dio, l, r)
  <2>1. SpansOk(kind, who, heap', l, ss)
    <3>1. \A i \in 1..Len(ss) : Fits(heap, ss[i]) => Fits(heap', ss[i])
      BY <1>0, <1>6, LoaderTypes DEF Fits
    <3> QED BY <1>2, <3>1 DEF LoadOk, SpansOk
  <2>2. ASSUME ld[l].single, NEW i \in 1..Len(ss) PROVE Read(heap', ss[i])
    <3>1. CASE i = Len(ss)
      BY <1>4, <1>5, <3>1 DEF S
    <3>2. CASE i # Len(ss)
      <4>1. Read(heap, ss[i])
        BY <1>2, <1>3, <1>4, <2>2, <3>2 DEF LoadOk, ReadOk
      <4>2. ss[i].buf # NoBuf => heap'[ss[i].buf] = heap[ss[i].buf]
        <5>1. ss[i].buf # NoBuf => ss[i].buf \in Bufs /\ ss[i].buf # ss[Len(ss)].buf
          BY <1>0, <1>2, <1>4, <3>2, LoaderTypes DEF LoadOk, SpansOk
        <5> QED BY <1>4, <1>5, <5>1 DEF S
      <4> QED BY <4>1, <4>2, SameBuffer
    <3> QED BY <3>1, <3>2
  <2>3. ReadOk(heap', r)
    BY <1>8, <2>2 DEF ReadOk
  <2> QED BY <1>8, <2>1, <2>3 DEF LoadOk, RegisterOk, FreeOk
<1>11. OwnInv'
  <2>1. OthersKeep(l, kind, who, heap, registered, kind, who, heap', registered')
    BY <1>6, <1>9 DEF OthersKeep, Foreign
  <2>2. BufOk(kind, heap', registered') /\ PoolOk(kind, pool')
    BY <1>2, <1>6, <1>9 DEF BufOk
  <2>3. ArenaOk(kind, heap', arena)
    <3>1. 1..arena.slots \subseteq Bufs
      BY <1>0 DEF TypeInv, ArenaT
    <3> QED BY <1>2, <1>6, <3>1 DEF ArenaOk
  <2>4. HeldOk(kind, heap', doubtful', held')
    <3>1. \A c \in Bufs : kind[c] = "held" => heap'[c] = heap[c]
      BY <1>6 DEF Foreign
    <3>2. held \in SUBSET SpanT
      BY <1>0 DEF TypeInv
    <3> QED BY <1>2, <1>9, <3>1, <3>2, FrameHeld
  <2> QED BY <1>0, <1>1, <1>2, <1>7, <1>9, <1>10, <2>1, <2>2, <2>3, <2>4, OwnStep
<1>12. PinInv'
  <2>1. Pend(ld') \subseteq Pend(ld)
    <3>1. r.pc # "register"
      BY <1>8
    <3> QED BY <1>0, <1>7, <3>1, PendLess
  <2> QED BY <1>0, <1>6, <1>9, <2>1, PinSame
<1>13. TypeInv'
  <2>1. ld' \in [Loaders -> LoadT]
    BY <1>0, <1>7, <1>8 DEF TypeInv, Turns
  <2> QED BY <1>0, <1>6, <1>9, <2>1 DEF TypeInv
<1> QED BY <1>11, <1>12, <1>13 DEF IInv

-----------------------------------------------------------------------------
(* Dropping *)

\* Kinds and memory agree but for the buffer b.
Off(b, kind, h, kind2, g) == \A c \in Bufs : c # b => kind2[c] = kind[c] /\ g[c] = h[c]

\* The rest of the spans, when the first one's buffer is gone.
LEMMA TailOk ==
  ASSUME NEW ss \in Seq(SpanT), ss # <<>>, NEW kind, NEW who, NEW h, NEW kind2, NEW g, NEW l,
         SpansOk(kind, who, h, l, ss), Off(Head(ss).buf, kind, h, kind2, g)
  PROVE  Tail(ss) \in Seq(SpanT) /\ SpansOk(kind2, who, g, l, Tail(ss))
<1> DEFINE tt == Tail(ss)
<1>1. /\ tt \in Seq(SpanT) /\ Len(ss) \in Nat /\ Len(ss) > 0 /\ Len(tt) = Len(ss) - 1 /\ Head(ss) = ss[1]
      /\ \A i \in 1..Len(tt) : tt[i] = ss[i + 1]
  OBVIOUS
<1> HIDE DEF tt
<1>2. \A i \in 1..Len(tt) : i + 1 \in 1..Len(ss) /\ i + 1 # 1
  BY <1>1
<1>3. \A i \in 1..Len(ss) : ss[i].buf \in Bufs \cup {NoBuf}
  <2>1. \A s \in SpanT : s.buf \in Bufs \cup {NoBuf}
    BY DEF SpanT
  <2> QED BY <2>1
<1>4. ASSUME NEW i \in 1..Len(tt), tt[i].buf # NoBuf
      PROVE  kind2[tt[i].buf] = kind[tt[i].buf] /\ g[tt[i].buf] = h[tt[i].buf]
  <2>1. 1 \in 1..Len(ss)
    BY <1>1
  <2>2. tt[i].buf \in Bufs /\ tt[i].buf # ss[1].buf
    BY <1>1, <1>2, <1>3, <1>4, <2>1 DEF SpansOk
  <2> QED BY <1>1, <2>2 DEF Off
<1>5. \A i \in 1..Len(tt) : Fits(g, tt[i]) <=> Fits(h, tt[i])
  BY <1>4, SameBuffer
<1>6. ASSUME NEW i \in 1..Len(tt)
      PROVE  (tt[i].buf # NoBuf => kind2[tt[i].buf] = "load" /\ who[tt[i].buf] = l) /\ Fits(g, tt[i])
  BY <1>1, <1>2, <1>4, <1>5 DEF SpansOk
<1>7. ASSUME NEW i \in 1..Len(tt), NEW j \in 1..Len(tt), tt[i].buf = tt[j].buf
      PROVE  i = j \/ tt[i].buf = NoBuf
  <2>1. i + 1 = j + 1 \/ tt[i].buf = NoBuf
    BY <1>1, <1>2, <1>7 DEF SpansOk
  <2> QED BY <1>1, <2>1
<1>8. SpansOk(kind2, who, g, l, tt)
  BY <1>6, <1>7 DEF SpansOk
<1> QED BY <1>1, <1>8 DEF tt

\* The rest of the cache's spans, when one of them is gone.
LEMMA HeldLess ==
  ASSUME NEW H \in SUBSET SpanT, NEW s \in H, NEW kind, NEW h, NEW kind2, NEW g, NEW dbt,
         HeldOk(kind, h, dbt, H), Off(s.buf, kind, h, kind2, g)
  PROVE  HeldOk(kind2, g, dbt, H \ {s})
<1>1. \A t \in H : t.buf \in Bufs \cup {NoBuf}
  BY DEF SpanT
<1>2. ASSUME NEW t \in H \ {s}, t.buf # NoBuf
      PROVE  kind2[t.buf] = kind[t.buf] /\ g[t.buf] = h[t.buf]
  <2>1. t.buf # s.buf /\ t.buf \in Bufs
    BY <1>1, <1>2 DEF HeldOk
  <2> QED BY <2>1 DEF Off
<1>3. \A t \in H \ {s} : (Fits(g, t) <=> Fits(h, t)) /\ (Read(g, t) <=> Read(h, t))
  BY <1>2, SameBuffer
<1> QED BY <1>2, <1>3 DEF HeldOk

\* A buffer goes back to the pool.
LEMMA PushBackOk ==
  ASSUME TypeInv, NEW kind, NEW who, NEW b \in Bufs, PushBack(b),
         Own(kind, who, heap, registered, pool, ld, held, evictor, arena, flags.dio, doubtful),
         kind[b] \in {"load", "held"}
  PROVE  \E kind2 \in [Bufs -> Kinds] :
           /\ Off(b, kind, heap, kind2, heap') /\ heap' \in HeapT /\ pool' \in Seq(Bufs)
           /\ \A c \in Bufs : heap'[c].cap = heap[c].cap
           /\ BufOk(kind2, heap', registered') /\ PoolOk(kind2, pool') /\ ArenaOk(kind2, heap', arena)
<1> DEFINE kind2 == [kind EXCEPT ![b] = "pool"]
           none == <<>>
<1>1. /\ kind \in [Bufs -> Kinds] /\ BufOk(kind, heap, registered) /\ PoolOk(kind, pool)
      /\ ArenaOk(kind, heap, arena) /\ heap \in HeapT /\ pool \in Seq(Bufs)
      /\ 1..arena.slots \subseteq Bufs
  BY DEF Own, TypeInv, ArenaT
<1>2. /\ kind2 \in [Bufs -> Kinds] /\ kind2[b] = "pool" /\ \A c \in Bufs : c # b => kind2[c] = kind[c]
  BY <1>1 DEF Kinds
<1> HIDE DEF kind2
<1>3. /\ none \in Seq(Bytes) /\ heap' = [heap EXCEPT ![b].data = none] /\ registered' = registered
      /\ pool' = Append(pool, b)
  BY DEF PushBack
<1> HIDE DEF none
<1>4. /\ heap' \in HeapT /\ \A c \in Bufs : heap'[c].cap = heap[c].cap
      /\ \A c \in Bufs : c # b => heap'[c] = heap[c]
  BY <1>1, <1>3 DEF HeapT
<1>5. Off(b, kind, heap, kind2, heap')
  BY <1>2, <1>4 DEF Off
<1>6. BufOk(kind2, heap', registered')
  BY <1>1, <1>2, <1>3, <1>4 DEF BufOk
<1>7. pool' \in Seq(Bufs) /\ PoolOk(kind2, pool')
  <2>1. \A i \in 1..Len(pool) : pool[i] \in Bufs /\ pool[i] # b
    BY <1>1 DEF PoolOk
  <2>2. /\ pool' \in Seq(Bufs) /\ Len(pool') = Len(pool) + 1 /\ Len(pool) \in Nat
        /\ \A i \in 1..Len(pool') : pool'[i] = IF i \in 1..Len(pool) THEN pool[i] ELSE b
    BY <1>1, <1>3
  <2> QED BY <1>1, <1>2, <2>1, <2>2 DEF PoolOk
<1>8. ArenaOk(kind2, heap', arena)
  BY <1>1, <1>2, <1>4 DEF ArenaOk
<1> QED BY <1>2, <1>4, <1>5, <1>6, <1>7, <1>8

\* A buffer is freed: it was no slot of an arena, which frees only small buffers.
LEMMA ReleaseOk ==
  ASSUME TypeInv, NEW kind, NEW who, NEW b \in Bufs, Release(b),
         Own(kind, who, heap, registered, pool, ld, held, evictor, arena, flags.dio, doubtful),
         kind[b] \in {"load", "evict"}, arena.slots > 0 => heap[b].cap < POOL_MIN
  PROVE  \E kind2 \in [Bufs -> Kinds] :
           /\ Off(b, kind, heap, kind2, heap') /\ heap' \in HeapT /\ b \notin registered
           /\ BufOk(kind2, heap', registered') /\ PoolOk(kind2, pool') /\ ArenaOk(kind2, heap', arena)
<1> DEFINE kind2 == [kind EXCEPT ![b] = "free"]
<1>1. /\ kind \in [Bufs -> Kinds] /\ BufOk(kind, heap, registered) /\ PoolOk(kind, pool)
      /\ ArenaOk(kind, heap, arena) /\ heap \in HeapT /\ pool \in Seq(Bufs)
      /\ 1..arena.slots \subseteq Bufs /\ arena.slots \in Nat /\ arena.slot_bytes \in Nat
      /\ pinned = registered
  BY DEF Own, TypeInv, ArenaT
<1>2. /\ kind2 \in [Bufs -> Kinds] /\ kind2[b] = "free" /\ \A c \in Bufs : c # b => kind2[c] = kind[c]
  BY <1>1 DEF Kinds
<1> HIDE DEF kind2
<1>3. /\ heap' = [heap EXCEPT ![b] = Free] /\ registered' = registered /\ b \notin registered
      /\ pool' = pool
  BY <1>1 DEF Release
<1>4. heap' \in HeapT /\ \A c \in Bufs : c # b => heap'[c] = heap[c]
  <2>1. Free \in [cap : Nat, data : Seq(Bytes)]
    BY DEF Free
  <2> QED BY <1>1, <1>3, <2>1 DEF HeapT
<1>5. Off(b, kind, heap, kind2, heap')
  BY <1>2, <1>4 DEF Off
<1>6. BufOk(kind2, heap', registered')
  BY <1>1, <1>2, <1>3, <1>4 DEF BufOk
<1>7. PoolOk(kind2, pool')
  <2>1. \A i \in 1..Len(pool) : pool[i] \in Bufs /\ pool[i] # b
    BY <1>1 DEF PoolOk
  <2> QED BY <1>1, <1>2, <1>3, <2>1 DEF PoolOk
<1>8. b \notin 1..arena.slots
  <2>1. SUFFICES ASSUME b \in 1..arena.slots PROVE FALSE
    OBVIOUS
  <2>2. arena.slots > 0 /\ heap[b].cap = arena.slot_bytes /\ arena.slot_bytes >= POOL_MIN
    BY <1>1, <2>1 DEF ArenaOk
  <2>3. POOL_MIN \in Nat
    BY PoolAssumption
  <2> QED BY <1>1, <2>2, <2>3
<1>9. ArenaOk(kind2, heap', arena)
  BY <1>1, <1>2, <1>4, <1>8 DEF ArenaOk
<1> QED BY <1>2, <1>3, <1>4, <1>5, <1>6, <1>7, <1>9

-----------------------------------------------------------------------------
(* Freeing, and the error path *)

\* A lock is released: nothing else changes, and the count follows.
LEMMA UnpinOk ==
  ASSUME IInv, NEW b \in Bufs, Unpin(b), UNCHANGED <<flags, calls, ld, held, evictor, doubtful>>
  PROVE  IInv'
<1>0. TypeInv /\ PinInv
  BY DEF IInv
<1>1. PICK kind, who :
        Own(kind, who, heap, registered, pool, ld, held, evictor, arena, flags.dio, doubtful)
  BY DEF IInv, OwnInv
<1>2. PICK l \in Loaders : TRUE
  BY LoadAssumption
<1>3. /\ b \in registered /\ registered' = registered \ {b} /\ pinned' = pinned \ {b}
      /\ pinBytes' = pinBytes - heap[b].cap /\ arena' = arena /\ pinMax' = pinMax
      /\ heap' = heap /\ pool' = pool
  BY <1>0 DEF Unpin, TypeInv
<1>4. /\ flags' = flags /\ calls' = calls /\ ld' = ld /\ held' = held
      /\ evictor' = evictor /\ doubtful' = doubtful
  OBVIOUS
<1>5. /\ kind \in [Bufs -> Kinds] /\ who \in [Bufs -> Loaders] /\ BufOk(kind, heap, registered)
      /\ PoolOk(kind, pool) /\ ArenaOk(kind, heap, arena) /\ HeldOk(kind, heap, doubtful, held)
      /\ LoadOk(kind, who, heap, registered, arena, flags.dio, l, ld[l])
      /\ EvictOk(kind, heap, arena, evictor)
  BY <1>1 DEF Own
<1>6. ld \in [Loaders -> LoadT]
  BY <1>0 DEF TypeInv
<1>7. OwnInv'
  <2>1. \A k \in Loaders : LoadOk(kind, who, heap, registered', arena, flags.dio, k, ld[k])
    <3> TAKE k \in Loaders
    <3>1. LoadOk(kind, who, heap, registered, arena, flags.dio, k, ld[k]) /\ ld[k] \in LoadT
      BY <1>1, <1>6 DEF Own
    <3>2. \A c \in Bufs : c \in registered' => c \in registered
      BY <1>3
    <3> QED BY <3>1, <3>2, FrameLoad
  <2>2. BufOk(kind, heap, registered')
    BY <1>3, <1>5 DEF BufOk
  <2>3. Own(kind, who, heap, registered', pool, ld, held, evictor, arena, flags.dio, doubtful)
    BY <1>5, <2>1, <2>2 DEF Own
  <2> QED BY <1>3, <1>4, <2>3 DEF OwnInv
<1>8. PinInv'
  <2>1. heap \in HeapT /\ pinMax \in Nat /\ \A c \in Bufs : heap[c].cap \in Nat
    BY <1>0 DEF TypeInv, HeapT
  <2>2. IsSum(Share(heap, registered \ {b}), Bufs, pinBytes - heap[b].cap)
    BY <1>0, <1>3, <2>1, ShareRemove DEF PinInv
  <2>3. Over(heap, registered \cup Pend(ld), pinMax)
    BY <1>0 DEF PinInv
  <2>4. (registered' \cup Pend(ld)) \cap Bufs \subseteq registered \cup Pend(ld)
    BY <1>3
  <2>5. Over(heap, registered' \cup Pend(ld), pinMax)
    BY <2>1, <2>3, <2>4, OverLess
  <2> QED BY <1>3, <1>4, <2>2, <2>5 DEF PinInv
<1>9. TypeInv'
  <2>1. registered' \in SUBSET Bufs /\ pinned' = registered'
    BY <1>0, <1>3 DEF TypeInv
  <2> QED BY <1>0, <1>3, <1>4, <2>1 DEF TypeInv
<1> QED BY <1>7, <1>8, <1>9 DEF IInv

\* The first span of a failed call is gone, and its buffer is nobody's, or the pool's.
LEMMA Dropped ==
  ASSUME IInv, NEW l \in Loaders, ld[l].pc \in {"unwind", "free"}, ld[l].spans # <<>>,
         ld' = [ld EXCEPT ![l].pc = "unwind", ![l].spans = Tail(@)], NEW kind, NEW who,
         Own(kind, who, heap, registered, pool, ld, held, evictor, arena, flags.dio, doubtful),
         NEW kind2 \in [Bufs -> Kinds], Head(ld[l].spans).buf # NoBuf,
         Off(Head(ld[l].spans).buf, kind, heap, kind2, heap'),
         heap' \in HeapT, pool' \in Seq(Bufs),
         BufOk(kind2, heap', registered'), PoolOk(kind2, pool'), ArenaOk(kind2, heap', arena),
         Head(ld[l].spans).buf \in registered =>
           heap'[Head(ld[l].spans).buf].cap = heap[Head(ld[l].spans).buf].cap,
         UNCHANGED <<arena, pinMax, pinned, registered, pinBytes, flags, calls, held, evictor, doubtful>>
  PROVE  IInv'
<1>0. TypeInv /\ PinInv
  BY DEF IInv
<1> DEFINE ss == ld[l].spans
           b == Head(ss).buf
           tt == Tail(ss)
           r == [ld[l] EXCEPT !.pc = "unwind", !.spans = tt]
<1>1. /\ kind \in [Bufs -> Kinds] /\ who \in [Bufs -> Loaders] /\ HeldOk(kind, heap, doubtful, held)
      /\ LoadOk(kind, who, heap, registered, arena, flags.dio, l, ld[l])
  BY DEF Own
<1>2. ss \in Seq(SpanT) /\ SpansOk(kind, who, heap, l, ss)
  BY <1>0, <1>1, LoaderTypes DEF LoadOk
<1>3. tt \in Seq(SpanT) /\ SpansOk(kind2, who, heap', l, tt)
  BY <1>2, TailOk
<1>4. b \in Bufs /\ kind[b] = "load" /\ who[b] = l
  <2>1. 1 \in 1..Len(ss) /\ Head(ss) = ss[1]
    BY <1>2
  <2> QED BY <1>0, <1>2, <2>1, LoaderTypes DEF SpansOk
<1>5. \A c \in Bufs : c # b => kind2[c] = kind[c] /\ heap'[c] = heap[c]
  BY DEF Off
<1>6. ld' = [ld EXCEPT ![l].pc = "unwind", ![l].spans = tt]
  BY <1>0, LoaderTypes
<1> HIDE DEF tt
<1>7. Turns(l, r)
  BY <1>0, <1>6, LoaderTypes DEF Turns
<1>8. r.pc = "unwind" /\ r.spans = tt /\ r \in LoadT
  BY <1>0, <1>3, LoaderTypes DEF LoadT
<1> HIDE DEF r, b
<1>9. /\ arena' = arena /\ pinMax' = pinMax /\ pinned' = pinned /\ registered' = registered
      /\ pinBytes' = pinBytes /\ flags' = flags /\ calls' = calls /\ evictor' = evictor /\ held' = held
      /\ doubtful' = doubtful
  OBVIOUS
<1>10. LoadOk(kind2, who, heap', registered', arena, flags.dio, l, r)
  BY <1>3, <1>8 DEF LoadOk, RegisterOk, FreeOk, ReadOk
<1>11. OwnInv'
  <2>1. OthersKeep(l, kind, who, heap, registered, kind2, who, heap', registered')
    BY <1>4, <1>5, <1>9 DEF OthersKeep
  <2>2. HeldOk(kind2, heap', doubtful', held')
    <3>1. \A c \in Bufs : kind[c] = "held" => kind2[c] = "held" /\ heap'[c] = heap[c]
      BY <1>4, <1>5
    <3>2. held \in SUBSET SpanT
      BY <1>0 DEF TypeInv
    <3> QED BY <1>1, <1>9, <3>1, <3>2, FrameHeld
  <2> QED BY <1>0, <1>1, <1>7, <1>9, <1>10, <2>1, <2>2, OwnStep
<1>12. PinInv'
  <2>1. Pend(ld') \subseteq Pend(ld)
    <3>1. r.pc # "register"
      BY <1>8
    <3> QED BY <1>0, <1>7, <3>1, PendLess
  <2>2. b \notin Pend(ld)
    <3>1. SUFFICES ASSUME b \in Pend(ld) PROVE FALSE
      OBVIOUS
    <3>2. PICK k \in Loaders : ld[k].pc = "register" /\ who[b] = k
      BY <1>0, <3>1, PendOwned
    <3> QED BY <1>4, <3>2
  <2>3. \A c \in Bufs : c \in registered \/ c \in Pend(ld') => heap'[c].cap = heap[c].cap
    BY <1>5, <2>1, <2>2 DEF b
  <2> QED BY <1>0, <1>9, <2>1, <2>3, PinSame
<1>13. TypeInv'
  <2>1. ld' \in [Loaders -> LoadT]
    BY <1>0, <1>7, <1>8 DEF TypeInv, Turns
  <2> QED BY <1>0, <1>9, <2>1 DEF TypeInv
<1> QED BY <1>11, <1>12, <1>13 DEF IInv

\* The error path gives the first span's buffer back, or frees it after unlocking it.
LEMMA UnwindStepOk ==
  ASSUME IInv, NEW l \in Loaders, UnwindStep(l)
  PROVE  IInv'
<1>0. TypeInv
  BY DEF IInv
<1> DEFINE ss == ld[l].spans
           s == Head(ss)
           next == ld' = [ld EXCEPT ![l].pc = "unwind", ![l].spans = Tail(@)]
<1>1. /\ ss # <<>> /\ UNCHANGED <<flags, calls, held>>
      /\ \/ ld[l].pc = "unwind" /\ Returned(s, next /\ UNCHANGED evictor)
         \/ ld[l].pc = "unwind" /\ Rejected(s, ld' = [ld EXCEPT ![l].pc = "free"] /\ UNCHANGED evictor)
         \/ ld[l].pc = "free"   /\ Freed(s, next /\ UNCHANGED evictor)
  BY DEF UnwindStep
<1>2. PICK kind, who :
        Own(kind, who, heap, registered, pool, ld, held, evictor, arena, flags.dio, doubtful)
  BY DEF IInv, OwnInv
<1>3. LoadOk(kind, who, heap, registered, arena, flags.dio, l, ld[l])
  BY <1>2 DEF Own
<1>4. ss \in Seq(SpanT) /\ 1 \in 1..Len(ss) /\ s = ss[1]
  BY <1>0, <1>1, LoaderTypes
<1>5. s.buf # NoBuf => s.buf \in Bufs /\ kind[s.buf] = "load"
  BY <1>0, <1>3, <1>4, LoaderTypes DEF LoadOk, SpansOk
<1>6. doubtful \in BOOLEAN /\ pool \in Seq(Bufs)
  BY <1>0 DEF TypeInv
<1>7. CASE ld[l].pc = "unwind" /\ Returned(s, next /\ UNCHANGED evictor) /\ s.buf = NoBuf
  <2> DEFINE tt == Tail(ss)
             r == [ld[l] EXCEPT !.pc = "unwind", !.spans = tt]
  <2>1. next /\ UNCHANGED evictor /\ doubtful' = doubtful /\ UNCHANGED poolVars
    BY <1>7 DEF Returned
  <2>2. ld' = [ld EXCEPT ![l].pc = "unwind", ![l].spans = tt] /\ tt \in Seq(SpanT)
    BY <1>0, <1>1, <2>1, LoaderTypes
  <2>3. \A k, w : SpansOk(k, w, heap, l, ss) => SpansOk(k, w, heap, l, tt)
    <3> TAKE k, w
    <3>1. Off(Head(ss).buf, k, heap, k, heap)
      BY DEF Off
    <3> QED BY <1>1, <1>4, <3>1, TailOk
  <2> HIDE DEF tt
  <2>4. ld' = [ld EXCEPT ![l] = r]
    BY <1>0, <2>2, LoaderTypes
  <2>5. r.pc = "unwind" /\ r.spans = tt /\ r \in LoadT
    BY <1>0, <2>2, LoaderTypes DEF LoadT
  <2> HIDE DEF r
  <2>6. ASSUME NEW k, NEW w, LoadOk(k, w, heap, registered, arena, flags.dio, l, ld[l])
        PROVE  LoadOk(k, w, heap, registered, arena, flags.dio, l, r)
    <3>1. SpansOk(k, w, heap, l, tt)
      BY <2>3, <2>6 DEF LoadOk
    <3> QED BY <2>5, <3>1 DEF LoadOk, RegisterOk, FreeOk, ReadOk
  <2>7. /\ UNCHANGED <<poolVars, flags, calls, held, evictor>>
        /\ doubtful' \in BOOLEAN /\ (doubtful => doubtful')
    BY <1>1, <1>6, <2>1
  <2> QED BY <2>4, <2>5, <2>6, <2>7, PrivateStep
<1>8. CASE ld[l].pc = "unwind" /\ Returned(s, next /\ UNCHANGED evictor) /\ s.buf # NoBuf
  <2>1. next /\ UNCHANGED evictor /\ doubtful' = doubtful /\ PushBack(s.buf)
    BY <1>8 DEF Returned
  <2>2. PICK kind2 \in [Bufs -> Kinds] :
          /\ Off(s.buf, kind, heap, kind2, heap') /\ heap' \in HeapT /\ pool' \in Seq(Bufs)
          /\ \A c \in Bufs : heap'[c].cap = heap[c].cap
          /\ BufOk(kind2, heap', registered') /\ PoolOk(kind2, pool') /\ ArenaOk(kind2, heap', arena)
    BY <1>0, <1>2, <1>5, <1>8, <2>1, PushBackOk
  <2>3. UNCHANGED <<arena, pinMax, pinned, registered, pinBytes, flags, calls, held, evictor, doubtful>>
    BY <1>1, <2>1 DEF PushBack
  <2>4. s.buf \in registered => heap'[s.buf].cap = heap[s.buf].cap
    BY <1>5, <1>8, <2>2
  <2> QED BY <1>1, <1>2, <1>8, <2>1, <2>2, <2>3, <2>4, Dropped
<1>9. CASE ld[l].pc = "unwind" /\ Rejected(s, ld' = [ld EXCEPT ![l].pc = "free"] /\ UNCHANGED evictor)
  <2> DEFINE r == [ld[l] EXCEPT !.pc = "free"]
  <2>1. /\ s.buf # NoBuf /\ ~Accepts(s.buf) /\ ld' = [ld EXCEPT ![l].pc = "free"]
        /\ UNCHANGED evictor /\ UNCHANGED poolVars /\ doubtful' = doubtful
    BY <1>9 DEF Rejected
  <2>2. ld' = [ld EXCEPT ![l] = r]
    BY <1>0, <2>1, LoaderTypes
  <2>3. r.pc = "free" /\ r.spans = ss /\ r \in LoadT
    BY <1>0, LoaderTypes DEF LoadT
  <2> HIDE DEF r
  <2>4. arena.slots > 0 => heap[s.buf].cap < POOL_MIN
    <3>1. heap[s.buf].cap \in Nat /\ POOL_MIN \in Nat
      BY <1>0, <1>5, <2>1, PoolAssumption DEF TypeInv, HeapT
    <3> QED BY <2>1, <3>1 DEF Accepts
  <2>5. ASSUME NEW k, NEW w, LoadOk(k, w, heap, registered, arena, flags.dio, l, ld[l])
        PROVE  LoadOk(k, w, heap, registered, arena, flags.dio, l, r)
    BY <1>1, <2>1, <2>3, <2>4, <2>5 DEF LoadOk, RegisterOk, FreeOk, ReadOk
  <2>6. /\ UNCHANGED <<poolVars, flags, calls, held, evictor>>
        /\ doubtful' \in BOOLEAN /\ (doubtful => doubtful')
    BY <1>1, <1>6, <2>1
  <2> QED BY <2>2, <2>3, <2>5, <2>6, PrivateStep
<1>10. CASE ld[l].pc = "free" /\ Freed(s, next /\ UNCHANGED evictor)
  <2>1. doubtful' = doubtful /\ (\/ Unpin(s.buf) /\ UNCHANGED <<ld, evictor>>
                                 \/ Release(s.buf) /\ next /\ UNCHANGED evictor)
    BY <1>10 DEF Freed
  <2>2. s.buf # NoBuf /\ s.buf \in Bufs /\ kind[s.buf] = "load"
        /\ (arena.slots > 0 => heap[s.buf].cap < POOL_MIN)
    BY <1>3, <1>5, <1>10 DEF LoadOk, FreeOk
  <2>3. CASE Unpin(s.buf) /\ UNCHANGED <<ld, evictor>>
    <3>1. UNCHANGED <<flags, calls, ld, held, evictor, doubtful>>
      BY <1>1, <2>1, <2>3
    <3> QED BY <2>2, <2>3, <3>1, UnpinOk
  <2>4. CASE Release(s.buf) /\ next /\ UNCHANGED evictor
    <3>1. PICK kind2 \in [Bufs -> Kinds] :
            /\ Off(s.buf, kind, heap, kind2, heap') /\ heap' \in HeapT /\ s.buf \notin registered
            /\ BufOk(kind2, heap', registered') /\ PoolOk(kind2, pool') /\ ArenaOk(kind2, heap', arena)
      BY <1>0, <1>2, <2>2, <2>4, ReleaseOk
    <3>2. /\ UNCHANGED <<arena, pinMax, pinned, registered, pinBytes, flags, calls, held, evictor, doubtful>>
          /\ pool' = pool
      BY <1>1, <2>1, <2>4 DEF Release
    <3>3. pool' \in Seq(Bufs)
      BY <1>6, <3>2
    <3> QED BY <1>1, <1>2, <1>10, <2>2, <2>4, <3>1, <3>2, <3>3, Dropped
  <2> QED BY <2>1, <2>3, <2>4
<1> QED BY <1>1, <1>7, <1>8, <1>9, <1>10

-----------------------------------------------------------------------------
(* Steps of the cache *)

\* A step of the cache, which touches no loader's buffer.
LEMMA OwnEvict ==
  ASSUME TypeInv, NEW kind, NEW who,
         Own(kind, who, heap, registered, pool, ld, held, evictor, arena, flags.dio, doubtful),
         NEW kind2 \in [Bufs -> Kinds], NEW b, b \in Bufs => kind[b] # "load",
         Off(b, kind, heap, kind2, heap'),
         BufOk(kind2, heap', registered'), PoolOk(kind2, pool'), ArenaOk(kind2, heap', arena),
         HeldOk(kind2, heap', doubtful, held'), EvictOk(kind2, heap', arena, evictor'),
         ld' = ld, arena' = arena, flags' = flags, doubtful' = doubtful, registered' = registered
  PROVE  OwnInv'
<1>1. ld \in [Loaders -> LoadT]
  BY DEF TypeInv
<1>2. ASSUME NEW k \in Loaders
      PROVE  LoadOk(kind2, who, heap', registered', arena, flags.dio, k, ld[k])
  <2>1. LoadOk(kind, who, heap, registered, arena, flags.dio, k, ld[k]) /\ ld[k] \in LoadT
    BY <1>1 DEF Own
  <2>2. \A c \in Bufs : kind[c] = "load" /\ who[c] = k =>
          /\ kind2[c] = "load" /\ who[c] = k /\ heap'[c] = heap[c]
          /\ c \in registered' => c \in registered
    BY DEF Off
  <2> QED BY <2>1, <2>2, FrameLoad
<1>3. Own(kind2, who, heap', registered', pool', ld, held', evictor', arena, flags.dio, doubtful)
  BY <1>2 DEF Own
<1> QED BY <1>3 DEF OwnInv

\* What is left to show of it: what is locked keeps its size, and the types.
LEMMA CacheStep ==
  ASSUME IInv, OwnInv', ld' = ld, heap' \in HeapT, pool' \in Seq(Bufs), held' \in SUBSET SpanT,
         evictor' \in SpanT, NEW b, b \notin Pend(ld),
         \A c \in Bufs : c # b \/ c \in registered => heap'[c].cap = heap[c].cap,
         UNCHANGED <<arena, pinMax, pinned, registered, pinBytes, flags, calls, doubtful>>
  PROVE  IInv'
<1>0. TypeInv /\ PinInv
  BY DEF IInv
<1>1. /\ arena' = arena /\ pinMax' = pinMax /\ pinned' = pinned /\ registered' = registered
      /\ pinBytes' = pinBytes /\ flags' = flags /\ calls' = calls /\ doubtful' = doubtful
  OBVIOUS
<1>2. PinInv'
  <2>1. Pend(ld') \subseteq Pend(ld)
    OBVIOUS
  <2>2. \A c \in Bufs : c \in registered \/ c \in Pend(ld') => heap'[c].cap = heap[c].cap
    OBVIOUS
  <2> QED BY <1>0, <1>1, <2>1, <2>2, PinSame
<1>3. TypeInv'
  BY <1>0, <1>1 DEF TypeInv
<1> QED BY <1>2, <1>3 DEF IInv

\* A span that leaves the cache gives its buffer back, or keeps it until it is freed.
LEMMA EvictStepOk ==
  ASSUME IInv, Evict
  PROVE  IInv'
<1>0. TypeInv
  BY DEF IInv
<1>1. PICK s \in held :
        /\ held' = held \ {s}
        /\ \/ Returned(s, UNCHANGED <<ld, evictor>>)
           \/ Rejected(s, evictor' = s /\ UNCHANGED ld)
  BY DEF Evict
<1>2. PICK kind, who :
        Own(kind, who, heap, registered, pool, ld, held, evictor, arena, flags.dio, doubtful)
  BY DEF IInv, OwnInv
<1>3. /\ kind \in [Bufs -> Kinds] /\ BufOk(kind, heap, registered)
      /\ PoolOk(kind, pool) /\ ArenaOk(kind, heap, arena) /\ HeldOk(kind, heap, doubtful, held)
      /\ EvictOk(kind, heap, arena, evictor)
  BY <1>2 DEF Own
<1>4. /\ held \in SUBSET SpanT /\ s \in SpanT /\ s.buf \in Bufs \cup {NoBuf} /\ evictor \in SpanT
      /\ heap \in HeapT /\ pool \in Seq(Bufs) /\ 1..arena.slots \subseteq Bufs
  BY <1>0 DEF TypeInv, SpanT, ArenaT
<1>5. s.buf # NoBuf => s.buf \in Bufs /\ kind[s.buf] = "held"
  BY <1>3, <1>4 DEF HeldOk
<1>6. NoBuf \notin Bufs
  BY LoadAssumption
<1>7. s.buf \in Bufs => kind[s.buf] # "load"
  BY <1>5, <1>6
<1>8. s.buf \notin Pend(ld)
  <2>1. \A c \in Pend(ld) : c \in Bufs /\ kind[c] = "load"
    BY <1>0, <1>2, PendOwned
  <2> QED BY <1>7, <2>1
<1>9. evictor = NoSpan /\ flags' = flags /\ calls' = calls /\ held' \in SUBSET SpanT
  BY <1>1, <1>4 DEF Evict
<1>10. CASE Returned(s, UNCHANGED <<ld, evictor>>) /\ s.buf = NoBuf
  <2>1. /\ ld' = ld /\ evictor' = evictor /\ doubtful' = doubtful
        /\ arena' = arena /\ pinMax' = pinMax /\ heap' = heap /\ pool' = pool
        /\ registered' = registered /\ pinned' = pinned /\ pinBytes' = pinBytes
    BY <1>10 DEF Returned, poolVars
  <2>2. Off(s.buf, kind, heap, kind, heap)
    BY DEF Off
  <2>3. HeldOk(kind, heap, doubtful, held \ {s})
    BY <1>3, <1>4, <2>2, HeldLess
  <2>4. /\ Off(s.buf, kind, heap, kind, heap') /\ BufOk(kind, heap', registered') /\ PoolOk(kind, pool')
        /\ ArenaOk(kind, heap', arena) /\ HeldOk(kind, heap', doubtful, held')
        /\ EvictOk(kind, heap', arena, evictor')
    BY <1>1, <1>3, <2>1, <2>2, <2>3
  <2>5. OwnInv'
    BY <1>0, <1>2, <1>3, <1>7, <1>9, <2>1, <2>4, OwnEvict
  <2>6. \A c \in Bufs : heap'[c].cap = heap[c].cap
    BY <2>1
  <2>7. UNCHANGED <<arena, pinMax, pinned, registered, pinBytes, flags, calls, doubtful>>
    BY <1>9, <2>1
  <2> QED BY <1>4, <1>8, <1>9, <2>1, <2>5, <2>6, <2>7, CacheStep
<1>11. CASE Returned(s, UNCHANGED <<ld, evictor>>) /\ s.buf # NoBuf
  <2>1. ld' = ld /\ evictor' = evictor /\ doubtful' = doubtful /\ PushBack(s.buf)
    BY <1>11 DEF Returned
  <2>2. /\ arena' = arena /\ pinMax' = pinMax
        /\ registered' = registered /\ pinned' = pinned /\ pinBytes' = pinBytes
    BY <2>1 DEF PushBack
  <2>3. PICK kind2 \in [Bufs -> Kinds] :
          /\ Off(s.buf, kind, heap, kind2, heap') /\ heap' \in HeapT /\ pool' \in Seq(Bufs)
          /\ \A c \in Bufs : heap'[c].cap = heap[c].cap
          /\ BufOk(kind2, heap', registered') /\ PoolOk(kind2, pool') /\ ArenaOk(kind2, heap', arena)
    BY <1>0, <1>2, <1>5, <1>11, <2>1, PushBackOk
  <2>4. HeldOk(kind2, heap', doubtful, held')
    BY <1>1, <1>3, <1>4, <2>3, HeldLess
  <2>5. EvictOk(kind2, heap', arena, evictor')
    BY <1>9, <2>1 DEF EvictOk
  <2>6. OwnInv'
    BY <1>0, <1>2, <1>7, <1>9, <2>1, <2>2, <2>3, <2>4, <2>5, OwnEvict
  <2>7. UNCHANGED <<arena, pinMax, pinned, registered, pinBytes, flags, calls, doubtful>>
    BY <1>9, <2>1, <2>2
  <2>8. evictor' \in SpanT
    BY <1>4, <2>1
  <2> QED BY <1>8, <1>9, <2>1, <2>3, <2>6, <2>7, <2>8, CacheStep
<1>12. CASE Rejected(s, evictor' = s /\ UNCHANGED ld)
  <2> DEFINE kind2 == [kind EXCEPT ![s.buf] = "evict"]
  <2>1. /\ s.buf # NoBuf /\ ~Accepts(s.buf) /\ evictor' = s /\ ld' = ld /\ doubtful' = doubtful
        /\ arena' = arena /\ pinMax' = pinMax /\ heap' = heap /\ pool' = pool
        /\ registered' = registered /\ pinned' = pinned /\ pinBytes' = pinBytes
    BY <1>12 DEF Rejected, poolVars
  <2>2. /\ kind2 \in [Bufs -> Kinds] /\ kind2[s.buf] = "evict"
        /\ \A c \in Bufs : c # s.buf => kind2[c] = kind[c]
    BY <1>3, <1>5, <2>1 DEF Kinds
  <2> HIDE DEF kind2
  <2>3. Off(s.buf, kind, heap, kind2, heap)
    BY <2>2 DEF Off
  <2>4. HeldOk(kind2, heap, doubtful, held \ {s})
    BY <1>3, <1>4, <2>3, HeldLess
  <2>5. BufOk(kind2, heap, registered)
    BY <1>3, <1>5, <2>1, <2>2 DEF BufOk
  <2>6. PoolOk(kind2, pool)
    <3>1. \A i \in 1..Len(pool) : pool[i] \in Bufs /\ pool[i] # s.buf
      BY <1>3, <1>4, <1>5, <2>1 DEF PoolOk
    <3> QED BY <1>3, <2>2, <3>1 DEF PoolOk
  <2>7. ArenaOk(kind2, heap, arena)
    BY <1>3, <1>4, <1>5, <2>1, <2>2 DEF ArenaOk
  <2>8. EvictOk(kind2, heap, arena, s)
    <3>1. heap[s.buf].cap \in Nat /\ POOL_MIN \in Nat
      BY <1>4, <1>5, <2>1, PoolAssumption DEF HeapT
    <3> QED BY <2>1, <2>2, <3>1 DEF EvictOk, Accepts
  <2>9. /\ Off(s.buf, kind, heap, kind2, heap') /\ BufOk(kind2, heap', registered') /\ PoolOk(kind2, pool')
        /\ ArenaOk(kind2, heap', arena) /\ HeldOk(kind2, heap', doubtful, held')
        /\ EvictOk(kind2, heap', arena, evictor')
    BY <1>1, <2>1, <2>3, <2>4, <2>5, <2>6, <2>7, <2>8
  <2>10. OwnInv'
    BY <1>0, <1>2, <1>7, <1>9, <2>1, <2>2, <2>9, OwnEvict
  <2>11. \A c \in Bufs : heap'[c].cap = heap[c].cap
    BY <2>1
  <2>12. UNCHANGED <<arena, pinMax, pinned, registered, pinBytes, flags, calls, doubtful>>
    BY <1>9, <2>1
  <2> QED BY <1>4, <1>8, <1>9, <2>1, <2>10, <2>11, <2>12, CacheStep
<1> QED BY <1>1, <1>10, <1>11, <1>12

\* A buffer the pool rejected is unlocked before it is freed.
LEMMA EvictFreeOk ==
  ASSUME IInv, EvictFree
  PROVE  IInv'
<1>0. TypeInv
  BY DEF IInv
<1> DEFINE b == evictor.buf
<1>1. /\ evictor # NoSpan /\ flags' = flags /\ calls' = calls /\ held' = held /\ doubtful' = doubtful
      /\ \/ Unpin(b) /\ UNCHANGED <<ld, evictor>>
         \/ Release(b) /\ evictor' = NoSpan /\ ld' = ld
  BY DEF EvictFree, Freed
<1>2. PICK kind, who :
        Own(kind, who, heap, registered, pool, ld, held, evictor, arena, flags.dio, doubtful)
  BY DEF IInv, OwnInv
<1>3. /\ HeldOk(kind, heap, doubtful, held) /\ EvictOk(kind, heap, arena, evictor)
  BY <1>2 DEF Own
<1>4. /\ held \in SUBSET SpanT /\ pool \in Seq(Bufs) /\ evictor.buf \in Bufs \cup {NoBuf}
  BY <1>0 DEF TypeInv, SpanT
<1>5. b \in Bufs /\ kind[b] = "evict" /\ (arena.slots > 0 => heap[b].cap < POOL_MIN)
  BY <1>1, <1>3, <1>4 DEF EvictOk
<1> HIDE DEF b
<1>6. CASE Unpin(b) /\ UNCHANGED <<ld, evictor>>
  <2>1. UNCHANGED <<flags, calls, ld, held, evictor, doubtful>>
    BY <1>1, <1>6
  <2> QED BY <1>5, <1>6, <2>1, UnpinOk
<1>7. CASE Release(b) /\ evictor' = NoSpan /\ ld' = ld
  <2>1. /\ arena' = arena /\ pinMax' = pinMax /\ pool' = pool
        /\ registered' = registered /\ pinned' = pinned /\ pinBytes' = pinBytes
    BY <1>7 DEF Release
  <2>2. PICK kind2 \in [Bufs -> Kinds] :
          /\ Off(b, kind, heap, kind2, heap') /\ heap' \in HeapT /\ b \notin registered
          /\ BufOk(kind2, heap', registered') /\ PoolOk(kind2, pool') /\ ArenaOk(kind2, heap', arena)
    BY <1>0, <1>2, <1>5, <1>7, ReleaseOk
  <2>3. HeldOk(kind2, heap', doubtful, held')
    <3>1. \A c \in Bufs : kind[c] = "held" => kind2[c] = "held" /\ heap'[c] = heap[c]
      BY <1>5, <2>2 DEF Off
    <3> QED BY <1>1, <1>3, <1>4, <3>1, FrameHeld
  <2>4. EvictOk(kind2, heap', arena, evictor')
    BY <1>7 DEF EvictOk
  <2>5. OwnInv'
    BY <1>0, <1>1, <1>2, <1>5, <1>7, <2>1, <2>2, <2>3, <2>4, OwnEvict
  <2>6. b \notin Pend(ld)
    <3>1. \A c \in Pend(ld) : c \in Bufs /\ kind[c] = "load"
      BY <1>0, <1>2, PendOwned
    <3> QED BY <1>5, <3>1
  <2>7. \A c \in Bufs : c # b \/ c \in registered => heap'[c].cap = heap[c].cap
    BY <2>2 DEF Off
  <2>8. UNCHANGED <<arena, pinMax, pinned, registered, pinBytes, flags, calls, doubtful>>
    BY <1>1, <2>1
  <2>9. evictor' \in SpanT /\ pool' \in Seq(Bufs) /\ held' \in SUBSET SpanT
    BY <1>1, <1>4, <1>7, <2>1, Blanks
  <2> QED BY <1>7, <2>2, <2>5, <2>6, <2>7, <2>8, <2>9, CacheStep
<1> QED BY <1>1, <1>6, <1>7

-----------------------------------------------------------------------------
(* The invariant is inductive *)

\* arena_init locks the first slots, as many as the ceiling has room for.
LEMMA FirstSlots ==
  ASSUME NEW n \in Nat, NEW sb \in Nat, NEW m \in Nat, NEW R, R = {b \in 1..n : b * sb <= m}
  PROVE  IsFiniteSet(R) /\ Cardinality(R) \in Nat /\ Cardinality(R) * sb <= m
<1>1. IsFiniteSet(1..n) /\ R \in SUBSET (1..n)
  BY FS_Interval
<1>2. IsFiniteSet(R) /\ Cardinality(R) \in Nat
  BY <1>1, FS_Subset, FS_CardinalityType
<1> DEFINE k == Cardinality(R)
<1>3. k * sb <= m
  <2>1. SUFFICES ASSUME ~(k * sb <= m) PROVE FALSE
    OBVIOUS
  <2> HIDE DEF k
  <2>2. k \in Nat /\ k * sb \in Nat /\ m < k * sb
    <3>1. k \in Nat
      BY <1>2 DEF k
    <3>2. k * sb \in Nat
      BY <3>1
    <3> QED BY <2>1, <3>1, <3>2
  <2>3. k > 0
    <3>1. k = 0 => k * sb = 0
      OBVIOUS
    <3> QED BY <2>2, <3>1
  <2>4. \A b \in R : b \in 1..(k - 1)
    <3> TAKE b \in R
    <3>1. b \in 1..n /\ b * sb <= m /\ b \in Nat /\ b >= 1
      OBVIOUS
    <3>2. b * sb \in Nat /\ b * sb < k * sb
      BY <2>2, <3>1
    <3>3. b < k
      <4>1. b >= k => b * sb >= k * sb
        BY <2>2, <3>1
      <4> QED BY <2>2, <3>1, <3>2, <4>1
    <3> QED BY <2>2, <3>1, <3>3
  <2>5. IsFiniteSet(1..(k - 1)) /\ Cardinality(1..(k - 1)) = k - 1
    <3>1. k - 1 \in Int /\ 1 \in Int /\ ~(1 > (k - 1) + 1)
      BY <2>2, <2>3
    <3>2. IsFiniteSet(1..(k - 1)) /\ Cardinality(1..(k - 1)) = IF 1 > k - 1 THEN 0 ELSE (k - 1) - 1 + 1
      BY <3>1, FS_Interval
    <3> QED BY <2>2, <2>3, <3>2
  <2>6. Cardinality(R) <= k - 1
    BY <2>4, <2>5, FS_Subset
  <2> QED BY <2>2, <2>6 DEF k
<1> QED BY <1>2, <1>3

\* arena_init establishes the invariant: every slot is pooled, and the slots are locked in
\* order while the ceiling allows.
LEMMA InitOk == Init => IInv
<1> SUFFICES ASSUME Init PROVE IInv
  OBVIOUS
<1>1. PICK s \in Setups : PoolInit(s.arena, s.pin_max) /\ flags = s.flags /\ calls = s.calls
  BY DEF Init
<1>2. ld = [l \in Loaders |-> Idle] /\ held = {} /\ evictor = NoSpan /\ doubtful = FALSE
  BY DEF Init
<1> DEFINE n == arena.slots
           sb == arena.slot_bytes
<1>3. /\ arena = s.arena /\ pinMax = s.pin_max
      /\ heap = [b \in Bufs |-> IF b <= n THEN [cap |-> sb, data |-> <<>>] ELSE Free]
      /\ pool = [i \in 1..n |-> i]
      /\ registered = {b \in 1..n : b * sb <= pinMax}
      /\ pinned = registered /\ pinBytes = Cardinality(registered) * sb
  BY <1>1 DEF PoolInit
<1>4. /\ arena \in [slot_bytes : Nat, slots : Nat] /\ pinMax \in Nat /\ 1..n \subseteq Bufs
      /\ (n > 0 => sb > 0) /\ flags \in [dio : BOOLEAN, ring : BOOLEAN, mmap : BOOLEAN, direct : BOOLEAN]
  BY <1>1, <1>3, LoadAssumption
<1>5. n \in Nat /\ sb \in Nat /\ flags.dio \in BOOLEAN
  BY <1>4
<1>6. Bufs \subseteq Nat /\ IsFiniteSet(Bufs) /\ \A b \in Bufs : b <= n <=> b \in 1..n
  <2>1. Bufs \subseteq Nat /\ IsFiniteSet(Bufs) /\ 0 \notin Bufs
    BY PoolAssumption, LoadAssumption DEF NoBuf
  <2> QED BY <1>5, <2>1
<1>7. arena \in ArenaT
  BY <1>4 DEF ArenaT
<1> HIDE DEF n, sb
<1> DEFINE none == <<>>
<1>8. /\ heap \in HeapT
      /\ \A b \in Bufs : heap[b].cap = IF b \in 1..n THEN sb ELSE 0
  <2>1. none \in Seq(Bytes) /\ heap = [b \in Bufs |-> IF b <= n THEN [cap |-> sb, data |-> none]
                                                   ELSE [cap |-> 0, data |-> none]]
    BY <1>3 DEF Free
  <2> HIDE DEF none
  <2>2. \A b \in Bufs : heap[b] = IF b \in 1..n THEN [cap |-> sb, data |-> none]
                                  ELSE [cap |-> 0, data |-> none]
    BY <1>6, <2>1
  <2>3. heap \in HeapT
    BY <1>5, <2>1 DEF HeapT
  <2> QED BY <2>2, <2>3
<1>9. pool \in Seq(Bufs) /\ Len(pool) = n /\ \A i \in 1..n : pool[i] = i
  BY <1>3, <1>4, <1>5 DEF n
<1>10. registered \in SUBSET (1..n) /\ registered \in SUBSET Bufs
  BY <1>3, <1>4 DEF n
<1>11. \A l \in Loaders : \A r \in calls[l] : r.single \in BOOLEAN /\ Plan[r] \in Seq(Pieces)
  BY <1>1, PlanPieces
<1>12. TypeInv
  <2>1. ld \in [Loaders -> LoadT] /\ held \in SUBSET SpanT /\ evictor \in SpanT /\ doubtful \in BOOLEAN
    BY <1>2, Blanks
  <2> QED BY <1>3, <1>4, <1>5, <1>7, <1>8, <1>9, <1>10, <1>11, <2>1 DEF TypeInv
<1>13. OwnInv
  <2> DEFINE kind == [b \in Bufs |-> IF b \in 1..n THEN "pool" ELSE "free"]
  <2>1. PICK l0 \in Loaders : TRUE
    BY LoadAssumption
  <2> DEFINE who == [b \in Bufs |-> l0]
  <2>2. /\ kind \in [Bufs -> Kinds] /\ who \in [Bufs -> Loaders]
        /\ \A b \in Bufs : kind[b] = IF b \in 1..n THEN "pool" ELSE "free"
    BY DEF Kinds
  <2> HIDE DEF kind, who
  <2>3. BufOk(kind, heap, registered)
    <3>1. \A b \in 1..n : sb > 0
      BY <1>4, <1>5 DEF n, sb
    <3> QED BY <1>8, <1>10, <2>2, <3>1 DEF BufOk
  <2>4. PoolOk(kind, pool)
    BY <1>4, <1>9, <2>2 DEF PoolOk, n
  <2>5. ArenaOk(kind, heap, arena)
    BY <1>4, <1>8, <2>2 DEF ArenaOk, n, sb
  <2>6. ASSUME NEW k \in Loaders
        PROVE  LoadOk(kind, who, heap, registered, arena, flags.dio, k, ld[k])
    <3>1. ld[k].pc = "idle" /\ ld[k].spans = <<>> /\ ld[k].single = FALSE
      BY <1>2 DEF Idle
    <3> QED BY <3>1 DEF LoadOk, SpansOk, RegisterOk, FreeOk, ReadOk
  <2>7. HeldOk(kind, heap, doubtful, held) /\ EvictOk(kind, heap, arena, evictor)
    BY <1>2 DEF HeldOk, EvictOk
  <2>8. Own(kind, who, heap, registered, pool, ld, held, evictor, arena, flags.dio, doubtful)
    BY <2>2, <2>3, <2>4, <2>5, <2>6, <2>7 DEF Own
  <2> QED BY <2>8 DEF OwnInv
<1>14. PinInv
  <2> DEFINE one == [b \in Bufs |-> IF b \in registered THEN 1 ELSE 0]
             f == Share(heap, registered)
             v == Cardinality(registered)
  <2>1. IsSum(one, Bufs, v)
    BY <1>6, <1>10, SumCounts
  <2>2. \A b \in Bufs : one[b] \in Nat /\ f[b] = one[b] * sb
    <3>1. \A b \in Bufs : f[b] = IF b \in registered THEN sb ELSE 0
      BY <1>8, <1>10 DEF Share
    <3>2. \A b \in Bufs : one[b] = IF b \in registered THEN 1 ELSE 0
      OBVIOUS
    <3> HIDE DEF f, one
    <3> QED BY <1>5, <3>1, <3>2
  <2>3. IsSum(f, Bufs, v * sb)
    <3> HIDE DEF f, one, v
    <3> QED BY <1>5, <2>1, <2>2, SumScale
  <2>4. registered = {b \in 1..n : b * sb <= pinMax} /\ pinBytes = v * sb
    BY <1>3 DEF n, sb
  <2>5. v \in Nat /\ v * sb <= pinMax
    BY <1>4, <1>5, <2>4, FirstSlots
  <2>6. v * sb \in Nat
    <3> HIDE DEF v
    <3> QED BY <1>5, <2>5
  <2>7. Pend(ld) = {}
    <3>1. \A k \in Loaders : ld[k].pc = "idle"
      BY <1>2 DEF Idle
    <3> QED BY <3>1 DEF Pend
  <2>8. Cardinality({}) <= Cardinality(Loaders) - 1
    <3>1. IsFiniteSet(Loaders) /\ Loaders # {}
      BY LoadAssumption
    <3>2. Cardinality(Loaders) \in Nat /\ Cardinality(Loaders) # 0 /\ Cardinality({}) = 0
      BY <3>1, FS_CardinalityType, FS_EmptySet
    <3> QED BY <3>2
  <2>9. (registered \cup Pend(ld)) \ {} = registered
    BY <2>7
  <2>10. Over(heap, registered \cup Pend(ld), pinMax)
    <3> HIDE DEF v
    <3>1. IsSum(Share(heap, (registered \cup Pend(ld)) \ {}), Bufs, v * sb)
      BY <2>3, <2>9
    <3> QED BY <2>5, <2>6, <2>8, <3>1 DEF Over
  <2> HIDE DEF v
  <2> QED BY <2>3, <2>4, <2>10 DEF PinInv
<1> QED BY <1>12, <1>13, <1>14 DEF IInv

\* Every step of every thread preserves the invariant.
LEMMA NextOk == IInv /\ [Next]_vars => IInv'
<1> SUFFICES ASSUME IInv, [Next]_vars PROVE IInv'
  OBVIOUS
<1>1. CASE UNCHANGED vars
  BY <1>1 DEF vars, poolVars, IInv, TypeInv, OwnInv, PinInv
<1>2. ASSUME NEW l \in Loaders, Begin(l) PROVE IInv'
  BY <1>2, BeginOk
<1>3. ASSUME NEW l \in Loaders, Load(l) PROVE IInv'
  <2>1. CASE LookupFails(l)
    <3>1. /\ Unwind(l) /\ ld[l].pc # "free"
          /\ UNCHANGED <<poolVars, flags, calls, held, evictor, doubtful>>
      BY <2>1 DEF LookupFails
    <3> QED BY <3>1, UnwindOk
  <2>2. CASE PoolFails(l)
    <3>1. /\ Unwind(l) /\ ld[l].pc # "free"
          /\ UNCHANGED <<poolVars, flags, calls, held, evictor, doubtful>>
      BY <2>2 DEF PoolFails, PoolStart, SetUp
    <3> QED BY <3>1, UnwindOk
  <2>3. CASE SingleFails(l)
    <3>1. /\ Unwind(l) /\ ld[l].pc # "free"
          /\ UNCHANGED <<poolVars, flags, calls, held, evictor, doubtful>>
      BY <2>3 DEF SingleFails
    <3> QED BY <3>1, UnwindOk
  <2>4. CASE MapSpan(l)
    BY <2>4, MapSpanOk
  <2>5. CASE Take(l)
    BY <2>5, TakeOk
  <2>6. CASE Wait(l)
    BY <2>6, WaitOk
  <2>7. CASE Alloc(l)
    BY <2>7, AllocOk
  <2>8. CASE PinTake(l)
    BY <2>8, PinTakeOk
  <2>9. CASE RingDrains(l)
    BY <2>9, RingDrainsOk
  <2>10. CASE RingFails(l)
    BY <2>10, RingFailsOk
  <2>11. CASE PoolReads(l)
    BY <2>11, PoolReadsOk
  <2>12. CASE SingleReads(l)
    BY <2>12, SingleReadsOk
  <2>13. CASE SingleDone(l)
    BY <2>13, SingleDoneOk
  <2>14. CASE UnwindStep(l)
    BY <2>14, UnwindStepOk
  <2>15. CASE Fail(l)
    BY <2>15, FailOk
  <2> QED BY <1>3, <2>1, <2>2, <2>3, <2>4, <2>5, <2>6, <2>7, <2>8, <2>9, <2>10, <2>11, <2>12, <2>13,
             <2>14, <2>15 DEF Load
<1>4. CASE Evict
  BY <1>4, EvictStepOk
<1>5. CASE EvictFree
  BY <1>5, EvictFreeOk
<1> QED BY <1>1, <1>2, <1>3, <1>4, <1>5 DEF Next

-----------------------------------------------------------------------------
(* What follows *)

\* The locks follow from the invariant.
LEMMA LocksSound == IInv => PageLocksSound
<1> SUFFICES ASSUME IInv PROVE PageLocksSound
  OBVIOUS
<1>1. PICK kind, who :
        Own(kind, who, heap, registered, pool, ld, held, evictor, arena, flags.dio, doubtful)
  BY DEF IInv, OwnInv
<1>2. heap \in HeapT /\ registered \in SUBSET Bufs /\ pinMax \in Nat
  BY DEF IInv, TypeInv
<1>3. \A b \in Bufs : heap[b].cap \in Nat
  BY <1>2 DEF HeapT
<1>4. registered \subseteq Allocated
  <2>1. BufOk(kind, heap, registered)
    BY <1>1 DEF Own
  <2> QED BY <1>2, <2>1 DEF BufOk, Allocated
<1>5. IsSum(Share(heap, registered), Bufs, pinBytes) /\ IsFiniteSet(Bufs)
  BY PoolAssumption DEF IInv, PinInv
<1>6. pinBytes = Capacity(registered)
  <2>1. IsSum(Share(heap, registered), Bufs, Capacity(registered))
    BY <1>2, <1>3, CapacitySum
  <2> QED BY <1>5, <2>1, SumUnique
<1> DEFINE M == Max({0} \cup {heap[b].cap : b \in Bufs})
           K == Cardinality(Loaders) - 1
<1>7. M \in Nat /\ \A b \in Bufs : heap[b].cap <= M
  BY <1>3, MaxCapacity
<1> HIDE DEF M
<1>8. PICK D \in SUBSET Bufs, v \in Nat :
        /\ Cardinality(D) <= K
        /\ IsSum(Share(heap, (registered \cup Pend(ld)) \ D), Bufs, v) /\ v <= pinMax
  BY DEF IInv, PinInv, Over
<1> DEFINE f == Share(heap, registered \ D)
           d == Cardinality(D)
<1>9. PICK w : IsSum(f, Bufs, w)
  <2>1. \A b \in Bufs : f[b] \in Nat
    BY <1>3 DEF Share
  <2> HIDE DEF f
  <2> QED BY <1>5, <2>1, SumExists
<1>10. w \in Nat /\ w <= v
  <2>1. w \in Nat
    BY <1>9, SumBounds
  <2>2. Bufs \cap (registered \ D) \subseteq (registered \cup Pend(ld)) \ D
    OBVIOUS
  <2>3. w <= v
    BY <1>3, <1>8, <1>9, <2>2, ShareLess
  <2> QED BY <2>1, <2>3
<1>11. d \in Nat /\ K \in Nat
  <2>1. IsFiniteSet(D) /\ IsFiniteSet(Loaders) /\ Loaders # {}
    BY <1>5, FS_Subset, LoadAssumption
  <2>2. d \in Nat /\ Cardinality(Loaders) \in Nat /\ Cardinality(Loaders) # 0
    BY <2>1, FS_CardinalityType, FS_EmptySet
  <2> QED BY <2>2
<1>12. pinBytes <= w + d * M /\ pinBytes \in Nat
  <2>1. \A b \in Bufs : heap[b].cap \in Nat /\ heap[b].cap <= M
    BY <1>3, <1>7
  <2>2. pinBytes <= w + d * M
    BY <1>5, <1>7, <1>9, <2>1, ShareSplit
  <2>3. pinBytes \in Nat
    BY <1>5, SumBounds
  <2> QED BY <2>2, <2>3
<1>13. pinBytes <= pinMax + K * M
  <2>1. d <= K
    BY <1>8
  <2> HIDE DEF d, K
  <2> DEFINE dm == d * M  km == K * M
  <2>2. dm \in Nat /\ km \in Nat
    BY <1>7, <1>11
  <2>3. dm <= km
    BY <1>7, <1>11, <2>1
  <2> HIDE DEF dm, km
  <2>4. pinBytes <= w + dm
    BY <1>12 DEF dm
  <2>5. pinBytes <= pinMax + km
    BY <1>2, <1>8, <1>10, <1>12, <2>2, <2>3, <2>4
  <2> QED BY <2>5 DEF km
<1> QED BY <1>4, <1>6, <1>13 DEF PageLocksSound, M

\* A span the cache references shows each tensor's bytes.
LEMMA ViewsOk == IInv => ViewsExact
<1> SUFFICES ASSUME IInv, ~doubtful, NEW s \in held, NEW v \in s.views,
                    NEW i \in 0..(Tensor[v.name].nbytes - 1)
             PROVE  ByteAt(s, v.at + i) = <<Tensor[v.name].file, Tensor[v.name].off + i>>
  BY DEF ViewsExact
<1>1. PICK kind, who :
        Own(kind, who, heap, registered, pool, ld, held, evictor, arena, flags.dio, doubtful)
  BY DEF IInv, OwnInv
<1>2. Fits(heap, s) /\ Read(heap, s)
  BY <1>1 DEF Own, HeldOk
<1> DEFINE n == v.name
           off == Tensor[n].off
           len == Tensor[n].nbytes
           j == (off - s.read_off) + i
<1>3. /\ s \in SpanT /\ s.file \in Nat /\ s.read_off \in Nat /\ s.read_len \in Nat /\ s.skew \in Nat
      /\ s.buf \in Bufs \cup {NoBuf} /\ v.at \in Nat /\ n \in DOMAIN Tensor
  BY DEF IInv, TypeInv, SpanT
<1>4. /\ s.buf = NoBuf => s.skew = 0
      /\ Tensor[n].file = s.file /\ s.read_off <= off
      /\ v.at = s.skew + (off - s.read_off)
      /\ s.buf # NoBuf => off + len <= s.read_off + s.read_len
  BY <1>3 DEF SpanT
<1>5. off \in Nat /\ len \in Nat /\ FileLen[s.file] \in Nat /\ off + len <= FileLen[s.file]
  BY <1>3, <1>4, IndexAssumption
<1> HIDE DEF n
<1> HIDE DEF off, len
<1>6. i \in Nat /\ i < len
  BY <1>5 DEF off, len, n
<1>7. j \in Nat /\ v.at + i = s.skew + j /\ s.read_off + j = off + i
  BY <1>3, <1>4, <1>5, <1>6
<1> HIDE DEF j
<1>8. CASE s.buf = NoBuf
  <2>1. ByteAt(s, v.at + i) = <<s.file, s.read_off + (v.at + i)>>
    BY <1>8 DEF ByteAt
  <2>2. s.read_off + (v.at + i) = off + i
    BY <1>3, <1>4, <1>7, <1>8
  <2> QED BY <1>4, <2>1, <2>2 DEF off, n
<1>9. CASE s.buf # NoBuf
  <2> DEFINE data == heap[s.buf].data
  <2>1. data \in Seq(Bytes) /\ Len(data) \in Nat
    BY <1>3, <1>9 DEF IInv, TypeInv, HeapT
  <2>2. s.skew + s.read_len <= Len(data)
    BY <1>2, <1>9 DEF Fits
  <2>3. j \in 0..(s.read_len - 1) /\ s.read_off + j < FileLen[s.file]
    BY <1>3, <1>4, <1>5, <1>6, <1>7, <1>9
  <2>4. data[s.skew + j + 1] = <<s.file, s.read_off + j>>
    BY <1>2, <1>9, <2>3 DEF Read
  <2> HIDE DEF data
  <2>5. v.at + i < Len(data) /\ v.at + i + 1 = s.skew + j + 1
    BY <1>3, <1>7, <2>1, <2>2, <2>3
  <2>6. ByteAt(s, v.at + i) = data[v.at + i + 1]
    BY <1>9, <2>5 DEF ByteAt, data
  <2>7. <<s.file, s.read_off + j>> = <<Tensor[v.name].file, Tensor[v.name].off + i>>
    BY <1>4, <1>7 DEF off, n
  <2> QED BY <2>4, <2>5, <2>6, <2>7
<1> QED BY <1>8, <1>9

\* In every reachable state of any number of loaders, tensors and buffers, each buffer has
\* one owner, a span fits its buffer, what the cache references has been read, and the
\* page-locks are counted.
THEOREM ReadsInvariant == Spec => []IInv
<1>1. Init => IInv
  BY InitOk
<1>2. IInv /\ [Next]_vars => IInv'
  BY NextOk
<1> QED BY <1>1, <1>2, PTL DEF Spec

\* The arena of quant.rs keeps every slot it claimed: drop gives a slot back to the pool
\* whatever the organic caps say, and never to the allocator.
THEOREM ArenaNeverShrinks == Spec => []ArenaKept
<1>1. IInv => ArenaKept
  BY DEF IInv, OwnInv, Own, ArenaOk, ArenaKept
<1> QED BY <1>1, ReadsInvariant, PTL

\* No page-lock outlives its memory, PIN_BYTES is what is locked, and the check-then-add of
\* pin_alloc overshoots the ceiling by at most one buffer for each other loader.
THEOREM LocksAlwaysSound == Spec => []PageLocksSound
BY LocksSound, ReadsInvariant, PTL

\* What read_raw_shared and read_raw_shared_batched hand out is, for as long as the cache
\* references it, exactly the bytes of the file, on every path but a ring that was cut short.
THEOREM ViewsAlwaysExact == Spec => []ViewsExact
BY ViewsOk, ReadsInvariant, PTL
=============================================================================
