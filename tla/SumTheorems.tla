---------------------------- MODULE SumTheorems ----------------------------
(***************************************************************************)
(* A counter that claims to be the sum of many shares: the RAM ledger's    *)
(* total over its callers, the expert cache's byte count over its entries. *)
(* IsSum(f, S, v) says that v is the sum of f over S without computing it: *)
(* some assignment of a number to every subset of S is zero on the empty   *)
(* set, grows by f[x] with every element x, and is v on S itself.  The     *)
(* lemmas show how the claim survives an update of one share, with no      *)
(* induction over S.                                                       *)
(***************************************************************************)
EXTENDS Integers, FiniteSetTheorems, TLAPS

PartialSums(f, S) ==
  {s \in [SUBSET S -> Nat] :
     /\ s[{}] = 0
     /\ \A T \in SUBSET S : \A x \in T : s[T] = s[T \ {x}] + f[x]}

IsSum(f, S, v) == \E s \in PartialSums(f, S) : s[S] = v

\* A counter at zero is the sum of shares that are all zero.
LEMMA SumZero ==
  ASSUME NEW S, NEW f, \A x \in S : f[x] = 0
  PROVE  IsSum(f, S, 0)
<1> DEFINE s == [T \in SUBSET S |-> 0]
<1>1. s \in PartialSums(f, S)
  BY DEF PartialSums
<1> QED BY <1>1 DEF IsSum

\* The sum is a natural number, and no share exceeds it.
LEMMA SumBounds ==
  ASSUME NEW S, NEW f, NEW v, IsSum(f, S, v)
  PROVE  /\ v \in Nat
         /\ \A x \in S : f[x] \in Int => f[x] <= v
<1>1. PICK s \in PartialSums(f, S) : s[S] = v
  BY DEF IsSum
<1>2. /\ s \in [SUBSET S -> Nat]
      /\ \A T \in SUBSET S : \A x \in T : s[T] = s[T \ {x}] + f[x]
  BY DEF PartialSums
<1>3. v \in Nat
  BY <1>1, <1>2
<1>4. ASSUME NEW x \in S, f[x] \in Int PROVE f[x] <= v
  <2>1. s[S] = s[S \ {x}] + f[x]
    BY <1>2
  <2>2. s[S \ {x}] \in Nat
    BY <1>2
  <2> QED BY <1>1, <1>3, <1>4, <2>1, <2>2
<1> QED BY <1>3, <1>4

\* Moving one share by d moves the sum by d, as long as the share stays a
\* natural number.
LEMMA SumUpdate ==
  ASSUME NEW S, NEW f, NEW g, NEW v, NEW t \in S, NEW d \in Int,
         \A x \in S : f[x] \in Nat,
         g[t] \in Nat, g[t] = f[t] + d,
         \A x \in S \ {t} : g[x] = f[x],
         IsSum(f, S, v)
  PROVE  IsSum(g, S, v + d)
<1>1. PICK s \in PartialSums(f, S) : s[S] = v
  BY DEF IsSum
<1>2. /\ s \in [SUBSET S -> Nat]
      /\ s[{}] = 0
      /\ \A T \in SUBSET S : \A x \in T : s[T] = s[T \ {x}] + f[x]
  BY DEF PartialSums
<1> DEFINE r == [T \in SUBSET S |-> s[T] + (IF t \in T THEN d ELSE 0)]
<1>3. \A T \in SUBSET S : r[T] \in Nat
  <2> SUFFICES ASSUME NEW T \in SUBSET S PROVE r[T] \in Nat
    OBVIOUS
  <2>1. CASE t \in T
    <3>1. /\ s[T] = s[T \ {t}] + f[t]
          /\ s[T \ {t}] \in Nat
          /\ s[T] \in Nat
      BY <1>2, <2>1
    <3>2. s[T] + d = s[T \ {t}] + g[t]
      BY <3>1
    <3> QED BY <2>1, <3>1, <3>2
  <2>2. CASE t \notin T
    BY <1>2, <2>2
  <2> QED BY <2>1, <2>2
<1>4. r \in [SUBSET S -> Nat]
  BY <1>3
<1>5. r[{}] = 0
  BY <1>2
<1>6. ASSUME NEW T \in SUBSET S, NEW x \in T PROVE r[T] = r[T \ {x}] + g[x]
  <2>1. /\ s[T] = s[T \ {x}] + f[x]
        /\ s[T \ {x}] \in Nat
        /\ s[T] \in Nat
        /\ T \ {x} \in SUBSET S
    BY <1>2
  <2>2. CASE x = t
    <3>1. r[T \ {x}] = s[T \ {x}]
      BY <2>1, <2>2
    <3>2. r[T] = s[T] + d
      BY <2>2
    <3> QED BY <2>1, <2>2, <3>1, <3>2
  <2>3. CASE x # t
    <3>1. g[x] = f[x] /\ f[x] \in Nat
      BY <2>3
    <3>2. CASE t \in T
      <4>1. r[T] = s[T] + d /\ r[T \ {x}] = s[T \ {x}] + d
        BY <2>1, <2>3, <3>2
      <4> QED BY <2>1, <3>1, <4>1
    <3>3. CASE t \notin T
      <4>1. r[T] = s[T] /\ r[T \ {x}] = s[T \ {x}]
        BY <2>1, <3>3
      <4> QED BY <2>1, <3>1, <4>1
    <3> QED BY <3>2, <3>3
  <2> QED BY <2>2, <2>3
<1>7. r \in PartialSums(g, S)
  BY <1>4, <1>5, <1>6 DEF PartialSums
<1>8. r[S] = v + d
  BY <1>1
<1> HIDE DEF r
<1> QED BY <1>7, <1>8 DEF IsSum

\* Shares that agree everywhere have the same sum.
LEMMA SumSame ==
  ASSUME NEW S, NEW f, NEW g, NEW v,
         \A x \in S : g[x] = f[x],
         IsSum(f, S, v)
  PROVE  IsSum(g, S, v)
BY DEF IsSum, PartialSums

-----------------------------------------------------------------------------
(* Sums over finite sets: they exist, there is only one, and the folds of    *)
(* the library compute it.                                                   *)

\* Induction over the subsets of a finite set, G being the set of those for
\* which the claim holds.
LEMMA SubsetInduction ==
  ASSUME NEW S, IsFiniteSet(S), NEW G, {} \in G,
         \A T \in SUBSET S : T # {} /\ (\A x \in T : T \ {x} \in G) => T \in G
  PROVE  \A T \in SUBSET S : T \in G
<1> DEFINE Bad == {T \in SUBSET S : T \notin G}
<1> SUFFICES ASSUME Bad # {} PROVE FALSE
  OBVIOUS
<1>1. IsWellFoundedOn(StrictSubsetOrdering(S), SUBSET S)
  BY FS_StrictSubsetOrderingWellFounded, FS_FiniteSubsetsOfFinite
<1>2. Bad \subseteq SUBSET S
  OBVIOUS
<1> HIDE DEF Bad
<1>3. PICK T \in Bad : \A U \in Bad : <<U, T>> \notin StrictSubsetOrdering(S)
  BY <1>1, <1>2, WFMin
<1> USE DEF Bad
<1>4. ASSUME NEW x \in T PROVE T \ {x} \in G
  <2>1. T \ {x} \in SUBSET S /\ T \in SUBSET S /\ T \ {x} \subseteq T /\ T \ {x} # T
    BY <1>4
  <2>2. <<T \ {x}, T>> \in StrictSubsetOrdering(S)
    BY <2>1 DEF StrictSubsetOrdering
  <2> QED BY <1>3, <2>1, <2>2
<1> QED BY <1>3, <1>4

\* Two ways of adding the same shares up agree.
LEMMA PartialSumsUnique ==
  ASSUME NEW S, IsFiniteSet(S), NEW f, NEW s \in PartialSums(f, S), NEW r \in PartialSums(f, S)
  PROVE  s = r
<1> DEFINE G == {T \in SUBSET S : s[T] = r[T]}
<1>1. {} \in G
  BY DEF PartialSums
<1>2. ASSUME NEW T \in SUBSET S, T # {}, \A x \in T : T \ {x} \in G PROVE T \in G
  <2>0. PICK x \in T : T \ {x} \in G
    BY <1>2
  <2>1. s[T] = s[T \ {x}] + f[x] /\ r[T] = r[T \ {x}] + f[x]
    BY DEF PartialSums
  <2>2. s[T \ {x}] = r[T \ {x}]
    BY <2>0
  <2> QED BY <2>1, <2>2
<1> HIDE DEF G
<1>3. \A T \in SUBSET S : T \in G
  BY <1>1, <1>2, SubsetInduction
<1> USE DEF G
<1>4. \A T \in SUBSET S : s[T] = r[T]
  BY <1>3
<1>5. s \in [SUBSET S -> Nat] /\ r \in [SUBSET S -> Nat]
  BY DEF PartialSums
<1> HIDE DEF G
<1> QED BY <1>4, <1>5

\* A sum is determined by its shares.
LEMMA SumUnique ==
  ASSUME NEW S, IsFiniteSet(S), NEW f, NEW v, NEW w, IsSum(f, S, v), IsSum(f, S, w)
  PROVE  v = w
BY PartialSumsUnique DEF IsSum

\* Natural shares over a finite set have a sum.
LEMMA SumExists ==
  ASSUME NEW S, IsFiniteSet(S), NEW f, \A x \in S : f[x] \in Nat
  PROVE  \E v : IsSum(f, S, v)
<1> DEFINE G == {T \in SUBSET S : \E s : s \in PartialSums(f, T)}
<1>1. {} \in G
  <2>1. [T \in SUBSET {} |-> 0] \in PartialSums(f, {})
    BY DEF PartialSums
  <2> QED BY <2>1
<1>2. ASSUME NEW T \in SUBSET S, T # {}, \A x \in T : T \ {x} \in G PROVE T \in G
  <2>0. PICK x \in T : T \ {x} \in G
    BY <1>2
  <2>1. PICK s : s \in PartialSums(f, T \ {x})
    BY <2>0
  <2>2. /\ s \in [SUBSET (T \ {x}) -> Nat] /\ s[{}] = 0
        /\ \A U \in SUBSET (T \ {x}) : \A y \in U : s[U] = s[U \ {y}] + f[y]
    BY <2>1 DEF PartialSums
  <2> DEFINE r == [U \in SUBSET T |-> s[U \ {x}] + (IF x \in U THEN f[x] ELSE 0)]
  <2>3. \A U \in SUBSET T : U \ {x} \in SUBSET (T \ {x})
    OBVIOUS
  <2>4. r \in [SUBSET T -> Nat]
    <3> SUFFICES ASSUME NEW U \in SUBSET T
                 PROVE  s[U \ {x}] + (IF x \in U THEN f[x] ELSE 0) \in Nat
      OBVIOUS
    <3>1. s[U \ {x}] \in Nat /\ f[x] \in Nat
      BY <2>2, <2>3
    <3> QED BY <3>1
  <2>5. r[{}] = 0
    <3>1. {} \ {x} = {}
      OBVIOUS
    <3> QED BY <2>2, <3>1
  <2>6. ASSUME NEW U \in SUBSET T, NEW y \in U PROVE r[U] = r[U \ {y}] + f[y]
    <3>0. U \ {y} \in SUBSET T
      OBVIOUS
    <3>1. s[U \ {x}] \in Nat /\ s[(U \ {y}) \ {x}] \in Nat /\ f[x] \in Nat /\ f[y] \in Nat
      BY <2>2, <2>3, <3>0
    <3>2. CASE y = x
      <4>1. (U \ {y}) \ {x} = U \ {x} /\ x \in U /\ x \notin U \ {y}
        BY <3>2
      <4>2. r[U] = s[U \ {x}] + f[x] /\ r[U \ {y}] = s[U \ {x}] + 0
        BY <3>0, <4>1
      <4> QED BY <3>1, <3>2, <4>2
    <3>3. CASE y # x
      <4>1. y \in U \ {x} /\ (U \ {y}) \ {x} = (U \ {x}) \ {y}
        BY <3>3
      <4>2. s[U \ {x}] = s[(U \ {y}) \ {x}] + f[y]
        BY <2>2, <2>3, <4>1
      <4>3. x \in U <=> x \in U \ {y}
        BY <3>3
      <4> DEFINE c == IF x \in U THEN f[x] ELSE 0
      <4>4. r[U] = s[U \ {x}] + c /\ r[U \ {y}] = s[(U \ {y}) \ {x}] + c
        BY <3>0, <4>3
      <4>5. c \in Nat
        BY <3>1
      <4> HIDE DEF c, r
      <4> QED BY <3>1, <4>2, <4>4, <4>5
    <3> QED BY <3>2, <3>3
  <2> HIDE DEF r
  <2>7. r \in PartialSums(f, T)
    BY <2>4, <2>5, <2>6 DEF PartialSums
  <2> QED BY <2>7
<1> HIDE DEF G
<1>3. \A T \in SUBSET S : T \in G
  BY <1>1, <1>2, SubsetInduction
<1>4. PICK s : s \in PartialSums(f, S)
  BY <1>3 DEF G
<1> QED BY <1>4 DEF IsSum

\* The library's fold adds natural shares up to their sum.
LEMMA FoldIsSum ==
  ASSUME NEW S, IsFiniteSet(S), NEW f, DOMAIN f = S, \A x \in S : f[x] \in Nat
  PROVE  IsSum(f, S, SumFunction(f))
<1>1. PICK v : IsSum(f, S, v)
  BY SumExists
<1>2. PICK s \in PartialSums(f, S) : s[S] = v
  BY <1>1 DEF IsSum
<1> DEFINE Def(g) == [t \in SUBSET S |->
                      IF t = {} THEN 0 ELSE f[CHOOSE x \in t : TRUE] + g[t \ {CHOOSE x \in t : TRUE}]]
           iter == CHOOSE g : g = Def(g)
<1>3. SumFunction(f) = iter[S]
  BY DEF SumFunction, SumFunctionOnSet, FoldFunctionOnSet, MapThenFoldSet
<1>4. /\ s \in [SUBSET S -> Nat] /\ s[{}] = 0
      /\ \A t \in SUBSET S : \A x \in t : s[t] = s[t \ {x}] + f[x]
  BY DEF PartialSums
<1>5. \A t \in SUBSET S : t # {} =>
        LET x == CHOOSE x \in t : TRUE IN x \in t /\ t \ {x} \in SUBSET S
  OBVIOUS
<1>6. \A t \in SUBSET S :
        s[t] = IF t = {} THEN 0 ELSE f[CHOOSE x \in t : TRUE] + s[t \ {CHOOSE x \in t : TRUE}]
  <2> SUFFICES ASSUME NEW t \in SUBSET S, t # {}
               PROVE  s[t] = f[CHOOSE x \in t : TRUE] + s[t \ {CHOOSE x \in t : TRUE}]
    BY <1>4
  <2>1. PICK x \in t : x = CHOOSE y \in t : TRUE
    BY <1>5
  <2>2. f[x] \in Nat /\ s[t \ {x}] \in Nat /\ s[t] = s[t \ {x}] + f[x]
    BY <1>4
  <2> QED BY <2>1, <2>2
<1>7. s = Def(s)
  BY <1>4, <1>6
<1>8. iter = Def(iter)
  <2> HIDE DEF Def
  <2> QED BY <1>7
<1> HIDE DEF iter
<1> DEFINE G == {t \in SUBSET S : iter[t] = s[t]}
<1>9. {} \in G
  BY <1>4, <1>8
<1>10. ASSUME NEW t \in SUBSET S, t # {}, \A x \in t : t \ {x} \in G PROVE t \in G
  <2>1. PICK x \in t : x = CHOOSE y \in t : TRUE
    BY <1>5, <1>10
  <2>2. iter[t \ {x}] = s[t \ {x}]
    BY <1>10
  <2>3. iter[t] = f[x] + iter[t \ {x}]
    BY <1>8, <1>10, <2>1
  <2>4. s[t] = f[x] + s[t \ {x}]
    BY <1>6, <1>10, <2>1
  <2> QED BY <2>2, <2>3, <2>4
<1> HIDE DEF G
<1>11. \A T \in SUBSET S : T \in G
  BY <1>9, <1>10, SubsetInduction
<1>12. iter[S] = v
  BY <1>2, <1>11 DEF G
<1> QED BY <1>1, <1>3, <1>12

\* Sums add share by share.
LEMMA SumAdd ==
  ASSUME NEW S, NEW f, NEW g, NEW h, NEW v, NEW w,
         \A x \in S : f[x] \in Nat /\ g[x] \in Nat /\ h[x] = f[x] + g[x],
         IsSum(f, S, v), IsSum(g, S, w)
  PROVE  IsSum(h, S, v + w)
<1>1. PICK s \in PartialSums(f, S) : s[S] = v
  BY DEF IsSum
<1>2. PICK r \in PartialSums(g, S) : r[S] = w
  BY DEF IsSum
<1>3. /\ s \in [SUBSET S -> Nat] /\ s[{}] = 0
      /\ \A T \in SUBSET S : \A x \in T : s[T] = s[T \ {x}] + f[x]
      /\ r \in [SUBSET S -> Nat] /\ r[{}] = 0
      /\ \A T \in SUBSET S : \A x \in T : r[T] = r[T \ {x}] + g[x]
  BY DEF PartialSums
<1> DEFINE q == [T \in SUBSET S |-> s[T] + r[T]]
<1>4. q \in [SUBSET S -> Nat] /\ q[{}] = 0
  BY <1>3
<1>5. ASSUME NEW T \in SUBSET S, NEW x \in T PROVE q[T] = q[T \ {x}] + h[x]
  <2>1. T \ {x} \in SUBSET S
    OBVIOUS
  <2>2. /\ s[T] = s[T \ {x}] + f[x] /\ r[T] = r[T \ {x}] + g[x]
        /\ s[T \ {x}] \in Nat /\ r[T \ {x}] \in Nat
        /\ f[x] \in Nat /\ g[x] \in Nat /\ h[x] = f[x] + g[x]
    BY <1>3, <2>1
  <2>3. q[T] = s[T] + r[T] /\ q[T \ {x}] = s[T \ {x}] + r[T \ {x}]
    BY <2>1
  <2> HIDE DEF q
  <2> QED BY <2>2, <2>3
<1>6. q[S] = v + w
  BY <1>1, <1>2
<1> HIDE DEF q
<1>7. q \in PartialSums(h, S)
  BY <1>4, <1>5 DEF PartialSums
<1> QED BY <1>6, <1>7 DEF IsSum

\* Scaling every share scales the sum.
LEMMA SumScale ==
  ASSUME NEW S, NEW f, NEW h, NEW v, NEW c \in Nat,
         \A x \in S : f[x] \in Nat /\ h[x] = f[x] * c,
         IsSum(f, S, v)
  PROVE  IsSum(h, S, v * c)
<1>1. PICK s \in PartialSums(f, S) : s[S] = v
  BY DEF IsSum
<1>2. /\ s \in [SUBSET S -> Nat] /\ s[{}] = 0
      /\ \A T \in SUBSET S : \A x \in T : s[T] = s[T \ {x}] + f[x]
  BY DEF PartialSums
<1> DEFINE q == [T \in SUBSET S |-> s[T] * c]
<1>3. \A m \in Nat : m * c \in Nat
  OBVIOUS
<1>4. q \in [SUBSET S -> Nat] /\ q[{}] = 0
  BY <1>2, <1>3
<1>5. ASSUME NEW T \in SUBSET S, NEW x \in T PROVE q[T] = q[T \ {x}] + h[x]
  <2>1. T \ {x} \in SUBSET S
    OBVIOUS
  <2>2. /\ s[T] = s[T \ {x}] + f[x]
        /\ s[T \ {x}] \in Nat /\ f[x] \in Nat /\ h[x] = f[x] * c
    BY <1>2, <2>1
  <2>3. q[T] = s[T] * c /\ q[T \ {x}] = s[T \ {x}] * c
    BY <2>1
  <2>4. \A a, b \in Nat : (a + b) * c = a * c + b * c
    OBVIOUS
  <2> HIDE DEF q
  <2> QED BY <2>2, <2>3, <2>4
<1>6. q[S] = v * c
  BY <1>1
<1> HIDE DEF q
<1>7. q \in PartialSums(h, S)
  BY <1>4, <1>5 DEF PartialSums
<1> QED BY <1>6, <1>7 DEF IsSum

\* A sum of ones counts the elements they stand for.
LEMMA SumCounts ==
  ASSUME NEW S, IsFiniteSet(S), NEW A \in SUBSET S, NEW f,
         \A x \in S : f[x] = IF x \in A THEN 1 ELSE 0
  PROVE  IsSum(f, S, Cardinality(A))
<1> DEFINE s == [T \in SUBSET S |-> Cardinality(T \cap A)]
<1>1. \A T \in SUBSET S : IsFiniteSet(T \cap A) /\ Cardinality(T \cap A) \in Nat
  BY FS_Subset, FS_CardinalityType
<1>2. s \in [SUBSET S -> Nat]
  BY <1>1
<1>3. s[{}] = 0
  <2>1. {} \cap A = {}
    OBVIOUS
  <2> QED BY <2>1, FS_EmptySet
<1>4. ASSUME NEW T \in SUBSET S, NEW x \in T PROVE s[T] = s[T \ {x}] + f[x]
  <2>1. /\ IsFiniteSet(T \cap A) /\ Cardinality(T \cap A) \in Nat
        /\ (T \ {x}) \cap A = (T \cap A) \ {x} /\ T \ {x} \in SUBSET S
    BY <1>1
  <2>2. Cardinality((T \cap A) \ {x})
          = IF x \in T \cap A THEN Cardinality(T \cap A) - 1 ELSE Cardinality(T \cap A)
    BY <2>1, FS_RemoveElement
  <2>3. s[T] = Cardinality(T \cap A) /\ s[T \ {x}] = Cardinality((T \cap A) \ {x})
    BY <2>1
  <2>4. CASE x \in A
    <3>1. f[x] = 1 /\ x \in T \cap A
      BY <2>4
    <3> HIDE DEF s
    <3> QED BY <2>1, <2>2, <2>3, <3>1
  <2>5. CASE x \notin A
    <3>1. f[x] = 0 /\ x \notin T \cap A
      BY <2>5
    <3> HIDE DEF s
    <3> QED BY <2>1, <2>2, <2>3, <3>1
  <2> QED BY <2>4, <2>5
<1>5. s[S] = Cardinality(A)
  <2>1. S \cap A = A
    OBVIOUS
  <2> QED BY <2>1
<1> HIDE DEF s
<1>6. s \in PartialSums(f, S)
  BY <1>2, <1>3, <1>4 DEF PartialSums
<1> QED BY <1>5, <1>6 DEF IsSum

\* Shares that are nowhere bigger have no bigger sum, and the same sum only if
\* they are the same.
LEMMA SumMonotone ==
  ASSUME NEW S, IsFiniteSet(S), NEW f, NEW g, NEW v, NEW w,
         \A x \in S : f[x] \in Nat /\ g[x] \in Nat /\ f[x] <= g[x],
         IsSum(f, S, v), IsSum(g, S, w)
  PROVE  v <= w /\ (v = w => \A x \in S : f[x] = g[x])
<1> DEFINE d == [x \in S |-> g[x] - f[x]]
<1>1. \A x \in S : d[x] \in Nat /\ g[x] = f[x] + d[x]
  OBVIOUS
<1> HIDE DEF d
<1>2. PICK c : IsSum(d, S, c)
  BY <1>1, SumExists
<1>3. IsSum(g, S, v + c)
  BY <1>1, <1>2, SumAdd
<1>4. w = v + c
  BY <1>3, SumUnique
<1>5. v \in Nat /\ c \in Nat /\ \A x \in S : d[x] \in Int => d[x] <= c
  BY <1>2, SumBounds
<1>6. ASSUME v = w PROVE \A x \in S : f[x] = g[x]
  <2>1. c = 0
    BY <1>4, <1>5, <1>6
  <2>2. ASSUME NEW x \in S PROVE f[x] = g[x]
    <3>1. d[x] \in Nat /\ d[x] <= 0 /\ g[x] = f[x] + d[x] /\ f[x] \in Nat
      BY <1>1, <1>5, <2>1
    <3> QED BY <3>1
  <2> QED BY <2>2
<1> QED BY <1>4, <1>5, <1>6

\* Shares that are nowhere bigger and have the same sum are the same.
LEMMA SumSqueeze ==
  ASSUME NEW S, IsFiniteSet(S), NEW f, NEW g, NEW v,
         \A x \in S : f[x] \in Nat /\ g[x] \in Nat /\ f[x] <= g[x],
         IsSum(f, S, v), IsSum(g, S, v)
  PROVE  \A x \in S : f[x] = g[x]
<1> DEFINE w == v
<1>1. IsSum(g, S, w) /\ v = w
  OBVIOUS
<1> HIDE DEF w
<1> QED BY <1>1, SumMonotone

-----------------------------------------------------------------------------
(* Induction over a loop. *)

\* Induction over the naturals, G being the set of those the claim holds for.
LEMMA Steps ==
  ASSUME NEW G, 0 \in G, \A n \in Nat : n \in G => n + 1 \in G
  PROVE  \A n \in Nat : n \in G
<1> DEFINE Bad == {n \in Nat : n \notin G}
<1> SUFFICES ASSUME Bad # {} PROVE FALSE
  OBVIOUS
<1>1. Bad \subseteq Nat
  OBVIOUS
<1> HIDE DEF Bad
<1>2. PICK k \in Bad : \A j \in Bad : ~(<<j, k>> \in OpToRel(<, Nat))
  BY <1>1, NatLessThanWellFounded, WFMin
<1> USE DEF Bad
<1>3. k \in Nat /\ k # 0 /\ k \notin G
  BY <1>2
<1>4. k - 1 \in Nat /\ <<k - 1, k>> \in OpToRel(<, Nat)
  BY <1>3 DEF OpToRel
<1>5. k - 1 \in G
  BY <1>2, <1>4
<1>6. k - 1 + 1 = k
  BY <1>3
<1> QED BY <1>3, <1>4, <1>5, <1>6

\* f begins with x0 and makes one step after the other.
Solves(f, X, N, x0, step) ==
  f \in [0..N -> X] /\ f[0] = x0 /\ \A i \in 1..N : f[i] = step[i][f[i - 1]]

\* A recursion over 1..N whose steps stay in a set has a solution.
LEMMA Recursion ==
  ASSUME NEW X, NEW N \in Nat, NEW x0 \in X, NEW step \in [1..N -> [X -> X]]
  PROVE  \E f : Solves(f, X, N, x0, step)
<1> DEFINE G == {n \in Nat : n <= N =>
                   \E f \in [0..n -> X] : f[0] = x0 /\ \A i \in 1..n : f[i] = step[i][f[i - 1]]}
<1>1. 0 \in G
  <2> DEFINE f == [i \in 0..0 |-> x0]
  <2>1. f \in [0..0 -> X] /\ f[0] = x0 /\ \A i \in 1..0 : f[i] = step[i][f[i - 1]]
    OBVIOUS
  <2> HIDE DEF f
  <2> QED BY <2>1
<1>2. ASSUME NEW n \in Nat, n \in G PROVE n + 1 \in G
  <2> SUFFICES ASSUME n + 1 <= N
               PROVE  \E f \in [0..(n + 1) -> X] :
                        f[0] = x0 /\ \A i \in 1..(n + 1) : f[i] = step[i][f[i - 1]]
    OBVIOUS
  <2>1. PICK f \in [0..n -> X] : f[0] = x0 /\ \A i \in 1..n : f[i] = step[i][f[i - 1]]
    BY <1>2
  <2> DEFINE g == [i \in 0..(n + 1) |-> IF i = n + 1 THEN step[n + 1][f[n]] ELSE f[i]]
  <2>2. step[n + 1][f[n]] \in X
    OBVIOUS
  <2>3. g \in [0..(n + 1) -> X]
    BY <2>2
  <2>4. g[0] = x0
    BY <2>1
  <2>5. ASSUME NEW i \in 1..(n + 1) PROVE g[i] = step[i][g[i - 1]]
    <3>1. CASE i = n + 1
      <4>1. g[i] = step[n + 1][f[n]] /\ g[n] = f[n] /\ i - 1 = n
        BY <3>1
      <4> HIDE DEF g
      <4> QED BY <3>1, <4>1
    <3>2. CASE i # n + 1
      <4>1. i \in 1..n /\ i - 1 \in 0..n /\ i - 1 # n + 1 /\ i \in 0..(n+1) /\ i - 1 \in 0..(n + 1)
        BY <3>2
      <4>2. g[i] = f[i] /\ g[i - 1] = f[i - 1]
        BY <3>2, <4>1
      <4> HIDE DEF g
      <4> QED BY <2>1, <4>1, <4>2
    <3> QED BY <3>1, <3>2
  <2> HIDE DEF g
  <2> QED BY <2>3, <2>4, <2>5
<1> HIDE DEF G
<1>3. N \in G
  BY <1>1, <1>2, Steps
<1> QED BY <1>3 DEF G, Solves

\* A sequence of states whose steps stay in a set is in it throughout.
LEMMA Stays ==
  ASSUME NEW X, NEW N \in Nat, NEW f, f[0] \in X, \A i \in 1..N : f[i - 1] \in X => f[i] \in X
  PROVE  f[N] \in X
<1> DEFINE G == {n \in Nat : n <= N => f[n] \in X}
<1>1. 0 \in G
  OBVIOUS
<1>2. ASSUME NEW n \in Nat, n \in G PROVE n + 1 \in G
  <2> SUFFICES ASSUME n + 1 <= N PROVE f[n + 1] \in X
    OBVIOUS
  <2>1. n + 1 \in 1..N /\ n + 1 - 1 = n /\ f[n] \in X
    BY <1>2
  <2> QED BY <2>1
<1> HIDE DEF G
<1>3. N \in G
  BY <1>1, <1>2, Steps
<1> QED BY <1>3 DEF G

-----------------------------------------------------------------------------
(* Division and ranks.                                                     *)

\* The quotient and the remainder of natural numbers.
LEMMA DivMod ==
  ASSUME NEW a \in Nat, NEW b \in Nat \ {0}
  PROVE  /\ a \div b \in Nat /\ (a % b) \in Nat /\ (a % b) < b /\ (a % b) <= a
         /\ a = (a \div b) * b + (a % b)
<1>1. /\ a \div b \in Int /\ (a % b) \in Int
      /\ a = b * (a \div b) + (a % b) /\ (a % b) >= 0 /\ (a % b) < b
  OBVIOUS
<1>2. a \div b >= 0
  OBVIOUS
<1> DEFINE q == a \div b  r == a % b
<1> HIDE DEF q, r
<1>3. q \in Nat /\ r \in Nat /\ r < b /\ a = b * q + r
  BY <1>1, <1>2 DEF q, r
<1>4. b * q \in Nat /\ q * b = b * q
  BY <1>3
<1>5. r <= a
  BY <1>3, <1>4
<1> QED BY <1>3, <1>4, <1>5 DEF q, r

\* R orders S: strictly and totally.
Orders(R, S) ==
  /\ \A x \in S : <<x, x>> \notin R
  /\ \A x, y, z \in S : <<x, y>> \in R /\ <<y, z>> \in R => <<x, z>> \in R
  /\ \A x, y \in S : x # y => <<x, y>> \in R \/ <<y, x>> \in R

\* The rank of an element: how many come before it.
IsRank(rank, R, S) == \A n \in S : rank[n] = Cardinality({m \in S : <<m, n>> \in R})

\* Every number less than the size is a rank.
Taken(rank, S) == \A i \in 0 .. Cardinality(S) - 1 : \E n \in S : rank[n] = i

\* In a strict total order on a finite set the ranks are dense: for every k up
\* to its size, k elements have a rank less than k, and one has the rank itself.
LEMMA RanksDense ==
  ASSUME NEW S, IsFiniteSet(S), NEW R, Orders(R, S), NEW rank, IsRank(rank, R, S),
         NEW k \in 0 .. Cardinality(S)
  PROVE  /\ \A n \in S : rank[n] \in Nat
         /\ \A m, n \in S : <<m, n>> \in R => rank[m] < rank[n]
         /\ Taken(rank, S)
         /\ Cardinality({n \in S : rank[n] < k}) = k
<1> DEFINE B(n) == {m \in S : <<m, n>> \in R}
           N == Cardinality(S)
<1>0. N \in Nat
  BY FS_CardinalityType
<1>1. \A n \in S : IsFiniteSet(B(n)) /\ Cardinality(B(n)) \in Nat /\ Cardinality(B(n)) < N
  <2> SUFFICES ASSUME NEW n \in S
               PROVE  IsFiniteSet(B(n)) /\ Cardinality(B(n)) \in Nat /\ Cardinality(B(n)) < N
    OBVIOUS
  <2>1. B(n) \in SUBSET S /\ n \notin B(n)
    BY DEF Orders
  <2> HIDE DEF B
  <2>2. IsFiniteSet(B(n)) /\ Cardinality(B(n)) <= N /\ Cardinality(B(n)) # N
    BY <2>1, FS_Subset
  <2> QED BY <1>0, <2>2, FS_CardinalityType
<1>2. \A n \in S : rank[n] = Cardinality(B(n))
  BY DEF IsRank
<1>3. ASSUME NEW m \in S, NEW n \in S, <<m, n>> \in R PROVE rank[m] < rank[n]
  <2>1. B(m) \in SUBSET B(n) /\ m \in B(n) /\ m \notin B(m)
    BY <1>3 DEF Orders
  <2> HIDE DEF B
  <2>2. Cardinality(B(m)) <= Cardinality(B(n)) /\ Cardinality(B(m)) # Cardinality(B(n))
    BY <1>1, <2>1, FS_Subset
  <2> QED BY <1>1, <1>2, <2>2
<1> HIDE DEF B
<1>4. \A n \in S : rank[n] \in Nat /\ rank[n] \in 0 .. N - 1
  BY <1>0, <1>1, <1>2
<1> DEFINE r == [n \in S |-> rank[n]]
<1>5. r \in [S -> 0 .. N - 1]
  BY <1>4
<1>6. ASSUME NEW m \in S, NEW n \in S, r[m] = r[n] PROVE m = n
  <2>1. rank[m] = rank[n] /\ rank[m] \in Nat /\ rank[n] \in Nat
    BY <1>4, <1>6
  <2>2. ~(rank[m] < rank[n]) /\ ~(rank[n] < rank[m])
    BY <2>1
  <2> QED BY <1>3, <2>2 DEF Orders
<1> HIDE DEF N
<1>7. IsFiniteSet(0 .. N - 1) /\ Cardinality(0 .. N - 1) = N
  <2>1. 0 \in Int /\ N - 1 \in Int
    BY <1>0
  <2> QED BY <1>0, <2>1, FS_Interval
<1>8. r \in Injection(S, 0 .. N - 1)
  BY <1>5, <1>6 DEF Injection, IsInjective
<1>9. r \in Surjection(S, 0 .. N - 1)
  BY <1>7, <1>8, FS_Injection DEF N
<1>10. \A i \in 0 .. N - 1 : \E n \in S : rank[n] = i
  BY <1>9 DEF Surjection
<1> DEFINE A == {n \in S : rank[n] < k}
           g == [n \in A |-> rank[n]]
<1>11. IsFiniteSet(0 .. k - 1) /\ Cardinality(0 .. k - 1) = k
  <2>1. 0 \in Int /\ k - 1 \in Int /\ k \in Nat
    BY <1>0 DEF N
  <2> QED BY <2>1, FS_Interval
<1>12. g \in [A -> 0 .. k - 1]
  BY <1>0, <1>4 DEF N
<1>13. \A m, n \in A : g[m] = g[n] => m = n
  BY <1>6
<1>14. \A i \in 0 .. k - 1 : \E n \in A : g[n] = i
  BY <1>0, <1>10 DEF N
<1> HIDE DEF A, g
<1>15. g \in Injection(A, 0 .. k - 1)
  BY <1>12, <1>13 DEF Injection, IsInjective
<1>16. g \in Surjection(A, 0 .. k - 1)
  BY <1>12, <1>14 DEF Surjection
<1>17. Cardinality(A) = k
  BY <1>11, <1>15, <1>16, FS_Injection
<1> QED BY <1>3, <1>4, <1>10, <1>17 DEF A, N, Taken
=============================================================================
