--------------------------- MODULE DispatchProofs ---------------------------
(***************************************************************************)
(* For any experts, tokens, routing scores, formats, device settings and   *)
(* placement: MoeDispatch adds up for a token, once, each expert its       *)
(* router picked, with the weight the router declares, and in an order     *)
(* that is a function of the routing and the placement alone.              *)
(*                                                                         *)
(* The argument: Given(as, n, t, act) is what the first n entries of the   *)
(* list `as' add to token t, in order; a scatter of several entries adds   *)
(* what scattering them one by one adds.  So the grouped calls, which      *)
(* scatter all at once or nothing, and the expert loop, which scatters one *)
(* at a time, leave the same sum (SumNext, SumWhole), and a call that      *)
(* takes the batch computes one of the layer's Activations (ArmsRight):    *)
(* the model's, or SiLU for a situ model offered to a grouped call.        *)
(*                                                                         *)
(* The fold lists the nodes that hold a column in ascending order,         *)
(* whenever each answered, because only one sequence lists a set in        *)
(* ascending order (ListsUnique).                                          *)
(*                                                                         *)
(* The weights: a token's slots serve its declared weights (Serves) on     *)
(* every path of the router (RowServes), the union of the batch keeps      *)
(* them (UnionIs, RoutedIsRight), and of the columns of the union every    *)
(* one is exactly one node's (OnePlace).                                   *)
(***************************************************************************)
EXTENDS MoeDispatch, SumTheorems, SequenceTheorems

-----------------------------------------------------------------------------
(* Ascending sequences.                                                    *)

Rises(s) == \A i, j \in 1 .. Len(s) : i < j => s[i] < s[j]

\* A sequence holds x.
Within(x, s) == \E i \in 1 .. Len(s) : s[i] = x

\* s lists S in ascending order.
Lists(s, S) ==
  /\ s \in Seq(Int) /\ Rises(s)
  /\ \A i \in 1 .. Len(s) : s[i] \in S
  /\ \A x \in S : Within(x, s)

\* What Ascending returns.
LEMMA AscendingLists ==
  ASSUME NEW n \in Nat, NEW S
  PROVE  Lists(Ascending(n, S), S \cap 0 .. n)
<1> DEFINE X == Seq(Int)
           N == n + 1
           Def(k) == [i \in 0 .. n + 1 |->
                        IF i = 0 THEN <<>>
                        ELSE IF i - 1 \in S THEN Append(k[i - 1], i - 1) ELSE k[i - 1]]
           asc == CHOOSE k : k = Def(k)
<1>1. Ascending(n, S) = asc[N]
  BY DEF Ascending
<1>2. N \in Nat /\ N = n + 1
  OBVIOUS
<1>3. <<>> \in X /\ \A i \in 1 .. N : \A x \in X : Append(x, i - 1) \in X
  OBVIOUS
<1> HIDE DEF X, N
<1>4. PICK f \in [0 .. N -> X] :
        f[0] = <<>> /\ \A i \in 1 .. N : f[i] = IF i - 1 \in S THEN Append(f[i - 1], i - 1) ELSE f[i - 1]
  <2> DEFINE step == [i \in 1 .. N |-> [x \in X |-> IF i - 1 \in S THEN Append(x, i - 1) ELSE x]]
             none == <<>>
  <2>1. step \in [1 .. N -> [X -> X]] /\ none \in X
    BY <1>3
  <2>2. \A i \in 1 .. N : \A x \in X : step[i][x] = IF i - 1 \in S THEN Append(x, i - 1) ELSE x
    OBVIOUS
  <2> HIDE DEF step, none
  <2>3. PICK f : Solves(f, X, N, none, step)
    BY <1>2, <2>1, Recursion
  <2>4. ASSUME NEW i \in 1 .. N
        PROVE  f[i] = IF i - 1 \in S THEN Append(f[i - 1], i - 1) ELSE f[i - 1]
    <3>1. f[i - 1] \in X /\ f[i] = step[i][f[i - 1]]
      BY <1>2, <2>3 DEF Solves
    <3> QED BY <2>2, <3>1
  <2> QED BY <2>3, <2>4 DEF none, Solves
<1>5. f = Def(f)
  <2>1. \A i \in 0 .. N : f[i] = IF i = 0 THEN <<>>
          ELSE IF i - 1 \in S THEN Append(f[i - 1], i - 1) ELSE f[i - 1]
    <3>1. \A i \in 0 .. N : i = 0 \/ (i # 0 /\ i \in 1 .. N)
      BY <1>2
    <3> QED BY <1>4, <3>1, Zenon
  <2> QED BY <1>2, <1>4, <2>1
<1>6. asc = Def(asc)
  <2> HIDE DEF Def
  <2> QED BY <1>5
<1> HIDE DEF asc
<1>7. /\ asc[0] = <<>>
      /\ \A i \in 1 .. N : asc[i] = IF i - 1 \in S THEN Append(asc[i - 1], i - 1) ELSE asc[i - 1]
  <2>1. 0 \in 0 .. N /\ \A i \in 1 .. N : i \in 0 .. N /\ i # 0
    BY <1>2
  <2>2. \A i \in 0 .. N : asc[i] = IF i = 0 THEN <<>>
          ELSE IF i - 1 \in S THEN Append(asc[i - 1], i - 1) ELSE asc[i - 1]
    BY <1>2, <1>6
  <2> QED BY <2>1, <2>2
<1> DEFINE T(m) == S \cap 0 .. m - 1
           G == {m \in Nat : m <= N => Lists(asc[m], T(m))}
<1>8. 0 \in G
  <2>1. Lists(<<>>, T(0))
    BY DEF Lists, Rises
  <2> QED BY <1>7, <2>1
<1>9. ASSUME NEW m \in Nat, m \in G PROVE m + 1 \in G
  <2> SUFFICES ASSUME m + 1 <= N PROVE Lists(asc[m + 1], T(m + 1))
    OBVIOUS
  <2> DEFINE x == asc[m]
             y == asc[m + 1]
  <2>1. m + 1 \in 1 .. N /\ (m + 1) - 1 = m /\ Lists(x, T(m))
    BY <1>2, <1>9
  <2>2. y = IF m \in S THEN Append(x, m) ELSE x
    <3>1. y = IF (m + 1) - 1 \in S THEN Append(asc[(m + 1) - 1], (m + 1) - 1) ELSE asc[(m + 1) - 1]
      BY <1>7, <2>1, Zenon
    <3> QED BY <2>1, <3>1
  <2> HIDE DEF x, y
  <2>3. x \in Seq(Int) /\ Len(x) \in Nat
    BY <2>1 DEF Lists
  <2>4. CASE m \in S
    <3>1. y \in Seq(Int) /\ Len(y) = Len(x) + 1 /\ y[Len(x) + 1] = m /\ \A j \in 1 .. Len(x) : y[j] = x[j]
      BY <2>2, <2>3, <2>4
    <3>2. \A j \in 1 .. Len(x) : x[j] \in T(m)
      BY <2>1 DEF Lists
    <3>3. \A j \in 1 .. Len(x) : x[j] < m
      BY <3>2
    <3>4. ASSUME NEW i \in 1 .. Len(y), NEW j \in 1 .. Len(y), i < j PROVE y[i] < y[j]
      <4>1. i \in 1 .. Len(x) /\ (j \in 1 .. Len(x) \/ j = Len(x) + 1)
        BY <2>3, <3>1, <3>4
      <4>2. x[i] < m /\ (j \in 1 .. Len(x) => x[i] < x[j])
        BY <2>1, <3>3, <3>4, <4>1 DEF Lists, Rises
      <4> QED BY <3>1, <4>1, <4>2
    <3>5. ASSUME NEW i \in 1 .. Len(y) PROVE y[i] \in T(m + 1)
      <4>1. i \in 1 .. Len(x) \/ i = Len(x) + 1
        BY <2>3, <3>1
      <4>2. m \in T(m + 1) /\ \A z \in T(m) : z \in T(m + 1)
        BY <2>4
      <4> HIDE DEF T
      <4> QED BY <3>1, <3>2, <4>1, <4>2
    <3>6. ASSUME NEW z \in T(m + 1) PROVE Within(z, y)
      <4>1. z = m \/ z \in T(m)
        OBVIOUS
      <4>2. z \in T(m) => \E i \in 1 .. Len(x) : x[i] = z
        BY <2>1 DEF Lists, Within
      <4>3. Len(y) \in Nat /\ Len(x) + 1 \in 1 .. Len(y) /\ \A i \in 1 .. Len(x) : i \in 1 .. Len(y)
        BY <2>3, <3>1
      <4> HIDE DEF T
      <4> QED BY <3>1, <4>1, <4>2, <4>3 DEF Within
    <3> HIDE DEF T
    <3> QED BY <3>1, <3>4, <3>5, <3>6 DEF Lists, Rises, y
  <2>5. CASE m \notin S
    <3>1. y = x
      BY <2>2, <2>5
    <3>2. T(m + 1) = T(m)
      BY <2>5
    <3> HIDE DEF T
    <3> QED BY <2>1, <3>1, <3>2 DEF y
  <2> QED BY <2>4, <2>5
<1> HIDE DEF G
<1>10. N \in G
  BY <1>2, <1>8, <1>9, Steps
<1>11. Lists(asc[N], T(N))
  BY <1>2, <1>10 DEF G
<1>12. T(N) = S \cap 0 .. n
  BY <1>2
<1> HIDE DEF T
<1> QED BY <1>1, <1>11, <1>12

\* Only one sequence lists a set in ascending order: the elements agree.
LEMMA ListsAgree ==
  ASSUME NEW S, NEW s, NEW r, Lists(s, S), Lists(r, S), NEW m \in Nat
  PROVE  m <= Len(s) => m <= Len(r) /\ \A i \in 1 .. m : s[i] = r[i]
<1> DEFINE G == {k \in Nat : k <= Len(s) => k <= Len(r) /\ \A i \in 1 .. k : s[i] = r[i]}
<1>1. /\ Len(s) \in Nat /\ Len(r) \in Nat
      /\ \A i \in 1 .. Len(s) : s[i] \in Int /\ Within(s[i], r)
      /\ \A i \in 1 .. Len(r) : r[i] \in Int /\ Within(r[i], s)
      /\ Rises(s) /\ Rises(r)
  BY DEF Lists
<1>2. 0 \in G
  BY <1>1
<1>3. ASSUME NEW k \in Nat, k \in G PROVE k + 1 \in G
  <2> SUFFICES ASSUME k + 1 <= Len(s)
               PROVE  k + 1 <= Len(r) /\ \A i \in 1 .. k + 1 : s[i] = r[i]
    OBVIOUS
  <2>1. k + 1 \in 1 .. Len(s) /\ k <= Len(r) /\ \A i \in 1 .. k : s[i] = r[i] /\ i \in 1 .. Len(s) /\ i \in 1 .. Len(r) /\ i < k + 1
    BY <1>1, <1>3
  <2>2. PICK j \in 1 .. Len(r) : r[j] = s[k + 1]
    BY <1>1, <2>1 DEF Within
  <2>3. j \notin 1 .. k
    <3> SUFFICES ASSUME j \in 1 .. k PROVE FALSE
      OBVIOUS
    <3>1. s[j] = r[j] /\ s[j] < s[k + 1] /\ s[j] \in Int
      BY <1>1, <2>1 DEF Rises
    <3> QED BY <2>2, <3>1
  <2>4. k + 1 <= j /\ k + 1 \in 1 .. Len(r)
    BY <1>1, <2>2, <2>3
  <2>5. r[k + 1] <= s[k + 1]
    <3>1. k + 1 = j \/ k + 1 < j
      BY <2>4
    <3> QED BY <1>1, <2>2, <2>4, <3>1 DEF Rises
  <2>6. PICK l \in 1 .. Len(s) : s[l] = r[k + 1]
    BY <1>1, <2>4 DEF Within
  <2>7. l \notin 1 .. k
    <3> SUFFICES ASSUME l \in 1 .. k PROVE FALSE
      OBVIOUS
    <3>1. s[l] = r[l] /\ r[l] < r[k + 1] /\ r[l] \in Int
      BY <1>1, <2>1, <2>4 DEF Rises
    <3> QED BY <2>6, <3>1
  <2>8. s[k + 1] <= r[k + 1]
    <3>1. k + 1 = l \/ k + 1 < l
      BY <1>1, <2>6, <2>7
    <3> QED BY <1>1, <2>1, <2>6, <3>1 DEF Rises
  <2>9. s[k + 1] = r[k + 1]
    BY <1>1, <2>1, <2>4, <2>5, <2>8
  <2>10. \A i \in 1 .. k + 1 : i \in 1 .. k \/ i = k + 1
    OBVIOUS
  <2> QED BY <1>1, <2>1, <2>4, <2>9, <2>10
<1> HIDE DEF G
<1>4. m \in G
  BY <1>2, <1>3, Steps
<1> QED BY <1>4 DEF G

\* Only one sequence lists a set in ascending order.
LEMMA ListsUnique ==
  ASSUME NEW S, NEW s, NEW r, Lists(s, S), Lists(r, S)
  PROVE  s = r
<1>1. s \in Seq(Int) /\ r \in Seq(Int) /\ Len(s) \in Nat /\ Len(r) \in Nat
  BY DEF Lists
<1>2. Len(s) <= Len(r) /\ \A i \in 1 .. Len(s) : s[i] = r[i]
  BY <1>1, ListsAgree
<1>3. Len(r) <= Len(s)
  BY <1>1, ListsAgree
<1>4. Len(s) = Len(r)
  BY <1>1, <1>2, <1>3
<1> QED BY <1>1, <1>2, <1>4

\* A sequence from a definition by index.
LEMMA IndexSeq ==
  ASSUME NEW S, NEW n \in Nat, NEW f \in [1 .. n -> S]
  PROVE  f \in Seq(S) /\ Len(f) = n /\ Strict(f) = f
BY DEF Strict

\* Where S has only positions of a sequence.
LEMMA AscendingPositions ==
  ASSUME NEW n \in Nat, NEW S, \A x \in S : x \in 1 .. n
  PROVE  /\ Lists(Ascending(n, S), S)
         /\ Ascending(n, S) \in Seq(Int) /\ Len(Ascending(n, S)) \in Nat
         /\ DOMAIN Ascending(n, S) = 1 .. Len(Ascending(n, S))
         /\ \A i \in 1 .. Len(Ascending(n, S)) : Ascending(n, S)[i] \in S
<1>1. S \cap 0 .. n = S
  <2>1. \A x \in S : x \in 0 .. n
    OBVIOUS
  <2> QED BY <2>1
<1>2. Lists(Ascending(n, S), S)
  BY <1>1, AscendingLists
<1> QED BY <1>2 DEF Lists

-----------------------------------------------------------------------------
(* The scatter.                                                            *)

\* The activations of the models.
Acts == {"silu", "oai", "clamp", "relu2", "situ"}

TermT  == [e : Experts, w : Nat, act : Acts]

\* An entry has a weight for each of its rows.
EntryT == {a \in [e : Experts, rows : Seq(Int), w : Seq(Nat)] : Len(a.w) = Len(a.rows)}

\* The tokens an entry has a row for.
RowsIn(a) == {a.rows[r] : r \in 1 .. Len(a.rows)}

\* What an entry adds to token t.
Term(a, t, act) == [e |-> a.e, w |-> a.w[CHOOSE r \in DOMAIN a.rows : a.rows[r] = t], act |-> act]

\* What the first n of the entries `as` add to token t.
Given(as, n, t, act) ==
  LET its == Ascending(n, {i \in 1 .. n : t \in RowsIn(as[i])})
  IN  [j \in 1 .. Len(its) |-> Term(as[its[j]], t, act)]

\* A term of an entry for one of its rows is a term, weighted as that row is.
LEMMA TermType ==
  ASSUME NEW a, a \in EntryT, NEW t, t \in RowsIn(a), NEW act \in Acts
  PROVE  /\ Term(a, t, act) \in TermT
         /\ \E r \in 1 .. Len(a.rows) : a.rows[r] = t /\ Term(a, t, act).w = a.w[r]
<1>1. /\ a.e \in Experts /\ a.rows \in Seq(Int) /\ a.w \in Seq(Nat) /\ Len(a.w) = Len(a.rows)
      /\ DOMAIN a.rows = 1 .. Len(a.rows)
  BY DEF EntryT
<1> DEFINE r == CHOOSE r \in DOMAIN a.rows : a.rows[r] = t
<1>2. r \in 1 .. Len(a.rows) /\ a.rows[r] = t
  BY <1>1 DEF RowsIn
<1>3. Term(a, t, act) = [e |-> a.e, w |-> a.w[r], act |-> act]
  BY DEF Term
<1> HIDE DEF r
<1>4. a.w[r] \in Nat
  BY <1>1, <1>2
<1> QED BY <1>1, <1>2, <1>3, <1>4 DEF TermT

\* What entries add is a list of terms.
LEMMA GivenType ==
  ASSUME NEW n \in Nat, NEW as, \A i \in 1 .. n : as[i] \in EntryT,
         NEW t, NEW act \in Acts
  PROVE  Given(as, n, t, act) \in Seq(TermT)
<1> DEFINE I   == {i \in 1 .. n : t \in RowsIn(as[i])}
           its == Ascending(n, I)
<1>1. Len(its) \in Nat /\ \A j \in 1 .. Len(its) : its[j] \in I
  BY AscendingPositions
<1>2. Given(as, n, t, act) = [j \in 1 .. Len(its) |-> Term(as[its[j]], t, act)]
  BY DEF Given
<1>3. \A j \in 1 .. Len(its) : Term(as[its[j]], t, act) \in TermT
  BY <1>1, TermType
<1> HIDE DEF its
<1>4. Given(as, n, t, act) \in [1 .. Len(its) -> TermT]
  BY <1>2, <1>3
<1> QED BY <1>1, <1>4, IndexSeq

\* A list of S is one of S and a greater number once that is appended.
LEMMA ListsAppend ==
  ASSUME NEW S, NEW s, Lists(s, S), NEW v \in Int, \A x \in S : x < v,
         NEW r, Lists(r, S \cup {v})
  PROVE  r = Append(s, v)
<1> DEFINE c == Append(s, v)
<1>1. s \in Seq(Int) /\ Len(s) \in Nat /\ \A i \in 1 .. Len(s) : s[i] \in S
  BY DEF Lists
<1>2. c \in Seq(Int) /\ Len(c) = Len(s) + 1 /\ c[Len(s) + 1] = v /\ \A i \in 1 .. Len(s) : c[i] = s[i]
  BY <1>1
<1> HIDE DEF c
<1>3. \A i \in 1 .. Len(c) : i \in 1 .. Len(s) \/ i = Len(s) + 1
  BY <1>1, <1>2
<1>4. ASSUME NEW i \in 1 .. Len(c), NEW j \in 1 .. Len(c), i < j PROVE c[i] < c[j]
  <2>1. i \in 1 .. Len(s)
    BY <1>1, <1>2, <1>4
  <2>2. s[i] < v
    BY <1>1, <2>1
  <2>3. j \in 1 .. Len(s) => s[i] < s[j]
    BY <1>4, <2>1 DEF Lists, Rises
  <2> QED BY <1>2, <1>3, <2>1, <2>2, <2>3
<1>5. ASSUME NEW i \in 1 .. Len(c) PROVE c[i] \in S \cup {v}
  <2>1. CASE i \in 1 .. Len(s)
    BY <1>1, <1>2, <2>1
  <2>2. CASE i = Len(s) + 1
    BY <1>2, <2>2
  <2> QED BY <1>3, <2>1, <2>2
<1>6. ASSUME NEW x \in S \cup {v} PROVE Within(x, c)
  <2>1. CASE x \in S
    <3>1. PICK i \in 1 .. Len(s) : s[i] = x
      BY <2>1 DEF Lists, Within
    <3>2. i \in 1 .. Len(c) /\ c[i] = x
      BY <1>1, <1>2, <3>1
    <3> QED BY <3>2 DEF Within
  <2>2. CASE x = v
    <3>1. Len(s) + 1 \in 1 .. Len(c) /\ c[Len(s) + 1] = x
      BY <1>1, <1>2, <2>2
    <3> QED BY <3>1 DEF Within
  <2> QED BY <2>1, <2>2
<1>7. Lists(c, S \cup {v})
  BY <1>2, <1>4, <1>5, <1>6 DEF Lists, Rises
<1> QED BY <1>7, ListsUnique DEF c

\* Lists of nothing and of one number.
LEMMA ListsFew ==
  /\ \A s : Lists(s, {}) => s = <<>>
  /\ \A v \in Int : \A s : Lists(s, {v}) => s = <<v>>
<1>1. Lists(<<>>, {})
  BY DEF Lists, Rises
<1>2. \A s : Lists(s, {}) => s = <<>>
  BY <1>1, ListsUnique
<1>3. ASSUME NEW v \in Int, NEW s, Lists(s, {v}) PROVE s = <<v>>
  <2>1. {} \cup {v} = {v}
    OBVIOUS
  <2>2. s = Append(<<>>, v)
    <3> DEFINE S == {}
    <3>1. Lists(<<>>, S) /\ Lists(s, S \cup {v}) /\ \A x \in S : x < v
      BY <1>1, <1>3, <2>1
    <3> HIDE DEF S
    <3> QED BY <3>1, ListsAppend
  <2> QED BY <2>2
<1> QED BY <1>2, <1>3

\* Two sequences after each other.
LEMMA Joined ==
  ASSUME NEW S, NEW s \in Seq(S), NEW r \in Seq(S)
  PROVE  s \o r = [j \in 1 .. Len(s) + Len(r) |-> IF j <= Len(s) THEN s[j] ELSE r[j - Len(s)]]
<1> DEFINE c == s \o r
           n == Len(s) + Len(r)
           at(j) == IF j <= Len(s) THEN s[j] ELSE r[j - Len(s)]
<1>1. c \in Seq(S) /\ Len(c) = n /\ \A j \in 1 .. n : c[j] = at(j)
  BY ConcatProperties
<1> HIDE DEF c, n, at
<1>2. c = [j \in 1 .. Len(c) |-> c[j]]
  BY <1>1
<1>3. c = [j \in 1 .. n |-> at(j)]
  BY <1>1, <1>2
<1> QED BY <1>3 DEF c, n, at

\* The first k + 1 entries add what the first k add, then what the last one adds.
LEMMA GivenNext ==
  ASSUME NEW k \in Nat, NEW as, \A i \in 1 .. k + 1 : as[i] \in EntryT, NEW t, NEW act \in Acts
  PROVE  Given(as, k + 1, t, act) = Given(as, k, t, act) \o Given(<<as[k + 1]>>, 1, t, act)
<1> DEFINE last == as[k + 1]
           one  == <<last>>
           m    == k + 1
           I0   == {i \in 1 .. k : t \in RowsIn(as[i])}
           I1   == {i \in 1 .. m : t \in RowsIn(as[i])}
           J    == {i \in 1 .. 1 : t \in RowsIn(one[i])}
           x    == Ascending(k, I0)
           y    == Ascending(m, I1)
           z    == Ascending(1, J)
           g0   == Given(as, k, t, act)
           g1   == Given(as, m, t, act)
           h    == Given(one, 1, t, act)
<1>1. m \in Nat /\ 1 \in Nat /\ m \in 1 .. m /\ 1 \in 1 .. 1 /\ m \in Int
  OBVIOUS
<1>2. \A i \in 1 .. k : i \in 1 .. m /\ i < m
  OBVIOUS
<1>3. one[1] = last /\ last \in EntryT /\ \A i \in 1 .. 1 : one[i] \in EntryT
  <2>1. one[1] = last
    OBVIOUS
  <2>2. \A i \in 1 .. 1 : i = 1
    OBVIOUS
  <2>3. last \in EntryT
    BY <1>1
  <2> HIDE DEF one, last
  <2> QED BY <2>1, <2>2, <2>3
<1>4. g0 = [j \in 1 .. Len(x) |-> Term(as[x[j]], t, act)]
  BY DEF Given
<1>5. g1 = [j \in 1 .. Len(y) |-> Term(as[y[j]], t, act)]
  BY DEF Given
<1>6. h = [j \in 1 .. Len(z) |-> Term(one[z[j]], t, act)]
  BY DEF Given
<1>7. g0 \in Seq(TermT)
  BY <1>2, GivenType
<1>8. h \in Seq(TermT)
  <2> HIDE DEF one
  <2> QED BY <1>1, <1>3, GivenType
<1> HIDE DEF one, g0, g1, h
<1>9. Lists(x, I0) /\ \A i \in 1 .. Len(x) : x[i] \in I0
  BY AscendingPositions
<1>10. Lists(y, I1)
  <2> HIDE DEF m
  <2> QED BY <1>1, AscendingPositions
<1>11. Lists(z, J)
  BY <1>1, AscendingPositions
<1>12. x \in Seq(Int) /\ Len(x) \in Nat
  BY <1>9 DEF Lists
<1> HIDE DEF x, y, z
<1>13. \A i \in I0 : i < m
  BY <1>2
<1>14. \A i \in 1 .. m : i \in 1 .. k \/ i = m
  OBVIOUS
<1> HIDE DEF m
<1>15. m \in I1 <=> t \in RowsIn(last)
  BY <1>1 DEF last, m
<1>16. 1 \in J <=> t \in RowsIn(last)
  BY <1>1, <1>3
<1>17. J \subseteq {1}
  <2>1. \A i \in 1 .. 1 : i = 1
    OBVIOUS
  <2> QED BY <2>1
<1>18. I0 \subseteq I1 /\ I1 \subseteq I0 \cup {m}
  <2>1. \A i \in 1 .. k : i \in 1 .. m
    BY <1>2 DEF m
  <2>2. I0 \subseteq I1
    BY <2>1
  <2>3. I1 \subseteq I0 \cup {m}
    BY <1>14
  <2> QED BY <2>2, <2>3
<1> HIDE DEF I0, I1, J
<1>19. CASE t \in RowsIn(last)
  <2>1. I1 = I0 \cup {m} /\ J = {1}
    BY <1>15, <1>16, <1>17, <1>18, <1>19, Zenon
  <2>2. y = Append(x, m)
    <3>1. Lists(y, I0 \cup {m})
      BY <1>10, <2>1, Zenon
    <3> QED BY <1>1, <1>9, <1>13, <3>1, ListsAppend
  <2>3. z = <<1>>
    <3>1. Lists(z, {1}) /\ 1 \in Int
      BY <1>11, <2>1
    <3> QED BY <3>1, ListsFew
  <2>4. Len(y) = Len(x) + 1 /\ y[Len(x) + 1] = m /\ \A j \in 1 .. Len(x) : y[j] = x[j]
    BY <1>1, <1>12, <2>2
  <2>5. g1 = [j \in 1 .. Len(x) + 1 |-> Term(as[y[j]], t, act)]
    BY <1>5, <2>4
  <2>6. Len(h) = 1 /\ h[1] = Term(last, t, act)
    <3>1. Len(z) = 1 /\ one[z[1]] = last
      BY <1>3, <2>3
    <3>2. DOMAIN h = 1 .. 1 /\ h[1] = Term(one[z[1]], t, act)
      BY <1>1, <1>6, <3>1
    <3>3. Len(h) \in Nat /\ DOMAIN h = 1 .. Len(h)
      BY <1>8, LenProperties
    <3> QED BY <3>1, <3>2, <3>3
  <2>7. Len(g0) = Len(x) /\ DOMAIN g0 = 1 .. Len(x)
    <3>1. Len(g0) \in Nat /\ DOMAIN g0 = 1 .. Len(g0)
      BY <1>7, LenProperties
    <3> QED BY <1>4, <1>12, <3>1
  <2>8. g0 \o h = [j \in 1 .. Len(x) + 1 |-> IF j <= Len(x) THEN g0[j] ELSE h[j - Len(x)]]
    <3>1. g0 \o h = [j \in 1 .. Len(g0) + Len(h) |-> IF j <= Len(g0) THEN g0[j] ELSE h[j - Len(g0)]]
      BY <1>7, <1>8, Joined
    <3> QED BY <2>6, <2>7, <3>1
  <2>9. ASSUME NEW j \in 1 .. Len(x) + 1
        PROVE  Term(as[y[j]], t, act) = IF j <= Len(x) THEN g0[j] ELSE h[j - Len(x)]
    <3>1. CASE j <= Len(x)
      <4>1. j \in 1 .. Len(x)
        BY <1>12, <3>1
      <4>2. g0[j] = Term(as[x[j]], t, act)
        BY <1>4, <4>1
      <4>3. y[j] = x[j]
        BY <2>4, <4>1
      <4> QED BY <3>1, <4>2, <4>3
    <3>2. CASE ~(j <= Len(x))
      <4>1. j = Len(x) + 1 /\ j - Len(x) = 1
        BY <1>12, <3>2
      <4>2. as[y[j]] = last
        BY <2>4, <4>1 DEF last, m
      <4> QED BY <2>6, <3>2, <4>1, <4>2
    <3> QED BY <3>1, <3>2
  <2>10. g1 = g0 \o h
    BY <2>5, <2>8, <2>9
  <2> QED BY <2>10 DEF g0, g1, h, one, last, m
<1>20. CASE t \notin RowsIn(last)
  <2>1. I1 = I0 /\ J = {}
    <3>1. m \notin I1 /\ 1 \notin J
      BY <1>15, <1>16, <1>20
    <3> QED BY <1>17, <1>18, <3>1
  <2>2. y = x
    BY <1>9, <1>10, <2>1, ListsUnique
  <2>3. z = <<>>
    BY <1>11, <2>1, ListsFew
  <2>4. h = <<>>
    <3>1. Len(z) = 0
      BY <2>3
    <3> QED BY <1>6, <1>8, <3>1
  <2>5. g1 = g0
    BY <1>4, <1>5, <2>2
  <2>6. g0 \o <<>> = g0
    BY <1>7, ConcatEmptySeq
  <2> QED BY <2>4, <2>5, <2>6 DEF g0, g1, h, one, last, m
<1> QED BY <1>19, <1>20

-----------------------------------------------------------------------------
(* The entries of a request.                                               *)

\* The entry PerExpert makes of column i.
Entry(es, ws, i) ==
  LET rows == Ascending(Len(ws), {t \in DOMAIN ws : ws[t][i] # 0})
  IN  [e |-> es[i], rows |-> rows, w |-> Strict([r \in DOMAIN rows |-> ws[rows[r]][i]])]

\* The columns with a weight for token t, and those with a weight for some token.
Columns(ws, m, t) == {i \in 1 .. m : ws[t][i] # 0}
UsedColumns(ws, m) == {i \in 1 .. m : \E t \in DOMAIN ws : ws[t][i] # 0}

\* An entry has a row for each token with a weight in its column, and that weight.
LEMMA EntryIs ==
  ASSUME NEW m \in Nat, NEW n \in Nat, NEW es \in [1 .. m -> Experts],
         NEW ws \in [1 .. n -> [1 .. m -> Nat]], NEW i \in 1 .. m
  PROVE  /\ Entry(es, ws, i) \in EntryT
         /\ \A t : t \in RowsIn(Entry(es, ws, i)) <=> t \in 1 .. n /\ ws[t][i] # 0
         /\ \A t \in 1 .. n, act \in Acts : ws[t][i] # 0 =>
              Term(Entry(es, ws, i), t, act) = [e |-> es[i], w |-> ws[t][i], act |-> act]
<1> DEFINE R    == {t \in 1 .. n : ws[t][i] # 0}
           rows == Ascending(n, R)
           w    == [r \in 1 .. Len(rows) |-> ws[rows[r]][i]]
           a    == Entry(es, ws, i)
<1>1. Len(ws) = n /\ DOMAIN ws = 1 .. n
  BY IndexSeq
<1>2. /\ rows \in Seq(Int) /\ Len(rows) \in Nat /\ DOMAIN rows = 1 .. Len(rows)
      /\ Lists(rows, R)
      /\ \A r \in 1 .. Len(rows) : rows[r] \in R
  BY AscendingPositions
<1>3. a = [e |-> es[i], rows |-> rows, w |-> Strict(w)]
  BY <1>1, <1>2 DEF Entry
<1> HIDE DEF rows
<1>4. w \in [1 .. Len(rows) -> Nat]
  BY <1>2
<1>5. w \in Seq(Nat) /\ Len(w) = Len(rows) /\ Strict(w) = w
  <2> HIDE DEF w
  <2> QED BY <1>2, <1>4, IndexSeq
<1>6. a.e = es[i] /\ a.rows = rows /\ a.w = w
  BY <1>3, <1>5
<1>7. a \in EntryT
  <2>1. es[i] \in Experts
    OBVIOUS
  <2> HIDE DEF w, a
  <2>2. a \in [e : Experts, rows : Seq(Int), w : Seq(Nat)]
    BY <1>2, <1>3, <1>5, <2>1
  <2> QED BY <1>5, <1>6, <2>2 DEF EntryT
<1>8. RowsIn(a) = R
  <2>1. RowsIn(a) = {rows[r] : r \in 1 .. Len(rows)}
    BY <1>6 DEF RowsIn
  <2>2. \A x \in R : \E r \in 1 .. Len(rows) : rows[r] = x
    BY <1>2 DEF Lists, Within
  <2> HIDE DEF R
  <2> QED BY <1>2, <2>1, <2>2
<1>9. ASSUME NEW t \in 1 .. n, NEW act \in Acts, ws[t][i] # 0
      PROVE  Term(a, t, act) = [e |-> es[i], w |-> ws[t][i], act |-> act]
  <2>1. t \in RowsIn(a)
    BY <1>8, <1>9
  <2> HIDE DEF a
  <2>2. PICK r \in 1 .. Len(a.rows) : a.rows[r] = t /\ Term(a, t, act).w = a.w[r]
    BY <1>7, <2>1, TermType
  <2>3. Term(a, t, act).w = ws[t][i]
    BY <1>6, <2>2
  <2>4. Term(a, t, act) = [e |-> a.e, w |-> Term(a, t, act).w, act |-> act]
    BY DEF Term
  <2> QED BY <1>6, <2>3, <2>4
<1> QED BY <1>7, <1>8, <1>9

\* Rising positions of a rising sequence.
LEMMA RisesCompose ==
  ASSUME NEW s \in Seq(Int), Rises(s), NEW p \in Seq(Int), Rises(p),
         \A j \in 1 .. Len(p) : p[j] \in 1 .. Len(s),
         NEW c \in [1 .. Len(p) -> Int], \A j \in 1 .. Len(p) : c[j] = s[p[j]]
  PROVE  c \in Seq(Int) /\ Len(c) = Len(p) /\ Rises(c)
<1>1. Len(p) \in Nat /\ Len(s) \in Nat
  OBVIOUS
<1>2. c \in Seq(Int) /\ Len(c) = Len(p)
  BY <1>1, IndexSeq
<1>3. ASSUME NEW i \in 1 .. Len(p), NEW j \in 1 .. Len(p), i < j PROVE c[i] < c[j]
  <2>1. p[i] < p[j] /\ p[i] \in 1 .. Len(s) /\ p[j] \in 1 .. Len(s)
    BY <1>3 DEF Rises
  <2>2. s[p[i]] < s[p[j]]
    BY <2>1 DEF Rises
  <2> QED BY <2>2
<1> QED BY <1>2, <1>3 DEF Rises

\* What PerExpert returns.
LEMMA PerExpertIs ==
  ASSUME NEW m \in Nat, NEW n \in Nat, NEW es \in [1 .. m -> Experts],
         NEW ws \in [1 .. n -> [1 .. m -> Nat]]
  PROVE  LET some == Ascending(m, UsedColumns(ws, m))
             as   == PerExpert(es, ws)
         IN  /\ Lists(some, UsedColumns(ws, m)) /\ Len(some) \in Nat
             /\ \A j \in 1 .. Len(some) : some[j] \in UsedColumns(ws, m)
             /\ Len(as) = Len(some) /\ as \in Seq(EntryT)
             /\ \A j \in 1 .. Len(some) : as[j] = Entry(es, ws, some[j]) /\ as[j] \in EntryT
<1> DEFINE U    == UsedColumns(ws, m)
           some == Ascending(m, U)
           as   == PerExpert(es, ws)
           f    == [j \in 1 .. Len(some) |-> Entry(es, ws, some[j])]
<1>1. Len(es) = m /\ DOMAIN es = 1 .. m
  BY IndexSeq
<1>2. \A x \in U : x \in 1 .. m
  BY DEF UsedColumns
<1>3. /\ Lists(some, U) /\ Len(some) \in Nat /\ DOMAIN some = 1 .. Len(some)
      /\ \A j \in 1 .. Len(some) : some[j] \in U
  BY <1>2, AscendingPositions
<1>4. as = Strict(f)
  <2>1. as = Strict([j \in DOMAIN some |-> Entry(es, ws, some[j])])
    BY <1>1 DEF PerExpert, Entry, UsedColumns
  <2> QED BY <1>3, <2>1
<1> HIDE DEF some, U
<1>5. \A j \in 1 .. Len(some) : Entry(es, ws, some[j]) \in EntryT
  BY <1>2, <1>3, EntryIs
<1>6. f \in [1 .. Len(some) -> EntryT]
  BY <1>5
<1>7. \A j \in 1 .. Len(some) : f[j] = Entry(es, ws, some[j])
  OBVIOUS
<1> HIDE DEF f
<1>8. f \in Seq(EntryT) /\ Len(f) = Len(some) /\ Strict(f) = f
  BY <1>3, <1>6, IndexSeq
<1> QED BY <1>3, <1>4, <1>5, <1>7, <1>8 DEF some, U

\* g has a term for each of the columns `its`: its expert and its weight.
TermsOf(g, es, weight, its, act) ==
  /\ DOMAIN g = DOMAIN its
  /\ \A i \in DOMAIN its : g[i] = [e |-> es[its[i]], w |-> weight[its[i]], act |-> act]

\* What all the entries of a request add to a token: its weights, column by column.
LEMMA GivenAll ==
  ASSUME NEW m \in Nat, NEW n \in Nat, NEW es \in [1 .. m -> Experts],
         NEW ws \in [1 .. n -> [1 .. m -> Nat]], NEW t \in 1 .. n, NEW act \in Acts
  PROVE  LET as  == PerExpert(es, ws)
             its == Ascending(m, Columns(ws, m, t))
         IN  TermsOf(Given(as, Len(as), t, act), es, ws[t], its, act)
<1> DEFINE U    == UsedColumns(ws, m)
           C    == Columns(ws, m, t)
           some == Ascending(m, U)
           as   == PerExpert(es, ws)
           K    == {j \in 1 .. Len(some) : t \in RowsIn(as[j])}
           p    == Ascending(Len(some), K)
           its  == Ascending(m, C)
<1>1. /\ Lists(some, U) /\ Len(some) \in Nat
      /\ \A j \in 1 .. Len(some) : some[j] \in U
      /\ Len(as) = Len(some)
      /\ \A j \in 1 .. Len(some) : as[j] = Entry(es, ws, some[j])
  BY PerExpertIs
<1>2. Given(as, Len(as), t, act) = [j \in 1 .. Len(p) |-> Term(as[p[j]], t, act)]
  BY <1>1 DEF Given
<1> HIDE DEF some, as
<1>3. U \subseteq 1 .. m /\ C \subseteq U
  <2>1. DOMAIN ws = 1 .. n
    OBVIOUS
  <2> QED BY <2>1 DEF UsedColumns, Columns
<1>4. \A j \in 1 .. Len(some) : j \in K <=> some[j] \in C
  <2> SUFFICES ASSUME NEW j \in 1 .. Len(some) PROVE j \in K <=> some[j] \in C
    OBVIOUS
  <2>1. some[j] \in 1 .. m
    BY <1>1, <1>3
  <2>2. RowsIn(as[j]) = {x \in 1 .. n : ws[x][some[j]] # 0}
    <3> DEFINE c == some[j]
    <3>1. c \in 1 .. m /\ as[j] = Entry(es, ws, c)
      BY <1>1, <2>1
    <3> HIDE DEF c
    <3>2. \A x : x \in RowsIn(Entry(es, ws, c)) <=> x \in 1 .. n /\ ws[x][c] # 0
      BY <3>1, EntryIs
    <3> QED BY <3>1, <3>2 DEF c
  <2>3. t \in RowsIn(as[j]) <=> ws[t][some[j]] # 0
    BY <2>2
  <2> QED BY <2>1, <2>3 DEF Columns
<1>5. Lists(p, K) /\ \A j \in 1 .. Len(p) : p[j] \in K
  BY <1>1, AscendingPositions
<1>6. \A k \in K : k \in 1 .. Len(some)
  OBVIOUS
<1>7. \A x \in C : x \in 1 .. m
  BY DEF Columns
<1>8. Lists(its, C)
  BY <1>7, AscendingPositions
<1> HIDE DEF U, C, K, p, its
<1> DEFINE pick == [j \in 1 .. Len(p) |-> some[p[j]]]
<1>9. \A j \in 1 .. Len(p) : p[j] \in 1 .. Len(some) /\ some[p[j]] \in C
  BY <1>4, <1>5, <1>6
<1>10. Lists(pick, C)
  <2>1. \A j \in 1 .. Len(p) : some[p[j]] \in Int
    <3>1. some \in Seq(Int)
      BY <1>1 DEF Lists
    <3>2. \A i \in 1 .. Len(some) : some[i] \in Int
      BY <3>1
    <3> QED BY <1>9, <3>2
  <2>2. pick \in [1 .. Len(p) -> Int] /\ \A j \in 1 .. Len(p) : pick[j] = some[p[j]]
    BY <2>1
  <2> HIDE DEF pick
  <2>3. some \in Seq(Int) /\ Rises(some) /\ p \in Seq(Int) /\ Rises(p)
    BY <1>1, <1>5 DEF Lists
  <2>4. pick \in Seq(Int) /\ Len(pick) = Len(p) /\ Rises(pick)
    BY <1>9, <2>2, <2>3, RisesCompose
  <2>5. ASSUME NEW x \in C PROVE Within(x, pick)
    <3>1. x \in U
      BY <1>3
    <3>2. PICK k \in 1 .. Len(some) : some[k] = x
      BY <1>1, <3>1 DEF Lists, Within
    <3>3. PICK j \in 1 .. Len(p) : p[j] = k
      BY <1>4, <1>5, <3>2 DEF Lists, Within
    <3> QED BY <2>2, <2>4, <3>2, <3>3 DEF Within
  <2> QED BY <1>9, <2>2, <2>4, <2>5 DEF Lists
<1>11. its = [j \in 1 .. Len(p) |-> some[p[j]]]
  <2>1. its = pick
    <3> HIDE DEF pick
    <3> QED BY <1>8, <1>10, ListsUnique
  <2> QED BY <2>1
<1>12. Len(p) \in Nat /\ Len(its) = Len(p)
  <2>1. p \in Seq(Int) /\ its \in Seq(Int)
    BY <1>5, <1>8 DEF Lists
  <2>2. Len(p) \in Nat /\ Len(its) \in Nat /\ DOMAIN its = 1 .. Len(its)
    BY <2>1
  <2>3. DOMAIN its = 1 .. Len(p)
    BY <1>11
  <2> QED BY <2>2, <2>3
<1>13. ASSUME NEW j \in 1 .. Len(p)
       PROVE  Term(as[p[j]], t, act) = [e |-> es[its[j]], w |-> ws[t][its[j]], act |-> act]
  <2>1. p[j] \in 1 .. Len(some) /\ some[p[j]] \in C
    BY <1>4, <1>5, <1>6
  <2>2. some[p[j]] \in 1 .. m /\ ws[t][some[p[j]]] # 0
    BY <2>1 DEF C, Columns
  <2>3. as[p[j]] = Entry(es, ws, some[p[j]])
    BY <1>1, <2>1
  <2>4. its[j] = some[p[j]]
    BY <1>11
  <2> DEFINE c == some[p[j]]
  <2>5. c \in 1 .. m /\ ws[t][c] # 0 /\ as[p[j]] = Entry(es, ws, c) /\ its[j] = c
    BY <2>2, <2>3, <2>4
  <2> HIDE DEF c
  <2>6. Term(Entry(es, ws, c), t, act) = [e |-> es[c], w |-> ws[t][c], act |-> act]
    BY <2>5, EntryIs
  <2> QED BY <2>5, <2>6
<1>14. DOMAIN its = 1 .. Len(p)
  BY <1>11
<1> QED BY <1>2, <1>13, <1>14 DEF as, its, C, TermsOf

-----------------------------------------------------------------------------
(* The sums of a call.                                                     *)

\* The tokens of a call are numbered from 1.
LEMMA TokensAre ==
  ASSUME job \in Jobs
  PROVE  /\ Len(job.score) \in Nat \ {0} /\ Tokens = 1 .. Len(job.score)
         /\ job.act \in Acts
<1>1. job.score \in Seq([Experts -> Nat]) \ {<<>>} /\ job.act \in {"silu", "oai", "clamp", "relu2", "situ"}
  BY DispatchAssumption
<1> DEFINE X == [Experts -> Nat]
<1>2. job.score \in Seq(X) /\ job.score # <<>>
  BY <1>1
<1> HIDE DEF X
<1>3. Len(job.score) \in Nat /\ Len(job.score) # 0 /\ DOMAIN job.score = 1 .. Len(job.score)
  BY <1>2, EmptySeq, LenProperties
<1>4. job.act \in Acts
  BY <1>1 DEF Acts
<1> QED BY <1>3, <1>4 DEF Tokens

\* Before anything is added.
LEMMA NothingIs ==
  ASSUME job \in Jobs
  PROVE  Nothing = [t \in Tokens |-> <<>>]
<1> DEFINE f == [t \in Tokens |-> <<>>]
<1>1. Tokens = 1 .. Len(job.score) /\ Len(job.score) \in Nat
  BY TokensAre
<1>2. f \in [1 .. Len(job.score) -> {<<>>}]
  BY <1>1
<1>3. Nothing = Strict(f)
  BY DEF Nothing
<1> HIDE DEF f
<1>4. Strict(f) = f
  BY <1>1, <1>2, IndexSeq
<1> QED BY <1>3, <1>4 DEF f

\* The sums once the first n of the entries `as` are added.
Added(sum, as, n, act) == [t \in Tokens |-> sum[t] \o Given(as, n, t, act)]

\* What a scatter adds to each token.
LEMMA ScatterIs ==
  ASSUME job \in Jobs, NEW n \in Nat, NEW as, Len(as) = n, DOMAIN as = 1 .. n,
         \A i \in 1 .. n : as[i] \in EntryT,
         NEW act \in Acts, NEW sum, \A t \in Tokens : sum[t] \in Seq(TermT)
  PROVE  Scatter(sum, as, act) = Added(sum, as, n, act)
<1> DEFINE f == [t \in Tokens |-> sum[t] \o Given(as, n, t, act)]
<1>1. Tokens = 1 .. Len(job.score) /\ Len(job.score) \in Nat
  BY TokensAre
<1>2. ASSUME NEW t \in Tokens
      PROVE  LET its == Ascending(Len(as), {i \in DOMAIN as : t \in ToSet(as[i].rows)})
             IN  [j \in DOMAIN its |-> Term(as[its[j]], t, act)] = Given(as, n, t, act)
  <2> DEFINE I0  == {i \in DOMAIN as : t \in ToSet(as[i].rows)}
             I1  == {i \in 1 .. n : t \in RowsIn(as[i])}
             its == Ascending(n, I1)
  <2>1. \A i \in 1 .. n : ToSet(as[i].rows) = RowsIn(as[i])
    <3> SUFFICES ASSUME NEW i \in 1 .. n PROVE ToSet(as[i].rows) = RowsIn(as[i])
      OBVIOUS
    <3>1. as[i].rows \in Seq(Int)
      BY DEF EntryT
    <3>2. DOMAIN as[i].rows = 1 .. Len(as[i].rows)
      BY <3>1, LenProperties
    <3> QED BY <3>2 DEF ToSet, RowsIn
  <2>2. I0 = I1
    BY <2>1
  <2>3. DOMAIN its = 1 .. Len(its)
    BY AscendingPositions
  <2>4. Given(as, n, t, act) = [j \in 1 .. Len(its) |-> Term(as[its[j]], t, act)]
    BY DEF Given
  <2> HIDE DEF I0, I1
  <2> QED BY <2>2, <2>3, <2>4 DEF I0
<1>3. Scatter(sum, as, act) = Strict(f)
  <2>1. Scatter(sum, as, act)
          = Strict([t \in Tokens |->
              LET its == Ascending(Len(as), {i \in DOMAIN as : t \in ToSet(as[i].rows)})
              IN  sum[t] \o [j \in DOMAIN its |-> Term(as[its[j]], t, act)]])
    BY DEF Scatter, Term
  <2> QED BY <1>2, <2>1
<1>4. \A t \in Tokens : sum[t] \o Given(as, n, t, act) \in Seq(TermT)
  BY GivenType, ConcatProperties
<1>5. f \in [1 .. Len(job.score) -> Seq(TermT)]
  BY <1>1, <1>4
<1> HIDE DEF f
<1>6. Strict(f) = f
  BY <1>1, <1>5, IndexSeq
<1> QED BY <1>3, <1>6 DEF f, Added

-----------------------------------------------------------------------------
(* The entries of a node.                                                  *)

RoutedOK(r) ==
  /\ Len(r.uniq) \in Nat /\ r.uniq \in [1 .. Len(r.uniq) -> Experts]
  /\ r.w_mat \in [Tokens -> [1 .. Len(r.uniq) -> Nat]]

EntriesOf(r, cols) == PerExpert(Pick(r.uniq, cols), subcols(r.w_mat, cols))

\* The columns of a node are columns of the union.
LEMMA ColumnsAre ==
  ASSUME NEW r, RoutedOK(r)
  PROVE  /\ \A n : /\ Len(ColsOf(r.uniq, n)) \in Nat
                   /\ ColsOf(r.uniq, n) \in [1 .. Len(ColsOf(r.uniq, n)) -> 1 .. Len(r.uniq)]
                   /\ ColsOf(r.uniq, n) = <<>> <=> ~ \E i \in 1 .. Len(r.uniq) : job.owner[r.uniq[i]] = n
         /\ Len(LocalCols(r)) \in Nat /\ LocalCols(r) \in [1 .. Len(LocalCols(r)) -> 1 .. Len(r.uniq)]
         /\ ~Sharded => LocalCols(r) = [i \in 1 .. Len(r.uniq) |-> i] /\ Len(LocalCols(r)) = Len(r.uniq)
<1> DEFINE m == Len(r.uniq)
           S(n) == {i \in 1 .. m : job.owner[r.uniq[i]] = n}
           c(n) == Ascending(m, S(n))
<1>1. m \in Nat /\ DOMAIN r.uniq = 1 .. m
  BY DEF RoutedOK
<1>2. \A n : ColsOf(r.uniq, n) = c(n)
  BY <1>1 DEF ColsOf
<1>3. ASSUME NEW n
      PROVE  /\ Len(c(n)) \in Nat /\ c(n) \in [1 .. Len(c(n)) -> 1 .. m]
             /\ c(n) = <<>> <=> ~ \E i \in 1 .. m : job.owner[r.uniq[i]] = n
  <2> DEFINE s == c(n)
             T == S(n)
  <2>1. T \subseteq 1 .. m
    OBVIOUS
  <2> HIDE DEF T
  <2>2. /\ Lists(s, T) /\ s \in Seq(Int) /\ Len(s) \in Nat /\ DOMAIN s = 1 .. Len(s)
        /\ \A i \in 1 .. Len(s) : s[i] \in T
    BY <1>1, <2>1, AscendingPositions DEF T
  <2> HIDE DEF s, m
  <2>3. s \in [1 .. Len(s) -> 1 .. m]
    <3>1. s = [i \in 1 .. Len(s) |-> s[i]]
      BY <2>2
    <3> QED BY <2>1, <2>2, <3>1
  <2>4. s = <<>> => T = {}
    <3> SUFFICES ASSUME s = <<>>, NEW x \in T PROVE FALSE
      OBVIOUS
    <3>1. PICK i \in 1 .. Len(s) : s[i] = x
      BY <2>2 DEF Lists, Within
    <3>2. Len(s) = 0
      OBVIOUS
    <3> QED BY <3>1, <3>2
  <2>5. T = {} => s = <<>>
    <3> SUFFICES ASSUME T = {} PROVE s = <<>>
      OBVIOUS
    <3> QED BY <2>2, ListsFew
  <2> QED BY <2>2, <2>3, <2>4, <2>5 DEF s, T
<1>4. Sharded => LocalCols(r) = ColsOf(r.uniq, job.me)
  BY DEF LocalCols
<1> DEFINE id == [i \in 1 .. m |-> i]
<1>5. ~Sharded => LocalCols(r) = id
  BY <1>1 DEF LocalCols
<1>6. id \in [1 .. m -> 1 .. m]
  OBVIOUS
<1>7. Len(id) = m
  <2> HIDE DEF id
  <2> QED BY <1>1, <1>6, IndexSeq
<1> HIDE DEF c, S
<1>8. \A n : /\ Len(ColsOf(r.uniq, n)) \in Nat
             /\ ColsOf(r.uniq, n) \in [1 .. Len(ColsOf(r.uniq, n)) -> 1 .. m]
             /\ ColsOf(r.uniq, n) = <<>> <=> ~ \E i \in 1 .. m : job.owner[r.uniq[i]] = n
  BY <1>2, <1>3
<1> HIDE DEF id
<1>9. Len(LocalCols(r)) \in Nat /\ LocalCols(r) \in [1 .. Len(LocalCols(r)) -> 1 .. m]
  <2>1. CASE Sharded
    BY <1>4, <1>8, <2>1
  <2>2. CASE ~Sharded
    BY <1>1, <1>5, <1>6, <1>7, <2>2
  <2> QED BY <2>1, <2>2
<1> QED BY <1>5, <1>7, <1>8, <1>9 DEF id

\* What Pick and subcols select.
LEMMA Selected ==
  ASSUME job \in Jobs, NEW r, RoutedOK(r),
         NEW m \in Nat, NEW cols \in [1 .. m -> 1 .. Len(r.uniq)]
  PROVE  LET es == Pick(r.uniq, cols)
             ws == subcols(r.w_mat, cols)
         IN  /\ es \in [1 .. m -> Experts] /\ \A j \in 1 .. m : es[j] = r.uniq[cols[j]]
             /\ ws \in [Tokens -> [1 .. m -> Nat]]
             /\ \A t \in Tokens, j \in 1 .. m : ws[t][j] = r.w_mat[t][cols[j]]
<1> DEFINE n  == Len(job.score)
           es == [j \in 1 .. m |-> r.uniq[cols[j]]]
           row(t) == [j \in 1 .. m |-> r.w_mat[t][cols[j]]]
           ws == [t \in 1 .. n |-> row(t)]
<1>1. n \in Nat /\ Tokens = 1 .. n
  BY TokensAre
<1>2. r.uniq \in [1 .. Len(r.uniq) -> Experts] /\ r.w_mat \in [1 .. n -> [1 .. Len(r.uniq) -> Nat]]
  BY <1>1 DEF RoutedOK
<1>3. DOMAIN cols = 1 .. m /\ DOMAIN r.w_mat = 1 .. n
  BY <1>2
<1>4. Pick(r.uniq, cols) = Strict(es)
  BY <1>3 DEF Pick
<1>5. es \in [1 .. m -> Experts] /\ \A j \in 1 .. m : es[j] = r.uniq[cols[j]]
  BY <1>2
<1>6. Strict(es) = es
  <2> HIDE DEF es
  <2> QED BY <1>5, IndexSeq
<1>7. \A t \in 1 .. n : row(t) \in [1 .. m -> Nat]
  BY <1>2
<1>8. \A t \in 1 .. n : Strict(row(t)) = row(t)
  <2> SUFFICES ASSUME NEW t \in 1 .. n PROVE Strict(row(t)) = row(t)
    OBVIOUS
  <2> DEFINE x == row(t)
  <2>1. x \in [1 .. m -> Nat]
    BY <1>7
  <2> HIDE DEF x
  <2>2. Strict(x) = x
    BY <2>1, IndexSeq
  <2> QED BY <2>2 DEF x
<1>9. subcols(r.w_mat, cols) = Strict([t \in 1 .. n |-> Strict(row(t))])
  BY <1>3 DEF subcols
<1>10. [t \in 1 .. n |-> Strict(row(t))] = ws
  BY <1>8
<1>11. ws \in [1 .. n -> [1 .. m -> Nat]] /\ \A t \in 1 .. n, j \in 1 .. m : ws[t][j] = r.w_mat[t][cols[j]]
  BY <1>7
<1>12. Strict(ws) = ws
  <2> HIDE DEF ws, row, n
  <2> QED BY <1>1, <1>11, IndexSeq
<1> HIDE DEF es, ws, row, n
<1>13. Pick(r.uniq, cols) = es /\ subcols(r.w_mat, cols) = ws
  BY <1>4, <1>6, <1>9, <1>10, <1>12
<1>14. ws \in [Tokens -> [1 .. m -> Nat]] /\ \A t \in Tokens, j \in 1 .. m : ws[t][j] = r.w_mat[t][cols[j]]
  BY <1>1, <1>11
<1> QED BY <1>5, <1>13, <1>14

\* The entries of some columns.
LEMMA EntriesAre ==
  ASSUME job \in Jobs, NEW r, RoutedOK(r),
         NEW m \in Nat, NEW cols \in [1 .. m -> 1 .. Len(r.uniq)]
  PROVE  LET as == EntriesOf(r, cols)
         IN  /\ Len(as) \in Nat /\ DOMAIN as = 1 .. Len(as) /\ as \in Seq(EntryT)
             /\ \A i \in 1 .. Len(as) : as[i] \in EntryT
<1> DEFINE n  == Len(job.score)
           es == Pick(r.uniq, cols)
           ws == subcols(r.w_mat, cols)
           as == PerExpert(es, ws)
<1>1. n \in Nat /\ Tokens = 1 .. n
  BY TokensAre
<1>2. es \in [1 .. m -> Experts] /\ ws \in [1 .. n -> [1 .. m -> Nat]]
  BY <1>1, Selected
<1> HIDE DEF n, es, ws
<1>3. as \in Seq(EntryT)
  BY <1>1, <1>2, PerExpertIs
<1> HIDE DEF as
<1>4. Len(as) \in Nat /\ DOMAIN as = 1 .. Len(as) /\ \A i \in 1 .. Len(as) : as[i] \in EntryT
  BY <1>3, LenProperties, ElementOfSeq
<1> QED BY <1>3, <1>4 DEF EntriesOf, as, es, ws

\* g has the terms of the columns `cols` for token t, in their order.
TermsFrom(g, r, cols, t, act) ==
  LET its == Ascending(Len(cols), {j \in DOMAIN cols : r.w_mat[t][cols[j]] # 0})
  IN  /\ DOMAIN g = DOMAIN its
      /\ \A i \in DOMAIN its :
           /\ its[i] \in DOMAIN cols
           /\ g[i] = [e |-> r.uniq[cols[its[i]]], w |-> r.w_mat[t][cols[its[i]]], act |-> act]

\* What the entries of some columns add to a token.
LEMMA EntriesGive ==
  ASSUME job \in Jobs, NEW r, RoutedOK(r),
         NEW m \in Nat, NEW cols \in [1 .. m -> 1 .. Len(r.uniq)], NEW t \in Tokens, NEW act \in Acts
  PROVE  TermsFrom(Given(EntriesOf(r, cols), Len(EntriesOf(r, cols)), t, act), r, cols, t, act)
<1> DEFINE n  == Len(job.score)
           es == Pick(r.uniq, cols)
           ws == subcols(r.w_mat, cols)
           as == PerExpert(es, ws)
           J  == {j \in 1 .. m : r.w_mat[t][cols[j]] # 0}
           its == Ascending(m, J)
<1>1. n \in Nat /\ Tokens = 1 .. n
  BY TokensAre
<1>2. /\ es \in [1 .. m -> Experts] /\ ws \in [1 .. n -> [1 .. m -> Nat]]
      /\ \A j \in 1 .. m : es[j] = r.uniq[cols[j]] /\ ws[t][j] = r.w_mat[t][cols[j]]
  BY <1>1, Selected
<1> HIDE DEF n, es, ws
<1>3. Columns(ws, m, t) = J
  BY <1>2 DEF Columns
<1> DEFINE g == Given(as, Len(as), t, act)
<1>4. DOMAIN g = DOMAIN its /\ \A i \in DOMAIN its : g[i] = [e |-> es[its[i]], w |-> ws[t][its[i]], act |-> act]
  <2> HIDE DEF J
  <2>1. t \in 1 .. n
    BY <1>1
  <2> DEFINE p == Ascending(m, Columns(ws, m, t))
  <2>2. TermsOf(g, es, ws[t], p, act)
    BY <1>1, <1>2, <2>1, GivenAll
  <2>3. p = its
    BY <1>3
  <2> HIDE DEF p, its, g
  <2> QED BY <2>2, <2>3 DEF TermsOf
<1>5. \A x \in J : x \in 1 .. m
  OBVIOUS
<1> HIDE DEF J
<1>6. Len(its) \in Nat /\ DOMAIN its = 1 .. Len(its) /\ \A i \in 1 .. Len(its) : its[i] \in J
  BY <1>5, AscendingPositions
<1> HIDE DEF its, as, g
<1>7. ASSUME NEW i \in DOMAIN its
      PROVE  its[i] \in 1 .. m /\ g[i] = [e |-> r.uniq[cols[its[i]]], w |-> r.w_mat[t][cols[its[i]]], act |-> act]
  <2>1. its[i] \in 1 .. m
    BY <1>5, <1>6
  <2>2. es[its[i]] = r.uniq[cols[its[i]]] /\ ws[t][its[i]] = r.w_mat[t][cols[its[i]]]
    BY <1>2, <2>1
  <2> QED BY <1>4, <2>1, <2>2
<1>8. Len(cols) = m /\ DOMAIN cols = 1 .. m
  BY IndexSeq
<1>9. TermsFrom(g, r, cols, t, act)
  BY <1>4, <1>7, <1>8 DEF TermsFrom, its, J
<1> QED BY <1>9 DEF EntriesOf, as, es, ws, g

-----------------------------------------------------------------------------
(* Which activation is computed.                                           *)

ArmNames == {"int2_decode", "int2_rows", "relu2_seg", "relu2", "mxfp4", "nvfp4", "fp8"}

\* Where a grouped call is on the list, what is known of the batch.
Suits(arm) ==
  /\ arm \in {"int2_decode", "int2_rows"} => AllFmt(3)
  /\ arm \in {"relu2_seg", "relu2"} <=> arm \notin {"int2_decode", "int2_rows"} /\ job.act = "relu2"
  /\ arm = "mxfp4" => "dsv4_group" \in job.gpu
  /\ arm = "nvfp4" => AllFmt(5) /\ "nvfp4_group" \in job.gpu
  /\ arm = "fp8" => "group" \in job.gpu

\* A grouped call that takes the batch computes the layer's activation.
Right(arm) == arm \in ArmNames /\ (Takes(arm) /\ active # <<>> => KernelAct(arm) \in Activations)

\* The layer's activations are activations, and the model's is one of them.
LEMMA ActivationsAre ==
  ASSUME job \in Jobs
  PROVE  job.act \in Activations /\ Activations \subseteq Acts
<1>1. job.act \in Acts
  BY TokensAre
<1>2. GpuActivation \in Acts
  BY DEF GpuActivation, Acts
<1> QED BY <1>1, <1>2 DEF Activations

\* A situ model's experts may be offered to the grouped call of their format.
LEMMA Offered ==
  ASSUME job.act = "situ", GpuOn, NEW e \in Experts, NEW s \in GroupSwitches,
         job.fmt[e] = s[1], s[2] \in job.gpu
  PROVE  GpuActivation \in Activations
BY DEF Activations

\* The single-expert call computes the model's activation, on whichever device.
LEMMA FfnAct ==
  ASSUME job \in Jobs
  PROVE  \A e : ffn(e) = {job.act}
<1>1. job.act \in {"silu", "oai", "clamp", "relu2", "situ"}
  BY DispatchAssumption
<1> SUFFICES ASSUME NEW e PROVE ffn(e) = {job.act}
  OBVIOUS
<1>2. CASE job.act = "relu2"
  BY <1>2 DEF ffn
<1>3. CASE job.act = "situ"
  BY <1>3 DEF ffn
<1>4. CASE job.act \in {"silu", "oai", "clamp"}
  <2>1. GpuActivation = job.act
    BY <1>4 DEF GpuActivation
  <2>2. job.act # "relu2" /\ job.act # "situ"
    BY <1>4
  <2> QED BY <2>1, <2>2 DEF ffn
<1> QED BY <1>1, <1>2, <1>3, <1>4

\* Each of the calls on the list.
LEMMA SuitsRight ==
  ASSUME job \in Jobs, Len(active) \in Nat, active # <<>> => Len(active) # 0, DOMAIN active = 1 .. Len(active),
         \A i \in 1 .. Len(active) : active[i] \in EntryT,
         NEW arm \in ArmNames, Suits(arm)
  PROVE  Right(arm)
<1> SUFFICES ASSUME Takes(arm), active # <<>> PROVE KernelAct(arm) \in Activations
  BY DEF Right
<1> DEFINE e == active[1].e
<1>1. /\ job.act \in {"silu", "oai", "clamp", "relu2", "situ"}
      /\ job.act = "relu2" => job.arch = "nemotron"
  BY DispatchAssumption
<1>2. 1 \in DOMAIN active /\ e \in Experts
  <2>1. 1 \in 1 .. Len(active)
    OBVIOUS
  <2>2. active[1] \in EntryT
    BY <2>1
  <2> QED BY <2>1, <2>2 DEF EntryT
<1>3. job.act \in Activations
  BY ActivationsAre
<1>4. CASE arm \in {"relu2_seg", "relu2"}
  BY <1>3, <1>4 DEF Suits, KernelAct
<1>5. ASSUME arm \notin {"relu2_seg", "relu2"}, job.act # "relu2",
             NEW s \in GroupSwitches, GpuOn, job.fmt[e] = s[1], s[2] \in job.gpu
      PROVE  KernelAct(arm) \in Activations
  <2>1. KernelAct(arm) = GpuActivation
    BY <1>5 DEF KernelAct
  <2>2. CASE job.act = "situ"
    BY <1>2, <1>5, <2>1, <2>2, Offered
  <2>3. CASE job.act # "situ"
    <3>1. GpuActivation = job.act
      BY <1>1, <1>5, <2>3 DEF GpuActivation
    <3> QED BY <1>3, <2>1, <3>1
  <2> QED BY <2>2, <2>3
<1>6. CASE arm \in {"int2_decode", "int2_rows"}
  <2>1. GpuOn /\ "int2" \in job.gpu /\ Three(3)
    BY <1>6 DEF Takes, try_expert_group_int2_decode, try_expert_group_int2_rows
  <2>2. job.fmt[e] = 3 /\ GateFmt(e) = 3
    BY <1>2, <2>1 DEF Three
  <2>3. job.act # "relu2"
    BY <1>1, <2>2 DEF GateFmt
  <2> DEFINE s == <<3, "int2">>
  <2>4. s \in GroupSwitches /\ s[1] = 3 /\ s[2] = "int2"
    BY DEF GroupSwitches
  <2> HIDE DEF s
  <2> QED BY <1>5, <1>6, <2>1, <2>2, <2>3, <2>4
<1>7. CASE arm \in {"mxfp4", "nvfp4"}
  <2> DEFINE f == IF arm = "mxfp4" THEN 6 ELSE 5
             s == IF arm = "mxfp4" THEN <<6, "dsv4_group">> ELSE <<5, "nvfp4_group">>
  <2>1. try_expert_group_packed(f)
    BY <1>7 DEF Takes
  <2>2. GpuOn /\ Three(f)
    BY <2>1 DEF try_expert_group_packed, ZeroCopy
  <2>3. job.fmt[e] = f
    BY <1>2, <2>2 DEF Three
  <2>4. s \in GroupSwitches /\ s[1] = f /\ s[2] \in job.gpu
    BY <1>7 DEF GroupSwitches, Suits
  <2>5. job.act # "relu2"
    BY <1>7 DEF Suits
  <2> HIDE DEF f, s
  <2> QED BY <1>5, <1>7, <2>2, <2>3, <2>4, <2>5
<1>8. CASE arm = "fp8"
  <2>1. try_expert_group
    BY <1>8 DEF Takes
  <2>2. GpuOn /\ Three(4)
    BY <2>1 DEF try_expert_group, ZeroCopy
  <2>3. job.fmt[e] = 4
    BY <1>2, <2>2 DEF Three
  <2> DEFINE s == <<4, "group">>
  <2>4. s \in GroupSwitches /\ s[1] = 4 /\ s[2] \in job.gpu
    BY <1>8 DEF GroupSwitches, Suits
  <2>5. job.act # "relu2"
    BY <1>8 DEF Suits
  <2> HIDE DEF s
  <2> QED BY <1>5, <1>8, <2>2, <2>3, <2>4, <2>5
<1> QED BY <1>4, <1>6, <1>7, <1>8 DEF ArmNames

\* Short lists.
LEMMA ShortSeqs ==
  ASSUME NEW S
  PROVE  /\ <<>> \in Seq(S)
         /\ \A a \in S : <<a>> \in Seq(S)
         /\ \A a \in S, b \in S : <<a, b>> \in Seq(S)
OBVIOUS

\* The calls the list starts with.
LEMMA ArmsRight ==
  ASSUME job \in Jobs, Len(active) \in Nat, active # <<>> => Len(active) # 0, DOMAIN active = 1 .. Len(active),
         \A i \in 1 .. Len(active) : active[i] \in EntryT
  PROVE  GroupArms \in Seq({arm \in ArmNames : Right(arm)})
<1> DEFINE S == {arm \in ArmNames : Right(arm)}
           a == IF AllFmt(3) THEN <<"int2_decode", "int2_rows">> ELSE <<>>
           b == IF job.act = "relu2" THEN <<"relu2_seg", "relu2">>
                ELSE IF "dsv4_group" \in job.gpu /\ AllFmt(6) THEN <<"mxfp4">>
                ELSE IF "nvfp4_group" \in job.gpu /\ AllFmt(5) /\ RowsOf(active) \div Len(active) <= Nvfp4RowsMax
                     THEN <<"nvfp4">>
                ELSE IF "group" \in job.gpu THEN <<"fp8">>
                ELSE <<>>
<1>1. \A arm \in ArmNames : Suits(arm) => arm \in S
  BY SuitsRight
<1>2. AllFmt(3) => "int2_decode" \in S /\ "int2_rows" \in S
  <2> HIDE DEF S
  <2>1. AllFmt(3) => Suits("int2_decode") /\ Suits("int2_rows")
    BY DEF Suits
  <2> QED BY <1>1, <2>1 DEF ArmNames
<1>3. job.act = "relu2" => "relu2_seg" \in S /\ "relu2" \in S
  <2> HIDE DEF S
  <2>1. job.act = "relu2" => Suits("relu2_seg") /\ Suits("relu2")
    BY DEF Suits
  <2> QED BY <1>1, <2>1 DEF ArmNames
<1>4. job.act # "relu2" =>
        /\ "dsv4_group" \in job.gpu => "mxfp4" \in S
        /\ "nvfp4_group" \in job.gpu /\ AllFmt(5) => "nvfp4" \in S
        /\ "group" \in job.gpu => "fp8" \in S
  <2> HIDE DEF S
  <2>1. job.act # "relu2" =>
          /\ "dsv4_group" \in job.gpu => Suits("mxfp4")
          /\ "nvfp4_group" \in job.gpu /\ AllFmt(5) => Suits("nvfp4")
          /\ "group" \in job.gpu => Suits("fp8")
    BY DEF Suits
  <2> QED BY <1>1, <2>1 DEF ArmNames
<1>5. GroupArms = a \o b
  BY DEF GroupArms
<1> HIDE DEF S
<1>6. a \in Seq(S)
  BY <1>2, ShortSeqs
<1>7. b \in Seq(S)
  BY <1>3, <1>4, ShortSeqs
<1> HIDE DEF a, b
<1>8. a \o b \in Seq(S)
  BY <1>6, <1>7, ConcatProperties
<1> QED BY <1>5, <1>8 DEF S

-----------------------------------------------------------------------------
(* Routing.                                                                *)

\* Experts and positions are finite sets, and there is an expert 0.
LEMMA ExpertsAre ==
  /\ IsFiniteSet(Experts) /\ Cardinality(Experts) = NumExperts /\ 0 \in Experts /\ Experts \subseteq Nat
  /\ \A k \in Nat : IsFiniteSet(1 .. k)
<1>1. NumExperts \in Nat \ {0} /\ 0 \in Int /\ NumExperts - 1 \in Int /\ 1 \in Int
  BY RoutingAssumption
<1>2. IsFiniteSet(0 .. NumExperts - 1) /\ Cardinality(0 .. NumExperts - 1) = NumExperts
  <2>1. ~(0 > NumExperts - 1) /\ NumExperts - 1 - 0 + 1 = NumExperts
    BY <1>1
  <2> QED BY <1>1, <2>1, FS_Interval
<1>3. \A k \in Nat : IsFiniteSet(1 .. k)
  <2> SUFFICES ASSUME NEW k \in Nat PROVE IsFiniteSet(1 .. k)
    OBVIOUS
  <2>1. k \in Int
    OBVIOUS
  <2> QED BY <1>1, <2>1, FS_Interval
<1> QED BY <1>1, <1>2, <1>3 DEF Experts

\* Sums of natural numbers are natural numbers.
LEMMA SumNat ==
  ASSUME NEW S, IsFiniteSet(S), NEW f \in [S -> Nat]
  PROVE  SumFunction(f) \in Nat
<1>1. DOMAIN f = S /\ \A x \in S : f[x] \in Nat
  OBVIOUS
<1>2. IsSum(f, S, SumFunction(f))
  BY <1>1, FoldIsSum
<1> QED BY <1>2, SumBounds

\* Of two experts the better one, or of equals the lower one, wins.
LEMMA BestIs ==
  ASSUME NEW choice \in [Experts -> Int], NEW e \in Experts, NEW f \in Experts, f # e
  PROVE  BestOf(choice, {e, f}) = f <=> choice[f] > choice[e] \/ (choice[f] = choice[e] /\ f <= e)
<1> DEFINE P(x) == \A y \in {e, f} : choice[x] > choice[y] \/ (choice[x] = choice[y] /\ x <= y)
<1>1. e \in Int /\ f \in Int /\ choice[e] \in Int /\ choice[f] \in Int
  BY ExpertsAre
<1>2. P(f) <=> choice[f] > choice[e] \/ (choice[f] = choice[e] /\ f <= e)
  BY <1>1
<1>3. P(e) <=> choice[e] > choice[f] \/ (choice[e] = choice[f] /\ e <= f)
  BY <1>1
<1>4. (P(e) \/ P(f)) /\ ~(P(e) /\ P(f))
  BY <1>1, <1>2, <1>3
<1>5. BestOf(choice, {e, f}) = CHOOSE x \in {e, f} : P(x)
  BY DEF BestOf
<1> HIDE DEF P
<1>6. (CHOOSE x \in {e, f} : P(x)) \in {e, f} /\ P(CHOOSE x \in {e, f} : P(x))
  BY <1>4
<1> QED BY <1>2, <1>4, <1>5, <1>6

\* g has each element of S at one of k positions.
Numbers(g, k, S) ==
  /\ g \in [1 .. k -> S]
  /\ \A i, j \in 1 .. k : g[i] = g[j] => i = j
  /\ \A x \in S : \E i \in 1 .. k : g[i] = x

\* The k best, each once: they are what Chosen says.
LEMMA GreedyIs ==
  ASSUME NEW choice \in [Experts -> Int], NEW k \in Nat, k <= NumExperts
  PROVE  Numbers(GreedyTopK(choice, k), k, {e \in Experts : Chosen(choice, k, e)})
<1> DEFINE rank(e) == Cardinality({f \in Experts : f # e /\ BestOf(choice, {e, f}) = f})
           better(f, e) == choice[f] > choice[e] \/ (choice[f] = choice[e] /\ f <= e /\ f # e)
           R == {p \in Experts \X Experts : better(p[1], p[2])}
           r == [e \in Experts |-> rank(e)]
<1>1. NumExperts \in Nat \ {0} /\ \A e \in Experts : e \in Int /\ choice[e] \in Int
  BY ExpertsAre, RoutingAssumption
<1>2. \A e, f \in Experts : <<f, e>> \in R <=> better(f, e)
  OBVIOUS
<1>3. Orders(R, Experts)
  <2>1. \A x \in Experts : ~better(x, x)
    BY <1>1
  <2>2. \A x, y, z \in Experts : better(x, y) /\ better(y, z) => better(x, z)
    <3> SUFFICES ASSUME NEW x \in Experts, NEW y \in Experts, NEW z \in Experts,
                        better(x, y), better(y, z)
                 PROVE  better(x, z)
      OBVIOUS
    <3> QED BY <1>1
  <2>3. \A x, y \in Experts : x # y => better(x, y) \/ better(y, x)
    BY <1>1
  <2> HIDE DEF better, R
  <2> QED BY <1>2, <2>1, <2>2, <2>3 DEF Orders
<1>4. ASSUME NEW e \in Experts PROVE rank(e) = Cardinality({f \in Experts : <<f, e>> \in R})
  <2>1. \A f \in Experts : f # e => (BestOf(choice, {e, f}) = f <=> better(f, e))
    BY BestIs
  <2>2. ~better(e, e)
    BY <1>1
  <2> HIDE DEF better, R
  <2>3. \A f \in Experts : (f # e /\ BestOf(choice, {e, f}) = f) <=> <<f, e>> \in R
    BY <1>2, <2>1, <2>2
  <2>4. {f \in Experts : f # e /\ BestOf(choice, {e, f}) = f} = {f \in Experts : <<f, e>> \in R}
    BY <2>3
  <2> QED BY <2>4
<1>5. IsRank(r, R, Experts)
  <2> HIDE DEF rank, R
  <2> QED BY <1>4 DEF IsRank
<1> HIDE DEF R
<1>6. /\ \A i \in 0 .. NumExperts - 1 : \E e \in Experts : r[e] = i
      /\ \A e, f \in Experts : <<e, f>> \in R => r[e] < r[f]
      /\ \A e \in Experts : r[e] \in Nat
  <2> DEFINE n == 0
  <2>1. n \in 0 .. Cardinality(Experts)
    BY <1>1, ExpertsAre
  <2> HIDE DEF n, r
  <2>2. IsFiniteSet(Experts) /\ Cardinality(Experts) = NumExperts
    BY ExpertsAre
  <2>3. /\ Taken(r, Experts)
        /\ \A e, f \in Experts : <<e, f>> \in R => r[e] < r[f]
        /\ \A e \in Experts : r[e] \in Nat
    BY <1>3, <1>5, <2>1, <2>2, RanksDense
  <2> QED BY <2>2, <2>3 DEF Taken
<1> DEFINE g == [i \in 1 .. k |-> CHOOSE e \in Experts : rank(e) = i - 1]
<1>7. g \in [1 .. k -> Experts] /\ \A i \in 1 .. k : r[g[i]] = i - 1
  <2>1. ASSUME NEW i \in 1 .. k PROVE \E e \in Experts : rank(e) = i - 1
    <3>1. i - 1 \in 0 .. NumExperts - 1
      BY <1>1
    <3>2. PICK e \in Experts : r[e] = i - 1
      BY <1>6, <3>1
    <3> QED BY <3>2
  <2>2. \A i \in 1 .. k : g[i] \in Experts /\ rank(g[i]) = i - 1
    <3> HIDE DEF rank
    <3> QED BY <2>1
  <2> HIDE DEF rank, g
  <2>3. g \in [1 .. k -> Experts]
    BY <2>2 DEF g
  <2> QED BY <2>2, <2>3
<1>8. GreedyTopK(choice, k) = Strict(g)
  BY DEF GreedyTopK
<1> HIDE DEF g
<1>9. GreedyTopK(choice, k) = g
  BY <1>7, <1>8, IndexSeq
<1>10. ASSUME NEW e \in Experts PROVE Chosen(choice, k, e) <=> r[e] < k
  <2>1. \A f \in Experts : <<f, e>> \in R <=> choice[f] > choice[e] \/ (choice[f] = choice[e] /\ f < e)
    <3>1. \A f \in Experts : better(f, e) <=> choice[f] > choice[e] \/ (choice[f] = choice[e] /\ f < e)
      BY <1>1
    <3> HIDE DEF better
    <3> QED BY <1>2, <3>1
  <2>2. {f \in Experts : <<f, e>> \in R} = {f \in Experts : choice[f] > choice[e] \/ (choice[f] = choice[e] /\ f < e)}
    BY <2>1
  <2>3. r[e] = Cardinality({f \in Experts : <<f, e>> \in R})
    BY <1>5 DEF IsRank
  <2> QED BY <2>2, <2>3 DEF Chosen
<1>11. ASSUME NEW e \in Experts, NEW f \in Experts, r[e] = r[f] PROVE e = f
  <2>1. ~(r[e] < r[f]) /\ ~(r[f] < r[e])
    BY <1>6, <1>11
  <2> QED BY <1>3, <1>6, <2>1 DEF Orders
<1> HIDE DEF r, g
<1>12. ASSUME NEW i \in 1 .. k, NEW j \in 1 .. k, g[i] = g[j] PROVE i = j
  <2>1. r[g[i]] = i - 1 /\ r[g[j]] = j - 1 /\ i \in Int /\ j \in Int
    BY <1>7
  <2> QED BY <1>12, <2>1
<1>13. ASSUME NEW i \in 1 .. k PROVE Chosen(choice, k, g[i])
  <2>1. g[i] \in Experts /\ r[g[i]] < k
    BY <1>7
  <2> QED BY <1>10, <2>1
<1>14. ASSUME NEW e \in Experts, Chosen(choice, k, e) PROVE \E i \in 1 .. k : g[i] = e
  <2>1. r[e] \in Nat /\ r[e] < k
    BY <1>6, <1>10, <1>14
  <2>2. r[e] + 1 \in 1 .. k /\ (r[e] + 1) - 1 = r[e]
    BY <2>1
  <2>3. g[r[e] + 1] \in Experts /\ r[g[r[e] + 1]] = r[e]
    BY <1>7, <2>2
  <2> QED BY <1>11, <2>2, <2>3
<1> DEFINE best == {e \in Experts : Chosen(choice, k, e)}
<1>15. g \in [1 .. k -> best]
  BY <1>7, <1>13
<1>16. \A e \in best : \E i \in 1 .. k : g[i] = e
  BY <1>14
<1> HIDE DEF best
<1>17. Numbers(g, k, best)
  BY <1>12, <1>15, <1>16 DEF Numbers
<1> QED BY <1>9, <1>17 DEF best

\* The k best are k experts.
LEMMA GreedyType ==
  ASSUME NEW choice \in [Experts -> Int], NEW k \in Nat, k <= NumExperts
  PROVE  GreedyTopK(choice, k) \in [1 .. k -> Experts]
<1> DEFINE best == {e \in Experts : Chosen(choice, k, e)}
<1>1. \A e \in best : e \in Experts
  OBVIOUS
<1>2. Numbers(GreedyTopK(choice, k), k, best)
  BY GreedyIs
<1> HIDE DEF best
<1> QED BY <1>1, <1>2 DEF Numbers

\* Normalised weights are weights.
LEMMA NormaliseType ==
  ASSUME NEW k \in Nat, NEW w \in [1 .. k -> Nat]
  PROVE  Normalise(w) \in [1 .. k -> Nat]
<1> DEFINE sum == SumFunction(w)
           g == [i \in 1 .. k |-> IF sum = 0 THEN 0 ELSE (w[i] * Unit) \div sum]
<1>1. sum \in Nat
  BY ExpertsAre, SumNat
<1>2. Normalise(w) = Strict(g)
  BY DEF Normalise
<1> HIDE DEF sum
<1>3. ASSUME NEW i \in 1 .. k PROVE (IF sum = 0 THEN 0 ELSE (w[i] * Unit) \div sum) \in Nat
  <2>1. w[i] * Unit \in Nat
    BY RoutingAssumption
  <2> QED BY <1>1, <2>1, DivMod
<1>4. g \in [1 .. k -> Nat]
  BY <1>3
<1> HIDE DEF g
<1> QED BY <1>2, <1>4, IndexSeq

\* A token's k slots.
RowOK(row, k) == row.idx \in [1 .. k -> Experts] /\ row.w \in [1 .. k -> Nat]

\* An expert and a weight.
PairT == Experts \X Nat

\* The slots of a router with score and bias rows of the model.
LEMMA RouteType ==
  ASSUME NEW kind, NEW norm, NEW score \in [Experts -> Nat], NEW bias \in [Experts -> Int],
         NEW topk \in Nat \ {0}, kind = "softmax" => SumFunction(score) # 0
  PROVE  RowOK(route(kind, norm, score, bias, topk), Smaller(topk, NumExperts))
<1> DEFINE k == Smaller(topk, NumExperts)
           soft == [e \in Experts |-> (score[e] * Unit) \div SumFunction(score)]
           p == IF kind = "softmax" THEN soft ELSE score
           moved == [e \in Experts |-> p[e] + bias[e]]
           choice == IF kind = "softmax" THEN p ELSE moved
           idx == GreedyTopK(choice, k)
           g == [i \in 1 .. k |-> p[idx[i]]]
           w == Strict(g)
<1>1. k \in Nat /\ k <= NumExperts
  BY RoutingAssumption DEF Smaller
<1>2. SumFunction(score) \in Nat
  BY ExpertsAre, SumNat
<1>3. kind = "softmax" => soft \in [Experts -> Nat]
  <2> SUFFICES ASSUME kind = "softmax", NEW e \in Experts
               PROVE  (score[e] * Unit) \div SumFunction(score) \in Nat
    OBVIOUS
  <2>1. score[e] * Unit \in Nat
    BY RoutingAssumption
  <2>2. SumFunction(score) \in Nat \ {0}
    BY <1>2
  <2> QED BY <2>1, <2>2, DivMod
<1> HIDE DEF k, soft
<1>4. p \in [Experts -> Nat]
  BY <1>3
<1> HIDE DEF p
<1>5. moved \in [Experts -> Int]
  <2>1. \A e \in Experts : p[e] + bias[e] \in Int
    BY <1>4
  <2> QED BY <2>1
<1> HIDE DEF moved
<1>6. choice \in [Experts -> Int]
  <2>1. p \in [Experts -> Int]
    <3>1. DOMAIN p = Experts /\ \A e \in Experts : p[e] \in Int
      BY <1>4
    <3> QED BY <1>4, <3>1
  <2> QED BY <1>5, <2>1
<1> HIDE DEF choice
<1>7. idx \in [1 .. k -> Experts]
  BY <1>1, <1>6, GreedyType
<1> HIDE DEF idx
<1>8. g \in [1 .. k -> Nat]
  <2>1. \A i \in 1 .. k : p[idx[i]] \in Nat
    BY <1>4, <1>7
  <2> QED BY <2>1
<1> HIDE DEF g
<1>9. w \in [1 .. k -> Nat]
  BY <1>1, <1>8, IndexSeq
<1> HIDE DEF w
<1>10. Normalise(w) \in [1 .. k -> Nat]
  BY <1>1, <1>9, NormaliseType
<1>11. route(kind, norm, score, bias, topk) = [idx |-> idx, w |-> IF norm THEN Normalise(w) ELSE w]
  BY DEF route, k, soft, p, moved, choice, idx, g, w
<1>12. /\ route(kind, norm, score, bias, topk).idx = idx
       /\ route(kind, norm, score, bias, topk).w = IF norm THEN Normalise(w) ELSE w
  BY <1>11
<1> QED BY <1>7, <1>9, <1>10, <1>12 DEF RowOK, k

\* Pairs handed out in the order of their experts are pairs.
LEMMA ByIdType ==
  ASSUME NEW pairs, \A p \in pairs : p \in PairT
  PROVE  \E n \in Nat : ById(pairs) \in [1 .. n -> PairT] /\ Len(ById(pairs)) = n
<1> DEFINE E == {p[1] : p \in pairs}
           last == NumExperts - 1
           es == Ascending(last, E)
           n == Len(es)
           g == [i \in 1 .. n |-> CHOOSE p \in pairs : p[1] = es[i]]
<1>1. last \in Nat
  BY RoutingAssumption
<1>2. Lists(es, E \cap 0 .. last)
  <2> HIDE DEF last, E
  <2> QED BY <1>1, AscendingLists
<1>3. n \in Nat /\ DOMAIN es = 1 .. n /\ \A i \in 1 .. n : es[i] \in E
  <2> HIDE DEF last, E, es
  <2> QED BY <1>2 DEF Lists
<1> HIDE DEF es, n
<1>4. g \in [1 .. n -> PairT]
  <2>1. ASSUME NEW i \in 1 .. n PROVE (CHOOSE p \in pairs : p[1] = es[i]) \in PairT
    <3>1. PICK p \in pairs : p[1] = es[i]
      BY <1>3
    <3>2. (CHOOSE q \in pairs : q[1] = es[i]) \in pairs
      BY <3>1
    <3> QED BY <3>2
  <2> HIDE DEF E
  <2> QED BY <2>1
<1>5. ById(pairs) = Strict(g)
  BY <1>3 DEF ById, es
<1> HIDE DEF g
<1>6. Strict(g) \in [1 .. n -> PairT] /\ Len(Strict(g)) = n
  BY <1>3, <1>4, IndexSeq
<1> QED BY <1>3, <1>5, <1>6

\* V4's fixed-stride rows.
LEMMA StridedType ==
  ASSUME NEW n \in Nat, NEW picked \in [1 .. n -> PairT], Len(picked) = n, NEW k \in Nat
  PROVE  RowOK(Strided(picked, k), k)
<1> DEFINE a == [j \in 1 .. k |-> IF j <= Len(picked) THEN picked[j][1]
                                  ELSE IF picked = <<>> THEN 0 ELSE picked[1][1]]
           b == [j \in 1 .. k |-> IF j <= Len(picked) THEN picked[j][2] ELSE 0]
<1>1. \A j \in 1 .. n : picked[j][1] \in Experts /\ picked[j][2] \in Nat
  BY DEF PairT
<1>2. picked # <<>> => 1 \in 1 .. n
  <2>1. n = 0 => picked = <<>>
    <3> SUFFICES ASSUME n = 0 PROVE picked = <<>>
      OBVIOUS
    <3>1. picked \in Seq(PairT)
      BY IndexSeq
    <3> QED BY <3>1, EmptySeq
  <2> QED BY <2>1
<1>3. a \in [1 .. k -> Experts]
  <2>1. ASSUME NEW j \in 1 .. k
        PROVE  (IF j <= Len(picked) THEN picked[j][1] ELSE IF picked = <<>> THEN 0 ELSE picked[1][1]) \in Experts
    <3>1. j <= Len(picked) => j \in 1 .. n
      OBVIOUS
    <3> QED BY <1>1, <1>2, <3>1, ExpertsAre
  <2> QED BY <2>1
<1>4. b \in [1 .. k -> Nat]
  <2>1. ASSUME NEW j \in 1 .. k PROVE (IF j <= Len(picked) THEN picked[j][2] ELSE 0) \in Nat
    <3>1. j <= Len(picked) => j \in 1 .. n
      OBVIOUS
    <3> QED BY <1>1, <3>1
  <2> QED BY <2>1
<1>5. Strided(picked, k) = [idx |-> Strict(a), w |-> Strict(b)]
  BY DEF Strided
<1> HIDE DEF a, b
<1>6. Strict(a) \in [1 .. k -> Experts] /\ Strict(b) \in [1 .. k -> Nat]
  BY <1>3, <1>4, IndexSeq
<1>7. Strided(picked, k).idx = Strict(a) /\ Strided(picked, k).w = Strict(b)
  BY <1>5
<1> QED BY <1>6, <1>7 DEF RowOK

\* The slots of a V4 layer without a hash table.
LEMMA TopKType ==
  ASSUME NEW score \in [Experts -> Nat], NEW bias \in [Experts -> Int],
         NEW k \in Nat \ {0}, k <= NumExperts
  PROVE  \E n \in Nat : route_topk(score, bias, k) \in [1 .. n -> PairT] /\ Len(route_topk(score, bias, k)) = n
<1> DEFINE choice == [e \in Experts |-> score[e] + bias[e]]
           order == GreedyTopK(choice, k)
           g == [i \in 1 .. k |-> score[order[i]]]
           w == Normalise(g)
           pairs == {<<order[i], w[i]>> : i \in 1 .. k}
<1>1. Smaller(k, NumExperts) = k
  BY RoutingAssumption DEF Smaller
<1>2. choice \in [Experts -> Int]
  <2>1. \A e \in Experts : score[e] + bias[e] \in Int
    OBVIOUS
  <2> QED BY <2>1
<1> HIDE DEF choice
<1>3. order \in [1 .. k -> Experts]
  BY <1>2, GreedyType
<1> HIDE DEF order
<1>4. g \in [1 .. k -> Nat]
  <2>1. \A i \in 1 .. k : score[order[i]] \in Nat
    BY <1>3
  <2> QED BY <2>1
<1> HIDE DEF g
<1>5. w \in [1 .. k -> Nat]
  BY <1>4, NormaliseType
<1> HIDE DEF w
<1>6. \A p \in pairs : p \in PairT
  BY <1>3, <1>5 DEF PairT
<1>7. route_topk(score, bias, k) = ById(pairs)
  BY <1>1 DEF route_topk, choice, order, g, w
<1> HIDE DEF pairs
<1> QED BY <1>6, <1>7, ByIdType

\* The entries of a table row that name an expert.
LEMMA ValidType ==
  ASSUME NEW eids \in Seq(Nat)
  PROVE  \E m \in Nat : Valid(eids) \in [1 .. m -> Experts]
<1> DEFINE I == {i \in 1 .. Len(eids) : eids[i] < NumExperts}
           at == Ascending(Len(eids), I)
           m == Len(at)
           g == [j \in 1 .. m |-> eids[at[j]]]
<1>1. Len(eids) \in Nat /\ DOMAIN eids = 1 .. Len(eids) /\ \A i \in 1 .. Len(eids) : eids[i] \in Nat
  OBVIOUS
<1>2. \A i \in I : i \in 1 .. Len(eids) /\ eids[i] \in Experts
  BY <1>1, RoutingAssumption DEF Experts
<1>3. m \in Nat /\ DOMAIN at = 1 .. m /\ \A j \in 1 .. m : at[j] \in I
  <2> HIDE DEF I
  <2> QED BY <1>1, <1>2, AscendingPositions
<1>4. Valid(eids) = Strict([j \in DOMAIN at |-> eids[at[j]]])
  BY <1>1 DEF Valid
<1>5. g \in [1 .. m -> Experts]
  <2>1. \A j \in 1 .. m : eids[at[j]] \in Experts
    BY <1>2, <1>3
  <2> HIDE DEF at
  <2> QED BY <2>1
<1>6. Valid(eids) = Strict(g)
  BY <1>3, <1>4
<1> HIDE DEF g, at
<1>7. Strict(g) \in [1 .. m -> Experts]
  BY <1>3, <1>5, IndexSeq
<1> QED BY <1>3, <1>6, <1>7

\* The pairs of a hash layer.
LEMMA HashType ==
  ASSUME NEW score \in [Experts -> Nat], NEW eids \in Seq(Nat)
  PROVE  \E n \in Nat : route_hash(score, eids) \in [1 .. n -> PairT] /\ Len(route_hash(score, eids)) = n
<1> DEFINE valid == Valid(eids)
           scores == [i \in DOMAIN valid |-> score[valid[i]]]
           part(e) == [i \in DOMAIN valid |-> IF valid[i] = e THEN scores[i] ELSE 0]
           merged(e) == SumFunction(part(e))
           sum == SumFunction(scores)
           pairs == {<<e, IF sum = 0 THEN 0 ELSE (merged(e) * Unit) \div sum>> : e \in ToSet(valid)}
<1>1. PICK m \in Nat : valid \in [1 .. m -> Experts]
  BY ValidType
<1>2. DOMAIN valid = 1 .. m /\ ToSet(valid) \subseteq Experts
  BY <1>1 DEF ToSet
<1> HIDE DEF valid
<1>3. scores \in [1 .. m -> Nat]
  <2>1. \A i \in 1 .. m : score[valid[i]] \in Nat
    BY <1>1
  <2> QED BY <1>2, <2>1
<1> HIDE DEF scores
<1>4. \A e : part(e) \in [1 .. m -> Nat]
  <2> SUFFICES ASSUME NEW e PROVE part(e) \in [1 .. m -> Nat]
    OBVIOUS
  <2>1. \A i \in 1 .. m : (IF valid[i] = e THEN scores[i] ELSE 0) \in Nat
    BY <1>3
  <2> QED BY <1>2, <2>1
<1> HIDE DEF part
<1>5. sum \in Nat /\ \A e : merged(e) \in Nat
  <2>1. IsFiniteSet(1 .. m)
    BY ExpertsAre
  <2>2. \A e : SumFunction(part(e)) \in Nat
    BY <1>4, <2>1, SumNat
  <2> QED BY <1>3, <2>1, <2>2, SumNat
<1> HIDE DEF merged, sum
<1>6. \A e : (IF sum = 0 THEN 0 ELSE (merged(e) * Unit) \div sum) \in Nat
  <2> SUFFICES ASSUME NEW e, sum # 0 PROVE (merged(e) * Unit) \div sum \in Nat
    OBVIOUS
  <2>1. merged(e) * Unit \in Nat
    BY <1>5, RoutingAssumption
  <2> QED BY <1>5, <2>1, DivMod
<1>7. \A p \in pairs : p \in PairT
  BY <1>2, <1>6 DEF PairT
<1>8. route_hash(score, eids) = ById(pairs)
  BY DEF route_hash, valid, scores, part, merged, sum
<1> HIDE DEF pairs
<1> QED BY <1>7, <1>8, ByIdType

\* The slots of a token.
LEMMA RowType ==
  ASSUME job \in Jobs, NEW t \in Tokens
  PROVE  RowOK(RowOf(t), Smaller(TopK, NumExperts))
<1> DEFINE k == Smaller(TopK, NumExperts)
<1>1. TopK \in Nat \ {0} /\ k \in Nat \ {0} /\ k <= NumExperts
  BY RoutingAssumption, DispatchAssumption DEF Smaller
<1>2. /\ job.score \in Seq([Experts -> Nat]) /\ job.bias \in [Experts -> Int]
      /\ job.table \in Seq(Seq(Nat)) /\ (job.table # <<>> => Len(job.table) = Len(job.score))
      /\ (job.arch = "dsv4" => job.kind # "softmax")
      /\ (job.kind = "softmax" => SumFunction(job.score[t]) # 0)
  BY DispatchAssumption DEF Tokens
<1>3. t \in 1 .. Len(job.score) /\ Len(job.score) \in Nat
  BY TokensAre
<1>4. job.score[t] \in [Experts -> Nat]
  <2> DEFINE X == [Experts -> Nat]
  <2>1. job.score \in Seq(X)
    BY <1>2
  <2> HIDE DEF X
  <2>2. job.score[t] \in X
    BY <1>3, <2>1, ElementOfSeq
  <2> QED BY <2>2 DEF X
<1>5. CASE job.arch # "dsv4"
  <2>1. RowOf(t) = route(job.kind, job.norm, job.score[t], job.bias, TopK)
    BY <1>5 DEF RowOf
  <2> QED BY <1>1, <1>2, <1>4, <2>1, RouteType
<1>6. CASE job.arch = "dsv4" /\ job.table # <<>>
  <2>1. RowOf(t) = Strided(route_hash(job.score[t], job.table[t]), k)
    BY <1>6 DEF RowOf
  <2>2. job.table[t] \in Seq(Nat)
    <3> DEFINE X == Seq(Nat)
    <3>1. job.table \in Seq(X) /\ t \in 1 .. Len(job.table)
      BY <1>2, <1>3, <1>6
    <3> HIDE DEF X
    <3>2. job.table[t] \in X
      BY <3>1, ElementOfSeq
    <3> QED BY <3>2 DEF X
  <2> DEFINE picked == route_hash(job.score[t], job.table[t])
  <2>3. PICK n \in Nat : picked \in [1 .. n -> PairT] /\ Len(picked) = n
    BY <1>4, <2>2, HashType
  <2> HIDE DEF picked, k
  <2>4. RowOK(Strided(picked, k), k)
    BY <1>1, <2>3, StridedType
  <2> QED BY <2>1, <2>4 DEF picked, k
<1>7. CASE job.arch = "dsv4" /\ job.table = <<>>
  <2>1. RowOf(t) = Strided(route_topk(job.score[t], job.bias, k), k)
    BY <1>7 DEF RowOf
  <2> HIDE DEF k
  <2> DEFINE picked == route_topk(job.score[t], job.bias, k)
  <2>2. PICK n \in Nat : picked \in [1 .. n -> PairT] /\ Len(picked) = n
    BY <1>1, <1>2, <1>4, TopKType
  <2> HIDE DEF picked
  <2>3. RowOK(Strided(picked, k), k)
    BY <1>1, <2>2, StridedType
  <2> QED BY <2>1, <2>3 DEF picked, k
<1> QED BY <1>5, <1>6, <1>7

\* A position in L rows of k slots laid end to end is a slot of a row.
LEMMA SlotOf ==
  ASSUME NEW L \in Nat, NEW k \in Nat \ {0}, NEW p \in 1 .. L * k
  PROVE  ((p - 1) \div k) + 1 \in 1 .. L /\ ((p - 1) % k) + 1 \in 1 .. k
<1> DEFINE a == p - 1
           q == a \div k
           r == a % k
<1>1. L * k \in Nat
  OBVIOUS
<1>2. a \in Nat /\ a < L * k
  BY <1>1
<1>3. q \in Nat /\ r \in Nat /\ r < k /\ a = q * k + r
  BY <1>2, DivMod
<1> HIDE DEF a, q, r
<1>4. q < L
  <2> SUFFICES ASSUME L <= q PROVE FALSE
    BY <1>3
  <2>1. PICK d \in Nat : q = L + d
    <3>1. q - L \in Nat /\ q = L + (q - L)
      BY <1>3
    <3> QED BY <3>1
  <2>2. q * k = L * k + d * k /\ d * k \in Nat
    BY <2>1
  <2> QED BY <1>1, <1>2, <1>3, <2>2
<1> QED BY <1>3, <1>4 DEF a, q, r

\* A bounded set of numbers has a largest one.
LEMMA Largest ==
  ASSUME NEW K \in Nat, NEW S, \A j \in S : j \in 1 .. K, S # {}
  PROVE  \E j \in S : \A i \in S : i <= j
<1> DEFINE P == {n \in Nat : \A j \in S : j <= n}
<1>1. P \subseteq Nat /\ K \in P
  OBVIOUS
<1> HIDE DEF P
<1>2. PICK n \in P : \A i \in P : <<i, n>> \notin OpToRel(<, Nat)
  BY <1>1, NatLessThanWellFounded, WFMin
<1> USE DEF P
<1>3. n \in S
  <2> SUFFICES ASSUME n \notin S PROVE FALSE
    OBVIOUS
  <2>1. PICK x \in S : x \in 1 .. K
    OBVIOUS
  <2>2. n \in Nat /\ \A j \in S : j \in Int /\ j <= n - 1
    <3>1. n \in Nat /\ \A j \in S : j \in Int /\ j <= n /\ j # n
      <4>1. n \in Nat /\ \A j \in S : j <= n
        BY <1>2, Zenon
      <4> QED BY <4>1
    <3> QED BY <3>1
  <2>3. n - 1 \in P
    BY <2>1, <2>2
  <2>4. <<n - 1, n>> \in OpToRel(<, Nat)
    BY <2>2, <2>3 DEF OpToRel
  <2> QED BY <1>2, <2>3, <2>4
<1> QED BY <1>2, <1>3

\* A set of numbers has a least one.
LEMMA Least ==
  ASSUME NEW S, S \subseteq Nat, S # {}
  PROVE  \E j \in S : \A i \in S : j <= i
<1>1. PICK n \in S : \A i \in S : <<i, n>> \notin OpToRel(<, Nat)
  BY NatLessThanWellFounded, WFMin
<1>2. ASSUME NEW i \in S, i < n PROVE FALSE
  <2>1. i \in Nat /\ n \in Nat
    BY <1>1, Zenon
  <2>2. <<i, n>> \in OpToRel(<, Nat)
    BY <1>2, <2>1 DEF OpToRel
  <2> QED BY <1>1, <2>2, Zenon
<1>3. n \in Nat /\ \A i \in S : i \in Nat /\ ~(i < n)
  BY <1>1, <1>2, Zenon
<1> HIDE <1>1
<1>4. \A i \in S : n <= i
  BY <1>3
<1>5. n \in S
  BY <1>1, Zenon
<1> QED BY <1>4, <1>5

\* Position p of rows of k slots laid end to end is slot j of row t.
IsSlot(p, k, t, j) == ((p - 1) \div k) + 1 = t /\ ((p - 1) % k) + 1 = j

\* Slot j of row t has a position in L rows of k slots laid end to end.
LEMMA PositionOf ==
  ASSUME NEW L \in Nat, NEW k \in Nat \ {0}, NEW t \in 1 .. L, NEW j \in 1 .. k
  PROVE  \E p \in 1 .. L * k : IsSlot(p, k, t, j)
<1> DEFINE d == t - 1
           a == d * k + (j - 1)
           q == a \div k
           r == a % k
<1>1. d \in Nat /\ d + 1 = t /\ j - 1 \in Nat /\ j - 1 < k /\ k \in Nat /\ d * k \in Nat /\ L * k \in Nat
  OBVIOUS
<1>2. a \in Nat
  BY <1>1
<1>3. q \in Nat /\ r \in Nat /\ r < k /\ a = q * k + r
  BY <1>2, DivMod
<1>4. a = d * k + (j - 1)
  OBVIOUS
<1> HIDE DEF a, q, r, d
<1>5. q = d
  <2>1. ASSUME q < d PROVE FALSE
    <3>1. PICK x \in Nat : d = q + 1 + x
      <4>1. d - q - 1 \in Nat /\ d = q + 1 + (d - q - 1)
        BY <1>1, <1>3, <2>1
      <4> QED BY <4>1
    <3>2. d * k = q * k + k + x * k /\ x * k \in Nat /\ q * k \in Nat
      BY <1>1, <1>3, <3>1
    <3> QED BY <1>1, <1>3, <1>4, <3>2
  <2>2. ASSUME d < q PROVE FALSE
    <3>1. PICK x \in Nat : q = d + 1 + x
      <4>1. q - d - 1 \in Nat /\ q = d + 1 + (q - d - 1)
        BY <1>1, <1>3, <2>2
      <4> QED BY <4>1
    <3>2. q * k = d * k + k + x * k /\ x * k \in Nat
      BY <1>1, <1>3, <3>1
    <3> QED BY <1>1, <1>3, <1>4, <3>2
  <2> QED BY <1>1, <1>3, <2>1, <2>2
<1>6. r = j - 1
  BY <1>1, <1>3, <1>4, <1>5
<1>7. a + 1 \in 1 .. L * k
  <2>1. PICK x \in Nat : L = d + 1 + x
    <3>1. L - d - 1 \in Nat /\ L = d + 1 + (L - d - 1)
      BY <1>1
    <3> QED BY <3>1
  <2>2. L * k = d * k + k + x * k /\ x * k \in Nat
    BY <1>1, <2>1
  <2> QED BY <1>1, <1>2, <1>4, <2>2
<1>8. (a + 1) - 1 = a
  BY <1>2
<1>9. q + 1 = t /\ r + 1 = j
  BY <1>1, <1>5, <1>6
<1> DEFINE p == a + 1
<1>10. p - 1 = a /\ p \in 1 .. L * k
  BY <1>7, <1>8
<1> HIDE DEF p
<1>11. IsSlot(p, k, t, j)
  BY <1>9, <1>10 DEF q, r, IsSlot
<1> QED BY <1>10, <1>11

\* The weight of a row's last slot for an expert, and 0 without one.
WeighsAs(row, k, e, w) ==
  LET S == {j \in 1 .. k : row.idx[j] = e}
  IN  \/ S = {} /\ w = 0
      \/ \E j \in S : (\A i \in S : i <= j) /\ w = row.w[j]

\* The union lists every expert of a row once, with that weight.
UnionOK(r) ==
  /\ \A i, j \in 1 .. Len(r.uniq) : r.uniq[i] = r.uniq[j] => i = j
  /\ \A t \in Tokens : \A j \in 1 .. Smaller(TopK, NumExperts) :
       \E i \in 1 .. Len(r.uniq) : r.uniq[i] = RowOf(t).idx[j]
  /\ \A t \in Tokens : \A i \in 1 .. Len(r.uniq) :
       WeighsAs(RowOf(t), Smaller(TopK, NumExperts), r.uniq[i], r.w_mat[t][i])

\* What the union of the rows lists, and what it has for every token.
LEMMA UnionIs ==
  ASSUME job \in Jobs
  PROVE  LET r == union_and_weights(Strict([t \in Tokens |-> RowOf(t)]))
         IN  RoutedOK(r) /\ UnionOK(r)
<1> DEFINE L == Len(job.score)
           K == Smaller(TopK, NumExperts)
           f == [t \in Tokens |-> RowOf(t)]
           rows == Strict(f)
           k == Len(rows[1].idx)
           slot(p) == rows[((p - 1) \div k) + 1].idx[((p - 1) % k) + 1]
           idx0 == [p \in 1 .. Len(rows) * k |-> slot(p)]
           idxs == Strict(idx0)
           firsts == {p \in DOMAIN idxs : \A q \in 1 .. p - 1 : idxs[q] # idxs[p]}
           order == Ascending(Len(idxs), firsts)
           uniq0 == [ui \in DOMAIN order |-> idxs[order[ui]]]
           uniq == Strict(uniq0)
           slots(t, e) == {j \in 1 .. k : rows[t].idx[j] = e}
           last(S) == CHOOSE j \in S : \A i \in S : i <= j
           w(t, ui) == IF slots(t, uniq[ui]) = {} THEN 0 ELSE rows[t].w[last(slots(t, uniq[ui]))]
           wrow(t) == [ui \in DOMAIN uniq |-> w(t, ui)]
           wmat == [t \in DOMAIN rows |-> Strict(wrow(t))]
           u == union_and_weights(rows)
<1>1. u.uniq = uniq /\ u.w_mat = Strict(wmat)
  BY DEF union_and_weights
<1>2. L \in Nat \ {0} /\ Tokens = 1 .. L /\ 1 \in Tokens
  BY TokensAre
<1>3. K \in Nat \ {0}
  BY RoutingAssumption, DispatchAssumption DEF Smaller
<1>4. \A t \in Tokens : RowOK(RowOf(t), K)
  BY RowType
<1> HIDE DEF L, K
<1>5. Len(rows) = L /\ DOMAIN rows = 1 .. L /\ \A t \in Tokens : rows[t] = RowOf(t)
  <2> DEFINE R == {RowOf(t) : t \in Tokens}
  <2>1. f \in [1 .. L -> R]
    BY <1>2
  <2>2. \A t \in Tokens : f[t] = RowOf(t)
    OBVIOUS
  <2> HIDE DEF f, R
  <2>3. Len(f) = L /\ Strict(f) = f
    BY <1>2, <2>1, IndexSeq
  <2> QED BY <1>2, <2>1, <2>2, <2>3
<1>6. \A t \in Tokens : rows[t].idx \in [1 .. K -> Experts] /\ rows[t].w \in [1 .. K -> Nat]
  <2> HIDE DEF rows
  <2> QED BY <1>4, <1>5 DEF RowOK
<1> HIDE DEF rows
<1>7. k = K
  <2>1. rows[1].idx \in [1 .. K -> Experts]
    BY <1>2, <1>6
  <2> QED BY <1>3, <2>1, IndexSeq
<1> HIDE DEF k
<1>8. \A p \in 1 .. L * K : slot(p) \in Experts
  <2> SUFFICES ASSUME NEW p \in 1 .. L * K PROVE slot(p) \in Experts
    OBVIOUS
  <2> DEFINE a == ((p - 1) \div K) + 1
             b == ((p - 1) % K) + 1
  <2>1. a \in 1 .. L /\ b \in 1 .. K
    BY <1>2, <1>3, SlotOf
  <2>2. slot(p) = rows[a].idx[b]
    BY <1>7
  <2> HIDE DEF a, b, slot
  <2>3. rows[a].idx \in [1 .. K -> Experts]
    BY <1>2, <1>6, <2>1
  <2> QED BY <2>1, <2>2, <2>3
<1> DEFINE M == L * K
<1>22. ASSUME NEW t \in Tokens, NEW j \in 1 .. K PROVE \E p \in 1 .. M : slot(p) = rows[t].idx[j]
  <2>1. PICK p \in 1 .. M : IsSlot(p, K, t, j)
    <3>1. t \in 1 .. L /\ L \in Nat /\ K \in Nat \ {0} /\ j \in 1 .. K
      BY <1>2, <1>3
    <3> QED BY <3>1, PositionOf
  <2>2. slot(p) = rows[t].idx[j]
    BY <1>7, <2>1 DEF IsSlot
  <2> HIDE DEF slot
  <2> QED BY <2>2
<1> HIDE DEF slot
<1>9. M \in Nat
  BY <1>2, <1>3
<1>10. idx0 \in [1 .. M -> Experts]
  BY <1>5, <1>7, <1>8
<1>23. \A p \in 1 .. M : idx0[p] = slot(p)
  BY <1>5, <1>7
<1> HIDE DEF idx0, M
<1>11. idxs \in [1 .. M -> Experts] /\ Len(idxs) = M /\ idxs = idx0
  BY <1>9, <1>10, IndexSeq
<1> HIDE DEF idxs
<1>12. \A p \in firsts : p \in 1 .. M
  BY <1>11
<1>24. ASSUME NEW p \in 1 .. M PROVE \E q \in firsts : idxs[q] = idxs[p]
  <2> DEFINE S == {q \in 1 .. M : idxs[q] = idxs[p]}
  <2>1. S \subseteq Nat /\ S # {}
    BY <1>9
  <2>2. \A q : q \in S <=> q \in 1 .. M /\ idxs[q] = idxs[p]
    OBVIOUS
  <2> HIDE DEF S
  <2>3. PICK q \in S : \A i \in S : q <= i
    BY <2>1, Least
  <2>4. q \in DOMAIN idxs /\ q \in 1 .. M /\ idxs[q] = idxs[p]
    BY <1>11, <2>2, <2>3
  <2>5. ASSUME NEW i \in 1 .. q - 1 PROVE idxs[i] # idxs[q]
    <3>1. i \in 1 .. M /\ ~(q <= i)
      BY <1>9, <2>4
    <3> QED BY <2>2, <2>3, <2>4, <3>1
  <2> QED BY <2>4, <2>5
<1>25. ASSUME NEW p \in firsts, NEW q \in firsts, p < q PROVE idxs[p] # idxs[q]
  <2>1. p \in 1 .. M /\ q \in 1 .. M
    BY <1>12
  <2>2. p \in 1 .. q - 1
    BY <1>9, <1>25, <2>1
  <2> QED BY <2>2
<1> HIDE DEF firsts
<1>26. Lists(order, firsts)
  BY <1>9, <1>11, <1>12, AscendingPositions
<1>13. Len(order) \in Nat /\ DOMAIN order = 1 .. Len(order) /\ \A i \in 1 .. Len(order) : order[i] \in 1 .. M
  BY <1>9, <1>11, <1>12, AscendingPositions
<1> HIDE DEF order
<1> DEFINE m == Len(order)
<1>14. uniq0 \in [1 .. m -> Experts]
  <2>1. \A i \in 1 .. m : idxs[order[i]] \in Experts
    BY <1>11, <1>13
  <2> QED BY <1>13, <2>1
<1>27. \A i \in 1 .. m : uniq0[i] = idxs[order[i]]
  BY <1>13
<1> HIDE DEF uniq0, m
<1>15. m \in Nat
  BY <1>13 DEF m
<1>16. uniq \in [1 .. m -> Experts] /\ Len(uniq) = m /\ DOMAIN uniq = 1 .. m /\ uniq = uniq0
  BY <1>14, <1>15, IndexSeq
<1> HIDE DEF uniq
<1>28. ASSUME NEW i \in 1 .. m, NEW j \in 1 .. m, uniq[i] = uniq[j] PROVE i = j
  <2>1. idxs[order[i]] = idxs[order[j]] /\ i \in Int /\ j \in Int
    BY <1>15, <1>16, <1>27, <1>28
  <2>2. order[i] \in firsts /\ order[j] \in firsts /\ (i < j => order[i] < order[j]) /\ (j < i => order[j] < order[i])
    BY <1>26 DEF Lists, Rises, m
  <2>3. ~(i < j) /\ ~(j < i)
    BY <1>25, <2>1, <2>2
  <2> QED BY <2>1, <2>3
<1>29. ASSUME NEW t \in Tokens, NEW j \in 1 .. K PROVE \E i \in 1 .. m : uniq[i] = rows[t].idx[j]
  <2>1. PICK p \in 1 .. M : slot(p) = rows[t].idx[j]
    BY <1>22
  <2>2. PICK q \in firsts : idxs[q] = idxs[p]
    BY <1>24
  <2>3. PICK i \in 1 .. Len(order) : order[i] = q
    BY <1>26 DEF Lists, Within
  <2>4. uniq[i] = rows[t].idx[j] /\ i \in 1 .. m
    BY <1>11, <1>16, <1>23, <1>27, <2>1, <2>2, <2>3 DEF m
  <2> QED BY <2>4
<1>17. ASSUME NEW t \in Tokens, NEW ui \in 1 .. m
       PROVE  w(t, ui) \in Nat /\ WeighsAs(rows[t], K, uniq[ui], w(t, ui))
  <2> DEFINE S == slots(t, uniq[ui])
             x == last(S)
  <2>1. \A j \in S : j \in 1 .. K
    BY <1>7
  <2>6. S = {j \in 1 .. K : rows[t].idx[j] = uniq[ui]}
    BY <1>7
  <2>2. S # {} => x \in S /\ \A i \in S : i <= x
    <3> SUFFICES ASSUME S # {} PROVE \E j \in S : \A i \in S : i <= j
      OBVIOUS
    <3> HIDE DEF S
    <3> QED BY <1>3, <2>1, Largest
  <2> HIDE DEF S, x
  <2>3. rows[t].w \in [1 .. K -> Nat]
    BY <1>6
  <2>4. w(t, ui) = IF S = {} THEN 0 ELSE rows[t].w[x]
    BY DEF S, x
  <2> HIDE DEF w
  <2>5. S # {} => rows[t].w[x] \in Nat
    BY <2>1, <2>2, <2>3
  <2>7. WeighsAs(rows[t], K, uniq[ui], w(t, ui))
    BY <2>2, <2>4, <2>6 DEF WeighsAs
  <2> QED BY <2>4, <2>5, <2>7
<1> HIDE DEF w
<1>18. \A t \in Tokens : Strict(wrow(t)) \in [1 .. m -> Nat] /\ \A i \in 1 .. m : Strict(wrow(t))[i] = w(t, i)
  <2> SUFFICES ASSUME NEW t \in Tokens
               PROVE  Strict(wrow(t)) \in [1 .. m -> Nat] /\ \A i \in 1 .. m : Strict(wrow(t))[i] = w(t, i)
    OBVIOUS
  <2> DEFINE g == wrow(t)
  <2>1. g \in [1 .. m -> Nat] /\ \A i \in 1 .. m : g[i] = w(t, i)
    BY <1>16, <1>17
  <2> HIDE DEF g
  <2>2. Strict(g) \in [1 .. m -> Nat] /\ Strict(g) = g
    BY <1>15, <2>1, IndexSeq
  <2> QED BY <2>1, <2>2 DEF g
<1> HIDE DEF wrow
<1>19. wmat \in [1 .. L -> [1 .. m -> Nat]]
  BY <1>2, <1>5, <1>18
<1>30. \A t \in Tokens : \A i \in 1 .. m : wmat[t][i] = w(t, i)
  BY <1>2, <1>5, <1>18
<1> HIDE DEF wmat
<1>20. Strict(wmat) \in [Tokens -> [1 .. m -> Nat]] /\ Strict(wmat) = wmat
  BY <1>2, <1>19, IndexSeq
<1> HIDE DEF u
<1>21. RoutedOK(u)
  BY <1>1, <1>15, <1>16, <1>20 DEF RoutedOK
<1>31. UnionOK(u)
  <2> DEFINE kk == Smaller(TopK, NumExperts)
  <2>1. kk = K
    BY DEF K
  <2>2. Len(u.uniq) = m /\ u.uniq = uniq
    BY <1>1, <1>16
  <2>3. \A t \in Tokens : \A i \in 1 .. m : u.w_mat[t][i] = w(t, i)
    BY <1>1, <1>20, <1>30
  <2> HIDE DEF kk
  <2>4. \A i, j \in 1 .. Len(u.uniq) : u.uniq[i] = u.uniq[j] => i = j
    BY <1>28, <2>2
  <2>5. \A t \in Tokens : \A j \in 1 .. kk : \E i \in 1 .. Len(u.uniq) : u.uniq[i] = RowOf(t).idx[j]
    BY <1>5, <1>29, <2>1, <2>2
  <2>6. \A t \in Tokens : \A i \in 1 .. Len(u.uniq) : WeighsAs(RowOf(t), kk, u.uniq[i], u.w_mat[t][i])
    BY <1>5, <1>17, <2>1, <2>2, <2>3
  <2> QED BY <2>4, <2>5, <2>6 DEF UnionOK, kk
<1> QED BY <1>21, <1>31 DEF u, rows, f

\* Routing lists experts of the model, and has a weight for every token and every one of them.
LEMMA RoutedType ==
  ASSUME job \in Jobs
  PROVE  RoutedOK(union_and_weights(Strict([t \in Tokens |-> RowOf(t)])))
BY UnionIs

-----------------------------------------------------------------------------
(* The invariant.                                                          *)

\* The entries of this node.
LocalEntries(r) == EntriesOf(r, LocalCols(r))

\* A node's sums once its first k entries are added.
SumOf(r, k, act) == [t \in Tokens |-> Given(LocalEntries(r), k, t, act)]

\* Its sums once all are.
Summed(r) == \E act \in Activations : partial = SumOf(r, Len(LocalEntries(r)), act)

\* What a peer answers.
AnswerOf(n) == \E act \in Activations : answers[n] = PartialOf(routed, ColsOf(routed.uniq, n), act)

\* The peers that are sent a shard.
Peers == IF Sharded THEN OwnersOf(routed.uniq) \ {job.me} ELSE {}

Folded ==
  [t \in Tokens |->
     IF ~Sharded THEN <<partial[t]>>
     ELSE [i \in DOMAIN FoldOrder |->
             IF FoldOrder[i] = job.me THEN partial[t] ELSE answers[FoldOrder[i]][t]]]

\* In the expert loop the first k entries are added and the others are `active`.
LoopOK(k) ==
  /\ k \in Nat /\ k <= Len(LocalEntries(routed)) /\ partial = SumOf(routed, k, job.act)
  /\ active \in Seq(EntryT) /\ Len(active) = Len(LocalEntries(routed)) - k
  /\ \A i \in 1 .. Len(active) : active[i] = LocalEntries(routed)[i + k]
  /\ arms \in Seq({arm \in ArmNames : Right(arm)})
  /\ arms # <<>> => k = 0

TypesOK ==
  /\ job \in Jobs
  /\ pc \in {"route", "prefetch", "group", "join", "finish", "done", "err"}
  /\ pc # "route" => RoutedOK(routed)

\* A peer has answered, or is awaited, or has failed.
PeersOK ==
  /\ pc = "route" => ~failed /\ waiting = {} /\ DOMAIN answers = {}
  /\ \A n \in DOMAIN answers : AnswerOf(n)
  /\ pc # "route" /\ ~failed => waiting \cup DOMAIN answers = Peers

\* This node's sum.
LocalOK ==
  /\ pc \in {"route", "prefetch"} => partial = Nothing
  /\ pc = "group" => \E k \in 0 .. Len(LocalEntries(routed)) : LoopOK(k)
  /\ pc \in {"join", "finish", "done"} /\ ~failed => Summed(routed)

OutOK == pc \in {"finish", "done"} => ~failed /\ waiting = {} /\ out = Folded

DispatchInv == TypesOK /\ PeersOK /\ LocalOK /\ OutOK

\* What a node's entries and sums are made of.
LEMMA LocalAre ==
  ASSUME job \in Jobs, NEW r, RoutedOK(r)
  PROVE  /\ Len(LocalEntries(r)) \in Nat /\ DOMAIN LocalEntries(r) = 1 .. Len(LocalEntries(r))
         /\ LocalEntries(r) \in Seq(EntryT)
         /\ \A i \in 1 .. Len(LocalEntries(r)) : LocalEntries(r)[i] \in EntryT
BY ColumnsAre, EntriesAre DEF LocalEntries

\* Nothing is added by no entries.
LEMMA GivenNone ==
  \A as, t : \A act \in Acts : Given(as, 0, t, act) = <<>>
<1> SUFFICES ASSUME NEW as, NEW t, NEW act \in Acts PROVE Given(as, 0, t, act) = <<>>
  OBVIOUS
<1> DEFINE I == {i \in 1 .. 0 : t \in RowsIn(as[i])}
           its == Ascending(0, I)
<1>1. I = {}
  OBVIOUS
<1> HIDE DEF I
<1>2. Lists(its, I)
  BY <1>1, AscendingPositions
<1>3. its = <<>>
  BY <1>1, <1>2, ListsFew
<1>4. Given(as, 0, t, act) = [j \in 1 .. Len(its) |-> Term(as[its[j]], t, act)]
  BY DEF Given, I
<1> DEFINE g == Given(as, 0, t, act)
<1>5. g \in Seq(TermT)
  <2>1. 0 \in Nat /\ \A i \in 1 .. 0 : as[i] \in EntryT
    OBVIOUS
  <2> QED BY <2>1, GivenType
<1>6. DOMAIN g = 1 .. 0
  <2>1. Len(its) = 0
    BY <1>3
  <2> QED BY <1>4, <2>1
<1> HIDE DEF g
<1>7. Len(g) = 0
  <2>1. Len(g) \in Nat /\ DOMAIN g = 1 .. Len(g)
    BY <1>5, LenProperties
  <2> QED BY <1>6, <2>1
<1>8. g = <<>>
  <2>1. g # <<>> => Len(g) \in Nat \ {0}
    BY <1>5, EmptySeq
  <2> QED BY <1>7, <2>1
<1> QED BY <1>8 DEF g

\* Sums are sequences of terms, and the next entry's terms come last.
LEMMA SumsAre ==
  ASSUME job \in Jobs, NEW r, RoutedOK(r), NEW act \in Acts, NEW k \in Nat, k <= Len(LocalEntries(r))
  PROVE  /\ \A t \in Tokens : SumOf(r, k, act)[t] = Given(LocalEntries(r), k, t, act) /\ SumOf(r, k, act)[t] \in Seq(TermT)
         /\ SumOf(r, 0, act) = Nothing
<1>1. act \in Acts
  OBVIOUS
<1>2. \A i \in 1 .. k : i \in 1 .. Len(LocalEntries(r))
  BY LocalAre
<1>3. \A i \in 1 .. k : LocalEntries(r)[i] \in EntryT
  BY <1>2, LocalAre
<1>4. \A t : Given(LocalEntries(r), k, t, act) \in Seq(TermT)
  BY <1>1, <1>3, GivenType
<1>5. \A t \in Tokens : Given(LocalEntries(r), 0, t, act) = <<>>
  BY <1>1, GivenNone
<1>6. SumOf(r, 0, act) = Nothing
  BY <1>5, NothingIs DEF SumOf
<1> QED BY <1>4, <1>6 DEF SumOf

\* The sum after one more entry.
LEMMA SumNext ==
  ASSUME job \in Jobs, NEW r, RoutedOK(r), NEW act \in Acts, NEW k \in Nat, k + 1 <= Len(LocalEntries(r))
  PROVE  Scatter(SumOf(r, k, act), <<LocalEntries(r)[k + 1]>>, act) = SumOf(r, k + 1, act)
<1> DEFINE one == <<LocalEntries(r)[k + 1]>>
           m   == k + 1
<1>1. act \in Acts /\ Len(LocalEntries(r)) \in Nat
  BY LocalAre, TokensAre
<1>2. m \in 1 .. Len(LocalEntries(r)) /\ k <= Len(LocalEntries(r))
  BY <1>1
<1>3. \A i \in 1 .. m : i \in 1 .. Len(LocalEntries(r))
  BY <1>1
<1>4. \A i \in 1 .. m : LocalEntries(r)[i] \in EntryT
  BY <1>3, LocalAre
<1>5. Len(one) = 1 /\ DOMAIN one = 1 .. 1 /\ one[1] = LocalEntries(r)[m]
  OBVIOUS
<1>6. \A i \in 1 .. 1 : one[i] \in EntryT
  <2>1. LocalEntries(r)[m] \in EntryT
    BY <1>2, LocalAre
  <2>2. \A i \in 1 .. 1 : i = 1
    OBVIOUS
  <2> HIDE DEF one
  <2> QED BY <1>5, <2>1, <2>2
<1>7. \A t \in Tokens : SumOf(r, k, act)[t] = Given(LocalEntries(r), k, t, act) /\ SumOf(r, k, act)[t] \in Seq(TermT)
  BY <1>2, SumsAre
<1>8. Scatter(SumOf(r, k, act), one, act) = Added(SumOf(r, k, act), one, 1, act)
  <2> DEFINE n == 1
  <2> HIDE DEF one
  <2>1. n \in Nat /\ Len(one) = n /\ DOMAIN one = 1 .. n /\ \A i \in 1 .. n : one[i] \in EntryT
    BY <1>5, <1>6
  <2>2. \A t \in Tokens : SumOf(r, k, act)[t] \in Seq(TermT)
    BY <1>7
  <2> HIDE DEF n
  <2>3. Scatter(SumOf(r, k, act), one, act) = Added(SumOf(r, k, act), one, n, act)
    BY <1>1, <2>1, <2>2, ScatterIs
  <2> QED BY <2>3 DEF n
<1>9. ASSUME NEW t \in Tokens
      PROVE  SumOf(r, k, act)[t] \o Given(one, 1, t, act) = Given(LocalEntries(r), m, t, act)
  <2>1. Given(LocalEntries(r), k + 1, t, act)
          = Given(LocalEntries(r), k, t, act) \o Given(<<LocalEntries(r)[k + 1]>>, 1, t, act)
    BY <1>1, <1>4, GivenNext
  <2> QED BY <1>7, <2>1
<1> HIDE DEF one, m
<1>10. Added(SumOf(r, k, act), one, 1, act) = SumOf(r, m, act)
  BY <1>9 DEF SumOf, Added
<1> QED BY <1>8, <1>10 DEF one, m

\* The sum after all entries at once.
LEMMA SumWhole ==
  ASSUME job \in Jobs, NEW r, RoutedOK(r), NEW act \in Acts
  PROVE  Scatter(Nothing, LocalEntries(r), act) = SumOf(r, Len(LocalEntries(r)), act)
<1> DEFINE n == Len(LocalEntries(r))
<1>1. n \in Nat /\ 0 <= n /\ 0 \in Nat /\ act \in Acts /\ DOMAIN LocalEntries(r) = 1 .. n
  BY LocalAre, TokensAre
<1>2. \A i \in 1 .. n : LocalEntries(r)[i] \in EntryT
  BY LocalAre
<1>3. \A t \in Tokens : Nothing[t] = <<>>
  BY NothingIs
<1>4. \A t \in Tokens : Nothing[t] \in Seq(TermT)
  BY <1>3, EmptySeq
<1>5. Scatter(Nothing, LocalEntries(r), act) = Added(Nothing, LocalEntries(r), n, act)
  BY <1>1, <1>2, <1>4, ScatterIs
<1>6. \A t \in Tokens : Given(LocalEntries(r), n, t, act) \in Seq(TermT)
  BY <1>1, <1>2, GivenType
<1>7. \A t \in Tokens : Nothing[t] \o Given(LocalEntries(r), n, t, act) = Given(LocalEntries(r), n, t, act)
  BY <1>3, <1>6, ConcatEmptySeq
<1> HIDE DEF n
<1>8. Added(Nothing, LocalEntries(r), n, act) = SumOf(r, n, act)
  BY <1>7 DEF SumOf, Added
<1> QED BY <1>5, <1>8 DEF n

-----------------------------------------------------------------------------
(* The steps.                                                              *)

\* While the call is the same, so is what is made of it.
LEMMA SameJob ==
  ASSUME job' = job
  PROVE  /\ Tokens' = Tokens /\ Nothing' = Nothing /\ (Sharded' <=> Sharded)
         /\ \A r : RoutedOK(r)' <=> RoutedOK(r)
         /\ \A r : LocalCols(r)' = LocalCols(r) /\ LocalEntries(r)' = LocalEntries(r)
         /\ \A r, k, act : SumOf(r, k, act)' = SumOf(r, k, act)
         /\ \A r, n : ColsOf(r.uniq, n)' = ColsOf(r.uniq, n)
         /\ \A r, c, act : PartialOf(r, c, act)' = PartialOf(r, c, act)
         /\ \A u : OwnersOf(u)' = OwnersOf(u)
         /\ Activations' = Activations
<1>1. Tokens' = Tokens /\ (Sharded' <=> Sharded)
  BY DEF Tokens, Sharded
<1>2. Nothing' = Nothing
  BY <1>1 DEF Nothing
<1>3. \A r : RoutedOK(r)' <=> RoutedOK(r)
  BY <1>1 DEF RoutedOK
<1>4. \A u, n : ColsOf(u, n)' = ColsOf(u, n)
  BY DEF ColsOf
<1>5. \A r : LocalCols(r)' = LocalCols(r)
  BY <1>1, <1>4 DEF LocalCols
<1>6. \A r : LocalEntries(r)' = LocalEntries(r)
  BY <1>5 DEF LocalEntries, EntriesOf
<1>7. \A r, k, act : SumOf(r, k, act)' = SumOf(r, k, act)
  BY <1>1, <1>6 DEF SumOf
<1>8. \A sum, as, act : Scatter(sum, as, act)' = Scatter(sum, as, act)
  BY <1>1 DEF Scatter
<1>9. \A r, c, act : PartialOf(r, c, act)' = PartialOf(r, c, act)
  BY <1>2, <1>8 DEF PartialOf
<1>10. \A u : OwnersOf(u)' = OwnersOf(u)
  BY DEF OwnersOf
<1>11. \A r, n : ColsOf(r.uniq, n)' = ColsOf(r.uniq, n)
  BY <1>4
<1>12. Activations' = Activations
  BY DEF Activations, GpuOn, GpuActivation
<1> QED BY <1>1, <1>2, <1>3, <1>5, <1>6, <1>7, <1>9, <1>10, <1>11, <1>12, Zenon

\* While the routing is the same, too, so is what a peer may answer.
LEMMA SameAnswers ==
  ASSUME UNCHANGED <<job, routed>>
  PROVE  /\ Activations' = Activations
         /\ \A n, act : PartialOf(routed, ColsOf(routed.uniq, n), act)' = PartialOf(routed, ColsOf(routed.uniq, n), act)
<1>1. Tokens' = Tokens /\ Nothing' = Nothing /\ Activations' = Activations
  BY SameJob
<1>2. \A n : ColsOf(routed.uniq, n)' = ColsOf(routed.uniq, n)
  BY DEF ColsOf
<1>3. \A sum, as, act : Scatter(sum, as, act)' = Scatter(sum, as, act)
  BY <1>1 DEF Scatter
<1> DEFINE A(n) == PerExpert(Pick(routed.uniq, ColsOf(routed.uniq, n)), subcols(routed.w_mat, ColsOf(routed.uniq, n)))
<1>4. \A n : A(n)' = A(n)
  BY <1>2
<1> HIDE DEF A
<1>5. \A n, act : Scatter(Nothing, A(n), act)' = Scatter(Nothing, A(n), act)
  BY <1>1, <1>3, <1>4
<1>6. \A n, act : PartialOf(routed, ColsOf(routed.uniq, n), act) = Scatter(Nothing, A(n), act)
  BY DEF PartialOf, A
<1>7. \A n, act : PartialOf(routed, ColsOf(routed.uniq, n), act)' = Scatter(Nothing, A(n), act)'
  BY DEF PartialOf, A
<1> QED BY <1>1, <1>5, <1>6, <1>7

\* And while the routing, the answers and this node's sums are the same.
LEMMA SamePeers ==
  ASSUME UNCHANGED <<job, routed>>
  PROVE  Peers' = Peers
BY SameJob DEF Peers

\* The fold reads nothing else.
LEMMA SameFold ==
  ASSUME UNCHANGED <<job, routed, answers, partial>>
  PROVE  Folded' = Folded
<1>1. Tokens' = Tokens /\ (Sharded' <=> Sharded) /\ LocalCols(routed)' = LocalCols(routed)
  BY SameJob
<1>2. FoldOrder' = FoldOrder
  BY <1>1 DEF FoldOrder
<1> QED BY <1>1, <1>2 DEF Folded

\* Nor does what is known of the grouped calls.
LEMMA SameArms ==
  ASSUME UNCHANGED <<job, active>>
  PROVE  \A arm : Right(arm)' <=> Right(arm)
<1>1. \A arm : Takes(arm)' <=> Takes(arm)
  BY DEF Takes, try_expert_group_int2_decode, try_expert_group_int2_rows, relu2_segmented,
         try_expert_group_relu2, try_expert_group_packed, try_expert_group, GpuOn, ZeroCopy,
         OneRowEach, Three, Eligible, GateFmt
<1>2. \A arm : KernelAct(arm)' = KernelAct(arm)
  BY DEF KernelAct, GpuActivation
<1>3. Activations' = Activations
  BY SameJob
<1> QED BY <1>1, <1>2, <1>3 DEF Right

\* The job, the control point and the shape of the routing.
LEMMA TypesInv ==
  ASSUME DispatchInv, [Next]_vars
  PROVE  TypesOK'
<1>1. TypesOK
  BY DEF DispatchInv
<1>2. CASE Route
  <2> DEFINE r == union_and_weights(Strict([t \in Tokens |-> RowOf(t)]))
  <2>1. job' = job /\ routed' = r /\ pc' \in {"join", "prefetch"}
    BY <1>2 DEF Route
  <2>2. RoutedOK(r)
    BY <1>1, RoutedType DEF TypesOK
  <2> HIDE DEF r
  <2>3. RoutedOK(routed)'
    BY <2>1, <2>2, SameJob DEF RoutedOK
  <2> QED BY <1>1, <2>1, <2>3 DEF TypesOK
<1>3. ASSUME UNCHANGED <<job, routed>>, pc # "route" \/ UNCHANGED pc,
             pc' \in {"route", "prefetch", "group", "join", "finish", "done", "err"}
      PROVE  TypesOK'
  <2>1. RoutedOK(routed)' <=> RoutedOK(routed)
    BY <1>3, SameJob DEF RoutedOK
  <2> QED BY <1>1, <1>3, <2>1 DEF TypesOK
<1>4. CASE Prefetch
  BY <1>1, <1>3, <1>4 DEF Prefetch, LocalError, TypesOK
<1>5. CASE Decline \/ GroupKernel \/ GroupKernelFails
  BY <1>1, <1>3, <1>5 DEF Decline, GroupKernel, GroupKernelFails, TypesOK
<1>6. CASE GroupScatter \/ LoopDone
  BY <1>1, <1>3, <1>6 DEF GroupScatter, LoopDone, TypesOK
<1>7. CASE OneExpert
  BY <1>1, <1>3, <1>7 DEF OneExpert, LocalError, TypesOK
<1>8. CASE Join \/ Finish
  BY <1>1, <1>3, <1>8 DEF Join, Finish, TypesOK
<1>9. CASE \E n \in 0 .. job.nodes - 1 : PeerAnswers(n) \/ PeerFails(n)
  BY <1>1, <1>3, <1>9 DEF PeerAnswers, PeerFails, TypesOK
<1>10. CASE UNCHANGED vars
  BY <1>1, <1>3, <1>10 DEF vars, TypesOK
<1> QED BY <1>2, <1>4, <1>5, <1>6, <1>7, <1>8, <1>9, <1>10 DEF Next

\* Every peer that was sent a shard is awaited, has answered with its sum, or has failed.
LEMMA PeersInv ==
  ASSUME DispatchInv, [Next]_vars
  PROVE  PeersOK'
<1>1. TypesOK /\ PeersOK
  BY DEF DispatchInv
<1>2. CASE Route
  <2>1. /\ job' = job /\ pc = "route" /\ pc' # "route" /\ answers' = answers /\ failed' = failed
        /\ waiting' = IF Sharded THEN OwnersOf(routed'.uniq) \ {job.me} ELSE {}
    BY <1>2 DEF Route
  <2>2. DOMAIN answers = {} /\ ~failed
    BY <1>1, <2>1 DEF PeersOK
  <2>3. waiting' = Peers'
    BY <2>1 DEF Peers, Sharded, OwnersOf
  <2> QED BY <2>1, <2>2, <2>3 DEF PeersOK
<1>3. ASSUME UNCHANGED <<job, routed, waiting, answers>>, pc # "route" \/ UNCHANGED <<pc, failed>>,
             failed => failed', pc # "route" => pc' # "route"
      PROVE  PeersOK'
  <2>1. \A n : AnswerOf(n)' <=> AnswerOf(n)
    BY <1>3, SameAnswers DEF AnswerOf
  <2>2. Peers' = Peers
    BY <1>3, SamePeers
  <2> QED BY <1>1, <1>3, <2>1, <2>2 DEF PeersOK
<1>4. CASE Prefetch
  BY <1>3, <1>4 DEF Prefetch, LocalError
<1>5. CASE Decline \/ GroupKernel \/ GroupKernelFails
  BY <1>3, <1>5 DEF Decline, GroupKernel, GroupKernelFails
<1>6. CASE GroupScatter \/ LoopDone
  BY <1>3, <1>6 DEF GroupScatter, LoopDone
<1>7. CASE OneExpert
  BY <1>3, <1>7 DEF OneExpert, LocalError
<1>8. CASE Join \/ Finish
  BY <1>3, <1>8 DEF Join, Finish
<1>9. ASSUME NEW n, PeerAnswers(n) PROVE PeersOK'
  <2> DEFINE P(m, act) == PartialOf(routed, ColsOf(routed.uniq, m), act)
  <2>1. /\ UNCHANGED <<job, pc, routed, failed>> /\ n \in waiting /\ waiting' = waiting \ {n}
        /\ \E act \in Activations :
             answers' = [m \in DOMAIN answers \cup {n} |-> IF m = n THEN P(n, act) ELSE answers[m]]
    BY <1>9 DEF PeerAnswers
  <2>2. Activations' = Activations /\ \A m, act : P(m, act)' = P(m, act)
    BY <2>1, SameAnswers
  <2>3. Peers' = Peers
    BY <2>1, SamePeers
  <2>4. /\ DOMAIN answers' = DOMAIN answers \cup {n}
        /\ \A m \in DOMAIN answers' : \E act \in Activations : answers'[m] = P(m, act)
    BY <1>1, <2>1 DEF PeersOK, AnswerOf
  <2>5. pc # "route"
    BY <1>1, <2>1 DEF PeersOK
  <2>6. ~failed => waiting' \cup DOMAIN answers' = Peers
    BY <1>1, <2>1, <2>4, <2>5 DEF PeersOK
  <2> HIDE DEF P
  <2>7. \A m \in DOMAIN answers' : AnswerOf(m)'
    BY <2>2, <2>4 DEF AnswerOf, P
  <2> QED BY <2>1, <2>3, <2>5, <2>6, <2>7 DEF PeersOK
<1>10. ASSUME NEW n, PeerFails(n) PROVE PeersOK'
  <2>1. UNCHANGED <<job, pc, routed, answers>> /\ n \in waiting /\ failed'
    BY <1>10 DEF PeerFails
  <2>2. \A m : AnswerOf(m)' <=> AnswerOf(m)
    BY <2>1, SameAnswers DEF AnswerOf
  <2>3. pc # "route"
    BY <1>1, <2>1 DEF PeersOK
  <2> QED BY <1>1, <2>1, <2>2, <2>3 DEF PeersOK
<1>11. CASE UNCHANGED vars
  BY <1>3, <1>11 DEF vars
<1> QED BY <1>2, <1>4, <1>5, <1>6, <1>7, <1>8, <1>9, <1>10, <1>11 DEF Next

\* A node without columns has no entries.
LEMMA NoColumns ==
  ASSUME job \in Jobs, NEW r, RoutedOK(r), LocalCols(r) = <<>>
  PROVE  Len(LocalEntries(r)) = 0
<1> DEFINE m  == 0
           n  == Len(job.score)
           c  == LocalCols(r)
           es == Pick(r.uniq, c)
           ws == subcols(r.w_mat, c)
           U  == UsedColumns(ws, m)
           some == Ascending(m, U)
<1>1. Len(c) = m /\ m \in Nat /\ c \in [1 .. m -> 1 .. Len(r.uniq)]
  <2>1. Len(c) = m
    OBVIOUS
  <2> QED BY <2>1, ColumnsAre
<1>2. n \in Nat /\ Tokens = 1 .. n
  BY TokensAre
<1> HIDE DEF c, n
<1>3. es \in [1 .. m -> Experts] /\ ws \in [1 .. n -> [1 .. m -> Nat]]
  <2> HIDE DEF m
  <2> QED BY <1>1, <1>2, Selected
<1>4. U = {}
  BY DEF UsedColumns
<1> HIDE DEF es, ws, U
<1>5. Len(PerExpert(es, ws)) = Len(some) /\ Lists(some, U)
  <2> HIDE DEF m
  <2>1. m \in Nat /\ n \in Nat
    BY <1>1, <1>2
  <2> QED BY <1>3, <2>1, PerExpertIs DEF U
<1>6. some = <<>>
  <2> HIDE DEF some
  <2> QED BY <1>4, <1>5, ListsFew
<1> HIDE DEF some
<1>7. Len(some) = 0
  BY <1>6
<1> QED BY <1>5, <1>7 DEF LocalEntries, EntriesOf, es, ws, c

\* The batch a grouped call is offered.
BatchOK ==
  /\ job \in Jobs
  /\ Len(active) \in Nat /\ DOMAIN active = 1 .. Len(active) /\ (active # <<>> => Len(active) # 0)
  /\ \A i \in 1 .. Len(active) : active[i] \in EntryT

\* Every grouped call on the list computes the layer's activation.
ArmsOK == GroupArms \in Seq({arm \in ArmNames : Right(arm)})

\* What the list of grouped calls holds of a batch that was just listed.
LEMMA ArmsNow == BatchOK => ArmsOK
BY ArmsRight DEF BatchOK, ArmsOK

\* The same, after a step.
LEMMA ArmsNext == BatchOK' => ArmsOK'
BY ArmsNow, PTL

\* The loop begins with all entries and nothing added.
LEMMA LoopBegins ==
  ASSUME TypesOK, Prefetch, pc' = "group", partial = Nothing
  PROVE  LoopOK(0)'
<1>1. /\ job' = job /\ routed' = routed /\ partial' = partial /\ pc = "prefetch"
      /\ active' = LocalEntries(routed) /\ arms' = GroupArms'
  BY DEF Prefetch, LocalError, LocalEntries, EntriesOf
<1>2. job \in Jobs /\ RoutedOK(routed)
  BY <1>1 DEF TypesOK
<1>3. LocalEntries(routed)' = LocalEntries(routed) /\ SumOf(routed, 0, job.act)' = SumOf(routed, 0, job.act)
  BY <1>1, SameJob DEF LocalEntries, EntriesOf, LocalCols, ColsOf, Sharded, SumOf
<1> DEFINE E == LocalEntries(routed)
<1>4. /\ Len(E) \in Nat /\ DOMAIN E = 1 .. Len(E) /\ E \in Seq(EntryT)
      /\ \A i \in 1 .. Len(E) : E[i] \in EntryT
  BY <1>2, LocalAre
<1>5. SumOf(routed, 0, job.act) = Nothing
  BY <1>2, <1>4, TokensAre, SumsAre
<1> HIDE DEF E
<1>6. ArmsOK'
  <2>1. E # <<>> => Len(E) # 0
    BY <1>4, EmptySeq
  <2> QED BY <1>1, <1>2, <1>4, <2>1, ArmsNext DEF BatchOK, E
<1>7. \A i \in 1 .. Len(E) : i + 0 = i
  BY <1>4
<1>8. 0 \in Nat /\ 0 <= Len(E) /\ Len(E) = Len(E) - 0
  BY <1>4
<1> QED BY <1>1, <1>3, <1>4, <1>5, <1>6, <1>7, <1>8 DEF LoopOK, ArmsOK, E

\* What a step of another part leaves alone.
LEMMA SameLoop ==
  ASSUME UNCHANGED <<job, routed, partial, active>>
  PROVE  /\ LocalEntries(routed)' = LocalEntries(routed)
         /\ \A k, act : SumOf(routed, k, act)' = SumOf(routed, k, act)
         /\ \A k : LoopOK(k) /\ arms' \in Seq({arm \in ArmNames : Right(arm)}) /\ (arms' # <<>> => arms # <<>>)
                  => LoopOK(k)'
<1>1. /\ LocalEntries(routed)' = LocalEntries(routed)
      /\ \A k, act : SumOf(routed, k, act)' = SumOf(routed, k, act)
  BY SameJob DEF LocalEntries, EntriesOf, LocalCols, ColsOf, Sharded, SumOf
<1>2. {arm \in ArmNames : Right(arm)}' = {arm \in ArmNames : Right(arm)}
  BY SameArms
<1> QED BY <1>1, <1>2 DEF LoopOK

\* The scatter of a grouped call adds every entry.
LEMMA ScatterAll ==
  ASSUME job \in Jobs, RoutedOK(routed), LoopOK(0), NEW act \in Acts, active # <<>> => act \in Activations
  PROVE  \E a \in Activations : Scatter(partial, active, act) = SumOf(routed, Len(LocalEntries(routed)), a)
<1> DEFINE E == LocalEntries(routed)
<1>1. Len(E) \in Nat /\ DOMAIN E = 1 .. Len(E) /\ E \in Seq(EntryT)
  BY LocalAre
<1>2. partial = Nothing /\ SumOf(routed, 0, job.act) = Nothing /\ job.act \in Activations
  <2>1. job.act \in Acts /\ job.act \in Activations
    BY TokensAre, ActivationsAre
  <2>2. SumOf(routed, 0, job.act) = Nothing
    BY <1>1, <2>1, SumsAre
  <2> QED BY <2>1, <2>2 DEF LoopOK
<1>3. /\ active \in Seq(EntryT) /\ Len(active) = Len(E) - 0
      /\ \A i \in 1 .. Len(active) : active[i] = E[i + 0]
  BY DEF LoopOK
<1> HIDE DEF E
<1>4. Len(active) = Len(E) /\ \A i \in 1 .. Len(active) : i + 0 = i
  BY <1>1, <1>3
<1>5. active = E
  BY <1>1, <1>3, <1>4, SeqEqual
<1>6. CASE active # <<>>
  BY <1>2, <1>5, <1>6, SumWhole DEF E
<1>7. CASE active = <<>>
  <2> DEFINE n == 0
  <2>1. /\ n \in Nat /\ Len(active) = n /\ DOMAIN active = 1 .. n
        /\ \A i \in 1 .. n : active[i] \in EntryT
    BY <1>7
  <2>2. \A t \in Tokens : Nothing[t] = <<>> /\ Nothing[t] \in Seq(TermT)
    BY NothingIs, EmptySeq
  <2>3. \A t \in Tokens : Given(active, n, t, act) = <<>>
    BY GivenNone
  <2> HIDE DEF n
  <2>4. Scatter(Nothing, active, act) = Added(Nothing, active, n, act)
    BY <2>1, <2>2, ScatterIs
  <2>5. \A t \in Tokens : Nothing[t] \o Given(active, n, t, act) = <<>>
    BY <2>2, <2>3, ConcatEmptySeq
  <2>6. Added(Nothing, active, n, act) = Nothing
    BY <2>5, NothingIs DEF Added
  <2>7. Len(E) = 0
    BY <1>5, <2>1 DEF n
  <2> QED BY <1>2, <2>4, <2>6, <2>7 DEF E
<1> QED BY <1>6, <1>7

\* One round of the expert loop.
LEMMA LoopRound ==
  ASSUME job \in Jobs, RoutedOK(routed), NEW k, LoopOK(k), active # <<>>, arms = <<>>,
         UNCHANGED <<job, routed, arms>>, active' = Tail(active),
         NEW act \in ffn(Head(active).e), partial' = Scatter(partial, <<Head(active)>>, act)
  PROVE  k + 1 <= Len(LocalEntries(routed)) /\ LoopOK(k + 1)'
<1> DEFINE E == LocalEntries(routed)
           n == Len(active)
<1>1. Len(E) \in Nat /\ k \in Nat /\ k <= Len(E) /\ n = Len(E) - k
  BY LocalAre DEF LoopOK
<1>2. active \in Seq(EntryT) /\ partial = SumOf(routed, k, job.act) /\ \A i \in 1 .. n : active[i] = E[i + k]
  BY DEF LoopOK
<1>3. n \in Nat \ {0}
  BY <1>2, EmptySeq
<1> HIDE DEF E
<1>4. k + 1 <= Len(E) /\ 1 \in 1 .. n /\ 1 + k = k + 1
  BY <1>1, <1>3
<1>5. Head(active) = E[k + 1]
  <2>1. Head(active) = active[1]
    OBVIOUS
  <2> QED BY <1>2, <1>4, <2>1
<1>6. partial' = SumOf(routed, k + 1, job.act)
  <2>1. act = job.act /\ job.act \in Acts
    BY FfnAct, TokensAre
  <2> QED BY <1>1, <1>2, <1>4, <1>5, <2>1, SumNext DEF E
<1>7. /\ active' \in Seq(EntryT) /\ Len(active') = n - 1
      /\ \A i \in 1 .. Len(active') : active'[i] = active[i + 1]
  BY <1>2, HeadTailProperties
<1>8. ASSUME NEW i \in 1 .. Len(active') PROVE active'[i] = E[i + (k + 1)]
  <2>1. i + 1 \in 1 .. n /\ (i + 1) + k = i + (k + 1)
    BY <1>1, <1>3, <1>7
  <2>2. active[i + 1] = E[(i + 1) + k]
    BY <1>2, <2>1
  <2> QED BY <1>7, <2>1, <2>2
<1>9. E' = E /\ SumOf(routed, k + 1, job.act)' = SumOf(routed, k + 1, job.act)
  BY SameJob DEF LocalEntries, EntriesOf, LocalCols, ColsOf, Sharded, SumOf, E
<1>10. arms' \in Seq({arm \in ArmNames : Right(arm)}')
  BY EmptySeq
<1>11. k + 1 \in Nat /\ Len(active') = Len(E) - (k + 1)
  BY <1>1, <1>7
<1> QED BY <1>4, <1>6, <1>7, <1>8, <1>9, <1>10, <1>11 DEF LoopOK, E

\* All of a node's entries are added with one of the layer's activations.
LEMMA SummedNow ==
  ASSUME UNCHANGED <<job, routed>>, NEW act \in Activations,
         partial' = SumOf(routed, Len(LocalEntries(routed)), act)
  PROVE  Summed(routed)'
<1>1. LocalEntries(routed)' = LocalEntries(routed) /\ act \in Activations'
  BY SameJob DEF LocalEntries, EntriesOf, LocalCols, ColsOf, Sharded
<1>2. SumOf(routed, Len(LocalEntries(routed)), act)' = SumOf(routed, Len(LocalEntries(routed)), act)
  BY <1>1, SameJob DEF SumOf
<1> QED BY <1>1, <1>2 DEF Summed

\* And they stay added.
LEMMA SummedSame ==
  ASSUME UNCHANGED <<job, routed, partial>>
  PROVE  Summed(routed)' <=> Summed(routed)
<1>1. LocalEntries(routed)' = LocalEntries(routed) /\ Activations' = Activations /\ Tokens' = Tokens
  BY SameJob DEF LocalEntries, EntriesOf, LocalCols, ColsOf, Sharded
<1> QED BY <1>1 DEF Summed, SumOf

\* This node's sum is that of its first entries, then of all of them.
LEMMA LocalInv ==
  ASSUME DispatchInv, [Next]_vars
  PROVE  LocalOK'
<1>1. TypesOK /\ LocalOK /\ PeersOK
  BY DEF DispatchInv
<1>2. CASE Route
  <2> DEFINE r == union_and_weights(Strict([t \in Tokens |-> RowOf(t)]))
  <2>1. /\ job' = job /\ routed' = r /\ pc = "route" /\ partial' = partial /\ failed' = failed
        /\ pc' = IF LocalCols(r) = <<>> THEN "join" ELSE "prefetch"
    BY <1>2 DEF Route
  <2>2. job \in Jobs /\ RoutedOK(r)
    BY <1>1, RoutedType DEF TypesOK
  <2>3. partial' = Nothing /\ Nothing' = Nothing
    BY <1>1, <2>1, SameJob DEF LocalOK
  <2> HIDE DEF r
  <2>4. CASE LocalCols(r) # <<>>
    BY <2>1, <2>3, <2>4 DEF LocalOK
  <2>5. CASE LocalCols(r) = <<>>
    <3>1. Len(LocalEntries(r)) = 0
      BY <2>2, <2>5, NoColumns
    <3>2. SumOf(r, 0, job.act) = Nothing /\ job.act \in Activations
      <4>1. 0 \in Nat /\ 0 <= Len(LocalEntries(r)) /\ job.act \in Acts
        BY <2>2, <3>1, TokensAre
      <4> QED BY <2>2, <4>1, SumsAre, ActivationsAre
    <3>3. LocalEntries(routed)' = LocalEntries(r) /\ SumOf(routed, 0, job.act)' = SumOf(r, 0, job.act)
      BY <2>1, SameJob DEF LocalEntries, EntriesOf, LocalCols, ColsOf, Sharded, SumOf
    <3>4. SumOf(routed, Len(LocalEntries(routed)), job.act)' = Nothing
      BY <3>1, <3>2, <3>3 DEF SumOf
    <3>5. job.act' \in Activations'
      BY <2>1, <3>2, SameJob
    <3>6. Summed(routed)'
      BY <2>3, <3>4, <3>5 DEF Summed
    <3> QED BY <2>1, <2>5, <3>6 DEF LocalOK
  <2> QED BY <2>4, <2>5
<1>3. CASE Prefetch
  <2>1. partial = Nothing
    BY <1>1, <1>3 DEF Prefetch, LocalOK
  <2>2. CASE pc' = "group"
    <3>1. LoopOK(0)'
      BY <1>1, <1>3, <2>1, <2>2, LoopBegins
    <3>2. 0 \in 0 .. Len(LocalEntries(routed)')
      BY <3>1 DEF LoopOK
    <3> QED BY <2>2, <3>1, <3>2 DEF LocalOK
  <2>3. CASE pc' # "group"
    <3>1. pc' \in {"join", "err"} /\ failed'
      BY <1>3, <2>3 DEF Prefetch, LocalError
    <3> QED BY <3>1 DEF LocalOK
  <2> QED BY <2>2, <2>3
<1>4. ASSUME pc = "group", pc' = "group", UNCHANGED <<job, routed, partial, active>>,
             arms' = arms \/ (arms # <<>> /\ arms' = Tail(arms))
      PROVE  LocalOK'
  <2>1. PICK k \in 0 .. Len(LocalEntries(routed)) : LoopOK(k)
    BY <1>1, <1>4 DEF LocalOK
  <2> DEFINE S == {arm \in ArmNames : Right(arm)}
  <2>2. arms \in Seq(S)
    BY <2>1 DEF LoopOK
  <2> HIDE DEF S
  <2>3. arms' \in Seq(S) /\ (arms' # <<>> => arms # <<>>)
    BY <1>4, <2>2, HeadTailProperties
  <2>4. LoopOK(k)' /\ LocalEntries(routed)' = LocalEntries(routed)
    BY <1>4, <2>1, <2>3, SameLoop DEF S
  <2> QED BY <1>4, <2>1, <2>4 DEF LocalOK
<1>5. CASE Decline
  BY <1>4, <1>5 DEF Decline
<1>6. CASE GroupKernel \/ GroupKernelFails
  <2>1. pc = "group" /\ pc' = "group" /\ UNCHANGED <<job, routed, partial, active>>
    BY <1>6 DEF GroupKernel, GroupKernelFails
  <2>2. arms' = arms \/ (arms # <<>> /\ arms' = Tail(arms))
    BY <1>6 DEF GroupKernel, GroupKernelFails
  <2> QED BY <1>4, <2>1, <2>2
<1>7. CASE GroupScatter
  <2>1. /\ pc = "group" /\ arms # <<>> /\ Takes(Head(arms)) /\ pc' = "join"
        /\ UNCHANGED <<job, routed, active>>
        /\ partial' = Scatter(partial, active, KernelAct(Head(arms)))
    BY <1>7 DEF GroupScatter
  <2>2. PICK k \in 0 .. Len(LocalEntries(routed)) : LoopOK(k)
    BY <1>1, <2>1 DEF LocalOK
  <2>3. LoopOK(0)
    BY <2>1, <2>2 DEF LoopOK
  <2>4. job \in Jobs /\ RoutedOK(routed)
    BY <1>1, <2>1 DEF TypesOK
  <2> DEFINE S == {arm \in ArmNames : Right(arm)}
  <2>5. arms \in Seq(S)
    BY <2>2 DEF LoopOK
  <2> HIDE DEF S
  <2>6. Head(arms) \in S
    BY <2>1, <2>5, HeadTailProperties
  <2> DEFINE act == KernelAct(Head(arms))
  <2>7. act \in Acts
    BY DEF KernelAct, GpuActivation, Acts
  <2>8. active # <<>> => act \in Activations
    BY <2>1, <2>6 DEF S, Right
  <2> HIDE DEF act
  <2>9. PICK a \in Activations : Scatter(partial, active, act) = SumOf(routed, Len(LocalEntries(routed)), a)
    BY <2>3, <2>4, <2>7, <2>8, ScatterAll
  <2>10. partial' = SumOf(routed, Len(LocalEntries(routed)), a)
    BY <2>1, <2>9 DEF act
  <2>11. Summed(routed)'
    BY <2>1, <2>10, SummedNow
  <2> QED BY <2>1, <2>11 DEF LocalOK
<1>8. CASE OneExpert
  <2>1. pc = "group" /\ arms = <<>> /\ active # <<>>
    BY <1>8 DEF OneExpert
  <2>2. CASE LocalError
    <3>1. pc' \in {"join", "err"} /\ failed'
      BY <2>2 DEF LocalError
    <3> QED BY <3>1 DEF LocalOK
  <2>3. CASE ~LocalError
    <3>1. PICK act \in ffn(Head(active).e) : partial' = Scatter(partial, <<Head(active)>>, act)
      BY <1>8, <2>3 DEF OneExpert
    <3>2. UNCHANGED <<job, routed, arms, pc>> /\ active' = Tail(active)
      BY <1>8, <2>3 DEF OneExpert
    <3>3. PICK k \in 0 .. Len(LocalEntries(routed)) : LoopOK(k)
      BY <1>1, <2>1 DEF LocalOK
    <3>4. job \in Jobs /\ RoutedOK(routed)
      BY <1>1, <2>1 DEF TypesOK
    <3>5. k + 1 <= Len(LocalEntries(routed)) /\ LoopOK(k + 1)'
      BY <2>1, <3>1, <3>2, <3>3, <3>4, LoopRound
    <3>6. LocalEntries(routed)' = LocalEntries(routed)
      BY <3>2, SameJob DEF LocalEntries, EntriesOf, LocalCols, ColsOf, Sharded
    <3>7. k + 1 \in 0 .. Len(LocalEntries(routed))
      BY <3>3, <3>4, <3>5, LocalAre
    <3> QED BY <2>1, <3>2, <3>5, <3>6, <3>7 DEF LocalOK
  <2> QED BY <2>2, <2>3
<1>9. CASE LoopDone
  <2>1. pc = "group" /\ active = <<>> /\ pc' = "join" /\ UNCHANGED <<job, routed, partial, active>>
    BY <1>9 DEF LoopDone
  <2>2. PICK k \in 0 .. Len(LocalEntries(routed)) : LoopOK(k)
    BY <1>1, <2>1 DEF LocalOK
  <2>3. job \in Jobs /\ RoutedOK(routed)
    BY <1>1, <2>1 DEF TypesOK
  <2>4. k = Len(LocalEntries(routed)) /\ partial = SumOf(routed, k, job.act)
    <3>1. Len(active) = 0 /\ Len(active) = Len(LocalEntries(routed)) - k /\ partial = SumOf(routed, k, job.act)
      BY <2>1, <2>2 DEF LoopOK
    <3> QED BY <2>2, <2>3, <3>1, LocalAre
  <2>5. job.act \in Activations
    BY <2>3, ActivationsAre
  <2>6. Summed(routed)'
    BY <2>1, <2>4, <2>5, SummedNow
  <2> QED BY <2>1, <2>6 DEF LocalOK
<1>10. ASSUME UNCHANGED <<job, routed, partial>>, pc \in {"join", "finish"},
              pc' \in {"join", "finish", "done", "err"}, failed => failed'
       PROVE  LocalOK'
  <2>1. Summed(routed)' <=> Summed(routed)
    BY <1>10, SummedSame
  <2> QED BY <1>1, <1>10, <2>1 DEF LocalOK
<1>11. CASE Join \/ Finish
  BY <1>10, <1>11 DEF Join, Finish
<1>12. ASSUME UNCHANGED <<job, pc, routed, partial, active, arms>>, failed => failed'
       PROVE  LocalOK'
  <2>1. CASE pc = "group"
    <3>1. pc = "group" /\ pc' = "group" /\ UNCHANGED <<job, routed, partial, active>> /\ arms' = arms
      BY <1>12, <2>1
    <3> QED BY <1>4, <3>1
  <2>2. CASE pc # "group"
    <3>1. Nothing' = Nothing
      BY <1>12, SameJob
    <3>2. Summed(routed)' <=> Summed(routed)
      BY <1>12, SummedSame
    <3> QED BY <1>1, <1>12, <2>2, <3>1, <3>2 DEF LocalOK
  <2> QED BY <2>1, <2>2
<1>13. CASE \E n \in 0 .. job.nodes - 1 : PeerAnswers(n) \/ PeerFails(n)
  BY <1>12, <1>13 DEF PeerAnswers, PeerFails
<1>14. CASE UNCHANGED vars
  BY <1>12, <1>14 DEF vars
<1> QED BY <1>2, <1>3, <1>5, <1>6, <1>7, <1>8, <1>9, <1>11, <1>13, <1>14 DEF Next

\* The output is the fold of the partial sums.
LEMMA OutInv ==
  ASSUME DispatchInv, [Next]_vars
  PROVE  OutOK'
<1>1. TypesOK /\ OutOK
  BY DEF DispatchInv
<1>2. CASE Join
  <2>1. CASE failed
    BY <1>2, <2>1 DEF Join, OutOK
  <2>2. CASE ~failed
    <3>1. UNCHANGED <<job, routed, answers, partial, failed, waiting>> /\ waiting = {} /\ out' = Folded
      BY <1>2, <2>2 DEF Join, Folded
    <3>2. Folded' = Folded
      BY <3>1, SameFold
    <3> QED BY <2>2, <3>1, <3>2 DEF OutOK
  <2> QED BY <2>1, <2>2
<1>3. ASSUME UNCHANGED <<job, routed, answers, partial, failed, waiting, out>>, pc \in {"finish", "done"}
      PROVE  OutOK'
  <2>1. Folded' = Folded
    BY <1>3, SameFold
  <2> QED BY <1>1, <1>3, <2>1 DEF OutOK
<1>4. CASE Finish
  BY <1>3, <1>4 DEF Finish
<1>5. CASE UNCHANGED vars
  <2>1. CASE pc \in {"finish", "done"}
    BY <1>3, <1>5, <2>1 DEF vars
  <2>2. CASE pc \notin {"finish", "done"}
    BY <1>5, <2>2 DEF vars, OutOK
  <2> QED BY <2>1, <2>2
<1>6. CASE \E n \in 0 .. job.nodes - 1 : PeerAnswers(n) \/ PeerFails(n)
  <2>1. pc' = pc /\ waiting # {}
    BY <1>6 DEF PeerAnswers, PeerFails
  <2>2. pc \notin {"finish", "done"}
    BY <1>1, <2>1 DEF OutOK
  <2> QED BY <2>1, <2>2 DEF OutOK
<1>7. CASE Route \/ Prefetch
  BY <1>7 DEF Route, Prefetch, LocalError, OutOK
<1>8. CASE Decline \/ GroupKernel \/ GroupKernelFails
  BY <1>8 DEF Decline, GroupKernel, GroupKernelFails, OutOK
<1>9. CASE GroupScatter \/ LoopDone
  BY <1>9 DEF GroupScatter, LoopDone, OutOK
<1>10. CASE OneExpert
  BY <1>10 DEF OneExpert, LocalError, OutOK
<1> QED BY <1>2, <1>4, <1>5, <1>6, <1>7, <1>8, <1>9, <1>10 DEF Next

\* The invariant holds in every reachable state.
THEOREM DispatchInvariant == Spec => []DispatchInv
<1>1. Init => DispatchInv
  <2> SUFFICES ASSUME Init PROVE DispatchInv
    OBVIOUS
  <2>1. job \in Jobs /\ pc = "route" /\ ~failed /\ waiting = {} /\ partial = Nothing /\ answers = <<>>
    BY DEF Init
  <2>2. DOMAIN answers = {}
    BY <2>1
  <2> QED BY <2>1, <2>2 DEF DispatchInv, TypesOK, PeersOK, LocalOK, OutOK
<1>2. DispatchInv /\ [Next]_vars => DispatchInv'
  BY TypesInv, PeersInv, LocalInv, OutInv DEF DispatchInv
<1> QED BY <1>1, <1>2, PTL DEF Spec

-----------------------------------------------------------------------------
(* What is folded.                                                         *)

\* What a node answers for some columns.
LEMMA PartialIs ==
  ASSUME job \in Jobs, NEW r, RoutedOK(r),
         NEW m \in Nat, NEW cols \in [1 .. m -> 1 .. Len(r.uniq)], NEW t \in Tokens, NEW act \in Acts
  PROVE  PartialOf(r, cols, act)[t] = Given(EntriesOf(r, cols), Len(EntriesOf(r, cols)), t, act)
<1> DEFINE as == EntriesOf(r, cols)
           n  == Len(as)
<1>1. /\ n \in Nat /\ DOMAIN as = 1 .. n /\ \A i \in 1 .. n : as[i] \in EntryT
  BY EntriesAre
<1>2. \A x \in Tokens : Nothing[x] = <<>> /\ Nothing[x] \in Seq(TermT)
  BY NothingIs, EmptySeq
<1>3. Given(as, n, t, act) \in Seq(TermT)
  BY <1>1, GivenType
<1>4. PartialOf(r, cols, act) = Scatter(Nothing, as, act)
  BY DEF PartialOf, EntriesOf
<1> HIDE DEF as
<1>5. Scatter(Nothing, as, act) = Added(Nothing, as, n, act)
  BY <1>1, <1>2, ScatterIs
<1>6. Added(Nothing, as, n, act)[t] = Nothing[t] \o Given(as, n, t, act)
  BY DEF Added
<1>7. Nothing[t] \o Given(as, n, t, act) = Given(as, n, t, act)
  BY <1>2, <1>3, ConcatEmptySeq
<1> QED BY <1>4, <1>5, <1>6, <1>7 DEF as

\* The nodes that hold an expert of the batch, in order, or this node alone.
NodesOf == IF Sharded THEN Ascending(job.nodes - 1, OwnersOf(routed.uniq)) ELSE <<job.me>>

\* A node's columns.
ColumnsFor(n) == IF Sharded THEN ColsOf(routed.uniq, n) ELSE [i \in DOMAIN routed.uniq |-> i]

\* A sum has the terms of some columns, computed with one of the layer's activations.
Held(g, cols, t) == \E act \in Activations : TermsFrom(g, routed, cols, t, act)

\* A finished call has one sum per node, and it has the terms of the node's columns.
LEMMA OutIs ==
  ASSUME DispatchInv, pc = "done", NEW t \in Tokens
  PROVE  /\ DOMAIN out[t] = DOMAIN NodesOf
         /\ \A i \in DOMAIN NodesOf : Held(out[t][i], ColumnsFor(NodesOf[i]), t)
<1>1. job \in Jobs /\ RoutedOK(routed) /\ Activations \subseteq Acts
  BY ActivationsAre DEF DispatchInv, TypesOK
<1>2. ~failed /\ waiting = {} /\ out = Folded /\ Summed(routed)
  BY DEF DispatchInv, OutOK, LocalOK
<1>3. DOMAIN answers = Peers /\ \A n \in DOMAIN answers : AnswerOf(n)
  BY <1>2 DEF DispatchInv, PeersOK
<1>4. DOMAIN routed.uniq = 1 .. Len(routed.uniq)
  BY <1>1 DEF RoutedOK
<1>5. Held(partial[t], LocalCols(routed), t)
  <2> DEFINE c == LocalCols(routed)
             m == Len(c)
  <2>1. m \in Nat /\ c \in [1 .. m -> 1 .. Len(routed.uniq)]
    BY <1>1, ColumnsAre
  <2>2. PICK act \in Activations : partial[t] = Given(EntriesOf(routed, c), Len(EntriesOf(routed, c)), t, act)
    BY <1>2 DEF Summed, SumOf, LocalEntries
  <2> HIDE DEF c, m
  <2>3. TermsFrom(Given(EntriesOf(routed, c), Len(EntriesOf(routed, c)), t, act), routed, c, t, act)
    BY <1>1, <2>1, EntriesGive
  <2> QED BY <2>2, <2>3 DEF c, Held
<1>6. ASSUME NEW n \in DOMAIN answers
      PROVE  Held(answers[n][t], ColsOf(routed.uniq, n), t)
  <2> DEFINE c == ColsOf(routed.uniq, n)
             m == Len(c)
  <2>1. m \in Nat /\ c \in [1 .. m -> 1 .. Len(routed.uniq)]
    BY <1>1, ColumnsAre
  <2>2. PICK act \in Activations : answers[n] = PartialOf(routed, c, act)
    BY <1>3 DEF AnswerOf
  <2> HIDE DEF c, m
  <2>3. answers[n][t] = Given(EntriesOf(routed, c), Len(EntriesOf(routed, c)), t, act)
    BY <1>1, <2>1, <2>2, PartialIs
  <2>4. TermsFrom(Given(EntriesOf(routed, c), Len(EntriesOf(routed, c)), t, act), routed, c, t, act)
    BY <1>1, <2>1, EntriesGive
  <2> QED BY <2>3, <2>4 DEF c, Held
<1>7. CASE Sharded
  <2> DEFINE O == OwnersOf(routed.uniq)
             s == Ascending(job.nodes - 1, O)
  <2>1. LocalCols(routed) = ColsOf(routed.uniq, job.me)
    BY <1>7 DEF LocalCols
  <2>2. LocalCols(routed) = <<>> <=> job.me \notin O
    BY <1>1, <1>4, <2>1, ColumnsAre DEF OwnersOf
  <2>3. DOMAIN answers \cup (IF LocalCols(routed) = <<>> THEN {} ELSE {job.me}) = O
    <3>1. DOMAIN answers = O \ {job.me}
      BY <1>3, <1>7 DEF Peers
    <3> HIDE DEF O
    <3> QED BY <2>2, <3>1
  <2>4. FoldOrder = s /\ NodesOf = s
    BY <1>7, <2>3 DEF FoldOrder, NodesOf
  <2>5. \A i \in DOMAIN s : s[i] \in O
    <3>1. job.nodes - 1 \in Nat
      <4>1. job.nodes \in Nat \ {0}
        BY <1>1, DispatchAssumption
      <4> QED BY <4>1
    <3> DEFINE top == job.nodes - 1
    <3> HIDE DEF top, O
    <3>2. top \in Nat
      BY <3>1 DEF top
    <3>3. Lists(Ascending(top, O), O \cap 0 .. top)
      BY <3>2, AscendingLists
    <3>4. Ascending(top, O) \in Seq(Int) /\ \A i \in 1 .. Len(Ascending(top, O)) : Ascending(top, O)[i] \in O
      BY <3>3 DEF Lists
    <3>5. DOMAIN Ascending(top, O) = 1 .. Len(Ascending(top, O))
      BY <3>4, LenProperties
    <3> QED BY <3>4, <3>5 DEF top
  <2> HIDE DEF s
  <2>6. out[t] = [i \in DOMAIN s |-> IF s[i] = job.me THEN partial[t] ELSE answers[s[i]][t]]
    BY <1>2, <1>7, <2>4 DEF Folded
  <2>7. ASSUME NEW i \in DOMAIN s
        PROVE  Held(out[t][i], ColsOf(routed.uniq, s[i]), t)
    <3>1. CASE s[i] = job.me
      <4>1. out[t][i] = partial[t]
        BY <2>6, <3>1
      <4> QED BY <1>5, <2>1, <3>1, <4>1
    <3>2. CASE s[i] # job.me
      <4>1. s[i] \in DOMAIN answers
        BY <1>3, <1>7, <2>5, <3>2 DEF Peers
      <4>2. out[t][i] = answers[s[i]][t]
        BY <2>6, <3>2
      <4> QED BY <1>6, <4>1, <4>2
    <3> QED BY <3>1, <3>2
  <2>8. DOMAIN out[t] = DOMAIN s
    BY <2>6
  <2> QED BY <1>7, <2>4, <2>7, <2>8 DEF ColumnsFor
<1>8. CASE ~Sharded
  <2>1. NodesOf = <<job.me>> /\ out[t] = <<partial[t]>>
    BY <1>2, <1>8 DEF NodesOf, Folded
  <2>2. LocalCols(routed) = ColumnsFor(job.me)
    BY <1>8 DEF LocalCols, ColumnsFor
  <2>3. DOMAIN NodesOf = {1} /\ DOMAIN out[t] = {1} /\ NodesOf[1] = job.me /\ out[t][1] = partial[t]
    BY <2>1
  <2> QED BY <1>5, <2>2, <2>3
<1> QED BY <1>7, <1>8

\* The order of a token's terms.
LEMMA OrderFixed == DispatchInv => AccumulationFixed
<1> SUFFICES ASSUME DispatchInv, pc = "done", NEW t \in Tokens
             PROVE  LET terms(n) ==
                          LET cols == ColumnsFor(n)
                              its == Ascending(Len(cols), {j \in DOMAIN cols : routed.w_mat[t][cols[j]] # 0})
                          IN  [i \in DOMAIN its |-> <<routed.uniq[cols[its[i]]], routed.w_mat[t][cols[its[i]]]>>]
                    IN  [i \in DOMAIN out[t] |-> [j \in DOMAIN out[t][i] |-> <<out[t][i][j].e, out[t][i][j].w>>]]
                          = [i \in DOMAIN NodesOf |-> terms(NodesOf[i])]
  BY DEF AccumulationFixed, NodesOf, ColumnsFor
<1> DEFINE its(n) == Ascending(Len(ColumnsFor(n)), {j \in DOMAIN ColumnsFor(n) : routed.w_mat[t][ColumnsFor(n)[j]] # 0})
           terms(n) == [i \in DOMAIN its(n) |->
                          <<routed.uniq[ColumnsFor(n)[its(n)[i]]], routed.w_mat[t][ColumnsFor(n)[its(n)[i]]]>>]
<1>1. DOMAIN out[t] = DOMAIN NodesOf
  BY OutIs
<1>2. ASSUME NEW i \in DOMAIN NodesOf
      PROVE  [j \in DOMAIN out[t][i] |-> <<out[t][i][j].e, out[t][i][j].w>>] = terms(NodesOf[i])
  <2> DEFINE g == out[t][i]
             n == NodesOf[i]
  <2>1. PICK act \in Activations : TermsFrom(g, routed, ColumnsFor(n), t, act)
    BY OutIs DEF Held
  <2> HIDE DEF g, n
  <2>2. DOMAIN g = DOMAIN its(n)
    BY <2>1 DEF TermsFrom
  <2>3. \A j \in DOMAIN its(n) : g[j] = [e |-> routed.uniq[ColumnsFor(n)[its(n)[j]]],
                                        w |-> routed.w_mat[t][ColumnsFor(n)[its(n)[j]]], act |-> act]
    BY <2>1 DEF TermsFrom
  <2> HIDE DEF its
  <2>4. \A j \in DOMAIN its(n) : <<g[j].e, g[j].w>> =
          <<routed.uniq[ColumnsFor(n)[its(n)[j]]], routed.w_mat[t][ColumnsFor(n)[its(n)[j]]]>>
    <3> SUFFICES ASSUME NEW j \in DOMAIN its(n)
                 PROVE  <<g[j].e, g[j].w>> =
                          <<routed.uniq[ColumnsFor(n)[its(n)[j]]], routed.w_mat[t][ColumnsFor(n)[its(n)[j]]]>>
      OBVIOUS
    <3> DEFINE e == routed.uniq[ColumnsFor(n)[its(n)[j]]]
               w == routed.w_mat[t][ColumnsFor(n)[its(n)[j]]]
    <3>1. g[j] = [e |-> e, w |-> w, act |-> act]
      BY <2>3
    <3> HIDE DEF e, w
    <3>2. g[j].e = e /\ g[j].w = w
      BY <3>1
    <3>3. <<g[j].e, g[j].w>> = <<e, w>>
      BY <3>2
    <3> QED BY <3>3 DEF e, w
  <2>5. [j \in DOMAIN g |-> <<g[j].e, g[j].w>>] = terms(n)
    BY <2>2, <2>4
  <2> QED BY <2>5 DEF g, n
<1> HIDE DEF terms
<1>3. [i \in DOMAIN out[t] |-> [j \in DOMAIN out[t][i] |-> <<out[t][i][j].e, out[t][i][j].w>>]]
        = [i \in DOMAIN NodesOf |-> terms(NodesOf[i])]
  BY <1>1, <1>2
<1> QED BY <1>3 DEF terms, its

\* The order in which a token's f32 sum is added up is a function of the routing and the
\* placement alone: neither the grouped calls that declined or failed half-way, nor the order
\* in which the peers answered, shows in it (moe.rs sharded_experts_partial's sort by node,
\* compute_experts_partial_into's grouped calls and expert loop).
THEOREM OrderAlwaysFixed == Spec => []AccumulationFixed
BY DispatchInvariant, OrderFixed, PTL

-----------------------------------------------------------------------------
(* The weights of a token's slots are those the router declares.           *)

\* A sum over positions that hold each element of S once is the sum over S.
LEMMA SumReindex ==
  ASSUME NEW S, IsFiniteSet(S), NEW f \in [S -> Nat], NEW k \in Nat, NEW g, Numbers(g, k, S),
         NEW h \in [1 .. k -> Nat], \A i \in 1 .. k : h[i] = f[g[i]]
  PROVE  SumFunction(h) = SumFunction(f)
<1> DEFINE K == 1 .. k
           v == SumFunction(f)
           image(T) == {g[i] : i \in T}
<1>1. IsFiniteSet(K) /\ g \in [K -> S] /\ h \in [K -> Nat]
  BY ExpertsAre DEF Numbers
<1>2. IsSum(f, S, v) /\ v \in Nat
  BY FoldIsSum, SumNat
<1>3. IsSum(h, K, SumFunction(h))
  BY <1>1, FoldIsSum
<1>4. (\A i, j \in K : g[i] = g[j] => i = j) /\ (\A x \in S : \E i \in K : g[i] = x) /\ (\A i \in K : h[i] = f[g[i]])
  BY DEF Numbers
<1> HIDE DEF K, v
<1>5. PICK s \in PartialSums(f, S) : s[S] = v
  BY <1>2 DEF IsSum
<1>6. s \in [SUBSET S -> Nat] /\ s[{}] = 0 /\ \A T \in SUBSET S : \A x \in T : s[T] = s[T \ {x}] + f[x]
  BY <1>5 DEF PartialSums
<1>7. \A T \in SUBSET K : image(T) \in SUBSET S
  BY <1>1
<1> DEFINE z == [T \in SUBSET K |-> s[image(T)]]
<1>8. z \in [SUBSET K -> Nat]
  <2> HIDE DEF image
  <2>1. \A T \in SUBSET K : s[image(T)] \in Nat
    BY <1>6, <1>7
  <2> QED BY <2>1
<1>9. z[{}] = 0
  <2>1. image({}) = {} /\ {} \in SUBSET K
    OBVIOUS
  <2> HIDE DEF image
  <2> QED BY <1>6, <2>1
<1>10. ASSUME NEW T \in SUBSET K, NEW i \in T PROVE z[T] = z[T \ {i}] + h[i]
  <2>1. image(T \ {i}) = image(T) \ {g[i]}
    BY <1>4
  <2>2. g[i] \in image(T) /\ T \ {i} \in SUBSET K /\ i \in K
    OBVIOUS
  <2> HIDE DEF image
  <2>3. z[T] = s[image(T)] /\ z[T \ {i}] = s[image(T) \ {g[i]}]
    BY <2>1, <2>2
  <2>4. s[image(T)] = s[image(T) \ {g[i]}] + f[g[i]]
    BY <1>6, <1>7, <2>2
  <2> QED BY <1>4, <2>2, <2>3, <2>4
<1>11. image(K) = S /\ K \in SUBSET K
  BY <1>1, <1>4
<1>12. z[K] = v
  <2> HIDE DEF image
  <2> QED BY <1>5, <1>11
<1> HIDE DEF z
<1>13. IsSum(h, K, v)
  BY <1>8, <1>9, <1>10, <1>12 DEF IsSum, PartialSums
<1>14. SumFunction(h) = v
  BY <1>1, <1>3, <1>13, SumUnique
<1> QED BY <1>14 DEF v

\* A quotient is the only one with its remainder.
LEMMA QuotientIs ==
  ASSUME NEW a \in Nat, NEW b \in Nat \ {0}, NEW q \in Nat, NEW r \in Nat, r < b, a = q * b + r
  PROVE  a \div b = q
<1> DEFINE d == a \div b
           m == a % b
<1>1. d \in Nat /\ m \in Nat /\ m < b /\ a = d * b + m
  BY DivMod
<1> HIDE DEF d, m
<1>2. ASSUME NEW x \in Nat, NEW y \in Nat, NEW u \in Nat, NEW v \in Nat,
             x * b + u = y * b + v, u < b, v < b
      PROVE  ~(x < y)
  <2> SUFFICES ASSUME x < y PROVE FALSE
    OBVIOUS
  <2>1. PICK z \in Nat : y = x + 1 + z
    <3>1. y - x - 1 \in Nat /\ y = x + 1 + (y - x - 1)
      OBVIOUS
    <3> QED BY <3>1
  <2>2. y * b = x * b + b + z * b /\ z * b \in Nat /\ x * b \in Nat
    BY <2>1
  <2> QED BY <1>2, <2>2
<1>3. ~(d < q)
  BY <1>1, <1>2
<1>4. ~(q < d)
  BY <1>1, <1>2
<1>5. d = q
  BY <1>1, <1>3, <1>4
<1> QED BY <1>5 DEF d

\* A quotient does not change when both of its sides are scaled.
LEMMA ScaledQuotient ==
  ASSUME NEW a \in Nat, NEW b \in Nat \ {0}, NEW c \in Nat \ {0}
  PROVE  (a * c) \div (b * c) = a \div b
<1> DEFINE q == a \div b
           r == a % b
<1>1. q \in Nat /\ r \in Nat /\ r < b /\ a = q * b + r
  BY DivMod
<1> HIDE DEF q, r
<1>2. a * c = q * (b * c) + r * c /\ a * c \in Nat /\ r * c \in Nat
  <2>1. a * c = (q * b) * c + r * c
    BY <1>1
  <2>2. (q * b) * c = q * (b * c)
    BY <1>1
  <2> QED BY <1>1, <2>1, <2>2
<1>3. b * c \in Nat \ {0} /\ r * c < b * c
  <2>1. PICK z \in Nat : b = r + 1 + z
    <3>1. b - r - 1 \in Nat /\ b = r + 1 + (b - r - 1)
      BY <1>1
    <3> QED BY <3>1
  <2>2. b * c = r * c + c + z * c /\ z * c \in Nat
    BY <1>1, <2>1
  <2> QED BY <1>2, <2>2
<1> DEFINE A == a * c
           B == b * c
           R == r * c
<1>4. A \in Nat /\ B \in Nat \ {0} /\ R \in Nat /\ R < B /\ A = q * B + R
  BY <1>2, <1>3
<1> HIDE DEF A, B, R
<1>5. A \div B = q
  BY <1>1, <1>4, QuotientIs
<1> QED BY <1>5 DEF A, B, q

\* Weights over their sum are shares of the k best.
LEMMA SharesAre ==
  ASSUME NEW choice \in [Experts -> Int], NEW score \in [Experts -> Nat],
         NEW k \in Nat, k <= NumExperts,
         NEW w \in [1 .. k -> Nat], \A i \in 1 .. k : w[i] = score[GreedyTopK(choice, k)[i]]
  PROVE  \A i \in 1 .. k : Normalise(w)[i] = DeclaredTopK(choice, score, k, GreedyTopK(choice, k)[i])
<1> DEFINE g == GreedyTopK(choice, k)
           best == {f \in Experts : Chosen(choice, k, f)}
           f == [e \in best |-> score[e]]
           sum == SumFunction(w)
           n == [i \in 1 .. k |-> IF sum = 0 THEN 0 ELSE (w[i] * Unit) \div sum]
<1>1. Numbers(g, k, best)
  BY GreedyIs
<1>2. \A i \in 1 .. k : w[i] = score[g[i]]
  OBVIOUS
<1> HIDE DEF g
<1>3. IsFiniteSet(best)
  <2>1. best \subseteq Experts
    OBVIOUS
  <2> QED BY <2>1, ExpertsAre, FS_Subset
<1>5. \A e \in best : e \in Experts /\ score[e] \in Nat
  OBVIOUS
<1>6. \A i \in 1 .. k : g[i] \in best
  BY <1>1 DEF Numbers
<1>7. \A i \in 1 .. k : DeclaredTopK(choice, score, k, g[i]) = ScoreOver(score[g[i]], SumFunction(f))
  BY <1>6 DEF DeclaredTopK
<1> HIDE DEF best
<1>8. f \in [best -> Nat]
  BY <1>5
<1>9. \A i \in 1 .. k : w[i] = f[g[i]]
  BY <1>2, <1>6
<1> HIDE DEF f
<1>10. sum = SumFunction(f)
  BY <1>1, <1>3, <1>8, <1>9, SumReindex
<1>11. Normalise(w) = Strict(n)
  BY DEF Normalise
<1>12. sum \in Nat
  BY ExpertsAre, SumNat
<1> HIDE DEF sum
<1>13. n \in [1 .. k -> Nat] /\ \A i \in 1 .. k : n[i] = ScoreOver(w[i], sum)
  <2>1. ASSUME NEW i \in 1 .. k PROVE (IF sum = 0 THEN 0 ELSE (w[i] * Unit) \div sum) \in Nat
    <3>1. w[i] * Unit \in Nat
      BY RoutingAssumption
    <3> QED BY <1>12, <3>1, DivMod
  <2>2. n \in [1 .. k -> Nat]
    BY <2>1
  <2>3. \A i \in 1 .. k : n[i] = ScoreOver(w[i], sum)
    BY DEF ScoreOver
  <2> QED BY <2>2, <2>3
<1> HIDE DEF n
<1>14. Normalise(w) = n
  BY <1>11, <1>13, IndexSeq
<1>15. \A i \in 1 .. k : Normalise(w)[i] = DeclaredTopK(choice, score, k, g[i])
  BY <1>2, <1>7, <1>10, <1>13, <1>14
<1> QED BY <1>15 DEF g

\* A softmax whose sum divides Unit scales the scores.
LEMMA SoftmaxIs ==
  ASSUME NEW score \in [Experts -> Nat], SumFunction(score) # 0, Unit % SumFunction(score) = 0
  PROVE  \E c \in Nat \ {0} : \A e \in Experts : (score[e] * Unit) \div SumFunction(score) = score[e] * c
<1> DEFINE T == SumFunction(score)
           c == Unit \div T
<1>1. T \in Nat \ {0} /\ Unit % T = 0
  BY ExpertsAre, SumNat
<1> HIDE DEF T
<1>2. c \in Nat /\ Unit = c * T /\ Unit \in Nat \ {0}
  <2>1. c \in Nat /\ Unit = c * T + (Unit % T)
    BY <1>1, RoutingAssumption, DivMod
  <2> QED BY <1>1, <2>1, RoutingAssumption
<1> HIDE DEF c
<1>3. c # 0
  BY <1>1, <1>2
<1>4. ASSUME NEW e \in Experts PROVE (score[e] * Unit) \div T = score[e] * c
  <2> DEFINE a == score[e] * Unit
             q == score[e] * c
             r == 0
  <2>1. a \in Nat /\ q \in Nat /\ r \in Nat /\ r < T
    BY <1>1, <1>2
  <2>2. a = q * T + r
    <3>1. score[e] * (c * T) = (score[e] * c) * T
      BY <1>1, <1>2
    <3> QED BY <1>1, <1>2, <2>1, <3>1
  <2> HIDE DEF a, q, r
  <2>3. a \div T = q
    BY <1>1, <2>1, <2>2, QuotientIs
  <2> QED BY <2>3 DEF a, q
<1> QED BY <1>2, <1>3, <1>4 DEF T

\* Scaling keeps the order.
LEMMA ScaledOrder ==
  ASSUME NEW a \in Nat, NEW b \in Nat, NEW c \in Nat \ {0}, NEW x, NEW y, x = a * c, y = b * c
  PROVE  (x > y <=> a > b) /\ (x = y <=> a = b)
<1>1. ASSUME NEW m \in Nat, NEW n \in Nat, m > n PROVE m * c > n * c
  <2>1. PICK z \in Nat : m = n + 1 + z
    <3>1. m - n - 1 \in Nat /\ m = n + 1 + (m - n - 1)
      BY <1>1
    <3> QED BY <3>1
  <2>2. m * c = n * c + c + z * c /\ z * c \in Nat /\ n * c \in Nat
    BY <2>1
  <2> QED BY <2>2
<1>2. x \in Nat /\ y \in Nat
  OBVIOUS
<1>3. a > b => x > y
  BY <1>1
<1>4. b > a => y > x
  BY <1>1
<1>5. a = b => x = y
  OBVIOUS
<1> HIDE <1>1
<1>6. a \in Nat /\ b \in Nat
  OBVIOUS
<1> QED BY <1>2, <1>3, <1>4, <1>5, <1>6

\* Scaled scores choose the same experts, and share the same.
LEMMA ScaledShares ==
  ASSUME NEW score \in [Experts -> Nat], NEW c \in Nat \ {0}, NEW soft \in [Experts -> Nat],
         \A e \in Experts : soft[e] = score[e] * c, NEW k, NEW e \in Experts
  PROVE  /\ Chosen(soft, k, e) <=> Chosen(score, k, e)
         /\ DeclaredTopK(soft, soft, k, e) = DeclaredTopK(score, score, k, e)
<1>2. \A a, b \in Experts : (soft[a] > soft[b] <=> score[a] > score[b]) /\ (soft[a] = soft[b] <=> score[a] = score[b])
  <2> SUFFICES ASSUME NEW a \in Experts, NEW b \in Experts
               PROVE  (soft[a] > soft[b] <=> score[a] > score[b]) /\ (soft[a] = soft[b] <=> score[a] = score[b])
    OBVIOUS
  <2>1. score[a] \in Nat /\ score[b] \in Nat /\ soft[a] = score[a] * c /\ soft[b] = score[b] * c
    OBVIOUS
  <2> QED BY <2>1, ScaledOrder
<1>3. ASSUME NEW f \in Experts PROVE Chosen(soft, k, f) <=> Chosen(score, k, f)
  <2>1. {g \in Experts : soft[g] > soft[f] \/ (soft[g] = soft[f] /\ g < f)}
          = {g \in Experts : score[g] > score[f] \/ (score[g] = score[f] /\ g < f)}
    BY <1>2
  <2> QED BY <2>1 DEF Chosen
<1> DEFINE best == {f \in Experts : Chosen(score, k, f)}
           s == [f \in best |-> score[f]]
           h == [f \in best |-> soft[f]]
           v == SumFunction(s)
<1>4. best = {f \in Experts : Chosen(soft, k, f)}
  BY <1>3
<1>5. /\ DeclaredTopK(score, score, k, e) = IF e \in best THEN ScoreOver(score[e], v) ELSE 0
      /\ DeclaredTopK(soft, soft, k, e) = IF e \in best THEN ScoreOver(soft[e], SumFunction(h)) ELSE 0
  BY <1>4 DEF DeclaredTopK
<1>6. IsFiniteSet(best) /\ \A f \in best : f \in Experts
  <2>1. best \subseteq Experts
    OBVIOUS
  <2> QED BY <2>1, ExpertsAre, FS_Subset
<1> HIDE DEF best
<1>7. s \in [best -> Nat] /\ h \in [best -> Nat] /\ \A f \in best : s[f] \in Nat /\ h[f] = s[f] * c
  BY <1>6
<1> HIDE DEF s, h
<1>8. IsSum(s, best, v) /\ IsSum(h, best, SumFunction(h)) /\ v \in Nat
  BY <1>6, <1>7, FoldIsSum, SumNat
<1> HIDE DEF v
<1>9. IsSum(h, best, v * c)
  <2>1. c \in Nat
    OBVIOUS
  <2> QED BY <1>7, <1>8, <2>1, SumScale
<1>10. SumFunction(h) = v * c
  BY <1>6, <1>8, <1>9, SumUnique
<1>11. ScoreOver(soft[e], v * c) = ScoreOver(score[e], v)
  <2>1. soft[e] = score[e] * c /\ score[e] \in Nat /\ (v * c = 0 <=> v = 0)
    BY <1>8
  <2> DEFINE a == score[e] * Unit
  <2>2. soft[e] * Unit = a * c /\ a \in Nat
    <3>1. (score[e] * c) * Unit = (score[e] * Unit) * c
      BY <2>1, RoutingAssumption
    <3> QED BY <2>1, <3>1, RoutingAssumption
  <2> HIDE DEF a
  <2>3. v # 0 => (a * c) \div (v * c) = a \div v
    BY <1>8, <2>2, ScaledQuotient
  <2> QED BY <2>1, <2>2, <2>3 DEF ScoreOver, a
<1> QED BY <1>3, <1>5, <1>10, <1>11

\* A row of k slots has for each expert the weight `want', in the last slot that names it.
Serves(row, k, want) ==
  /\ \A e \in Experts : (\A j \in 1 .. k : row.idx[j] # e) => want[e] = 0
  /\ \A j \in 1 .. k : (\A i \in 1 .. k : row.idx[i] = row.idx[j] => i <= j) => row.w[j] = want[row.idx[j]]

\* What a router declares for its k best experts.
Declared(kind, norm, score, bias, k) ==
  LET biased == [f \in Experts |-> score[f] + (IF kind = "softmax" THEN 0 ELSE bias[f])]
  IN  [e \in Experts |->
         IF norm THEN DeclaredTopK(biased, score, k, e)
         ELSE IF ~Chosen(biased, k, e) THEN 0
         ELSE IF kind = "softmax" THEN (score[e] * Unit) \div SumFunction(score) ELSE score[e]]

\* The slots of a router.
LEMMA RouteServes ==
  ASSUME NEW kind, NEW norm, NEW score \in [Experts -> Nat], NEW bias \in [Experts -> Int],
         NEW topk \in Nat \ {0},
         kind = "softmax" => SumFunction(score) # 0 /\ Unit % SumFunction(score) = 0
  PROVE  LET k == Smaller(topk, NumExperts)
         IN  Serves(route(kind, norm, score, bias, topk), k, Declared(kind, norm, score, bias, k))
<1> DEFINE k == Smaller(topk, NumExperts)
           soft == [e \in Experts |-> (score[e] * Unit) \div SumFunction(score)]
           p == IF kind = "softmax" THEN soft ELSE score
           moved == [e \in Experts |-> p[e] + bias[e]]
           choice == IF kind = "softmax" THEN p ELSE moved
           idx == GreedyTopK(choice, k)
           g == [i \in 1 .. k |-> p[idx[i]]]
           w == Strict(g)
           biased == [f \in Experts |-> score[f] + (IF kind = "softmax" THEN 0 ELSE bias[f])]
           want == Declared(kind, norm, score, bias, k)
           row == route(kind, norm, score, bias, topk)
<1>1. k \in Nat /\ k <= NumExperts
  BY RoutingAssumption DEF Smaller
<1>2. row.idx = idx /\ row.w = IF norm THEN Normalise(w) ELSE w
  <2>1. row = [idx |-> idx, w |-> IF norm THEN Normalise(w) ELSE w]
    BY DEF route
  <2> QED BY <2>1
<1>3. \A e \in Experts : want[e] = IF norm THEN DeclaredTopK(biased, score, k, e)
                                   ELSE IF ~Chosen(biased, k, e) THEN 0 ELSE p[e]
  BY DEF Declared
<1> HIDE DEF row, want, k
<1>4. kind # "softmax" => moved = biased /\ biased \in [Experts -> Int]
  <2>1. \A e \in Experts : score[e] + bias[e] \in Int
    OBVIOUS
  <2> QED BY <2>1
<1>5. kind = "softmax" => biased = score
  <2>1. \A e \in Experts : score[e] + 0 = score[e]
    OBVIOUS
  <2> SUFFICES ASSUME kind = "softmax" PROVE biased = score
    OBVIOUS
  <2>2. biased = [f \in Experts |-> score[f] + 0]
    OBVIOUS
  <2>3. biased = [f \in Experts |-> score[f]]
    BY <2>1, <2>2
  <2> QED BY <2>3
<1>6. ASSUME kind = "softmax"
      PROVE  /\ soft \in [Experts -> Nat]
             /\ \A e \in Experts : /\ Chosen(soft, k, e) <=> Chosen(score, k, e)
                                   /\ DeclaredTopK(soft, soft, k, e) = DeclaredTopK(score, score, k, e)
  <2>1. PICK c \in Nat \ {0} : \A e \in Experts : (score[e] * Unit) \div SumFunction(score) = score[e] * c
    BY <1>6, SoftmaxIs
  <2>2. \A e \in Experts : score[e] * c \in Nat /\ soft[e] = score[e] * c
    BY <2>1
  <2>3. DOMAIN soft = Experts /\ soft = [e \in Experts |-> soft[e]]
    OBVIOUS
  <2> HIDE DEF soft
  <2>4. soft \in [Experts -> Nat]
    BY <2>2, <2>3
  <2> QED BY <2>2, <2>4, ScaledShares
<1> HIDE DEF soft, moved, biased
<1>7. /\ p \in [Experts -> Nat] /\ choice \in [Experts -> Int]
      /\ \A e \in Experts : /\ Chosen(choice, k, e) <=> Chosen(biased, k, e)
                            /\ DeclaredTopK(choice, p, k, e) = DeclaredTopK(biased, score, k, e)
  <2>1. CASE kind = "softmax"
    <3>1. p = soft /\ choice = soft /\ biased = score
      BY <1>5, <2>1
    <3>2. soft \in [Experts -> Int]
      <4>1. DOMAIN soft = Experts /\ \A e \in Experts : soft[e] \in Int
        BY <1>6, <2>1
      <4> QED BY <1>6, <2>1, <4>1
    <3> HIDE DEF p, choice
    <3> QED BY <1>6, <2>1, <3>1, <3>2
  <2>2. CASE kind # "softmax"
    <3>1. p = score /\ choice = biased
      BY <1>4, <2>2
    <3> HIDE DEF p, choice
    <3> QED BY <1>4, <2>2, <3>1
  <2> QED BY <2>1, <2>2
<1> HIDE DEF p, choice
<1> DEFINE best == {e \in Experts : Chosen(choice, k, e)}
<1>8. Numbers(idx, k, best)
  BY <1>1, <1>7, GreedyIs
<1>9. \A i \in 1 .. k : idx[i] \in Experts /\ Chosen(choice, k, idx[i])
  BY <1>8 DEF Numbers
<1>10. \A e \in Experts : Chosen(choice, k, e) => \E i \in 1 .. k : idx[i] = e
  BY <1>8 DEF Numbers
<1>11. \A i, j \in 1 .. k : idx[i] = idx[j] => i = j
  BY <1>8 DEF Numbers
<1> HIDE DEF best
<1>12. g \in [1 .. k -> Nat] /\ \A i \in 1 .. k : g[i] = p[idx[i]]
  <2>1. \A i \in 1 .. k : p[idx[i]] \in Nat
    BY <1>7, <1>9
  <2> HIDE DEF idx
  <2> QED BY <2>1
<1> HIDE DEF g
<1>13. w = g
  BY <1>1, <1>12, IndexSeq
<1> HIDE DEF w
<1>14. norm => \A i \in 1 .. k : Normalise(w)[i] = DeclaredTopK(choice, p, k, idx[i])
  BY <1>1, <1>7, <1>12, <1>13, SharesAre
<1> HIDE DEF idx
<1>15. ASSUME NEW e \in Experts, \A j \in 1 .. k : row.idx[j] # e PROVE want[e] = 0
  <2>1. ~Chosen(choice, k, e)
    BY <1>2, <1>10, <1>15
  <2>2. ~Chosen(biased, k, e)
    BY <1>7, <2>1
  <2>3. DeclaredTopK(biased, score, k, e) = 0
    BY <2>2 DEF DeclaredTopK
  <2> QED BY <1>3, <2>2, <2>3
<1>16. ASSUME NEW j \in 1 .. k PROVE row.w[j] = want[row.idx[j]]
  <2> DEFINE e == idx[j]
  <2>1. e \in Experts /\ Chosen(biased, k, e)
    BY <1>7, <1>9
  <2>2. CASE norm
    BY <1>2, <1>3, <1>7, <1>14, <2>1, <2>2
  <2>3. CASE ~norm
    BY <1>2, <1>3, <1>12, <1>13, <2>1, <2>3
  <2> QED BY <2>2, <2>3
<1>17. Serves(row, k, want)
  BY <1>15, <1>16 DEF Serves
<1> QED BY <1>17 DEF row, want, k

\* As many as there are positions.
LEMMA NumbersCount ==
  ASSUME NEW k \in Nat, NEW S, NEW g, Numbers(g, k, S)
  PROVE  Cardinality(S) = k
<1>1. g \in Bijection(1 .. k, S)
  BY DEF Numbers, Bijection, Injection, Surjection, IsInjective
<1>2. ExistsBijection(1 .. k, S)
  BY <1>1 DEF ExistsBijection
<1> QED BY <1>2, FS_CountingElements

\* No expert is paired twice.
Functional(pairs) == \A p, q \in pairs : p[1] = q[1] => p = q

\* Each pair once, and as many as there are experts.
LEMMA ByIdIs ==
  ASSUME NEW pairs, \A p \in pairs : p \in PairT, Functional(pairs)
  PROVE  Numbers(ById(pairs), Cardinality({p[1] : p \in pairs}), pairs)
<1> DEFINE E == {p[1] : p \in pairs}
           last == NumExperts - 1
           es == Ascending(last, E)
           n == Len(es)
           g == [i \in 1 .. n |-> CHOOSE p \in pairs : p[1] = es[i]]
<1>1. last \in Nat /\ Experts = 0 .. last
  BY RoutingAssumption DEF Experts
<1>2. E \cap 0 .. last = E
  <2>1. \A e \in E : e \in Experts
    BY DEF PairT
  <2> QED BY <1>1, <2>1
<1>3. Lists(es, E)
  <2> HIDE DEF last, E
  <2> QED BY <1>1, <1>2, AscendingLists
<1>4. /\ n \in Nat /\ DOMAIN es = 1 .. n /\ \A i \in 1 .. n : es[i] \in E
      /\ \A e \in E : \E i \in 1 .. n : es[i] = e
      /\ \A i, j \in 1 .. n : i < j => es[i] < es[j]
      /\ \A i \in 1 .. n : es[i] \in Int
  <2> HIDE DEF last, E, es
  <2> QED BY <1>3 DEF Lists, Within, Rises
<1>5. \A i, j \in 1 .. n : es[i] = es[j] => i = j
  <2> SUFFICES ASSUME NEW i \in 1 .. n, NEW j \in 1 .. n, es[i] = es[j] PROVE i = j
    OBVIOUS
  <2> HIDE DEF es
  <2>1. es[i] \in Int /\ es[j] \in Int /\ (i < j => es[i] < es[j]) /\ (j < i => es[j] < es[i])
    BY <1>4
  <2>2. i \in Int /\ j \in Int
    BY <1>4
  <2> QED BY <2>1, <2>2
<1> HIDE DEF es, n
<1>6. Cardinality(E) = n
  <2> DEFINE f == [i \in 1 .. n |-> es[i]]
  <2>1. f \in [1 .. n -> E] /\ (\A e \in E : \E i \in 1 .. n : f[i] = e) /\ (\A i, j \in 1 .. n : f[i] = f[j] => i = j)
    BY <1>4, <1>5
  <2> HIDE DEF f, E
  <2>2. Numbers(f, n, E)
    BY <2>1 DEF Numbers
  <2> QED BY <1>4, <2>2, NumbersCount
<1>7. ASSUME NEW i \in 1 .. n PROVE g[i] \in pairs /\ g[i][1] = es[i]
  <2>1. PICK p \in pairs : p[1] = es[i]
    BY <1>4
  <2>2. (CHOOSE q \in pairs : q[1] = es[i]) \in pairs /\ (CHOOSE q \in pairs : q[1] = es[i])[1] = es[i]
    BY <2>1
  <2> QED BY <2>2
<1>8. DOMAIN g = 1 .. n /\ g = [i \in 1 .. n |-> g[i]]
  OBVIOUS
<1>9. ById(pairs) = Strict(g)
  BY <1>4 DEF ById, es
<1> HIDE DEF g
<1>10. g \in [1 .. n -> pairs]
  BY <1>7, <1>8
<1>11. ById(pairs) = g
  BY <1>4, <1>9, <1>10, IndexSeq
<1>12. \A i, j \in 1 .. n : g[i] = g[j] => i = j
  BY <1>5, <1>7
<1>13. ASSUME NEW p \in pairs PROVE \E i \in 1 .. n : g[i] = p
  <2>1. p[1] \in E
    OBVIOUS
  <2>2. PICK i \in 1 .. n : es[i] = p[1]
    BY <1>4, <2>1
  <2>3. g[i] = p
    BY <1>7, <2>2 DEF Functional
  <2> QED BY <2>3
<1>14. Numbers(g, n, pairs)
  BY <1>10, <1>12, <1>13 DEF Numbers
<1> QED BY <1>6, <1>11, <1>14

\* A V4 row of as many pairs as slots holds the weights that the pairs have.
LEMMA StridedServes ==
  ASSUME NEW k \in Nat, NEW pairs, \A p \in pairs : p \in PairT, Functional(pairs),
         NEW picked, Numbers(picked, k, pairs),
         NEW want, \A p \in pairs : want[p[1]] = p[2],
         \A e \in Experts : (\A p \in pairs : p[1] # e) => want[e] = 0
  PROVE  Serves(Strided(picked, k), k, want)
<1> DEFINE a == [j \in 1 .. k |-> IF j <= Len(picked) THEN picked[j][1]
                                  ELSE IF picked = <<>> THEN 0 ELSE picked[1][1]]
           b == [j \in 1 .. k |-> IF j <= Len(picked) THEN picked[j][2] ELSE 0]
           row == Strided(picked, k)
<1>1. picked \in [1 .. k -> pairs]
  BY DEF Numbers
<1>2. Len(picked) = k
  BY <1>1, IndexSeq
<1>3. \A j \in 1 .. k : a[j] = picked[j][1] /\ b[j] = picked[j][2]
  BY <1>2
<1>4. row.idx = Strict(a) /\ row.w = Strict(b)
  <2>1. row = [idx |-> Strict(a), w |-> Strict(b)]
    BY DEF Strided
  <2> QED BY <2>1
<1>5. DOMAIN a = 1 .. k /\ DOMAIN b = 1 .. k /\ a = [j \in 1 .. k |-> a[j]] /\ b = [j \in 1 .. k |-> b[j]]
  OBVIOUS
<1> HIDE DEF a, b, row
<1>6. \A j \in 1 .. k : picked[j] \in pairs /\ a[j] \in Experts /\ b[j] \in Nat
  BY <1>1, <1>3 DEF PairT
<1>7. a \in [1 .. k -> Experts] /\ b \in [1 .. k -> Nat]
  BY <1>5, <1>6
<1>8. row.idx = a /\ row.w = b
  BY <1>4, <1>7, IndexSeq
<1>9. ASSUME NEW e \in Experts, \A j \in 1 .. k : row.idx[j] # e PROVE want[e] = 0
  <2>1. ASSUME NEW p \in pairs PROVE p[1] # e
    <3>1. PICK j \in 1 .. k : picked[j] = p
      BY DEF Numbers
    <3> QED BY <1>3, <1>8, <1>9, <3>1
  <2> QED BY <2>1
<1>10. \A j \in 1 .. k : row.w[j] = want[row.idx[j]]
  BY <1>3, <1>6, <1>8
<1>11. Serves(row, k, want)
  BY <1>9, <1>10 DEF Serves
<1> QED BY <1>11 DEF row

\* The slots of a V4 layer without a hash table.
LEMMA TopKServes ==
  ASSUME NEW kind, kind # "softmax", NEW score \in [Experts -> Nat], NEW bias \in [Experts -> Int],
         NEW k \in Nat \ {0}, k <= NumExperts
  PROVE  Serves(Strided(route_topk(score, bias, k), k), k, Declared(kind, TRUE, score, bias, k))
<1> DEFINE choice == [e \in Experts |-> score[e] + bias[e]]
           order == GreedyTopK(choice, k)
           g == [i \in 1 .. k |-> score[order[i]]]
           w == Normalise(g)
           pairs == {<<order[i], w[i]>> : i \in 1 .. k}
           best == {e \in Experts : Chosen(choice, k, e)}
           want == Declared(kind, TRUE, score, bias, k)
<1>1. Smaller(k, NumExperts) = k
  BY RoutingAssumption DEF Smaller
<1>2. choice \in [Experts -> Int]
  <2>1. \A e \in Experts : score[e] + bias[e] \in Int
    OBVIOUS
  <2> QED BY <2>1
<1>3. \A e \in Experts : want[e] = DeclaredTopK(choice, score, k, e)
  BY DEF Declared
<1>4. route_topk(score, bias, k) = ById(pairs)
  BY <1>1 DEF route_topk
<1> HIDE DEF choice, want
<1>5. Numbers(order, k, best)
  BY <1>2, GreedyIs
<1>6. /\ \A i \in 1 .. k : order[i] \in best /\ order[i] \in Experts
      /\ \A i, j \in 1 .. k : order[i] = order[j] => i = j
      /\ \A e \in best : \E i \in 1 .. k : order[i] = e
  <2>1. \A e \in best : e \in Experts
    OBVIOUS
  <2> HIDE DEF best, order
  <2> QED BY <1>5, <2>1 DEF Numbers
<1>7. order \in [1 .. k -> Experts]
  BY <1>2, GreedyType
<1>8. g \in [1 .. k -> Nat] /\ \A i \in 1 .. k : g[i] = score[GreedyTopK(choice, k)[i]]
  <2>1. \A i \in 1 .. k : score[order[i]] \in Nat
    BY <1>6
  <2> QED BY <2>1
<1> HIDE DEF g
<1>9. w \in [1 .. k -> Nat]
  BY <1>8, NormaliseType
<1>10. \A i \in 1 .. k : w[i] = DeclaredTopK(choice, score, k, order[i])
  BY <1>2, <1>8, SharesAre
<1> HIDE DEF w, order, best
<1>11. \A p \in pairs : p \in PairT
  BY <1>6, <1>9 DEF PairT
<1>12. Functional(pairs)
  <2> SUFFICES ASSUME NEW i \in 1 .. k, NEW j \in 1 .. k, order[i] = order[j]
               PROVE  <<order[i], w[i]>> = <<order[j], w[j]>>
    BY DEF Functional
  <2> QED BY <1>6
<1>13. {p[1] : p \in pairs} = best
  <2>1. \A p \in pairs : p[1] \in best
    BY <1>6
  <2>2. ASSUME NEW e \in best PROVE \E p \in pairs : p[1] = e
    <3>1. PICK i \in 1 .. k : order[i] = e
      BY <1>6
    <3>2. <<order[i], w[i]>> \in pairs /\ <<order[i], w[i]>>[1] = e
      BY <3>1
    <3> QED BY <3>2
  <2> HIDE DEF pairs
  <2> QED BY <2>1, <2>2
<1>14. Cardinality(best) = k
  BY <1>5, NumbersCount
<1>15. \A p \in pairs : want[p[1]] = p[2]
  BY <1>3, <1>6, <1>10
<1>16. ASSUME NEW e \in Experts, \A p \in pairs : p[1] # e PROVE want[e] = 0
  <2>1. e \notin best
    BY <1>13, <1>16
  <2>2. ~Chosen(choice, k, e)
    BY <2>1 DEF best
  <2> QED BY <1>3, <2>2 DEF DeclaredTopK
<1> HIDE DEF pairs
<1> DEFINE picked == ById(pairs)
<1>17. Numbers(picked, k, pairs)
  BY <1>11, <1>12, <1>13, <1>14, ByIdIs
<1> HIDE DEF picked
<1>18. k \in Nat
  OBVIOUS
<1>19. Serves(Strided(picked, k), k, want)
  BY <1>11, <1>12, <1>15, <1>16, <1>17, <1>18, StridedServes
<1> QED BY <1>4, <1>19 DEF picked, want

\* What an expert that a table row repeats is merged to.
LEMMA MergedIs ==
  ASSUME NEW score \in [Experts -> Nat], NEW m \in Nat, NEW valid \in [1 .. m -> Experts], NEW e \in Experts
  PROVE  SumFunction([i \in 1 .. m |-> IF valid[i] = e THEN score[valid[i]] ELSE 0])
           = Cardinality({i \in 1 .. m : valid[i] = e}) * score[e]
<1> DEFINE S == 1 .. m
           A == {i \in S : valid[i] = e}
           one == [i \in S |-> IF i \in A THEN 1 ELSE 0]
           f == [i \in S |-> IF valid[i] = e THEN score[valid[i]] ELSE 0]
           c == score[e]
<1>1. IsFiniteSet(S)
  BY ExpertsAre
<1>2. c \in Nat
  OBVIOUS
<1>3. A \in SUBSET S /\ \A i \in S : one[i] = IF i \in A THEN 1 ELSE 0
  OBVIOUS
<1>4. \A i \in S : one[i] \in Nat /\ f[i] = one[i] * c
  <2> SUFFICES ASSUME NEW i \in S PROVE one[i] \in Nat /\ f[i] = one[i] * c
    OBVIOUS
  <2>1. CASE valid[i] = e
    <3>1. one[i] = 1 /\ f[i] = c
      BY <2>1
    <3> HIDE DEF one, f, c
    <3> QED BY <1>2, <3>1
  <2>2. CASE valid[i] # e
    <3>1. one[i] = 0 /\ f[i] = 0
      BY <2>2
    <3> HIDE DEF one, f, c
    <3> QED BY <1>2, <3>1
  <2> QED BY <2>1, <2>2
<1>5. f \in [S -> Nat] /\ DOMAIN f = S /\ \A i \in S : f[i] \in Nat
  <2>1. \A i \in S : (IF valid[i] = e THEN score[valid[i]] ELSE 0) \in Nat
    OBVIOUS
  <2> QED BY <2>1
<1>6. f = [i \in 1 .. m |-> IF valid[i] = e THEN score[valid[i]] ELSE 0] /\ A = {i \in 1 .. m : valid[i] = e}
  OBVIOUS
<1> HIDE DEF S, A, one, f, c
<1>7. IsSum(one, S, Cardinality(A))
  BY <1>1, <1>3, SumCounts
<1>8. IsSum(f, S, Cardinality(A) * c)
  BY <1>2, <1>4, <1>7, SumScale
<1>9. IsSum(f, S, SumFunction(f))
  BY <1>1, <1>5, FoldIsSum
<1>10. SumFunction(f) = Cardinality(A) * c
  BY <1>1, <1>8, <1>9, SumUnique
<1> QED BY <1>6, <1>10 DEF c

\* The slots of a hash layer whose table rows need no padding.
LEMMA HashServes ==
  ASSUME NEW score \in [Experts -> Nat], NEW eids \in Seq(Nat), NEW k \in Nat \ {0}, WholeRow(eids, k)
  PROVE  Serves(Strided(route_hash(score, eids), k), k, [e \in Experts |-> DeclaredHash(score, eids, e)])
<1> DEFINE valid == Valid(eids)
           scores == [i \in DOMAIN valid |-> score[valid[i]]]
           part(e) == [i \in DOMAIN valid |-> IF valid[i] = e THEN scores[i] ELSE 0]
           merged(e) == SumFunction(part(e))
           sum == SumFunction(scores)
           x(e) == IF sum = 0 THEN 0 ELSE (merged(e) * Unit) \div sum
           V == ToSet(valid)
           pairs == {<<e, x(e)>> : e \in V}
           times(e) == Cardinality({i \in DOMAIN valid : valid[i] = e})
           want == [e \in Experts |-> DeclaredHash(score, eids, e)]
           picked == route_hash(score, eids)
<1>1. PICK m \in Nat : valid \in [1 .. m -> Experts]
  BY ValidType
<1>2. picked = ById(pairs)
  BY DEF route_hash
<1>3. \A e \in Experts : want[e] = IF times(e) = 0 THEN 0 ELSE ScoreOver(times(e) * score[e], sum)
  BY DEF DeclaredHash
<1>4. Cardinality(V) \in {0, k}
  BY DEF WholeRow
<1> HIDE DEF valid, picked, want
<1>5. DOMAIN valid = 1 .. m /\ V \subseteq Experts /\ V = {valid[i] : i \in 1 .. m}
  BY <1>1 DEF ToSet
<1>6. scores \in [1 .. m -> Nat] /\ \A i \in 1 .. m : scores[i] = score[valid[i]]
  <2>1. \A i \in 1 .. m : score[valid[i]] \in Nat
    BY <1>1
  <2> QED BY <1>5, <2>1
<1>7. sum \in Nat
  BY <1>6, ExpertsAre, SumNat
<1> HIDE DEF scores, sum
<1>8. ASSUME NEW e \in Experts PROVE merged(e) = times(e) * score[e] /\ times(e) \in Nat
  <2>1. part(e) = [i \in 1 .. m |-> IF valid[i] = e THEN score[valid[i]] ELSE 0]
    BY <1>5, <1>6
  <2>2. times(e) = Cardinality({i \in 1 .. m : valid[i] = e})
    BY <1>5
  <2>3. times(e) \in Nat
    <3>1. {i \in 1 .. m : valid[i] = e} \subseteq 1 .. m /\ IsFiniteSet(1 .. m)
      BY ExpertsAre
    <3> DEFINE T == {i \in 1 .. m : valid[i] = e}
               M == 1 .. m
    <3>2. T \subseteq M /\ IsFiniteSet(M)
      BY <3>1
    <3> HIDE DEF T, M
    <3>3. IsFiniteSet(T)
      BY <3>2, FS_Subset
    <3> QED BY <2>2, <3>3, FS_CardinalityType DEF T
  <2> HIDE DEF part, times
  <2>4. merged(e) = times(e) * score[e]
    <3>1. SumFunction([i \in 1 .. m |-> IF valid[i] = e THEN score[valid[i]] ELSE 0])
            = Cardinality({i \in 1 .. m : valid[i] = e}) * score[e]
      BY <1>1, MergedIs
    <3>2. SumFunction(part(e)) = Cardinality({i \in 1 .. m : valid[i] = e}) * score[e]
      BY <2>1, <3>1, Zenon
    <3> QED BY <2>2, <3>2
  <2> QED BY <2>3, <2>4
<1>9. ASSUME NEW e \in Experts PROVE times(e) = 0 <=> e \notin V
  <2> DEFINE T == {i \in 1 .. m : valid[i] = e}
             M == 1 .. m
  <2>1. T \subseteq M /\ IsFiniteSet(M)
    BY ExpertsAre
  <2>2. (T = {}) <=> (e \notin V)
    BY <1>5
  <2>3. times(e) = Cardinality(T)
    BY <1>5
  <2> HIDE DEF T, M, times
  <2>4. IsFiniteSet(T)
    BY <2>1, FS_Subset
  <2>5. Cardinality(T) = 0 <=> T = {}
    BY <2>4, FS_EmptySet
  <2> QED BY <2>2, <2>3, <2>5
<1> HIDE DEF merged, times
<1>10. \A e \in V : e \in Experts
  BY <1>5
<1>11. \A e \in V : x(e) = ScoreOver(times(e) * score[e], sum) /\ x(e) = want[e] /\ x(e) \in Nat
  <2> SUFFICES ASSUME NEW e \in V
               PROVE  x(e) = ScoreOver(times(e) * score[e], sum) /\ x(e) = want[e] /\ x(e) \in Nat
    OBVIOUS
  <2>1. e \in Experts /\ merged(e) = times(e) * score[e] /\ times(e) # 0 /\ times(e) \in Nat /\ score[e] \in Nat
    BY <1>8, <1>9, <1>10
  <2>2. x(e) = ScoreOver(times(e) * score[e], sum)
    BY <2>1 DEF ScoreOver
  <2>3. x(e) = want[e]
    BY <1>3, <2>1, <2>2
  <2>4. x(e) \in Nat
    <3>1. merged(e) * Unit \in Nat
      BY <2>1, RoutingAssumption
    <3> QED BY <1>7, <3>1, DivMod
  <2> QED BY <2>2, <2>3, <2>4
<1> HIDE DEF x
<1>12. \A e \in Experts : e \notin V => want[e] = 0
  BY <1>3, <1>9
<1> HIDE DEF V
<1>13. \A p \in pairs : p \in PairT /\ want[p[1]] = p[2] /\ p[1] \in V
  BY <1>10, <1>11 DEF PairT
<1>14. Functional(pairs)
  <2> SUFFICES ASSUME NEW p \in pairs, NEW q \in pairs, p[1] = q[1] PROVE p = q
    BY DEF Functional
  <2>1. PICK d \in V : p = <<d, x(d)>>
    OBVIOUS
  <2>2. PICK e \in V : q = <<e, x(e)>>
    OBVIOUS
  <2>3. d = e
    BY <2>1, <2>2
  <2> QED BY <2>1, <2>2, <2>3
<1>15. \A e \in V : \E p \in pairs : p[1] = e
  <2> SUFFICES ASSUME NEW e \in V PROVE \E p \in pairs : p[1] = e
    OBVIOUS
  <2>1. <<e, x(e)>> \in pairs /\ <<e, x(e)>>[1] = e
    OBVIOUS
  <2> QED BY <2>1
<1>16. pairs = {} <=> V = {}
  OBVIOUS
<1> HIDE DEF pairs
<1>17. {p[1] : p \in pairs} = V
  BY <1>13, <1>15
<1> DEFINE n == Cardinality(V)
<1>18. Numbers(picked, n, pairs)
  BY <1>2, <1>13, <1>14, <1>17, ByIdIs
<1>19. CASE n = k
  <2>1. Numbers(picked, k, pairs) /\ k \in Nat
    BY <1>18, <1>19
  <2>2. \A e \in Experts : (\A p \in pairs : p[1] # e) => want[e] = 0
    BY <1>12, <1>15
  <2>3. Serves(Strided(picked, k), k, want)
    BY <1>13, <1>14, <2>1, <2>2, StridedServes
  <2> QED BY <2>3 DEF picked, want
<1>20. CASE n = 0
  <2>1. V = {}
    <3>1. IsFiniteSet(V)
      BY <1>5, ExpertsAre, FS_Subset
    <3> QED BY <1>20, <3>1, FS_EmptySet
  <2>2. picked = <<>>
    <3>1. picked \in [1 .. n -> pairs] /\ n \in Nat
      BY <1>18, <1>20 DEF Numbers
    <3> HIDE DEF n
    <3>2. picked \in Seq(pairs) /\ Len(picked) = 0
      BY <1>20, <3>1, IndexSeq
    <3> QED BY <3>2, EmptySeq
  <2>3. \A e \in Experts : want[e] = 0
    BY <1>12, <2>1
  <2> DEFINE a == [j \in 1 .. k |-> IF j <= Len(picked) THEN picked[j][1]
                                    ELSE IF picked = <<>> THEN 0 ELSE picked[1][1]]
             b == [j \in 1 .. k |-> IF j <= Len(picked) THEN picked[j][2] ELSE 0]
             row == Strided(picked, k)
  <2>4. Len(picked) = 0
    BY <2>2
  <2>5. \A j \in 1 .. k : a[j] = 0 /\ b[j] = 0
    BY <2>2, <2>4
  <2>6. DOMAIN a = 1 .. k /\ DOMAIN b = 1 .. k /\ a = [j \in 1 .. k |-> a[j]] /\ b = [j \in 1 .. k |-> b[j]]
    OBVIOUS
  <2>7. row.idx = Strict(a) /\ row.w = Strict(b)
    <3>1. row = [idx |-> Strict(a), w |-> Strict(b)]
      BY DEF Strided
    <3> QED BY <3>1
  <2> HIDE DEF a, b, row
  <2>8. a \in [1 .. k -> Nat] /\ b \in [1 .. k -> Nat]
    BY <2>5, <2>6
  <2>9. row.idx = a /\ row.w = b
    BY <2>7, <2>8, IndexSeq
  <2>10. \A j \in 1 .. k : row.w[j] = want[row.idx[j]]
    BY <2>3, <2>5, <2>9, ExpertsAre
  <2>11. Serves(row, k, want)
    BY <2>3, <2>10 DEF Serves
  <2> QED BY <2>11 DEF row, picked, want
<1> QED BY <1>4, <1>19, <1>20

\* The weights the router declares for a token.
WantedOf(t) == [e \in Experts |-> Wanted(t, e)]

\* The slots of a token hold them.
LEMMA RowServes ==
  ASSUME WholeHashRows, job \in Jobs, NEW t \in Tokens
  PROVE  Serves(RowOf(t), Smaller(TopK, NumExperts), WantedOf(t))
<1> DEFINE k == Smaller(TopK, NumExperts)
           s == job.score[t]
           biased == [f \in Experts |-> s[f] + (IF job.kind = "softmax" THEN 0 ELSE job.bias[f])]
<1>1. TopK \in Nat \ {0} /\ k \in Nat \ {0} /\ k <= NumExperts
  BY RoutingAssumption, DispatchAssumption DEF Smaller
<1>2. /\ job.score \in Seq([Experts -> Nat]) /\ job.bias \in [Experts -> Int]
      /\ job.table \in Seq(Seq(Nat)) /\ (job.table # <<>> => Len(job.table) = Len(job.score))
      /\ (job.arch = "dsv4" => job.kind # "softmax")
      /\ (job.kind = "softmax" => SumFunction(s) # 0 /\ Unit % SumFunction(s) = 0)
  BY DispatchAssumption DEF Tokens
<1>3. t \in 1 .. Len(job.score) /\ Len(job.score) \in Nat
  BY TokensAre
<1>4. s \in [Experts -> Nat]
  <2> DEFINE X == [Experts -> Nat]
  <2>1. job.score \in Seq(X)
    BY <1>2
  <2> HIDE DEF X
  <2>2. job.score[t] \in X
    BY <1>3, <2>1, ElementOfSeq
  <2> QED BY <2>2 DEF X
<1>5. CASE job.arch # "dsv4"
  <2>1. RowOf(t) = route(job.kind, job.norm, s, job.bias, TopK)
    BY <1>5 DEF RowOf
  <2>2. WantedOf(t) = Declared(job.kind, job.norm, s, job.bias, k)
    BY <1>5 DEF WantedOf, Wanted, Declared
  <2> HIDE DEF s
  <2>3. Serves(route(job.kind, job.norm, s, job.bias, TopK), Smaller(TopK, NumExperts),
               Declared(job.kind, job.norm, s, job.bias, Smaller(TopK, NumExperts)))
    BY <1>1, <1>2, <1>4, RouteServes
  <2> QED BY <2>1, <2>2, <2>3
<1>6. CASE job.arch = "dsv4" /\ job.table # <<>>
  <2>1. RowOf(t) = Strided(route_hash(s, job.table[t]), k)
    BY <1>6 DEF RowOf
  <2>2. job.table[t] \in Seq(Nat) /\ t \in DOMAIN job.table
    <3> DEFINE X == Seq(Nat)
    <3>1. job.table \in Seq(X) /\ t \in 1 .. Len(job.table) /\ DOMAIN job.table = 1 .. Len(job.table)
      BY <1>2, <1>3, <1>6
    <3> HIDE DEF X
    <3>2. job.table[t] \in X
      BY <3>1, ElementOfSeq
    <3> QED BY <3>1, <3>2 DEF X
  <2>3. WholeRow(job.table[t], k)
    BY <1>6, <2>2 DEF WholeHashRows
  <2>4. WantedOf(t) = [e \in Experts |-> DeclaredHash(s, job.table[t], e)]
    BY <1>6 DEF WantedOf, Wanted
  <2> HIDE DEF s, k
  <2>5. Serves(Strided(route_hash(s, job.table[t]), k), k, [e \in Experts |-> DeclaredHash(s, job.table[t], e)])
    BY <1>1, <1>4, <2>2, <2>3, HashServes
  <2> QED BY <2>1, <2>4, <2>5 DEF k
<1>7. CASE job.arch = "dsv4" /\ job.table = <<>>
  <2>1. RowOf(t) = Strided(route_topk(s, job.bias, k), k)
    BY <1>7 DEF RowOf
  <2>2. WantedOf(t) = Declared(job.kind, TRUE, s, job.bias, k)
    BY <1>7 DEF WantedOf, Wanted, Declared
  <2> HIDE DEF s, k
  <2>3. Serves(Strided(route_topk(s, job.bias, k), k), k, Declared(job.kind, TRUE, s, job.bias, k))
    BY <1>1, <1>2, <1>4, <1>7, TopKServes
  <2> QED BY <2>1, <2>2, <2>3 DEF k
<1> QED BY <1>5, <1>6, <1>7

\* The union lists every expert a token wants, once, with the weight the token wants.
RoutedRight(r) ==
  /\ \A i, j \in 1 .. Len(r.uniq) : r.uniq[i] = r.uniq[j] => i = j
  /\ \A t \in Tokens : \A e \in Experts :
       \/ (\A i \in 1 .. Len(r.uniq) : r.uniq[i] # e) /\ Wanted(t, e) = 0
       \/ \E i \in 1 .. Len(r.uniq) : r.uniq[i] = e /\ r.w_mat[t][i] = Wanted(t, e)

\* Routing makes it so.
LEMMA RoutedIsRight ==
  ASSUME WholeHashRows, job \in Jobs
  PROVE  RoutedRight(union_and_weights(Strict([t \in Tokens |-> RowOf(t)])))
<1> DEFINE r == union_and_weights(Strict([t \in Tokens |-> RowOf(t)]))
           k == Smaller(TopK, NumExperts)
<1>1. RoutedOK(r) /\ UnionOK(r)
  BY UnionIs
<1> HIDE DEF r
<1>2. ASSUME NEW t \in Tokens, NEW e \in Experts
      PROVE  \/ (\A i \in 1 .. Len(r.uniq) : r.uniq[i] # e) /\ Wanted(t, e) = 0
             \/ \E i \in 1 .. Len(r.uniq) : r.uniq[i] = e /\ r.w_mat[t][i] = Wanted(t, e)
  <2> DEFINE row == RowOf(t)
             want == WantedOf(t)
  <2>1. Serves(row, k, want)
    BY RowServes
  <2>2. want[e] = Wanted(t, e)
    BY DEF WantedOf
  <2> HIDE DEF want
  <2>3. \A j \in 1 .. k : \E i \in 1 .. Len(r.uniq) : r.uniq[i] = row.idx[j]
    BY <1>1 DEF UnionOK
  <2>4. \A i \in 1 .. Len(r.uniq) : WeighsAs(row, k, r.uniq[i], r.w_mat[t][i])
    BY <1>1 DEF UnionOK
  <2> HIDE DEF row, k
  <2>5. CASE \A i \in 1 .. Len(r.uniq) : r.uniq[i] # e
    <3>1. \A j \in 1 .. k : row.idx[j] # e
      BY <2>3, <2>5
    <3>2. want[e] = 0
      BY <2>1, <3>1 DEF Serves
    <3> QED BY <2>2, <2>5, <3>2
  <2>6. ASSUME NEW i \in 1 .. Len(r.uniq), r.uniq[i] = e PROVE r.w_mat[t][i] = want[e]
    <3> DEFINE S == {j \in 1 .. k : row.idx[j] = e}
               w == r.w_mat[t][i]
    <3>1. (S = {} /\ w = 0) \/ \E j \in S : (\A l \in S : l <= j) /\ w = row.w[j]
      BY <2>4, <2>6 DEF WeighsAs
    <3> HIDE DEF w
    <3>2. CASE S = {} /\ w = 0
      <4>1. \A j \in 1 .. k : row.idx[j] # e
        BY <3>2
      <4>2. want[e] = 0
        BY <2>1, <4>1 DEF Serves
      <4> QED BY <3>2, <4>2 DEF w
    <3>3. CASE \E j \in S : (\A l \in S : l <= j) /\ w = row.w[j]
      <4>1. PICK j \in S : (\A l \in S : l <= j) /\ w = row.w[j]
        BY <3>3
      <4>2. j \in 1 .. k /\ row.idx[j] = e /\ \A l \in 1 .. k : row.idx[l] = row.idx[j] => l <= j
        BY <4>1
      <4>3. row.w[j] = want[row.idx[j]]
        BY <2>1, <4>2 DEF Serves
      <4> QED BY <4>1, <4>2, <4>3 DEF w
    <3> QED BY <3>1, <3>2, <3>3
  <2> QED BY <2>2, <2>5, <2>6
<1>3. \A i, j \in 1 .. Len(r.uniq) : r.uniq[i] = r.uniq[j] => i = j
  BY <1>1 DEF UnionOK
<1> QED BY <1>2, <1>3 DEF RoutedRight, r

-----------------------------------------------------------------------------
(* Every expert a token wants is in its sum, once.                         *)

\* A list has no number twice.
Distinct(s) == \A i, j \in 1 .. Len(s) : s[i] = s[j] => i = j

\* An ascending list is one.
LEMMA RisesDistinct ==
  ASSUME NEW S, NEW s, Lists(s, S)
  PROVE  Distinct(s)
<1> SUFFICES ASSUME NEW i \in 1 .. Len(s), NEW j \in 1 .. Len(s), s[i] = s[j] PROVE i = j
  BY DEF Distinct
<1>1. s \in Seq(Int) /\ Rises(s)
  BY DEF Lists
<1>2. Len(s) \in Nat /\ s[i] \in Int /\ s[j] \in Int
  BY <1>1, LenProperties, ElementOfSeq
<1>3. i \in Int /\ j \in Int /\ (i < j => s[i] < s[j]) /\ (j < i => s[j] < s[i])
  BY <1>1, <1>2 DEF Rises
<1> QED BY <1>2, <1>3

\* Some columns of a union of L experts, and such a union.
ColumnList(cols, L) == Len(cols) \in Nat /\ cols \in [1 .. Len(cols) -> 1 .. L] /\ Distinct(cols)
UnionList(u, L) == u \in [1 .. L -> Experts] /\ \A i, j \in 1 .. L : u[i] = u[j] => i = j

\* What the terms g of some columns have of the expert of column c: one term, if the column is theirs.
AddedOnce(g, r, cols, t, act, c) ==
  /\ \A i \in DOMAIN g : g[i].e = r.uniq[c] =>
       /\ Within(c, cols) /\ r.w_mat[t][c] # 0
       /\ g[i].w = r.w_mat[t][c] /\ g[i].act = act
  /\ \A i, j \in DOMAIN g : g[i].e = r.uniq[c] /\ g[j].e = r.uniq[c] => i = j
  /\ Within(c, cols) /\ r.w_mat[t][c] # 0 => \E i \in DOMAIN g : g[i].e = r.uniq[c]

\* The terms of some columns hold the expert of column c once, if they are the ones to.
LEMMA TermPlace ==
  ASSUME NEW r, NEW L \in Nat, UnionList(r.uniq, L), NEW cols, ColumnList(cols, L),
         NEW t, NEW act, NEW g, TermsFrom(g, r, cols, t, act), NEW c \in 1 .. L
  PROVE  AddedOnce(g, r, cols, t, act, c)
<1> DEFINE m == Len(cols)
<1>0. /\ m \in Nat /\ cols \in [1 .. m -> 1 .. L] /\ Distinct(cols)
      /\ r.uniq \in [1 .. L -> Experts] /\ \A i, j \in 1 .. L : r.uniq[i] = r.uniq[j] => i = j
  BY DEF ColumnList, UnionList
<1> DEFINE I == {j \in DOMAIN cols : r.w_mat[t][cols[j]] # 0}
           its == Ascending(m, I)
<1>1. DOMAIN cols = 1 .. m /\ \A q \in 1 .. m : cols[q] \in 1 .. L
  BY <1>0
<1>2. \A x \in I : x \in 1 .. m /\ r.w_mat[t][cols[x]] # 0
  BY <1>1
<1>3. \A x \in 1 .. m : r.w_mat[t][cols[x]] # 0 => x \in I
  BY <1>1
<1> HIDE DEF m
<1>4. /\ DOMAIN g = DOMAIN its
      /\ \A i \in DOMAIN its :
           g[i] = [e |-> r.uniq[cols[its[i]]], w |-> r.w_mat[t][cols[its[i]]], act |-> act]
  BY DEF TermsFrom, m
<1> HIDE DEF I
<1>5. /\ Lists(its, I) /\ Len(its) \in Nat /\ DOMAIN its = 1 .. Len(its)
      /\ \A i \in 1 .. Len(its) : its[i] \in I
  BY <1>0, <1>2, AscendingPositions
<1> HIDE DEF its
<1>6. Distinct(its)
  BY <1>5, RisesDistinct
<1>7. ASSUME NEW i \in DOMAIN g
      PROVE  /\ its[i] \in 1 .. m /\ cols[its[i]] \in 1 .. L /\ i \in 1 .. Len(its)
             /\ g[i].e = r.uniq[cols[its[i]]] /\ g[i].w = r.w_mat[t][cols[its[i]]] /\ g[i].act = act
             /\ r.w_mat[t][cols[its[i]]] # 0
  <2>1. i \in 1 .. Len(its) /\ its[i] \in I
    BY <1>4, <1>5
  <2>2. its[i] \in 1 .. m /\ r.w_mat[t][cols[its[i]]] # 0
    BY <1>2, <2>1
  <2> DEFINE ee == r.uniq[cols[its[i]]]
             ww == r.w_mat[t][cols[its[i]]]
  <2>3. g[i] = [e |-> ee, w |-> ww, act |-> act]
    BY <1>4, <1>5, <2>1
  <2> HIDE DEF ee, ww
  <2>4. g[i].e = ee /\ g[i].w = ww /\ g[i].act = act
    BY <2>3
  <2> QED BY <1>1, <2>1, <2>2, <2>4 DEF ee, ww
<1>8. \A i \in DOMAIN g : g[i].e = r.uniq[c] => cols[its[i]] = c
  BY <1>0, <1>7
<1>9. \A i \in DOMAIN g : g[i].e = r.uniq[c] =>
        /\ Within(c, cols) /\ r.w_mat[t][c] # 0
        /\ g[i].w = r.w_mat[t][c] /\ g[i].act = act
  <2> SUFFICES ASSUME NEW i \in DOMAIN g, g[i].e = r.uniq[c]
               PROVE  /\ Within(c, cols) /\ r.w_mat[t][c] # 0
                      /\ g[i].w = r.w_mat[t][c] /\ g[i].act = act
    OBVIOUS
  <2>1. cols[its[i]] = c
    BY <1>8
  <2> DEFINE q == its[i]
  <2>2. q \in 1 .. m /\ cols[q] = c
    BY <1>7, <2>1
  <2> HIDE DEF q
  <2>3. Within(c, cols)
    BY <2>2 DEF Within, m
  <2> QED BY <1>7, <2>1, <2>3
<1>10. \A i, j \in DOMAIN g : g[i].e = r.uniq[c] /\ g[j].e = r.uniq[c] => i = j
  <2> SUFFICES ASSUME NEW i \in DOMAIN g, NEW j \in DOMAIN g, g[i].e = r.uniq[c], g[j].e = r.uniq[c]
               PROVE  i = j
    OBVIOUS
  <2>1. cols[its[i]] = cols[its[j]]
    BY <1>8
  <2>2. its[i] = its[j]
    BY <1>0, <1>7, <2>1 DEF Distinct
  <2> QED BY <1>6, <1>7, <2>2 DEF Distinct
<1>11. ASSUME Within(c, cols), r.w_mat[t][c] # 0 PROVE \E i \in DOMAIN g : g[i].e = r.uniq[c]
  <2>1. PICK q \in 1 .. m : cols[q] = c
    BY <1>0, <1>1, <1>11 DEF Within
  <2>2. q \in I
    BY <1>3, <1>11, <2>1
  <2>3. PICK i \in 1 .. Len(its) : its[i] = q
    BY <1>5, <2>2 DEF Lists, Within
  <2>4. i \in DOMAIN g
    BY <1>4, <1>5
  <2> QED BY <1>7, <2>1, <2>3, <2>4
<1> QED BY <1>9, <1>10, <1>11 DEF AddedOnce

\* A node's columns.
LEMMA ColumnsHold ==
  ASSUME job \in Jobs, RoutedOK(routed), NEW n
  PROVE  LET c == ColumnsFor(n)
             L == Len(routed.uniq)
         IN  /\ Len(c) \in Nat /\ c \in [1 .. Len(c) -> 1 .. L] /\ Distinct(c)
             /\ \A x \in 1 .. L : Within(x, c) <=> (Sharded => job.owner[routed.uniq[x]] = n)
<1> DEFINE c == ColumnsFor(n)
           L == Len(routed.uniq)
           S == {x \in 1 .. L : job.owner[routed.uniq[x]] = n}
<1>1. L \in Nat /\ DOMAIN routed.uniq = 1 .. L
  BY DEF RoutedOK
<1>2. CASE Sharded
  <2>1. c = ColsOf(routed.uniq, n)
    BY <1>2 DEF ColumnsFor
  <2>2. c = Ascending(L, S)
    BY <1>1, <2>1 DEF ColsOf
  <2>3. Len(c) \in Nat /\ c \in [1 .. Len(c) -> 1 .. L]
    <3> DEFINE d == ColsOf(routed.uniq, n)
    <3>1. Len(d) \in Nat /\ d \in [1 .. Len(d) -> 1 .. L]
      BY ColumnsAre
    <3> HIDE DEF c, d, L
    <3>2. c = d
      BY <2>1 DEF d
    <3> QED BY <3>1, <3>2
  <2>4. \A x \in S : x \in 1 .. L
    OBVIOUS
  <2>5. \A x \in 1 .. L : x \in S <=> job.owner[routed.uniq[x]] = n
    OBVIOUS
  <2> HIDE DEF c, S, L
  <2>6. Lists(c, S)
    BY <1>1, <2>2, <2>4, AscendingPositions
  <2>7. Distinct(c)
    BY <2>6, RisesDistinct
  <2>8. \A x \in 1 .. L : Within(x, c) <=> x \in S
    BY <2>6 DEF Lists, Within
  <2> QED BY <1>2, <2>3, <2>5, <2>7, <2>8 DEF c, L
<1>3. CASE ~Sharded
  <2>1. c = [i \in 1 .. L |-> i]
    BY <1>1, <1>3 DEF ColumnsFor
  <2> HIDE DEF c, L
  <2>2. c \in [1 .. L -> 1 .. L] /\ \A i \in 1 .. L : c[i] = i
    BY <2>1
  <2>3. Len(c) = L
    BY <1>1, <2>2, IndexSeq
  <2>4. Distinct(c) /\ \A x \in 1 .. L : Within(x, c)
    BY <2>2, <2>3 DEF Distinct, Within
  <2> QED BY <1>1, <1>3, <2>2, <2>3, <2>4 DEF c, L
<1> QED BY <1>2, <1>3

\* The nodes of a fold, and every owner among them.
LEMMA NodesHold ==
  ASSUME job \in Jobs, RoutedOK(routed)
  PROVE  /\ Len(NodesOf) \in Nat /\ DOMAIN NodesOf = 1 .. Len(NodesOf) /\ Distinct(NodesOf)
         /\ ~Sharded => Len(NodesOf) = 1
         /\ Sharded => \A x \in 1 .. Len(routed.uniq) : Within(job.owner[routed.uniq[x]], NodesOf)
<1>1. CASE Sharded
  <2> DEFINE O == OwnersOf(routed.uniq)
             top == job.nodes - 1
  <2>1. top \in Nat /\ job.owner \in [Experts -> 0 .. top]
    BY DispatchAssumption
  <2>2. DOMAIN routed.uniq = 1 .. Len(routed.uniq) /\ \A x \in 1 .. Len(routed.uniq) : routed.uniq[x] \in Experts
    BY DEF RoutedOK
  <2>3. (\A o \in O : o \in 0 .. top) /\ \A x \in 1 .. Len(routed.uniq) : job.owner[routed.uniq[x]] \in O
    BY <2>1, <2>2 DEF OwnersOf
  <2>4. NodesOf = Ascending(top, O)
    BY <1>1 DEF NodesOf
  <2> HIDE DEF O, top
  <2>5. O \cap 0 .. top = O
    BY <2>3
  <2>6. Lists(NodesOf, O)
    BY <2>1, <2>4, <2>5, AscendingLists
  <2>7. NodesOf \in Seq(Int)
    BY <2>6 DEF Lists
  <2>8. Len(NodesOf) \in Nat /\ DOMAIN NodesOf = 1 .. Len(NodesOf)
    BY <2>7, LenProperties
  <2>9. Distinct(NodesOf)
    BY <2>6, RisesDistinct
  <2>10. \A o \in O : Within(o, NodesOf)
    BY <2>6 DEF Lists
  <2> QED BY <1>1, <2>3, <2>8, <2>9, <2>10
<1>2. CASE ~Sharded
  <2>1. NodesOf = <<job.me>>
    BY <1>2 DEF NodesOf
  <2>2. Len(NodesOf) = 1 /\ DOMAIN NodesOf = 1 .. 1
    BY <2>1
  <2> QED BY <1>2, <2>2 DEF Distinct
<1> QED BY <1>1, <1>2

\* Every column is one node's.
LEMMA OnePlace ==
  ASSUME job \in Jobs, RoutedOK(routed), NEW x \in 1 .. Len(routed.uniq)
  PROVE  /\ \E p \in DOMAIN NodesOf : Within(x, ColumnsFor(NodesOf[p]))
         /\ \A p, q \in DOMAIN NodesOf :
              Within(x, ColumnsFor(NodesOf[p])) /\ Within(x, ColumnsFor(NodesOf[q])) => p = q
<1>1. \A n : Within(x, ColumnsFor(n)) <=> (Sharded => job.owner[routed.uniq[x]] = n)
  BY ColumnsHold
<1>2. /\ Len(NodesOf) \in Nat /\ DOMAIN NodesOf = 1 .. Len(NodesOf) /\ Distinct(NodesOf)
      /\ ~Sharded => Len(NodesOf) = 1
      /\ Sharded => Within(job.owner[routed.uniq[x]], NodesOf)
  BY NodesHold
<1>3. CASE Sharded
  <2>1. PICK p \in 1 .. Len(NodesOf) : NodesOf[p] = job.owner[routed.uniq[x]]
    BY <1>2, <1>3 DEF Within
  <2>2. Within(x, ColumnsFor(NodesOf[p]))
    BY <1>1, <2>1
  <2>3. ASSUME NEW q \in DOMAIN NodesOf, NEW o \in DOMAIN NodesOf,
               Within(x, ColumnsFor(NodesOf[q])), Within(x, ColumnsFor(NodesOf[o]))
        PROVE  q = o
    <3>1. NodesOf[q] = NodesOf[o]
      BY <1>1, <1>3, <2>3
    <3> QED BY <1>2, <3>1 DEF Distinct
  <2> QED BY <1>2, <2>2, <2>3
<1>4. CASE ~Sharded
  BY <1>1, <1>2, <1>4
<1> QED BY <1>3, <1>4

\* What a finished call has of the expert of column c: one term, or none at weight 0.
LEMMA ColumnAdded ==
  ASSUME DispatchInv, pc = "done", RoutedRight(routed), NEW t \in Tokens, NEW c \in 1 .. Len(routed.uniq)
  PROVE  LET e == routed.uniq[c]
             w == routed.w_mat[t][c]
         IN  /\ \A n \in DOMAIN out[t] : \A i \in DOMAIN out[t][n] :
                  out[t][n][i].e = e => w # 0 /\ out[t][n][i].w = w /\ out[t][n][i].act \in Activations
             /\ \A n, m \in DOMAIN out[t] : \A i \in DOMAIN out[t][n], j \in DOMAIN out[t][m] :
                  out[t][n][i].e = e /\ out[t][m][j].e = e => n = m /\ i = j
             /\ w # 0 => \E n \in DOMAIN out[t] : \E i \in DOMAIN out[t][n] : out[t][n][i].e = e
<1> DEFINE L == Len(routed.uniq)
           e == routed.uniq[c]
           w == routed.w_mat[t][c]
           cols(n) == ColumnsFor(NodesOf[n])
<1>1. job \in Jobs /\ RoutedOK(routed)
  BY DEF DispatchInv, TypesOK
<1>2. L \in Nat /\ routed.uniq \in [1 .. L -> Experts] /\ \A i, j \in 1 .. L : routed.uniq[i] = routed.uniq[j] => i = j
  BY <1>1 DEF RoutedOK, RoutedRight
<1>3. /\ DOMAIN out[t] = DOMAIN NodesOf
      /\ \A n \in DOMAIN NodesOf : Held(out[t][n], cols(n), t)
  BY OutIs
<1>4. \A n : Len(cols(n)) \in Nat /\ cols(n) \in [1 .. Len(cols(n)) -> 1 .. L] /\ Distinct(cols(n))
  <2> SUFFICES ASSUME NEW n
               PROVE  Len(cols(n)) \in Nat /\ cols(n) \in [1 .. Len(cols(n)) -> 1 .. L] /\ Distinct(cols(n))
    OBVIOUS
  <2> DEFINE p == NodesOf[n]
  <2> HIDE DEF p
  <2>1. LET d == ColumnsFor(p) IN Len(d) \in Nat /\ d \in [1 .. Len(d) -> 1 .. Len(routed.uniq)] /\ Distinct(d)
    BY <1>1, ColumnsHold
  <2> QED BY <2>1 DEF p
<1>5. /\ \E p \in DOMAIN NodesOf : Within(c, cols(p))
      /\ \A p, q \in DOMAIN NodesOf : Within(c, cols(p)) /\ Within(c, cols(q)) => p = q
  BY <1>1, OnePlace
<1> HIDE DEF cols, L
<1>6. ASSUME NEW n \in DOMAIN out[t]
      PROVE  LET g == out[t][n]
             IN  /\ \A i \in DOMAIN g : g[i].e = e =>
                      Within(c, cols(n)) /\ w # 0 /\ g[i].w = w /\ g[i].act \in Activations
                 /\ \A i, j \in DOMAIN g : g[i].e = e /\ g[j].e = e => i = j
                 /\ Within(c, cols(n)) /\ w # 0 => \E i \in DOMAIN g : g[i].e = e
  <2> DEFINE g == out[t][n]
             d == cols(n)
  <2>1. PICK act \in Activations : TermsFrom(g, routed, d, t, act)
    BY <1>3 DEF Held
  <2>2. ColumnList(d, L)
    BY <1>4 DEF ColumnList
  <2>3. c \in 1 .. L /\ L \in Nat /\ UnionList(routed.uniq, L)
    BY <1>2 DEF L, UnionList
  <2> HIDE DEF g, d
  <2>4. AddedOnce(g, routed, d, t, act, c)
    BY <2>1, <2>2, <2>3, TermPlace
  <2> QED BY <2>4 DEF g, d, AddedOnce
<1> HIDE DEF e, w
<1>7. \A n \in DOMAIN out[t] : \A i \in DOMAIN out[t][n] :
        out[t][n][i].e = e => w # 0 /\ out[t][n][i].w = w /\ out[t][n][i].act \in Activations
  BY <1>6
<1>8. ASSUME NEW n \in DOMAIN out[t], NEW m \in DOMAIN out[t],
             NEW i \in DOMAIN out[t][n], NEW j \in DOMAIN out[t][m],
             out[t][n][i].e = e, out[t][m][j].e = e
      PROVE  n = m /\ i = j
  <2>1. n = m
    BY <1>3, <1>5, <1>6, <1>8
  <2> QED BY <1>6, <1>8, <2>1
<1>9. ASSUME w # 0 PROVE \E n \in DOMAIN out[t] : \E i \in DOMAIN out[t][n] : out[t][n][i].e = e
  <2>1. PICK p \in DOMAIN NodesOf : Within(c, cols(p))
    BY <1>5
  <2> QED BY <1>3, <1>6, <1>9, <2>1
<1> QED BY <1>7, <1>8, <1>9 DEF e, w

\* A term is of an expert of the union.
LEMMA TermsListed ==
  ASSUME DispatchInv, pc = "done", NEW t \in Tokens, NEW n \in DOMAIN out[t], NEW i \in DOMAIN out[t][n]
  PROVE  \E c \in 1 .. Len(routed.uniq) : out[t][n][i].e = routed.uniq[c]
<1> DEFINE d == ColumnsFor(NodesOf[n])
           its == Ascending(Len(d), {j \in DOMAIN d : routed.w_mat[t][d[j]] # 0})
           L == Len(routed.uniq)
           g == out[t][n]
<1>1. job \in Jobs /\ RoutedOK(routed)
  BY DEF DispatchInv, TypesOK
<1>2. PICK act \in Activations : TermsFrom(g, routed, d, t, act)
  BY OutIs DEF Held
<1>3. d \in [1 .. Len(d) -> 1 .. L]
  <2> DEFINE p == NodesOf[n]
  <2> HIDE DEF p
  <2>1. LET f == ColumnsFor(p) IN f \in [1 .. Len(f) -> 1 .. Len(routed.uniq)]
    BY <1>1, ColumnsHold
  <2> QED BY <2>1 DEF p
<1> HIDE DEF d, L, g
<1>4. its[i] \in DOMAIN d /\ g[i] = [e |-> routed.uniq[d[its[i]]], w |-> routed.w_mat[t][d[its[i]]], act |-> act]
  BY <1>2 DEF TermsFrom, g
<1> HIDE DEF its
<1> DEFINE x == d[its[i]]
           ee == routed.uniq[x]
           ww == routed.w_mat[t][x]
<1>5. x \in 1 .. L
  BY <1>3, <1>4
<1>6. g[i] = [e |-> ee, w |-> ww, act |-> act]
  BY <1>4
<1> HIDE DEF ee, ww, x
<1>7. g[i].e = ee
  BY <1>6
<1> QED BY <1>5, <1>7 DEF ee, g, L

\* The terms of a finished call, expert by expert.
LEMMA SumExact == DispatchInv /\ (pc # "route" => RoutedRight(routed)) => ContributionsExact
<1> SUFFICES ASSUME DispatchInv, RoutedRight(routed), pc = "done", NEW t \in Tokens, NEW e \in Experts
             PROVE  LET of == UNION {{<<n, i>> : i \in {i \in DOMAIN out[t][n] : out[t][n][i].e = e}} : n \in DOMAIN out[t]}
                    IN \/ of = {} /\ Wanted(t, e) = 0
                       \/ \E n \in DOMAIN out[t] : \E i \in DOMAIN out[t][n] :
                            of = {<<n, i>>} /\ out[t][n][i].w = Wanted(t, e) /\ out[t][n][i].act \in Activations
  BY DEF ContributionsExact
<1> DEFINE L == Len(routed.uniq)
           of == UNION {{<<n, i>> : i \in {i \in DOMAIN out[t][n] : out[t][n][i].e = e}} : n \in DOMAIN out[t]}
           v == Wanted(t, e)
           Has(n, i) == n \in DOMAIN out[t] /\ i \in DOMAIN out[t][n] /\ out[t][n][i].e = e
<1>1. \A p : p \in of <=> \E n, i : Has(n, i) /\ p = <<n, i>>
  OBVIOUS
<1>2. \/ (\A i \in 1 .. L : routed.uniq[i] # e) /\ v = 0
      \/ \E i \in 1 .. L : routed.uniq[i] = e /\ routed.w_mat[t][i] = v
  BY DEF RoutedRight
<1> HIDE DEF v, of
<1>3. CASE (\A i \in 1 .. L : routed.uniq[i] # e) /\ v = 0
  <2>1. \A n, i : ~Has(n, i)
    BY <1>3, TermsListed
  <2>2. of = {}
    BY <1>1, <2>1
  <2> QED BY <1>3, <2>2 DEF v, of
<1>4. ASSUME NEW c \in 1 .. L, routed.uniq[c] = e, routed.w_mat[t][c] = v
      PROVE  \/ of = {} /\ v = 0
             \/ \E n \in DOMAIN out[t] : \E i \in DOMAIN out[t][n] :
                  of = {<<n, i>>} /\ out[t][n][i].w = v /\ out[t][n][i].act \in Activations
  <2>1. /\ \A n, i : Has(n, i) => v # 0 /\ out[t][n][i].w = v /\ out[t][n][i].act \in Activations
        /\ \A n, m, i, j : Has(n, i) /\ Has(m, j) => n = m /\ i = j
        /\ v # 0 => \E n, i : Has(n, i)
    BY <1>4, ColumnAdded
  <2>2. CASE v = 0
    <3>1. \A n, i : ~Has(n, i)
      BY <2>1, <2>2
    <3>2. of = {}
      BY <1>1, <3>1
    <3> QED BY <2>2, <3>2
  <2>3. CASE v # 0
    <3>1. PICK n, i : Has(n, i)
      BY <2>1, <2>3
    <3>2. \A m, j : Has(m, j) => m = n /\ j = i
      BY <2>1, <3>1
    <3>3. out[t][n][i].w = v /\ out[t][n][i].act \in Activations /\ n \in DOMAIN out[t] /\ i \in DOMAIN out[t][n]
      BY <2>1, <3>1
    <3> HIDE DEF Has
    <3>4. \A p : p \in of <=> p = <<n, i>>
      BY <1>1, <3>1, <3>2
    <3>5. of = {<<n, i>>}
      BY <3>4
    <3> QED BY <3>3, <3>5
  <2> QED BY <2>2, <2>3
<1> QED BY <1>2, <1>3, <1>4 DEF v, of

\* The weights a token wants are the job's, which nothing changes.
LEMMA SameWanted ==
  ASSUME job' = job, NEW t, NEW e
  PROVE  Wanted(t, e)' = Wanted(t, e)
BY DEF Wanted

\* So a union that is right stays right.
LEMMA SameRight ==
  ASSUME job' = job, routed' = routed, RoutedRight(routed)
  PROVE  RoutedRight(routed)'
<1>1. Tokens' = Tokens
  BY DEF Tokens
<1>2. \A t, e : Wanted(t, e)' = Wanted(t, e)
  BY SameWanted
<1> QED BY <1>1, <1>2 DEF RoutedRight

\* From the routing on, the union lists every expert a token wants with its weight.
ExactInv == pc # "route" => RoutedRight(routed)

\* Nothing is routed yet.
LEMMA InitExact == Init => ExactInv
BY DEF Init, ExactInv

\* Routing makes the union right; no other step touches it.
LEMMA NextExact ==
  ASSUME WholeHashRows, DispatchInv, ExactInv, [Next]_vars
  PROVE  ExactInv'
<1>1. job \in Jobs
  BY DEF DispatchInv, TypesOK
<1>2. CASE Route
  <2> DEFINE r == union_and_weights(Strict([t \in Tokens |-> RowOf(t)]))
  <2>1. routed' = r /\ job' = job
    BY <1>2 DEF Route
  <2>2. RoutedRight(r)
    BY <1>1, RoutedIsRight
  <2>3. Tokens' = Tokens
    BY <2>1 DEF Tokens
  <2>4. \A t, e : Wanted(t, e)' = Wanted(t, e)
    BY <2>1, SameWanted
  <2> HIDE DEF r
  <2>5. RoutedRight(routed)'
    BY <2>1, <2>2, <2>3, <2>4 DEF RoutedRight
  <2> QED BY <2>5 DEF ExactInv
<1>3. CASE ~Route
  <2>1. job' = job /\ routed' = routed /\ (pc = "route" => pc' = "route")
    <3>1. CASE Prefetch \/ Decline \/ GroupKernel \/ GroupKernelFails \/ GroupScatter
      BY <3>1 DEF Prefetch, Decline, GroupKernel, GroupKernelFails, GroupScatter, LocalError
    <3>2. CASE OneExpert \/ LoopDone \/ Join \/ Finish
      BY <3>2 DEF OneExpert, LoopDone, Join, Finish, LocalError
    <3>3. CASE \E n \in 0 .. job.nodes - 1 : PeerAnswers(n) \/ PeerFails(n)
      BY <3>3 DEF PeerAnswers, PeerFails
    <3>4. CASE UNCHANGED vars
      BY <3>4 DEF vars
    <3> QED BY <1>3, <3>1, <3>2, <3>3, <3>4 DEF Next
  <2>2. CASE pc = "route"
    BY <2>1, <2>2 DEF ExactInv
  <2>3. CASE pc # "route"
    <3>1. RoutedRight(routed)'
      BY <2>1, <2>3, SameRight DEF ExactInv
    <3> QED BY <3>1 DEF ExactInv
  <2> QED BY <2>2, <2>3
<1> QED BY <1>2, <1>3

\* When a layer returns, every token holds each of its experts once, with the weight the
\* router declares and the model's activation, whichever grouped call declined or failed
\* half-way and whichever node computed it (moe.rs compute_experts_partial_into); a situ
\* model's share that a grouped SwiGLU call takes is computed with SiLU (Activations).  A hash
\* layer's table rows must name as many different experts as a token has slots, or none: any
\* other row is padded or cut to the slots, with other weights (forward.rs, moe.rs route_hash).
THEOREM ContributionsAlwaysExact ==
  ASSUME WholeHashRows
  PROVE  Spec => []ContributionsExact
<1>1. DispatchInv /\ ExactInv /\ [Next]_vars => ExactInv'
  BY NextExact
<1>2. DispatchInv /\ ExactInv => ContributionsExact
  BY SumExact DEF ExactInv
<1> QED BY <1>1, <1>2, InitExact, DispatchInvariant, PTL DEF Spec
=============================================================================
