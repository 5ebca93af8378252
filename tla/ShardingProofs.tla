--------------------------- MODULE ShardingProofs ---------------------------
(***************************************************************************)
(* For every number of nodes and experts, every capacity and every weight: *)
(* the greedy constructors of ExpertSharding never run out of nodes and    *)
(* give each node its share of the experts to within one, and the          *)
(* contiguous blocks and head slices tile.                                 *)
(*                                                                         *)
(* The argument for the shares: the floors of the exact shares leave       *)
(* `left` experts over, and left * Total is the sum of the remainders.     *)
(* Each remainder is under Total, so there are at least `left` nodes with  *)
(* a positive one, and ranks are dense, so exactly `left` nodes get one    *)
(* more: the quotas sum to n_experts.  Placing respects the quotas, so     *)
(* when all experts are placed every node is at its quota.                 *)
(*                                                                         *)
(* And for every number of layers and experts, size of files and budget:   *)
(* what a node's snapshot, a packed directory and the model's own files    *)
(* give back, after passes cut off anywhere, is the source's bytes, all of *)
(* them or an error.                                                       *)
(*                                                                         *)
(* The argument: every file of a snapshot is the beginning of a file some  *)
(* pass writes, header first, so an entry that ends inside it is exact; a  *)
(* pass has written whole files but the last.  A packed file of n holds    *)
(* the experts round robin as far as it goes, whichever passes over n      *)
(* wrote it, and a whole manifest of n files says where that puts them.    *)
(***************************************************************************)
EXTENDS Shipping, SumTheorems

-----------------------------------------------------------------------------
(* Division.                                                               *)

\* Multiplying by a positive number keeps the order.
LEMMA TimesOrder ==
  ASSUME NEW a \in Int, NEW b \in Int, NEW c \in Nat \ {0}
  PROVE  /\ a * c \in Int /\ b * c \in Int
         /\ a < b <=> a * c < b * c
         /\ a <= b <=> a * c <= b * c
OBVIOUS

\* What the quotient is.
LEMMA DivIs ==
  ASSUME NEW a \in Nat, NEW b \in Nat \ {0}, NEW n \in Nat
  PROVE  a \div b = n <=> n * b <= a /\ a < (n + 1) * b
<1> DEFINE q == a \div b  r == a % b
<1>1. q \in Nat /\ r \in Nat /\ r < b /\ a = q * b + r
  BY DivMod
<1> HIDE DEF q, r
<1>2. (n + 1) * b = n * b + b /\ (q + 1) * b = q * b + b /\ n * b \in Nat /\ q * b \in Nat
  BY <1>1
<1>3. q = n => n * b <= a /\ a < (n + 1) * b
  BY <1>1, <1>2
<1>4. ASSUME q < n PROVE a < n * b
  <2>1. (q + 1) * b <= n * b
    BY <1>1, <1>4, TimesOrder
  <2> QED BY <1>1, <1>2, <2>1
<1>5. ASSUME n < q PROVE (n + 1) * b <= a
  <2>1. (n + 1) * b <= q * b
    BY <1>1, <1>5, TimesOrder
  <2> QED BY <1>1, <1>2, <2>1
<1>6. q = n <=> n * b <= a /\ a < (n + 1) * b
  BY <1>1, <1>2, <1>3, <1>4, <1>5
<1> QED BY <1>6 DEF q

\* div_ceil is the least number whose multiple reaches a.
LEMMA CeilBound ==
  ASSUME NEW a \in Nat, NEW b \in Nat \ {0}, NEW e \in Nat
  PROVE  div_ceil(a, b) <= e <=> a <= e * b
<1> DEFINE q == (a + b - 1) \div b
<1>0. a + b - 1 \in Nat
  OBVIOUS
<1>1. q \in Nat
  BY <1>0, DivMod
<1>2. q * b <= a + b - 1 /\ a + b - 1 < (q + 1) * b
  BY <1>0, <1>1, DivIs
<1> HIDE DEF q
<1>3. q * b \in Nat /\ e * b \in Nat /\ (q + 1) * b = q * b + b /\ (e + 1) * b = e * b + b
  BY <1>1
<1>4. ASSUME q <= e PROVE a <= e * b
  <2>1. q * b <= e * b
    BY <1>1, <1>4, TimesOrder
  <2> QED BY <1>2, <1>3, <2>1
<1>5. ASSUME e < q PROVE e * b < a
  <2>1. (e + 1) * b <= q * b
    BY <1>1, <1>5, TimesOrder
  <2> QED BY <1>2, <1>3, <2>1
<1>6. q <= e <=> a <= e * b
  BY <1>1, <1>3, <1>4, <1>5
<1> QED BY <1>6 DEF q, div_ceil

-----------------------------------------------------------------------------
(* The quotas of capacity_weighted.                                        *)

\* What the constructors are called with.
Args ==
  /\ in.num_nodes \in Nat \ {0} /\ in.n_experts \in Nat \ {0}
  /\ in.capacity \in [Nodes -> Nat] /\ in.weights \in [Experts -> Nat]

\* Nodes and experts are finite sets of the size that was asked for.
LEMMA Counted ==
  ASSUME Args
  PROVE  /\ IsFiniteSet(Nodes) /\ Cardinality(Nodes) = in.num_nodes
         /\ IsFiniteSet(Experts) /\ Cardinality(Experts) = in.n_experts
         /\ Nodes # {} /\ Nodes \subseteq Nat /\ Experts \subseteq Nat
<1>1. in.num_nodes - 1 \in Int /\ in.n_experts - 1 \in Int /\ 0 \in Int
  BY DEF Args
<1>2. IsFiniteSet(Nodes) /\ Cardinality(Nodes) = in.num_nodes
  <2>1. in.num_nodes - 1 - 0 + 1 = in.num_nodes /\ ~(0 > in.num_nodes - 1)
    BY DEF Args
  <2> QED BY <1>1, <2>1, FS_Interval DEF Nodes
<1>3. IsFiniteSet(Experts) /\ Cardinality(Experts) = in.n_experts
  <2>1. in.n_experts - 1 - 0 + 1 = in.n_experts /\ ~(0 > in.n_experts - 1)
    BY DEF Args
  <2> QED BY <1>1, <2>1, FS_Interval DEF Experts
<1>4. 0 \in Nodes /\ Nodes \subseteq Nat /\ Experts \subseteq Nat
  BY DEF Nodes, Experts, Args
<1> QED BY <1>2, <1>3, <1>4

\* The total capacity is the sum over the nodes.
LEMMA TotalIsSum ==
  ASSUME Args
  PROVE  IsSum(in.capacity, Nodes, Total) /\ Total \in Nat
<1>1. DOMAIN in.capacity = Nodes /\ \A n \in Nodes : in.capacity[n] \in Nat
  BY DEF Args
<1>2. IsSum(in.capacity, Nodes, Total)
  BY <1>1, Counted, FoldIsSum DEF Total
<1> QED BY <1>2, SumBounds

\* A node's exact share in parts of Total: whole experts and a remainder.
LEMMA ShareParts ==
  ASSUME Args, Total > 0, NEW n \in Nodes
  PROVE  /\ Exact(n) \in Nat /\ Floor(n) \in Nat /\ Remainder(n) \in Nat
         /\ Remainder(n) < Total /\ Exact(n) = Floor(n) * Total + Remainder(n)
<1>1. Exact(n) \in Nat
  BY DEF Exact, Args
<1>2. Total \in Nat \ {0}
  BY TotalIsSum
<1> QED BY <1>1, <1>2, DivMod DEF Floor, Remainder

\* A node of a bigger exact share comes first: by its floor, or by its
\* remainder.
LEMMA RoomierFirst ==
  ASSUME Args, Total > 0, NEW m \in Nodes, NEW n \in Nodes, in.capacity[m] > in.capacity[n]
  PROVE  \/ Floor(m) >= Floor(n) + 1
         \/ Floor(m) = Floor(n) /\ Remainder(m) > Remainder(n)
<1>1. Exact(m) > Exact(n)
  <2>1. in.capacity[m] \in Int /\ in.capacity[n] \in Int /\ in.n_experts \in Nat \ {0}
    BY DEF Args
  <2> QED BY <2>1, TimesOrder DEF Exact
<1> DEFINE a == Floor(m) b == Floor(n) T == Total
<1>2. /\ a \in Nat /\ b \in Nat /\ T \in Nat \ {0}
      /\ Remainder(m) \in Nat /\ Remainder(m) < T /\ Remainder(n) \in Nat
      /\ a * T + Remainder(m) > b * T + Remainder(n)
  BY <1>1, ShareParts, TotalIsSum
<1> HIDE DEF a, b, T
<1>3. a * T \in Nat /\ b * T \in Nat /\ (a + 1) * T = a * T + T
  BY <1>2
<1>4. ASSUME a < b PROVE FALSE
  <2>1. (a + 1) * T <= b * T
    BY <1>2, <1>4, TimesOrder
  <2> QED BY <1>2, <1>3, <2>1
<1>5. a >= b + 1 \/ (a = b /\ Remainder(m) > Remainder(n))
  BY <1>2, <1>3, <1>4
<1> QED BY <1>5 DEF a, b

\* What the quotas are to be: they sum to the number of experts, each is its
\* node's exact share rounded down or, if it has a fraction, up, and a roomier
\* node's is no smaller.
GoodQuota(q) ==
  /\ q \in [Nodes -> 0 .. in.n_experts]
  /\ IsSum(q, Nodes, in.n_experts)
  /\ \A n \in Nodes : q[n] = Floor(n) \/ (q[n] = Floor(n) + 1 /\ Remainder(n) > 0)
  /\ \A m, n \in Nodes : in.capacity[m] > in.capacity[n] => q[m] >= q[n]

\* The largest-remainder rounding gives such quotas.
LEMMA LargestRemainders ==
  ASSUME Args, phase = "quota", Total > 0, Quotas
  PROVE  GoodQuota(quota')
<1> DEFINE N == in.num_nodes  E == in.n_experts  T == Total
           F == [n \in Nodes |-> Floor(n)]
           X == [n \in Nodes |-> Exact(n)]
           M == [n \in Nodes |-> Remainder(n)]
           a == SumFunction(F)
           left == E - a
           R == {p \in Nodes \X Nodes : BeforeInRem(p[1], p[2])}
           rank == [n \in Nodes |-> Cardinality({m \in Nodes : <<m, n>> \in R})]
           More == {n \in Nodes : rank[n] < left}
           q == [n \in Nodes |-> Floor(n) + (IF rank[n] < left THEN 1 ELSE 0)]
<1>1. quota' = q
  <2>1. \A n \in Nodes : {m \in Nodes : BeforeInRem(m, n)} = {m \in Nodes : <<m, n>> \in R}
    OBVIOUS
  <2>2. \A n \in Nodes : Cardinality({m \in Nodes : BeforeInRem(m, n)}) = rank[n]
    BY <2>1
  <2>3. quota' = [n \in Nodes |->
                    Floor(n) + (IF Cardinality({m \in Nodes : BeforeInRem(m, n)}) < left
                                THEN 1 ELSE 0)]
    BY Zenon DEF Quotas
  <2> HIDE DEF R, rank, left
  <2> QED BY <2>2, <2>3
<1>2. /\ \A n \in Nodes : F[n] \in Nat /\ X[n] \in Nat /\ M[n] \in Nat /\ M[n] < T
      /\ \A n \in Nodes : X[n] = F[n] * T + M[n]
      /\ T \in Nat \ {0} /\ N \in Nat \ {0} /\ E \in Nat \ {0}
  BY ShareParts, TotalIsSum DEF Args
<1>3. IsSum(X, Nodes, T * E)
  <2>1. \A n \in Nodes : in.capacity[n] \in Nat /\ X[n] = in.capacity[n] * E
    BY DEF Exact, Args
  <2> HIDE DEF X, T, E
  <2> QED BY <1>2, <2>1, TotalIsSum, SumScale DEF T
<1>4. IsSum(F, Nodes, a) /\ a \in Nat
  <2>1. DOMAIN F = Nodes
    OBVIOUS
  <2> HIDE DEF F
  <2>2. IsSum(F, Nodes, a)
    BY <1>2, <2>1, Counted, FoldIsSum
  <2> QED BY <2>2, SumBounds
<1> HIDE DEF F, X, M, a, T, N, E
<1>5. PICK r : IsSum(M, Nodes, r) /\ r \in Nat
  <2>1. PICK r : IsSum(M, Nodes, r)
    BY <1>2, Counted, SumExists
  <2> QED BY <2>1, SumBounds
<1>6. a * T + r = T * E
  <2> DEFINE FT == [n \in Nodes |-> F[n] * T]
  <2>1. \A n \in Nodes : FT[n] = F[n] * T /\ FT[n] \in Nat
    BY <1>2
  <2> HIDE DEF FT
  <2>2. IsSum(FT, Nodes, a * T)
    BY <1>2, <1>4, <2>1, SumScale
  <2>3. \A n \in Nodes : X[n] = FT[n] + M[n] /\ M[n] \in Nat
    BY <1>2, <2>1
  <2>4. IsSum(X, Nodes, a * T + r)
    BY <1>5, <2>1, <2>2, <2>3, SumAdd
  <2> QED BY <1>3, <2>4, Counted, SumUnique
<1>7. r = left * T /\ left \in Int
  <2>1. T * E = E * T /\ (E - a) * T = E * T - a * T /\ E * T \in Int /\ a * T \in Int
    BY <1>2, <1>4
  <2> QED BY <1>2, <1>4, <1>5, <1>6, <2>1
<1> HIDE DEF left
<1> DEFINE Pos == {n \in Nodes : M[n] > 0}
<1>8. Cardinality(Pos) \in Nat /\ Cardinality(Pos) <= N /\ left <= Cardinality(Pos)
  <2> DEFINE One == [n \in Nodes |-> IF n \in Pos THEN 1 ELSE 0]
             OT == [n \in Nodes |-> One[n] * T]
  <2>1. Pos \in SUBSET Nodes
    OBVIOUS
  <2>2. IsFiniteSet(Pos) /\ Cardinality(Pos) \in Nat /\ Cardinality(Pos) <= N
    BY <2>1, Counted, FS_Subset, FS_CardinalityType DEF N
  <2>3. \A n \in Nodes : M[n] \in Nat /\ OT[n] \in Nat /\ M[n] <= OT[n]
    <3> SUFFICES ASSUME NEW n \in Nodes PROVE OT[n] \in Nat /\ M[n] <= OT[n]
      BY <1>2
    <3>1. CASE n \in Pos
      <4>1. OT[n] = 1 * T
        BY <3>1
      <4> QED BY <1>2, <4>1
    <3>2. CASE n \notin Pos
      <4>1. OT[n] = 0 * T /\ M[n] = 0
        BY <1>2, <3>2
      <4> QED BY <1>2, <4>1
    <3> QED BY <3>1, <3>2
  <2>4. \A n \in Nodes : One[n] = (IF n \in Pos THEN 1 ELSE 0) /\ One[n] \in Nat /\ OT[n] = One[n] * T
    OBVIOUS
  <2> HIDE DEF One, OT, Pos
  <2>5. IsSum(One, Nodes, Cardinality(Pos))
    BY <2>1, <2>4, Counted, SumCounts
  <2>6. IsSum(OT, Nodes, Cardinality(Pos) * T)
    BY <1>2, <2>4, <2>5, SumScale
  <2>7. r <= Cardinality(Pos) * T
    BY <1>5, <2>3, <2>6, Counted, SumMonotone
  <2>8. left <= Cardinality(Pos)
    BY <1>2, <1>7, <2>2, <2>7, TimesOrder
  <2> QED BY <2>2, <2>8
<1>9. left \in 0 .. Cardinality(Nodes)
  <2>1. 0 * T = 0 /\ 0 <= left * T
    BY <1>2, <1>5, <1>7
  <2>2. 0 <= left
    BY <1>2, <1>7, <2>1, TimesOrder
  <2> QED BY <1>2, <1>7, <1>8, <2>2, Counted DEF N
<1>10. \A m, n \in Nodes : <<m, n>> \in R <=> M[m] > M[n] \/ (M[m] = M[n] /\ m < n)
  BY DEF BeforeInRem, M
<1> HIDE DEF R
<1>11. Orders(R, Nodes)
  <2>1. Nodes \subseteq Nat
    BY Counted
  <2>2. \A x \in Nodes : <<x, x>> \notin R
    BY <1>2, <1>10, <2>1
  <2>3. ASSUME NEW x \in Nodes, NEW y \in Nodes, NEW z \in Nodes, <<x, y>> \in R, <<y, z>> \in R
        PROVE  <<x, z>> \in R
    <3>1. M[x] \in Nat /\ M[y] \in Nat /\ M[z] \in Nat /\ x \in Nat /\ y \in Nat /\ z \in Nat
      BY <1>2, <2>1
    <3> QED BY <1>10, <2>3, <3>1
  <2>4. ASSUME NEW x \in Nodes, NEW y \in Nodes, x # y PROVE <<x, y>> \in R \/ <<y, x>> \in R
    <3>1. M[x] \in Nat /\ M[y] \in Nat /\ x \in Nat /\ y \in Nat
      BY <1>2, <2>1
    <3> QED BY <1>10, <2>4, <3>1
  <2> QED BY <2>2, <2>3, <2>4 DEF Orders
<1>12. IsRank(rank, R, Nodes)
  BY DEF IsRank
<1> HIDE DEF rank
<1>13. /\ \A n \in Nodes : rank[n] \in Nat
       /\ \A m, n \in Nodes : <<m, n>> \in R => rank[m] < rank[n]
       /\ Cardinality(More) = left
  <2>1. IsFiniteSet(Nodes)
    BY Counted
  <2> QED BY <1>9, <1>11, <1>12, <2>1, RanksDense
<1>14. \A n \in Nodes : rank[n] < left => M[n] > 0
  <2> SUFFICES ASSUME NEW n \in Nodes, rank[n] < left, M[n] = 0 PROVE FALSE
    BY <1>2
  <2> DEFINE B == {m \in Nodes : <<m, n>> \in R}
  <2>1. Pos \in SUBSET B
    BY <1>2, <1>10
  <2>2. B \in SUBSET Nodes
    OBVIOUS
  <2> HIDE DEF B
  <2>3. IsFiniteSet(B)
    BY <2>2, Counted, FS_Subset
  <2>4. Cardinality(Pos) <= Cardinality(B)
    BY <2>1, <2>3, FS_Subset
  <2>5. Cardinality(B) = rank[n]
    BY <1>12 DEF B, IsRank
  <2> HIDE DEF Pos
  <2> QED BY <1>7, <1>8, <1>13, <2>4, <2>5
<1>15. IsSum(q, Nodes, E)
  <2> DEFINE I == [n \in Nodes |-> IF n \in More THEN 1 ELSE 0]
  <2>1. More \in SUBSET Nodes
    OBVIOUS
  <2>2. \A n \in Nodes : /\ I[n] = (IF n \in More THEN 1 ELSE 0) /\ I[n] \in Nat
                         /\ F[n] \in Nat /\ q[n] = F[n] + I[n]
    BY <1>2 DEF F
  <2> HIDE DEF I, q, More
  <2>3. IsSum(I, Nodes, left)
    BY <1>13, <2>1, <2>2, Counted, SumCounts
  <2>4. IsSum(q, Nodes, a + left)
    BY <1>4, <2>2, <2>3, SumAdd
  <2>5. a + left = E
    BY <1>2, <1>4 DEF left
  <2> QED BY <2>4, <2>5
<1>16. \A n \in Nodes : q[n] = Floor(n) \/ (q[n] = Floor(n) + 1 /\ Remainder(n) > 0)
  <2> SUFFICES ASSUME NEW n \in Nodes
               PROVE  q[n] = Floor(n) \/ (q[n] = Floor(n) + 1 /\ Remainder(n) > 0)
    OBVIOUS
  <2>1. Floor(n) \in Nat
    BY ShareParts
  <2>2. CASE rank[n] < left
    BY <1>14, <2>2 DEF M
  <2>3. CASE ~(rank[n] < left)
    BY <2>1, <2>3
  <2> QED BY <2>2, <2>3
<1>17. \A n \in Nodes : q[n] \in Nat
  BY <1>16, ShareParts
<1>18. ASSUME NEW m \in Nodes, NEW n \in Nodes, in.capacity[m] > in.capacity[n]
       PROVE  q[m] >= q[n]
  <2>1. /\ Floor(m) \in Nat /\ Floor(n) \in Nat
        /\ q[m] \in Nat /\ q[n] \in Nat
        /\ q[m] = Floor(m) \/ q[m] = Floor(m) + 1
        /\ q[n] = Floor(n) \/ q[n] = Floor(n) + 1
    BY <1>16, <1>17, ShareParts
  <2>2. CASE Floor(m) >= Floor(n) + 1
    <3> HIDE DEF q
    <3> QED BY <2>1, <2>2
  <2>3. CASE Floor(m) = Floor(n) /\ Remainder(m) > Remainder(n)
    <3>1. <<m, n>> \in R
      BY <1>10, <2>3 DEF M
    <3>2. rank[m] < rank[n] /\ rank[m] \in Nat /\ rank[n] \in Nat
      BY <1>13, <3>1
    <3>3. rank[n] < left => rank[m] < left
      BY <1>7, <3>2
    <3>4. CASE rank[n] < left
      BY <2>1, <2>3, <3>3, <3>4
    <3>5. CASE ~(rank[n] < left)
      <4>1. q[n] = Floor(n) + 0
        BY <3>5
      <4> HIDE DEF q
      <4> QED BY <2>1, <2>3, <4>1
    <3> QED BY <3>4, <3>5
  <2> QED BY <1>18, <2>2, <2>3, RoomierFirst
<1>19. q \in [Nodes -> 0 .. in.n_experts]
  <2>1. \A n \in Nodes : q[n] \in Nat /\ q[n] <= E
    BY <1>15, <1>17, SumBounds
  <2>2. \A n \in Nodes : q[n] \in 0 .. E
    BY <1>2, <2>1
  <2> QED BY <2>2 DEF E
<1> HIDE DEF q
<1> QED BY <1>1, <1>15, <1>16, <1>18, <1>19 DEF GoodQuota, E

-----------------------------------------------------------------------------
(* Placing.                                                                *)

\* The shares are settled.
Weighed == Total > 0 /\ (phase = "place" \/ table # <<>>)

\* The bookkeeping of the constructor: used counts what the table says, and the
\* table is complete when the constructor returns it.
Books ==
  /\ quota \in [Nodes -> 0 .. in.n_experts] /\ used \in [Nodes -> Nat]
  /\ load \in [Nodes -> Nat]
  /\ DOMAIN table \subseteq Experts /\ \A e \in DOMAIN table : table[e] \in Nodes
  /\ \A n \in Nodes : used[n] = Cardinality({e \in DOMAIN table : table[e] = n})
  /\ IsSum(used, Nodes, Cardinality(DOMAIN table))

Phases ==
  /\ phase \in {"quota", "place", "done"}
  /\ phase = "quota" => Total > 0 /\ table = <<>>
  /\ phase = "done" /\ table # <<>> => DOMAIN table = Experts

\* Quotas are good ones, and no node is over its own.
Shares == Weighed => GoodQuota(quota) /\ \A n \in Nodes : used[n] <= quota[n]

IInv == Args /\ Books /\ Phases /\ Shares

\* A table with no experts in it.
LEMMA EmptyTable == DOMAIN <<>> = {}
OBVIOUS

\* The constructors start with nothing placed.
LEMMA InitBooks == PlaceInit => IInv
<1> SUFFICES ASSUME PlaceInit PROVE IInv
  OBVIOUS
<1>1. PICK kind \in {"contiguous", "balanced", "capacity"}, N \in NodeCounts, E \in ExpertCounts :
        \E capacity \in (IF kind = "capacity" THEN [0 .. N - 1 -> Capacities]
                                              ELSE {[n \in 0 .. N - 1 |-> 0]}),
           weights \in (IF kind = "contiguous" THEN {[e \in 0 .. E - 1 |-> 0]}
                                               ELSE [0 .. E - 1 -> Weights]) :
          /\ in = [kind |-> kind, num_nodes |-> N, n_experts |-> E,
                   capacity |-> capacity, weights |-> weights]
          /\ phase = IF kind = "contiguous" \/ N = 1 THEN "done"
                     ELSE IF SumFunction(capacity) = 0 THEN "place" ELSE "quota"
          /\ quota = [n \in 0 .. N - 1 |-> E]
          /\ used = [n \in 0 .. N - 1 |-> 0]
          /\ load = [n \in 0 .. N - 1 |-> 0]
          /\ table = <<>>
  BY Zenon DEF PlaceInit
<1>2. PICK capacity \in (IF kind = "capacity" THEN [0 .. N - 1 -> Capacities]
                                              ELSE {[n \in 0 .. N - 1 |-> 0]}),
           weights \in (IF kind = "contiguous" THEN {[e \in 0 .. E - 1 |-> 0]}
                                               ELSE [0 .. E - 1 -> Weights]) :
          /\ in = [kind |-> kind, num_nodes |-> N, n_experts |-> E,
                   capacity |-> capacity, weights |-> weights]
          /\ phase = IF kind = "contiguous" \/ N = 1 THEN "done"
                     ELSE IF SumFunction(capacity) = 0 THEN "place" ELSE "quota"
          /\ quota = [n \in 0 .. N - 1 |-> E]
          /\ used = [n \in 0 .. N - 1 |-> 0]
          /\ load = [n \in 0 .. N - 1 |-> 0]
          /\ table = <<>>
  BY <1>1
<1>3. /\ N \in Nat \ {0} /\ E \in Nat \ {0}
      /\ in.num_nodes = N /\ in.n_experts = E /\ in.capacity = capacity /\ in.weights = weights
  BY <1>2, ShardingAssumption
<1>4. capacity \in [0 .. N - 1 -> Nat]
  <2>1. CASE kind = "capacity"
    <3>1. capacity \in [0 .. N - 1 -> Capacities]
      BY <1>2, <2>1
    <3> QED BY <3>1, ShardingAssumption
  <2>2. CASE kind # "capacity"
    <3>1. capacity = [n \in 0 .. N - 1 |-> 0]
      BY <1>2, <2>2
    <3> QED BY <3>1
  <2> QED BY <2>1, <2>2
<1>5. weights \in [0 .. E - 1 -> Nat]
  <2>1. CASE kind # "contiguous"
    <3>1. weights \in [0 .. E - 1 -> Weights]
      BY <1>2, <2>1
    <3> QED BY <3>1, ShardingAssumption
  <2>2. CASE kind = "contiguous"
    <3>1. weights = [e \in 0 .. E - 1 |-> 0]
      BY <1>2, <2>2
    <3> QED BY <3>1
  <2> QED BY <2>1, <2>2
<1>6. Nodes = 0 .. N - 1 /\ Experts = 0 .. E - 1
  BY <1>3 DEF Nodes, Experts
<1>7. Args
  BY <1>3, <1>4, <1>5, <1>6 DEF Args
<1>8. Total = SumFunction(capacity) /\ Total \in Nat
  BY <1>3, <1>7, TotalIsSum DEF Total
<1>9. Books
  <2>1. DOMAIN table = {} /\ Cardinality({}) = 0
    BY <1>2, EmptyTable, FS_EmptySet
  <2>2. quota \in [Nodes -> 0 .. in.n_experts] /\ used \in [Nodes -> Nat] /\ load \in [Nodes -> Nat]
    BY <1>2, <1>3, <1>6
  <2>3. \A n \in Nodes : used[n] = 0
    BY <1>2, <1>6
  <2>4. \A n \in Nodes : {e \in DOMAIN table : table[e] = n} = {}
    BY <2>1
  <2>5. IsSum(used, Nodes, 0)
    BY <2>3, SumZero
  <2> QED BY <2>1, <2>2, <2>3, <2>4, <2>5 DEF Books
<1>10. Phases /\ ~Weighed
  <2>1. phase = "quota" => Total > 0
    BY <1>2, <1>8
  <2>2. phase = "place" => Total = 0
    BY <1>2, <1>8
  <2>3. phase \in {"quota", "place", "done"} /\ table = <<>>
    BY <1>2
  <2> QED BY <1>8, <2>1, <2>2, <2>3 DEF Phases, Weighed
<1> QED BY <1>7, <1>9, <1>10 DEF IInv, Shares

\* What depends on the arguments only stays as it is.
LEMMA SameArgs ==
  ASSUME in' = in, Args
  PROVE  /\ Args' /\ Nodes' = Nodes /\ Experts' = Experts /\ Total' = Total
         /\ GoodQuota(quota') => GoodQuota(quota)'
<1>1. Nodes' = Nodes /\ Experts' = Experts /\ Total' = Total
  BY DEF Nodes, Experts, Total
<1>2. Args'
  BY <1>1 DEF Args
<1>3. \A n \in Nodes : Floor(n)' = Floor(n) /\ Remainder(n)' = Remainder(n)
  BY <1>1 DEF Floor, Remainder, Exact
<1>4. GoodQuota(quota') => GoodQuota(quota)'
  BY <1>1, <1>3 DEF GoodQuota
<1> QED BY <1>1, <1>2, <1>4

\* The quotas are settled before anything is placed.
LEMMA QuotasStep ==
  ASSUME IInv, Quotas
  PROVE  IInv'
<1>1. /\ phase = "quota" /\ phase' = "place" /\ in' = in /\ used' = used /\ load' = load
      /\ table' = table
  BY DEF Quotas
<1>2. Args /\ Books /\ Total > 0 /\ table = <<>>
  BY <1>1 DEF IInv, Phases
<1>3. GoodQuota(quota')
  BY <1>1, <1>2, LargestRemainders

<1>4. Args' /\ Nodes' = Nodes /\ Experts' = Experts /\ GoodQuota(quota)'
  BY <1>1, <1>2, <1>3, SameArgs
<1>5. Books'
  BY <1>1, <1>2, <1>3, <1>4 DEF Books, GoodQuota
<1>6. Phases'
  BY <1>1 DEF Phases
<1>7. \A n \in Nodes : used[n] <= quota'[n]
  <2>1. DOMAIN table = {} /\ Cardinality({}) = 0
    BY <1>2, EmptyTable, FS_EmptySet
  <2>2. \A n \in Nodes : {e \in DOMAIN table : table[e] = n} = {}
    BY <2>1
  <2>3. \A n \in Nodes : used[n] = 0
    BY <1>2, <2>1, <2>2 DEF Books
  <2> QED BY <1>3, <2>3 DEF GoodQuota
<1>8. Shares'
  BY <1>1, <1>4, <1>7 DEF Shares
<1> QED BY <1>4, <1>5, <1>6, <1>8 DEF IInv

\* An expert is placed on a node that has room for it.
LEMMA PlaceStep ==
  ASSUME IInv, Place
  PROVE  IInv'
<1>1. /\ phase = "place" /\ phase' = phase /\ in' = in /\ quota' = quota
  BY DEF Place
<1>2. Args /\ Books
  BY DEF IInv
<1>3. PICK e \in Unplaced, n \in Open :
        /\ table' = [d \in DOMAIN table \cup {e} |-> IF d = e THEN n ELSE table[d]]
        /\ used' = [used EXCEPT ![n] = @ + 1]
        /\ load' = [load EXCEPT ![n] = @ + in.weights[e]]
  BY DEF Place
<1>4. /\ e \in Experts /\ e \notin DOMAIN table /\ n \in Nodes
      /\ Total = 0 \/ used[n] < quota[n]
  BY DEF Unplaced, Open
<1>5. Args' /\ Nodes' = Nodes /\ Experts' = Experts /\ Total' = Total
      /\ (GoodQuota(quota') => GoodQuota(quota)')
  BY <1>1, <1>2, SameArgs
<1>6. /\ DOMAIN table' = DOMAIN table \cup {e} /\ table'[e] = n
      /\ \A d \in DOMAIN table : table'[d] = table[d]
  BY <1>3, <1>4
<1>7. IsFiniteSet(DOMAIN table)
  BY <1>2, Counted, FS_Subset DEF Books
<1>8. /\ Cardinality(DOMAIN table') = Cardinality(DOMAIN table) + 1
  BY <1>4, <1>6, <1>7, FS_AddElement
<1>9. /\ used' \in [Nodes -> Nat] /\ used'[n] = used[n] + 1
      /\ \A m \in Nodes \ {n} : used'[m] = used[m]
      /\ \A m \in Nodes : used[m] \in Nat
  BY <1>2, <1>3, <1>4 DEF Books
<1>10. IsSum(used', Nodes, Cardinality(DOMAIN table'))
  BY <1>2, <1>4, <1>8, <1>9, SumUpdate DEF Books
<1>11. \A m \in Nodes : used'[m] = Cardinality({d \in DOMAIN table' : table'[d] = m})
  <2> SUFFICES ASSUME NEW m \in Nodes
               PROVE  used'[m] = Cardinality({d \in DOMAIN table' : table'[d] = m})
    OBVIOUS
  <2> DEFINE P == {d \in DOMAIN table : table[d] = m}
             Q == {d \in DOMAIN table' : table'[d] = m}
  <2>1. used[m] = Cardinality(P)
    BY <1>2 DEF Books
  <2>2. IsFiniteSet(P) /\ e \notin P
    BY <1>4, <1>7, FS_Subset
  <2>3. CASE m = n
    <3>1. Q = P \cup {e}
      BY <1>4, <1>6, <2>3
    <3> HIDE DEF P, Q
    <3>2. Cardinality(Q) = Cardinality(P) + 1
      BY <2>2, <3>1, FS_AddElement
    <3>3. used'[m] = Cardinality(Q)
      BY <1>9, <2>1, <2>3, <3>2
    <3> QED BY <3>3 DEF Q
  <2>4. CASE m # n
    <3>1. Q = P
      BY <1>4, <1>6, <2>4
    <3> QED BY <1>9, <2>1, <2>4, <3>1
  <2> QED BY <2>3, <2>4
<1>12. load' \in [Nodes -> Nat]
  <2>1. load \in [Nodes -> Nat] /\ in.weights[e] \in Nat
    BY <1>2, <1>4 DEF Books, Args
  <2> QED BY <1>3, <1>4, <2>1
<1>13. DOMAIN table' \subseteq Experts /\ \A d \in DOMAIN table' : table'[d] \in Nodes
  BY <1>2, <1>4, <1>6 DEF Books
<1>14. quota' \in [Nodes -> 0 .. in.n_experts]
  BY <1>1, <1>2 DEF Books
<1>15. Books'
  BY <1>1, <1>5, <1>9, <1>10, <1>11, <1>12, <1>13, <1>14 DEF Books
<1>16. Phases'
  BY <1>1 DEF Phases
<1>17. Shares'
  <2> SUFFICES ASSUME Total > 0
               PROVE  GoodQuota(quota)' /\ \A m \in Nodes : used'[m] <= quota'[m]
    BY <1>5 DEF Shares, Weighed
  <2>1. GoodQuota(quota) /\ \A m \in Nodes : used[m] <= quota[m]
    BY <1>1 DEF IInv, Shares, Weighed
  <2>2. GoodQuota(quota')
    BY <1>1, <2>1
  <2>3. used[n] < quota[n]
    BY <1>4
  <2>4. \A m \in Nodes : quota[m] \in Nat
    BY <1>2 DEF Books, Args
  <2>5. ASSUME NEW m \in Nodes PROVE used'[m] <= quota'[m]
    BY <1>1, <1>9, <2>1, <2>3, <2>4, <2>5
  <2> QED BY <1>5, <2>2, <2>5
<1> QED BY <1>5, <1>15, <1>16, <1>17 DEF IInv

\* The constructor returns when every expert has its node.
LEMMA FinishStep ==
  ASSUME IInv, Finish
  PROVE  IInv'
<1>1. /\ phase = "place" /\ phase' = "done" /\ Unplaced = {}
      /\ in' = in /\ quota' = quota /\ used' = used /\ load' = load /\ table' = table
  BY DEF Finish
<1>2. Args /\ Books
  BY DEF IInv
<1>3. Args' /\ Nodes' = Nodes /\ Experts' = Experts /\ Total' = Total
      /\ (GoodQuota(quota') => GoodQuota(quota)')
  BY <1>1, <1>2, SameArgs
<1>4. Books'
  BY <1>1, <1>2, <1>3 DEF Books
<1>5. DOMAIN table = Experts
  BY <1>1, <1>2 DEF Unplaced, Books
<1>6. Phases'
  BY <1>1, <1>3, <1>5 DEF Phases
<1>7. Shares'
  <2> SUFFICES ASSUME Total > 0
               PROVE  GoodQuota(quota)' /\ \A m \in Nodes : used'[m] <= quota'[m]
    BY <1>3 DEF Shares, Weighed
  <2>1. GoodQuota(quota) /\ \A m \in Nodes : used[m] <= quota[m]
    BY <1>1 DEF IInv, Shares, Weighed
  <2>2. GoodQuota(quota')
    BY <1>1, <2>1
  <2> QED BY <1>1, <1>3, <2>1, <2>2
<1> QED BY <1>3, <1>4, <1>6, <1>7 DEF IInv

\* The invariant holds throughout.  Shipping and repacking read the map and
\* change nothing of it.
LEMMA Invariance == AllSpec => []IInv
<1>1. AllInit => IInv
  BY InitBooks DEF AllInit
<1>2. ASSUME IInv, [AllNext]_AllVars PROVE IInv'
  <2>1. CASE UNCHANGED vars
    <3>1. in' = in /\ phase' = phase /\ quota' = quota /\ used' = used /\ load' = load /\ table' = table
      BY <2>1 DEF vars
    <3>2. Args /\ Books /\ Phases /\ Shares
      BY <1>2 DEF IInv
    <3>3. Args' /\ Nodes' = Nodes /\ Experts' = Experts /\ Total' = Total
          /\ (GoodQuota(quota') => GoodQuota(quota)')
      BY <3>1, <3>2, SameArgs
    <3>4. Books'
      BY <3>1, <3>2, <3>3 DEF Books
    <3>5. Phases'
      BY <3>1, <3>2, <3>3 DEF Phases
    <3>6. ASSUME Weighed' PROVE GoodQuota(quota)' /\ \A n \in Nodes : used'[n] <= quota'[n]
      <4>1. GoodQuota(quota) /\ \A n \in Nodes : used[n] <= quota[n]
        BY <3>1, <3>2, <3>3, <3>6 DEF Shares, Weighed
      <4>2. GoodQuota(quota')
        BY <3>1, <4>1
      <4> QED BY <3>1, <3>3, <4>1, <4>2
    <3>7. Shares'
      BY <3>3, <3>6 DEF Shares
    <3> QED BY <3>3, <3>4, <3>5, <3>7 DEF IInv
  <2>2. CASE Next
    BY <1>2, <2>2, QuotasStep, PlaceStep, FinishStep DEF Next
  <2> QED BY <1>2, <2>1, <2>2 DEF AllNext, AllVars
<1> QED BY <1>1, <1>2, PTL DEF AllSpec

\* Type correctness of the placement: quotas and counts never exceed the number
\* of experts, and the table places experts of the model on nodes of the cluster.
THEOREM PlacementTypes == AllSpec => []TypeOK
<1>1. ASSUME IInv PROVE TypeOK
  <2>1. Args /\ Books /\ phase \in {"quota", "place", "done"}
    BY <1>1 DEF IInv, Phases
  <2>2. Cardinality(DOMAIN table) <= in.n_experts
    BY <2>1, Counted, FS_Subset DEF Books
  <2>3. \A n \in Nodes : used[n] \in Nat /\ used[n] <= Cardinality(DOMAIN table)
    BY <2>1, SumBounds DEF Books
  <2>4. Cardinality(DOMAIN table) \in Nat
    BY <2>1, SumBounds DEF Books
  <2>5. \A n \in Nodes : used[n] \in 0 .. in.n_experts
    BY <2>1, <2>2, <2>3, <2>4 DEF Args
  <2>6. used \in [Nodes -> 0 .. in.n_experts]
    BY <2>1, <2>5 DEF Books
  <2> QED BY <2>1, <2>6 DEF TypeOK, Books
<1> QED BY <1>1, Invariance, PTL

\* When all experts are placed every node owns as many as its quota says.
LEMMA QuotasMet ==
  ASSUME IInv, phase = "done", table # <<>>, Total > 0, NEW n \in Nodes
  PROVE  count_for(n) = quota[n]
<1>1. Args /\ Books /\ DOMAIN table = Experts /\ GoodQuota(quota)
      /\ \A m \in Nodes : used[m] <= quota[m]
  BY DEF IInv, Phases, Shares, Weighed
<1>2. IsSum(used, Nodes, in.n_experts)
  BY <1>1, Counted DEF Books
<1>3. \A m \in Nodes : used[m] \in Nat /\ quota[m] \in Nat /\ used[m] <= quota[m]
  BY <1>1 DEF Books, Args
<1>4. used[n] = quota[n]
  <2>1. IsSum(quota, Nodes, in.n_experts) /\ IsFiniteSet(Nodes)
    BY <1>1, Counted DEF GoodQuota
  <2>2. \A m \in Nodes : used[m] = quota[m]
    BY <1>2, <1>3, <2>1, SumSqueeze
  <2> QED BY <2>2
<1>5. {e \in Experts : owner(e) = n} = {e \in DOMAIN table : table[e] = n}
  BY <1>1 DEF owner
<1> QED BY <1>1, <1>4, <1>5 DEF Books, count_for

\* "quotas sum to n_experts, so one node is always under quota" (the message of
\* the unwrap in capacity_weighted), and every node ends with its exact share
\* rounded up or down, more capacity never meaning fewer experts: for every
\* number of nodes and experts and all capacities and weights.
THEOREM SharesFollowCapacity == AllSpec => []PlacementFollowsCapacity
<1>1. ASSUME IInv PROVE PlacementFollowsCapacity
  <2>0. Args /\ Books
    BY <1>1 DEF IInv
  <2>1. ASSUME phase = "place", Unplaced # {}, Open = {} PROVE FALSE
    <3>1. PICK m \in Nodes : TRUE
      BY <2>0, Counted
    <3>2. Total > 0
      <4>1. Total # 0
        BY <2>1, <3>1 DEF Open
      <4> QED BY <2>0, <4>1, TotalIsSum
    <3>3. GoodQuota(quota) /\ \A n \in Nodes : used[n] <= quota[n]
      BY <1>1, <2>1, <3>2 DEF IInv, Shares, Weighed
    <3>4. \A n \in Nodes : ~(used[n] < quota[n])
      BY <2>1, <3>2 DEF Open
    <3>5. \A n \in Nodes : used[n] = quota[n]
      BY <2>0, <3>3, <3>4 DEF Books, Args
    <3>6. IsSum(used, Nodes, in.n_experts)
      BY <3>3, <3>5, SumSame DEF GoodQuota
    <3>7. Cardinality(DOMAIN table) = Cardinality(Experts)
      BY <2>0, <3>6, Counted, SumUnique DEF Books
    <3>8. DOMAIN table = Experts
      BY <2>0, <3>7, Counted, FS_Subset DEF Books
    <3> QED BY <2>1, <3>8 DEF Unplaced
  <2>2. ASSUME phase = "done", table # <<>>, Total > 0, NEW n \in Nodes
        PROVE  /\ Exact(n) - Total < count_for(n) * Total
               /\ count_for(n) * Total < Exact(n) + Total
    <3>1. GoodQuota(quota) /\ count_for(n) = quota[n]
      BY <1>1, <2>2, QuotasMet DEF IInv, Shares, Weighed
    <3>2. /\ Exact(n) \in Nat /\ Floor(n) \in Nat /\ Remainder(n) \in Nat
          /\ Remainder(n) < Total /\ Exact(n) = Floor(n) * Total + Remainder(n)
      BY <2>0, <2>2, ShareParts
    <3>3. Total \in Nat /\ Floor(n) * Total \in Nat
      BY <2>0, <3>2, TotalIsSum
    <3>4. CASE quota[n] = Floor(n)
      <4>1. count_for(n) * Total = Floor(n) * Total
        BY <3>1, <3>4
      <4> QED BY <3>2, <3>3, <4>1
    <3>5. CASE quota[n] = Floor(n) + 1 /\ Remainder(n) > 0
      <4>1. (Floor(n) + 1) * Total = Floor(n) * Total + Total
        BY <3>2, <3>3
      <4>2. count_for(n) * Total = Floor(n) * Total + Total
        BY <3>1, <3>5, <4>1
      <4> QED BY <3>2, <3>3, <3>5, <4>2
    <3> QED BY <3>1, <3>4, <3>5 DEF GoodQuota
  <2>3. ASSUME phase = "done", table # <<>>, Total > 0, NEW m \in Nodes, NEW n \in Nodes,
               in.capacity[m] > in.capacity[n]
        PROVE  count_for(m) >= count_for(n)
    <3>1. GoodQuota(quota) /\ count_for(n) = quota[n] /\ count_for(m) = quota[m]
      BY <1>1, <2>3, QuotasMet DEF IInv, Shares, Weighed
    <3> QED BY <2>3, <3>1 DEF GoodQuota
  <2> QED BY <2>1, <2>2, <2>3 DEF PlacementFollowsCapacity
<1> QED BY <1>1, Invariance, PTL

\* A finished map gives every expert a node of the cluster, so that no routed
\* expert is without an owner.
THEOREM EveryExpertOwned == AllSpec => [](phase = "done" => \A e \in Experts : owner(e) \in Nodes)
<1>1. ASSUME IInv, phase = "done", NEW e \in Experts PROVE owner(e) \in Nodes
  <2>1. Args /\ Books /\ (table # <<>> => DOMAIN table = Experts)
    BY <1>1 DEF IInv, Phases
  <2>2. CASE table # <<>>
    BY <2>1, <2>2 DEF owner, Books
  <2>3. CASE table = <<>>
    <3> DEFINE N == in.num_nodes E == in.n_experts q == (e * N) \div E
    <3>1. N \in Nat \ {0} /\ E \in Nat \ {0} /\ e \in Nat /\ e < E
      BY <2>1 DEF Args, Experts
    <3> HIDE DEF N, E
    <3>2. e * N \in Nat /\ E * N = N * E
      BY <3>1
    <3>3. q \in Nat
      BY <3>1, <3>2, DivMod
    <3>4. q * E <= e * N
      BY <3>1, <3>2, <3>3, DivIs
    <3> HIDE DEF q
    <3>5. e * N < E * N
      BY <3>1, TimesOrder
    <3>6. q * E < N * E /\ q * E \in Int
      BY <3>1, <3>2, <3>3, <3>4, <3>5
    <3>7. q < N
      BY <3>1, <3>3, <3>6, TimesOrder
    <3>8. q \in Nodes
      BY <3>1, <3>3, <3>7 DEF Nodes, N
    <3> QED BY <2>3, <3>8 DEF owner, block_owner, contiguous, q, N, E
  <2> QED BY <2>2, <2>3
<1>2. IInv => (phase = "done" => \A e \in Experts : owner(e) \in Nodes)
  BY <1>1
<1> QED BY <1>2, Invariance, PTL

-----------------------------------------------------------------------------
(* The closed forms.                                                       *)

\* range_for inverts the owner formula: the two roundings meet.
LEMMA RangesAreBlocks ==
  ASSUME Args, NEW n \in Nodes
  PROVE  range_for(n) = {e \in Experts : block_owner(e) = n}
<1> DEFINE N == in.num_nodes E == in.n_experts
<1>1. N \in Nat \ {0} /\ E \in Nat \ {0} /\ n \in Nat
  BY DEF Args, Nodes
<1> SUFFICES ASSUME NEW e \in Experts
             PROVE  /\ div_ceil(n * E, N) <= e /\ e < div_ceil((n + 1) * E, N)
                    <=> (e * N) \div E = n
  BY DEF range_for, block_owner, contiguous
<1>2. e \in Nat
  BY <1>1 DEF Experts
<1> HIDE DEF N, E
<1>3. n * E \in Nat /\ (n + 1) * E \in Nat /\ e * N \in Nat
  BY <1>1, <1>2
<1>4. div_ceil(n * E, N) <= e <=> n * E <= e * N
  BY <1>1, <1>2, <1>3, CeilBound
<1>5. div_ceil((n + 1) * E, N) <= e <=> (n + 1) * E <= e * N
  BY <1>1, <1>2, <1>3, CeilBound
<1>6. div_ceil((n + 1) * E, N) \in Int
  <2>1. (n + 1) * E + N - 1 \in Nat
    BY <1>1, <1>3
  <2> QED BY <1>1, <2>1, DivMod DEF div_ceil
<1>7. e < div_ceil((n + 1) * E, N) <=> e * N < (n + 1) * E
  BY <1>2, <1>3, <1>5, <1>6
<1>8. (e * N) \div E = n <=> n * E <= e * N /\ e * N < (n + 1) * E
  BY <1>1, <1>3, DivIs
<1> QED BY <1>4, <1>7, <1>8

\* Where node n's slice of the heads begins.
SliceBase == in.n_experts \div in.num_nodes
SliceRem  == in.n_experts % in.num_nodes
SliceLo(n) == n * SliceBase + (IF n < SliceRem THEN n ELSE SliceRem)

\* The first SliceRem nodes take one head more than the others.
LEMMA SliceNumbers ==
  ASSUME Args
  PROVE  /\ SliceBase \in Nat /\ SliceRem \in Nat /\ SliceRem < in.num_nodes
         /\ in.n_experts = in.num_nodes * SliceBase + SliceRem
<1>1. in.n_experts \in Nat /\ in.num_nodes \in Nat \ {0}
  BY DEF Args
<1>2. /\ SliceBase \in Nat /\ SliceRem \in Nat /\ SliceRem < in.num_nodes
      /\ in.n_experts = SliceBase * in.num_nodes + SliceRem
  BY <1>1, DivMod DEF SliceBase, SliceRem
<1>3. SliceBase * in.num_nodes = in.num_nodes * SliceBase
  BY <1>1, <1>2
<1> QED BY <1>2, <1>3

\* A slice ends where the next one begins, the last one at the head count.
LEMMA SlicesAbut ==
  ASSUME Args, NEW n \in Nat
  PROVE  /\ SliceLo(n) \in Nat
         /\ SliceLo(n + 1) = SliceLo(n) + SliceBase + (IF n < SliceRem THEN 1 ELSE 0)
         /\ head_slice(n) = SliceLo(n) .. SliceLo(n + 1) - 1
         /\ SliceLo(0) = 0 /\ SliceLo(in.num_nodes) = in.n_experts
<1> DEFINE b == SliceBase  r == SliceRem
<1>1. /\ b \in Nat /\ r \in Nat /\ r < in.num_nodes /\ in.num_nodes \in Nat
      /\ in.n_experts = in.num_nodes * b + r
  BY SliceNumbers DEF Args
<1> HIDE DEF b, r
<1>2. n * b \in Nat /\ (n + 1) * b = n * b + b /\ 0 * b = 0
  BY <1>1
<1>3. /\ SliceLo(n) = n * b + (IF n < r THEN n ELSE r)
      /\ SliceLo(n + 1) = (n + 1) * b + (IF n + 1 < r THEN n + 1 ELSE r)
      /\ SliceLo(0) = 0 * b + (IF 0 < r THEN 0 ELSE r)
      /\ SliceLo(in.num_nodes) = in.num_nodes * b + (IF in.num_nodes < r THEN in.num_nodes ELSE r)
  BY DEF SliceLo, b, r
<1>4. SliceLo(n) \in Nat /\ SliceLo(n + 1) = SliceLo(n) + b + (IF n < r THEN 1 ELSE 0)
  BY <1>1, <1>2, <1>3
<1>5. SliceLo(0) = 0 /\ SliceLo(in.num_nodes) = in.n_experts
  BY <1>1, <1>2, <1>3
<1>6. head_slice(n) = SliceLo(n) .. SliceLo(n) + b - (IF n < r THEN 0 ELSE 1)
  BY DEF head_slice, SliceLo, SliceBase, SliceRem, b, r
<1>7. SliceLo(n) + b - (IF n < r THEN 0 ELSE 1) = SliceLo(n + 1) - 1
  BY <1>1, <1>4
<1> QED BY <1>4, <1>5, <1>6, <1>7 DEF b, r

\* Later slices begin later.
LEMMA SlicesOrdered ==
  ASSUME Args, NEW m \in Nat, NEW n \in Nat, m <= n
  PROVE  SliceLo(m) <= SliceLo(n)
<1> DEFINE b == SliceBase  r == SliceRem
<1>1. b \in Nat /\ r \in Nat
  BY SliceNumbers
<1>2. /\ SliceLo(n) = n * b + (IF n < r THEN n ELSE r)
      /\ SliceLo(m) = m * b + (IF m < r THEN m ELSE r)
  BY DEF SliceLo
<1> HIDE DEF b, r
<1>3. n * b \in Nat /\ m * b \in Nat /\ m * b <= n * b
  <2>1. CASE b = 0
    BY <2>1
  <2>2. CASE b # 0
    BY <1>1, <2>2, TimesOrder
  <2> QED BY <1>1, <2>1, <2>2
<1> QED BY <1>1, <1>2, <1>3

\* Every head is in some node's slice: the one after which no slice begins at
\* or before the head.
LEMMA SlicesCover ==
  ASSUME Args, NEW e \in Experts
  PROVE  \E n \in Nodes : e \in head_slice(n)
<1> DEFINE S == {n \in Nodes : SliceLo(n) <= e}
           N == in.num_nodes
<1>1. N \in Nat \ {0} /\ e \in Nat /\ e < in.n_experts /\ in.n_experts \in Nat
  BY DEF Args, Experts
<1>2. 0 \in S /\ S \in SUBSET Nat
  <2>1. SliceLo(0) = 0
    BY SlicesAbut
  <2> QED BY <1>1, <2>1 DEF Nodes
<1>3. PICK n \in S : n + 1 \notin S
  <2> SUFFICES ASSUME \A n \in S : n + 1 \in S PROVE FALSE
    OBVIOUS
  <2> DEFINE Up == {k \in Nat : k \notin S}
  <2>1. N \in Up
    BY <1>1 DEF Nodes
  <2> HIDE DEF S
  <2>2. Up \subseteq Nat /\ Up # {}
    BY <2>1
  <2>3. PICK k \in Up : \A j \in Up : ~(<<j, k>> \in OpToRel(<, Nat))
    <3> HIDE DEF Up
    <3> QED BY <2>2, NatLessThanWellFounded, WFMin
  <2>4. k \in Nat /\ k # 0
    BY <1>2
  <2>5. k - 1 \in Nat /\ <<k - 1, k>> \in OpToRel(<, Nat)
    BY <2>4 DEF OpToRel
  <2>6. k - 1 \in S
    BY <2>3, <2>5
  <2>7. k - 1 + 1 = k
    BY <2>4
  <2> QED BY <2>6, <2>7
<1>4. n \in Nodes /\ n \in Nat /\ SliceLo(n) <= e
  BY <1>2
<1>5. e < SliceLo(n + 1)
  <2>1. CASE n + 1 \in Nodes
    BY <1>1, <1>3, <1>4, <2>1, SlicesAbut
  <2>2. CASE n + 1 \notin Nodes
    <3>1. n + 1 = N
      BY <1>1, <1>4, <2>2 DEF Nodes
    <3> QED BY <1>1, <1>4, <3>1, SlicesAbut
  <2> QED BY <2>1, <2>2
<1>6. SliceLo(n) \in Nat /\ SliceLo(n + 1) \in Nat /\ head_slice(n) = SliceLo(n) .. SliceLo(n + 1) - 1
  <2>1. n + 1 \in Nat
    BY <1>4
  <2> QED BY <1>4, <2>1, SlicesAbut
<1>7. e \in head_slice(n)
  BY <1>1, <1>4, <1>5, <1>6
<1> QED BY <1>4, <1>7

\* The closed-form ranges are the blocks of the owner formula, and the head
\* slices are a partition of the heads into parts that differ by at most one:
\* for every number of nodes and heads, more nodes than heads included.
THEOREM ClosedFormsTile == AllSpec => []BlocksTile
<1>1. ASSUME IInv PROVE BlocksTile
  <2>0. Args
    BY <1>1 DEF IInv
  <2>1. \A n \in Nodes : n \in Nat /\ n + 1 \in Nat /\ n + 1 <= in.num_nodes /\ in.num_nodes \in Nat
    BY <2>0 DEF Nodes, Args
  <2>2. \A n \in Nodes : range_for(n) = {e \in Experts : block_owner(e) = n}
    BY <2>0, RangesAreBlocks
  <2>3. ASSUME NEW n \in Nodes
        PROVE  /\ SliceLo(n) \in Nat /\ SliceLo(n + 1) \in Nat
               /\ SliceLo(n + 1) <= in.n_experts
               /\ head_slice(n) = SliceLo(n) .. SliceLo(n + 1) - 1
               /\ SliceLo(n + 1) = SliceLo(n) + SliceBase + (IF n < SliceRem THEN 1 ELSE 0)
    <3>1. SliceLo(n + 1) <= SliceLo(in.num_nodes)
      BY <2>0, <2>1, <2>3, SlicesOrdered
    <3> QED BY <2>0, <2>1, <2>3, <3>1, SlicesAbut
  <2>4. \A n \in Nodes : head_slice(n) \subseteq Experts
    <3> SUFFICES ASSUME NEW n \in Nodes, NEW e \in head_slice(n) PROVE e \in Experts
      OBVIOUS
    <3>1. e \in SliceLo(n) .. SliceLo(n + 1) - 1
      BY <2>3
    <3> QED BY <2>0, <2>3, <3>1 DEF Experts, Args
  <2>5. ASSUME NEW e \in Experts PROVE Cardinality({n \in Nodes : e \in head_slice(n)}) = 1
    <3>1. PICK n \in Nodes : e \in head_slice(n)
      BY <2>0, <2>5, SlicesCover
    <3>2. ASSUME NEW i \in Nodes, NEW j \in Nodes, i < j, e \in head_slice(i), e \in head_slice(j)
          PROVE  FALSE
      <4>1. i \in Nat /\ j \in Nat /\ i + 1 \in Nat /\ i + 1 <= j
        BY <2>1, <3>2
      <4>2. SliceLo(i + 1) <= SliceLo(j)
        BY <2>0, <4>1, SlicesOrdered
      <4>3. e \in SliceLo(i) .. SliceLo(i + 1) - 1 /\ e \in SliceLo(j) .. SliceLo(j + 1) - 1
        BY <2>3, <3>2
      <4>4. SliceLo(i) \in Nat /\ SliceLo(i + 1) \in Nat /\ SliceLo(j) \in Nat /\ SliceLo(j + 1) \in Nat
        BY <2>3
      <4> QED BY <4>2, <4>3, <4>4
    <3>3. \A m \in Nodes : e \in head_slice(m) => m = n
      <4> SUFFICES ASSUME NEW m \in Nodes, e \in head_slice(m) PROVE m = n
        OBVIOUS
      <4>1. m \in Nat /\ n \in Nat
        BY <2>1
      <4>2. ~(m < n) /\ ~(n < m)
        BY <3>1, <3>2
      <4> QED BY <4>1, <4>2
    <3>4. {m \in Nodes : e \in head_slice(m)} = {n}
      BY <3>1, <3>3
    <3> QED BY <3>4, FS_Singleton
  <2>6. ASSUME NEW n \in Nodes
        PROVE  Cardinality(head_slice(n)) = SliceBase + (IF n < SliceRem THEN 1 ELSE 0)
    <3> DEFINE lo == SliceLo(n)  k == SliceBase + (IF n < SliceRem THEN 1 ELSE 0)
    <3>1. lo \in Nat /\ k \in Nat /\ head_slice(n) = lo .. (lo + k) - 1
      <4>1. SliceBase \in Nat /\ SliceLo(n) \in Nat
        BY <2>0, <2>3, SliceNumbers
      <4>2. SliceLo(n + 1) = lo + k
        BY <2>3, <4>1
      <4> QED BY <2>3, <4>1, <4>2
    <3> HIDE DEF lo, k
    <3>2. lo \in Int /\ (lo + k) - 1 \in Int
      BY <3>1
    <3>3. Cardinality(lo .. (lo + k) - 1) = IF lo > (lo + k) - 1 THEN 0 ELSE (lo + k) - 1 - lo + 1
      BY <3>2, FS_Interval
    <3>4. Cardinality(lo .. (lo + k) - 1) = k
      BY <3>1, <3>3
    <3> QED BY <3>1, <3>4 DEF k
  <2>7. ASSUME NEW m \in Nodes, NEW n \in Nodes
        PROVE  Cardinality(head_slice(m)) <= Cardinality(head_slice(n)) + 1
    <3>1. SliceBase \in Nat
      BY <2>0, SliceNumbers
    <3>2. /\ Cardinality(head_slice(m)) = SliceBase + (IF m < SliceRem THEN 1 ELSE 0)
          /\ Cardinality(head_slice(n)) = SliceBase + (IF n < SliceRem THEN 1 ELSE 0)
      BY <2>6
    <3> QED BY <3>1, <3>2
  <2> QED BY <2>2, <2>4, <2>5, <2>7 DEF BlocksTile
<1> QED BY <1>1, Invariance, PTL

-----------------------------------------------------------------------------
(* Bytes of tensors, one after the other.                                  *)

\* f lists the concatenations of the first i of ss.
Parts(f, P, N, ss) ==
  /\ f \in [0 .. N -> Seq(P)] /\ f[0] = <<>>
  /\ \A i \in 1 .. N : f[i] = f[i - 1] \o ss[i]

\* The library's FlattenSeq concatenates one sequence after the other.
LEMMA FlattenParts ==
  ASSUME NEW P, NEW N \in Nat, NEW ss \in [1 .. N -> Seq(P)]
  PROVE  \E f : Parts(f, P, N, ss) /\ f[N] = FlattenSeq(ss)
<1> DEFINE X == Seq(P)
<1>1. Len(ss) = N /\ DOMAIN ss = 1 .. N /\ ss \in Seq(Seq(P))
  OBVIOUS
<1>2. \A i \in 1 .. N : ss[i] \in X /\ <<>> \o ss[i] = ss[i] /\ \A x \in X : x \o ss[i] \in X
  OBVIOUS
<1>3. <<>> \in X
  OBVIOUS
<1> HIDE DEF X
<1>4. PICK f \in [0 .. N -> X] : f[0] = <<>> /\ \A i \in 1 .. N : f[i] = f[i - 1] \o ss[i]
  <2> DEFINE step == [i \in 1 .. N |-> [x \in X |-> x \o ss[i]]]
             none == <<>>
  <2>1. step \in [1 .. N -> [X -> X]] /\ none \in X
    BY <1>2, <1>3
  <2>2. \A i \in 1 .. N : \A x \in X : step[i][x] = x \o ss[i]
    OBVIOUS
  <2> HIDE DEF step, none
  <2>3. PICK f : Solves(f, X, N, none, step)
    BY <2>1, Recursion
  <2>4. ASSUME NEW i \in 1 .. N PROVE f[i] = f[i - 1] \o ss[i]
    <3>1. f[i - 1] \in X
      BY <2>3 DEF Solves
    <3> QED BY <2>2, <2>3, <3>1 DEF Solves
  <2> QED BY <2>3, <2>4 DEF none, Solves
<1>5. CASE N = 0
  <2>1. FlattenSeq(ss) = ss /\ ss = <<>>
    BY <1>1, <1>5 DEF FlattenSeq
  <2> QED BY <1>4, <1>5, <2>1 DEF X, Parts
<1>6. CASE N # 0
  <2> DEFINE Def(g) == [i \in 1 .. N |-> IF i = 1 THEN ss[i] ELSE g[i - 1] \o ss[i]]
             flat == CHOOSE g : g = Def(g)
             e == [i \in 1 .. N |-> f[i]]
  <2>1. FlattenSeq(ss) = flat[N]
    BY <1>1, <1>6 DEF FlattenSeq
  <2>2. ASSUME NEW i \in 1 .. N PROVE e[i] = IF i = 1 THEN ss[i] ELSE e[i - 1] \o ss[i]
    <3>1. e[i] = f[i - 1] \o ss[i]
      BY <1>4
    <3>2. CASE i = 1
      <4>1. f[i - 1] = <<>>
        BY <1>4, <3>2
      <4> QED BY <1>2, <3>1, <3>2, <4>1
    <3>3. CASE i # 1
      <4>1. i - 1 \in 1 .. N
        BY <3>3
      <4>2. e[i - 1] = f[i - 1]
        BY <4>1
      <4> HIDE DEF e
      <4> QED BY <3>1, <3>3, <4>2
    <3> QED BY <3>2, <3>3
  <2>3. e = Def(e)
    <3>1. DOMAIN e = 1 .. N
      OBVIOUS
    <3> QED BY <2>2
  <2>4. flat = Def(flat)
    <3> HIDE DEF Def, e
    <3> QED BY <2>3
  <2> HIDE DEF flat
  <2>5. \A i \in 1 .. N : flat[i] = IF i = 1 THEN ss[i] ELSE flat[i - 1] \o ss[i]
    BY <2>4
  <2> DEFINE G == {n \in Nat : n + 1 <= N => flat[n + 1] = f[n + 1]}
  <2>6. 0 \in G
    <3>1. 1 \in 1 .. N /\ f[0] = <<>> /\ f[1] = f[1 - 1] \o ss[1] /\ 1 - 1 = 0
      BY <1>4, <1>6
    <3>2. f[1] = <<>> \o ss[1]
      BY <3>1
    <3>3. f[1] = ss[1] /\ flat[1] = ss[1] /\ 0 + 1 = 1
      BY <1>2, <2>5, <3>1, <3>2
    <3> QED BY <3>3
  <2>7. ASSUME NEW n \in Nat, n \in G PROVE n + 1 \in G
    <3> SUFFICES ASSUME n + 2 <= N PROVE flat[n + 2] = f[n + 2]
      OBVIOUS
    <3>1. n + 2 \in 1 .. N /\ n + 2 # 1 /\ (n + 2) - 1 = n + 1 /\ flat[n + 1] = f[n + 1]
      BY <2>7
    <3>2. f[n + 2] = f[n + 1] \o ss[n + 2]
      <4>1. f[n + 2] = f[(n + 2) - 1] \o ss[n + 2]
        BY <1>4, <3>1, Zenon
      <4> QED BY <3>1, <4>1
    <3>3. flat[n + 2] = flat[n + 1] \o ss[n + 2]
      <4>1. flat[n + 2] = flat[(n + 2) - 1] \o ss[n + 2]
        BY <2>5, <3>1, Zenon
      <4> QED BY <3>1, <4>1
    <3> QED BY <3>1, <3>2, <3>3
  <2> HIDE DEF G
  <2>7a. \A n \in Nat : n \in G
    BY <2>6, <2>7, Steps
  <2>8. N - 1 \in G
    BY <1>6, <2>7a
  <2>9. flat[N] = f[N]
    BY <1>6, <2>8 DEF G
  <2> QED BY <1>4, <2>1, <2>9 DEF X, Parts
<1> QED BY <1>5, <1>6

TensorT == [layer : Nat, eid : Int]
CellT   == TensorT \X {1, 2}

\* A tensor's cells.
LEMMA CellFacts ==
  ASSUME NEW t \in TensorT
  PROVE  /\ Cells(t) \in Seq(CellT) /\ Len(Cells(t)) = nbytes(t) /\ nbytes(t) \in {1, 2}
         /\ \A k \in 1 .. nbytes(t) : Cells(t)[k] = <<t, k>>
<1>1. nbytes(t) \in {1, 2}
  BY DEF nbytes
<1>2. \A k \in 1 .. nbytes(t) : <<t, k>> \in CellT
  BY <1>1 DEF CellT
<1> QED BY <1>1, <1>2 DEF Cells

\* The data of a file grows by the cells of one tensor after the other.
LEMMA DataParts ==
  ASSUME NEW g \in Seq(TensorT)
  PROVE  \E f \in [0 .. Len(g) -> Seq(CellT)] :
           /\ f[0] = <<>> /\ \A i \in 1 .. Len(g) : f[i] = f[i - 1] \o Cells(g[i])
           /\ \A k \in 0 .. Len(g) : f[k] = Data(SubSeq(g, 1, k))
<1> DEFINE N == Len(g)
           ss == [i \in 1 .. N |-> Cells(g[i])]
<1>1. N \in Nat /\ \A i \in 1 .. N : g[i] \in TensorT
  OBVIOUS
<1>2. ss \in [1 .. N -> Seq(CellT)]
  BY <1>1, CellFacts
<1>3. PICK f : Parts(f, CellT, N, ss)
  <2> HIDE DEF ss, N
  <2> QED BY <1>1, <1>2, FlattenParts
<1>4. ASSUME NEW k \in 0 .. N PROVE f[k] = Data(SubSeq(g, 1, k))
  <2> DEFINE h == SubSeq(g, 1, k)
             tt == [i \in 1 .. k |-> Cells(h[i])]
  <2>1. Len(h) = k /\ k \in Nat /\ \A i \in 1 .. k : h[i] = g[i] /\ i \in 1 .. N
    OBVIOUS
  <2>2. tt \in [1 .. k -> Seq(CellT)] /\ \A i \in 1 .. k : tt[i] = ss[i]
    BY <1>2, <2>1
  <2>3. Data(h) = FlattenSeq(tt)
    BY <2>1 DEF Data
  <2> HIDE DEF tt, h, ss
  <2>4. PICK e : Parts(e, CellT, k, tt) /\ e[k] = FlattenSeq(tt)
    BY <2>1, <2>2, FlattenParts
  <2> DEFINE G == {n \in Nat : n <= k => e[n] = f[n]}
  <2>5. 0 \in G
    BY <1>3, <2>4 DEF Parts
  <2>6. ASSUME NEW n \in Nat, n \in G PROVE n + 1 \in G
    <3> SUFFICES ASSUME n + 1 <= k PROVE e[n + 1] = f[n + 1]
      OBVIOUS
    <3>1. n + 1 \in 1 .. k /\ n + 1 \in 1 .. N /\ (n + 1) - 1 = n /\ e[n] = f[n]
      BY <2>1, <2>6
    <3>2. f[n + 1] = f[(n + 1) - 1] \o ss[n + 1]
      BY <1>3, <3>1, Zenon DEF Parts
    <3>3. e[n + 1] = e[(n + 1) - 1] \o tt[n + 1] /\ tt[n + 1] = ss[n + 1]
      BY <2>2, <2>4, <3>1, Zenon DEF Parts
    <3> QED BY <3>1, <3>2, <3>3
  <2> HIDE DEF G
  <2>7. \A n \in Nat : n \in G
    BY <2>5, <2>6, Steps
  <2>8. e[k] = f[k]
    BY <2>1, <2>7 DEF G
  <2> QED BY <2>3, <2>4, <2>8 DEF h
<1>5. /\ f \in [0 .. N -> Seq(CellT)] /\ f[0] = <<>>
      /\ \A i \in 1 .. N : f[i] = f[i - 1] \o Cells(g[i])
  BY <1>3 DEF Parts
<1> QED BY <1>4, <1>5

\* Where the elements of a concatenation are.
LEMMA ConcatParts ==
  ASSUME NEW P, NEW x \in Seq(P), NEW c \in Seq(P)
  PROVE  /\ x \o c \in Seq(P) /\ Len(x) \in Nat /\ Len(c) \in Nat
         /\ Len(x \o c) = Len(x) + Len(c)
         /\ \A p \in 1 .. Len(x) : (x \o c)[p] = x[p]
         /\ \A j \in 1 .. Len(c) : (x \o c)[Len(x) + j] = c[j]
OBVIOUS

\* Each tensor's cells lie in the data where the header says.
LEMMA DataFacts ==
  ASSUME NEW g \in Seq(TensorT)
  PROVE  /\ Data(g) \in Seq(CellT)
         /\ \A k \in 1 .. Len(g) :
              /\ Weight(SubSeq(g, 1, k - 1)) \in Nat
              /\ Weight(SubSeq(g, 1, k)) = Weight(SubSeq(g, 1, k - 1)) + nbytes(g[k])
              /\ Weight(SubSeq(g, 1, k)) <= Len(Data(g))
              /\ \A j \in 1 .. nbytes(g[k]) :
                   Data(g)[Weight(SubSeq(g, 1, k - 1)) + j] = <<g[k], j>>
<1> DEFINE N == Len(g)
<1>1. N \in Nat /\ SubSeq(g, 1, N) = g /\ \A k \in 1 .. N : g[k] \in TensorT /\ k - 1 \in 0 .. N
  OBVIOUS
<1>2. PICK f \in [0 .. N -> Seq(CellT)] :
        /\ f[0] = <<>> /\ \A i \in 1 .. N : f[i] = f[i - 1] \o Cells(g[i])
        /\ \A k \in 0 .. N : f[k] = Data(SubSeq(g, 1, k))
  BY DataParts
<1> HIDE DEF N
<1>3. f[N] = Data(g) /\ Data(g) \in Seq(CellT)
  <2>1. N \in 0 .. N
    BY <1>1
  <2>2. f[N] = Data(SubSeq(g, 1, N)) /\ f[N] \in Seq(CellT)
    BY <1>2, <2>1
  <2> QED BY <1>1, <2>2
<1>4. ASSUME NEW i \in 1 .. N
      PROVE  /\ f[i - 1] \in Seq(CellT) /\ f[i] \in Seq(CellT) /\ Len(f[i - 1]) \in Nat
             /\ Len(f[i]) = Len(f[i - 1]) + nbytes(g[i])
             /\ \A p \in 1 .. Len(f[i - 1]) : f[i][p] = f[i - 1][p]
             /\ \A j \in 1 .. nbytes(g[i]) : f[i][Len(f[i - 1]) + j] = <<g[i], j>>
  <2> DEFINE x == f[i - 1]
             c == Cells(g[i])
  <2>0. i \in 0 .. N /\ i - 1 \in 0 .. N
    BY <1>1
  <2>1a. f[i] = x \o c
    BY <1>2, Zenon
  <2>1. x \in Seq(CellT) /\ f[i] \in Seq(CellT) /\ f[i] = x \o c
    BY <1>2, <2>0, <2>1a
  <2>2. c \in Seq(CellT) /\ Len(c) = nbytes(g[i]) /\ \A j \in 1 .. nbytes(g[i]) : c[j] = <<g[i], j>>
    BY <1>1, CellFacts
  <2>3. nbytes(g[i]) \in Nat
    BY DEF nbytes
  <2> HIDE DEF x, c
  <2>4. /\ Len(x) \in Nat /\ Len(x \o c) = Len(x) + Len(c)
        /\ \A p \in 1 .. Len(x) : (x \o c)[p] = x[p]
        /\ \A j \in 1 .. Len(c) : (x \o c)[Len(x) + j] = c[j]
    <3>1. x \in Seq(CellT) /\ c \in Seq(CellT)
      BY <2>1, <2>2
    <3>2. \A y, d \in Seq(CellT) :
            /\ Len(y) \in Nat /\ Len(y \o d) = Len(y) + Len(d)
            /\ \A p \in 1 .. Len(y) : (y \o d)[p] = y[p]
            /\ \A j \in 1 .. Len(d) : (y \o d)[Len(y) + j] = d[j]
      BY ConcatParts
    <3> QED BY <3>1, <3>2, Zenon
  <2>7. \A j \in 1 .. nbytes(g[i]) : f[i][Len(x) + j] = <<g[i], j>>
    BY <2>1a, <2>2, <2>4
  <2>8. \A p \in 1 .. Len(x) : f[i][p] = x[p]
    BY <2>1a, <2>4
  <2>9. Len(f[i]) = Len(x) + nbytes(g[i])
    BY <2>1a, <2>2, <2>4
  <2> QED BY <2>1, <2>4, <2>7, <2>8, <2>9, Zenon DEF x
<1>5. ASSUME NEW k \in 1 .. N
      PROVE  Len(f[k]) <= Len(f[N]) /\ \A p \in 1 .. Len(f[k]) : f[N][p] = f[k][p]
  <2> DEFINE G == {n \in Nat : k + n <= N =>
                     Len(f[k]) <= Len(f[k + n]) /\ \A p \in 1 .. Len(f[k]) : f[k + n][p] = f[k][p]}
  <2>0. Len(f[k]) \in Nat
    BY <1>4
  <2>1. 0 \in G
    <3>1. k + 0 = k
      OBVIOUS
    <3> QED BY <2>0, <3>1
  <2>2. ASSUME NEW n \in Nat, n \in G PROVE n + 1 \in G
    <3> SUFFICES ASSUME k + (n + 1) <= N
                 PROVE  /\ Len(f[k]) <= Len(f[k + (n + 1)])
                        /\ \A p \in 1 .. Len(f[k]) : f[k + (n + 1)][p] = f[k][p]
      OBVIOUS
    <3> DEFINE i == k + (n + 1)
    <3>1. i \in 1 .. N /\ i - 1 = k + n /\ k + n <= N
      BY <1>1
    <3>2. Len(f[k]) <= Len(f[i - 1]) /\ \A p \in 1 .. Len(f[k]) : f[i - 1][p] = f[k][p]
      BY <2>2, <3>1
    <3> HIDE DEF i
    <3>3. /\ Len(f[i - 1]) \in Nat /\ Len(f[i]) = Len(f[i - 1]) + nbytes(g[i])
          /\ \A p \in 1 .. Len(f[i - 1]) : f[i][p] = f[i - 1][p]
      BY <1>4, <3>1
    <3>4. nbytes(g[i]) \in Nat
      BY DEF nbytes
    <3>5. \A p \in 1 .. Len(f[k]) : p \in 1 .. Len(f[i - 1])
      BY <2>0, <3>2, <3>3
    <3> QED BY <2>0, <3>2, <3>3, <3>4, <3>5 DEF i
  <2> HIDE DEF G
  <2>3. \A n \in Nat : n \in G
    BY <2>1, <2>2, Steps
  <2>4. N - k \in G /\ k + (N - k) = N
    BY <1>1, <2>3
  <2> QED BY <1>1, <2>4 DEF G
<1>6. ASSUME NEW k \in 1 .. N
      PROVE  /\ Weight(SubSeq(g, 1, k - 1)) \in Nat
             /\ Weight(SubSeq(g, 1, k)) = Weight(SubSeq(g, 1, k - 1)) + nbytes(g[k])
             /\ Weight(SubSeq(g, 1, k)) <= Len(Data(g))
             /\ \A j \in 1 .. nbytes(g[k]) :
                  Data(g)[Weight(SubSeq(g, 1, k - 1)) + j] = <<g[k], j>>
  <2>1. Weight(SubSeq(g, 1, k - 1)) = Len(f[k - 1]) /\ Weight(SubSeq(g, 1, k)) = Len(f[k])
    <3>1. k \in 0 .. N /\ k - 1 \in 0 .. N
      BY <1>1
    <3> QED BY <1>2, <3>1, Zenon DEF Weight
  <2>2. nbytes(g[k]) \in Nat
    BY DEF nbytes
  <2>3. \A j \in 1 .. nbytes(g[k]) : Len(f[k - 1]) + j \in 1 .. Len(f[k])
    BY <1>4, <2>2
  <2> QED BY <1>3, <1>4, <1>5, <2>1, <2>3
<1> QED BY <1>3, <1>6 DEF N

\* What is read back of a file of which m bytes are there.
LEMMA ReadBack ==
  ASSUME NEW g \in Seq(TensorT), NEW m \in 0 .. Len(Data(g)), NEW k \in 1 .. Len(g),
         Header(g)[k].hi <= m
  PROVE  /\ Header(g)[k].name = g[k]
         /\ SubSeq(SubSeq(Data(g), 1, m), Header(g)[k].lo + 1, Header(g)[k].hi) = Cells(g[k])
<1> DEFINE d == Data(g)
           lo == Weight(SubSeq(g, 1, k - 1))
           hi == Weight(SubSeq(g, 1, k))
           t == g[k]
<1>1. Header(g)[k] = [name |-> t, lo |-> lo, hi |-> hi]
  BY DEF Header
<1>2. t \in TensorT /\ Len(d) \in Nat
  BY DataFacts
<1>3. /\ d \in Seq(CellT) /\ lo \in Nat /\ hi = lo + nbytes(t) /\ hi <= Len(d)
      /\ \A j \in 1 .. nbytes(t) : d[lo + j] = <<t, j>>
  BY DataFacts
<1>4. nbytes(t) \in Nat /\ nbytes(t) > 0
  BY DEF nbytes
<1>5. hi <= m
  BY <1>1
<1>6. Len(Cells(t)) = nbytes(t) /\ Cells(t) \in Seq(CellT)
      /\ \A j \in 1 .. nbytes(t) : Cells(t)[j] = <<t, j>>
  BY <1>2, CellFacts
<1> HIDE DEF d, lo, hi, t
<1>7. m \in Nat /\ m <= Len(d)
  BY <1>2 DEF d
<1> DEFINE x == SubSeq(d, 1, m)
<1>8. x \in Seq(CellT) /\ Len(x) = m /\ \A p \in 1 .. m : x[p] = d[p]
  BY <1>2, <1>3, <1>7
<1> HIDE DEF x
<1> DEFINE y == SubSeq(x, lo + 1, hi)
<1>9. /\ y \in Seq(CellT) /\ Len(y) = hi - lo
      /\ \A j \in 1 .. (hi - lo) : y[j] = x[lo + j]
  <2>1. hi \in Nat /\ lo + 1 >= 1 /\ hi <= Len(x) /\ lo + 1 <= hi
    BY <1>3, <1>4, <1>5, <1>8
  <2>2. \A p \in (lo + 1) .. hi : x[p] \in CellT
    BY <1>3, <1>8, <2>1
  <2>3. hi - (lo + 1) + 1 = hi - lo
    BY <1>3, <2>1
  <2> QED BY <1>3, <1>8, <2>1, <2>2, <2>3
<1> HIDE DEF y
<1>10. hi - lo = nbytes(t)
  BY <1>3, <1>4
<1>11. ASSUME NEW j \in 1 .. nbytes(t) PROVE y[j] = Cells(t)[j]
  <2>1. lo + j \in 1 .. m
    BY <1>3, <1>4, <1>5, <1>7
  <2> QED BY <1>3, <1>6, <1>8, <1>9, <1>10, <2>1
<1>12. y = Cells(t)
  BY <1>6, <1>9, <1>10, <1>11
<1>13. SubSeq(SubSeq(Data(g), 1, m), lo + 1, hi) = Cells(t)
  BY <1>12 DEF x, y, d
<1>14. Header(g)[k].name = t /\ Header(g)[k].lo = lo /\ Header(g)[k].hi = hi
  BY <1>1
<1>15. Header(g)[k].name = t /\ SubSeq(SubSeq(Data(g), 1, m), Header(g)[k].lo + 1, Header(g)[k].hi) = Cells(t)
  BY <1>13, <1>14
<1> QED BY <1>15 DEF t

-----------------------------------------------------------------------------
(* What is sent.                                                           *)

\* The experts' tensors.
ExpertT == [layer : Nat, eid : Nat]

\* The source is a sequence of tensors, and what repack visits one of experts.
LEMMA SourceTypes ==
  ASSUME in.n_experts \in Nat
  PROVE  Source \in Seq(TensorT) /\ Routed \in Seq(ExpertT)
<1>0. Layers \in Nat
  BY ShippingAssumption
<1> DEFINE ss == [l \in 1 .. Layers |->
             <<Tensor(l, NoExpert)>> \o [e \in 1 .. in.n_experts |-> Tensor(l, e - 1)]]
           rs == [l \in 1 .. Layers |-> [e \in 1 .. in.n_experts |-> Tensor(l, e - 1)]]
<1>1. ASSUME NEW l \in 1 .. Layers
      PROVE  /\ <<Tensor(l, NoExpert)>> \in Seq(TensorT)
             /\ [e \in 1 .. in.n_experts |-> Tensor(l, e - 1)] \in Seq(TensorT)
             /\ [e \in 1 .. in.n_experts |-> Tensor(l, e - 1)] \in Seq(ExpertT)
  <2>1. l \in Nat /\ NoExpert \in Int
    BY <1>0 DEF NoExpert
  <2>2. Tensor(l, NoExpert) \in TensorT
    BY <2>1 DEF Tensor, TensorT
  <2>3. \A e \in 1 .. in.n_experts : Tensor(l, e - 1) \in TensorT /\ Tensor(l, e - 1) \in ExpertT
    BY <2>1 DEF Tensor, TensorT, ExpertT
  <2> QED BY <2>2, <2>3
<1>2. ss \in [1 .. Layers -> Seq(TensorT)]
  BY <1>1, ConcatParts
<1>3. rs \in [1 .. Layers -> Seq(ExpertT)]
  BY <1>1
<1>4. Source = FlattenSeq(ss) /\ Routed = FlattenSeq(rs)
  BY DEF Source, Routed
<1> HIDE DEF ss, rs
<1>5. ASSUME NEW P, NEW xs \in [1 .. Layers -> Seq(P)] PROVE FlattenSeq(xs) \in Seq(P)
  <2>1. PICK f : Parts(f, P, Layers, xs) /\ f[Layers] = FlattenSeq(xs)
    BY <1>0, FlattenParts
  <2>2. f[Layers] \in Seq(P)
    BY <1>0, <2>1 DEF Parts
  <2> QED BY <2>1, <2>2
<1> QED BY <1>2, <1>3, <1>4, <1>5

\* A sequence holds x.
Within(x, s) == \E i \in 1 .. Len(s) : s[i] = x

\* Nothing that the rank needs is left out of what it is sent.
LEMMA SelectKeeps ==
  ASSUME in.n_experts \in Nat, NEW req
  PROVE  /\ select_shard_names(req) \in Seq(TensorT)
         /\ \A i \in 1 .. Len(Source) :
              Needs(req, Source[i]) => Within(Source[i], select_shard_names(req))
<1> DEFINE src == Source
           N == Len(src)
           X == Seq(TensorT)
           Def(k) == [i \in 0 .. N |->
                        IF i = 0 THEN <<>>
                        ELSE IF Needs(req, src[i]) THEN Append(k[i - 1], src[i]) ELSE k[i - 1]]
           kept == CHOOSE k : k = Def(k)
<1>1. select_shard_names(req) = kept[N]
  BY DEF select_shard_names
<1>2. src \in X /\ N \in Nat /\ \A i \in 1 .. N : src[i] \in TensorT
  BY SourceTypes
<1> HIDE DEF src
<1>3. <<>> \in X /\ \A i \in 1 .. N : \A x \in X : Append(x, src[i]) \in X
  BY <1>2
<1> HIDE DEF X, N
<1>4. PICK f \in [0 .. N -> X] :
        f[0] = <<>> /\ \A i \in 1 .. N : f[i] = IF Needs(req, src[i]) THEN Append(f[i - 1], src[i]) ELSE f[i - 1]
  <2> DEFINE step == [i \in 1 .. N |-> [x \in X |-> IF Needs(req, src[i]) THEN Append(x, src[i]) ELSE x]]
             none == <<>>
  <2>1. step \in [1 .. N -> [X -> X]] /\ none \in X
    BY <1>3
  <2>2. \A i \in 1 .. N : \A x \in X : step[i][x] = IF Needs(req, src[i]) THEN Append(x, src[i]) ELSE x
    OBVIOUS
  <2> HIDE DEF step, none
  <2>3. PICK f : Solves(f, X, N, none, step)
    BY <1>2, <2>1, Recursion
  <2>4. ASSUME NEW i \in 1 .. N
        PROVE  f[i] = IF Needs(req, src[i]) THEN Append(f[i - 1], src[i]) ELSE f[i - 1]
    <3>1. f[i - 1] \in X /\ f[i] = step[i][f[i - 1]]
      BY <1>2, <2>3 DEF Solves
    <3> QED BY <2>2, <3>1
  <2> QED BY <2>3, <2>4 DEF none, Solves
<1>5. f = Def(f)
  <2>1. \A i \in 0 .. N : f[i] = IF i = 0 THEN <<>>
          ELSE IF Needs(req, src[i]) THEN Append(f[i - 1], src[i]) ELSE f[i - 1]
    <3>1. \A i \in 0 .. N : i = 0 \/ (i # 0 /\ i \in 1 .. N)
      BY <1>2
    <3> QED BY <1>4, <3>1, Zenon
  <2> QED BY <1>4, <2>1
<1>6. kept = Def(kept)
  <2> HIDE DEF Def
  <2> QED BY <1>5
<1> HIDE DEF kept
<1>7. /\ kept[0] = <<>>
      /\ \A i \in 1 .. N : kept[i] = IF Needs(req, src[i]) THEN Append(kept[i - 1], src[i]) ELSE kept[i - 1]
  <2>1. 0 \in 0 .. N /\ \A i \in 1 .. N : i \in 0 .. N /\ i # 0
    BY <1>2
  <2>2. \A i \in 0 .. N : kept[i] = IF i = 0 THEN <<>>
          ELSE IF Needs(req, src[i]) THEN Append(kept[i - 1], src[i]) ELSE kept[i - 1]
    BY <1>6
  <2> QED BY <2>1, <2>2
<1> DEFINE G == {n \in Nat : n <= N =>
                   /\ kept[n] \in X
                   /\ \A i \in 1 .. n : Needs(req, src[i]) => Within(src[i], kept[n])}
<1>8. 0 \in G
  BY <1>3, <1>7
<1>9. ASSUME NEW n \in Nat, n \in G PROVE n + 1 \in G
  <2> SUFFICES ASSUME n + 1 <= N
               PROVE  /\ kept[n + 1] \in X
                      /\ \A i \in 1 .. (n + 1) : Needs(req, src[i]) => Within(src[i], kept[n + 1])
    OBVIOUS
  <2>1. /\ n + 1 \in 1 .. N /\ (n + 1) - 1 = n /\ kept[n] \in X
        /\ \A i \in 1 .. n : Needs(req, src[i]) => Within(src[i], kept[n])
    BY <1>2, <1>9
  <2> DEFINE x == kept[n]
             y == kept[n + 1]
  <2>2. y = IF Needs(req, src[n + 1]) THEN Append(x, src[n + 1]) ELSE x
    <3>1. y = IF Needs(req, src[n + 1]) THEN Append(kept[(n + 1) - 1], src[n + 1]) ELSE kept[(n + 1) - 1]
      BY <1>7, <2>1, Zenon
    <3> QED BY <2>1, <3>1
  <2>3. src[n + 1] \in TensorT /\ x \in Seq(TensorT)
    BY <1>2, <2>1 DEF X
  <2> HIDE DEF x, y
  <2>4. CASE Needs(req, src[n + 1])
    <3>1. y = Append(x, src[n + 1])
      BY <2>2, <2>4
    <3>2. y \in Seq(TensorT) /\ Len(y) = Len(x) + 1 /\ Len(x) \in Nat /\ y[Len(x) + 1] = src[n + 1]
          /\ \A j \in 1 .. Len(x) : y[j] = x[j]
      BY <2>3, <3>1
    <3>3. Within(src[n + 1], y)
      BY <3>2 DEF Within
    <3>4. \A z : Within(z, x) => Within(z, y)
      BY <3>2 DEF Within
    <3>5. \A i \in 1 .. (n + 1) : i \in 1 .. n \/ i = n + 1
      OBVIOUS
    <3>6. \A i \in 1 .. (n + 1) : Needs(req, src[i]) => Within(src[i], y)
      BY <2>1, <3>3, <3>4, <3>5 DEF x
    <3> QED BY <3>2, <3>6 DEF X, y
  <2>5. CASE ~Needs(req, src[n + 1])
    <3>1. y = x
      BY <2>2, <2>5
    <3>2. \A i \in 1 .. (n + 1) : i \in 1 .. n \/ i = n + 1
      OBVIOUS
    <3> QED BY <2>1, <2>5, <3>1, <3>2 DEF x, y
  <2> QED BY <2>4, <2>5
<1> HIDE DEF G
<1>10. N \in G
  BY <1>2, <1>8, <1>9, Steps
<1>11. kept[N] \in X /\ \A i \in 1 .. N : Needs(req, src[i]) => Within(src[i], kept[N])
  BY <1>2, <1>10 DEF G
<1> QED BY <1>1, <1>11 DEF src, N, X

\* Every tensor to be sent is in a file.
LEMMA GroupsKeep ==
  ASSUME NEW items \in Seq(TensorT)
  PROVE  /\ Groups(items) \in Seq(Seq(TensorT))
         /\ \A i \in 1 .. Len(items) : \E k \in 1 .. Len(Groups(items)) : Within(items[i], Groups(items)[k])
<1> DEFINE N == Len(items)
           X == Seq(Seq(TensorT))
           Full(x, i) == i > 1 /\ Weight(Last(x)) + nbytes(items[i]) <= MaxFile
           Into(x, i) == IF Full(x, i) THEN [x EXCEPT ![Len(x)] = Append(@, items[i])]
                         ELSE Append(x, <<items[i]>>)
           Def(g) == [i \in 0 .. N |-> IF i = 0 THEN <<>> ELSE Into(g[i - 1], i)]
           gs == CHOOSE g : g = Def(g)
<1>1. Groups(items) = gs[N]
  BY DEF Groups
<1>2. N \in Nat /\ \A i \in 1 .. N : items[i] \in TensorT
  OBVIOUS
<1>3. <<>> \in X /\ \A i \in 1 .. N : \A x \in X : Into(x, i) \in X
  <2> SUFFICES ASSUME NEW i \in 1 .. N, NEW x \in X PROVE Into(x, i) \in X
    OBVIOUS
  <2>1. items[i] \in TensorT /\ <<items[i]>> \in Seq(TensorT)
    BY <1>2
  <2>2. Append(x, <<items[i]>>) \in X
    BY <2>1
  <2>3. [x EXCEPT ![Len(x)] = Append(@, items[i])] \in X
    <3> DEFINE e == [x EXCEPT ![Len(x)] = Append(@, items[i])]
    <3>1. Len(x) \in Nat /\ DOMAIN x = 1 .. Len(x) /\ DOMAIN e = 1 .. Len(x)
      OBVIOUS
    <3>2. ASSUME NEW k \in 1 .. Len(x) PROVE e[k] \in Seq(TensorT)
      <4>1. x[k] \in Seq(TensorT)
        OBVIOUS
      <4>2. Append(x[k], items[i]) \in Seq(TensorT)
        BY <2>1, <4>1
      <4>3. e[k] = IF k = Len(x) THEN Append(x[k], items[i]) ELSE x[k]
        BY <3>1
      <4> HIDE DEF e
      <4> QED BY <4>1, <4>2, <4>3
    <3>3. e = [k \in 1 .. Len(x) |-> e[k]]
      BY <3>1
    <3> HIDE DEF e
    <3>4. e \in X
      BY <3>1, <3>2, <3>3
    <3> QED BY <3>4 DEF e
  <2> QED BY <2>2, <2>3
<1> HIDE DEF X, N, Into
<1>4. PICK f \in [0 .. N -> X] : f[0] = <<>> /\ \A i \in 1 .. N : f[i] = Into(f[i - 1], i)
  <2> DEFINE step == [i \in 1 .. N |-> [x \in X |-> Into(x, i)]]
             none == <<>>
  <2>1. step \in [1 .. N -> [X -> X]] /\ none \in X
    BY <1>3
  <2>2. \A i \in 1 .. N : \A x \in X : step[i][x] = Into(x, i)
    OBVIOUS
  <2> HIDE DEF step, none
  <2>3. PICK f : Solves(f, X, N, none, step)
    BY <1>2, <2>1, Recursion
  <2>4. ASSUME NEW i \in 1 .. N PROVE f[i] = Into(f[i - 1], i)
    <3>1. f[i - 1] \in X /\ f[i] = step[i][f[i - 1]]
      BY <1>2, <2>3 DEF Solves
    <3> QED BY <2>2, <3>1
  <2> QED BY <2>3, <2>4 DEF none, Solves
<1>5. f = Def(f)
  <2>1. \A i \in 0 .. N : f[i] = IF i = 0 THEN <<>> ELSE Into(f[i - 1], i)
    BY <1>2, <1>4
  <2> QED BY <1>4, <2>1
<1>6. gs = Def(gs)
  <2> HIDE DEF Def
  <2> QED BY <1>5
<1> HIDE DEF gs
<1>7. gs[0] = <<>> /\ \A i \in 1 .. N : gs[i] = Into(gs[i - 1], i)
  <2>1. 0 \in 0 .. N /\ \A i \in 1 .. N : i \in 0 .. N /\ i # 0
    BY <1>2
  <2>2. \A i \in 0 .. N : gs[i] = IF i = 0 THEN <<>> ELSE Into(gs[i - 1], i)
    BY <1>6
  <2> QED BY <2>1, <2>2
<1> DEFINE Filed(t, x) == \E k \in 1 .. Len(x) : Within(t, x[k])
           G == {n \in Nat : n <= N =>
                   /\ gs[n] \in X /\ (n > 0 => Len(gs[n]) > 0)
                   /\ \A i \in 1 .. n : Filed(items[i], gs[n])}
<1>8. 0 \in G
  BY <1>3, <1>7
<1>9. ASSUME NEW n \in Nat, n \in G PROVE n + 1 \in G
  <2> SUFFICES ASSUME n + 1 <= N
               PROVE  /\ gs[n + 1] \in X /\ Len(gs[n + 1]) > 0
                      /\ \A i \in 1 .. (n + 1) : Filed(items[i], gs[n + 1])
    OBVIOUS
  <2>1. /\ n + 1 \in 1 .. N /\ (n + 1) - 1 = n /\ gs[n] \in X /\ (n > 0 => Len(gs[n]) > 0)
        /\ \A i \in 1 .. n : Filed(items[i], gs[n])
    BY <1>2, <1>9
  <2> DEFINE x == gs[n]
             y == gs[n + 1]
             t == items[n + 1]
  <2>2. y = Into(x, n + 1)
    <3>1. y = Into(gs[(n + 1) - 1], n + 1)
      BY <1>7, <2>1, Zenon
    <3> QED BY <2>1, <3>1
  <2>3. t \in TensorT /\ x \in Seq(Seq(TensorT)) /\ y \in X
    BY <1>2, <1>3, <2>1, <2>2 DEF X
  <2>4. n > 0 => Len(x) > 0
    BY <2>1
  <2>5. y = IF Full(x, n + 1) THEN [x EXCEPT ![Len(x)] = Append(@, t)] ELSE Append(x, <<t>>)
    BY <2>2 DEF Into
  <2>6. Full(x, n + 1) => Len(x) > 0
    BY <2>4
  <2> HIDE DEF x, y, t, Full
  <2>7. Len(y) > 0 /\ Filed(t, y) /\ \A z : Filed(z, x) => Filed(z, y)
    <3>1. CASE Full(x, n + 1)
      <4> DEFINE m == Len(x)
      <4>1. m \in 1 .. Len(x) /\ m \in Nat /\ m > 0
        BY <2>3, <2>6, <3>1
      <4>2. y = [x EXCEPT ![m] = Append(@, t)]
        BY <2>5, <3>1
      <4>3. Len(y) = Len(x) /\ y[m] = Append(x[m], t) /\ \A j \in 1 .. Len(x) : j # m => y[j] = x[j]
        BY <2>3, <4>1, <4>2
      <4>4. x[m] \in Seq(TensorT)
        BY <2>3, <4>1
      <4> HIDE DEF m
      <4> DEFINE a == x[m]
                 b == y[m]
      <4>5. a \in Seq(TensorT) /\ b = Append(a, t)
        BY <4>3, <4>4
      <4> HIDE DEF a, b
      <4>6. Len(b) = Len(a) + 1 /\ Len(a) \in Nat /\ b[Len(a) + 1] = t /\ \A j \in 1 .. Len(a) : b[j] = a[j]
        BY <2>3, <4>5
      <4>7. Within(t, b) /\ \A z : Within(z, a) => Within(z, b)
        BY <4>6 DEF Within
      <4>8. Filed(t, y)
        BY <4>1, <4>3, <4>7 DEF b
      <4>9. ASSUME NEW z, Filed(z, x) PROVE Filed(z, y)
        <5>1. PICK k \in 1 .. Len(x) : Within(z, x[k])
          BY <4>9
        <5>2. Within(z, y[k])
          BY <4>3, <4>7, <5>1 DEF a, b
        <5> QED BY <4>3, <5>1, <5>2
      <4> QED BY <4>1, <4>3, <4>8, <4>9
    <3>2. CASE ~Full(x, n + 1)
      <4> DEFINE s == <<t>>
      <4>0. s \in Seq(TensorT) /\ Len(s) = 1 /\ s[1] = t
        BY <2>3
      <4>1. y = Append(x, s)
        BY <2>5, <3>2
      <4> HIDE DEF s
      <4>2. Len(y) = Len(x) + 1 /\ Len(x) \in Nat /\ y[Len(x) + 1] = s /\ \A j \in 1 .. Len(x) : y[j] = x[j]
        BY <2>3, <4>0, <4>1
      <4>3. Within(t, s)
        BY <4>0 DEF Within
      <4>4. Filed(t, y)
        BY <4>2, <4>3
      <4>5. \A z : Filed(z, x) => Filed(z, y)
        BY <4>2
      <4> QED BY <4>2, <4>4, <4>5
    <3> QED BY <3>1, <3>2
  <2>8. \A i \in 1 .. (n + 1) : i \in 1 .. n \/ i = n + 1
    OBVIOUS
  <2>9. \A i \in 1 .. n : Filed(items[i], x)
    BY <2>1 DEF x
  <2> HIDE DEF Filed
  <2>10. \A i \in 1 .. (n + 1) : Filed(items[i], y)
    BY <2>7, <2>8, <2>9 DEF t
  <2> QED BY <2>3, <2>7, <2>10 DEF y
<1> HIDE DEF G
<1>10. N \in G
  BY <1>2, <1>8, <1>9, Steps
<1>11. gs[N] \in X /\ \A i \in 1 .. N : Filed(items[i], gs[N])
  BY <1>2, <1>10 DEF G
<1> QED BY <1>1, <1>11 DEF N, X

\* The files of a rank's shard.
FilesOf(req) == Groups(select_shard_names(req))

\* What the first n writes to a file leave there: its header, then its data.
Piece(g, n) ==
  IF n = 0 THEN Created ELSE [head |-> TRUE, tab |-> Header(g), data |-> SubSeq(Data(g), 1, n - 1)]

ReqT       == [nodes : Nat, rank : Nat]
LocT       == [name : TensorT, file : Nat, offset : Nat]
ShipPass   == [kind : {"pull", "export"}, req : ReqT, at : Nat, left : Nat]
RepackPass == [kind : {"repack"}, num_files : Nat \ {0}, locs : Seq(LocT)]

PassType == pass = NoPass \/ pass \in ShipPass \/ pass \in RepackPass

\* Whatever a file of the snapshot was left by, it is the beginning of a file
\* that a pass writes.
DirSound ==
  /\ \E K \in Nat : DOMAIN dir \subseteq 0 .. K
  /\ \A n \in DOMAIN dir : \E g \in Seq(TensorT) : \E m \in 0 .. file_size(g) : dir[n] = Piece(g, m)

\* A pass has written all of its files but the last, of which `left' is missing.
PassSound ==
  pass \in ShipPass =>
    /\ pass.at \in 0 .. Len(FilesOf(pass.req))
    /\ pass.at = 0 => pass.left = 0
    /\ pass.at > 0 => shard = NoShard /\ pass.left <= file_size(FilesOf(pass.req)[pass.at])
    /\ \A n \in 0 .. pass.at - 1 :
         /\ n \in DOMAIN dir
         /\ dir[n] = Piece(FilesOf(pass.req)[n + 1],
                           file_size(FilesOf(pass.req)[n + 1]) - (IF n = pass.at - 1 THEN pass.left ELSE 0))

\* The shard whose pass went through last is there, all of it.
ShardSound ==
  shard # NoShard =>
    \A n \in 0 .. Len(FilesOf(shard)) - 1 :
      /\ n \in DOMAIN dir
      /\ dir[n] = Piece(FilesOf(shard)[n + 1], file_size(FilesOf(shard)[n + 1]))

ShipInv == in.n_experts \in Nat /\ PassType /\ DirSound /\ PassSound /\ ShardSound

\* The files are sequences of tensors, and no tensor the rank needs is left out.
LEMMA FilesFacts ==
  ASSUME in.n_experts \in Nat, NEW req
  PROVE  /\ FilesOf(req) \in Seq(Seq(TensorT)) /\ Len(FilesOf(req)) \in Nat
         /\ \A k \in 1 .. Len(FilesOf(req)) : FilesOf(req)[k] \in Seq(TensorT)
         /\ \A i \in 1 .. Len(Source) : Needs(req, Source[i]) =>
              \E k \in 1 .. Len(FilesOf(req)) : Within(Source[i], FilesOf(req)[k])
<1> DEFINE names == select_shard_names(req)
           fs == Groups(names)
<1>1. /\ names \in Seq(TensorT)
      /\ \A i \in 1 .. Len(Source) : Needs(req, Source[i]) => Within(Source[i], names)
  BY SelectKeeps
<1> HIDE DEF names
<1>2. /\ fs \in Seq(Seq(TensorT))
      /\ \A i \in 1 .. Len(names) : \E k \in 1 .. Len(fs) : Within(names[i], fs[k])
  BY <1>1, GroupsKeep
<1>3. FilesOf(req) = fs
  BY DEF FilesOf, names
<1> HIDE DEF fs
<1>4. Len(fs) \in Nat /\ \A k \in 1 .. Len(fs) : fs[k] \in Seq(TensorT)
  BY <1>2
<1>5. ASSUME NEW i \in 1 .. Len(Source), Needs(req, Source[i])
      PROVE  \E k \in 1 .. Len(fs) : Within(Source[i], fs[k])
  <2>1. PICK j \in 1 .. Len(names) : names[j] = Source[i]
    BY <1>1, <1>5 DEF Within
  <2> QED BY <1>2, <2>1
<1> QED BY <1>2, <1>3, <1>4, <1>5

\* The files depend on the arguments only.
LEMMA SameFiles ==
  ASSUME in' = in
  PROVE  \A r : FilesOf(r)' = FilesOf(r)
<1>1. Source' = Source
  BY DEF Source
<1>2. \A r, t : Needs(r, t)' <=> Needs(r, t)
  BY DEF Needs
<1> QED BY <1>1, <1>2 DEF FilesOf, select_shard_names

\* What the header changes of a file.
LEMMA HeadFields ==
  ASSUME NEW f, NEW h, NEW t, NEW d, f = [head |-> h, tab |-> t, data |-> d], NEW u
  PROVE  [f EXCEPT !.head = TRUE, !.tab = u] = [head |-> TRUE, tab |-> u, data |-> d]
<1> DEFINE e == [f EXCEPT !.head = TRUE, !.tab = u]
<1>1. e \in [head : {TRUE}, tab : {u}, data : {d}]
  OBVIOUS
<1> HIDE DEF e
<1>2. e = [head |-> TRUE, tab |-> u, data |-> d]
  BY <1>1
<1> QED BY <1>2 DEF e

\* What a piece of the data changes of a file.
LEMMA DataField ==
  ASSUME NEW f, NEW t, NEW d, f = [head |-> TRUE, tab |-> t, data |-> d], NEW c
  PROVE  [f EXCEPT !.data = Append(@, c)] = [head |-> TRUE, tab |-> t, data |-> Append(d, c)]
<1> DEFINE x == Append(d, c)
           e == [f EXCEPT !.data = x]
<1>1. f.data = d
  OBVIOUS
<1>2. e \in [head : {TRUE}, tab : {t}, data : {x}]
  OBVIOUS
<1>3. [f EXCEPT !.data = Append(@, c)] = e
  BY <1>1
<1> HIDE DEF e, x
<1>4. e = [head |-> TRUE, tab |-> t, data |-> x]
  BY <1>2
<1> QED BY <1>3, <1>4 DEF x

\* What a file's size is, and what one more write does to it.
LEMMA PieceFacts ==
  ASSUME NEW g \in Seq(TensorT)
  PROVE  /\ file_size(g) \in Nat /\ file_size(g) > 0 /\ file_size(g) = 1 + Len(Data(g))
         /\ \A n \in 0 .. file_size(g) - 1 : Written(Piece(g, n), g, n) = Piece(g, n + 1)
<1> DEFINE d == Data(g)
<1>1. d \in Seq(CellT) /\ Len(d) \in Nat
  BY DataFacts
<1>2. file_size(g) = 1 + Len(d)
  BY DEF file_size, Weight
<1> HIDE DEF d
<1>3. Written(Piece(g, 0), g, 0) = Piece(g, 1)
  <2>1. SubSeq(d, 1, 0) = <<>>
    BY <1>1
  <2>2. Piece(g, 0) = [head |-> FALSE, tab |-> <<>>, data |-> <<>>]
    BY DEF Piece, Created
  <2>3. [Piece(g, 0) EXCEPT !.head = TRUE, !.tab = Header(g)] = [head |-> TRUE, tab |-> Header(g), data |-> <<>>]
    BY <2>2, HeadFields
  <2>4. Piece(g, 1) = [head |-> TRUE, tab |-> Header(g), data |-> SubSeq(d, 1, 1 - 1)]
    BY DEF Piece, d
  <2>5. 1 - 1 = 0
    OBVIOUS
  <2>6. Piece(g, 1) = [head |-> TRUE, tab |-> Header(g), data |-> <<>>]
    BY <2>1, <2>4, <2>5
  <2>7. Written(Piece(g, 0), g, 0) = [Piece(g, 0) EXCEPT !.head = TRUE, !.tab = Header(g)]
    BY DEF Written
  <2> QED BY <2>3, <2>6, <2>7, Zenon
<1>4. ASSUME NEW n \in 1 .. Len(d)
      PROVE  Written(Piece(g, n), g, n) = Piece(g, n + 1)
  <2>1. Piece(g, n) = [head |-> TRUE, tab |-> Header(g), data |-> SubSeq(d, 1, n - 1)]
    BY DEF Piece, d
  <2>2. Piece(g, n + 1) = [head |-> TRUE, tab |-> Header(g), data |-> SubSeq(d, 1, n)]
    <3>1. n + 1 # 0 /\ (n + 1) - 1 = n
      BY <1>1
    <3> QED BY <3>1 DEF Piece, d
  <2>3. Append(SubSeq(d, 1, n - 1), d[n]) = SubSeq(d, 1, n)
    <3> DEFINE a == SubSeq(d, 1, n - 1)
               b == SubSeq(d, 1, n)
    <3>1. a \in Seq(CellT) /\ Len(a) = n - 1 /\ \A j \in 1 .. (n - 1) : a[j] = d[j]
      BY <1>1
    <3>2. b \in Seq(CellT) /\ Len(b) = n /\ \A j \in 1 .. n : b[j] = d[j]
      BY <1>1
    <3>3. d[n] \in CellT
      BY <1>1
    <3> HIDE DEF a, b
    <3>4. Append(a, d[n]) \in Seq(CellT) /\ Len(Append(a, d[n])) = n
      BY <3>1, <3>3
    <3>5. \A j \in 1 .. n : Append(a, d[n])[j] = b[j]
      BY <1>1, <3>1, <3>2, <3>3
    <3> QED BY <3>2, <3>4, <3>5
  <2>4. [Piece(g, n) EXCEPT !.data = Append(@, d[n])]
          = [head |-> TRUE, tab |-> Header(g), data |-> Append(SubSeq(d, 1, n - 1), d[n])]
    <3> DEFINE f == Piece(g, n)
               x == SubSeq(d, 1, n - 1)
               u == Header(g)
               c == d[n]
    <3>1. f = [head |-> TRUE, tab |-> u, data |-> x]
      BY <2>1
    <3> HIDE DEF f, x, u, c
    <3>2. [f EXCEPT !.data = Append(@, c)] = [head |-> TRUE, tab |-> u, data |-> Append(x, c)]
      BY <3>1, DataField
    <3> QED BY <3>2 DEF f, x, u, c
  <2>5. Written(Piece(g, n), g, n) = [Piece(g, n) EXCEPT !.data = Append(@, d[n])]
    <3>1. n # 0
      BY <1>1
    <3> QED BY <3>1 DEF Written, d
  <2> QED BY <2>2, <2>3, <2>4, <2>5
<1>5. 1 + Len(d) \in Nat /\ 1 + Len(d) > 0 /\ 0 + 1 = 1
      /\ \A n \in 0 .. (1 + Len(d)) - 1 : n = 0 \/ n \in 1 .. Len(d)
  BY <1>1
<1>6. \A n \in 0 .. (1 + Len(d)) - 1 : Written(Piece(g, n), g, n) = Piece(g, n + 1)
  BY <1>3, <1>4, <1>5
<1> QED BY <1>2, <1>5, <1>6 DEF d

\* A ship pass is none of repack's.
LEMMA PassKinds ==
  /\ \A p \in ShipPass : p.kind \in {"pull", "export"} /\ p \notin RepackPass /\ p # NoPass
  /\ \A p \in RepackPass : p.kind = "repack" /\ p \notin ShipPass /\ p # NoPass
  /\ NoPass.kind = "none" /\ NoPass \notin ShipPass /\ NoPass \notin RepackPass
<1>1. \A p \in ShipPass : p.kind \in {"pull", "export"}
  BY DEF ShipPass
<1>2. \A p \in RepackPass : p.kind = "repack"
  BY DEF RepackPass
<1>3. NoPass.kind = "none"
  BY DEF NoPass
<1>4. "none" \notin {"pull", "export"} /\ "none" # "repack" /\ "repack" \notin {"pull", "export"}
  OBVIOUS
<1> QED BY <1>1, <1>2, <1>3, <1>4, Zenon

\* A step that touches no file, and after which no file is being written,
\* keeps the snapshot sound.
LEMMA ShipKept ==
  ASSUME ShipInv, in' = in, dir' = dir, shard' = shard, PassType',
         pass' \in ShipPass => pass'.at = 0 /\ pass'.left = 0
  PROVE  ShipInv'
<1>1. \A r : FilesOf(r)' = FilesOf(r)
  BY SameFiles
<1>2. DirSound'
  <2>1. DirSound
    BY DEF ShipInv
  <2> QED BY <2>1 DEF DirSound
<1>3. ShardSound'
  <2>1. ShardSound
    BY DEF ShipInv
  <2> QED BY <1>1, <2>1 DEF ShardSound
<1>4. PassSound'
  <2> SUFFICES ASSUME pass' \in ShipPass
               PROVE  /\ pass'.at \in 0 .. Len(FilesOf(pass.req)')
                      /\ pass'.at = 0 => pass'.left = 0
                      /\ ~(pass'.at > 0)
                      /\ 0 .. pass'.at - 1 = {}
    BY DEF PassSound
  <2>1. pass'.at = 0 /\ pass'.left = 0
    OBVIOUS
  <2>2. in'.n_experts \in Nat
    BY DEF ShipInv
  <2>3. Len(FilesOf(pass'.req)) \in Nat
    BY FilesFacts DEF ShipInv
  <2>4. FilesOf(pass.req)' = FilesOf(pass'.req)
    BY <1>1
  <2> QED BY <2>1, <2>3, <2>4
<1> QED BY <1>2, <1>3, <1>4 DEF ShipInv

\* Asking for a shard.
LEMMA ShipBeginStep ==
  ASSUME ShipInv, in' = in, NEW kind \in {"pull", "export"}, NEW req \in ReqT, ShipBegin(kind, req)
  PROVE  ShipInv'
<1>1. pass' = [kind |-> kind, req |-> req, at |-> 0, left |-> 0] /\ dir' = dir /\ shard' = shard
  BY DEF ShipBegin
<1>2. pass' \in ShipPass /\ pass'.at = 0 /\ pass'.left = 0
  BY <1>1 DEF ShipPass
<1> QED BY <1>1, <1>2, ShipKept DEF PassType

\* The next file.
LEMMA ShipCreateStep ==
  ASSUME ShipInv, in' = in, ShipCreate
  PROVE  ShipInv'
<1> DEFINE fs == FilesOf(pass.req)
           at == pass.at
           g == fs[at + 1]
<1>0. Files = fs /\ in.n_experts \in Nat
  BY DEF Files, FilesOf, ShipInv
<1>1. pass \in ShipPass
  <2>1. pass.kind \in {"pull", "export"}
    BY DEF ShipCreate
  <2>2. PassType
    BY DEF ShipInv
  <2>3. "none" \notin {"pull", "export"} /\ "repack" \notin {"pull", "export"}
    OBVIOUS
  <2> QED BY <2>1, <2>2, <2>3, PassKinds DEF PassType
<1>2. /\ pass.left = 0 /\ at \in Nat /\ at < Len(fs) /\ Len(fs) \in Nat
      /\ fs \in Seq(Seq(TensorT)) /\ \A k \in 1 .. Len(fs) : fs[k] \in Seq(TensorT)
  <2>1. pass.left = 0 /\ at < Len(fs)
    BY <1>0 DEF ShipCreate
  <2>2. at \in Nat
    BY <1>1 DEF ShipPass
  <2> QED BY <1>0, <2>1, <2>2, FilesFacts
<1>3. g \in Seq(TensorT)
  BY <1>2
<1>4. file_size(g) \in Nat /\ file_size(g) > 0
  BY <1>3, PieceFacts
<1>5. pass' = [pass EXCEPT !.at = at + 1, !.left = file_size(g)]
  <2>1. pass' = [pass EXCEPT !.at = @ + 1, !.left = file_size(Files[pass.at + 1])]
    BY DEF ShipCreate
  <2> QED BY <1>0, <2>1
<1>6. pass' \in ShipPass /\ pass'.at = at + 1 /\ pass'.left = file_size(g) /\ pass'.req = pass.req
  <2>1. at + 1 \in Nat
    BY <1>2
  <2> DEFINE a == at + 1
             l == file_size(g)
             q == [pass EXCEPT !.at = a, !.left = l]
  <2>2. a \in Nat /\ l \in Nat /\ pass' = q
    BY <1>4, <1>5, <2>1
  <2> HIDE DEF a, l
  <2>3. q \in ShipPass /\ q.at = a /\ q.left = l /\ q.req = pass.req
    BY <1>1, <2>2 DEF ShipPass
  <2> HIDE DEF q
  <2>4. pass' \in ShipPass /\ pass'.at = a /\ pass'.left = l /\ pass'.req = pass.req
    BY <2>2, <2>3
  <2> QED BY <2>4 DEF a, l
<1>7. /\ DOMAIN dir' = DOMAIN dir \cup {at} /\ dir'[at] = Created
      /\ \A n \in DOMAIN dir : n # at => dir'[n] = dir[n]
  <2>1. dir' = [n \in DOMAIN dir \cup {at} |-> IF n = at THEN Created ELSE dir[n]]
    BY DEF ShipCreate
  <2> HIDE DEF at
  <2> QED BY <2>1
<1>8. shard' = NoShard
  BY DEF ShipCreate
<1>9. FilesOf(pass.req)' = fs
  <2>1. FilesOf(pass.req)' = FilesOf(pass'.req)
    BY SameFiles
  <2> QED BY <1>6, <2>1
<1>10. Created = Piece(g, 0)
  BY DEF Piece
<1>11. DirSound'
  <2>1. PICK K \in Nat : DOMAIN dir \subseteq 0 .. K
    BY DEF ShipInv, DirSound
  <2>2. PICK M \in Nat : M >= K /\ M >= at
    <3>1. CASE K >= at
      BY <3>1, <1>2
    <3>2. CASE ~(K >= at)
      BY <3>2, <1>2, <2>1
    <3> QED BY <3>1, <3>2
  <2>3. DOMAIN dir' \subseteq 0 .. M
    BY <1>2, <1>7, <2>1, <2>2
  <2>4. ASSUME NEW n \in DOMAIN dir'
        PROVE  \E h \in Seq(TensorT) : \E m \in 0 .. file_size(h) : dir'[n] = Piece(h, m)
    <3>1. CASE n = at
      <4>1. 0 \in 0 .. file_size(g)
        BY <1>4
      <4> QED BY <1>3, <1>7, <1>10, <3>1, <4>1
    <3>2. CASE n # at
      BY <1>7, <3>2 DEF ShipInv, DirSound
    <3> QED BY <3>1, <3>2
  <2> QED BY <2>3, <2>4 DEF DirSound
<1>12. \A n \in 0 .. at - 1 : n \in DOMAIN dir /\ dir[n] = Piece(fs[n + 1], file_size(fs[n + 1]))
  <2> SUFFICES ASSUME NEW n \in 0 .. at - 1
               PROVE  n \in DOMAIN dir /\ dir[n] = Piece(fs[n + 1], file_size(fs[n + 1]))
    OBVIOUS
  <2>1. /\ n \in DOMAIN dir
        /\ dir[n] = Piece(fs[n + 1], file_size(fs[n + 1]) - (IF n = at - 1 THEN pass.left ELSE 0))
    BY <1>1 DEF ShipInv, PassSound
  <2>2. n + 1 \in 1 .. Len(fs)
    BY <1>2
  <2>3. file_size(fs[n + 1]) \in Nat
    BY <1>2, <2>2, PieceFacts
  <2>4. file_size(fs[n + 1]) - (IF n = at - 1 THEN pass.left ELSE 0) = file_size(fs[n + 1])
    BY <1>2, <2>3
  <2> QED BY <2>1, <2>4
<1> HIDE DEF fs, at
<1>13. PassSound'
  <2>1. at + 1 \in 0 .. Len(fs) /\ at + 1 > 0 /\ (at + 1) - 1 = at /\ at \in Nat
    BY <1>2
  <2>2. ASSUME NEW n \in 0 .. at
        PROVE  /\ n \in DOMAIN dir'
               /\ dir'[n] = Piece(fs[n + 1],
                            file_size(fs[n + 1]) - (IF n = at THEN file_size(g) ELSE 0))
    <3>1. CASE n = at
      <4>1. file_size(fs[n + 1]) - (IF n = at THEN file_size(g) ELSE 0) = 0
        BY <1>4, <3>1
      <4> QED BY <1>7, <1>10, <3>1, <4>1
    <3>2. CASE n # at
      <4>1. n \in 0 .. at - 1 /\ n + 1 \in 1 .. Len(fs)
        BY <1>2, <3>2
      <4>2. file_size(fs[n + 1]) \in Nat
        BY <1>2, <4>1, PieceFacts
      <4>3. file_size(fs[n + 1]) - (IF n = at THEN file_size(g) ELSE 0) = file_size(fs[n + 1])
        BY <3>2, <4>2
      <4> QED BY <1>7, <1>12, <3>2, <4>1, <4>3
    <3> QED BY <3>1, <3>2
  <2>3. pass'.left <= file_size(fs[pass'.at])
    BY <1>4, <1>6
  <2> HIDE DEF g
  <2> QED BY <1>6, <1>8, <1>9, <2>1, <2>2, <2>3 DEF PassSound
<1> QED BY <1>0, <1>6, <1>8, <1>11, <1>13 DEF ShipInv, PassType, ShardSound

\* What a shard pass under way is.
LEMMA ShipUnderway ==
  ASSUME ShipInv, pass.kind \in {"pull", "export"}
  PROVE  /\ pass \in ShipPass /\ Files = FilesOf(pass.req) /\ in.n_experts \in Nat
         /\ Len(FilesOf(pass.req)) \in Nat
         /\ \A k \in 1 .. Len(FilesOf(pass.req)) : FilesOf(pass.req)[k] \in Seq(TensorT)
         /\ pass.at \in Nat /\ pass.left \in Nat
<1>1. pass \in ShipPass
  <2>1. PassType
    BY DEF ShipInv
  <2>2. "none" \notin {"pull", "export"} /\ "repack" \notin {"pull", "export"}
    OBVIOUS
  <2> QED BY <2>1, <2>2, PassKinds DEF PassType
<1>2. pass.at \in Nat /\ pass.left \in Nat
  BY <1>1 DEF ShipPass
<1>3. Files = FilesOf(pass.req) /\ in.n_experts \in Nat
  BY DEF Files, FilesOf, ShipInv
<1> QED BY <1>1, <1>2, <1>3, FilesFacts

\* One more write.
LEMMA ShipWriteStep ==
  ASSUME ShipInv, in' = in, ShipWrite
  PROVE  ShipInv'
<1> DEFINE fs == FilesOf(pass.req)
           at == pass.at
           left == pass.left
           g == fs[at]
           n == file_size(g) - left
<1>0. /\ pass \in ShipPass /\ Files = fs /\ in.n_experts \in Nat /\ Len(fs) \in Nat
      /\ \A k \in 1 .. Len(fs) : fs[k] \in Seq(TensorT)
      /\ at \in Nat /\ left \in Nat /\ left > 0
  <2>1. pass.kind \in {"pull", "export"} /\ pass.left > 0
    BY DEF ShipWrite
  <2> QED BY <2>1, ShipUnderway
<1>1. /\ at \in 0 .. Len(fs) /\ (at = 0 => left = 0)
      /\ at > 0 => shard = NoShard /\ left <= file_size(g)
      /\ \A k \in 0 .. at - 1 :
           /\ k \in DOMAIN dir
           /\ dir[k] = Piece(fs[k + 1], file_size(fs[k + 1]) - (IF k = at - 1 THEN left ELSE 0))
  BY <1>0 DEF ShipInv, PassSound
<1>2. at > 0 /\ at \in 1 .. Len(fs) /\ g \in Seq(TensorT) /\ shard = NoShard /\ left <= file_size(g)
  BY <1>0, <1>1
<1>3. /\ file_size(g) \in Nat /\ file_size(g) = 1 + Len(Data(g))
      /\ \A k \in 0 .. file_size(g) - 1 : Written(Piece(g, k), g, k) = Piece(g, k + 1)
  BY <1>2, PieceFacts
<1>4. n \in 0 .. file_size(g) - 1 /\ file_size(g) - (left - 1) = n + 1 /\ left - 1 \in Nat
  <2> DEFINE w == file_size(g)
  <2>1. w \in Nat /\ left \in Nat /\ left > 0 /\ left <= w
    BY <1>0, <1>2, <1>3
  <2> HIDE DEF w, left
  <2>2. w - left \in 0 .. w - 1 /\ w - (left - 1) = (w - left) + 1 /\ left - 1 \in Nat
    BY <2>1
  <2> QED BY <2>2 DEF w
<1>5. at - 1 \in DOMAIN dir /\ dir[at - 1] = Piece(g, n)
  <2>1. at - 1 \in 0 .. at - 1 /\ (at - 1) + 1 = at
    BY <1>0, <1>2
  <2> QED BY <1>1, <2>1
<1>6. pass' = [pass EXCEPT !.left = left - 1] /\ shard' = shard
      /\ dir' = [dir EXCEPT ![at - 1] = Written(@, g, n)]
  BY <1>0 DEF ShipWrite
<1>7. pass' \in ShipPass /\ pass'.at = at /\ pass'.left = left - 1 /\ pass'.req = pass.req
  <2> DEFINE l == left - 1
  <2>1. pass' = [pass EXCEPT !.left = l] /\ l \in Nat
    BY <1>4, <1>6
  <2> HIDE DEF l
  <2>2. pass' \in ShipPass /\ pass'.at = at /\ pass'.left = l /\ pass'.req = pass.req
    BY <1>0, <2>1 DEF ShipPass
  <2> QED BY <2>2 DEF l
<1>8. FilesOf(pass.req)' = fs
  <2>1. FilesOf(pass.req)' = FilesOf(pass'.req)
    BY SameFiles
  <2> QED BY <1>7, <2>1
<1> HIDE DEF g, n, fs, at, left
<1> DEFINE p == at - 1
<1>9. Written(Piece(g, n), g, n) = Piece(g, n + 1)
  BY <1>3, <1>4
<1>10. dir' = [dir EXCEPT ![p] = Piece(g, n + 1)]
  <2>1. dir' = [dir EXCEPT ![p] = Written(dir[p], g, n)] /\ dir[p] = Piece(g, n)
    BY <1>5, <1>6
  <2> HIDE DEF p
  <2> QED BY <1>9, <2>1
<1>11. p \in DOMAIN dir /\ DOMAIN dir' = DOMAIN dir /\ dir'[p] = Piece(g, n + 1)
       /\ \A k \in DOMAIN dir : k # p => dir'[k] = dir[k]
  <2>1. p \in DOMAIN dir
    BY <1>5
  <2> HIDE DEF p
  <2> QED BY <1>9, <1>10, <2>1
<1>12. DirSound'
  <2>1. \E K \in Nat : DOMAIN dir' \subseteq 0 .. K
    BY <1>11 DEF ShipInv, DirSound
  <2>2. ASSUME NEW k \in DOMAIN dir'
        PROVE  \E h \in Seq(TensorT) : \E m \in 0 .. file_size(h) : dir'[k] = Piece(h, m)
    <3>1. CASE k = p
      <4>1. n + 1 \in 0 .. file_size(g)
        BY <1>3, <1>4
      <4> QED BY <1>2, <1>11, <3>1, <4>1
    <3>2. CASE k # p
      BY <1>11, <3>2 DEF ShipInv, DirSound
    <3> QED BY <3>1, <3>2
  <2> QED BY <2>1, <2>2 DEF DirSound
<1>13. PassSound'
  <2>1. ASSUME NEW k \in 0 .. at - 1
        PROVE  /\ k \in DOMAIN dir'
               /\ dir'[k] = Piece(fs[k + 1], file_size(fs[k + 1]) - (IF k = at - 1 THEN left - 1 ELSE 0))
    <3>1. CASE k = at - 1
      <4>1. k + 1 = at /\ fs[k + 1] = g
        BY <1>0, <1>2, <3>1 DEF g
      <4>2. file_size(fs[k + 1]) - (IF k = at - 1 THEN left - 1 ELSE 0) = n + 1
        BY <1>4, <3>1, <4>1
      <4> QED BY <1>11, <3>1, <4>1, <4>2
    <3>2. CASE k # at - 1
      <4>1. k \in DOMAIN dir
            /\ dir[k] = Piece(fs[k + 1], file_size(fs[k + 1]) - 0)
        BY <1>1, <3>2
      <4> QED BY <1>11, <3>2, <4>1
    <3> QED BY <3>1, <3>2
  <2>2. left - 1 <= file_size(fs[at]) /\ ~(at = 0)
    BY <1>0, <1>2, <1>3 DEF g
  <2>3. shard' = NoShard /\ at \in 0 .. Len(fs)
    BY <1>1, <1>2, <1>6
  <2> QED BY <1>7, <1>8, <2>1, <2>2, <2>3 DEF PassSound
<1>14. ShardSound'
  BY <1>2, <1>6 DEF ShardSound
<1>15. PassType' /\ in'.n_experts \in Nat
  BY <1>0, <1>7 DEF PassType
<1> QED BY <1>12, <1>13, <1>14, <1>15 DEF ShipInv

\* The pass goes through: all its files are there.
LEMMA ShipEndStep ==
  ASSUME ShipInv, in' = in, ShipEnd
  PROVE  ShipInv'
<1> DEFINE fs == FilesOf(pass.req)
           at == pass.at
<1>0. /\ pass \in ShipPass /\ in.n_experts \in Nat /\ Len(fs) \in Nat
      /\ \A k \in 1 .. Len(fs) : fs[k] \in Seq(TensorT)
      /\ pass.left = 0 /\ at = Len(fs)
  <2>1. pass.kind \in {"pull", "export"} /\ pass.left = 0 /\ pass.at = Len(Files)
    BY DEF ShipEnd
  <2> QED BY <2>1, ShipUnderway
<1>1. pass' = NoPass /\ dir' = dir /\ shard' = pass.req
  BY DEF ShipEnd
<1>2. \A r : FilesOf(r)' = FilesOf(r)
  BY SameFiles
<1>3. FilesOf(shard)' = fs
  <2>1. FilesOf(shard)' = FilesOf(shard')
    BY <1>2
  <2> QED BY <1>1, <2>1
<1>4. ASSUME NEW n \in 0 .. Len(fs) - 1
      PROVE  n \in DOMAIN dir /\ dir[n] = Piece(fs[n + 1], file_size(fs[n + 1]))
  <2>1. /\ n \in DOMAIN dir
        /\ dir[n] = Piece(fs[n + 1], file_size(fs[n + 1]) - (IF n = at - 1 THEN pass.left ELSE 0))
    BY <1>0 DEF ShipInv, PassSound
  <2>2. n + 1 \in 1 .. Len(fs)
    BY <1>0
  <2>3. file_size(fs[n + 1]) \in Nat
    BY <1>0, <2>2, PieceFacts
  <2>4. file_size(fs[n + 1]) - (IF n = at - 1 THEN pass.left ELSE 0) = file_size(fs[n + 1])
    BY <1>0, <2>3
  <2> QED BY <2>1, <2>4
<1> HIDE DEF fs
<1>5. ShardSound'
  BY <1>1, <1>3, <1>4 DEF ShardSound
<1>6. DirSound'
  BY <1>1 DEF ShipInv, DirSound
<1>7. PassSound' /\ PassType'
  BY <1>1, PassKinds DEF PassSound, PassType
<1> QED BY <1>0, <1>5, <1>6, <1>7 DEF ShipInv

-----------------------------------------------------------------------------
(* The packed directory.                                                   *)

\* The k-th byte of file f of n, whoever wrote it.
Blob(n, f, k) == <<Routed[((k - 1) \div 2) * n + f + 1], ((k - 1) % 2) + 1>>

\* The manifest's i-th entry, of n files.
Loc(n, i) == [name |-> Routed[i], file |-> (i - 1) % n, offset |-> 2 * ((i - 1) \div n)]

\* Blobs in file f of n when m experts are written.
Blobs(n, f, m) == (m + (n - 1 - f)) \div n

\* The files hold the experts round robin, as far as they go.
PackSound ==
  /\ begun \in Nat
  /\ \A f \in 0 .. begun - 1 :
       /\ f \in DOMAIN pack /\ pack[f] \in Seq(CellT)
       /\ \A k \in 1 .. Len(pack[f]) : pack[f][k] = Blob(begun, f, k)

\* A repack under way has written whole blobs, and noted where.
RepackSound ==
  pass.kind = "repack" =>
    /\ pass \in RepackPass /\ pass.num_files = begun /\ Len(pass.locs) <= Len(Routed)
    /\ \A i \in 1 .. Len(pass.locs) : pass.locs[i] = Loc(begun, i)
    /\ \A f \in 0 .. begun - 1 : Len(pack[f]) = 2 * Blobs(begun, f, Len(pass.locs))

\* The manifest has the experts where a repack puts them, all of them if it is
\* whole, and else as far as it goes, but for the offset it ends with.
ManifestSound ==
  LET n == manifest.num_files
      L == Len(manifest.locs)
  IN  /\ n \in Nat /\ L \in Nat /\ L <= Len(Routed) /\ DOMAIN manifest.locs = 1 .. L
      /\ L > 0 => n # 0
      /\ manifest.whole => n # 0 /\ L = Len(Routed)
      /\ \A i \in 1 .. L : manifest.whole \/ i # L => manifest.locs[i] = Loc(n, i)

\* Every two bytes of a packed file are one expert's, whatever repack wrote it.
Paired(s) ==
  /\ s \in Seq(CellT)
  /\ \A q \in Nat : 2 * q + 2 <= Len(s) =>
       \E i \in 1 .. Len(Routed) : s[2 * q + 1] = <<Routed[i], 1>> /\ s[2 * q + 2] = <<Routed[i], 2>>

FilesPaired == \A f \in DOMAIN pack : Paired(pack[f])

PackInv == in.n_experts \in Nat /\ PackSound /\ RepackSound /\ ManifestSound /\ FilesPaired

\* A part of a sequence, also where it is empty.
LEMMA SubSeqParts ==
  ASSUME NEW P, NEW s \in Seq(P), NEW m \in Nat \ {0}, NEW n \in Nat, n <= Len(s)
  PROVE  /\ SubSeq(s, m, n) \in Seq(P)
         /\ Len(SubSeq(s, m, n)) = IF m <= n THEN n - m + 1 ELSE 0
         /\ \A j \in 1 .. (n - m + 1) : SubSeq(s, m, n)[j] = s[m + j - 1]
<1>1. CASE m <= n
  <2>1. \A j \in m .. n : s[j] \in P
    OBVIOUS
  <2>2. Len(SubSeq(s, m, n)) = n - m + 1
    BY <1>1
  <2>3. \A j \in 1 .. (n - m + 1) : SubSeq(s, m, n)[j] = s[m + j - 1]
    BY <1>1
  <2>4. SubSeq(s, m, n) \in Seq(P)
    BY <1>1, <2>1
  <2> QED BY <1>1, <2>2, <2>3, <2>4
<1>2. CASE ~(m <= n)
  <2>1. Len(SubSeq(s, m, n)) = 0
    BY <1>2
  <2>2. SubSeq(s, m, n) \in Seq(P)
    BY <1>2
  <2>3. 1 .. (n - m + 1) = {}
    BY <1>2
  <2> QED BY <1>2, <2>1, <2>2, <2>3
<1> QED BY <1>1, <1>2

\* Of n files, only the one whose turn it is gets a blob.
LEMMA RoundRobin ==
  ASSUME NEW n \in Nat \ {0}, NEW m \in Nat
  PROVE  /\ m % n \in 0 .. n - 1 /\ m \div n \in Nat /\ m = (m \div n) * n + (m % n)
         /\ Blobs(n, m % n, m) = m \div n /\ Blobs(n, m % n, m + 1) = m \div n + 1
         /\ \A f \in 0 .. n - 1 : f # m % n => Blobs(n, f, m + 1) = Blobs(n, f, m)
<1> DEFINE q == m \div n
           f == m % n
           w == q * n
<1>1. q \in Nat /\ f \in Nat /\ f < n /\ m = q * n + f
  BY DivMod
<1> HIDE DEF q, f
<1>2. w \in Nat /\ (q + 1) * n = w + n /\ (q + 1 + 1) * n = w + n + n /\ m = w + f /\ q + 1 \in Nat
  BY <1>1
<1> HIDE DEF w
<1>3. \A x \in Nat : w <= x /\ x < w + n => x \div n = q
  BY <1>1, <1>2, DivIs DEF w
<1>4. \A x \in Nat : w + n <= x /\ x < w + n + n => x \div n = q + 1
  BY <1>1, <1>2, DivIs DEF w
<1>5. Blobs(n, f, m) = q
  <2>1. m + (n - 1 - f) \in Nat /\ w <= m + (n - 1 - f) /\ m + (n - 1 - f) < w + n
    BY <1>1, <1>2
  <2> QED BY <1>3, <2>1 DEF Blobs
<1>6. Blobs(n, f, m + 1) = q + 1
  <2>1. m + 1 + (n - 1 - f) \in Nat /\ w + n <= m + 1 + (n - 1 - f) /\ m + 1 + (n - 1 - f) < w + n + n
    BY <1>1, <1>2
  <2> QED BY <1>4, <2>1 DEF Blobs
<1>7. ASSUME NEW e \in 0 .. n - 1, e # f PROVE Blobs(n, e, m + 1) = Blobs(n, e, m)
  <2> DEFINE x == m + (n - 1 - e)
             y == m + 1 + (n - 1 - e)
  <2>1. CASE e > f
    <3>1. x \in Nat /\ y \in Nat /\ w <= x /\ y < w + n /\ w <= y /\ x < w + n
      BY <1>1, <1>2, <2>1
    <3> HIDE DEF x, y
    <3>2. x \div n = q /\ y \div n = q
      BY <1>3, <3>1
    <3> QED BY <3>2 DEF Blobs, x, y
  <2>2. CASE e < f
    <3>1. x \in Nat /\ y \in Nat /\ w + n <= x /\ y < w + n + n /\ w + n <= y /\ x < w + n + n
      BY <1>1, <1>2, <2>2
    <3> HIDE DEF x, y
    <3>2. x \div n = q + 1 /\ y \div n = q + 1
      BY <1>4, <3>1
    <3> QED BY <3>2 DEF Blobs, x, y
  <2> QED BY <1>1, <1>7, <2>1, <2>2
<1>8. f \in 0 .. n - 1
  BY <1>1
<1> QED BY <1>1, <1>5, <1>6, <1>7, <1>8 DEF q, f

\* At first no file has a blob.
LEMMA NoBlobs ==
  ASSUME NEW n \in Nat \ {0}, NEW f \in 0 .. n - 1
  PROVE  Blobs(n, f, 0) = 0
<1>1. 0 + (n - 1 - f) \in Nat /\ 0 * n <= 0 + (n - 1 - f) /\ 0 + (n - 1 - f) < (0 + 1) * n
  OBVIOUS
<1> QED BY <1>1, DivIs DEF Blobs

\* The order of the experts depends on the arguments only.
LEMMA SameRouted == ASSUME in' = in PROVE Routed' = Routed
BY DEF Routed

\* An expert's tensor is of the type of tensors, and has two cells.
LEMMA ExpertFacts ==
  ASSUME in.n_experts \in Nat
  PROVE  /\ Routed \in Seq(ExpertT) /\ Len(Routed) \in Nat
         /\ \A i \in 1 .. Len(Routed) :
              /\ Routed[i] \in TensorT /\ Cells(Routed[i]) = <<<<Routed[i], 1>>, <<Routed[i], 2>>>>
              /\ <<Routed[i], 1>> \in CellT /\ <<Routed[i], 2>> \in CellT
<1>1. Routed \in Seq(ExpertT)
  BY SourceTypes
<1> DEFINE r == Routed
<1>2. r \in Seq(ExpertT)
  BY <1>1
<1> HIDE DEF r
<1>3. Len(r) \in Nat /\ \A i \in 1 .. Len(r) : r[i] \in ExpertT
  BY <1>2
<1>4. \A t \in ExpertT : /\ t \in TensorT /\ nbytes(t) = 2
                         /\ <<t, 1>> \in CellT /\ <<t, 2>> \in CellT
  BY DEF ExpertT, TensorT, nbytes, NoExpert, CellT
<1>5. \A t \in ExpertT : Cells(t) = <<<<t, 1>>, <<t, 2>>>>
  <2> SUFFICES ASSUME NEW t \in ExpertT PROVE Cells(t) = <<<<t, 1>>, <<t, 2>>>>
    OBVIOUS
  <2>1. Cells(t) = [k \in 1 .. 2 |-> <<t, k>>]
    BY <1>4 DEF Cells
  <2> QED BY <2>1
<1> QED BY <1>2, <1>3, <1>4, <1>5 DEF r

\* A step that touches no packed file, and after which no repack is under way,
\* keeps the packed directory sound.
LEMMA PackKept ==
  ASSUME PackInv, in' = in, pack' = pack, begun' = begun, manifest' = manifest \/ ManifestSound',
         pass'.kind # "repack"
  PROVE  PackInv'
<1>1. Routed' = Routed
  BY SameRouted
<1>2. PackSound'
  BY <1>1 DEF PackInv, PackSound, Blob
<1>3. RepackSound'
  BY DEF RepackSound
<1>4. ManifestSound'
  <2>1. CASE manifest' = manifest
    BY <1>1, <2>1 DEF PackInv, ManifestSound, Loc
  <2> QED BY <2>1
<1>5. FilesPaired'
  BY <1>1 DEF PackInv, FilesPaired, Paired
<1> QED BY <1>2, <1>3, <1>4, <1>5 DEF PackInv

\* All files are made anew.
LEMMA RepackBeginStep ==
  ASSUME PackInv, in' = in, NEW n \in FileCounts, RepackBegin(n)
  PROVE  PackInv'
<1>0. n \in Nat \ {0}
  BY ShippingAssumption
<1>1. /\ pass' = [kind |-> "repack", num_files |-> n, locs |-> <<>>]
      /\ pack' = [f \in DOMAIN pack \cup 0 .. n - 1 |-> IF f < n THEN <<>> ELSE pack[f]]
      /\ begun' = n /\ manifest' = manifest
  BY DEF RepackBegin
<1>2. Routed' = Routed
  BY SameRouted
<1>3. \A f \in 0 .. n - 1 : f \in DOMAIN pack' /\ pack'[f] = <<>>
  BY <1>0, <1>1
<1>4. PackSound'
  <2>1. \A f \in 0 .. n - 1 : pack'[f] \in Seq(CellT) /\ \A k \in 1 .. Len(pack'[f]) : FALSE
    <3>1. <<>> \in Seq(CellT) /\ Len(<<>>) = 0 /\ 1 .. 0 = {}
      OBVIOUS
    <3> QED BY <1>3, <3>1
  <2> QED BY <1>0, <1>1, <1>3, <2>1 DEF PackSound
<1>5. RepackSound'
  <2>1. pass' \in RepackPass /\ pass'.num_files = n /\ pass'.locs = <<>>
    BY <1>0, <1>1 DEF RepackPass
  <2>2. Len(pass'.locs) = 0 /\ \A i \in 1 .. Len(pass'.locs) : FALSE
    BY <2>1
  <2>3. \A f \in 0 .. n - 1 : Len(pack'[f]) = 2 * Blobs(n, f, 0)
    BY <1>0, <1>3, NoBlobs
  <2>4. Len(Routed') >= 0
    BY <1>2, ExpertFacts DEF PackInv
  <2> QED BY <1>1, <2>1, <2>2, <2>3, <2>4 DEF RepackSound
<1>6. ManifestSound'
  BY <1>1, <1>2 DEF PackInv, ManifestSound, Loc
<1>7. FilesPaired'
  <2>1. \A s : Paired(s)' = Paired(s)
    BY <1>2 DEF Paired
  <2>2. Paired(<<>>)
    <3>1. <<>> \in Seq(CellT) /\ Len(<<>>) = 0
      OBVIOUS
    <3> QED BY <3>1 DEF Paired
  <2>3. ASSUME NEW f \in DOMAIN pack' PROVE pack'[f] = <<>> \/ (f \in DOMAIN pack /\ pack'[f] = pack[f])
    <3> DEFINE S == DOMAIN pack \cup 0 .. n - 1
    <3>1. pack' = [e \in S |-> IF e < n THEN <<>> ELSE pack[e]]
      BY <1>1
    <3> HIDE DEF S
    <3>2. DOMAIN pack' = S
      BY <3>1
    <3>3. f \in S /\ pack'[f] = IF f < n THEN <<>> ELSE pack[f]
      BY <3>1, <3>2
    <3>4. f \in DOMAIN pack \/ f \in 0 .. n - 1
      BY <3>3 DEF S
    <3>5. CASE f < n
      BY <3>3, <3>5
    <3>6. CASE ~(f < n)
      <4>1. f \notin 0 .. n - 1
        BY <1>0, <3>6
      <4> QED BY <3>3, <3>4, <3>6, <4>1
    <3> QED BY <3>5, <3>6
  <2> QED BY <2>1, <2>2, <2>3 DEF PackInv, FilesPaired
<1> QED BY <1>4, <1>5, <1>6, <1>7 DEF PackInv

\* The next cells of a packed file.
LEMMA NextBlob ==
  ASSUME PackInv, NEW n \in Nat \ {0}, NEW m \in Nat, m < Len(Routed), NEW s \in Seq(CellT),
         Len(s) = 2 * (m \div n), \A k \in 1 .. Len(s) : s[k] = Blob(n, m % n, k)
  PROVE  /\ s \o Cells(Routed[m + 1]) \in Seq(CellT) /\ Append(s, <<Routed[m + 1], 1>>) \in Seq(CellT)
         /\ Len(s \o Cells(Routed[m + 1])) = 2 * (m \div n + 1)
         /\ \A k \in 1 .. Len(s \o Cells(Routed[m + 1])) :
              (s \o Cells(Routed[m + 1]))[k] = Blob(n, m % n, k)
         /\ \A k \in 1 .. Len(Append(s, <<Routed[m + 1], 1>>)) :
              Append(s, <<Routed[m + 1], 1>>)[k] = Blob(n, m % n, k)
         /\ Paired(s) => Paired(s \o Cells(Routed[m + 1])) /\ Paired(Append(s, <<Routed[m + 1], 1>>))
<1> DEFINE q == m \div n
           f == m % n
           t == Routed[m + 1]
           c == Cells(t)
           a == s \o c
           b == Append(s, <<t, 1>>)
<1>1. q \in Nat /\ f \in 0 .. n - 1 /\ m = q * n + f
  BY RoundRobin
<1>2. /\ t \in TensorT /\ c = <<<<t, 1>>, <<t, 2>>>> /\ <<t, 1>> \in CellT /\ <<t, 2>> \in CellT
  <2>1. m + 1 \in 1 .. Len(Routed) /\ in.n_experts \in Nat
    BY DEF PackInv
  <2> QED BY <2>1, ExpertFacts
<1>3. Len(s) = 2 * q
  OBVIOUS
<1> HIDE DEF q, f, c
<1>4. c \in Seq(CellT) /\ Len(c) = 2 /\ c[1] = <<t, 1>> /\ c[2] = <<t, 2>>
  BY <1>2
<1>5. Blob(n, f, 2 * q + 1) = <<t, 1>> /\ Blob(n, f, 2 * q + 2) = <<t, 2>>
  <2>1. ((2 * q + 1) - 1) \div 2 = q /\ ((2 * q + 1) - 1) % 2 = 0
    BY <1>1
  <2>2. ((2 * q + 2) - 1) \div 2 = q /\ ((2 * q + 2) - 1) % 2 = 1
    BY <1>1
  <2>3. q * n + f + 1 = m + 1
    BY <1>1
  <2>4. Blob(n, f, 2 * q + 1) = <<Routed[q * n + f + 1], 0 + 1>>
    BY <2>1 DEF Blob
  <2>5. Blob(n, f, 2 * q + 2) = <<Routed[q * n + f + 1], 1 + 1>>
    BY <2>2 DEF Blob
  <2> QED BY <2>3, <2>4, <2>5
<1> HIDE DEF t
<1>6. /\ a \in Seq(CellT) /\ Len(a) = 2 * q + 2 /\ \A k \in 1 .. 2 * q : a[k] = s[k]
      /\ a[2 * q + 1] = <<t, 1>> /\ a[2 * q + 2] = <<t, 2>>
  <2>1. /\ a \in Seq(CellT) /\ Len(a) = Len(s) + Len(c)
        /\ \A p \in 1 .. Len(s) : a[p] = s[p]
        /\ \A j \in 1 .. Len(c) : a[Len(s) + j] = c[j]
    <3>1. \A y, d \in Seq(CellT) :
            /\ y \o d \in Seq(CellT) /\ Len(y \o d) = Len(y) + Len(d)
            /\ \A p \in 1 .. Len(y) : (y \o d)[p] = y[p]
            /\ \A j \in 1 .. Len(d) : (y \o d)[Len(y) + j] = d[j]
      BY ConcatParts
    <3>2. s \in Seq(CellT) /\ c \in Seq(CellT)
      BY <1>4
    <3> QED BY <3>1, <3>2, Zenon
  <2> HIDE DEF a
  <2>2. q \in Nat /\ Len(s) = 2 * q /\ Len(c) = 2 /\ c[1] = <<t, 1>> /\ c[2] = <<t, 2>>
    BY <1>1, <1>3, <1>4
  <2>3. 1 \in 1 .. Len(c) /\ 2 \in 1 .. Len(c)
    BY <2>2
  <2>4. a[Len(s) + 1] = c[1] /\ a[Len(s) + 2] = c[2]
    BY <2>1, <2>3
  <2> HIDE DEF c
  <2>5. Len(a) = 2 * q + 2 /\ a[2 * q + 1] = <<t, 1>> /\ a[2 * q + 2] = <<t, 2>>
    BY <2>1, <2>2, <2>4
  <2> QED BY <2>1, <2>2, <2>5
<1>7. /\ b \in Seq(CellT) /\ Len(b) = 2 * q + 1 /\ \A k \in 1 .. 2 * q : b[k] = s[k]
      /\ b[2 * q + 1] = <<t, 1>>
  <2> DEFINE x == <<t, 1>>
  <2>1. x \in CellT /\ s \in Seq(CellT) /\ Len(s) = 2 * q
    BY <1>2, <1>3
  <2> HIDE DEF x
  <2>2. /\ Append(s, x) \in Seq(CellT) /\ Len(Append(s, x)) = 2 * q + 1
        /\ \A k \in 1 .. 2 * q : Append(s, x)[k] = s[k]
        /\ Append(s, x)[2 * q + 1] = x
    BY <1>1, <2>1
  <2> QED BY <2>2 DEF x
<1> HIDE DEF a, b
<1>8. \A k \in 1 .. 2 * q : s[k] = Blob(n, f, k)
  BY <1>3 DEF f
<1>9. \A k \in 1 .. (2 * q + 2) : k \in 1 .. 2 * q \/ k = 2 * q + 1 \/ k = 2 * q + 2
  BY <1>1
<1>10. \A k \in 1 .. (2 * q + 2) : a[k] = Blob(n, f, k)
  BY <1>5, <1>6, <1>8, <1>9, Zenon
<1>11. \A k \in 1 .. (2 * q + 1) : k \in 1 .. 2 * q \/ k = 2 * q + 1
  BY <1>1
<1>12. \A k \in 1 .. (2 * q + 1) : b[k] = Blob(n, f, k)
  BY <1>5, <1>7, <1>8, <1>11, Zenon
<1>13. 2 * q + 2 = 2 * (q + 1)
  BY <1>1
<1>14. ASSUME Paired(s) PROVE Paired(a) /\ Paired(b)
  <2> DEFINE Pair(w, p) ==
        \E i \in 1 .. Len(Routed) : w[2 * p + 1] = <<Routed[i], 1>> /\ w[2 * p + 2] = <<Routed[i], 2>>
  <2>1. m + 1 \in 1 .. Len(Routed)
    <3>1. Len(Routed) \in Nat
      BY ExpertFacts DEF PackInv
    <3> QED BY <3>1
  <2>2. Pair(a, q)
    BY <1>6, <2>1 DEF t
  <2>3. \A p \in Nat : p < q => Pair(s, p)
    BY <1>1, <1>3, <1>14 DEF Paired
  <2>4. \A p \in Nat : p < q => 2 * p + 1 \in 1 .. 2 * q /\ 2 * p + 2 \in 1 .. 2 * q
    BY <1>1
  <2>5. ASSUME NEW p \in Nat, p < q PROVE Pair(a, p) /\ Pair(b, p)
    <3>1. PICK i \in 1 .. Len(Routed) : s[2 * p + 1] = <<Routed[i], 1>> /\ s[2 * p + 2] = <<Routed[i], 2>>
      BY <2>3, <2>5
    <3>2. /\ a[2 * p + 1] = s[2 * p + 1] /\ a[2 * p + 2] = s[2 * p + 2]
          /\ b[2 * p + 1] = s[2 * p + 1] /\ b[2 * p + 2] = s[2 * p + 2]
      BY <1>6, <1>7, <2>4, <2>5
    <3> QED BY <3>1, <3>2
  <2> HIDE DEF Pair
  <2>6. ASSUME NEW p \in Nat, 2 * p + 2 <= Len(a) PROVE Pair(a, p)
    <3>1. p < q \/ p = q
      BY <1>1, <1>6, <2>6
    <3> QED BY <2>2, <2>5, <3>1
  <2>7. ASSUME NEW p \in Nat, 2 * p + 2 <= Len(b) PROVE Pair(b, p)
    <3>1. p < q
      BY <1>1, <1>7, <2>7
    <3> QED BY <2>5, <3>1
  <2> QED BY <1>6, <1>7, <2>6, <2>7 DEF Paired, Pair
<1> QED BY <1>6, <1>7, <1>10, <1>12, <1>13, <1>14 DEF a, b, c, t, f, q

\* What a repack under way is.
LEMMA Repacking ==
  ASSUME PackInv, pass.kind = "repack"
  PROVE  /\ pass \in RepackPass /\ begun \in Nat \ {0} /\ pass.num_files = begun
         /\ pass.locs \in Seq(LocT) /\ Len(pass.locs) \in Nat /\ Len(pass.locs) <= Len(Routed)
         /\ \A i \in 1 .. Len(pass.locs) : pass.locs[i] = Loc(begun, i)
         /\ \A f \in 0 .. begun - 1 :
              /\ f \in DOMAIN pack /\ pack[f] \in Seq(CellT)
              /\ \A k \in 1 .. Len(pack[f]) : pack[f][k] = Blob(begun, f, k)
              /\ Len(pack[f]) = 2 * Blobs(begun, f, Len(pass.locs))
<1>1. /\ pass \in RepackPass /\ pass.num_files = begun /\ Len(pass.locs) <= Len(Routed)
      /\ \A i \in 1 .. Len(pass.locs) : pass.locs[i] = Loc(begun, i)
      /\ \A f \in 0 .. begun - 1 : Len(pack[f]) = 2 * Blobs(begun, f, Len(pass.locs))
  BY DEF PackInv, RepackSound
<1>2. pass.locs \in Seq(LocT) /\ pass.num_files \in Nat \ {0}
  BY <1>1 DEF RepackPass
<1>3. Len(pass.locs) \in Nat
  BY <1>2
<1>4. \A f \in 0 .. begun - 1 :
        /\ f \in DOMAIN pack /\ pack[f] \in Seq(CellT)
        /\ \A k \in 1 .. Len(pack[f]) : pack[f][k] = Blob(begun, f, k)
  BY DEF PackInv, PackSound
<1> QED BY <1>1, <1>2, <1>3, <1>4

\* The file whose turn it is, when m experts are written.
LEMMA Turn ==
  ASSUME PackInv, pass.kind = "repack", Len(pass.locs) < Len(Routed)
  PROVE  LET m == Len(pass.locs)
             f == m % begun
         IN  /\ f \in 0 .. begun - 1 /\ f \in DOMAIN pack /\ pack[f] \in Seq(CellT)
             /\ Len(pack[f]) = 2 * (m \div begun)
             /\ \A k \in 1 .. Len(pack[f]) : pack[f][k] = Blob(begun, f, k)
<1> DEFINE m == Len(pass.locs)
           f == m % begun
<1>1. m \in Nat /\ begun \in Nat \ {0}
  BY Repacking
<1>2. f \in 0 .. begun - 1 /\ Blobs(begun, f, m) = m \div begun
  BY <1>1, RoundRobin
<1> QED BY <1>2, Repacking

\* One more expert.
LEMMA RepackWriteStep ==
  ASSUME PackInv, in' = in, RepackWrite
  PROVE  PackInv' /\ pass' \in RepackPass
<1> DEFINE n == begun
           m == Len(pass.locs)
           f == m % n
           ex == Routed[m + 1]
           old == pack[f]
           new == old \o Cells(ex)
           loc == Loc(n, m + 1)
<1>0. pass.kind = "repack" /\ m < Len(Routed)
  BY DEF RepackWrite
<1>1. /\ pass \in RepackPass /\ n \in Nat \ {0} /\ pass.num_files = n
      /\ pass.locs \in Seq(LocT) /\ m \in Nat
      /\ \A i \in 1 .. m : pass.locs[i] = Loc(n, i)
      /\ \A e \in 0 .. n - 1 :
           /\ e \in DOMAIN pack /\ pack[e] \in Seq(CellT)
           /\ \A k \in 1 .. Len(pack[e]) : pack[e][k] = Blob(n, e, k)
           /\ Len(pack[e]) = 2 * Blobs(n, e, m)
  BY <1>0, Repacking
<1>2. /\ f \in 0 .. n - 1 /\ f \in DOMAIN pack /\ old \in Seq(CellT) /\ Len(old) = 2 * (m \div n)
      /\ \A k \in 1 .. Len(old) : old[k] = Blob(n, f, k)
  BY <1>0, Turn
<1>3. /\ new \in Seq(CellT) /\ Len(new) = 2 * (m \div n + 1)
      /\ \A k \in 1 .. Len(new) : new[k] = Blob(n, f, k)
      /\ Paired(old) => Paired(new)
  <2>1. /\ n \in Nat \ {0} /\ m \in Nat /\ m < Len(Routed) /\ old \in Seq(CellT)
        /\ Len(old) = 2 * (m \div n) /\ \A k \in 1 .. Len(old) : old[k] = Blob(n, m % n, k)
    BY <1>0, <1>1, <1>2
  <2> HIDE DEF old, m, n
  <2>2. /\ old \o Cells(Routed[m + 1]) \in Seq(CellT)
        /\ Len(old \o Cells(Routed[m + 1])) = 2 * (m \div n + 1)
        /\ \A k \in 1 .. Len(old \o Cells(Routed[m + 1])) :
              (old \o Cells(Routed[m + 1]))[k] = Blob(n, m % n, k)
        /\ Paired(old) => Paired(old \o Cells(Routed[m + 1]))
    BY <2>1, NextBlob, Zenon
  <2> QED BY <2>2
<1>4. ex \in TensorT /\ Len(Routed) \in Nat
  <2>1. m + 1 \in 1 .. Len(Routed) /\ in.n_experts \in Nat
    BY <1>0, <1>1 DEF PackInv
  <2> QED BY <2>1, ExpertFacts
<1>5. m \div n \in Nat /\ f \in Nat
  <2>1. n \in Nat \ {0} /\ m \in Nat
    BY <1>1
  <2> HIDE DEF n, m
  <2> QED BY <2>1, RoundRobin
<1>6. loc = [name |-> ex, file |-> f, offset |-> Len(old)] /\ loc \in LocT
  <2>1. (m + 1) - 1 = m
    BY <1>1
  <2>2. loc = [name |-> ex, file |-> m % n, offset |-> 2 * (m \div n)]
    BY <2>1 DEF Loc
  <2>3. 2 * (m \div n) \in Nat
    BY <1>5
  <2> QED BY <1>2, <1>4, <1>5, <2>2, <2>3 DEF LocT
<1>7. /\ pack' = [pack EXCEPT ![f] = old \o Cells(ex)] /\ begun' = begun /\ manifest' = manifest
      /\ pass' = [pass EXCEPT !.locs = Append(pass.locs, [name |-> ex, file |-> f, offset |-> Len(old)])]
  BY <1>1 DEF RepackWrite
<1>8. Routed' = Routed
  BY SameRouted
<1> HIDE DEF n, f, ex, old, loc
<1>9. pack' = [pack EXCEPT ![f] = new] /\ pass' = [pass EXCEPT !.locs = Append(pass.locs, loc)]
  BY <1>6, <1>7
<1> HIDE DEF new
<1>10. DOMAIN pack' = DOMAIN pack /\ pack'[f] = new /\ \A e \in DOMAIN pack : e # f => pack'[e] = pack[e]
  BY <1>1, <1>2, <1>9
<1>11. ASSUME NEW e \in 0 .. n - 1
       PROVE  /\ e \in DOMAIN pack' /\ pack'[e] \in Seq(CellT)
              /\ \A k \in 1 .. Len(pack'[e]) : pack'[e][k] = Blob(n, e, k)
              /\ Len(pack'[e]) = 2 * Blobs(n, e, m + 1)
  <2>1. CASE e = f
    <3>1. Blobs(n, f, m + 1) = m \div n + 1
      BY <1>1, RoundRobin DEF f
    <3> QED BY <1>2, <1>3, <1>10, <2>1, <3>1
  <2>2. CASE e # f
    <3>1. Blobs(n, e, m + 1) = Blobs(n, e, m)
      BY <1>1, <2>2, RoundRobin DEF f
    <3>2. pack'[e] = pack[e]
      BY <1>1, <1>10, <2>2
    <3> QED BY <1>1, <1>10, <3>1, <3>2
  <2> QED BY <2>1, <2>2
<1>12. \A e, k : Blob(n, e, k)' = Blob(n, e, k)
  BY <1>7, <1>8 DEF Blob, n
<1>13. PackSound'
  <2>1. n' = n
    BY <1>7 DEF n
  <2>2. \A e \in 0 .. begun' - 1 :
          /\ e \in DOMAIN pack' /\ pack'[e] \in Seq(CellT)
          /\ \A k \in 1 .. Len(pack'[e]) : pack'[e][k] = Blob(begun, e, k)'
    BY <1>7, <1>11, <1>12 DEF n
  <2> QED BY <1>1, <1>7, <2>2 DEF PackSound, n
<1>14. /\ pass' \in RepackPass /\ pass'.num_files = n /\ pass'.locs = Append(pass.locs, loc)
  <2> DEFINE ls == Append(pass.locs, loc)
  <2>1. ls \in Seq(LocT)
    BY <1>1, <1>6
  <2>2. pass' = [pass EXCEPT !.locs = ls]
    BY <1>9
  <2> HIDE DEF ls
  <2>3. pass' \in RepackPass /\ pass'.num_files = n /\ pass'.locs = ls
    BY <1>1, <2>1, <2>2 DEF RepackPass
  <2> QED BY <2>3 DEF ls
<1>15. /\ Len(pass'.locs) = m + 1 /\ m + 1 <= Len(Routed)
       /\ \A i \in 1 .. m + 1 : pass'.locs[i] = Loc(n, i)
  <2> DEFINE ls == pass.locs
  <2>1. ls \in Seq(LocT) /\ Len(ls) = m
    BY <1>1
  <2>2. pass'.locs = Append(ls, loc)
    BY <1>14
  <2>3. \A i \in 1 .. m : ls[i] = Loc(n, i)
    BY <1>1
  <2>4. m \in Nat
    BY <1>1
  <2> HIDE DEF ls, m
  <2>5. /\ Len(Append(ls, loc)) = m + 1 /\ Append(ls, loc)[m + 1] = loc
        /\ \A i \in 1 .. m : Append(ls, loc)[i] = ls[i]
    BY <1>6, <2>1, <2>4
  <2>6. \A i \in 1 .. m + 1 : i \in 1 .. m \/ i = m + 1
    BY <2>4
  <2>7. \A i \in 1 .. m + 1 : Append(ls, loc)[i] = Loc(n, i)
    BY <2>3, <2>5, <2>6 DEF loc
  <2> QED BY <1>0, <1>4, <2>2, <2>4, <2>5, <2>7
<1>16. RepackSound'
  <2>1. \A i : Loc(n, i)' = Loc(n, i)
    BY <1>7, <1>8 DEF Loc, n
  <2>2. \A e \in 0 .. begun' - 1 : Len(pack'[e]) = 2 * Blobs(begun', e, Len(pass'.locs))
    BY <1>7, <1>11, <1>15 DEF n
  <2>3. \A i \in 1 .. Len(pass'.locs) : pass'.locs[i] = Loc(begun, i)'
    BY <1>7, <1>15, <2>1 DEF n
  <2>4. pass'.num_files = begun' /\ Len(pass'.locs) <= Len(Routed')
    BY <1>7, <1>8, <1>14, <1>15 DEF n
  <2> QED BY <1>14, <2>2, <2>3, <2>4 DEF RepackSound
<1>17. ManifestSound'
  <2>1. ManifestSound
    BY DEF PackInv
  <2> QED BY <1>7, <1>8, <2>1 DEF ManifestSound, Loc
<1>18. FilesPaired'
  <2>1. \A s : Paired(s)' = Paired(s)
    BY <1>8 DEF Paired
  <2>2. \A e \in DOMAIN pack : Paired(pack[e])
    BY DEF PackInv, FilesPaired
  <2>3. Paired(new)
    BY <1>2, <1>3, <2>2 DEF old
  <2>4. \A e \in DOMAIN pack' : Paired(pack'[e])
    BY <1>10, <2>2, <2>3
  <2> QED BY <2>1, <2>4 DEF FilesPaired
<1> QED BY <1>13, <1>14, <1>16, <1>17, <1>18 DEF PackInv

\* The manifest.
LEMMA RepackEndStep ==
  ASSUME PackInv, in' = in, RepackEnd
  PROVE  PackInv'
<1>0. pass.kind = "repack" /\ Len(pass.locs) = Len(Routed)
  BY DEF RepackEnd
<1>1. /\ manifest' = [num_files |-> pass.num_files, locs |-> pass.locs, whole |-> TRUE]
      /\ pass' = NoPass /\ pack' = pack /\ begun' = begun
  BY DEF RepackEnd
<1>2. /\ begun \in Nat \ {0} /\ pass.num_files = begun /\ pass.locs \in Seq(LocT)
      /\ \A i \in 1 .. Len(pass.locs) : pass.locs[i] = Loc(begun, i)
  BY <1>0, Repacking
<1>3. Routed' = Routed
  BY SameRouted
<1>4. DOMAIN pass.locs = 1 .. Len(Routed)
  BY <1>0, <1>2
<1>5. manifest'.num_files = begun /\ manifest'.locs = pass.locs
  BY <1>1, <1>2
<1>6. ManifestSound'
  BY <1>0, <1>2, <1>3, <1>4, <1>5 DEF ManifestSound, Loc
<1>7. pass'.kind # "repack"
  BY <1>1, PassKinds
<1> QED BY <1>1, <1>6, <1>7, PackKept

\* What a cut-off pass leaves.
LEMMA CutOffStep ==
  ASSUME PackInv, in' = in, CutOff
  PROVE  PackInv'
<1>0. pass' = NoPass /\ begun' = begun /\ pass'.kind # "repack"
  BY PassKinds DEF CutOff
<1>1. CASE UNCHANGED <<pack, manifest>>
  BY <1>0, <1>1, PackKept
<1>2. CASE /\ pass.kind = "repack" /\ Len(pass.locs) = Len(Routed)
           /\ \E n \in DOMAIN pass.locs : \E o \in 0 .. pass.locs[n].offset :
                manifest' = [num_files |-> pass.num_files, whole |-> FALSE,
                             locs |-> [SubSeq(pass.locs, 1, n) EXCEPT ![n].offset = o]]
           /\ UNCHANGED pack
  <2> DEFINE ls == pass.locs
  <2>1. PICK n \in DOMAIN ls : \E o \in 0 .. ls[n].offset :
              manifest' = [num_files |-> pass.num_files, whole |-> FALSE,
                           locs |-> [SubSeq(ls, 1, n) EXCEPT ![n].offset = o]]
    BY <1>2
  <2>2. PICK o \in 0 .. ls[n].offset :
              manifest' = [num_files |-> pass.num_files, whole |-> FALSE,
                           locs |-> [SubSeq(ls, 1, n) EXCEPT ![n].offset = o]]
    BY <2>1
  <2>3. /\ begun \in Nat \ {0} /\ pass.num_files = begun /\ ls \in Seq(LocT)
        /\ \A i \in 1 .. Len(ls) : ls[i] = Loc(begun, i)
        /\ Len(ls) = Len(Routed)
    BY <1>2, Repacking
  <2> HIDE DEF ls
  <2>4. n \in 1 .. Len(ls) /\ Len(ls) \in Nat
    BY <2>3
  <2> DEFINE part == SubSeq(ls, 1, n)
             torn == [part EXCEPT ![n].offset = o]
  <2>5. part \in Seq(LocT) /\ Len(part) = n /\ \A i \in 1 .. n : part[i] = ls[i]
    <3>1. 1 \in Nat \ {0} /\ n \in Nat /\ n <= Len(ls) /\ 1 <= n /\ n - 1 + 1 = n
      BY <2>4
    <3>2. /\ SubSeq(ls, 1, n) \in Seq(LocT)
          /\ Len(SubSeq(ls, 1, n)) = IF 1 <= n THEN n - 1 + 1 ELSE 0
          /\ \A j \in 1 .. (n - 1 + 1) : SubSeq(ls, 1, n)[j] = ls[1 + j - 1]
      BY <2>3, <3>1, SubSeqParts
    <3>3. \A j \in 1 .. n : 1 + j - 1 = j
      BY <3>1
    <3> QED BY <3>1, <3>2, <3>3
  <2> HIDE DEF part
  <2>6. DOMAIN torn = 1 .. n /\ \A i \in 1 .. n : i # n => torn[i] = part[i]
    BY <2>5
  <2>7. torn \in Seq(LocT) /\ Len(torn) = n
    <3> DEFINE x == [part[n] EXCEPT !.offset = o]
    <3>1. n \in Nat /\ n \in 1 .. n /\ part[n] \in LocT /\ part[n] = ls[n]
      BY <2>4, <2>5
    <3>2. o \in Nat
      BY <3>1 DEF LocT
    <3>3. x \in LocT
      BY <3>1, <3>2 DEF LocT
    <3>4. torn = [part EXCEPT ![n] = x]
      OBVIOUS
    <3> HIDE DEF x, torn
    <3>5. [part EXCEPT ![n] = x] \in Seq(LocT) /\ Len([part EXCEPT ![n] = x]) = n
      BY <2>5, <3>1, <3>3
    <3> QED BY <3>4, <3>5
  <2> HIDE DEF torn
  <2>8. manifest' = [num_files |-> begun, whole |-> FALSE, locs |-> torn]
    BY <2>2, <2>3 DEF torn, part
  <2>9. Routed' = Routed /\ \A k, i : Loc(k, i)' = Loc(k, i)
    BY SameRouted DEF Loc
  <2>10. ManifestSound'
    <3>1. manifest'.num_files = begun /\ ~manifest'.whole /\ manifest'.locs = torn
      BY <2>8
    <3>2. \A i \in 1 .. n : i # n => torn[i] = Loc(begun, i)
      BY <2>3, <2>4, <2>5, <2>6
    <3> QED BY <2>3, <2>4, <2>6, <2>7, <2>9, <3>1, <3>2 DEF ManifestSound
  <2> QED BY <1>0, <1>2, <2>10, PackKept
<1>3. CASE /\ pass.kind = "repack" /\ Len(pass.locs) < Len(Routed)
           /\ LET idx == Len(pass.locs)
              IN pack' = [pack EXCEPT ![idx % pass.num_files] = Append(@, <<Routed[idx + 1], 1>>)]
           /\ UNCHANGED manifest
  <2> DEFINE n == begun
             m == Len(pass.locs)
             f == m % n
             old == pack[f]
             new == Append(old, <<Routed[m + 1], 1>>)
  <2>1. n \in Nat \ {0} /\ pass.num_files = n /\ m \in Nat /\ m < Len(Routed)
    BY <1>3, Repacking
  <2>2. /\ f \in 0 .. n - 1 /\ f \in DOMAIN pack /\ old \in Seq(CellT) /\ Len(old) = 2 * (m \div n)
        /\ \A k \in 1 .. Len(old) : old[k] = Blob(n, f, k)
    BY <1>3, Turn
  <2>3. /\ new \in Seq(CellT) /\ \A k \in 1 .. Len(new) : new[k] = Blob(n, f, k)
        /\ Paired(old) => Paired(new)
    <3> HIDE DEF old, m, n
    <3> QED BY <2>1, <2>2, NextBlob
  <2>4. pack' = [pack EXCEPT ![f] = new]
    BY <1>3, <2>1
  <2> HIDE DEF new, f
  <2>5. DOMAIN pack' = DOMAIN pack /\ pack'[f] = new /\ \A e \in DOMAIN pack : e # f => pack'[e] = pack[e]
    BY <2>2, <2>4
  <2>6. Routed' = Routed
    BY SameRouted
  <2>7. ASSUME NEW e \in 0 .. n - 1
        PROVE  /\ e \in DOMAIN pack' /\ pack'[e] \in Seq(CellT)
               /\ \A k \in 1 .. Len(pack'[e]) : pack'[e][k] = Blob(n, e, k)
    <3>1. CASE e = f
      BY <2>2, <2>3, <2>5, <3>1
    <3>2. CASE e # f
      BY <2>5, <3>2 DEF PackInv, PackSound
    <3> QED BY <3>1, <3>2
  <2>8. \A e, k : Blob(begun, e, k)' = Blob(n, e, k)
    BY <1>0, <2>6 DEF Blob
  <2>9. PackSound'
    <3>1. \A e \in 0 .. begun' - 1 :
            /\ e \in DOMAIN pack' /\ pack'[e] \in Seq(CellT)
            /\ \A k \in 1 .. Len(pack'[e]) : pack'[e][k] = Blob(begun, e, k)'
      BY <1>0, <2>7, <2>8
    <3> QED BY <1>0, <2>1, <3>1 DEF PackSound
  <2>10. RepackSound'
    BY <1>0 DEF RepackSound
  <2>11. ManifestSound'
    BY <1>3, <2>6 DEF PackInv, ManifestSound, Loc
  <2>12. FilesPaired'
    <3>1. \A w : Paired(w)' = Paired(w)
      BY <2>6 DEF Paired
    <3>2. \A e \in DOMAIN pack : Paired(pack[e])
      BY DEF PackInv, FilesPaired
    <3>3. Paired(new)
      BY <2>2, <2>3, <3>2
    <3>4. \A e \in DOMAIN pack' : Paired(pack'[e])
      BY <2>5, <3>2, <3>3
    <3> QED BY <3>1, <3>4 DEF FilesPaired
  <2> QED BY <2>9, <2>10, <2>11, <2>12 DEF PackInv
<1> QED BY <1>1, <1>2, <1>3 DEF CutOff

\* At first nothing is there.
LEMMA ShipInitInv ==
  ASSUME IInv, ShipInit
  PROVE  ShipInv /\ PackInv
<1>1. /\ pass = NoPass /\ dir = <<>> /\ shard = NoShard
      /\ pack = <<>> /\ manifest = NoManifest /\ begun = 0
  BY DEF ShipInit
<1>2. in.n_experts \in Nat
  BY DEF IInv, Args
<1>3. DirSound
  <2>1. DOMAIN dir = {}
    BY <1>1, EmptyTable
  <2>2. 0 \in Nat /\ DOMAIN dir \subseteq 0 .. 0
    BY <2>1
  <2> QED BY <2>1, <2>2 DEF DirSound
<1>4. PassType /\ PassSound /\ ShardSound
  BY <1>1, PassKinds DEF PassType, PassSound, ShardSound
<1>5. PackSound
  BY <1>1 DEF PackSound
<1>6. RepackSound
  <2>1. pass.kind # "repack"
    BY <1>1, PassKinds
  <2> QED BY <2>1 DEF RepackSound
<1>7. ManifestSound
  <2>1. /\ manifest.num_files = 0 /\ ~manifest.whole /\ Len(manifest.locs) = 0
        /\ DOMAIN manifest.locs = 1 .. 0 /\ 1 .. 0 = {}
    BY <1>1 DEF NoManifest
  <2>2. Len(Routed) >= 0
    BY <1>2, ExpertFacts
  <2> QED BY <2>1, <2>2 DEF ManifestSound
<1>8. FilesPaired
  BY <1>1, EmptyTable DEF FilesPaired
<1> QED BY <1>2, <1>3, <1>4, <1>5, <1>6, <1>7, <1>8 DEF ShipInv, PackInv

\* Placing does not concern the directories.
LEMMA ShipSame ==
  ASSUME ShipInv, PackInv, in' = in, UNCHANGED shipVars
  PROVE  ShipInv' /\ PackInv'
<1>1. /\ pass' = pass /\ dir' = dir /\ shard' = shard
      /\ pack' = pack /\ manifest' = manifest /\ begun' = begun
  BY DEF shipVars
<1>2. \A r : FilesOf(r)' = FilesOf(r)
  BY SameFiles
<1>3. Routed' = Routed
  BY SameRouted
<1>4. DirSound' /\ PassType'
  BY <1>1 DEF ShipInv, DirSound, PassType
<1>5. PassSound'
  <2>1. PassSound
    BY DEF ShipInv
  <2>2. FilesOf(pass.req)' = FilesOf(pass.req)
    BY <1>1, <1>2
  <2> QED BY <1>1, <2>1, <2>2 DEF PassSound
<1>6. ShardSound'
  <2>1. ShardSound
    BY DEF ShipInv
  <2>2. FilesOf(shard)' = FilesOf(shard)
    BY <1>1, <1>2
  <2> QED BY <1>1, <2>1, <2>2 DEF ShardSound
<1>7. PackSound' /\ ManifestSound'
  BY <1>1, <1>3 DEF PackInv, PackSound, ManifestSound, Blob, Loc
<1>8. RepackSound' /\ FilesPaired'
  BY <1>1, <1>3 DEF PackInv, RepackSound, Loc, FilesPaired, Paired
<1> QED BY <1>4, <1>5, <1>6, <1>7, <1>8 DEF ShipInv, PackInv

\* Every step of a pass keeps both directories sound.
LEMMA ShipNextStep ==
  ASSUME ShipInv, PackInv, in' = in, ShipNext
  PROVE  ShipInv' /\ PackInv'
<1>1. ASSUME NEW nodes \in NodeCounts, NEW rank \in 0 .. nodes, NEW kind \in {"pull", "export"},
             ShipBegin(kind, [nodes |-> nodes, rank |-> rank])
      PROVE  ShipInv' /\ PackInv'
  <2> DEFINE req == [nodes |-> nodes, rank |-> rank]
  <2>1. req \in ReqT
    BY ShardingAssumption DEF ReqT
  <2>2. pass' = [kind |-> kind, req |-> req, at |-> 0, left |-> 0]
        /\ pack' = pack /\ manifest' = manifest /\ begun' = begun
    BY <1>1 DEF ShipBegin
  <2>3. pass'.kind # "repack"
    BY <2>2
  <2> HIDE DEF req
  <2>4. PackInv'
    BY <2>2, <2>3, PackKept
  <2>5. ShipInv'
    BY <1>1, <2>1, ShipBeginStep DEF req
  <2> QED BY <2>4, <2>5
<1>2. CASE \E nodes \in NodeCounts : \E rank \in 0 .. nodes :
             LET req == [nodes |-> nodes, rank |-> rank] IN Pull(req) \/ Export(req)
  <2>1. PICK nodes \in NodeCounts : \E rank \in 0 .. nodes :
             LET req == [nodes |-> nodes, rank |-> rank] IN Pull(req) \/ Export(req)
    BY <1>2
  <2>2. PICK rank \in 0 .. nodes :
             LET req == [nodes |-> nodes, rank |-> rank] IN Pull(req) \/ Export(req)
    BY <2>1
  <2>3. \/ ShipBegin("pull", [nodes |-> nodes, rank |-> rank])
        \/ ShipBegin("export", [nodes |-> nodes, rank |-> rank])
    BY <2>2 DEF Pull, Export
  <2> QED BY <1>1, <2>3
<1>3. CASE ShipCreate
  <2>1. pass.kind # "repack" /\ pack' = pack /\ manifest' = manifest /\ begun' = begun
    BY <1>3 DEF ShipCreate
  <2>2. ShipInv'
    BY <1>3, ShipCreateStep
  <2>3. pass'.kind = pass.kind
    <3>1. pass \in ShipPass /\ pass' = [pass EXCEPT !.at = @ + 1, !.left = file_size(Files[pass.at + 1])]
      BY <1>3, ShipUnderway DEF ShipCreate
    <3> QED BY <3>1 DEF ShipPass
  <2> QED BY <2>1, <2>2, <2>3, PackKept
<1>4. CASE ShipWrite
  <2>1. pass.kind # "repack" /\ pack' = pack /\ manifest' = manifest /\ begun' = begun
    BY <1>4 DEF ShipWrite
  <2>2. ShipInv'
    BY <1>4, ShipWriteStep
  <2>3. pass'.kind = pass.kind
    <3>1. pass \in ShipPass /\ pass' = [pass EXCEPT !.left = @ - 1]
      BY <1>4, ShipUnderway DEF ShipWrite
    <3> QED BY <3>1 DEF ShipPass
  <2> QED BY <2>1, <2>2, <2>3, PackKept
<1>5. CASE ShipEnd
  <2>1. pass'.kind # "repack" /\ pack' = pack /\ manifest' = manifest /\ begun' = begun
    BY <1>5, PassKinds DEF ShipEnd
  <2> QED BY <1>5, <2>1, PackKept, ShipEndStep
<1>6. CASE Repack
  <2>1. PICK n \in FileCounts : RepackBegin(n)
    BY <1>6 DEF Repack
  <2>2. PackInv'
    BY <2>1, RepackBeginStep
  <2>3. pass' \in RepackPass
    <3>1. pass' = [kind |-> "repack", num_files |-> n, locs |-> <<>>] /\ n \in Nat \ {0}
      BY <2>1, ShippingAssumption DEF RepackBegin
    <3> QED BY <3>1 DEF RepackPass
  <2>4. dir' = dir /\ shard' = shard
    BY <2>1 DEF RepackBegin
  <2>5. ShipInv'
    BY <2>3, <2>4, PassKinds, ShipKept DEF PassType
  <2> QED BY <2>2, <2>5
<1>7. CASE RepackWrite
  <2>1. PackInv' /\ pass' \in RepackPass
    BY <1>7, RepackWriteStep
  <2>2. dir' = dir /\ shard' = shard
    BY <1>7 DEF RepackWrite
  <2>3. ShipInv'
    BY <2>1, <2>2, PassKinds, ShipKept DEF PassType
  <2> QED BY <2>1, <2>3
<1>8. CASE RepackEnd
  <2>1. PackInv'
    BY <1>8, RepackEndStep
  <2>2. dir' = dir /\ shard' = shard /\ pass' = NoPass
    BY <1>8 DEF RepackEnd
  <2>3. ShipInv'
    BY <2>2, PassKinds, ShipKept DEF PassType
  <2> QED BY <2>1, <2>3
<1>9. CASE CutOff
  <2>1. PackInv'
    BY <1>9, CutOffStep
  <2>2. dir' = dir /\ shard' = shard /\ pass' = NoPass
    BY <1>9 DEF CutOff
  <2>3. ShipInv'
    BY <2>2, PassKinds, ShipKept DEF PassType
  <2> QED BY <2>1, <2>3
<1> QED BY <1>2, <1>3, <1>4, <1>5, <1>6, <1>7, <1>8, <1>9 DEF ShipNext

\* Whatever passes are made and cut off, both directories are sound.
LEMMA ShipInvariance == AllSpec => [](IInv /\ ShipInv /\ PackInv)
<1>1. AllInit => IInv /\ ShipInv /\ PackInv
  BY InitBooks, ShipInitInv DEF AllInit
<1>2. ASSUME ShipInv, PackInv, [AllNext]_AllVars PROVE ShipInv' /\ PackInv'
  <2>1. CASE Next /\ UNCHANGED shipVars
    <3>1. in' = in
      BY <2>1 DEF Next, Quotas, Place, Finish
    <3> QED BY <1>2, <2>1, <3>1, ShipSame
  <2>2. CASE ShipNext /\ UNCHANGED vars
    <3>1. in' = in
      BY <2>2 DEF vars
    <3> QED BY <1>2, <2>2, <3>1, ShipNextStep
  <2>3. CASE UNCHANGED AllVars
    <3>1. in' = in /\ UNCHANGED shipVars
      BY <2>3 DEF AllVars, vars
    <3> QED BY <1>2, <3>1, ShipSame
  <2> QED BY <1>2, <2>1, <2>2, <2>3 DEF AllNext
<1> QED BY <1>1, <1>2, Invariance, PTL DEF AllSpec

-----------------------------------------------------------------------------
(* What is read back of a snapshot.                                        *)

\* A set of numbers up to a bound has a greatest.
LEMMA Greatest ==
  ASSUME NEW K \in Nat, NEW S \in SUBSET (0 .. K), S # {}
  PROVE  \E x \in S : \A y \in S : y <= x
<1> DEFINE G == {n \in Nat : \A m \in S : m >= K - n => \E x \in S : \A y \in S : y <= x}
<1>1. 0 \in G
  <2>1. ASSUME NEW m \in S, m >= K - 0 PROVE \A y \in S : y <= m
    BY <2>1
  <2> QED BY <2>1
<1>2. ASSUME NEW n \in Nat, n \in G PROVE n + 1 \in G
  <2> SUFFICES ASSUME NEW m \in S, m >= K - (n + 1) PROVE \E x \in S : \A y \in S : y <= x
    OBVIOUS
  <2>1. CASE \A y \in S : y <= m
    BY <2>1
  <2>2. CASE ~\A y \in S : y <= m
    <3>1. PICK y \in S : ~(y <= m)
      BY <2>2
    <3>2. y >= K - n
      BY <3>1
    <3> QED BY <1>2, <3>2
  <2> QED BY <2>1, <2>2
<1> HIDE DEF G
<1>3. K \in G
  BY <1>1, <1>2, Steps
<1>4. \A m \in S : m >= K - K
  OBVIOUS
<1> QED BY <1>3, <1>4 DEF G

\* The tensor is read from entry k of file n.
ReadsFrom(t, n, k) ==
  /\ n \in DOMAIN dir /\ k \in DOMAIN dir[n].tab /\ dir[n].tab[k].name = t
  /\ Readable(t) = IF dir[n].tab[k].hi <= Len(dir[n].data)
                   THEN {SubSeq(dir[n].data, dir[n].tab[k].lo + 1, dir[n].tab[k].hi)} ELSE {}

\* A tensor that some file names is read from a file that names it.
LEMMA ReadFrom ==
  ASSUME DirSound, NEW t
  PROVE  IF \E m \in DOMAIN dir : Holds(m, t) THEN \E n, k : ReadsFrom(t, n, k) ELSE Readable(t) = {}
<1>1. CASE ~\E m \in DOMAIN dir : Holds(m, t)
  BY <1>1 DEF Readable
<1>2. CASE \E m \in DOMAIN dir : Holds(m, t)
  <2> DEFINE Latest(m) == Holds(m, t) /\ \A o \in DOMAIN dir : o > m => ~Holds(o, t)
             n == CHOOSE m \in DOMAIN dir : Latest(m)
             k == CHOOSE j \in DOMAIN dir[n].tab : dir[n].tab[j].name = t
             S == {m \in DOMAIN dir : Holds(m, t)}
  <2>1. \E m \in DOMAIN dir : Latest(m)
    <3>1. PICK K \in Nat : DOMAIN dir \subseteq 0 .. K
      BY DEF DirSound
    <3>2. S \in SUBSET (0 .. K) /\ S # {}
      BY <1>2, <3>1
    <3>3. PICK x \in S : \A y \in S : y <= x
      <4> HIDE DEF S
      <4> QED BY <3>2, Greatest
    <3>4. \A o \in DOMAIN dir : o > x => ~Holds(o, t)
      <4> SUFFICES ASSUME NEW o \in DOMAIN dir, o > x, Holds(o, t) PROVE FALSE
        OBVIOUS
      <4>1. o <= x /\ o \in Nat /\ x \in Nat
        BY <3>1, <3>3
      <4> QED BY <4>1
    <3> QED BY <3>3, <3>4
  <2>2. n \in DOMAIN dir /\ Latest(n)
    <3> HIDE DEF Latest
    <3> QED BY <2>1
  <2>3. Readable(t) = IF dir[n].tab[k].hi <= Len(dir[n].data)
                      THEN {SubSeq(dir[n].data, dir[n].tab[k].lo + 1, dir[n].tab[k].hi)} ELSE {}
    BY <1>2 DEF Readable
  <2> HIDE DEF n
  <2>4. k \in DOMAIN dir[n].tab /\ dir[n].tab[k].name = t
    BY <2>2 DEF Holds
  <2> HIDE DEF k
  <2>5. ReadsFrom(t, n, k)
    BY <2>2, <2>3, <2>4 DEF ReadsFrom
  <2> QED BY <1>2, <2>5
<1> QED BY <1>1, <1>2

\* A file that a pass has written all of.
LEMMA WholeFile ==
  ASSUME NEW g \in Seq(TensorT)
  PROVE  Piece(g, file_size(g)) = [head |-> TRUE, tab |-> Header(g), data |-> Data(g)]
<1>1. file_size(g) \in Nat /\ file_size(g) # 0 /\ file_size(g) - 1 = Len(Data(g))
  <2>1. file_size(g) \in Nat /\ file_size(g) > 0 /\ file_size(g) = 1 + Len(Data(g))
    BY PieceFacts
  <2> QED BY <2>1
<1>2. Data(g) \in Seq(CellT)
  BY DataFacts
<1>3. SubSeq(Data(g), 1, Len(Data(g))) = Data(g)
  <2> DEFINE d == Data(g)
  <2>1. d \in Seq(CellT)
    BY <1>2
  <2> HIDE DEF d
  <2>2. SubSeq(d, 1, Len(d)) = d
    BY <2>1
  <2> QED BY <2>2 DEF d
<1> QED BY <1>1, <1>3 DEF Piece

\* A tensor read back is the source's.
LEMMA ReadsExact ==
  ASSUME ShipInv, Opens, NEW t
  PROVE  Readable(t) \subseteq {Cells(t)}
<1>1. DirSound /\ \A n \in DOMAIN dir : dir[n].head
  BY DEF ShipInv, Opens
<1>2. CASE \E n, k : ReadsFrom(t, n, k)
  <2>1. PICK n, k : ReadsFrom(t, n, k)
    BY <1>2
  <2>2. n \in DOMAIN dir /\ k \in DOMAIN dir[n].tab /\ dir[n].tab[k].name = t
    BY <2>1 DEF ReadsFrom
  <2>3. PICK g \in Seq(TensorT) : \E m \in 0 .. file_size(g) : dir[n] = Piece(g, m)
    BY <1>1, <2>2 DEF DirSound
  <2>4. PICK m \in 0 .. file_size(g) : dir[n] = Piece(g, m)
    BY <2>3
  <2>5. m # 0
    <3>1. dir[n].head
      BY <1>1, <2>2
    <3> QED BY <2>4, <3>1 DEF Piece, Created
  <2>6. dir[n].tab = Header(g) /\ dir[n].data = SubSeq(Data(g), 1, m - 1)
    BY <2>4, <2>5 DEF Piece
  <2>7. file_size(g) = 1 + Len(Data(g)) /\ file_size(g) \in Nat
    BY PieceFacts
  <2>8. Data(g) \in Seq(CellT) /\ Len(Data(g)) \in Nat
    BY DataFacts
  <2>9. m - 1 \in 0 .. Len(Data(g))
    BY <2>5, <2>7, <2>8
  <2>10. k \in 1 .. Len(g)
    BY <2>2, <2>6 DEF Header
  <2>11. Len(dir[n].data) = m - 1
    <3> DEFINE d == Data(g)
    <3>1. d \in Seq(CellT) /\ m - 1 \in 0 .. Len(d)
      BY <2>8, <2>9
    <3> HIDE DEF d
    <3>2. Len(SubSeq(d, 1, m - 1)) = m - 1
      BY <3>1
    <3> QED BY <2>6, <3>2 DEF d
  <2>12. CASE Header(g)[k].hi <= m - 1
    <3>1. /\ Header(g)[k].name = g[k]
          /\ SubSeq(SubSeq(Data(g), 1, m - 1), Header(g)[k].lo + 1, Header(g)[k].hi) = Cells(g[k])
      BY <2>9, <2>10, <2>12, ReadBack
    <3>2. Readable(t) = {Cells(g[k])} /\ g[k] = t
      BY <2>1, <2>2, <2>6, <2>11, <2>12, <3>1 DEF ReadsFrom
    <3> QED BY <3>2
  <2>13. CASE ~(Header(g)[k].hi <= m - 1)
    BY <2>1, <2>6, <2>11, <2>13 DEF ReadsFrom
  <2> QED BY <2>12, <2>13
<1>3. CASE ~\E n, k : ReadsFrom(t, n, k)
  BY <1>1, <1>3, ReadFrom
<1> QED BY <1>2, <1>3

\* A shard that went through has all that its rank needs.
LEMMA ReadsAll ==
  ASSUME ShipInv, shard # NoShard, Leftover(shard) = {},
         NEW i \in 1 .. Len(Source), Needs(shard, Source[i])
  PROVE  Readable(Source[i]) # {}
<1> DEFINE fs == FilesOf(shard)
           t == Source[i]
<1>1. /\ in.n_experts \in Nat /\ DirSound
      /\ \A n \in 0 .. Len(fs) - 1 : n \in DOMAIN dir /\ dir[n] = Piece(fs[n + 1], file_size(fs[n + 1]))
  BY DEF ShipInv, ShardSound
<1>2. /\ Len(fs) \in Nat /\ \A k \in 1 .. Len(fs) : fs[k] \in Seq(TensorT)
      /\ \E k \in 1 .. Len(fs) : Within(t, fs[k])
  BY <1>1, FilesFacts
<1>3. DOMAIN dir \subseteq 0 .. Len(fs) - 1
  BY DEF Leftover, FilesOf
<1> HIDE DEF fs, t
<1>4. ASSUME NEW n \in 0 .. Len(fs) - 1
      PROVE  /\ n \in DOMAIN dir /\ n + 1 \in 1 .. Len(fs) /\ fs[n + 1] \in Seq(TensorT)
             /\ dir[n].tab = Header(fs[n + 1]) /\ dir[n].data = Data(fs[n + 1])
  <2>1. n + 1 \in 1 .. Len(fs)
    BY <1>2
  <2>2. fs[n + 1] \in Seq(TensorT)
    BY <1>2, <2>1
  <2>3. dir[n] = Piece(fs[n + 1], file_size(fs[n + 1])) /\ n \in DOMAIN dir
    BY <1>1
  <2>4. dir[n] = [head |-> TRUE, tab |-> Header(fs[n + 1]), data |-> Data(fs[n + 1])]
    BY <2>2, <2>3, WholeFile
  <2> QED BY <2>1, <2>2, <2>3, <2>4
<1>5. \E m \in DOMAIN dir : Holds(m, t)
  <2>1. PICK k \in 1 .. Len(fs) : Within(t, fs[k])
    BY <1>2
  <2>2. k - 1 \in 0 .. Len(fs) - 1 /\ (k - 1) + 1 = k
    BY <1>2
  <2>3. k - 1 \in DOMAIN dir /\ dir[k - 1].tab = Header(fs[k]) /\ fs[k] \in Seq(TensorT)
    <3> DEFINE h == k - 1
    <3>1. /\ h \in DOMAIN dir /\ fs[h + 1] \in Seq(TensorT)
          /\ dir[h].tab = Header(fs[h + 1])
      BY <1>4, <2>2
    <3> QED BY <2>2, <3>1
  <2>4. PICK j \in 1 .. Len(fs[k]) : fs[k][j] = t
    BY <2>1 DEF Within
  <2>5. j \in DOMAIN Header(fs[k]) /\ Header(fs[k])[j].name = t
    BY <2>3, <2>4 DEF Header
  <2> QED BY <2>3, <2>5 DEF Holds
<1>6. PICK n, k : ReadsFrom(t, n, k)
  BY <1>1, <1>5, ReadFrom
<1>7. n \in DOMAIN dir /\ k \in DOMAIN dir[n].tab
  BY <1>6 DEF ReadsFrom
<1>8. n \in 0 .. Len(fs) - 1
  BY <1>3, <1>7
<1> DEFINE g == fs[n + 1]
<1>9. g \in Seq(TensorT) /\ dir[n].tab = Header(g) /\ dir[n].data = Data(g)
  BY <1>4, <1>8
<1> HIDE DEF g
<1>10. k \in 1 .. Len(g) /\ Header(g)[k].hi = Weight(SubSeq(g, 1, k))
  BY <1>7, <1>9 DEF Header
<1>11. Weight(SubSeq(g, 1, k)) <= Len(Data(g))
  BY <1>9, <1>10, DataFacts
<1>12. dir[n].tab[k].hi <= Len(dir[n].data)
  BY <1>9, <1>10, <1>11
<1>13. Readable(t) # {}
  BY <1>6, <1>12 DEF ReadsFrom
<1> QED BY <1>13 DEF t

\* A shard gives back the source's bytes, all that its rank needs.
LEMMA ShardReads ==
  ASSUME ShipInv
  PROVE  ShardExact
<1>1. Source \in Seq(TensorT)
  BY SourceTypes DEF ShipInv
<1>2. \A t \in ToSet(Source) : \E i \in 1 .. Len(Source) : t = Source[i]
  BY <1>1 DEF ToSet
<1> QED BY <1>2, ReadsExact, ReadsAll DEF ShardExact

-----------------------------------------------------------------------------
(* What is read back of a packed directory.                                *)

\* The greater of one and a number.
LEMMA MaxOne ==
  ASSUME NEW x \in Nat
  PROVE  Max({1, x}) \in Nat \ {0} /\ Max({1, x}) >= x /\ (x <= 1 => Max({1, x}) = 1) /\ (x > 1 => Max({1, x}) = x)
<1> DEFINE S == {1, x}
<1>1. \E y \in S : \A z \in S : y >= z
  OBVIOUS
<1>2. Max(S) \in S /\ \A z \in S : Max(S) >= z
  <2> HIDE DEF S
  <2> QED BY <1>1 DEF Max
<1> QED BY <1>2

\* The lesser of two numbers.
LEMMA MinTwo ==
  ASSUME NEW x \in Nat, NEW y \in Nat
  PROVE  Min({x, y}) \in Nat /\ Min({x, y}) <= x /\ Min({x, y}) <= y /\ (Min({x, y}) = x \/ Min({x, y}) = y)
<1> DEFINE S == {x, y}
<1>1. \E w \in S : \A z \in S : w <= z
  OBVIOUS
<1>2. Min(S) \in S /\ \A z \in S : Min(S) <= z
  <2> HIDE DEF S
  <2> QED BY <1>1 DEF Min
<1> QED BY <1>2

\* A blob has two cells.
LEMMA BlobBytes == blob_bytes = 2
BY DEF blob_bytes, nbytes, Tensor, NoExpert

\* An expert that is loaded, but for the one a torn manifest ends with, is where
\* the manifest says, which is a blob's place, within the file if it is read.
LEMMA LoadedEntry ==
  ASSUME PackInv, NEW b, NEW f, NEW l \in Loaded(f, b), ~Torn(l)
  PROVE  LET n == manifest.num_files
         IN  /\ n \in Nat \ {0}
             /\ \E i \in 1 .. Len(Routed) :
                  /\ l = Loc(n, i) /\ l.file = f /\ l.offset = 2 * ((i - 1) \div n)
                  /\ (i - 1) \div n \in Nat
                  /\ i = ((i - 1) \div n) * n + f + 1
<1> DEFINE n == manifest.num_files
           L == Len(manifest.locs)
<1>1. /\ n \in Nat /\ L \in Nat /\ L <= Len(Routed) /\ DOMAIN manifest.locs = 1 .. L
      /\ L > 0 => n # 0
      /\ \A i \in 1 .. L : manifest.whole \/ i # L => manifest.locs[i] = Loc(n, i)
  BY DEF PackInv, ManifestSound
<1>2. Len(Routed) \in Nat
  BY ExpertFacts DEF PackInv
<1>3. PICK i \in 1 .. L : l = manifest.locs[i] /\ manifest.locs[i].file = f
  BY <1>1 DEF Loaded
<1>4. manifest.whole \/ i # L
  BY <1>3 DEF Torn, Last
<1>5. l = Loc(n, i)
  BY <1>1, <1>3, <1>4
<1> HIDE DEF n, L
<1>6. n \in Nat \ {0} /\ i \in 1 .. Len(Routed) /\ i - 1 \in Nat
  BY <1>1, <1>2, <1>3
<1> DEFINE q == (i - 1) \div n
           r == (i - 1) % n
           w == q * n
<1>7. q \in Nat /\ i - 1 = w + r /\ r \in Nat /\ w \in Nat
  <2>1. q \in Nat /\ i - 1 = q * n + r /\ r \in 0 .. n - 1
    BY <1>6, RoundRobin
  <2> HIDE DEF q, r
  <2> QED BY <1>6, <2>1
<1>8. r = f /\ l.offset = 2 * q /\ l.file = f
  BY <1>3, <1>5 DEF Loc
<1> HIDE DEF w, r
<1>9. i = w + f + 1
  BY <1>6, <1>7, <1>8
<1> QED BY <1>5, <1>6, <1>7, <1>8, <1>9 DEF n, w

\* A blob that is read.
LEMMA TwoCells ==
  ASSUME NEW s \in Seq(CellT), NEW q \in Nat, 2 * q + 2 <= Len(s),
         NEW x, NEW y, s[2 * q + 1] = x, s[2 * q + 2] = y
  PROVE  SubSeq(s, 2 * q + 1, 2 * q + 2) = <<x, y>>
<1> DEFINE m == 2 * q + 1
           n == 2 * q + 2
           r == SubSeq(s, m, n)
<1>1. m \in Nat \ {0} /\ n \in Nat /\ n <= Len(s) /\ m <= n /\ n - m + 1 = 2
      /\ m + 1 - 1 = 2 * q + 1 /\ m + 2 - 1 = 2 * q + 2
  OBVIOUS
<1> HIDE DEF m, n
<1>2. r \in Seq(CellT) /\ Len(r) = 2 /\ \A j \in 1 .. 2 : r[j] = s[m + j - 1]
  BY <1>1, SubSeqParts
<1> HIDE DEF r
<1>3. r[1] = x /\ r[2] = y
  BY <1>1, <1>2
<1>4. r = <<x, y>>
  BY <1>2, <1>3
<1> QED BY <1>4 DEF r, m, n

\* What a manifest of the files' own count gives an expert is its own bytes.
LEMMA LoadsOwn ==
  ASSUME PackInv, manifest.num_files = begun, NEW b, LoadsAt(b),
         NEW f \in 0 .. begun - 1, NEW l \in Loaded(f, b), ~Torn(l)
  PROVE  SubSeq(pack[f], l.offset + 1, l.offset + blob_bytes) = Cells(l.name)
<1>0. begun \in Nat \ {0}
  BY LoadedEntry
<1>1. PICK i \in 1 .. Len(Routed) :
        /\ l = Loc(begun, i) /\ l.offset = 2 * ((i - 1) \div begun)
        /\ (i - 1) \div begun \in Nat /\ i = ((i - 1) \div begun) * begun + f + 1
  BY LoadedEntry
<1>2. Cells(Routed[i]) = <<<<Routed[i], 1>>, <<Routed[i], 2>>>>
  BY ExpertFacts DEF PackInv
<1> DEFINE s == pack[f]
           q == (i - 1) \div begun
           t == Routed[i]
<1>3. l.name = t /\ l.offset = 2 * q /\ q \in Nat /\ q * begun + f + 1 = i
  BY <1>1 DEF Loc
<1>4. /\ s \in Seq(CellT) /\ \A k \in 1 .. Len(s) : s[k] = Blob(begun, f, k)
  BY DEF PackInv, PackSound
<1>5. 2 * q + 2 <= Len(s)
  BY <1>3, BlobBytes DEF LoadsAt
<1> HIDE DEF s, q
<1>6. s[2 * q + 1] = <<t, 1>> /\ s[2 * q + 2] = <<t, 2>>
  <2>1. ((2 * q + 1) - 1) \div 2 = q /\ ((2 * q + 1) - 1) % 2 = 0
    BY <1>3
  <2>2. ((2 * q + 2) - 1) \div 2 = q /\ ((2 * q + 2) - 1) % 2 = 1
    BY <1>3
  <2>3. Blob(begun, f, 2 * q + 1) = <<Routed[q * begun + f + 1], 0 + 1>>
    BY <2>1 DEF Blob
  <2>4. Blob(begun, f, 2 * q + 2) = <<Routed[q * begun + f + 1], 1 + 1>>
    BY <2>2 DEF Blob
  <2>5. 2 * q + 1 \in 1 .. Len(s) /\ 2 * q + 2 \in 1 .. Len(s)
    BY <1>3, <1>4, <1>5
  <2> QED BY <1>3, <1>4, <2>3, <2>4, <2>5
<1> HIDE DEF t
<1>7. SubSeq(s, 2 * q + 1, 2 * q + 2) = <<<<t, 1>>, <<t, 2>>>>
  <2> DEFINE x == <<t, 1>>
             y == <<t, 2>>
  <2>1. s[2 * q + 1] = x /\ s[2 * q + 2] = y
    BY <1>6
  <2> HIDE DEF x, y
  <2>2. SubSeq(s, 2 * q + 1, 2 * q + 2) = <<x, y>>
    BY <1>3, <1>4, <1>5, <2>1, TwoCells
  <2> QED BY <2>2 DEF x, y
<1> QED BY <1>2, <1>3, <1>7, BlobBytes DEF s, t

\* What a manifest of another count gives an expert is some expert's bytes.
LEMMA LoadsSome ==
  ASSUME PackInv, NEW b, LoadsAt(b),
         NEW f \in 0 .. manifest.num_files - 1, NEW l \in Loaded(f, b), ~Torn(l)
  PROVE  \E e \in ToSet(Routed) : SubSeq(pack[f], l.offset + 1, l.offset + blob_bytes) = Cells(e)
<1> DEFINE s == pack[f]
<1>1. PICK q \in Nat : l.offset = 2 * q
  BY LoadedEntry
<1>2. f \in DOMAIN pack /\ 2 * q + 2 <= Len(s)
  BY <1>1, BlobBytes DEF LoadsAt
<1>3. Paired(s)
  BY <1>2 DEF PackInv, FilesPaired
<1> HIDE DEF s
<1>4. s \in Seq(CellT)
  BY <1>3 DEF Paired
<1>5. PICK i \in 1 .. Len(Routed) : s[2 * q + 1] = <<Routed[i], 1>> /\ s[2 * q + 2] = <<Routed[i], 2>>
  BY <1>2, <1>3 DEF Paired
<1>6. /\ Cells(Routed[i]) = <<<<Routed[i], 1>>, <<Routed[i], 2>>>> /\ Routed \in Seq(ExpertT)
  BY ExpertFacts DEF PackInv
<1>7. Routed[i] \in ToSet(Routed)
  BY <1>6 DEF ToSet
<1> DEFINE x == <<Routed[i], 1>>
           y == <<Routed[i], 2>>
<1>8. s[2 * q + 1] = x /\ s[2 * q + 2] = y /\ Cells(Routed[i]) = <<x, y>>
  BY <1>5, <1>6
<1> HIDE DEF x, y
<1>9. SubSeq(s, 2 * q + 1, 2 * q + 2) = <<x, y>>
  BY <1>2, <1>4, <1>8, TwoCells
<1> QED BY <1>1, <1>7, <1>8, <1>9, BlobBytes DEF s

\* With room for all of them, all experts are loaded.
LEMMA LoadsAll ==
  ASSUME PackInv, manifest.whole, NEW b \in Nat,
         b >= Len(Routed) * blob_bytes, NEW i \in 1 .. Len(Routed)
  PROVE  \E f \in 0 .. manifest.num_files - 1 : \E l \in Loaded(f, b) : l.name = Routed[i]
<1> DEFINE n == manifest.num_files
           L == Len(Routed)
           f == (i - 1) % n
           locs == manifest.locs
           mine == {j \in DOMAIN locs : locs[j].file = f}
           before(j, k) == \/ locs[j].offset < locs[k].offset
                           \/ locs[j].offset = locs[k].offset /\ j < k
           fit == Max({1, b \div blob_bytes})
           first == {j \in mine : before(j, i)}
<1>1. /\ in.n_experts \in Nat /\ n \in Nat \ {0} /\ DOMAIN locs = 1 .. L
      /\ \A j \in 1 .. L : locs[j] = Loc(n, j)
  BY DEF PackInv, ManifestSound
<1>2. L \in Nat
  BY <1>1, ExpertFacts
<1>3. f \in 0 .. n - 1
  <2>1. i - 1 \in Nat
    BY <1>2
  <2> QED BY <1>1, <2>1, RoundRobin
<1>4. locs[i] = Loc(n, i) /\ locs[i].file = f /\ locs[i].name = Routed[i] /\ i \in mine
  BY <1>1 DEF Loc
<1>5. fit >= L /\ fit \in Nat
  <2> DEFINE x == b \div 2
  <2>1. x \in Nat /\ x >= L
    BY <1>2, BlobBytes
  <2> HIDE DEF x
  <2>2. Max({1, x}) >= x /\ Max({1, x}) \in Nat
    BY <2>1, MaxOne
  <2> QED BY <1>2, <2>1, <2>2, BlobBytes DEF x
<1>6. Cardinality(first) < L
  <2>1. first \in SUBSET ((1 .. L) \ {i})
    <3>1. ~before(i, i)
      <4>1. locs[i].offset \in Nat
        <5>1. (i - 1) \div n \in Nat
          <6>1. i - 1 \in Nat
            BY <1>2
          <6> QED BY <1>1, <6>1, RoundRobin
        <5>2. locs[i].offset = 2 * ((i - 1) \div n)
          BY <1>4 DEF Loc
        <5> QED BY <5>1, <5>2
      <4>2. i \in Nat
        BY <1>2
      <4> QED BY <4>1, <4>2
    <3> HIDE DEF before
    <3> QED BY <1>1, <3>1
  <2>2. IsFiniteSet(1 .. L) /\ Cardinality(1 .. L) = L
    <3>1. 1 \in Int /\ L \in Int
      BY <1>2
    <3>2. IsFiniteSet(1 .. L) /\ Cardinality(1 .. L) = IF 1 > L THEN 0 ELSE L - 1 + 1
      BY <3>1, FS_Interval
    <3> QED BY <1>2, <3>2
  <2>3. IsFiniteSet((1 .. L) \ {i}) /\ Cardinality((1 .. L) \ {i}) = L - 1
    BY <2>2, FS_RemoveElement
  <2> HIDE DEF first
  <2> DEFINE others == (1 .. L) \ {i}
  <2>4. IsFiniteSet(others) /\ Cardinality(others) = L - 1 /\ first \in SUBSET others
    BY <1>2, <2>1, <2>3, Zenon
  <2> HIDE DEF others
  <2>5. IsFiniteSet(first) /\ Cardinality(first) <= Cardinality(others)
    BY <2>4, FS_Subset
  <2>6. Cardinality(first) \in Nat
    BY <2>5, FS_CardinalityType
  <2> QED BY <1>2, <2>4, <2>5, <2>6
<1>7. Cardinality(first) < fit
  <2>1. IsFiniteSet(1 .. L)
    <3>1. 1 \in Int /\ L \in Int
      BY <1>2
    <3> QED BY <3>1, FS_Interval
  <2>2. first \in SUBSET (1 .. L)
    BY <1>1
  <2> HIDE DEF first, fit
  <2>3. Cardinality(first) \in Nat
    BY <2>1, <2>2, FS_Subset, FS_CardinalityType
  <2> QED BY <1>2, <1>5, <1>6, <2>3
<1>8. locs[i] \in Loaded(f, b)
  BY <1>4, <1>7 DEF Loaded
<1> QED BY <1>3, <1>4, <1>8

\* What a packed directory gives the experts, and that it gives all that fit.
LEMMA PackReads ==
  ASSUME PackInv
  PROVE  PackExact
<1> SUFFICES ASSUME NEW m \in LoadBudgets
             PROVE  LET b == per_file(m)
                    IN  /\ LoadsAt(b) => \A f \in 0 .. manifest.num_files - 1 : \A l \in Loaded(f, b) :
                             LET got == SubSeq(pack[f], l.offset + 1, l.offset + blob_bytes)
                             IN  Torn(l) \/ IF manifest.num_files = begun THEN got = Cells(l.name)
                                            ELSE \E e \in ToSet(Routed) : got = Cells(e)
                        /\ manifest.whole /\ b >= Len(Routed) * blob_bytes =>
                             \A e \in ToSet(Routed) : \E f \in 0 .. manifest.num_files - 1 :
                               \E l \in Loaded(f, b) : l.name = e
  BY DEF PackExact
<1> DEFINE b == per_file(m)
           n == manifest.num_files
<1>1. n \in Nat /\ in.n_experts \in Nat
  BY DEF PackInv, ManifestSound
<1>2. b \in Nat
  <2>1. m \in Nat
    BY ShippingAssumption
  <2>2. Max({1, n}) \in Nat \ {0}
    BY <1>1, MaxOne
  <2>3. m \div Max({1, n}) \in Nat
    BY <2>1, <2>2, DivMod
  <2>4. Max({1, m \div Max({1, n})}) \in Nat
    BY <2>3, MaxOne
  <2> QED BY <2>4 DEF per_file
<1>3. \A e \in ToSet(Routed) : \E i \in 1 .. Len(Routed) : e = Routed[i]
  <2>1. Routed \in Seq(ExpertT)
    BY <1>1, ExpertFacts
  <2> QED BY <2>1 DEF ToSet
<1> HIDE DEF b
<1>4. ASSUME LoadsAt(b), NEW f \in 0 .. n - 1, NEW l \in Loaded(f, b), ~Torn(l)
      PROVE  LET got == SubSeq(pack[f], l.offset + 1, l.offset + blob_bytes)
             IN  IF n = begun THEN got = Cells(l.name)
                 ELSE \E e \in ToSet(Routed) : got = Cells(e)
  <2>1. CASE n = begun
    BY <1>4, <2>1, LoadsOwn
  <2>2. CASE n # begun
    BY <1>4, <2>2, LoadsSome
  <2> QED BY <2>1, <2>2
<1>5. manifest.whole /\ b >= Len(Routed) * blob_bytes =>
        \A e \in ToSet(Routed) : \E f \in 0 .. n - 1 : \E l \in Loaded(f, b) : l.name = e
  BY <1>2, <1>3, LoadsAll
<1> QED BY <1>4, <1>5 DEF b

-----------------------------------------------------------------------------
(* Preloading from the model's own files.                                  *)

\* An expert's place among the chunks: the one with number i - 1 div per.
LEMMA PreloadReads ==
  ASSUME in.n_experts \in Nat, NEW n \in Nat \ {0}, NEW b \in Nat
  PROVE  /\ Cardinality(preload_parallel(n, b)) * blob_bytes <= b + n * blob_bytes
         /\ b >= n * Len(Routed) * blob_bytes => preload_parallel(n, b) = ToSet(Routed)
<1> DEFINE r == Routed
           L == Len(r)
           per == Max({1, div_ceil(L, n)})
           lo(k) == (k - 1) * per + 1
           hi(k) == Min({k * per, L})
           chunk(k) == SubSeq(r, lo(k), hi(k))
           goes == (b \div n) \div 2 + 1
           taken(k) == SubSeq(chunk(k), 1, Min({goes, Len(chunk(k))}))
           got == preload_parallel(n, b)
<1>1. r \in Seq(ExpertT) /\ L \in Nat
  BY ExpertFacts
<1>2. got = UNION {ToSet(taken(k)) : k \in 1 .. n}
  BY BlobBytes DEF preload_parallel
<1>3. per \in Nat \ {0} /\ L <= n * per
  <2> DEFINE c == div_ceil(L, n)
  <2>1. c \in Nat
    <3>1. L + n - 1 \in Nat
      BY <1>1
    <3> QED BY <3>1, DivMod DEF div_ceil
  <2>2. L <= c * n
    BY <1>1, <2>1, CeilBound
  <2> HIDE DEF c
  <2>3. Max({1, c}) \in Nat \ {0} /\ Max({1, c}) >= c
    BY <2>1, MaxOne
  <2> DEFINE p == Max({1, c})
  <2>4. p \in Nat \ {0} /\ c <= p
    BY <2>1, <2>3
  <2> HIDE DEF p
  <2>5. c * n <= p * n /\ p * n = n * p /\ c * n \in Nat /\ p * n \in Nat
    BY <2>1, <2>4, TimesOrder
  <2>6. L <= n * p
    BY <1>1, <2>2, <2>5
  <2> QED BY <2>4, <2>6 DEF p, c
<1>4. goes \in Nat \ {0} /\ n * goes * 2 <= b + n * 2 /\ (b >= n * L * 2 => goes >= L)
  <2> DEFINE x == b \div n
             y == x \div 2
  <2>1. x \in Nat /\ x * n <= b /\ b < (x + 1) * n
    BY DivMod, DivIs
  <2>2. y \in Nat /\ y * 2 <= x /\ x < (y + 1) * 2
    BY <2>1
  <2> HIDE DEF x, y
  <2>3. n * (y + 1) * 2 <= b + n * 2
    <3>1. (y * 2) * n <= x * n
      BY <2>1, <2>2, TimesOrder
    <3>2. n * (y + 1) * 2 = (y * 2) * n + n * 2
      BY <2>2
    <3>3. (y * 2) * n \in Nat /\ x * n \in Nat
      BY <2>1, <2>2
    <3> QED BY <2>1, <3>1, <3>2, <3>3
  <2>4. ASSUME b >= n * L * 2 PROVE y + 1 >= L
    <3>1. n * L * 2 = (L * 2) * n /\ (L * 2) \in Nat /\ (L * 2) * n \in Nat /\ (x + 1) * n \in Nat
      BY <1>1, <2>1
    <3>2. (L * 2) * n < (x + 1) * n
      BY <2>1, <2>4, <3>1
    <3>3. L * 2 < x + 1
      BY <2>1, <3>1, <3>2, TimesOrder
    <3> QED BY <1>1, <2>1, <2>2, <3>3
  <2> QED BY <2>2, <2>3, <2>4 DEF x, y
<1> HIDE DEF goes, per, r
<1>5. ASSUME NEW k \in 1 .. n
      PROVE  /\ lo(k) \in Nat \ {0} /\ hi(k) \in Nat /\ hi(k) <= L /\ hi(k) <= k * per
             /\ hi(k) = k * per \/ hi(k) = L
             /\ chunk(k) \in Seq(ExpertT) /\ Len(chunk(k)) \in Nat
             /\ Len(chunk(k)) = IF lo(k) <= hi(k) THEN hi(k) - lo(k) + 1 ELSE 0
             /\ \A j \in 1 .. Len(chunk(k)) : chunk(k)[j] = r[lo(k) + j - 1]
  <2>1. (k - 1) * per \in Nat /\ k * per \in Nat
    BY <1>3
  <2>2. hi(k) \in Nat /\ hi(k) <= L /\ hi(k) <= k * per /\ (hi(k) = k * per \/ hi(k) = L)
    <3> DEFINE z == k * per
    <3>1. z \in Nat
      BY <2>1
    <3> HIDE DEF z
    <3>2. Min({z, L}) \in Nat /\ Min({z, L}) <= z /\ Min({z, L}) <= L /\ (Min({z, L}) = z \/ Min({z, L}) = L)
      BY <1>1, <3>1, MinTwo
    <3> QED BY <3>2 DEF z
  <2> DEFINE m == lo(k)
             h == hi(k)
  <2>3. m \in Nat \ {0} /\ h \in Nat /\ h <= Len(r)
    BY <2>1, <2>2
  <2> HIDE DEF m, h
  <2>4. /\ SubSeq(r, m, h) \in Seq(ExpertT)
        /\ Len(SubSeq(r, m, h)) = IF m <= h THEN h - m + 1 ELSE 0
        /\ \A j \in 1 .. (h - m + 1) : SubSeq(r, m, h)[j] = r[m + j - 1]
    BY <1>1, <2>3, SubSeqParts
  <2>5. \A j \in 1 .. Len(SubSeq(r, m, h)) : SubSeq(r, m, h)[j] = r[m + j - 1]
    BY <2>3, <2>4
  <2>6. Len(SubSeq(r, m, h)) \in Nat
    BY <2>4
  <2> QED BY <2>2, <2>3, <2>4, <2>5, <2>6 DEF m, h
<1>6. ASSUME NEW k \in 1 .. n
      PROVE  /\ \A x \in ToSet(taken(k)) : \E j \in 1 .. goes :
                  j <= Len(chunk(k)) /\ x = chunk(k)[j]
             /\ \A j \in 1 .. Len(chunk(k)) : j <= goes => chunk(k)[j] \in ToSet(taken(k))
  <2> DEFINE c == chunk(k)
  <2>1. c \in Seq(ExpertT) /\ Len(c) \in Nat
    BY <1>5
  <2> HIDE DEF c
  <2> DEFINE e == Min({goes, Len(c)})
             s == SubSeq(c, 1, e)
  <2>2. e \in Nat /\ e <= goes /\ e <= Len(c) /\ (e = goes \/ e = Len(c))
    BY <1>4, <2>1, MinTwo
  <2> HIDE DEF e
  <2>3. s \in Seq(ExpertT) /\ Len(s) = e /\ \A j \in 1 .. e : s[j] = c[j]
    <3>1. /\ s \in Seq(ExpertT) /\ Len(s) = IF 1 <= e THEN e - 1 + 1 ELSE 0
          /\ \A j \in 1 .. (e - 1 + 1) : s[j] = c[1 + j - 1]
      BY <2>1, <2>2, SubSeqParts
    <3>2. e - 1 + 1 = e /\ \A j \in 1 .. e : 1 + j - 1 = j
      BY <2>2
    <3>3. \A j \in 1 .. e : s[j] = c[j]
      <4>1. ASSUME NEW j \in 1 .. e PROVE s[j] = c[j]
        <5>1. s[j] = c[1 + j - 1]
          BY <3>1, <3>2
        <5> QED BY <3>2, <5>1
      <4> QED BY <4>1
    <3> QED BY <2>2, <3>1, <3>2, <3>3
  <2> HIDE DEF s
  <2>4. ToSet(s) = {s[j] : j \in 1 .. e}
    BY <2>3 DEF ToSet
  <2>5. \A x \in ToSet(s) : \E j \in 1 .. goes : j <= Len(c) /\ x = c[j]
    BY <1>4, <2>1, <2>2, <2>3, <2>4
  <2>6. \A j \in 1 .. Len(c) : j <= goes => c[j] \in ToSet(s)
    <3>1. ASSUME NEW j \in 1 .. Len(c), j <= goes PROVE c[j] \in ToSet(s)
      <4>1. j \in 1 .. e
        BY <2>1, <2>2, <3>1
      <4> QED BY <2>3, <2>4, <4>1
    <3> QED BY <3>1
  <2> QED BY <2>5, <2>6 DEF c, s, e
<1> HIDE DEF chunk, lo, hi
<1>7. Cardinality(got) * 2 <= b + n * 2
  <2> DEFINE S == (1 .. n) \X (1 .. goes)
             f == [p \in S |-> chunk(p[1])[p[2]]]
             T == {f[p] : p \in S}
  <2>1. IsFiniteSet(S) /\ Cardinality(S) = n * goes
    <3>1. 1 \in Int /\ n \in Int /\ goes \in Int
      BY <1>4
    <3>2. /\ IsFiniteSet(1 .. n) /\ Cardinality(1 .. n) = IF 1 > n THEN 0 ELSE n - 1 + 1
          /\ IsFiniteSet(1 .. goes) /\ Cardinality(1 .. goes) = IF 1 > goes THEN 0 ELSE goes - 1 + 1
      BY <3>1, FS_Interval
    <3>3. Cardinality(1 .. n) = n /\ Cardinality(1 .. goes) = goes
      BY <1>4, <3>2
    <3> DEFINE A == 1 .. n
               B == 1 .. goes
    <3>4. IsFiniteSet(A) /\ IsFiniteSet(B) /\ Cardinality(A) = n /\ Cardinality(B) = goes
      BY <3>2, <3>3
    <3> HIDE DEF A, B
    <3>5. IsFiniteSet(A \X B) /\ Cardinality(A \X B) = Cardinality(A) * Cardinality(B)
      BY <3>4, FS_Product
    <3>6. IsFiniteSet(A \X B) /\ Cardinality(A \X B) = n * goes
      BY <3>4, <3>5
    <3> QED BY <3>6 DEF A, B
  <2>2. got \in SUBSET T
    <3> SUFFICES ASSUME NEW x \in got PROVE x \in T
      OBVIOUS
    <3>1. PICK k \in 1 .. n : x \in ToSet(taken(k))
      BY <1>2
    <3>2. PICK j \in 1 .. goes : x = chunk(k)[j]
      BY <1>6, <3>1
    <3>3. <<k, j>> \in S /\ f[<<k, j>>] = x
      BY <3>2
    <3> QED BY <3>3
  <2> HIDE DEF S
  <2>3. f \in Surjection(S, T)
    <3>1. DOMAIN f = S /\ \A p \in S : f[p] \in T
      OBVIOUS
    <3>2. f \in [S -> T]
      BY <3>1
    <3>3. \A y \in T : \E p \in S : f[p] = y
      OBVIOUS
    <3> QED BY <3>2, <3>3 DEF Surjection
  <2> HIDE DEF T, f
  <2>4. IsFiniteSet(T) /\ Cardinality(T) <= n * goes
    BY <2>1, <2>3, FS_Surjection
  <2>5. IsFiniteSet(got) /\ Cardinality(got) <= Cardinality(T)
    BY <2>2, <2>4, FS_Subset
  <2>6. Cardinality(got) \in Nat /\ Cardinality(T) \in Nat /\ n * goes \in Nat
    BY <1>4, <2>4, <2>5, FS_CardinalityType
  <2> QED BY <1>4, <2>4, <2>5, <2>6
<1>8. ASSUME b >= n * L * 2 PROVE got = ToSet(r)
  <2>1. ToSet(r) = {r[i] : i \in 1 .. L}
    BY <1>1 DEF ToSet
  <2>2. ASSUME NEW x \in got PROVE x \in ToSet(r)
    <3>1. PICK k \in 1 .. n : x \in ToSet(taken(k))
      BY <1>2
    <3>2. PICK j \in 1 .. goes : j <= Len(chunk(k)) /\ x = chunk(k)[j]
      BY <1>6, <3>1
    <3>3. j \in 1 .. Len(chunk(k))
      BY <1>4, <1>5, <3>2
    <3>4. x = r[lo(k) + j - 1]
      BY <1>5, <3>2, <3>3
    <3>5. lo(k) + j - 1 \in 1 .. L
      <4> DEFINE x0 == lo(k)
                 y0 == hi(k)
                 len == Len(chunk(k))
      <4>1. x0 \in Nat \ {0} /\ y0 \in Nat /\ y0 <= L
            /\ len = IF x0 <= y0 THEN y0 - x0 + 1 ELSE 0
        BY <1>5
      <4>2. j \in 1 .. len
        BY <3>3
      <4> HIDE DEF x0, y0, len
      <4>3. x0 + j - 1 \in 1 .. L
        BY <1>1, <4>1, <4>2
      <4> QED BY <4>3 DEF x0
    <3> QED BY <2>1, <3>4, <3>5
  <2>3. ASSUME NEW i \in 1 .. L PROVE r[i] \in got
    <3> DEFINE a == i - 1
               q == a \div per
               w == q * per
    <3>1. a \in Nat /\ a < L
      BY <1>1
    <3>2. q \in Nat /\ q * per <= a /\ a < (q + 1) * per
      BY <1>3, <3>1, DivMod, DivIs
    <3> HIDE DEF a, q
    <3>3. q < n
      <4>1. q * per < n * per
        <5>1. q * per \in Nat /\ n * per \in Nat
          BY <1>3, <3>2
        <5> QED BY <1>1, <1>3, <3>1, <3>2, <5>1
      <4> QED BY <1>3, <3>2, <4>1, TimesOrder
    <3> DEFINE k == q + 1
               j == i - w
    <3>4. k \in 1 .. n /\ k - 1 = q /\ lo(k) = w + 1 /\ k * per = w + per /\ w \in Nat
      BY <1>3, <3>2, <3>3 DEF lo
    <3>5. i = a + 1 /\ w <= a /\ a < w + per
      BY <1>1, <3>2, <3>4 DEF a
    <3> HIDE DEF k, w
    <3>5a. /\ hi(k) \in Nat /\ (hi(k) = k * per \/ hi(k) = L) /\ Len(chunk(k)) \in Nat
           /\ Len(chunk(k)) = IF lo(k) <= hi(k) THEN hi(k) - lo(k) + 1 ELSE 0
      BY <1>5, <3>4
    <3>5b. i <= L /\ i \in Nat /\ i <= w + per /\ i >= w + 1
      BY <1>1, <1>3, <3>1, <3>4, <3>5
    <3>6. hi(k) >= i
      BY <3>4, <3>5a, <3>5b
    <3>7. j \in 1 .. Len(chunk(k)) /\ lo(k) + j - 1 = i
      <4>1. Len(chunk(k)) = hi(k) - (w + 1) + 1
        BY <3>4, <3>5a, <3>5b, <3>6
      <4> QED BY <3>4, <3>5a, <3>5b, <3>6, <4>1
    <3>8. j <= goes
      BY <1>1, <1>4, <1>8, <3>1, <3>4, <3>5
    <3>9. chunk(k)[j] = r[i]
      <4>1. chunk(k)[j] = r[lo(k) + j - 1]
        BY <1>5, <3>4, <3>7
      <4> QED BY <3>7, <4>1
    <3> HIDE DEF j
    <3>10. r[i] \in ToSet(taken(k))
      BY <1>6, <3>4, <3>7, <3>8, <3>9
    <3> QED BY <1>2, <3>4, <3>10
  <2> QED BY <2>1, <2>2, <2>3
<1> QED BY <1>7, <1>8, BlobBytes DEF r

-----------------------------------------------------------------------------
(* WeightsExact.                                                           *)

\* What a node's snapshot and the model's own files give back is the source's
\* bytes, all of them or an error; a packed directory that loads gives every
\* expert its own bytes if its manifest is of the file count the files were
\* begun with last, the location a torn manifest ends with apart, and some
\* expert's whole bytes if a repack for another count was cut off over it: for
\* every number of layers and experts, file size, file count and budget, after
\* any passes cut off anywhere.
THEOREM WeightsAlwaysExact == AllSpec => []WeightsExact
<1>1. ASSUME ShipInv, PackInv PROVE WeightsExact
  <2>1. in.n_experts \in Nat
    BY <1>1 DEF ShipInv
  <2>2. PreloadExact
    <3> SUFFICES ASSUME NEW n \in FileCounts, NEW b \in LoadBudgets
                 PROVE  LET got == preload_parallel(n, b)
                        IN  /\ Cardinality(got) * blob_bytes <= b + n * blob_bytes
                            /\ b >= n * Len(Routed) * blob_bytes => got = ToSet(Routed)
      BY DEF PreloadExact
    <3>1. n \in Nat \ {0} /\ b \in Nat
      BY ShippingAssumption
    <3> QED BY <2>1, <3>1, PreloadReads
  <2> QED BY <1>1, <2>2, ShardReads, PackReads DEF WeightsExact
<1> QED BY <1>1, ShipInvariance, PTL
=============================================================================
