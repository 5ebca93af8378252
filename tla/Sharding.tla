------------------------------ MODULE Sharding ------------------------------
(***************************************************************************)
(* Which node owns which expert: ExpertSharding of                         *)
(* colibri-cluster/src/sharding.rs, its three constructors and the         *)
(* closed-form queries, and head_slice of attention.rs.                    *)
(*                                                                         *)
(* Every node of a cluster builds the map for itself from the same inputs, *)
(* which are chosen first.  The greedy constructors place one expert per    *)
(* step.  Weights and capacities are sums of token counts and bytes far    *)
(* from the limits of u64, so they are natural numbers here.               *)
(***************************************************************************)
EXTENDS Integers, FiniteSets, Functions

CONSTANTS NodeCounts, ExpertCounts,  \* values of num_nodes and n_experts
          Capacities,                \* values of capacity[n]
          Weights                    \* values of weights[e]

ASSUME ShardingAssumption ==
  /\ NodeCounts \subseteq Nat \ {0} /\ ExpertCounts \subseteq Nat \ {0}
  /\ Capacities \subseteq Nat /\ Weights \subseteq Nat

VARIABLES
  in,      \* the arguments: kind of map, num_nodes, n_experts, capacity, weights
  phase,   \* quota, place or done
  quota,   \* node -> how many experts it may own
  used,    \* node -> how many it owns so far
  load,    \* node -> their weight
  table    \* experts placed so far -> their node

vars == <<in, phase, quota, used, load, table>>

Nodes   == 0 .. in.num_nodes - 1
Experts == 0 .. in.n_experts - 1

-----------------------------------------------------------------------------
(* The contiguous map: owner and range_for without a table.                *)

div_ceil(a, b) == (a + b - 1) \div b

\* ExpertSharding::new: the block expert e is in.
contiguous(e, nodes, n_experts) == (e * nodes) \div n_experts

block_owner(e) == contiguous(e, in.num_nodes, in.n_experts)

\* Mutant: the range is inverted with a floor.
range_for_Floor(n) ==
  {e \in Experts : /\ (n * in.n_experts) \div in.num_nodes <= e
                   /\ e < ((n + 1) * in.n_experts) \div in.num_nodes}

\* The half-open range of experts that node n owns.
range_for(n) ==
  {e \in Experts : /\ div_ceil(n * in.n_experts, in.num_nodes) <= e
                   /\ e < div_ceil((n + 1) * in.n_experts, in.num_nodes)}

\* The attention heads node n computes, n_experts standing for the head count.
head_slice(n) ==
  LET base == in.n_experts \div in.num_nodes
      rem  == in.n_experts % in.num_nodes
      lo   == n * base + (IF n < rem THEN n ELSE rem)
  IN  lo .. lo + base - (IF n < rem THEN 0 ELSE 1)

-----------------------------------------------------------------------------
(* The constructors.                                                       *)

PlaceInit ==
  \E kind \in {"contiguous", "balanced", "capacity"},
     N \in NodeCounts, E \in ExpertCounts :
  \E capacity \in (IF kind = "capacity" THEN [0 .. N - 1 -> Capacities]
                                        ELSE {[n \in 0 .. N - 1 |-> 0]}),
     weights \in (IF kind = "contiguous" THEN {[e \in 0 .. E - 1 |-> 0]}
                                         ELSE [0 .. E - 1 -> Weights]) :
    /\ in = [kind |-> kind, num_nodes |-> N, n_experts |-> E,
             capacity |-> capacity, weights |-> weights]
    \* balanced is contiguous on one node; capacity_weighted is balanced
    \* without a capacity to weigh by.
    /\ phase = IF kind = "contiguous" \/ N = 1 THEN "done"
               ELSE IF SumFunction(capacity) = 0 THEN "place" ELSE "quota"
    /\ quota = [n \in 0 .. N - 1 |-> E]
    /\ used = [n \in 0 .. N - 1 |-> 0]
    /\ load = [n \in 0 .. N - 1 |-> 0]
    /\ table = <<>>

Exact(n) == in.capacity[n] * in.n_experts
Total    == SumFunction(in.capacity)

Floor(n) == Exact(n) \div Total

Remainder(n) == Exact(n) % Total

\* The order of `rem`: biggest remainder first, ties by node id.
BeforeInRem(m, n) ==
  Remainder(m) > Remainder(n) \/ (Remainder(m) = Remainder(n) /\ m < n)

\* Mutant: the experts left over by the floors are not handed out.
Quotas_FloorOnly ==
  /\ phase = "quota"
  /\ quota' = [n \in Nodes |-> Floor(n)]
  /\ phase' = "place"
  /\ UNCHANGED <<in, used, load, table>>

\* Largest remainders: the floors, and one more for the first of `rem`, as
\* many as are left over.
Quotas ==
  /\ phase = "quota"
  /\ LET assigned == SumFunction([n \in Nodes |-> Floor(n)])
         rank(n)  == Cardinality({m \in Nodes : BeforeInRem(m, n)})
     IN quota' = [n \in Nodes |->
                    Floor(n) + (IF rank(n) < in.n_experts - assigned THEN 1 ELSE 0)]
  /\ phase' = "place"
  /\ UNCHANGED <<in, used, load, table>>

Unplaced == Experts \ DOMAIN table

\* The placement order: heaviest first, ties by expert id.
BeforeInOrder(d, e) ==
  in.weights[d] > in.weights[e] \/ (in.weights[d] = in.weights[e] /\ d <= e)

\* Nodes under their quota; balanced has no quota.
Open == {n \in Nodes : Total = 0 \/ used[n] < quota[n]}

Lighter(m, n) == load[m] < load[n] \/ (load[m] = load[n] /\ m <= n)

\* Place the next expert on the lightest open node.
Place ==
  /\ phase = "place" /\ Unplaced # {} /\ Open # {}
  /\ \E e \in Unplaced, n \in Open :
       /\ \A d \in Unplaced : BeforeInOrder(e, d)
       /\ \A m \in Open : Lighter(n, m)
       /\ table' = [d \in DOMAIN table \cup {e} |-> IF d = e THEN n ELSE table[d]]
       /\ used' = [used EXCEPT ![n] = @ + 1]
       /\ load' = [load EXCEPT ![n] = @ + in.weights[e]]
  /\ UNCHANGED <<in, phase, quota>>

Finish ==
  /\ phase = "place" /\ Unplaced = {}
  /\ phase' = "done"
  /\ UNCHANGED <<in, quota, used, load, table>>

Next == Quotas \/ Place \/ Finish


\* The map in use: the table, or the blocks when there is none.
owner(e) == IF table = <<>> THEN block_owner(e) ELSE table[e]

count_for(n) == Cardinality({e \in Experts : owner(e) = n})

-----------------------------------------------------------------------------
(* Properties.                                                             *)

\* Every variable ranges over its type, and the table places an expert on a
\* node of the cluster.
TypeOK ==
  /\ phase \in {"quota", "place", "done"}
  /\ quota \in [Nodes -> 0 .. in.n_experts] /\ used \in [Nodes -> 0 .. in.n_experts]
  /\ load \in [Nodes -> Nat]
  /\ DOMAIN table \subseteq Experts /\ \A e \in DOMAIN table : table[e] \in Nodes

\* "quotas sum to n_experts, so one node is always under quota": the lookup
\* that unwraps with this message finds a node, whatever the rounding of the
\* shares.  And the doc of capacity_weighted: in the end a node's count is its
\* exact share rounded up or down, so without capacity it owns nothing, and a
\* roomier node never owns fewer experts.
PlacementFollowsCapacity ==
  /\ phase = "place" /\ Unplaced # {} => Open # {}
  /\ phase = "done" /\ table # <<>> /\ Total > 0 =>
       /\ \A n \in Nodes : /\ Exact(n) - Total < count_for(n) * Total
                           /\ count_for(n) * Total < Exact(n) + Total
       /\ \A m, n \in Nodes :
            in.capacity[m] > in.capacity[n] => count_for(m) >= count_for(n)

\* Without a table the ranges are the blocks the owner formula gives, and the
\* head slices tile the heads in parts that differ by at most one.
BlocksTile ==
  in.kind = "contiguous" =>
    /\ \A n \in Nodes : range_for(n) = {e \in Experts : block_owner(e) = n}
    /\ \A e \in Experts : Cardinality({n \in Nodes : e \in head_slice(n)}) = 1
    /\ \A n \in Nodes : head_slice(n) \subseteq Experts
    /\ \A m, n \in Nodes : Cardinality(head_slice(m)) <= Cardinality(head_slice(n)) + 1
=============================================================================
