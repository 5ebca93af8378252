---------------------------- MODULE MC_Sharding ----------------------------
(***************************************************************************)
(* Up to three nodes and five experts.  Capacities 0, 1 and 3 give shares  *)
(* that divide evenly, tie in their remainders, and vanish.  Models of two *)
(* and three experts in two layers are shipped to a node or repacked, in   *)
(* two passes: a file holds two experts and a resident tensor, and the     *)
(* budgets load one expert of a file, some of them and all.                *)
(***************************************************************************)
EXTENDS Shipping

MCNodeCounts   == 1 .. 3
MCExpertCounts == 1 .. 5
MCCapacities   == {0, 1, 3}
MCWeights      == 0 .. 3
MCLayers       == 2
MCShipCounts   == {2, 3}
MCMaxFile      == 5
MCFileCounts   == 1 .. 3
MCLoadBudgets  == {0, 5, 100}
MCMaxPasses    == 2
=============================================================================
