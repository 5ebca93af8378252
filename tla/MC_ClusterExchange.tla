------------------------- MODULE MC_ClusterExchange -------------------------
(***************************************************************************)
(* A driver and two workers, one head each and one expert or two; the      *)
(* other map swaps the workers' experts.  The two routes give worker 1     *)
(* different work, so an answer to another call is told apart.             *)
(***************************************************************************)
EXTENDS ClusterExchange, TLC

CONSTANTS e0, e1, e2, e3, h0, h1, h2

MCExperts   == {e0, e1, e2, e3}
MCHeads     == {h0, h1, h2}
MCPeers     == {1, 2}
MCDriverMap == e0 :> 0 @@ e1 :> 1 @@ e2 :> 2 @@ e3 :> 1
SwappedMap  == e0 :> 0 @@ e1 :> 2 @@ e2 :> 1 @@ e3 :> 2
MCMaps      == {MCDriverMap, SwappedMap}
MCHeadMap   == h0 :> 0 @@ h1 :> 1 @@ h2 :> 2
MCRoutes    == {{e0, e1, e2}, {e3}}
=============================================================================
