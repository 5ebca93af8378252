--------------------------- MODULE MC_ExpertCache ---------------------------
(***************************************************************************)
(* Small instances of the two machines of cache.rs, side by side: a        *)
(* behaviour runs the threads over one cache, or one eviction pass alone.  *)
(*                                                                         *)
(* The cache: two experts of sizes 4 and 3; the smaller budget does not    *)
(* hold the first one, and 80% of PinBudget holds just that one.  One      *)
(* thread runs start-up's pin_ranked and then pins, the other prefetches   *)
(* its layers and fetches experts, while the loader, the monitor and       *)
(* reserve_ram run.  With W = 1 all ages are equal: any unpinned expert    *)
(* may be the victim, so every eviction order is covered.                  *)
(*                                                                         *)
(* The pass: three experts of sizes 4, 3 and 3; the clock wraps at 4, so   *)
(* ages 0 to 2 straddle the wrap from every position; heat 1 is below the  *)
(* cap of 2 and heat 3 past it.                                            *)
(***************************************************************************)
EXTENDS ExpertCache, FiniteSetsExt, TLC

CONSTANTS k1, k2, k3, f1, f2, bg

Size == k1 :> 4 @@ k2 :> 3 @@ k3 :> 3
Weights(keys) == [S \in SUBSET keys |-> MapThenSumSet(LAMBDA k : Size[k], S)]

MCKeys    == {k1, k2}
MCWeigh   == Weights(MCKeys)
MCRanked  == <<k1, k2>>
MCBudgets == {3, 7}
MCWorkers == {f1, f2}
MCOps     == f1 :> {"rank", "pin"} @@ f2 :> {"expert", "prefetch"}
MCBatches == {{k1, k2}}

PassKeys == {k1, k2, k3}

VARIABLES machine, age, heat, now, kept, limit, victims, next, left, size

passState == <<age, heat, now, kept, limit, victims, next, left, size>>

Pass == INSTANCE EvictPass WITH Keys <- PassKeys, Weigh <- Weights(PassKeys),
                                W <- 4, HeatCap <- 2

\* The inputs of the pass: a single one while the cache runs.
PassInput ==
  IF machine = "pass"
  THEN /\ age \in [PassKeys -> 0 .. 2] /\ heat \in [PassKeys -> {1, 3}] /\ now \in 0 .. 3
       /\ limit \in {0, 3, 4, 6, 7, 10}
  ELSE /\ age = [k \in PassKeys |-> 0] /\ heat = [k \in PassKeys |-> 1] /\ now = 0
       /\ limit = 10 /\ kept = PassKeys

CacheOrPassInit ==
  /\ machine \in {"cache", "pass"}
  /\ Init /\ (machine = "pass" => budget = 3)
  /\ PassInput /\ Pass!PassInit

CacheStep == machine = "cache" /\ Next /\ UNCHANGED <<machine, passState>>
PassStep  == machine = "pass" /\ Pass!PassNext /\ UNCHANGED <<machine, vars>>

\* The pass ends.
PassOver == machine = "pass" /\ Pass!Done /\ UNCHANGED <<machine, vars, passState>>

CacheOrPass ==
  /\ CacheOrPassInit
  /\ [][CacheStep \/ PassStep \/ PassOver]_<<machine, vars, passState>>
  /\ Fairness

-----------------------------------------------------------------------------
\* The pass removes one of the sets the cache evicts in one step
\* (State::evict_to_protecting), and the least recently used go first wherever
\* the clock of evict_score stands.
OutcomeIsDeclared      == machine = "pass" => Pass!OutcomeIsDeclared
LeastRecentlyUsedFirst == machine = "pass" => Pass!LeastRecentlyUsedFirst
=============================================================================
