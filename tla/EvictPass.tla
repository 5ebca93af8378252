------------------------------ MODULE EvictPass ------------------------------
(***************************************************************************)
(* State::evict_to_protecting of colibri-engine/src/cache.rs, loop by      *)
(* loop: rank the evictable entries once, then remove them in that order   *)
(* until the rest fits.  The comment in the code argues that this removes  *)
(* the same experts as the repeated-minimum scan it replaced; the module   *)
(* shows that, for every cache content, budget and clock, and that the     *)
(* outcome is what Eviction states.                                        *)
(***************************************************************************)
EXTENDS Eviction, SequencesExt

VARIABLES age,        \* key -> accesses since its last use, fewer than W (history)
          heat,       \* key -> Entry::heat
          now,        \* State::clock, anywhere on the wrapped circle
          kept,       \* pinned and protected keys
          limit,      \* the argument
          victims,    \* the sorted list
          next,       \* index of the loop in it
          left,       \* keys still in the map
          size        \* State::bytes

passVars == <<age, heat, now, kept, limit, victims, next, left, size>>
input == <<age, heat, now, kept, limit, victims>>

last == [k \in Keys |-> (now - age[k]) % W]
ents == [k \in Keys |-> [heat |-> heat[k], last |-> last[k]]]
Score(k) == evict_score(heat[k], last[k], now)

\* sort_unstable_by_key: ascending, equal scores in any order.
Sorted(s) == \A i, j \in DOMAIN s : i < j => Score(s[i]) <= Score(s[j])

\* Any cache content, and the ranking of its evictable entries.
PassInit ==
  /\ age \in [Keys -> 0 .. W - 1]
  /\ heat \in [Keys -> Nat]
  /\ now \in 0 .. W - 1
  /\ kept \in SUBSET Keys
  /\ limit \in Nat
  /\ left = Keys
  /\ size = Weigh[Keys]
  /\ victims \in SetToSeqs(Keys \ kept)
  /\ Sorted(victims)
  /\ next = 1

\* Mutant: the test reads the budget as a strict bound.
RemoveVictim_Strict ==
  /\ next <= Len(victims)
  /\ size >= limit
  /\ left' = left \ {victims[next]}
  /\ size' = size - Weigh[{victims[next]}]
  /\ next' = next + 1
  /\ UNCHANGED input

\* One turn of the loop: over budget, so the next victim leaves the map.
RemoveVictim ==
  /\ next <= Len(victims)
  /\ size > limit
  /\ left' = left \ {victims[next]}
  /\ size' = size - Weigh[{victims[next]}]
  /\ next' = next + 1
  /\ UNCHANGED input

PassNext == RemoveVictim

PassSpec == PassInit /\ [][PassNext]_passVars

Done == next > Len(victims) \/ size <= limit

-----------------------------------------------------------------------------
\* When the loop ends it has removed one of the sets Eviction declares for
\* this input; the cache model evicts those sets in one step.
OutcomeIsDeclared ==
  Done => (Keys \ left) \in
             VictimSets(ents, Keys \ kept, now, Weigh[Keys], limit)

\* The comment in evict_score, "so a wrapped clock still orders correctly":
\* wherever the clock stands, no expert is evicted while an evictable one that
\* has been idle for longer stays.
LeastRecentlyUsedFirst ==
  \A k \in Keys \ left, j \in left \ kept : age[k] >= age[j]
=============================================================================
