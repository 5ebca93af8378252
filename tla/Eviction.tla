------------------------------ MODULE Eviction ------------------------------
(***************************************************************************)
(* Which experts an eviction pass of the cache removes: the score of       *)
(* colibri-core/src/tier.rs and the outcome of State::evict_to_protecting. *)
(* The outcome is stated without the loop: EvictPass shows that the loop   *)
(* over the sorted list produces exactly these sets.                       *)
(***************************************************************************)
EXTENDS Integers, FiniteSets

CONSTANTS Keys,      \* (layer, eid) pairs
          Weigh,     \* set of keys -> bytes of those experts together
          W,         \* 2^32, where the access clock wraps
          HeatCap    \* 0xffff, the heat that fits in the score

ASSUME EvictionAssumption ==
  /\ IsFiniteSet(Keys)
  /\ Weigh \in [SUBSET Keys -> Nat]
  /\ Weigh[{}] = 0
  /\ \A A, B \in SUBSET Keys :
       A \cap B = {} => Weigh[A \cup B] = Weigh[A] + Weigh[B]
  /\ W \in Nat \ {0} /\ HeatCap \in Nat

\* Mutant: the raw timestamp instead of the age, which a wrapped clock breaks.
evict_score_RawLast(heat, last, clock) ==
  last * (HeatCap + 1) + (IF heat < HeatCap THEN heat ELSE HeatCap)

\* Recency in the high bits, heat, capped, in the low ones; the age is a
\* wrapping subtraction.  The lowest score goes first.
evict_score(heat, last, clock) ==
  LET age     == (clock - last) % W
      recency == (W - 1) - age
  IN  recency * (HeatCap + 1) + (IF heat < HeatCap THEN heat ELSE HeatCap)

\* The victims of one pass when the map `ents` holds `held` bytes and `cand`
\* may be evicted: taken by ascending score, ties in any order, until the rest
\* fits in b or none is left.
VictimSets(ents, cand, clock, held, b) ==
  LET score(k) == evict_score(ents[k].heat, ents[k].last, clock)
  IN  {V \in SUBSET cand :
         /\ \A v \in V, c \in cand \ V : score(v) <= score(c)
         /\ V = cand \/ held - Weigh[V] <= b
         /\ \/ V = {}
            \/ \E v \in V : /\ \A u \in V : score(u) <= score(v)
                            /\ held - Weigh[V \ {v}] > b}
=============================================================================
