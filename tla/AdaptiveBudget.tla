--------------------------- MODULE AdaptiveBudget ---------------------------
(***************************************************************************)
(* The budget monitor of the expert cache and the reservations a request   *)
(* makes against it: spawn_adaptive_budget, reserve_ram and release_ram of *)
(* colibri-engine/src/cache.rs, with serve.rs as the caller.  Memory is    *)
(* counted in units of one expert.  The cache is its byte count alone:     *)
(* ExpertCache models the entries, and AUTOPIN is off.                     *)
(*                                                                         *)
(* MemAvailable is what the cache, the request's KV cache and everything   *)
(* else on the machine leave; the rest of the machine may change at any    *)
(* moment, which also stands for evicted pages that come back late.  The   *)
(* module has the monitor's and reserve_ram's steps; Serve composes them   *)
(* with the server that starts the one and calls the other.                *)
(***************************************************************************)
EXTENDS Integers

CONSTANTS Mem,                  \* MemTotal
          Others,               \* what the rest of the machine may use
          FirstBudget,          \* the budget the cache is created with
          Plan,                 \* the fill_target argument
          DangerArg, HardArg,   \* danger_floor and hard_floor arguments
          FLOOR_MIN, HARD_SLACK, SUSTAIN,
          BRAKE_TICKS, MAX_BRAKE, CAP_RECOVER_PER_TICK, MAX_PASSES,
          MaxBatch              \* experts in the largest batch of a layer

ASSUME BudgetAssumption ==
  /\ Mem \in Nat /\ Others \subseteq Nat
  /\ FirstBudget \in Nat /\ Plan \in Nat /\ DangerArg \in Nat /\ HardArg \in Nat
  /\ FLOOR_MIN \in Nat \ {0} /\ HARD_SLACK \in Nat /\ SUSTAIN \in Nat \ {0}
  /\ BRAKE_TICKS \in Nat /\ MAX_BRAKE \in Nat /\ CAP_RECOVER_PER_TICK \in Nat
  /\ MAX_PASSES \in Nat \ {0} /\ MaxBatch \in Nat \ {0}

VARIABLES
  bytes,        \* State::bytes
  budget,       \* AtomicU64 budget
  reserved,     \* AtomicU64 reserved
  other,        \* memory of everything but the cache and the KV cache
  kv,           \* memory of the request's KV cache
  mon,          \* the monitor: pc, learned_cap, low_ticks, prev_avail and the
                \* locals of the tick
  req           \* the request: pc, its bytes, the reading and the passes

cacheVars == <<bytes, budget, reserved, other, kv, mon, req>>

Hi(a, b) == IF a >= b THEN a ELSE b
Lo(a, b) == IF a <= b THEN a ELSE b

\* u64::saturating_sub.
SatSub(a, b) == IF a >= b THEN a - b ELSE 0

fill_target  == Hi(Plan, FLOOR_MIN)
hard_floor   == Hi(HardArg, FLOOR_MIN)
danger_floor == Hi(DangerArg, hard_floor)

\* available_ram_bytes, were it read now.
avail == SatSub(Mem, bytes + other + kv)

braking_floor(drop) == hard_floor + Lo(drop * BRAKE_TICKS, MAX_BRAKE)
cap_margin == hard_floor + MAX_BRAKE \div 2
supported_cap(resident, free) == SatSub(resident + free, cap_margin)
recover_cap(cap) == Lo(cap + CAP_RECOVER_PER_TICK, fill_target)

\* The monitor between two ticks.
NoTick == [avail |-> 0, floor |-> 0, resident |-> 0, target |-> 0, evict |-> FALSE]
Decided(target, evict) == [NoTick EXCEPT !.target = target, !.evict = evict]
Idle   == [pc |-> "idle", bytes |-> 0, now |-> 0, passes |-> 0]

BudgetInit ==
  /\ bytes = 0
  /\ other \in Others
  /\ kv = 0
  /\ budget = FirstBudget
  /\ reserved = 0
  /\ mon = [pc |-> "sleep", low_ticks |-> 0, prev_avail |-> SatSub(Mem, other),
            learned_cap |-> Lo(fill_target,
                               Hi(supported_cap(0, SatSub(Mem, other)), FLOOR_MIN)),
            tick |-> NoTick]
  /\ req = Idle

-----------------------------------------------------------------------------
(* The monitor's tick.                                                     *)

\* Wake, read MemAvailable, and take the drop since the last tick, which sets the
\* rate-aware floor, before any branch can leave the loop body.
TickRead ==
  /\ mon.pc = "sleep"
  /\ mon' = [mon EXCEPT !.pc = "resident", !.prev_avail = avail,
                        !.tick.avail = avail,
                        !.tick.floor = braking_floor(SatSub(mon.prev_avail, avail))]
  /\ UNCHANGED <<bytes, budget, reserved, other, kv, req>>

\* Lock the cache and read what it holds.
TickResident ==
  /\ mon.pc = "resident"
  /\ mon' = [mon EXCEPT !.pc = "decide", !.tick.resident = bytes]
  /\ UNCHANGED <<bytes, budget, reserved, other, kv, req>>

\* Swap guard: more is paged out than at start-up (plus tolerance).  A quarter
\* of what is resident goes; an eviction removes whole experts, so in units of
\* one expert the target is rounded down.
DecideSwap ==
  /\ mon.pc = "decide"
  /\ LET target == Hi(Lo((3 * mon.tick.resident) \div 4, budget), FLOOR_MIN)
     IN mon' = [mon EXCEPT !.pc = "store", !.low_ticks = 0, !.tick = Decided(target, TRUE)]
  /\ UNCHANGED <<bytes, budget, reserved, other, kv, req>>

floor_now == mon.tick.floor

\* The budget the OOM guard cuts to: the shortfall and some slack below what
\* is resident.
GuardTarget ==
  Hi(SatSub(mon.tick.resident, (floor_now - mon.tick.avail) + HARD_SLACK), FLOOR_MIN)

\* OOM guard: MemAvailable is below the rate-aware floor.  The cut becomes the
\* learned cap.
DecideGuard ==
  /\ mon.pc = "decide"
  /\ mon.tick.avail < floor_now
  /\ mon' = [mon EXCEPT !.pc = "store", !.low_ticks = 0, !.learned_cap = GuardTarget,
                        !.tick = Decided(GuardTarget, TRUE)]
  /\ UNCHANGED <<bytes, budget, reserved, other, kv, req>>

\* Consecutive ticks below the danger floor, counted up to SUSTAIN.
LowTicks ==
  IF mon.tick.avail < danger_floor THEN Lo(mon.low_ticks + 1, SUSTAIN) ELSE 0

\* The learned cap of a tick without emergency: never more than memory now
\* supports, and earned back slowly while it binds.
NextCap ==
  LET cap == Hi(Lo(mon.learned_cap,
                   supported_cap(mon.tick.resident, mon.tick.avail)), FLOOR_MIN)
  IN  IF /\ mon.tick.avail > danger_floor
         /\ mon.tick.resident + CAP_RECOVER_PER_TICK >= cap
      THEN recover_cap(cap) ELSE cap

\* Cede gradually under sustained pressure, else hold the cap less what
\* requests have reserved.
SoftTarget ==
  IF LowTicks >= SUSTAIN
  THEN Hi(SatSub(mon.tick.resident, danger_floor - mon.tick.avail), FLOOR_MIN)
  ELSE Hi(SatSub(NextCap, reserved), FLOOR_MIN)

\* Mutant: the soft path leaves the eviction to the next insert.
DecideSoft_NoEvict ==
  /\ mon.pc = "decide"
  /\ mon.tick.avail >= floor_now
  /\ mon' = [mon EXCEPT !.pc = "store", !.low_ticks = LowTicks, !.learned_cap = NextCap,
                        !.tick = Decided(SoftTarget, FALSE)]
  /\ UNCHANGED <<bytes, budget, reserved, other, kv, req>>

\* The soft path evicts only if its target is below the resident bytes read
\* earlier in the tick.
DecideSoft ==
  /\ mon.pc = "decide"
  /\ mon.tick.avail >= floor_now
  /\ mon' = [mon EXCEPT !.pc = "store", !.low_ticks = LowTicks, !.learned_cap = NextCap,
                        !.tick = Decided(SoftTarget, SoftTarget < mon.tick.resident)]
  /\ UNCHANGED <<bytes, budget, reserved, other, kv, req>>

\* Mutant: eviction is left to the next insert.
TickStore_NoEvict ==
  /\ mon.pc = "store"
  /\ budget' = mon.tick.target
  /\ mon' = [mon EXCEPT !.pc = "sleep", !.tick = NoTick]
  /\ UNCHANGED <<bytes, reserved, other, kv, req>>

\* Store the budget, then evict down to it where the path does.
TickStore ==
  /\ mon.pc = "store"
  /\ budget' = mon.tick.target
  /\ mon' = IF mon.tick.evict THEN [mon EXCEPT !.pc = "evict"]
            ELSE [mon EXCEPT !.pc = "sleep", !.tick = NoTick]
  /\ UNCHANGED <<bytes, reserved, other, kv, req>>

TickEvict ==
  /\ mon.pc = "evict"
  /\ bytes' = Lo(bytes, mon.tick.target)
  /\ mon' = [mon EXCEPT !.pc = "sleep", !.tick = NoTick]
  /\ UNCHANGED <<budget, reserved, other, kv, req>>

Monitor == \/ TickRead \/ TickResident \/ DecideSwap \/ DecideGuard \/ DecideSoft
           \/ TickStore \/ TickEvict

-----------------------------------------------------------------------------
(* reserve_ram.                                                            *)

need == req.bytes + hard_floor
Granted == [Idle EXCEPT !.pc = "granted", !.bytes = req.bytes]

ReserveAdd(b) ==
  /\ req.pc = "idle"
  /\ reserved' = reserved + b
  /\ req' = [Idle EXCEPT !.pc = "check", !.bytes = b]
  /\ UNCHANGED <<bytes, budget, other, kv, mon>>

ReserveCheck ==
  /\ req.pc = "check"
  /\ req' = IF avail >= need THEN Granted ELSE [req EXCEPT !.pc = "measure"]
  /\ UNCHANGED <<bytes, budget, reserved, other, kv, mon>>

\* A pass starts with a fresh reading; after MAX_PASSES the loop ends.
ReserveMeasure ==
  /\ req.pc = "measure"
  /\ req' = IF req.passes >= MAX_PASSES \/ avail >= need
            THEN [req EXCEPT !.pc = "final"]
            ELSE [req EXCEPT !.pc = "evict", !.now = avail]
  /\ UNCHANGED <<bytes, budget, reserved, other, kv, mon>>

ReserveTarget == Hi(SatSub(bytes, need - req.now), FLOOR_MIN)

\* Mutant: the passes are not counted.
ReserveEvict_Uncounted ==
  /\ req.pc = "evict"
  /\ IF ReserveTarget >= bytes
     THEN req' = [req EXCEPT !.pc = "final"] /\ UNCHANGED <<bytes, budget>>
     ELSE /\ bytes' = ReserveTarget
          /\ budget' = ReserveTarget
          /\ req' = [req EXCEPT !.pc = "measure", !.now = 0]
  /\ UNCHANGED <<reserved, other, kv, mon>>

\* One pass, under the lock: evict the remainder and store it as the budget,
\* or stop at the floor.
ReserveEvict ==
  /\ req.pc = "evict"
  /\ IF ReserveTarget >= bytes
     THEN req' = [req EXCEPT !.pc = "final"] /\ UNCHANGED <<bytes, budget>>
     ELSE /\ bytes' = ReserveTarget
          /\ budget' = ReserveTarget
          /\ req' = [req EXCEPT !.pc = "measure", !.now = 0, !.passes = @ + 1]
  /\ UNCHANGED <<reserved, other, kv, mon>>

\* Mutant: a refused reservation is not rolled back.
ReserveFinal_NoRollback ==
  /\ req.pc = "final"
  /\ req' = IF avail >= need THEN Granted ELSE Idle
  /\ UNCHANGED <<bytes, budget, reserved, other, kv, mon>>

\* Decide on a fresh reading; on failure roll the reservation back.
ReserveFinal ==
  /\ req.pc = "final"
  /\ IF avail >= need
     THEN req' = Granted /\ UNCHANGED reserved
     ELSE req' = Idle /\ reserved' = SatSub(reserved, req.bytes)
  /\ UNCHANGED <<bytes, budget, other, kv, mon>>

ReserveStep == \/ ReserveCheck \/ ReserveMeasure \/ ReserveEvict \/ ReserveFinal

-----------------------------------------------------------------------------
(* The cache's insert path and the rest of the machine.                    *)

\* Insert d experts and evict the others down to `budget`: load_batch
\* protects the batch itself, fetch (d = 1) does not.
Insert(d) ==
  /\ bytes' = IF bytes + d <= budget THEN bytes + d ELSE Hi(budget, d)
  /\ UNCHANGED <<budget, reserved, other, kv, mon, req>>

OthersMove ==
  /\ other' \in Others \ {other}
  /\ UNCHANGED <<bytes, budget, reserved, kv, mon, req>>

-----------------------------------------------------------------------------
(* Properties.                                                             *)

\* spawn_adaptive_budget's doc, "between ticks the cache never grows past the
\* last value we set": a tick compares its target with the bytes it read
\* before, so an insert in between lets it publish a budget the cache already
\* exceeds and evict nothing.  Such an excess never stays: a later tick or
\* insert brings the cache down to the budget, or to a batch that is alone.
BudgetTakesHold == bytes > budget ~> (bytes <= budget \/ bytes <= MaxBatch)

\* The doc of spawn_adaptive_budget, "continuously evict LRU experts so
\* MemAvailable never crosses hard_floor": whenever memory is below the hard
\* floor, the monitor gets it back above or cuts the cache to the floor,
\* whatever the rest of the machine takes and the insert path adds meanwhile.
GuardRecovers ==
  avail < hard_floor ~> (avail >= hard_floor \/ bytes <= Hi(FLOOR_MIN, MaxBatch))
=============================================================================
