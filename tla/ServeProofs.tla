----------------------------- MODULE ServeProofs -----------------------------
(***************************************************************************)
(* For every machine, window, set of requests and ceiling, and however the *)
(* monitor, the insert path, signals and other tenants interleave with the *)
(* server thread: a request's memory is accounted for and given back on    *)
(* every path, and no unsigned subtraction of reserve_ram or of the        *)
(* completion wraps.                                                       *)
(*                                                                         *)
(* ReservationsBalance alone is not inductive.  RequestControl adds where  *)
(* reserve_ram stands at each stage of the server, that the request in     *)
(* hand has asked for its prompt's KV cache and not for another one, and   *)
(* that release_ram's load is still current at its store.                  *)
(***************************************************************************)
EXTENDS Serve, TLAPS

\* The stages of a request after reserve_ram has granted it.
InHand == {"rigid", "commit", "prefill", "generate", "drop", "uncommit", "release",
           "subtract"}

Tick == [avail : Nat, floor : Nat, resident : Nat, target : Nat, evict : BOOLEAN]

Stage == Starting \cup {"loop", "poll", "read", "reserve", "exit"} \cup InHand
Request == [kind : {"probe", "bad", "post"}, prompt : Nat, max : Nat \ {0}]

Reservation == [pc : {"idle", "check", "measure", "evict", "final", "granted"},
                bytes : Nat, now : Nat, passes : Nat]

TypeOK ==
  /\ bytes \in Nat /\ budget \in Nat /\ reserved \in Nat /\ other \in Nat
  /\ kv \in Nat /\ kvc \in Nat /\ shutdown \in BOOLEAN
  /\ mon \in [pc : {"sleep", "resident", "decide", "store", "evict"}, low_ticks : Nat,
              prev_avail : Nat, learned_cap : Nat, tick : Tick]
  /\ req \in Reservation
  /\ srv \in [pc : Stage, q : Request, n : Nat, held : BOOLEAN]

RequestControl ==
  /\ req.pc = "idle" => req.bytes = 0
  /\ req.pc # "idle" => req.bytes = bytes_for(srv.q.prompt)
  /\ srv.pc \in InHand => req.pc = "granted"
  /\ srv.pc \notin InHand \cup {"reserve"} => req.pc = "idle"
  /\ srv.pc \in InHand \cup {"reserve"} => srv.q.prompt > 0 /\ srv.q.prompt < CtxLen
  /\ srv.pc = "subtract" => req.now = reserved
  /\ kv > 0 => srv.pc \in {"warming", "generate", "drop"}
  /\ req.pc = "evict" => req.now < need

\* A subtraction the code writes with a plain minus on unsigned integers:
\* reserve_ram's shortfall against the reading its pass took before the lock,
\* the room left in the window, and the commitment a request gives back.
NoUnsignedWrap ==
  /\ req.pc = "evict" => req.now <= need
  /\ srv.pc = "generate" => srv.q.prompt <= CtxLen
  /\ srv.pc = "uncommit" => req.bytes <= kvc

-----------------------------------------------------------------------------
(* The operators.                                                          *)

\* The minimum, the maximum and the saturating difference of two counts are
\* counts, and giving back all of a count leaves nothing.
LEMMA Counts ==
  ASSUME NEW a \in Nat, NEW b \in Nat
  PROVE  Hi(a, b) \in Nat /\ Lo(a, b) \in Nat /\ SatSub(a, b) \in Nat /\ SatSub(a, a) = 0
BY DEF Hi, Lo, SatSub

\* The floors and the fill target of the monitor are counts.
LEMMA Floors == fill_target \in Nat /\ hard_floor \in Nat /\ danger_floor \in Nat
BY BudgetAssumption, Counts DEF fill_target, hard_floor, danger_floor, Hi

\* The braking floor and the margin below the learned cap are counts.
LEMMA Margins ==
  ASSUME NEW d \in Nat
  PROVE  braking_floor(d) \in Nat /\ cap_margin \in Nat
<1>1. d * BRAKE_TICKS \in Nat
  BY BudgetAssumption
<1>2. Lo(d * BRAKE_TICKS, MAX_BRAKE) \in Nat
  BY <1>1, BudgetAssumption, Counts
<1>3. MAX_BRAKE \div 2 \in Nat
  BY BudgetAssumption
<1> QED
  BY <1>2, <1>3, Floors DEF braking_floor, cap_margin

\* What memory supports and what a cap recovers to are counts.
LEMMA Caps ==
  ASSUME NEW r \in Nat, NEW f \in Nat
  PROVE  supported_cap(r, f) \in Nat /\ recover_cap(r) \in Nat
<1>1. cap_margin \in Nat
  BY Margins
<1>2. SatSub(r + f, cap_margin) \in Nat
  BY <1>1 DEF SatSub
<1>3. r + CAP_RECOVER_PER_TICK \in Nat
  BY BudgetAssumption
<1> QED
  BY <1>2, <1>3, Counts, Floors DEF supported_cap, recover_cap

\* KvCache::bytes_for of a number of tokens is a count.
LEMMA KvSize == ASSUME NEW t \in Nat PROVE bytes_for(t) \in Nat
<1>1. BytesPerToken * t \in Nat
  BY ServeAssumption
<1> QED
  BY <1>1, ServeAssumption DEF bytes_for

\* A KV cache that takes memory after some tokens already took some with its
\* prompt alone, because a prompt has at least one token.
LEMMA PromptCovers ==
  ASSUME NEW p \in Nat, p > 0, NEW n \in Nat, bytes_for(p + n) > 0
  PROVE  bytes_for(p) > 0
<1>1. CASE FixedBytes > 0
  <2>1. BytesPerToken * p \in Nat
    BY ServeAssumption
  <2> QED
    BY <1>1, <2>1, ServeAssumption DEF bytes_for
<1>2. CASE FixedBytes = 0 /\ BytesPerToken > 0
  <2>1. BytesPerToken * p > 0 /\ BytesPerToken * p \in Nat
    BY <1>2, ServeAssumption
  <2> QED
    BY <1>2, <2>1, ServeAssumption DEF bytes_for
<1>3. CASE FixedBytes = 0 /\ BytesPerToken = 0
  <2>1. BytesPerToken * (p + n) = 0
    BY <1>3
  <2> QED
    BY <1>3, <2>1 DEF bytes_for
<1> QED
  BY <1>1, <1>2, <1>3, ServeAssumption

\* What available_ram_bytes reads is a count.
LEMMA Reading == ASSUME TypeOK PROVE avail \in Nat
BY BudgetAssumption DEF TypeOK, avail, SatSub

-----------------------------------------------------------------------------
(* Types.                                                                  *)

\* The monitor between two ticks holds no figures.
LEMMA TickType ==
  /\ NoTick \in Tick
  /\ \A t \in Nat, e \in BOOLEAN : Decided(t, e) \in Tick
BY DEF NoTick, Decided, Tick

LEMMA MonitorTypes == ASSUME TypeOK, Monitor, UNCHANGED serverVars PROVE TypeOK'
<1> USE DEF serverVars
<1>1. /\ mon.pc \in {"sleep", "resident", "decide", "store", "evict"}
      /\ mon.low_ticks \in Nat /\ mon.prev_avail \in Nat /\ mon.learned_cap \in Nat
      /\ mon.tick \in Tick
      /\ mon.tick.avail \in Nat /\ mon.tick.floor \in Nat /\ mon.tick.resident \in Nat
      /\ mon.tick.target \in Nat /\ mon.tick.evict \in BOOLEAN
  BY DEF TypeOK, Tick
<1>2. CASE TickRead
  <2>1. SatSub(mon.prev_avail, avail) \in Nat
    BY <1>1, Reading, Counts
  <2>2. braking_floor(SatSub(mon.prev_avail, avail)) \in Nat
    BY <2>1, Margins
  <2> QED
    BY <1>2, <2>2, Reading DEF TickRead, TypeOK, Tick
<1>3. CASE TickResident
  BY <1>3 DEF TickResident, TypeOK, Tick
<1>4. CASE DecideSwap
  <2> DEFINE target == Hi(Lo((3 * mon.tick.resident) \div 4, budget), FLOOR_MIN)
  <2>1. (3 * mon.tick.resident) \div 4 \in Nat
    BY <1>1
  <2>2. target \in Nat
    BY <2>1, Counts, BudgetAssumption DEF TypeOK
  <2>3. Decided(target, TRUE) \in Tick
    BY <2>2, TickType
  <2> HIDE DEF target
  <2>4. /\ mon' = [mon EXCEPT !.pc = "store", !.low_ticks = 0, !.tick = Decided(target, TRUE)]
        /\ UNCHANGED <<bytes, budget, reserved, other, kv, req>>
    BY <1>4 DEF DecideSwap, target
  <2> QED
    BY <2>3, <2>4 DEF TypeOK
<1>5. CASE DecideGuard
  <2>1. GuardTarget \in Nat
    <3>1. (floor_now - mon.tick.avail) + HARD_SLACK \in Nat
      BY <1>1, <1>5, BudgetAssumption DEF DecideGuard, floor_now
    <3> QED
      BY <1>1, <3>1, BudgetAssumption, Counts DEF GuardTarget
  <2>2. Decided(GuardTarget, TRUE) \in Tick
    BY <2>1, TickType
  <2> QED
    BY <1>5, <2>1, <2>2 DEF DecideGuard, TypeOK
<1>6. CASE DecideSoft
  <2>1. LowTicks \in Nat
    BY <1>1, BudgetAssumption DEF LowTicks, Lo
  <2>2. NextCap \in Nat
    <3> DEFINE cap == Hi(Lo(mon.learned_cap,
                           supported_cap(mon.tick.resident, mon.tick.avail)), FLOOR_MIN)
    <3>1. cap \in Nat
      BY <1>1, BudgetAssumption, Caps, Counts
    <3>2. recover_cap(cap) \in Nat
      BY <3>1, Caps
    <3> QED
      BY <3>1, <3>2 DEF NextCap
  <2>3. SoftTarget \in Nat
    <3>1. CASE LowTicks >= SUSTAIN
      <4>1. danger_floor - mon.tick.avail \in Nat
        BY <1>1, <3>1, BudgetAssumption, Floors DEF LowTicks
      <4> QED
        BY <1>1, <3>1, <4>1, BudgetAssumption, Counts DEF SoftTarget
    <3>2. CASE ~(LowTicks >= SUSTAIN)
      BY <2>2, <3>2, BudgetAssumption, Counts DEF SoftTarget, TypeOK
    <3> QED
      BY <3>1, <3>2
  <2>4. Decided(SoftTarget, SoftTarget < mon.tick.resident) \in Tick
    <3>1. (SoftTarget < mon.tick.resident) \in BOOLEAN
      BY <1>1, <2>3
    <3> QED
      BY <2>3, <3>1, TickType
  <2> QED
    BY <1>6, <2>1, <2>2, <2>4 DEF DecideSoft, TypeOK
<1>7. CASE TickStore
  BY <1>1, <1>7, TickType DEF TickStore, TypeOK
<1>8. CASE TickEvict
  <2>1. Lo(bytes, mon.tick.target) \in Nat
    BY <1>1, Counts DEF TypeOK
  <2> QED
    BY <1>8, <2>1, TickType DEF TickEvict, TypeOK
<1> QED
  BY <1>2, <1>3, <1>4, <1>5, <1>6, <1>7, <1>8 DEF Monitor

\* The server thread between requests, and moved to another stage.
LEMMA ServerAt ==
  ASSUME NEW pc \in Stage
  PROVE  /\ At(pc) \in [pc : Stage, q : Request, n : Nat, held : BOOLEAN]
         /\ TypeOK => To(pc) \in [pc : Stage, q : Request, n : Nat, held : BOOLEAN]
<1>1. NoRequest \in Request
  BY DEF NoRequest, Request
<1> QED
  BY <1>1 DEF At, To, TypeOK

\* The names of the stages.
LEMMA Stages ==
  /\ {"load", "wire", "warm", "warming", "bind", "loop", "poll", "read", "reserve", "exit",
      "rigid", "commit", "prefill", "generate", "drop", "uncommit", "release", "subtract"}
       = Stage
BY DEF Stage, Starting, InHand

\* A process that is gone holds nothing.
LEMMA ExitTypes == ASSUME TypeOK, Exit PROVE TypeOK'
<1>1. At("exit") \in [pc : Stage, q : Request, n : Nat, held : BOOLEAN]
  BY ServerAt, Stages
<1> QED
  BY <1>1, Floors, TickType, BudgetAssumption DEF Exit, TypeOK, Reservation, Idle

\* The steps of reserve_ram.
LEMMA ReserveTypes ==
  ASSUME TypeOK, RequestControl, ReserveStep, UNCHANGED serverVars PROVE TypeOK'
<1> USE DEF serverVars
<1>1. /\ req.pc \in {"idle", "check", "measure", "evict", "final", "granted"}
      /\ req.bytes \in Nat /\ req.now \in Nat /\ req.passes \in Nat /\ need \in Nat
      /\ req.passes + 1 \in Nat
  BY Floors DEF TypeOK, Reservation, need
<1>2. CASE ReserveCheck
  BY <1>1, <1>2 DEF ReserveCheck, TypeOK, Reservation, Granted, Idle
<1>3. CASE ReserveMeasure
  BY <1>1, <1>3, Reading DEF ReserveMeasure, TypeOK, Reservation
<1>4. CASE ReserveEvict
  <2>1. ReserveTarget \in Nat
    <3>1. need - req.now \in Nat
      BY <1>1, <1>4 DEF ReserveEvict, RequestControl
    <3> QED
      BY <3>1, BudgetAssumption, Counts DEF ReserveTarget, TypeOK
  <2>2. CASE ReserveTarget >= bytes
    BY <1>1, <1>4, <2>2 DEF ReserveEvict, TypeOK, Reservation
  <2>3. CASE ~(ReserveTarget >= bytes)
    <3>1. req' \in Reservation
      <4>1. req' = [req EXCEPT !.pc = "measure", !.now = 0, !.passes = @ + 1]
        BY <1>4, <2>3 DEF ReserveEvict
      <4> QED
        BY <1>1, <4>1 DEF TypeOK, Reservation
    <3> QED
      BY <1>4, <2>1, <2>3, <3>1 DEF ReserveEvict, TypeOK
  <2> QED
    BY <2>2, <2>3
<1>5. CASE ReserveFinal
  <2>1. SatSub(reserved, req.bytes) \in Nat
    BY <1>1, Counts DEF TypeOK
  <2>2. CASE avail >= need
    <3>1. Granted \in Reservation
      BY <1>1 DEF Granted, Idle, Reservation
    <3> QED
      BY <1>5, <2>2, <3>1 DEF ReserveFinal, TypeOK
  <2>3. CASE ~(avail >= need)
    <3>1. Idle \in Reservation
      BY DEF Idle, Reservation
    <3> QED
      BY <1>5, <2>1, <2>3, <3>1 DEF ReserveFinal, TypeOK
  <2> QED
    BY <2>2, <2>3
<1> QED
  BY <1>2, <1>3, <1>4, <1>5 DEF ReserveStep

\* The steps of the server thread.
LEMMA ServerTypes ==
  ASSUME TypeOK, RequestControl, ReservationsBalance, Server PROVE TypeOK'
<1>0. /\ \A pc \in Stage : At(pc) \in [pc : Stage, q : Request, n : Nat, held : BOOLEAN]
      /\ \A pc \in Stage : To(pc) \in [pc : Stage, q : Request, n : Nat, held : BOOLEAN]
  BY ServerAt
<1>1. CASE LoadModel
  BY <1>0, <1>1, Stages, ExitTypes DEF LoadModel, TypeOK, cacheVars
<1>2. CASE WireCache
  BY <1>0, <1>2, Stages, ExitTypes, Floors DEF WireCache, TypeOK
<1>3. CASE WarmUp
  BY <1>0, <1>3, Stages, KvSize, ServeAssumption DEF WarmUp, TypeOK
<1>4. CASE Bind
  BY <1>0, <1>4, Stages, ExitTypes DEF Bind, TypeOK, cacheVars
<1>5. CASE AcceptLoop
  BY <1>0, <1>5, Stages, ExitTypes DEF AcceptLoop, TypeOK, cacheVars
<1>6. CASE wait_for_connection
  BY <1>0, <1>6, Stages DEF wait_for_connection, TypeOK, cacheVars
<1>7. ASSUME NEW q \in Requests, handle(q) \/ Refuse(q) PROVE TypeOK'
  BY <1>0, <1>7, Stages DEF handle, Refuse, TypeOK, cacheVars
<1>8. ASSUME NEW q \in Requests, ReadCompletion(q) PROVE TypeOK'
  <2>1. q \in Request
    BY ServeAssumption DEF Request
  <2>2. bytes_for(q.prompt) \in Nat
    BY <2>1, KvSize DEF Request
  <2>3. [At("reserve") EXCEPT !.q = q] \in [pc : Stage, q : Request, n : Nat, held : BOOLEAN]
    BY <1>0, <2>1, Stages
  <2>4. [Idle EXCEPT !.pc = "check", !.bytes = bytes_for(q.prompt)] \in Reservation
    BY <2>2 DEF Idle, Reservation
  <2> QED
    BY <1>8, <2>2, <2>3, <2>4 DEF ReadCompletion, ReserveAdd, TypeOK
<1>9. CASE Reserving
  BY <1>9, ReserveTypes DEF Reserving
<1>10. CASE Reserved
  BY <1>0, <1>10, Stages DEF Reserved, TypeOK, cacheVars
<1>11. CASE Rigid
  BY <1>0, <1>11, Stages DEF Rigid, TypeOK, cacheVars
<1>12. CASE CommitOrWait
  <2>1. kvc + req.bytes \in Nat
    BY DEF TypeOK, Reservation
  <2> QED
    BY <1>0, <1>12, <2>1, Stages DEF CommitOrWait, TypeOK, cacheVars
<1>13. CASE Prefill
  <2>1. bytes_for(srv.q.prompt) \in Nat
    BY KvSize DEF TypeOK, Request
  <2> QED
    BY <1>0, <1>13, <2>1, Stages DEF Prefill, TypeOK
<1>14. CASE Generate
  <2>1. bytes_for(srv.q.prompt + srv.n) \in Nat
    BY KvSize DEF TypeOK, Request
  <2>2. PICK pc \in {"generate", "drop"} : srv' = [To(pc) EXCEPT !.n = @ + 1]
    BY <1>14 DEF Generate
  <2>3. srv' \in [pc : Stage, q : Request, n : Nat, held : BOOLEAN]
    BY <1>0, <2>2, Stages
  <2> QED
    BY <1>14, <2>1, <2>3 DEF Generate, TypeOK
<1>15. CASE DropKv
  <2>1. [To("uncommit") EXCEPT !.n = 0] \in [pc : Stage, q : Request, n : Nat, held : BOOLEAN]
    BY <1>0, Stages
  <2> QED
    BY <1>15, <2>1 DEF DropKv, TypeOK
<1>16. CASE DropCommitment
  <2>1. kvc - req.bytes \in Nat
    BY <1>16 DEF DropCommitment, TypeOK, Reservation, ReservationsBalance
  <2> QED
    BY <1>0, <1>16, <2>1, Stages DEF DropCommitment, TypeOK, cacheVars
<1>17. CASE ReleaseLoad
  <2>1. [req EXCEPT !.now = reserved] \in Reservation
    BY DEF TypeOK, Reservation
  <2> QED
    BY <1>0, <1>17, <2>1, Stages DEF ReleaseLoad, TypeOK
<1>18. CASE ReleaseStore
  <2>1. SatSub(req.now, req.bytes) \in Nat
    BY Counts DEF TypeOK, Reservation
  <2> QED
    BY <1>0, <1>18, <2>1, Stages DEF ReleaseStore, TypeOK, Reservation, Idle
<1> QED
  BY <1>1, <1>2, <1>3, <1>4, <1>5, <1>6, <1>7, <1>8, <1>9, <1>10, <1>11, <1>12, <1>13,
     <1>14, <1>15, <1>16, <1>17, <1>18 DEF Server, StartUp, Complete

\* Every step keeps the types.
LEMMA TypesStep ==
  ASSUME TypeOK, RequestControl, ReservationsBalance, [Next]_vars PROVE TypeOK'
<1>1. CASE ServerStep
  BY <1>1, ServerTypes DEF ServerStep
<1>2. CASE MonitorStep
  BY <1>2, MonitorTypes DEF MonitorStep
<1>3. CASE Signal
  BY <1>3, ExitTypes DEF Signal, TypeOK, cacheVars
<1>4. CASE ClientHolds \/ ClientResumes
  BY <1>4 DEF ClientHolds, ClientResumes, TypeOK, cacheVars
<1>5. ASSUME UNCHANGED serverVars, NEW d \in {1, MaxBatch}, Insert(d) PROVE TypeOK'
  <2>1. d \in Nat /\ Hi(budget, d) \in Nat /\ bytes + d \in Nat
    BY <1>5, BudgetAssumption DEF Hi, TypeOK
  <2> QED
    BY <1>5, <2>1 DEF Insert, serverVars, TypeOK
<1>6. CASE UNCHANGED serverVars /\ OthersMove
  BY <1>6, BudgetAssumption DEF OthersMove, serverVars, TypeOK
<1>7. CASE UNCHANGED vars
  BY <1>7 DEF vars, TypeOK
<1> QED
  BY <1>1, <1>2, <1>3, <1>4, <1>5, <1>6, <1>7 DEF Next

-----------------------------------------------------------------------------
(* The balance.                                                            *)

Balance == RequestControl /\ ReservationsBalance
IInv    == TypeOK /\ Balance

\* Steps that leave the request, its memory and the server alone.
LEMMA OthersKeep ==
  ASSUME Balance, UNCHANGED <<reserved, kv, req, srv, kvc>> PROVE Balance'
BY DEF Balance, RequestControl, ReservationsBalance, need

\* A process that is gone owes nothing.
LEMMA ExitBalances == ASSUME Exit PROVE Balance'
BY DEF Exit, Balance, RequestControl, ReservationsBalance, At, Idle, InHand

\* reserve_ram keeps the balance: a refusal gives back what was added, and a
\* pass works with a shortfall because its reading was below the need.
LEMMA ReserveBalances ==
  ASSUME TypeOK, Balance, Reserving PROVE Balance'
<1> USE DEF Reserving, serverVars, Balance, RequestControl, ReservationsBalance, InHand
<1>1. req.bytes \in Nat /\ req.now \in Nat /\ need \in Nat /\ reserved \in Nat
  BY Floors DEF TypeOK, Reservation, need
<1>2. CASE ReserveCheck
  BY <1>1, <1>2 DEF ReserveCheck, Granted, Idle, TypeOK, Reservation
<1>3. CASE ReserveMeasure
  <2>1. req'.pc = "evict" => req'.now < need'
    BY <1>1, <1>3, Reading DEF ReserveMeasure, TypeOK, Reservation, need
  <2> QED
    BY <1>3, <2>1 DEF ReserveMeasure, TypeOK, Reservation
<1>4. CASE ReserveEvict
  BY <1>1, <1>4 DEF ReserveEvict, TypeOK, Reservation
<1>5. CASE ReserveFinal
  <2>1. SatSub(reserved, req.bytes) = 0
    BY <1>1, Counts
  <2>2. CASE avail >= need
    BY <1>1, <1>5, <2>2 DEF ReserveFinal, Granted, Idle, TypeOK, Reservation
  <2>3. CASE ~(avail >= need)
    BY <1>5, <2>1, <2>3 DEF ReserveFinal, Idle
  <2> QED
    BY <2>2, <2>3
<1> QED
  BY <1>2, <1>3, <1>4, <1>5 DEF ReserveStep

\* Every step of the server thread keeps the balance.
LEMMA ServerBalances ==
  ASSUME TypeOK, Balance, Server PROVE Balance'
<1> USE DEF Balance, RequestControl, ReservationsBalance, InHand, At, To, need, cacheVars
<1>0. /\ req.pc \in {"idle", "check", "measure", "evict", "final", "granted"}
      /\ req.bytes \in Nat /\ reserved \in Nat /\ kvc \in Nat /\ kv \in Nat
      /\ srv.q.prompt \in Nat /\ srv.n \in Nat
      /\ srv \in [pc : Stage, q : Request, n : Nat, held : BOOLEAN]
  BY DEF TypeOK, Reservation, Request
<1>1. CASE LoadModel
  BY <1>0, <1>1, ExitBalances DEF LoadModel
<1>2. CASE WireCache
  BY <1>0, <1>2, ExitBalances DEF WireCache
<1>3. CASE WarmUp
  BY <1>0, <1>3 DEF WarmUp
<1>4. CASE Bind
  BY <1>0, <1>4, ExitBalances DEF Bind
<1>5. CASE AcceptLoop
  BY <1>0, <1>5, ExitBalances DEF AcceptLoop
<1>6. CASE wait_for_connection
  BY <1>0, <1>6 DEF wait_for_connection
<1>7. ASSUME NEW q \in Requests, handle(q) \/ Refuse(q) PROVE Balance'
  BY <1>0, <1>7 DEF handle, Refuse
<1>8. ASSUME NEW q \in Requests, ReadCompletion(q) PROVE Balance'
  <2>1. bytes_for(q.prompt) \in Nat
    BY ServeAssumption, KvSize
  <2>2. /\ srv' = [At("reserve") EXCEPT !.q = q] /\ q.prompt > 0 /\ q.prompt < CtxLen
        /\ req' = [Idle EXCEPT !.pc = "check", !.bytes = bytes_for(q.prompt)]
        /\ reserved' = reserved + bytes_for(q.prompt) /\ UNCHANGED <<kv, kvc>>
        /\ srv.pc = "read"
    BY <1>8 DEF ReadCompletion, ReserveAdd
  <2>3. srv'.pc = "reserve" /\ srv'.q = q /\ req'.pc = "check" /\ req'.bytes = bytes_for(q.prompt)
    BY <2>2 DEF Idle
  <2> QED
    BY <1>0, <2>1, <2>2, <2>3
<1>9. CASE Reserving
  BY <1>9, ReserveBalances
<1>10. CASE Reserved
  BY <1>0, <1>10 DEF Reserved
<1>11. CASE Rigid
  BY <1>0, <1>11 DEF Rigid
<1>12. CASE CommitOrWait
  BY <1>0, <1>12 DEF CommitOrWait
<1>13. CASE Prefill
  <2>1. kv' > 0 => kvc > 0
    BY <1>0, <1>13 DEF Prefill
  <2> QED
    BY <1>0, <1>13, <2>1 DEF Prefill
<1>14. CASE Generate
  <2>1. kv' > 0 => kvc > 0
    <3>1. kvc = bytes_for(srv.q.prompt) /\ kv' = bytes_for(srv.q.prompt + srv.n)
      BY <1>14 DEF Generate
    <3> QED
      BY <1>0, <1>14, <3>1, PromptCovers DEF Generate
  <2> QED
    BY <1>0, <1>14, <2>1 DEF Generate
<1>15. CASE DropKv
  BY <1>0, <1>15 DEF DropKv
<1>16. CASE DropCommitment
  BY <1>0, <1>16 DEF DropCommitment
<1>17. CASE ReleaseLoad
  BY <1>0, <1>17 DEF ReleaseLoad, TypeOK, Reservation
<1>18. CASE ReleaseStore
  <2>1. SatSub(req.now, req.bytes) = 0
    BY <1>0, <1>18, Counts DEF ReleaseStore
  <2> QED
    BY <1>0, <1>18, <2>1 DEF ReleaseStore, Idle
<1> QED
  BY <1>1, <1>2, <1>3, <1>4, <1>5, <1>6, <1>7, <1>8, <1>9, <1>10, <1>11, <1>12, <1>13,
     <1>14, <1>15, <1>16, <1>17, <1>18 DEF Server, StartUp, Complete

\* Every step keeps the balance.
LEMMA BalanceStep == ASSUME TypeOK, Balance, [Next]_vars PROVE Balance'
<1>1. CASE ServerStep
  BY <1>1, ServerBalances DEF ServerStep
<1>2. CASE MonitorStep
  <2>1. UNCHANGED <<reserved, kv, req, srv, kvc>>
    BY <1>2 DEF MonitorStep, Monitor, serverVars, TickRead, TickResident, DecideSwap,
                DecideGuard, DecideSoft, TickStore, TickEvict
  <2> QED
    BY <2>1, OthersKeep
<1>3. CASE Signal
  <2>1. CASE Exit
    BY <2>1, ExitBalances
  <2>2. CASE ~Exit
    BY <1>3, <2>2, OthersKeep DEF Signal, cacheVars
  <2> QED
    BY <2>1, <2>2
<1>4. CASE ClientHolds \/ ClientResumes
  BY <1>4 DEF ClientHolds, ClientResumes, cacheVars, Balance, RequestControl,
              ReservationsBalance, need, TypeOK
<1>5. ASSUME UNCHANGED serverVars, NEW d \in {1, MaxBatch}, Insert(d) PROVE Balance'
  BY <1>5, OthersKeep DEF Insert, serverVars
<1>6. CASE UNCHANGED serverVars /\ OthersMove
  BY <1>6, OthersKeep DEF OthersMove, serverVars
<1>7. CASE UNCHANGED vars
  BY <1>7, OthersKeep DEF vars
<1> QED
  BY <1>1, <1>2, <1>3, <1>4, <1>5, <1>6, <1>7 DEF Next

-----------------------------------------------------------------------------
(* The theorems.                                                           *)

\* The inductive invariant holds of every behaviour.
LEMMA Inductive == Spec => []IInv
<1>1. Init => IInv
  <2> SUFFICES ASSUME Init PROVE IInv
    OBVIOUS
  <2> USE DEF Init, BudgetInit
  <2>1. SatSub(Mem, other) \in Nat
    BY BudgetAssumption, Counts
  <2>2. supported_cap(0, SatSub(Mem, other)) \in Nat
    BY <2>1, Caps
  <2>3. Lo(fill_target, Hi(supported_cap(0, SatSub(Mem, other)), FLOOR_MIN)) \in Nat
    BY <2>2, BudgetAssumption, Counts, Floors
  <2>4. mon \in [pc : {"sleep", "resident", "decide", "store", "evict"}, low_ticks : Nat,
                 prev_avail : Nat, learned_cap : Nat, tick : Tick]
    BY <2>1, <2>3, TickType
  <2>5. req \in Reservation /\ srv \in [pc : Stage, q : Request, n : Nat, held : BOOLEAN]
    BY ServerAt, Stages DEF Idle, Reservation
  <2>6. TypeOK
    BY <2>4, <2>5, BudgetAssumption DEF TypeOK
  <2>7. Balance
    BY DEF Balance, RequestControl, ReservationsBalance, At, Idle, InHand
  <2> QED
    BY <2>6, <2>7 DEF IInv
<1>2. IInv /\ [Next]_vars => IInv'
  BY TypesStep, BalanceStep DEF IInv, Balance
<1> QED
  BY <1>1, <1>2, PTL DEF Spec

\* A request's memory is accounted for from its admission to its end and given
\* back on every path (complete, reserve_ram, release_ram, KvRoom::drop),
\* whatever the monitor, the insert path, signals and other tenants do between.
THEOREM RequestsBalance == Spec => []ReservationsBalance
<1>1. IInv => ReservationsBalance
  BY DEF IInv, Balance
<1> QED
  BY <1>1, Inductive, PTL

\* No plain subtraction on unsigned integers wraps in reserve_ram, in complete
\* or in the drop of a commitment: the reading or the count each of them
\* subtracts may be old by then, and still bounds it.
THEOREM NothingWraps == Spec => []NoUnsignedWrap
<1>1. IInv => NoUnsignedWrap
  <2> SUFFICES ASSUME IInv PROVE NoUnsignedWrap
    OBVIOUS
  <2>1. req.pc = "evict" => req.now <= need
    BY Floors DEF IInv, TypeOK, Reservation, Balance, RequestControl, need
  <2>2. srv.pc = "generate" => srv.q.prompt <= CtxLen
    BY ServeAssumption DEF IInv, TypeOK, Request, Balance, RequestControl, InHand
  <2>3. srv.pc = "uncommit" => req.bytes <= kvc
    BY DEF IInv, TypeOK, Balance, ReservationsBalance
  <2> QED
    BY <2>1, <2>2, <2>3 DEF NoUnsignedWrap
<1> QED
  BY <1>1, Inductive, PTL
=============================================================================
