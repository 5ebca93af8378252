-------------------------- MODULE ExpertCacheProofs --------------------------
(***************************************************************************)
(* Proofs about ExpertCache for any experts, sizes, threads and budgets:   *)
(* the byte counter is exact and the ledger agrees with it whenever the    *)
(* lock is free, pinned experts are never evicted, a batch survives its    *)
(* own insertion, and the insert path enforces the budget.                 *)
(*                                                                         *)
(* And about EvictPass, for any experts, sizes, heats, budget, clock and   *)
(* word size: one pass of evict_to_protecting over the list it sorted once *)
(* removes a set Eviction declares, takes the least recently used first    *)
(* wherever the clock stands on its circle, and gives back exactly the     *)
(* bytes of what it removed.  The invariant of the pass: the loop has      *)
(* removed the victims before `next', and was over budget before the last  *)
(* of them.                                                                *)
(***************************************************************************)
EXTENDS ExpertCache, EvictPass, FiniteSetTheorems, TLAPS

\* Taking a part away from a set of experts takes its weight away.
LEMMA WeighMinus ==
  ASSUME NEW A \in SUBSET Keys, NEW B \in SUBSET A
  PROVE  /\ Weigh[A] \in Nat /\ Weigh[B] \in Nat /\ Weigh[A \ B] \in Nat
         /\ Weigh[A \ B] = Weigh[A] - Weigh[B]
<1>1. /\ A \ B \in SUBSET Keys /\ B \in SUBSET Keys
      /\ (A \ B) \cap B = {} /\ (A \ B) \cup B = A
  OBVIOUS
<1>2. Weigh[A] \in Nat /\ Weigh[B] \in Nat /\ Weigh[A \ B] \in Nat
  BY <1>1, EvictionAssumption
<1>3. Weigh[(A \ B) \cup B] = Weigh[A \ B] + Weigh[B]
  BY <1>1, EvictionAssumption
<1>4. Weigh[A] = Weigh[A \ B] + Weigh[B]
  BY <1>1, <1>3, Zenon
<1> QED BY <1>2, <1>4

\* Adding experts that are not there adds their weight.
LEMMA WeighPlus ==
  ASSUME NEW A \in SUBSET Keys, NEW B \in SUBSET Keys, A \cap B = {}
  PROVE  /\ Weigh[A] \in Nat /\ Weigh[B] \in Nat
         /\ Weigh[A \cup B] = Weigh[A] + Weigh[B]
BY EvictionAssumption

\* The locals of a call fit the step it is at.
CallOK ==
  \A t \in Threads :
    /\ pc[t] \in {"load", "pin"} => call[t].key \in Keys
    /\ pc[t] \in {"load", "pin"} => call[t].op \in {"expert", "pin", "rank"}
    /\ pc[t] = "batch" => call[t].loaded \subseteq call[t].job

\* The inductive invariant.
CacheInv == TypeOK /\ BytesMatchEntries /\ LedgerMatchesCache /\ CallOK

\* The map with absent experts inserted weighs what the code's counter says.
LEMMA InsertWeighs ==
  ASSUME TypeOK, BytesMatchEntries, NEW L \in SUBSET Keys, L \cap Resident = {}
  PROVE  /\ WithEntries(L) \in [Keys -> Entry \cup {NoEntry}]
         /\ bytes + Weigh[L] = Weigh[{k \in Keys : WithEntries(L)[k] # NoEntry}]
         /\ \A k \in Keys : k \in L => WithEntries(L)[k] # NoEntry
         /\ \A k \in Keys : k \notin L => WithEntries(L)[k] = entries[k]
<1>1. [heat |-> 1, last |-> clock] \in Entry
  BY CacheAssumption DEF TypeOK, Entry
<1>2. NoEntry \notin Entry
  BY CacheAssumption
<1>3. WithEntries(L) \in [Keys -> Entry \cup {NoEntry}]
  BY <1>1 DEF WithEntries, TypeOK
<1>4. {k \in Keys : WithEntries(L)[k] # NoEntry} = Resident \cup L
  BY <1>1, <1>2 DEF WithEntries, Resident
<1>5. Weigh[Resident \cup L] = Weigh[Resident] + Weigh[L]
  BY WeighPlus DEF Resident
<1>6. \A k \in Keys : k \in L => WithEntries(L)[k] # NoEntry
  BY <1>1, <1>2 DEF WithEntries
<1>7. \A k \in Keys : k \notin L => WithEntries(L)[k] = entries[k]
  BY DEF WithEntries
<1> QED BY <1>3, <1>4, <1>5, <1>6, <1>7 DEF BytesMatchEntries

\* What a step does to the cache itself: nothing, a hit on one entry, or an
\* insertion of absent experts followed by an eviction pass.
Hit(k) == /\ k \in Resident
          /\ entries' = [entries EXCEPT ![k] = Touched(@, (clock + 1) % W)]
          /\ UNCHANGED <<bytes, published>>
Insert(L, b, protect) ==
  /\ L \in SUBSET Keys /\ L \cap Resident = {}
  /\ EvictToProtecting(WithEntries(L), bytes + Weigh[L], b, protect)
CacheStep == \/ UNCHANGED <<entries, bytes, published>>
             \/ \E k \in Keys : Hit(k)
             \/ \E L \in SUBSET Keys, b \in Nat, protect \in SUBSET Keys :
                  Insert(L, b, protect)

\* Inserting absent experts and evicting leaves the byte count exact, tells the
\* ledger, and loses no pinned and no protected entry.
LEMMA InsertKeeps ==
  ASSUME TypeOK, BytesMatchEntries,
         NEW L \in SUBSET Keys, NEW b, NEW protect, Insert(L, b, protect)
  PROVE  /\ entries' \in [Keys -> Entry \cup {NoEntry}]
         /\ bytes' \in Nat /\ published' = bytes'
         /\ bytes' = Weigh[Resident']
         /\ \A k \in Keys : k \in pinned \cup protect =>
              (k \in Resident \cup L => k \in Resident')
<1> DEFINE R == {k \in Keys : WithEntries(L)[k] # NoEntry}
           held == bytes + Weigh[L]
<1>1. L \cap Resident = {}
  BY DEF Insert
<1>2. /\ WithEntries(L) \in [Keys -> Entry \cup {NoEntry}]
      /\ held = Weigh[R]
      /\ \A k \in Keys : k \in L => WithEntries(L)[k] # NoEntry
      /\ \A k \in Keys : k \notin L => WithEntries(L)[k] = entries[k]
  BY <1>1, InsertWeighs
<1>3. PICK V \in VictimSets(WithEntries(L), Evictable(WithEntries(L), protect), clock, held, b) :
        /\ entries' = [k \in Keys |-> IF k \in V THEN NoEntry ELSE WithEntries(L)[k]]
        /\ bytes' = held - Weigh[V]
        /\ published' = held - Weigh[V]
  BY DEF EvictToProtecting, Insert
<1>4. V \subseteq R \ (pinned \cup protect)
  BY DEF VictimSets, Evictable
<1>5. Resident' = R \ V
  BY <1>3 DEF Resident
<1>6. /\ Weigh[R] \in Nat /\ Weigh[V] \in Nat /\ Weigh[R \ V] \in Nat
      /\ Weigh[R \ V] = Weigh[R] - Weigh[V]
  BY <1>4, WeighMinus
<1> HIDE DEF held
<1>7. bytes' = Weigh[Resident'] /\ bytes' \in Nat /\ published' = bytes'
  BY <1>2, <1>3, <1>5, <1>6
<1>8. entries' \in [Keys -> Entry \cup {NoEntry}]
  BY <1>2, <1>3
<1>9. \A k \in Keys : k \in pinned \cup protect =>
        (k \in Resident \cup L => k \in Resident')
  BY <1>2, <1>4, <1>5 DEF Resident
<1> QED BY <1>7, <1>8, <1>9

\* Evicting the map as it stands is inserting nothing.
LEMMA EvictIsInsert ==
  ASSUME TypeOK, NEW b \in Nat, EvictTo(b)
  PROVE  Insert({}, b, {})
<1>1. WithEntries({}) = entries
  BY DEF WithEntries, TypeOK
<1>2. bytes + Weigh[{}] = bytes
  BY EvictionAssumption DEF TypeOK
<1> QED BY <1>1, <1>2 DEF Insert, EvictTo

\* Every step of every thread and of the controller is one of those.
LEMMA StepIsCacheStep ==
  ASSUME TypeOK, CallOK, [Next]_vars
  PROVE  CacheStep
<1> USE DEF CacheStep
<1>1. CASE UNCHANGED vars
  BY <1>1 DEF vars
<1>2. ASSUME NEW t, NEW op, NEW c, c.key \in Keys, Lookup(t, op, c)
      PROVE  CacheStep
  <2>1. CASE c.key \in Resident
    BY <1>2, <2>1 DEF Lookup, Hit
  <2>2. CASE c.key \notin Resident
    BY <1>2, <2>2 DEF Lookup
  <2> QED BY <2>1, <2>2
<1>3. ASSUME NEW t \in Workers, NEW op, NEW k \in Keys, Fetch(t, op, k)
      PROVE  CacheStep
  <2>1. [NoCall EXCEPT !.op = op, !.key = k].key = k
    BY DEF NoCall
  <2> QED BY <1>2, <1>3, <2>1 DEF Fetch
<1>4. ASSUME NEW t \in Workers, NEW B, NEW P, Prefetch(t, B, P)
      PROVE  CacheStep
  BY <1>4 DEF Prefetch
<1>5. ASSUME NEW t \in Workers, PinRankedFetch(t)
      PROVE  CacheStep
  <2> DEFINE c == [call[t] EXCEPT !.op = "rank", !.key = Ranked[call[t].n + 1]]
  <2>1. t \in Threads
    BY DEF Threads
  <2>2. call[t] \in CallType
    BY <2>1 DEF TypeOK
  <2>3. call[t].n + 1 \in 1 .. Len(Ranked)
    BY <1>5, <2>2, CacheAssumption DEF PinRankedFetch, CallType
  <2>4. c.key \in Keys
    BY <2>2, <2>3, CacheAssumption DEF CallType
  <2>5. Lookup(t, "rank", c)
    BY <1>5 DEF PinRankedFetch
  <2> HIDE DEF c
  <2> QED BY <1>2, <2>4, <2>5
<1>6. ASSUME NEW t \in Threads, FetchInsert(t)
      PROVE  CacheStep
  <2>1. call[t].key \in Keys /\ budget \in Nat
    BY <1>6 DEF FetchInsert, CallOK, TypeOK
  <2>2. CASE call[t].key \in Resident
    BY <1>6, <2>2 DEF FetchInsert
  <2>3. CASE call[t].key \notin Resident
    <3>1. Insert({call[t].key}, budget, {})
      BY <1>6, <2>1, <2>3 DEF FetchInsert, Insert
    <3> QED BY <2>1, <3>1
  <2> QED BY <2>2, <2>3
<1>7. ASSUME NEW t \in Threads, BatchInsert(t)
      PROVE  CacheStep
  <2> DEFINE new == call[t].loaded \ Resident
  <2>1. call[t].loaded \subseteq Keys /\ call[t].job \subseteq Keys /\ budget \in Nat
    BY DEF TypeOK, CallType
  <2>2. Insert(new, budget, call[t].job)
    BY <1>7, <2>1 DEF BatchInsert, Insert
  <2> HIDE DEF new
  <2>3. new \in SUBSET Keys
    BY <2>1 DEF new
  <2> QED BY <2>1, <2>2, <2>3
<1>8. ASSUME NEW t \in Threads,
             FetchFail(t) \/ Pin(t) \/ PinRankedPin(t) \/ BatchFilter(t)
      PROVE  CacheStep
  BY <1>8 DEF FetchFail, Pin, PinRankedPin, BatchFilter
<1>9. CASE LoaderRecv
  BY <1>9 DEF LoaderRecv
<1>10. ASSUME NEW b, NEW e, StoreBudget(b, e) PROVE CacheStep
  BY <1>10 DEF StoreBudget
<1>11. CASE MonitorEvict
  <2>1. evictTo \in Nat
    BY <1>11 DEF MonitorEvict, TypeOK
  <2>2. Insert({}, evictTo, {})
    BY <1>11, <2>1, EvictIsInsert DEF MonitorEvict
  <2> QED BY <2>1, <2>2
<1>12. ASSUME NEW b \in Budgets, ReservePass(b) PROVE CacheStep
  <2>1. b \in Nat
    BY CacheAssumption
  <2>2. Insert({}, b, {})
    BY <1>12, <2>1, EvictIsInsert DEF ReservePass
  <2> QED BY <2>1, <2>2
<1> QED
  BY <1>1, <1>3, <1>4, <1>5, <1>6, <1>7, <1>8, <1>9, <1>10, <1>11, <1>12
  DEF Next, WorkerCall, InCall, Control

\* The cache's own part of the invariant is inductive under such steps, and no
\* such step removes a pinned expert.
LEMMA CacheStepKeeps ==
  ASSUME TypeOK, BytesMatchEntries, LedgerMatchesCache, CacheStep
  PROVE  /\ entries' \in [Keys -> Entry \cup {NoEntry}]
         /\ bytes' \in Nat
         /\ bytes' = Weigh[Resident'] /\ published' = bytes'
         /\ \A k \in pinned : k \in Resident => k \in Resident'
<1>1. CASE UNCHANGED <<entries, bytes, published>>
  BY <1>1 DEF TypeOK, BytesMatchEntries, LedgerMatchesCache, Resident
<1>2. ASSUME NEW k \in Keys, Hit(k)
      PROVE  /\ entries' \in [Keys -> Entry \cup {NoEntry}]
             /\ Resident' = Resident /\ bytes' = bytes /\ published' = published
  <2>1. entries[k] \in Entry /\ NoEntry \notin Entry
    BY <1>2, CacheAssumption DEF Hit, Resident, TypeOK
  <2>2. (clock + 1) % W \in 0 .. W - 1
    BY EvictionAssumption DEF TypeOK
  <2>3. Touched(entries[k], (clock + 1) % W) \in Entry
    BY <2>1, <2>2, CacheAssumption DEF Touched, Entry
  <2>4. entries' = [entries EXCEPT ![k] = Touched(entries[k], (clock + 1) % W)]
    BY <1>2 DEF Hit
  <2>5. entries' \in [Keys -> Entry \cup {NoEntry}]
    BY <2>3, <2>4 DEF TypeOK
  <2>6. Resident' = Resident
    <3>1. ASSUME NEW j \in Keys PROVE (entries'[j] # NoEntry) <=> (entries[j] # NoEntry)
      <4>1. CASE j = k
        <5>1. entries'[j] = Touched(entries[k], (clock + 1) % W)
          BY <2>4, <4>1 DEF TypeOK
        <5> QED BY <2>1, <2>3, <4>1, <5>1
      <4>2. CASE j # k
        BY <2>4, <4>2 DEF TypeOK
      <4> QED BY <4>1, <4>2
    <3> QED BY <3>1 DEF Resident
  <2> QED BY <1>2, <2>5, <2>6 DEF Hit
<1>3. ASSUME NEW L \in SUBSET Keys, NEW b \in Nat, NEW protect \in SUBSET Keys,
             Insert(L, b, protect)
      PROVE  /\ entries' \in [Keys -> Entry \cup {NoEntry}]
             /\ bytes' \in Nat
             /\ bytes' = Weigh[Resident'] /\ published' = bytes'
             /\ \A k \in pinned : k \in Resident => k \in Resident'
  <2>1. \A k \in pinned : k \in Keys
    BY DEF TypeOK
  <2> QED BY <1>3, <2>1, InsertKeeps
<1>4. ASSUME NEW k \in Keys, Hit(k)
      PROVE  /\ entries' \in [Keys -> Entry \cup {NoEntry}]
             /\ bytes' \in Nat
             /\ bytes' = Weigh[Resident'] /\ published' = bytes'
             /\ \A j \in pinned : j \in Resident => j \in Resident'
  BY <1>2, <1>4 DEF TypeOK, BytesMatchEntries, LedgerMatchesCache
<1> QED BY <1>1, <1>3, <1>4 DEF CacheStep

\* The rest of the state: the threads, the channel and the controller.
RestOK ==
  /\ pinned \subseteq Keys /\ clock \in 0 .. W - 1 /\ budget \in Nat
  /\ queue \in Seq(SUBSET Keys)
  /\ pc \in [Threads -> PC] /\ call \in [Threads -> CallType]
  /\ evictTo \in Nat \cup {None}

\* Moving one thread to a step its new locals fit.
LEMMA MoveThread ==
  ASSUME TypeOK, CallOK, NEW t \in Threads, NEW l \in PC, NEW c \in CallType,
         pc' = [pc EXCEPT ![t] = l], call' = [call EXCEPT ![t] = c],
         l \in {"load", "pin"} => c.key \in Keys /\ c.op \in {"expert", "pin", "rank"},
         l = "batch" => c.loaded \subseteq c.job
  PROVE  pc' \in [Threads -> PC] /\ call' \in [Threads -> CallType] /\ CallOK'
<1>1. pc' \in [Threads -> PC] /\ call' \in [Threads -> CallType]
  BY DEF TypeOK
<1>2. ASSUME NEW s \in Threads
      PROVE  /\ pc'[s] \in {"load", "pin"} => call'[s].key \in Keys
             /\ pc'[s] \in {"load", "pin"} => call'[s].op \in {"expert", "pin", "rank"}
             /\ pc'[s] = "batch" => call'[s].loaded \subseteq call'[s].job
  <2>1. CASE s = t
    BY <2>1 DEF TypeOK
  <2>2. CASE s # t
    <3>1. pc'[s] = pc[s] /\ call'[s] = call[s]
      BY <2>2 DEF TypeOK
    <3> QED BY <3>1 DEF CallOK
  <2> QED BY <2>1, <2>2
<1> QED BY <1>1, <1>2 DEF CallOK

\* Locals at rest.
LEMMA IdleLocals == NoCall \in CallType /\ RankingOver \in CallType
BY CacheAssumption DEF NoCall, RankingOver, CallType

\* fetch's first critical section, whoever calls it.
LEMMA LookupKeeps ==
  ASSUME TypeOK, CallOK, NEW t \in Threads, NEW op \in {"expert", "pin", "rank"},
         NEW c \in CallType, c.key \in Keys, c.op = op, Lookup(t, op, c)
  PROVE  RestOK' /\ CallOK'
<1>1. clock' \in 0 .. W - 1
  BY EvictionAssumption DEF Lookup, TypeOK
<1>2. /\ pinned' \subseteq Keys /\ budget' \in Nat /\ queue' \in Seq(SUBSET Keys)
      /\ evictTo' \in Nat \cup {None}
  BY DEF Lookup, TypeOK
<1>3. CASE pc' = [pc EXCEPT ![t] = "idle"] /\ call' = [call EXCEPT ![t] = NoCall]
  <2>1. "idle" \in PC
    BY DEF PC
  <2>2. pc' \in [Threads -> PC] /\ call' \in [Threads -> CallType] /\ CallOK'
    BY <1>3, <2>1, IdleLocals, MoveThread
  <2> QED BY <1>1, <1>2, <2>2 DEF RestOK
<1>4. ASSUME NEW l \in {"load", "pin"},
             pc' = [pc EXCEPT ![t] = l], call' = [call EXCEPT ![t] = c]
      PROVE  RestOK' /\ CallOK'
  <2>1. l \in PC
    BY DEF PC
  <2>2. pc' \in [Threads -> PC] /\ call' \in [Threads -> CallType] /\ CallOK'
    BY <1>4, <2>1, MoveThread
  <2> QED BY <1>1, <1>2, <2>2 DEF RestOK
<1> QED BY <1>3, <1>4 DEF Lookup, Fetched

\* Every step keeps the threads' locals and the rest of the state in type.
LEMMA RestKeeps ==
  ASSUME TypeOK, CallOK, [Next]_vars
  PROVE  RestOK' /\ CallOK'
<1>0. RestOK /\ Workers \subseteq Threads /\ Loader \in Threads
  BY DEF TypeOK, RestOK, Threads
<1>1. CASE UNCHANGED vars
  BY <1>0, <1>1 DEF vars, RestOK, CallOK
<1>2. ASSUME NEW t \in Workers, NEW op, NEW k \in Keys, Fetch(t, op, k)
      PROVE  RestOK' /\ CallOK'
  <2> DEFINE c == [NoCall EXCEPT !.op = op, !.key = k]
  <2>1. op \in {"expert", "pin"}
    BY <1>2 DEF Fetch
  <2>2. c \in CallType /\ c.key = k /\ c.op = op
    BY <2>1 DEF NoCall, CallType
  <2>3. Lookup(t, op, c)
    BY <1>2 DEF Fetch
  <2> HIDE DEF c
  <2> QED BY <1>0, <2>1, <2>2, <2>3, LookupKeeps
<1>3. ASSUME NEW t \in Workers, PinRankedFetch(t)
      PROVE  RestOK' /\ CallOK'
  <2> DEFINE c == [call[t] EXCEPT !.op = "rank", !.key = Ranked[call[t].n + 1]]
  <2>1. call[t] \in CallType
    BY <1>0 DEF TypeOK
  <2>2. call[t].n + 1 \in 1 .. Len(Ranked)
    BY <1>3, <2>1, CacheAssumption DEF PinRankedFetch, CallType
  <2>3. Ranked[call[t].n + 1] \in Keys
    BY <2>2, CacheAssumption
  <2>4. c \in CallType /\ c.key \in Keys /\ c.op = "rank"
    BY <2>1, <2>3 DEF CallType
  <2>5. Lookup(t, "rank", c)
    BY <1>3 DEF PinRankedFetch
  <2>6. PICK d : d = c
    OBVIOUS
  <2>7. Lookup(t, "rank", d)
    BY <2>5, <2>6 DEF Lookup, Fetched
  <2> HIDE DEF c
  <2> QED BY <1>0, <2>4, <2>6, <2>7, LookupKeeps
<1>4. ASSUME NEW t \in Workers, NEW B \in Batches, NEW P \in Batches \cup {{}},
             Prefetch(t, B, P)
      PROVE  RestOK' /\ CallOK'
  <2>1. B \in SUBSET Keys /\ P \in SUBSET Keys
    BY CacheAssumption
  <2>2. queue' \in Seq(SUBSET Keys)
    BY <1>4, <2>1 DEF Prefetch, TypeOK
  <2>3. PICK c : c = [call[t] EXCEPT !.job = B]
    OBVIOUS
  <2>4. c \in CallType
    BY <1>0, <2>1, <2>3 DEF TypeOK, CallType
  <2>5. pc' = [pc EXCEPT ![t] = "filter"] /\ call' = [call EXCEPT ![t] = c]
    BY <1>4, <2>3 DEF Prefetch
  <2>6. "filter" \in PC
    BY DEF PC
  <2>7. pc' \in [Threads -> PC] /\ call' \in [Threads -> CallType] /\ CallOK'
    BY <1>0, <2>4, <2>5, <2>6, MoveThread
  <2> QED BY <1>0, <1>4, <2>2, <2>7 DEF Prefetch, RestOK
<1>5. CASE LoaderRecv
  <2>1. queue' \in Seq(SUBSET Keys) /\ Head(queue) \in SUBSET Keys
    BY <1>5 DEF LoaderRecv, TypeOK
  <2>2. PICK c : c = [call[Loader] EXCEPT !.job = Head(queue)]
    OBVIOUS
  <2>3. c \in CallType
    BY <1>0, <2>1, <2>2 DEF TypeOK, CallType
  <2>4. pc' = [pc EXCEPT ![Loader] = "filter"] /\ call' = [call EXCEPT ![Loader] = c]
    BY <1>5, <2>2 DEF LoaderRecv
  <2>5. "filter" \in PC
    BY DEF PC
  <2>6. pc' \in [Threads -> PC] /\ call' \in [Threads -> CallType] /\ CallOK'
    BY <1>0, <2>3, <2>4, <2>5, MoveThread
  <2> QED BY <1>0, <1>5, <2>1, <2>6 DEF LoaderRecv, RestOK
<1>6. ASSUME NEW t \in Threads, NEW c \in CallType,
             pc' = [pc EXCEPT ![t] = "idle"], call' = [call EXCEPT ![t] = c]
      PROVE  pc' \in [Threads -> PC] /\ call' \in [Threads -> CallType] /\ CallOK'
  <2>1. "idle" \in PC
    BY DEF PC
  <2> QED BY <1>6, <2>1, MoveThread
<1>7. ASSUME NEW t \in Threads, FetchFail(t) PROVE RestOK' /\ CallOK'
  <2>1. PICK c \in CallType : call' = [call EXCEPT ![t] = c]
    BY <1>7, IdleLocals DEF FetchFail
  <2>2. pc' \in [Threads -> PC] /\ call' \in [Threads -> CallType] /\ CallOK'
    BY <1>6, <1>7, <2>1 DEF FetchFail
  <2> QED BY <1>0, <1>7, <2>2 DEF FetchFail, RestOK
<1>8. ASSUME NEW t \in Threads, FetchInsert(t) PROVE RestOK' /\ CallOK'
  <2>1. pc' \in [Threads -> PC] /\ call' \in [Threads -> CallType] /\ CallOK'
    <3>1. CASE call[t].op = "expert"
      BY <1>6, <1>8, <3>1, IdleLocals DEF FetchInsert, Fetched
    <3>2. CASE call[t].op # "expert"
      <4>1. PICK c : c = call[t]
        OBVIOUS
      <4>2. /\ c \in CallType /\ c.key \in Keys
            /\ c.op \in {"expert", "pin", "rank"}
        BY <1>8, <4>1 DEF FetchInsert, TypeOK, CallOK
      <4>3. pc' = [pc EXCEPT ![t] = "pin"] /\ call' = [call EXCEPT ![t] = c]
        BY <1>8, <3>2, <4>1 DEF FetchInsert, Fetched
      <4>4. "pin" \in PC
        BY DEF PC
      <4> QED BY <4>2, <4>3, <4>4, MoveThread
    <3> QED BY <3>1, <3>2
  <2> QED BY <1>0, <1>8, <2>1 DEF FetchInsert, RestOK
<1>9. ASSUME NEW t \in Threads, Pin(t) PROVE RestOK' /\ CallOK'
  <2>1. pc' \in [Threads -> PC] /\ call' \in [Threads -> CallType] /\ CallOK'
    BY <1>6, <1>9, IdleLocals DEF Pin, Return
  <2>2. pinned' \subseteq Keys
    BY <1>9 DEF Pin, TypeOK, CallOK
  <2> QED BY <1>0, <1>9, <2>1, <2>2 DEF Pin, RestOK
<1>10. ASSUME NEW t \in Threads, PinRankedPin(t) PROVE RestOK' /\ CallOK'
  <2>1. call[t] \in CallType /\ call[t].key \in Keys
    BY <1>10 DEF PinRankedPin, TypeOK, CallOK
  <2>2. Weigh[{call[t].key}] \in Nat
    BY <2>1, EvictionAssumption
  <2>3. PICK c \in CallType : call' = [call EXCEPT ![t] = c]
    <3>1. CASE OverCap(t)
      BY <1>10, <3>1, IdleLocals DEF PinRankedPin
    <3>2. CASE ~OverCap(t)
      <4> DEFINE c == [NoCall EXCEPT !.n = call[t].n + 1,
                                     !.bytes = call[t].bytes + Weigh[{call[t].key}]]
      <4>1. c \in CallType
        <5>1. call[t].n \in Nat /\ call[t].bytes \in Nat
          BY <2>1 DEF CallType
        <5>2. PICK n \in Nat : n = call[t].n + 1
          BY <5>1
        <5>3. PICK m \in Nat : m = call[t].bytes + Weigh[{call[t].key}]
          BY <2>2, <5>1
        <5>4. c = [NoCall EXCEPT !.n = n, !.bytes = m]
          BY <5>2, <5>3
        <5> HIDE DEF c
        <5> QED BY <5>2, <5>3, <5>4 DEF NoCall, CallType
      <4>2. call' = [call EXCEPT ![t] = c]
        BY <1>10, <3>2 DEF PinRankedPin
      <4> QED BY <4>1, <4>2
    <3> QED BY <3>1, <3>2
  <2>4. pc' \in [Threads -> PC] /\ call' \in [Threads -> CallType] /\ CallOK'
    BY <1>6, <1>10, <2>3 DEF PinRankedPin
  <2>5. pinned' \subseteq Keys
    BY <1>10, <2>1 DEF PinRankedPin, TypeOK
  <2> QED BY <1>0, <1>10, <2>4, <2>5 DEF PinRankedPin, RestOK
<1>11. ASSUME NEW t \in Threads, BatchFilter(t) PROVE RestOK' /\ CallOK'
  <2>1. pc' \in [Threads -> PC] /\ call' \in [Threads -> CallType] /\ CallOK'
    <3>1. CASE call[t].job \ Resident = {}
      BY <1>6, <1>11, <3>1, IdleLocals DEF BatchFilter, Return
    <3>2. CASE call[t].job \ Resident # {}
      <4>1. PICK got \in SUBSET (call[t].job \ Resident) :
              /\ pc' = [pc EXCEPT ![t] = "batch"]
              /\ call' = [call EXCEPT ![t].job = call[t].job \ Resident, ![t].loaded = got]
        BY <1>11, <3>2 DEF BatchFilter
      <4>2. PICK c : c = [call[t] EXCEPT !.job = call[t].job \ Resident, !.loaded = got]
        OBVIOUS
      <4>3. call[t] \in CallType
        BY DEF TypeOK
      <4>4. c \in CallType /\ c.loaded \subseteq c.job
        <5>1. call[t].job \ Resident \in SUBSET Keys /\ got \in SUBSET Keys
          BY <4>3 DEF CallType
        <5>2. c.job = call[t].job \ Resident /\ c.loaded = got
          BY <4>2, <4>3 DEF CallType
        <5>3. c \in CallType
          BY <4>2, <4>3, <5>1 DEF CallType
        <5> QED BY <5>2, <5>3
      <4>5. call' = [call EXCEPT ![t] = c]
        BY <4>1, <4>2 DEF TypeOK
      <4>6. "batch" \in PC
        BY DEF PC
      <4> QED BY <4>1, <4>4, <4>5, <4>6, MoveThread
    <3> QED BY <3>1, <3>2
  <2> QED BY <1>0, <1>11, <2>1 DEF BatchFilter, RestOK
<1>12. ASSUME NEW t \in Threads, BatchInsert(t) PROVE RestOK' /\ CallOK'
  <2>1. pc' \in [Threads -> PC] /\ call' \in [Threads -> CallType] /\ CallOK'
    BY <1>6, <1>12, IdleLocals DEF BatchInsert, Return
  <2> QED BY <1>0, <1>12, <2>1 DEF BatchInsert, RestOK
<1>13. CASE Control
  <2>1. UNCHANGED <<pinned, clock, queue, pc, call>>
    BY <1>13 DEF Control, StoreBudget, MonitorEvict, ReservePass
  <2>2. budget' \in Nat /\ evictTo' \in Nat \cup {None}
    BY <1>0, <1>13, CacheAssumption
    DEF Control, StoreBudget, MonitorEvict, ReservePass, RestOK
  <2> QED BY <1>0, <2>1, <2>2 DEF RestOK, CallOK
<1> QED
  BY <1>1, <1>2, <1>3, <1>4, <1>5, <1>7, <1>8, <1>9, <1>10, <1>11, <1>12, <1>13
  DEF Next, WorkerCall, InCall

-----------------------------------------------------------------------------
\* The invariant holds in every reachable state.
THEOREM CacheInvariant == Spec => []CacheInv
<1>1. Init => CacheInv
  <2> SUFFICES ASSUME Init PROVE CacheInv
    OBVIOUS
  <2>1. Resident = {}
    BY DEF Init, Resident
  <2>2. bytes = Weigh[Resident] /\ published = bytes
    BY <2>1, EvictionAssumption DEF Init
  <2>3. NoCall \in CallType /\ "idle" \in PC /\ 0 \in 0 .. W - 1
    BY IdleLocals, EvictionAssumption DEF PC
  <2>4. TypeOK
    BY <2>3, CacheAssumption DEF Init, TypeOK
  <2>5. CallOK
    BY DEF Init, CallOK
  <2> QED BY <2>2, <2>4, <2>5 DEF CacheInv, BytesMatchEntries, LedgerMatchesCache
<1>2. CacheInv /\ [Next]_vars => CacheInv'
  <2> SUFFICES ASSUME CacheInv, [Next]_vars PROVE CacheInv'
    OBVIOUS
  <2>1. TypeOK /\ BytesMatchEntries /\ LedgerMatchesCache /\ CallOK
    BY DEF CacheInv
  <2>2. CacheStep
    BY <2>1, StepIsCacheStep
  <2>3. /\ entries' \in [Keys -> Entry \cup {NoEntry}]
        /\ bytes' \in Nat
        /\ bytes' = Weigh[Resident'] /\ published' = bytes'
    BY <2>1, <2>2, CacheStepKeeps
  <2>4. RestOK' /\ CallOK'
    BY <2>1, RestKeeps
  <2>5. TypeOK'
    BY <2>3, <2>4 DEF TypeOK, RestOK
  <2> QED BY <2>3, <2>4, <2>5 DEF CacheInv, BytesMatchEntries, LedgerMatchesCache
<1> QED BY <1>1, <1>2, PTL DEF Spec

\* `bytes` counts every resident expert once, for any experts, sizes, threads
\* and budgets: the insert after a racing load, the partial batch and the
\* eviction pass all keep it exact, so its unsigned subtraction never wraps.
THEOREM BytesAreExact == Spec => [](TypeOK /\ BytesMatchEntries)
<1>1. CacheInv => TypeOK /\ BytesMatchEntries
  BY DEF CacheInv
<1> QED BY <1>1, CacheInvariant, PTL

\* publish_ram on every exit of the eviction pass is enough: whenever the lock
\* is free the ledger's Experts figure is the cache's byte count.
THEOREM LedgerAgrees == Spec => []LedgerMatchesCache
<1>1. CacheInv => LedgerMatchesCache
  BY DEF CacheInv
<1> QED BY <1>1, CacheInvariant, PTL

\* No step of any thread removes a pinned resident expert.
THEOREM PinsHold == Spec => PinnedNeverEvicted
<1>1. CacheInv /\ [Next]_vars =>
        [\A k \in pinned : k \in Resident => k \in Resident']_vars
  <2> SUFFICES ASSUME CacheInv, [Next]_vars
               PROVE  \A k \in pinned : k \in Resident => k \in Resident'
    OBVIOUS
  <2>1. TypeOK /\ BytesMatchEntries /\ LedgerMatchesCache /\ CallOK
    BY DEF CacheInv
  <2>2. CacheStep
    BY <2>1, StepIsCacheStep
  <2> QED BY <2>1, <2>2, CacheStepKeeps
<1> QED BY <1>1, CacheInvariant, PTL DEF Spec, PinnedNeverEvicted

\* A thread that has loaded its batch leaves load_batch by inserting it.
LEMMA BatchEndsInserting ==
  ASSUME TypeOK, [Next]_vars, NEW t \in Threads, pc[t] = "batch", pc'[t] # "batch"
  PROVE  BatchInsert(t)
<1>0. pc \in [Threads -> PC] /\ \A s \in Workers : s \in Threads
  BY DEF TypeOK, Threads
<1>1. ASSUME NEW s \in Threads, pc[s] # "batch", NEW x, pc' = [pc EXCEPT ![s] = x]
      PROVE  FALSE
  BY <1>0, <1>1
<1>2. ASSUME UNCHANGED pc PROVE FALSE
  BY <1>2
<1>3. ASSUME NEW s \in Threads, pc[s] = "idle", NEW op, NEW c, Lookup(s, op, c)
      PROVE  FALSE
  BY <1>1, <1>3 DEF Lookup, Fetched
<1>4. ASSUME NEW s \in Workers, WorkerCall(s) \/ PinRankedFetch(s)
      PROVE  FALSE
  <2>1. s \in Threads /\ pc[s] = "idle"
    BY <1>0, <1>4 DEF WorkerCall, Fetch, Prefetch, PinRankedFetch
  <2>2. ASSUME NEW op, NEW k, Fetch(s, op, k) PROVE FALSE
    BY <1>3, <2>1, <2>2 DEF Fetch
  <2>3. ASSUME NEW B, NEW P, Prefetch(s, B, P) PROVE FALSE
    BY <1>1, <2>1, <2>3 DEF Prefetch
  <2>4. ASSUME PinRankedFetch(s) PROVE FALSE
    BY <1>3, <2>1, <2>4 DEF PinRankedFetch
  <2> QED BY <1>4, <2>2, <2>3, <2>4 DEF WorkerCall
<1>5. ASSUME NEW s \in Threads, FetchFail(s) \/ Pin(s) \/ PinRankedPin(s)
      PROVE  FALSE
  BY <1>1, <1>5 DEF FetchFail, Pin, PinRankedPin, Return
<1>6. ASSUME NEW s \in Threads, FetchInsert(s)
      PROVE  FALSE
  BY <1>1, <1>6 DEF FetchInsert, Fetched
<1>7. ASSUME NEW s \in Threads, BatchFilter(s)
      PROVE  FALSE
  BY <1>1, <1>7 DEF BatchFilter, Return
<1>8. ASSUME NEW s \in Threads, BatchInsert(s)
      PROVE  s = t
  BY <1>0, <1>8 DEF BatchInsert, Return
<1>9. ASSUME LoaderRecv PROVE FALSE
  BY <1>1, <1>9 DEF LoaderRecv, Threads
<1>10. ASSUME Control PROVE FALSE
  BY <1>2, <1>10 DEF Control, StoreBudget, MonitorEvict, ReservePass
<1>11. ASSUME UNCHANGED vars PROVE FALSE
  BY <1>2, <1>11 DEF vars
<1> QED BY <1>4, <1>5, <1>6, <1>7, <1>8, <1>9, <1>10, <1>11 DEF Next, InCall

\* The experts load_batch delivered are all resident when it returns, whatever
\* the budget, the pinned set and the inserts of other threads meanwhile.
THEOREM BatchesSurvive == Spec => BatchSurvivesInsert
<1>1. CacheInv /\ [Next]_vars =>
        [\A t \in Threads : pc[t] = "batch" /\ pc'[t] # "batch" =>
            call[t].loaded \subseteq Resident']_vars
  <2> SUFFICES ASSUME CacheInv, [Next]_vars, NEW t \in Threads,
                      pc[t] = "batch", pc'[t] # "batch"
               PROVE  call[t].loaded \subseteq Resident'
    OBVIOUS
  <2> DEFINE new == call[t].loaded \ Resident
  <2>1. TypeOK /\ BytesMatchEntries /\ CallOK
    BY DEF CacheInv
  <2>2. BatchInsert(t)
    BY <2>1, BatchEndsInserting
  <2>3. call[t].loaded \subseteq Keys /\ call[t].loaded \subseteq call[t].job
    BY <2>1 DEF TypeOK, CallType, CallOK
  <2>4. Insert(new, budget, call[t].job)
    BY <2>2, <2>3 DEF BatchInsert, Insert
  <2>5. \A k \in Keys : k \in pinned \cup call[t].job =>
          (k \in Resident \cup new => k \in Resident')
    BY <2>1, <2>3, <2>4, InsertKeeps
  <2> QED BY <2>3, <2>5
<1> QED BY <1>1, CacheInvariant, PTL DEF Spec, BatchSurvivesInsert

\* An eviction pass ends within its budget, or has nothing left to take.
LEMMA InsertEnforces ==
  ASSUME TypeOK, BytesMatchEntries,
         NEW L \in SUBSET Keys, NEW b, NEW protect, Insert(L, b, protect)
  PROVE  bytes' <= b \/ Resident' \subseteq pinned \cup protect
<1> DEFINE es == WithEntries(L)
           cand == Evictable(es, protect)
<1>1. PICK V \in VictimSets(es, cand, clock, bytes + Weigh[L], b) :
        /\ entries' = [k \in Keys |-> IF k \in V THEN NoEntry ELSE es[k]]
        /\ bytes' = (bytes + Weigh[L]) - Weigh[V]
  BY DEF EvictToProtecting, Insert
<1>2. V = cand \/ (bytes + Weigh[L]) - Weigh[V] <= b
  BY DEF VictimSets
<1>3. CASE V = cand
  BY <1>1, <1>3 DEF Resident, Evictable
<1> QED BY <1>1, <1>2, <1>3

\* Evicting alone does not add bytes.
LEMMA EvictShrinks ==
  ASSUME TypeOK, NEW b, EvictTo(b)
  PROVE  bytes' \in Int /\ bytes' <= bytes
<1>1. PICK V \in VictimSets(entries, Evictable(entries, {}), clock, bytes, b) :
        bytes' = bytes - Weigh[V]
  BY DEF EvictTo, EvictToProtecting
<1>2. V \in SUBSET Keys
  BY DEF VictimSets, Evictable
<1>3. Weigh[V] \in Nat
  BY <1>2, EvictionAssumption
<1> QED BY <1>1, <1>3 DEF TypeOK

\* The insert path enforces the budget it reads: an insertion leaves the cache
\* above it only when all that is left is pinned or of the batch inserted.
THEOREM InsertsEnforceBudget == Spec => OverBudgetOnlyProtected
<1>1. CacheInv /\ [Next]_vars =>
        [bytes' > bytes =>
           \/ bytes' <= budget
           \/ \E t \in Threads : Resident' \subseteq pinned \cup call[t].job]_vars
  <2> SUFFICES ASSUME CacheInv, [Next]_vars, bytes' > bytes
               PROVE  \/ bytes' <= budget
                      \/ \E t \in Threads : Resident' \subseteq pinned \cup call[t].job
    OBVIOUS
  <2>1. TypeOK /\ BytesMatchEntries /\ CallOK /\ bytes \in Nat /\ bytes' # bytes
    BY DEF CacheInv, TypeOK
  <2>2. ASSUME NEW t \in Threads, FetchInsert(t)
        PROVE  bytes' <= budget \/ Resident' \subseteq pinned \cup call[t].job
    <3>1. call[t].key \in Keys /\ call[t].key \notin Resident
      BY <2>1, <2>2 DEF FetchInsert, CallOK
    <3>2. Insert({call[t].key}, budget, {})
      BY <2>1, <2>2, <3>1 DEF FetchInsert, Insert
    <3>3. {call[t].key} \in SUBSET Keys
      BY <3>1
    <3>4. bytes' <= budget \/ Resident' \subseteq pinned \cup {}
      BY <2>1, <3>2, <3>3, InsertEnforces
    <3> QED BY <3>4
  <2>3. ASSUME NEW t \in Threads, BatchInsert(t)
        PROVE  bytes' <= budget \/ Resident' \subseteq pinned \cup call[t].job
    <3>1. call[t].loaded \ Resident \in SUBSET Keys
      BY <2>1 DEF TypeOK, CallType
    <3>2. Insert(call[t].loaded \ Resident, budget, call[t].job)
      BY <2>3, <3>1 DEF BatchInsert, Insert
    <3> QED BY <2>1, <3>1, <3>2, InsertEnforces
  <2>4. ASSUME Control PROVE FALSE
    <3>1. \A b : ~EvictTo(b)
      BY <2>1, EvictShrinks DEF TypeOK
    <3> QED BY <2>1, <2>4, <3>1 DEF Control, StoreBudget, MonitorEvict, ReservePass
  <2>5. ASSUME NEW t, WorkerCall(t) \/ PinRankedFetch(t) PROVE FALSE
    BY <2>1, <2>5 DEF WorkerCall, Fetch, Prefetch, PinRankedFetch, Lookup
  <2>6. ASSUME NEW t, FetchFail(t) \/ Pin(t) \/ PinRankedPin(t) \/ BatchFilter(t)
        PROVE  FALSE
    BY <2>1, <2>6 DEF FetchFail, Pin, PinRankedPin, BatchFilter
  <2>7. ~LoaderRecv /\ ~UNCHANGED vars
    BY <2>1 DEF LoaderRecv, vars
  <2> QED BY <2>2, <2>3, <2>4, <2>5, <2>6, <2>7 DEF Next, InCall
<1> QED BY <1>1, CacheInvariant, PTL DEF Spec, OverBudgetOnlyProtected

-----------------------------------------------------------------------------
(* The pass of the eviction loop.                                          *)

\* The evictable keys.
Cand == Keys \ kept

\* The list holds every evictable key once, in ascending score.
Listed ==
  /\ victims \in [1 .. Len(victims) -> Cand] /\ Len(victims) \in Nat
  /\ \A k \in Cand : \E i \in 1 .. Len(victims) : victims[i] = k
  /\ \A i, j \in 1 .. Len(victims) : i # j => victims[i] # victims[j]
  /\ \A i, j \in 1 .. Len(victims) : i < j => Score(victims[i]) <= Score(victims[j])

PassInput ==
  /\ age \in [Keys -> 0 .. W - 1] /\ heat \in [Keys -> Nat] /\ now \in 0 .. W - 1
  /\ kept \subseteq Keys /\ limit \in Nat

Removed == {victims[i] : i \in 1 .. next - 1}

PassLoop ==
  /\ next \in 1 .. Len(victims) + 1
  /\ left = Keys \ Removed
  /\ size = Weigh[left]
  /\ next > 1 => size + Weigh[{victims[next - 1]}] > limit

PassInv == PassInput /\ Listed /\ PassLoop

\* State::bytes stays the size of what is left.
BytesExact == size = Weigh[left]

-----------------------------------------------------------------------------
(* The score.                                                              *)

\* Wrapping subtraction on a word, on either side of the wrap.
LEMMA ModuloWord ==
  ASSUME NEW x \in Int
  PROVE  /\ x \in 0 .. W - 1 => x % W = x
         /\ x \in (-W) .. (-1) => x % W = x + W
BY EvictionAssumption

\* Wherever the clock stands, the age the score recovers from a timestamp is
\* the true age.
LEMMA AgeRecovered ==
  ASSUME NEW c \in 0 .. W - 1, NEW a \in 0 .. W - 1
  PROVE  (c - ((c - a) % W)) % W = a
<1>1. W \in Nat \ {0} /\ c \in Int /\ a \in Int
  BY EvictionAssumption
<1>2. CASE c >= a
  <2>1. (c - a) % W = c - a
    BY <1>1, <1>2, ModuloWord
  <2>2. c - (c - a) = a
    BY <1>1
  <2> QED
    BY <1>1, <2>1, <2>2, ModuloWord
<1>3. CASE c < a
  <2>1. (c - a) % W = (c - a) + W
    BY <1>1, <1>3, ModuloWord
  <2>2. c - ((c - a) + W) = a - W /\ a - W \in (-W) .. (-1) /\ (a - W) + W = a
    BY <1>1
  <2> QED
    BY <1>1, <2>1, <2>2, ModuloWord
<1> QED
  BY <1>1, <1>2, <1>3

\* Recency in the high bits decides: heat, capped to the low bits, never
\* outweighs one tick of the clock.
LEMMA HighBitsDecide ==
  ASSUME NEW r \in Nat, NEW s \in Nat, NEW m \in Nat \ {0},
         NEW g \in 0 .. m - 1, NEW h \in 0 .. m - 1,
         r * m + g <= s * m + h
  PROVE  r <= s
<1> SUFFICES ASSUME r > s PROVE FALSE
  OBVIOUS
<1>1. PICK d \in Nat : r = s + 1 + d
  <2>1. r - s - 1 \in Nat /\ r = s + 1 + (r - s - 1)
    OBVIOUS
  <2> QED
    BY <2>1
<1>2. r * m = s * m + m + d * m
  BY <1>1
<1>3. d * m \in Nat /\ s * m \in Nat
  OBVIOUS
<1> QED
  BY <1>2, <1>3

Capped(k) == IF heat[k] < HeatCap THEN heat[k] ELSE HeatCap

\* What the score of a key is.
LEMMA ScoreIs ==
  ASSUME PassInput, NEW k \in Keys
  PROVE  /\ Score(k) = ((W - 1) - age[k]) * (HeatCap + 1) + Capped(k)
         /\ Capped(k) \in 0 .. HeatCap /\ age[k] \in 0 .. W - 1
         /\ (W - 1) - age[k] \in Nat /\ HeatCap + 1 \in Nat \ {0}
         /\ Score(k) \in Int
<1>1. age[k] \in 0 .. W - 1 /\ heat[k] \in Nat /\ now \in 0 .. W - 1
  BY DEF PassInput
<1>2. HeatCap \in Nat /\ W \in Nat \ {0}
  BY EvictionAssumption
<1>3. (now - last[k]) % W = age[k]
  BY <1>1, AgeRecovered DEF last
<1>4. Score(k) = ((W - 1) - age[k]) * (HeatCap + 1) + Capped(k)
  BY <1>3 DEF Score, evict_score, Capped
<1>5. Capped(k) \in 0 .. HeatCap
  BY <1>1, <1>2 DEF Capped
<1>6. (W - 1) - age[k] \in Nat /\ HeatCap + 1 \in Nat \ {0}
  BY <1>1, <1>2
<1>7. ((W - 1) - age[k]) * (HeatCap + 1) \in Int
  BY <1>6
<1> QED
  BY <1>1, <1>4, <1>5, <1>6, <1>7

\* A score that is not higher belongs to a key that has been idle as long.
LEMMA ScoreOrdersAges ==
  ASSUME PassInput, NEW k \in Keys, NEW j \in Keys, Score(k) <= Score(j)
  PROVE  age[k] >= age[j]
<1> DEFINE r == (W - 1) - age[k]
           s == (W - 1) - age[j]
           m == HeatCap + 1
<1>1. r \in Nat /\ s \in Nat /\ m \in Nat \ {0}
  BY ScoreIs
<1>2. Capped(k) \in 0 .. m - 1 /\ Capped(j) \in 0 .. m - 1
  BY ScoreIs, EvictionAssumption
<1>3. r * m + Capped(k) <= s * m + Capped(j)
  BY ScoreIs
<1>4. r <= s
  <2> HIDE DEF r, s, m
  <2> QED
    BY <1>1, <1>2, <1>3, HighBitsDecide
<1> QED
  BY <1>4, ScoreIs, EvictionAssumption

-----------------------------------------------------------------------------
(* The loop.                                                               *)

\* Bytes of disjoint sets of experts add up.
LEMMA WeighSplit ==
  ASSUME NEW A \in SUBSET Keys, NEW B \in SUBSET A
  PROVE  /\ Weigh[A] \in Nat /\ Weigh[B] \in Nat /\ Weigh[A \ B] \in Nat
         /\ Weigh[A] = Weigh[A \ B] + Weigh[B]
<1>1. /\ Weigh[A] \in Nat /\ Weigh[B] \in Nat /\ Weigh[A \ B] \in Nat
      /\ Weigh[A \ B] = Weigh[A] - Weigh[B]
  BY WeighMinus
<1> QED BY <1>1

\* sort_unstable_by_key leaves every evictable key in the list, once.
LEMMA SortedListRanks ==
  ASSUME PassInput, victims \in SetToSeqs(Cand), Sorted(victims)
  PROVE  Listed
<1> DEFINE N == Cardinality(Cand)
<1>1. IsFiniteSet(Cand)
  BY EvictionAssumption, FS_Subset DEF Cand
<1>2. N \in Nat
  BY <1>1, FS_CardinalityType
<1>3. /\ victims \in [1 .. N -> Cand]
      /\ \A i, j \in 1 .. N : i # j => victims[i] # victims[j]
  BY DEF SetToSeqs
<1>4. Len(victims) = N
  BY <1>2, <1>3
<1>5. victims \in Injection(1 .. N, Cand)
  BY <1>3 DEF Injection, IsInjective
<1>6. Cardinality(1 .. N) = N
  BY <1>2, FS_Interval
<1>7. victims \in Surjection(1 .. N, Cand)
  BY <1>1, <1>5, <1>6, FS_Injection
<1>8. \A k \in Cand : \E i \in 1 .. N : victims[i] = k
  BY <1>7 DEF Surjection
<1>9. DOMAIN victims = 1 .. N
  BY <1>3
<1> HIDE DEF N
<1> QED
  BY <1>2, <1>3, <1>4, <1>8, <1>9 DEF Listed, Sorted

\* The victims removed so far, and the one that goes next.
LEMMA RemovedFacts ==
  ASSUME PassInv
  PROVE  /\ Removed \subseteq Cand /\ Removed \subseteq Keys
         /\ \A i \in 1 .. Len(victims) : victims[i] \in Removed <=> i < next
<1>1. next \in 1 .. Len(victims) + 1 /\ Len(victims) \in Nat
  BY DEF PassInv, PassLoop, Listed
<1>2. \A i \in 1 .. next - 1 : i \in 1 .. Len(victims)
  BY <1>1
<1>3. Removed \subseteq Cand
  BY <1>2 DEF PassInv, Listed, Removed
<1>4. ASSUME NEW i \in 1 .. Len(victims) PROVE victims[i] \in Removed <=> i < next
  <2>1. ASSUME i < next PROVE victims[i] \in Removed
    BY <1>1, <2>1 DEF Removed
  <2>2. ASSUME victims[i] \in Removed PROVE i < next
    <3>1. PICK j \in 1 .. next - 1 : victims[i] = victims[j]
      BY <2>2 DEF Removed
    <3>2. i = j
      BY <1>2, <3>1 DEF PassInv, Listed
    <3> QED
      BY <1>1, <3>2
  <2> QED
    BY <2>1, <2>2
<1> QED
  BY <1>3, <1>4 DEF Cand

\* The inductive invariant holds of every pass.
LEMMA PassInvariant == PassSpec => []PassInv
<1>1. PassInit => PassInv
  <2> SUFFICES ASSUME PassInit PROVE PassInv
    OBVIOUS
  <2>1. PassInput
    BY DEF PassInit, PassInput
  <2>2. Listed
    BY <2>1, SortedListRanks DEF PassInit, Cand
  <2>3. PassLoop
    <3>1. Len(victims) \in Nat
      BY <2>2 DEF Listed
    <3>2. Removed = {}
      BY DEF PassInit, Removed
    <3> QED
      BY <3>1, <3>2 DEF PassInit, PassLoop
  <2> QED
    BY <2>1, <2>2, <2>3 DEF PassInv
<1>2. PassInv /\ [PassNext]_passVars => PassInv'
  <2> SUFFICES ASSUME PassInv, [PassNext]_passVars PROVE PassInv'
    OBVIOUS
  <2>1. CASE UNCHANGED passVars
    <3>1. PassInput' /\ Listed'
      BY <2>1 DEF passVars, PassInv, PassInput, Listed, Cand, Score, last
    <3>2. PassLoop'
      BY <2>1 DEF passVars, PassInv, PassLoop, Removed
    <3> QED
      BY <3>1, <3>2 DEF PassInv
  <2>2. CASE RemoveVictim
    <3> USE DEF RemoveVictim, input
    <3>1. PassInput' /\ Listed'
      BY <2>2 DEF PassInv, PassInput, Listed, Cand, Score, last
    <3> DEFINE v == victims[next]
    <3>2. next \in 1 .. Len(victims) /\ Len(victims) \in Nat /\ next' = next + 1
      BY <2>2 DEF PassInv, PassLoop, Listed
    <3>3. v \in Keys /\ v \notin Removed /\ v \in left
      BY <3>2, RemovedFacts DEF PassInv, PassLoop, Listed, Cand
    <3>4. Removed' = Removed \cup {v}
      <4>1. Removed' = {victims[i] : i \in 1 .. next}
        BY <2>2, <3>2 DEF Removed
      <4>2. 1 .. next = (1 .. next - 1) \cup {next}
        BY <3>2
      <4> QED
        BY <4>1, <4>2 DEF Removed
    <3>5. left' = Keys \ Removed'
      BY <2>2, <3>4 DEF PassInv, PassLoop
    <3>6. /\ Weigh[left] \in Nat /\ Weigh[{v}] \in Nat /\ Weigh[left \ {v}] \in Nat
          /\ Weigh[left] = Weigh[left \ {v}] + Weigh[{v}]
      <4>1. left \in SUBSET Keys /\ {v} \in SUBSET left
        BY <3>3 DEF PassInv, PassLoop
      <4> QED
        BY <4>1, WeighSplit
    <3>7. size = Weigh[left] /\ size > limit /\ size' = size - Weigh[{v}]
          /\ left' = left \ {v}
      BY <2>2 DEF PassInv, PassLoop
    <3>8. size' = Weigh[left']
      BY <3>6, <3>7
    <3>9. victims'[next' - 1] = v /\ limit' = limit
      BY <2>2, <3>2
    <3>10. size' + Weigh[{victims'[next' - 1]}] > limit'
      <4>1. size' + Weigh[{v}] = size
        BY <3>6, <3>7
      <4> QED
        BY <3>7, <3>9, <4>1
    <3>11. next' \in 1 .. Len(victims') + 1
      BY <2>2, <3>2
    <3> QED
      BY <3>1, <3>5, <3>8, <3>10, <3>11 DEF PassInv, PassLoop
  <2> QED
    BY <2>1, <2>2 DEF PassNext
<1> QED
  BY <1>1, <1>2, PTL DEF PassSpec

\* An evicted key scores no higher than an evictable one that stays.
LEMMA LowestFirst ==
  ASSUME PassInv, NEW k \in Removed, NEW j \in Cand \ Removed
  PROVE  Score(k) <= Score(j)
<1>1. PICK a \in 1 .. Len(victims) : victims[a] = k
  BY RemovedFacts DEF PassInv, Listed
<1>2. PICK b \in 1 .. Len(victims) : victims[b] = j
  BY DEF PassInv, Listed
<1>3. a < next /\ ~(b < next)
  BY <1>1, <1>2, RemovedFacts
<1>4. a < b
  BY <1>3 DEF PassInv, PassLoop, Listed
<1> QED
  BY <1>1, <1>2, <1>4 DEF PassInv, Listed

\* Wherever the clock stands on its circle, evict_to_protecting takes no expert
\* while an evictable one that has been idle for longer stays.
THEOREM EvictsLeastRecentlyUsed == PassSpec => []LeastRecentlyUsedFirst
<1>1. PassInv => LeastRecentlyUsedFirst
  <2> SUFFICES ASSUME PassInv, NEW k \in Keys \ left, NEW j \in left \ kept
               PROVE  age[k] >= age[j]
    BY DEF LeastRecentlyUsedFirst
  <2>1. k \in Removed /\ j \in Cand \ Removed /\ k \in Keys /\ j \in Keys
    BY RemovedFacts DEF PassInv, PassLoop, Cand
  <2> QED
    BY <2>1, LowestFirst, ScoreOrdersAges DEF PassInv
<1> QED
  BY <1>1, PassInvariant, PTL

\* The loop over the list sorted once removes one of the sets that Eviction
\* declares, the one the repeated-minimum scan would: the comment in
\* evict_to_protecting, for every cache content.
THEOREM PassImplementsDeclaration == PassSpec => []OutcomeIsDeclared
<1>1. PassInv => OutcomeIsDeclared
  <2> SUFFICES ASSUME PassInv, Done
               PROVE  Removed \in VictimSets(ents, Cand, now, Weigh[Keys], limit)
    <3>1. ASSUME PassInv PROVE Keys \ left = Removed
      BY <3>1, RemovedFacts DEF PassInv, PassLoop
    <3> QED
      BY <3>1 DEF OutcomeIsDeclared, Cand
  <2>0. next \in 1 .. Len(victims) + 1 /\ Len(victims) \in Nat
    BY DEF PassInv, PassLoop, Listed
  <2>1. \A k \in Keys : evict_score(ents[k].heat, ents[k].last, now) = Score(k)
    BY DEF ents, Score
  <2>2. Removed \in SUBSET Cand /\ Removed \subseteq Keys /\ Cand \subseteq Keys
    BY RemovedFacts DEF Cand
  <2>3. \A v \in Removed, c \in Cand \ Removed : Score(v) <= Score(c)
    BY LowestFirst
  <2>4. /\ Weigh[Keys] \in Nat /\ Weigh[Removed] \in Nat /\ Weigh[left] \in Nat
        /\ Weigh[Keys] = Weigh[left] + Weigh[Removed]
    <3>1. left = Keys \ Removed /\ Removed \in SUBSET Keys
      BY <2>2 DEF PassInv, PassLoop
    <3> QED
      BY <3>1, WeighSplit
  <2>5. Removed = Cand \/ Weigh[Keys] - Weigh[Removed] <= limit
    <3>1. CASE next > Len(victims)
      <4>1. ASSUME NEW k \in Cand PROVE k \in Removed
        <5>1. PICK i \in 1 .. Len(victims) : victims[i] = k
          BY DEF PassInv, Listed
        <5>2. i < next
          BY <2>0, <3>1
        <5> QED
          BY <5>1, <5>2, RemovedFacts
      <4> QED
        BY <2>2, <4>1
    <3>2. CASE size <= limit
      BY <2>4, <3>2 DEF PassInv, PassLoop
    <3> QED
      BY <3>1, <3>2 DEF Done
  <2>6. \/ Removed = {}
        \/ \E v \in Removed : /\ \A u \in Removed : Score(u) <= Score(v)
                             /\ Weigh[Keys] - Weigh[Removed \ {v}] > limit
    <3>1. CASE next = 1
      BY <3>1 DEF Removed
    <3>2. CASE next > 1
      <4> DEFINE v == victims[next - 1]
      <4>1. next - 1 \in 1 .. Len(victims) /\ v \in Removed
        BY <2>0, <3>2, RemovedFacts
      <4>2. ASSUME NEW u \in Removed PROVE Score(u) <= Score(v)
        <5>1. PICK i \in 1 .. next - 1 : victims[i] = u
          BY DEF Removed
        <5>2. i \in 1 .. Len(victims) /\ (i = next - 1 \/ i < next - 1)
          BY <2>0, <5>1
        <5>3. u \in Keys
          BY <2>2
        <5>4. Score(u) \in Int
          BY <5>3, ScoreIs DEF PassInv
        <5> QED
          BY <4>1, <5>1, <5>2, <5>4 DEF PassInv, Listed
      <4>3. /\ Weigh[{v}] \in Nat /\ Weigh[Removed \ {v}] \in Nat
            /\ Weigh[Removed] = Weigh[Removed \ {v}] + Weigh[{v}]
        <5>1. Removed \in SUBSET Keys /\ {v} \in SUBSET Removed
          BY <2>2, <4>1
        <5> QED
          BY <5>1, WeighSplit
      <4>4. size = Weigh[left] /\ size + Weigh[{v}] > limit
        BY <3>2 DEF PassInv, PassLoop
      <4>5. Weigh[Keys] - Weigh[Removed \ {v}] > limit
        <5>1. Weigh[Keys] - Weigh[Removed \ {v}] = size + Weigh[{v}]
          BY <2>4, <4>3, <4>4
        <5> QED
          BY <4>4, <5>1
      <4> QED
        BY <4>1, <4>2, <4>5
    <3>3. next = 1 \/ next > 1
      BY <2>0
    <3> QED
      BY <3>1, <3>2, <3>3, Zenon
  <2> QED
    BY <2>1, <2>2, <2>3, <2>5, <2>6 DEF VictimSets
<1> QED
  BY <1>1, PassInvariant, PTL

\* State::bytes, decremented once per victim, stays the size of what is left,
\* so its unsigned subtraction does not wrap.
THEOREM PassKeepsBytes == PassSpec => []BytesExact
<1>1. PassInv => BytesExact
  BY DEF PassInv, PassLoop, BytesExact
<1> QED
  BY <1>1, PassInvariant, PTL
=============================================================================
