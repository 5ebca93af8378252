----------------------------- MODULE ExpertCache -----------------------------
(***************************************************************************)
(* The resident expert cache, colibri-engine/src/cache.rs.  Several        *)
(* threads use one ExpertCache: forward passes (one per worker connection  *)
(* on a cluster node) call expert and prefetch, start-up pins the hot      *)
(* store, the background loader drains the prefetch queue, and the budget  *)
(* monitor and reserve_ram move `budget` and evict.                        *)
(*                                                                         *)
(* A step is one critical section of `state.lock()` or one operation on an *)
(* atomic or a channel; disk loads happen between steps, with the lock     *)
(* free, and may fail.  A key is a (layer, eid) pair.  The hit, miss and   *)
(* eviction counters and session_usage are statistics and are left out, as *)
(* is what an expert contains.                                             *)
(***************************************************************************)
EXTENDS Eviction, Sequences

CONSTANTS Workers,     \* threads that call expert, prefetch, pin, pin_ranked
          Loader,      \* the thread enable_prefetch spawns
          Ops,         \* worker -> the calls it makes
          Batches,     \* expert sets a layer routes to
          Ranked,      \* keys, hottest first: UsageHistory::ranked
          CountCap,    \* count_cap of pin_ranked
          PinBudget,   \* cache_budget_bytes of warm_pin_auto
          Budgets,     \* values `budget` takes
          QueueCap,    \* bound of the prefetch channel (4)
          MaxHeat,     \* u32::MAX, where heat saturates
          NoEntry,     \* entries[k] of a key that is not resident
          NoKey        \* key of a call that is about no single expert

Threads == Workers \cup {Loader}

\* Entry, without the expert and its size.
Entry == [heat : 1 .. MaxHeat, last : 0 .. W - 1]

ASSUME CacheAssumption ==
  /\ Batches \subseteq SUBSET Keys
  /\ Ranked \in Seq(Keys)
  /\ Budgets \subseteq Nat
  /\ PinBudget \in Nat /\ CountCap \in Nat /\ QueueCap \in Nat
  /\ MaxHeat \in Nat \ {0}
  /\ Ops \in [Workers -> SUBSET {"expert", "pin", "rank", "prefetch"}]
  /\ Loader \notin Workers
  /\ NoKey \notin Keys
  /\ NoEntry \notin Entry

VARIABLES
  entries,    \* State::entries: key -> its Entry or NoEntry
  pinned,     \* State::pinned
  bytes,      \* State::bytes
  clock,      \* State::clock
  budget,     \* AtomicU64 budget
  published,  \* what the ledger was last told of Class::Experts
  queue,      \* the prefetch channel
  pc,         \* thread -> where it is inside a call
  call,       \* thread -> the locals of that call
  evictTo     \* budget of an eviction the monitor still has to run, or None

vars == <<entries, pinned, bytes, clock, budget, published, queue, pc, call, evictTo>>

None == -1

\* Where other threads may run:
\*   load    fetch missed and is loading the expert
\*   pin     the fetch of pin or pin_ranked returned; pinned.insert comes next
\*   filter  about to take the lock and keep the experts that are missing
\*   batch   load_batch is loading the missing experts
PC == {"idle", "load", "pin", "filter", "batch"}

\* op, key: the call and its expert; job: the batch, then its missing part;
\* loaded: the part of it the disk delivers; n, bytes: what pin_ranked has
\* pinned so far.
NoCall == [op |-> "none", key |-> NoKey, job |-> {}, loaded |-> {},
           n |-> 0, bytes |-> 0]

Resident == {k \in Keys : entries[k] # NoEntry}

Init ==
  /\ entries = [k \in Keys |-> NoEntry]
  /\ pinned = {}
  /\ bytes = 0
  /\ clock = 0
  /\ budget \in Budgets
  /\ published = 0
  /\ queue = <<>>
  /\ pc = [t \in Threads |-> "idle"]
  /\ call = [t \in Threads |-> NoCall]
  /\ evictTo = None

\* The locals of a finished pin_ranked: start-up runs it once.
RankingOver == [NoCall EXCEPT !.n = CountCap]

Return(t) == pc' = [pc EXCEPT ![t] = "idle"] /\ call' = [call EXCEPT ![t] = NoCall]

-----------------------------------------------------------------------------
(* Eviction: evict_to and evict_to_protecting.                             *)

\* Mutant: the filter forgets the pinned set.
Evictable_IgnoresPins(ents, protect) ==
  {k \in Keys : ents[k] # NoEntry} \ protect

\* The keys the eviction pass may take.
Evictable(ents, protect) ==
  {k \in Keys : ents[k] # NoEntry} \ (pinned \cup protect)

\* Mutant: the early return for a cache that already fits skips publish_ram.
EvictToProtecting_EarlyReturn(ents, held, b, protect) ==
  \E V \in VictimSets(ents, Evictable(ents, protect), clock, held, b) :
    /\ entries' = [k \in Keys |-> IF k \in V THEN NoEntry ELSE ents[k]]
    /\ bytes' = held - Weigh[V]
    /\ published' = IF held <= b THEN published ELSE held - Weigh[V]

\* The pass itself: victims leave the map, their bytes are given back, and
\* publish_ram tells the ledger what is left, on every exit.
EvictToProtecting(ents, held, b, protect) ==
  \E V \in VictimSets(ents, Evictable(ents, protect), clock, held, b) :
    /\ entries' = [k \in Keys |-> IF k \in V THEN NoEntry ELSE ents[k]]
    /\ bytes' = held - Weigh[V]
    /\ published' = held - Weigh[V]

EvictTo(b) == EvictToProtecting(entries, bytes, b, {})

\* The map with the experts of L added: heat 1, last the current clock.
WithEntries(L) ==
  [k \in Keys |-> IF k \in L THEN [heat |-> 1, last |-> clock] ELSE entries[k]]

-----------------------------------------------------------------------------
(* fetch, and pin and pin_ranked, which are built on it.                   *)

\* The next step of the caller once its fetch has an expert: expert returns
\* it, pin and pin_ranked go on to pinned.insert.
Fetched(t, op, c) ==
  IF op = "expert"
  THEN pc' = [pc EXCEPT ![t] = "idle"] /\ call' = [call EXCEPT ![t] = NoCall]
  ELSE pc' = [pc EXCEPT ![t] = "pin"] /\ call' = [call EXCEPT ![t] = c]

\* A hit: heat.saturating_add(1), last = clock.
Touched(e, now) == [heat |-> IF e.heat < MaxHeat THEN e.heat + 1 ELSE MaxHeat,
                    last |-> now]

\* fetch, first critical section: tick the clock, and either refresh the
\* resident entry or note a miss and go to load it.
Lookup(t, op, c) ==
  LET k   == c.key
      now == (clock + 1) % W
  IN  /\ clock' = now
      /\ \/ /\ k \in Resident
            /\ entries' = [entries EXCEPT ![k] = Touched(@, now)]
            /\ Fetched(t, op, c)
         \/ /\ k \notin Resident
            /\ pc' = [pc EXCEPT ![t] = "load"]
            /\ call' = [call EXCEPT ![t] = c]
            /\ UNCHANGED entries
      /\ UNCHANGED <<pinned, bytes, budget, published, queue, evictTo>>

\* expert(k) and pin(k).
Fetch(t, op, k) ==
  /\ pc[t] = "idle" /\ op \in Ops[t] \cap {"expert", "pin"}
  /\ Lookup(t, op, [NoCall EXCEPT !.op = op, !.key = k])

\* The load fails: expert and pin return the error, and so does pin_ranked,
\* keeping what it has pinned.
FetchFail(t) ==
  /\ pc[t] = "load"
  /\ pc' = [pc EXCEPT ![t] = "idle"]
  /\ call' = [call EXCEPT ![t] = IF @.op = "rank" THEN RankingOver ELSE NoCall]
  /\ UNCHANGED <<entries, pinned, bytes, clock, budget, published, queue, evictTo>>

\* Mutants: the map is not looked at again after the load; the caller waits
\* until the expert it loaded is still resident.
FetchInsert_NoRecheck(t) ==
  /\ pc[t] = "load"
  /\ LET k == call[t].key
     IN EvictToProtecting(WithEntries({k}), bytes + Weigh[{k}], budget, {})
  /\ Fetched(t, call[t].op, call[t])
  /\ UNCHANGED <<pinned, clock, budget, queue, evictTo>>
FetchInsert_UntilResident(t) ==
  /\ pc[t] = "load"
  /\ LET k == call[t].key
     IN /\ IF k \in Resident THEN UNCHANGED <<entries, bytes, published>>
           ELSE EvictToProtecting(WithEntries({k}), bytes + Weigh[{k}], budget, {})
        /\ IF entries'[k] # NoEntry THEN Fetched(t, call[t].op, call[t])
           ELSE UNCHANGED <<pc, call>>
  /\ UNCHANGED <<pinned, clock, budget, queue, evictTo>>

\* fetch, second critical section, after the load: another thread may have
\* inserted the expert meanwhile; otherwise insert it and evict to `budget`,
\* nothing protected.
FetchInsert(t) ==
  /\ pc[t] = "load"
  /\ LET k == call[t].key
     IN \/ k \in Resident /\ UNCHANGED <<entries, bytes, published>>
        \/ /\ k \notin Resident
           /\ EvictToProtecting(WithEntries({k}), bytes + Weigh[{k}], budget, {})
  /\ Fetched(t, call[t].op, call[t])
  /\ UNCHANGED <<pinned, clock, budget, queue, evictTo>>

\* pin: pinned.insert, its own critical section.
Pin(t) ==
  /\ pc[t] = "pin" /\ call[t].op = "pin"
  /\ pinned' = pinned \cup {call[t].key}
  /\ Return(t)
  /\ UNCHANGED <<entries, bytes, clock, budget, published, queue, evictTo>>

\* warm_pin_auto: 80% of the cache budget, divided first so as not to overflow.
ByteCap == (PinBudget \div 5) * 4

\* pin_ranked starts, or goes on to its next expert: fetch Ranked[n + 1].
PinRankedFetch(t) ==
  /\ pc[t] = "idle" /\ "rank" \in Ops[t]
  /\ call[t].n < CountCap /\ call[t].n < Len(Ranked)
  /\ Lookup(t, "rank", [call[t] EXCEPT !.op = "rank", !.key = Ranked[call[t].n + 1]])

OverCap(t) == call[t].n > 0 /\ call[t].bytes + Weigh[{call[t].key}] > ByteCap

\* The expert is loaded; if it does not fit it stays unpinned and pinning is
\* over, else it is pinned and counted.
PinRankedPin(t) ==
  /\ pc[t] = "pin" /\ call[t].op = "rank"
  /\ pc' = [pc EXCEPT ![t] = "idle"]
  /\ \/ /\ OverCap(t)
        /\ call' = [call EXCEPT ![t] = RankingOver]
        /\ UNCHANGED pinned
     \/ /\ ~OverCap(t)
        /\ pinned' = pinned \cup {call[t].key}
        /\ call' = [call EXCEPT ![t] = [NoCall EXCEPT !.n = call[t].n + 1,
                                          !.bytes = call[t].bytes + Weigh[{call[t].key}]]]
  /\ UNCHANGED <<entries, bytes, clock, budget, published, queue, evictTo>>

-----------------------------------------------------------------------------
(* prefetch, load_batch and the background loader.                         *)

\* prefetch(B): hand the predicted set P of the next layer to the loader with
\* try_send (P = {} when nothing is predicted or prefetch is off; a full
\* channel drops it), then load_batch(B).
Prefetch(t, B, P) ==
  /\ pc[t] = "idle" /\ "prefetch" \in Ops[t]
  /\ queue' = IF P = {} \/ Len(queue) >= QueueCap THEN queue ELSE Append(queue, P)
  /\ pc' = [pc EXCEPT ![t] = "filter"]
  /\ call' = [call EXCEPT ![t].job = B]
  /\ UNCHANGED <<entries, pinned, bytes, clock, budget, published, evictTo>>

\* The loader thread receives the next set.
LoaderRecv ==
  /\ pc[Loader] = "idle" /\ queue # <<>>
  /\ queue' = Tail(queue)
  /\ pc' = [pc EXCEPT ![Loader] = "filter"]
  /\ call' = [call EXCEPT ![Loader].job = Head(queue)]
  /\ UNCHANGED <<entries, pinned, bytes, clock, budget, published, evictTo>>

\* load_batch, first critical section: which of the batch is missing.  The
\* pooled read delivers all of it, or the one-by-one fallback some of it.
BatchFilter(t) ==
  /\ pc[t] = "filter"
  /\ LET missing == call[t].job \ Resident
     IN IF missing = {} THEN Return(t)
        ELSE \E got \in SUBSET missing :
               /\ pc' = [pc EXCEPT ![t] = "batch"]
               /\ call' = [call EXCEPT ![t].job = missing, ![t].loaded = got]
  /\ UNCHANGED <<entries, pinned, bytes, clock, budget, published, queue, evictTo>>

\* Mutant: the batch is evicted like any other expert.
BatchInsert_Unprotected(t) ==
  /\ pc[t] = "batch"
  /\ LET new == call[t].loaded \ Resident
     IN EvictToProtecting(WithEntries(new), bytes + Weigh[new], budget, {})
  /\ Return(t)
  /\ UNCHANGED <<pinned, clock, budget, queue, evictTo>>

\* Mutant: the eviction leaves room for another batch on top of the budget.
BatchInsert_Slack(t) ==
  /\ pc[t] = "batch"
  /\ LET new == call[t].loaded \ Resident
     IN EvictToProtecting(WithEntries(new), bytes + Weigh[new],
                          budget + Weigh[call[t].job], call[t].job)
  /\ Return(t)
  /\ UNCHANGED <<pinned, clock, budget, queue, evictTo>>

\* load_batch, second critical section: insert what was loaded and is still
\* absent, then one eviction that protects the whole missing set.
BatchInsert(t) ==
  /\ pc[t] = "batch"
  /\ LET new == call[t].loaded \ Resident
     IN EvictToProtecting(WithEntries(new), bytes + Weigh[new], budget, call[t].job)
  /\ Return(t)
  /\ UNCHANGED <<pinned, clock, budget, queue, evictTo>>

-----------------------------------------------------------------------------
(* The budget monitor and reserve_ram; AdaptiveBudget computes the values. *)

\* A tick stores a new budget; the guards then evict to it, and the soft path
\* only if it is below the resident bytes it read earlier.
StoreBudget(b, e) ==
  /\ evictTo = None
  /\ budget' = b
  /\ evictTo' = e
  /\ UNCHANGED <<entries, pinned, bytes, clock, published, queue, pc, call>>

MonitorEvict ==
  /\ evictTo # None
  /\ EvictTo(evictTo)
  /\ evictTo' = None
  /\ UNCHANGED <<pinned, clock, budget, queue, pc, call>>

\* One pass of reserve_ram: evict and store the target in one critical section.
ReservePass(b) ==
  /\ b < bytes
  /\ EvictTo(b)
  /\ budget' = b
  /\ UNCHANGED <<pinned, clock, queue, pc, call, evictTo>>

-----------------------------------------------------------------------------
WorkerCall(t) ==
  \/ \E op \in {"expert", "pin"}, k \in Keys : Fetch(t, op, k)
  \/ \E B \in Batches, P \in Batches \cup {{}} : Prefetch(t, B, P)

\* A thread in the middle of a call.
InCall(t) == \/ FetchFail(t) \/ FetchInsert(t) \/ Pin(t) \/ PinRankedPin(t)
             \/ BatchFilter(t) \/ BatchInsert(t)

Control == \/ \E b \in Budgets : StoreBudget(b, b) \/ StoreBudget(b, None)
           \/ MonitorEvict
           \/ \E b \in Budgets : ReservePass(b)

Next == \/ \E t \in Workers : WorkerCall(t) \/ PinRankedFetch(t)
        \/ \E t \in Threads : InCall(t)
        \/ LoaderRecv
        \/ Control

\* Every thread inside a call is scheduled and every disk read ends, with the
\* expert or with an error; the loader runs for the life of the process.
Fairness == /\ \A t \in Threads : WF_vars(InCall(t))
            /\ WF_vars(LoaderRecv)

Spec == Init /\ [][Next]_vars /\ Fairness

-----------------------------------------------------------------------------
(* Properties.                                                             *)

CallType == [op : {"none", "expert", "pin", "rank"}, key : Keys \cup {NoKey},
             job : SUBSET Keys, loaded : SUBSET Keys, n : Nat, bytes : Nat]

\* Every variable ranges over its type: in particular `bytes` never goes below
\* zero when victims are subtracted, and heat and clock stay in their words.
TypeOK ==
  /\ entries \in [Keys -> Entry \cup {NoEntry}]
  /\ pinned \subseteq Keys
  /\ bytes \in Nat
  /\ clock \in 0 .. W - 1
  /\ budget \in Nat
  /\ published \in Nat
  /\ queue \in Seq(SUBSET Keys)
  /\ pc \in [Threads -> PC]
  /\ call \in [Threads -> CallType]
  /\ evictTo \in Nat \cup {None}

\* State::bytes is exactly the size of what is resident, although two threads
\* may load the same expert at once, batches may fail in part, and eviction
\* subtracts per victim: no expert is counted twice or forgotten.
BytesMatchEntries == bytes = Weigh[Resident]

\* The doc of publish_ram: publishing on every exit of the eviction pass covers
\* every mutation of `bytes`.  Whenever the lock is free, the ledger's figure
\* for Class::Experts is the cache's own.
LedgerMatchesCache == published = bytes

\* The module doc, "Pinned experts (the hot-store) are never evicted": a pinned
\* key that is resident stays resident, whoever evicts and why.
PinnedNeverEvicted == [][\A k \in pinned : k \in Resident => k \in Resident']_vars

\* The doc of evict_to_protecting: the experts a batch has loaded survive
\* their own insertion, whatever the budget is by then and whoever inserted
\* some of them first.
BatchSurvivesInsert ==
  [][\A t \in Threads :
       pc[t] = "batch" /\ pc'[t] # "batch" => call[t].loaded \subseteq Resident']_vars

\* The doc of spawn_adaptive_budget, "The insert path also enforces `budget`":
\* an insertion leaves the cache above its budget only when nothing is left to
\* evict but pinned experts and the batch being inserted.
OverBudgetOnlyProtected ==
  [][bytes' > bytes =>
       \/ bytes' <= budget
       \/ \E t \in Threads : Resident' \subseteq pinned \cup call[t].job]_vars

\* Every call returns, even when the expert it loads does not fit beside the
\* pinned ones and is evicted by its own insertion.
CallsReturn == \A t \in Threads : pc[t] # "idle" ~> pc[t] = "idle"
=============================================================================
