------------------------------ MODULE ShardReads ------------------------------
(***************************************************************************)
(* How expert bytes come from the shard files into memory                  *)
(* (colibri-safetensors/src/lib.rs): read_raw_shared and                   *)
(* read_raw_shared_batched coalesce the tensors of a group that lie        *)
(* back to back into spans, serve a span from the mapping when its pages   *)
(* are resident, and otherwise read it into a buffer of the pool: with     *)
(* io_uring when direct I/O is on and the ring is asked for, with a pool   *)
(* of reader threads otherwise and whenever the ring failed.               *)
(*                                                                         *)
(* A byte is <<file, offset>>.  The tiles of a batch are disjoint and the  *)
(* buffers belong to the call alone, so a drain is one step; what other    *)
(* threads share are the pool and the page-locks.                          *)
(***************************************************************************)
EXTENDS BufferPool

CONSTANTS
    Tensor,     \* name -> [file, off, nbytes], the index of Shards
    FileLen,    \* file -> its length
    Loaders,    \* threads that load experts
    Setups,     \* what a start-up may select: [arena, pin_max, flags, calls]; calls
                \* gives each loader the calls it makes, [single, groups]
    READ_SUB,   \* read_sub_bytes: the tile size
    MaxHeld     \* the cache's room, in spans: a call begins when its spans fit

NoBuf == 0      \* the buffer of a mapped span

\* The index is true of the files: a tensor has bytes, and its file holds them.
ASSUME IndexAssumption ==
    \A n \in DOMAIN Tensor :
      /\ Tensor[n] \in [file : Nat, off : Nat, nbytes : Nat \ {0}]
      /\ FileLen[Tensor[n].file] \in Nat
      /\ Tensor[n].off + Tensor[n].nbytes <= FileLen[Tensor[n].file]

\* Loaders call with finite groups of names; an arena that was claimed has slots
\* of some size, and the bound on allocations leaves room for them.
ASSUME LoadAssumption ==
    /\ IsFiniteSet(Loaders) /\ Loaders # {} /\ READ_SUB \in Nat \ {0} /\ MaxHeld \in Nat
    /\ NoBuf \notin Bufs /\ \A b \in Bufs : Addr[b] \in 0..(DIO_ALIGN - 1)
    /\ \A s \in Setups :
         /\ s.arena \in [slot_bytes : Nat, slots : Nat] /\ s.pin_max \in Nat
         /\ 1..s.arena.slots \subseteq Bufs
         /\ s.arena.slots > 0 => s.arena.slot_bytes > 0
         /\ s.flags \in [dio : BOOLEAN, ring : BOOLEAN, mmap : BOOLEAN, direct : BOOLEAN]
         /\ DOMAIN s.calls = Loaders
         /\ \A l \in Loaders : \A r \in s.calls[l] :
              /\ r.single \in BOOLEAN /\ Len(r.groups) \in Nat
              /\ \A g \in 1..Len(r.groups) : IsFiniteSet(r.groups[g])

VARIABLES
    flags,    \* o_direct_enabled (dio), uring_enabled (ring), mmap_enabled, and
              \* whether the file system opens files for direct I/O
    calls,
    ld,       \* loader -> its call
    held,     \* spans some expert of the cache still references
    evictor,  \* the span a thread of the cache is dropping
    doubtful  \* history: a ring came up short, or was closed on its requests

vars == <<poolVars, flags, calls, ld, held, evictor, doubtful>>

NoSpan == [file |-> 0, read_off |-> 0, read_len |-> 0, skew |-> 0, buf |-> 0,
           views |-> {}]
Idle   == [pc |-> "idle", single |-> FALSE, todo |-> <<>>, spans |-> <<>>,
           buf |-> 0, spins |-> 0]

-----------------------------------------------------------------------------
(* Spans *)

\* Sorted by file and offset.
Earlier(m, n) == \/ Tensor[m].file < Tensor[n].file
                 \/ Tensor[m].file = Tensor[n].file /\ Tensor[m].off < Tensor[n].off

\* The group's tensors by file and offset; which of two with the same key comes
\* first depends on how the caller listed them.
Ordered(S) == CHOOSE q \in [1..Cardinality(S) -> S] :
                \A i, j \in 1..Cardinality(S) : i < j => q[i] # q[j] /\ ~Earlier(q[j], q[i])

\* A span of the tensor n alone, and the span p with n after it.
SpanOf(n) == [file |-> Tensor[n].file, off |-> Tensor[n].off, names |-> {n},
              len |-> Tensor[n].nbytes]
Joined(p, n) == [file |-> p.file, off |-> p.off, names |-> p.names \cup {n},
                 len |-> p.len + Tensor[n].nbytes]

\* n begins where the span p ends, in the same file.
FollowsOn(p, n) == p.file = Tensor[n].file /\ Tensor[n].off = p.off + p.len

\* The runs of a group's tensors in which each one follows on the one before:
\* the spans after the first i tensors, for every i.
Coalesced(S) ==
    LET order == Ordered(S)
        spans[i \in 0..Cardinality(S)] ==
          IF i = 0 THEN <<>>
          ELSE IF i > 1 /\ FollowsOn(Last(spans[i - 1]), order[i])
               THEN [spans[i - 1] EXCEPT ![Len(spans[i - 1])] = Joined(@, order[i])]
               ELSE Append(spans[i - 1], SpanOf(order[i]))
    IN spans[Cardinality(S)]

\* A group with a name the index does not have: the call ends there.
Missing == [file |-> 0, off |-> 0, names |-> {}, len |-> 0]

Plan == [r \in UNION {UNION Range(s.calls) : s \in Setups} |->
           FlattenSeq([g \in 1..Len(r.groups) |->
             IF r.groups[g] \subseteq DOMAIN Tensor THEN Coalesced(r.groups[g])
             ELSE <<Missing>>])]

RoundUp(n) == ((n + DIO_ALIGN - 1) \div DIO_ALIGN) * DIO_ALIGN

\* Direct I/O is a matter of the batched call only.
Dio(l) == flags.dio /\ ~ld[l].single

Pad(l, sp)     == IF Dio(l) THEN sp.off % DIO_ALIGN ELSE 0
ReadLen(l, sp) == IF Dio(l) THEN RoundUp(Pad(l, sp) + sp.len) ELSE sp.len
Want(l, sp)    == ReadLen(l, sp) + (IF Dio(l) THEN DIO_ALIGN ELSE 0)

\* The distance from the buffer's own address to the next aligned one.
Skew(l, b) == IF Dio(l) THEN (DIO_ALIGN - Addr[b]) % DIO_ALIGN ELSE 0

\* Where each tensor of the span lies in the buffer.
Views(sp, prefix) ==
    {[name |-> n, at |-> prefix + Tensor[n].off - sp.off] : n \in sp.names}

HeapSpan(l, sp, b) ==
    [file |-> sp.file, read_off |-> sp.off - Pad(l, sp), read_len |-> ReadLen(l, sp),
     skew |-> Skew(l, b), buf |-> b, views |-> Views(sp, Skew(l, b) + Pad(l, sp))]

MappedSpan(sp) ==
    [file |-> sp.file, read_off |-> sp.off, read_len |-> 0, skew |-> 0,
     buf |-> NoBuf, views |-> Views(sp, 0)]

-----------------------------------------------------------------------------
(* Reading *)

Tiles(s)   == {k \in 0..s.read_len : k * READ_SUB < s.read_len}
TileEnd(s, k) == Min({s.read_len, (k + 1) * READ_SUB})

\* A tile that reaches past the end of its file: read_exact_at fails on it, a
\* ring's completion is short by the missing bytes.
PastEof(s, k) == s.read_off + TileEnd(s, k) > FileLen[s.file]

\* A span's buffer after all its tiles have been read: the bytes of the file are
\* written from the aligned address on, the rest stays as it was.
Filled(s, data) ==
    [i \in 1..Len(data) |->
       LET o == i - 1 - s.skew
           tile == {k \in Tiles(s) : o >= k * READ_SUB /\ o < TileEnd(s, k)}
       IN IF tile # {} /\ s.read_off + o < FileLen[s.file]
          THEN <<s.file, s.read_off + o>> ELSE data[i]]

\* The memory after all tiles of the spans in S have been read.
After(S) ==
    [b \in Bufs |->
       IF \E s \in S : s.buf = b
       THEN LET s == CHOOSE s \in S : s.buf = b
            IN [heap[b] EXCEPT !.data = Filled(s, @)]
       ELSE heap[b]]

BufsOf(ss) == {ss[i].buf : i \in 1..Len(ss)} \ {NoBuf}

-----------------------------------------------------------------------------
(* A load *)

\* An error: the spans of the call are dropped.
Unwind(l) == ld' = [ld EXCEPT ![l].pc = "unwind", ![l].todo = <<>>]

InFlight == MapThenSumSet(LAMBDA l : Len(ld[l].todo) + Len(ld[l].spans), Loaders)

Begin(l) ==
    /\ ld[l].pc = "idle"
    /\ \E r \in calls[l] :
         /\ Cardinality(held) + InFlight + Len(Plan[r]) <= MaxHeld
         /\ ld' = [ld EXCEPT ![l].pc = "span", ![l].single = r.single, ![l].todo = Plan[r]]
    /\ UNCHANGED <<poolVars, flags, calls, held, evictor, doubtful>>

\* Each group's names are looked up before its spans are set up; buffers of the
\* groups before it go back.
LookupFails(l) ==
    /\ ld[l].pc = "span" /\ ld[l].todo # <<>> /\ Head(ld[l].todo) = Missing
    /\ Unwind(l)
    /\ UNCHANGED <<poolVars, flags, calls, held, evictor, doubtful>>

Pending(l) == /\ ld[l].pc \in {"span", "wait"}
              /\ ld[l].todo # <<>> /\ Head(ld[l].todo) # Missing

\* Mapping is on and, as the page cache has it, every page is resident.
mapped_view(l) == flags.mmap

MapSpan(l) ==
    /\ Pending(l) /\ ld[l].pc = "span" /\ mapped_view(l)
    /\ ld' = [ld EXCEPT ![l].todo = Tail(@),
                        ![l].spans = Append(@, MappedSpan(Head(ld[l].todo)))]
    /\ UNCHANGED <<poolVars, flags, calls, held, evictor, doubtful>>

\* The span's buffer is there: a single read reads it at once, a batch goes on
\* with the next span.
Got(l, b) ==
    ld' = [ld EXCEPT ![l].pc = IF ld[l].single THEN "read" ELSE "span",
                     ![l].buf = NoBuf, ![l].spins = 0, ![l].todo = Tail(@),
                     ![l].spans = Append(@, HeapSpan(l, Head(ld[l].todo), b))]

Take(l) ==
    /\ Pending(l)
    /\ \E b \in Bufs : Recycle(b, Want(l, Head(ld[l].todo))) /\ Got(l, b)
    /\ UNCHANGED <<flags, calls, held, evictor, doubtful>>

Wait(l) ==
    /\ Pending(l)
    /\ MustWait(Want(l, Head(ld[l].todo))) /\ ~GaveUp(ld[l].spins)
    /\ ld' = [ld EXCEPT ![l].pc = "wait", ![l].spins = IF @ < SPINS THEN @ + 1 ELSE SPINS]
    /\ UNCHANGED <<poolVars, flags, calls, held, evictor, doubtful>>

\* A fresh allocation; pin_alloc checks the ceiling here ...
Alloc(l) ==
    /\ Pending(l)
    /\ LET len == Want(l, Head(ld[l].todo))
       IN /\ len < POOL_MIN \/ Fit(len) = 0
          /\ MustWait(len) => GaveUp(ld[l].spins)
          /\ \E b \in Bufs :
               /\ Allocate(b, len)
               /\ IF PinAllowed(len) THEN ld' = [ld EXCEPT ![l].pc = "register", ![l].buf = b]
                  ELSE Got(l, b)
    /\ UNCHANGED <<flags, calls, held, evictor, doubtful>>

\* ... and the lock is taken here, unless the driver refuses.
PinTake(l) ==
    /\ ld[l].pc = "register"
    /\ PinRegister(ld[l].buf) \/ UNCHANGED poolVars
    /\ Got(l, ld[l].buf)
    /\ UNCHANGED <<flags, calls, held, evictor, doubtful>>

SetUp(l) == ld[l].pc = "span" /\ ld[l].todo = <<>>

\* The spans become the Arcs the expert's tensors share.
Return(l) == /\ held' = held \cup Range(ld[l].spans)
             /\ ld' = [ld EXCEPT ![l] = Idle]

\* drain_jobs_uring: every completion is at least 0.  One that is short leaves
\* the rest of its tile as it was, and is not told from a full one.
RingDrains(l) ==
    /\ SetUp(l) /\ Dio(l) /\ flags.ring /\ flags.direct
    /\ \E short \in SUBSET BufsOf(ld[l].spans) :
         /\ heap' = After({s \in Range(ld[l].spans) : s.buf \notin short})
         /\ doubtful' = (doubtful \/ short # {})
    /\ Return(l)
    /\ UNCHANGED <<arena, pinMax, pool, pinned, registered, pinBytes, flags, calls, evictor>>

\* A ring that cannot be set up or reports an error is closed and the reader
\* pool does all of the batch again.  What the kernel has not completed by then
\* it may still write later, into whatever the buffer is used for.
RingFails(l) ==
    /\ SetUp(l) /\ Dio(l) /\ flags.ring /\ flags.direct
    /\ doubtful' \in {doubtful, TRUE}
    /\ ld' = [ld EXCEPT ![l].pc = "pool"]
    /\ UNCHANGED <<poolVars, flags, calls, held, evictor>>

\* The reader threads: all tiles are read, or some failed and the call returns
\* the error.  A tile past the end of its file always fails.
Truncated(l) == \E i \in 1..Len(ld[l].spans) : \E k \in Tiles(ld[l].spans[i]) :
                  PastEof(ld[l].spans[i], k)

PoolStart(l) == \/ ld[l].pc = "pool"
                \/ SetUp(l) /\ ~ld[l].single /\ ~(Dio(l) /\ flags.ring /\ flags.direct)

PoolReads(l) ==
    /\ PoolStart(l) /\ ~Truncated(l)
    /\ heap' = After(Range(ld[l].spans))
    /\ Return(l)
    /\ UNCHANGED <<arena, pinMax, pool, pinned, registered, pinBytes, flags, calls, evictor, doubtful>>

\* What was read until then goes back with the buffers.
PoolFails(l) ==
    /\ PoolStart(l) /\ BufsOf(ld[l].spans) # {}
    /\ Unwind(l)
    /\ UNCHANGED <<poolVars, flags, calls, held, evictor, doubtful>>

\* read_raw_shared: pread_chunked fills the span just set up, or fails.
SingleReads(l) ==
    /\ ld[l].pc = "read"
    /\ heap' = After({Last(ld[l].spans)})
    /\ ld' = [ld EXCEPT ![l].pc = "span"]
    /\ UNCHANGED <<arena, pinMax, pool, pinned, registered, pinBytes, flags, calls, held, evictor, doubtful>>

SingleFails(l) ==
    /\ ld[l].pc = "read"
    /\ Unwind(l)
    /\ UNCHANGED <<poolVars, flags, calls, held, evictor, doubtful>>

\* Every span has been set up and read.
SingleDone(l) ==
    /\ SetUp(l) /\ ld[l].single
    /\ Return(l)
    /\ UNCHANGED <<poolVars, flags, calls, evictor, doubtful>>

-----------------------------------------------------------------------------
(* Dropping a span: by the failed call that owns it, or by the cache *)

\* The pool takes the span's buffer back (a mapped span owns none); `after` is
\* what its owner does next.
Returned(s, after) ==
    /\ IF s.buf = NoBuf THEN UNCHANGED poolVars ELSE PushBack(s.buf)
    /\ after
    /\ UNCHANGED doubtful

\* The pool is full, or the buffer too small for it: freed in two steps, by
\* the same thread, outside the lock.
Rejected(s, after) ==
    /\ s.buf # NoBuf /\ ~Accepts(s.buf)
    /\ after
    /\ UNCHANGED <<poolVars, doubtful>>

Freed(s, after) ==
    /\ \/ Unpin(s.buf) /\ UNCHANGED <<ld, evictor>>
       \/ Release(s.buf) /\ after
    /\ UNCHANGED doubtful

\* The error path drops the spans of the call one by one.
UnwindStep(l) ==
    LET s    == Head(ld[l].spans)
        next == ld' = [ld EXCEPT ![l].pc = "unwind", ![l].spans = Tail(@)] /\ UNCHANGED evictor
    IN /\ ld[l].spans # <<>>
       /\ \/ ld[l].pc = "unwind" /\ Returned(s, next)
          \/ ld[l].pc = "unwind" /\ Rejected(s, ld' = [ld EXCEPT ![l].pc = "free"] /\ UNCHANGED evictor)
          \/ ld[l].pc = "free"   /\ Freed(s, next)
       /\ UNCHANGED <<flags, calls, held>>

Fail(l) ==
    /\ ld[l].pc = "unwind" /\ ld[l].spans = <<>>
    /\ ld' = [ld EXCEPT ![l] = Idle]
    /\ UNCHANGED <<poolVars, flags, calls, held, evictor, doubtful>>

\* The last tensor of a span leaves the cache.
Evict ==
    /\ evictor = NoSpan
    /\ \E s \in held :
         /\ held' = held \ {s}
         /\ \/ Returned(s, UNCHANGED <<ld, evictor>>)
            \/ Rejected(s, evictor' = s /\ UNCHANGED ld)
    /\ UNCHANGED <<flags, calls>>

EvictFree ==
    /\ evictor # NoSpan
    /\ Freed(evictor, evictor' = NoSpan /\ UNCHANGED ld)
    /\ UNCHANGED <<flags, calls, held>>

-----------------------------------------------------------------------------
Init ==
    /\ \E s \in Setups : PoolInit(s.arena, s.pin_max) /\ flags = s.flags /\ calls = s.calls
    /\ ld = [l \in Loaders |-> Idle]
    /\ held = {} /\ evictor = NoSpan /\ doubtful = FALSE

Load(l) ==
    \/ LookupFails(l) \/ MapSpan(l) \/ Take(l) \/ Wait(l) \/ Alloc(l) \/ PinTake(l)
    \/ RingDrains(l) \/ RingFails(l) \/ PoolReads(l) \/ PoolFails(l)
    \/ SingleReads(l) \/ SingleFails(l) \/ SingleDone(l) \/ UnwindStep(l) \/ Fail(l)

Next == \/ \E l \in Loaders : Begin(l) \/ Load(l)
        \/ Evict \/ EvictFree

\* Every call of a loader goes on; calls and evictions come when they come.
Spec == Init /\ [][Next]_vars /\ \A l \in Loaders : WF_vars(Load(l))

-----------------------------------------------------------------------------
(* Properties *)

\* The byte at position `at` of a span's memory.
ByteAt(s, at) == IF s.buf = NoBuf THEN <<s.file, s.read_off + at>>
                 ELSE IF at < Len(heap[s.buf].data) THEN heap[s.buf].data[at + 1]
                 ELSE Unread

\* For as long as an expert references a span, each of its tensors is exactly
\* the bytes the file holds for it: whatever a recycled buffer held before,
\* wherever the allocation lay, whichever path read it, and whatever other
\* threads load, fail to load and drop meanwhile.  A ring is excepted: a short
\* completion, or one that arrives after the ring was closed, goes unnoticed.
ViewsExact ==
    ~doubtful => \A s \in held :
      \A v \in s.views : \A i \in 0..(Tensor[v.name].nbytes - 1) :
        ByteAt(s, v.at + i) = <<Tensor[v.name].file, Tensor[v.name].off + i>>

\* The driver never holds a lock on memory that has been freed, PIN_BYTES is
\* what is locked, and the check-then-add of pin_alloc overshoots the ceiling
\* by no more than one buffer for each other thread that loads.
PageLocksSound ==
    /\ registered \subseteq Allocated
    /\ pinBytes = Capacity(registered)
    /\ pinBytes <= pinMax + (Cardinality(Loaders) - 1) * Max({0} \cup {heap[b].cap : b \in Bufs})

\* An arena keeps every slot it claimed, whatever is returned to the pool and
\* in which order.
ArenaKept == \A b \in 1..arena.slots : heap[b].cap = arena.slot_bytes

\* Every load returns, also when the loaders together hold all arena slots and
\* each waits for one more.
LoadsEnd == \A l \in Loaders : ld[l].pc # "idle" ~> ld[l].pc = "idle"
=============================================================================
