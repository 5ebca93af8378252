------------------------------ MODULE BufferPool ------------------------------
(***************************************************************************)
(* SharedBuf: the heap buffers expert bytes are read into, the process-    *)
(* wide pool that recycles them, the optional arena, and the page-locks    *)
(* the CUDA driver holds on them (colibri-core/src/quant.rs).              *)
(*                                                                         *)
(* A buffer has a capacity, an address modulo the direct-I/O alignment and *)
(* its bytes.  What a recycled buffer still holds of its last use counts   *)
(* as Unread, like the zeros of a fresh one: a reader has to overwrite     *)
(* every byte it hands out.                                                *)
(***************************************************************************)
EXTENDS Integers, Sequences, FiniteSets, FiniteSetsExt, SequencesExt

CONSTANTS
    Bufs,         \* a bound on the live allocations, as naturals
    Addr,         \* buffer -> its address, modulo DIO_ALIGN
    DIO_ALIGN,    \* what direct I/O asks of offset, length and address
    POOL_MIN,     \* POOL_MIN_BYTES
    PoolMax,      \* pool_max: buffers the organic pool keeps
    PoolMaxBytes, \* pool_max_bytes: bytes it keeps
    SPINS         \* rounds a caller waits for an arena slot (10,000)

ASSUME PoolAssumption == /\ {DIO_ALIGN, POOL_MIN, SPINS} \subseteq Nat \ {0}
                         /\ {PoolMax, PoolMaxBytes} \subseteq Nat
                         /\ IsFiniteSet(Bufs) /\ Bufs \subseteq Nat

VARIABLES
    arena,      \* ArenaCfg; no slots: the organic pool
    heap,       \* buffer -> [cap, data]; a capacity of 0: not allocated
    pool,       \* Pool.bufs
    pinMax,     \* pin_max_bytes; 0 as well when no device installed the hooks
    pinned,     \* PINNED
    registered, \* what the driver has locked
    pinBytes    \* PIN_BYTES

poolVars == <<arena, heap, pool, pinMax, pinned, registered, pinBytes>>

Unread == <<0, 0>>        \* zero, or stale: no byte of the file being read
Free == [cap |-> 0, data |-> <<>>]

Allocated == {b \in Bufs : heap[b].cap > 0}
Blank(n)  == [i \in 1..n |-> Unread]

Capacity(S) == MapThenSumSet(LAMBDA b : heap[b].cap, S)

\* arena_init: every slot is allocated, page-locked while the ceiling allows
\* (hooks installed or not), and put in the pool.
PoolInit(claim, ceiling) ==
    /\ arena = claim /\ pinMax = ceiling
    /\ heap = [b \in Bufs |-> IF b <= arena.slots
                              THEN [cap |-> arena.slot_bytes, data |-> <<>>] ELSE Free]
    /\ pool = [i \in 1..arena.slots |-> i]
    /\ registered = {b \in 1..arena.slots : b * arena.slot_bytes <= pinMax}
    /\ pinned = registered
    /\ pinBytes = Cardinality(registered) * arena.slot_bytes

\* The first pooled buffer that is large enough; 0 when there is none.
Fit(len) == SelectInSeq(pool, LAMBDA b : heap[b].cap >= len)

\* swap_remove takes the last element into the hole.
SwapRemoved(s, i) == SubSeq([s EXCEPT ![i] = Last(s)], 1, Len(s) - 1)

\* with_len, a buffer is in the pool: under the lock it leaves the pool, so no
\* other caller finds it.
Recycle_NoRemove(b, len) ==
    /\ len >= POOL_MIN
    /\ Fit(len) > 0 /\ b = pool[Fit(len)]
    /\ heap' = [heap EXCEPT ![b].data = Blank(len)]
    /\ UNCHANGED <<arena, pinMax, pool, pinned, registered, pinBytes>>

Recycle(b, len) ==
    /\ len >= POOL_MIN
    /\ Fit(len) > 0 /\ b = pool[Fit(len)]
    /\ pool' = SwapRemoved(pool, Fit(len))
    /\ heap' = [heap EXCEPT ![b].data = Blank(len)]
    /\ UNCHANGED <<arena, pinMax, pinned, registered, pinBytes>>

\* A right-sized request of an arena waits for a slot; any other one that
\* misses goes to the allocator.
MustWait(len) == len >= POOL_MIN /\ Fit(len) = 0 /\ len <= arena.slot_bytes

\* A waiter gives up after SPINS rounds, and allocates past the grant.
GaveUp_Never(spins) == FALSE

GaveUp(spins) == spins >= SPINS

\* vec![0u8; len]
Allocate(b, len) ==
    /\ heap[b].cap = 0 /\ \A c \in Bufs : heap[c].cap = 0 => b <= c
    /\ heap' = [heap EXCEPT ![b] = [cap |-> len, data |-> Blank(len)]]
    /\ UNCHANGED <<arena, pinMax, pool, pinned, registered, pinBytes>>

\* pin_alloc reads the locked bytes and compares them with the ceiling ...
PinAllowed(cap) == cap >= POOL_MIN /\ pinBytes + cap <= pinMax

\* ... and, after the driver's answer, records the lock and adds the bytes.
PinRegister(b) ==
    /\ registered' = registered \cup {b}
    /\ pinned' = pinned \cup {b}
    /\ pinBytes' = pinBytes + heap[b].cap
    /\ UNCHANGED <<arena, pinMax, heap, pool>>

\* Drop: the pool takes the buffer back.  An arena takes every buffer; the
\* organic pool has a count and a byte cap.
Accepts_CapsAlways(b) ==
    /\ heap[b].cap >= POOL_MIN
    /\ Len(pool) < PoolMax /\ Capacity(Range(pool)) + heap[b].cap <= PoolMaxBytes

Accepts(b) ==
    /\ heap[b].cap >= POOL_MIN
    /\ \/ arena.slots > 0
       \/ Len(pool) < PoolMax /\ Capacity(Range(pool)) + heap[b].cap <= PoolMaxBytes

PushBack(b) ==
    /\ Accepts(b)
    /\ pool' = Append(pool, b)
    /\ heap' = [heap EXCEPT ![b].data = <<>>]
    /\ UNCHANGED <<arena, pinMax, pinned, registered, pinBytes>>

\* Drop of a rejected buffer: unpin_alloc first (a registration that outlives
\* its memory is a dangling lock in the driver) ...
Unpin_Skipped(b) ==
    /\ b \in pinned
    /\ pinned' = pinned \ {b}
    /\ pinBytes' = pinBytes - heap[b].cap
    /\ UNCHANGED <<arena, pinMax, heap, pool, registered>>

Unpin(b) ==
    /\ b \in pinned
    /\ pinned' = pinned \ {b}
    /\ registered' = registered \ {b}
    /\ pinBytes' = pinBytes - heap[b].cap
    /\ UNCHANGED <<arena, pinMax, heap, pool>>

\* ... then the allocator takes the memory.
Release(b) ==
    /\ b \notin pinned
    /\ heap' = [heap EXCEPT ![b] = Free]
    /\ UNCHANGED <<arena, pinMax, pool, pinned, registered, pinBytes>>
=============================================================================
