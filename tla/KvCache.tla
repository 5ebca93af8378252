------------------------------ MODULE KvCache ------------------------------
(***************************************************************************)
(* The per-sequence state of a forward pass: model.rs `KvCache`, the       *)
(* Compressor state of dsv4.rs it holds and the device shadow of gpu.rs.   *)
(*                                                                         *)
(* A stored vector is represented by what it was computed from: a set of   *)
(* pairs <<position, token>>.  A buffer that was never written holds zeros *)
(* and is represented by {}.  An index outside a buffer, a failed assert   *)
(* or an underflowing subtraction stops the program; the cache then has    *)
(* `fault' = TRUE.                                                         *)
(***************************************************************************)
EXTENDS Integers, Sequences, FiniteSets, SequencesExt

CONSTANTS MaxCtx,     \* cfg.max_ctx, which sizes the compressed rows
          DConv       \* cfg.mamba_d_conv and cfg.kda_d_conv

ASSUME KvAssumption == MaxCtx \in Nat \ {0} /\ DConv \in Nat \ {0}

KV_UNSET == 1000000       \* usize::MAX: later than every position
Zero     == {}
SatSub(a, b) == IF a > b THEN a - b ELSE 0
Least(a, b)  == IF a < b THEN a ELSE b
Most(a, b)   == IF a < b THEN b ELSE a

\* Strict(f) is f.  TLC computes its values once, not at every application.
Strict(f) == f @@ <<>>

lazy_zeros(n) == [j \in 0 .. n - 1 |-> Zero]
ring_slot(pos, ring) == IF ring = 0 THEN pos ELSE pos % ring

(***************************************************************************)
(* for_model: one row of buffers per layer and per MTP sublayer.  Only the *)
(* head's rows start unset; recurrent state starts empty on every layer    *)
(* and only the Mamba and KDA mixers ever use it.                          *)
(***************************************************************************)
for_model(nLayers, nHead, max_t, mamba) ==
    LET rows == 1 .. nLayers + nHead IN
    [max_t    |-> max_t,
     row      |-> [l \in rows |-> lazy_zeros(max_t)],
     ring     |-> 0,
     ring_hi  |-> 0,
     kv_start |-> [l \in rows |-> IF l > nLayers THEN KV_UNSET ELSE 0],
     ssm      |-> [l \in rows |-> <<>>],
     conv     |-> [l \in rows |-> <<>>],
     mamba    |-> mamba,
     st       |-> [l \in rows |-> <<>>],
     comp     |-> [l \in rows |-> <<>>],
     ist      |-> [l \in rows |-> <<>>],
     icomp    |-> [l \in rows |-> <<>>],
     dev      |-> [l \in rows |-> [valid |-> 0, row |-> lazy_zeros(max_t)]],
     fault    |-> FALSE]

start_at(kv, l, pos) ==
    IF kv.kv_start[l] > pos THEN [kv EXCEPT !.kv_start[l] = pos] ELSE kv

(***************************************************************************)
(* The raw rows.  A ring of `ring' rows keeps position p in slot p % ring; *)
(* growing it moves the rows that are still live.                          *)
(***************************************************************************)
ring_ensure(kv, rows) ==
    LET lo == SatSub(kv.ring_hi, kv.ring)
        Rehomed(old) == Strict([j \in 0 .. rows - 1 |->
            LET from == {p \in lo .. kv.ring_hi - 1 : ring_slot(p, rows) = j}
            IN  IF from = {} THEN Zero
                ELSE old[ring_slot(CHOOSE p \in from : \A q \in from : q <= p, kv.ring)]])
    IN  IF rows = 0 \/ rows <= kv.ring THEN kv
        ELSE IF kv.ring = 0
             THEN [kv EXCEPT !.row = Strict([l \in DOMAIN @ |-> lazy_zeros(rows)]), !.ring = rows]
             ELSE [kv EXCEPT !.row = Strict([l \in DOMAIN @ |-> Rehomed(@[l])]), !.ring = rows]

row_mut(kv, l, pos, v) ==
    LET p == ring_slot(pos, kv.ring) IN
    IF p \in DOMAIN kv.row[l]
    THEN [kv EXCEPT !.row[l][p] = v,
                    !.ring_hi = IF kv.ring # 0 /\ pos + 1 > @ THEN pos + 1 ELSE @]
    ELSE [kv EXCEPT !.fault = TRUE]

\* The rows of positions pos, pos + 1, ... take the values vs.
write_rows(kv, l, pos, vs) ==
    FoldLeft(LAMBDA k, i : row_mut(k, l, pos + i - 1, vs[i]), kv, [i \in 1 .. Len(vs) |-> i])

Readable(kv, l, start, end) ==
    /\ kv.ring # 0 => end - start <= kv.ring
    /\ \A p \in start .. end - 1 : ring_slot(p, kv.ring) \in DOMAIN kv.row[l]

\* extend_rows: the rows [start, end) in order, one run or two around the wrap.
extend_rows(kv, l, start, end) ==
    LET n  == end - start
        lo == ring_slot(start, kv.ring)
        head == Least(n, kv.ring - lo)
    IN  IF kv.ring = 0
        THEN Strict([i \in 1 .. n |-> kv.row[l][start + i - 1]])
        ELSE Strict([i \in 1 .. n |-> kv.row[l][IF i <= head THEN lo + i - 1 ELSE i - head - 1]])

(***************************************************************************)
(* The device shadow of the MLA rows: decode uploads what is missing.      *)
(***************************************************************************)
\* Mutant: only the newest row is uploaded.
sync_device_newest(kv, l, pos_base, tk) ==
    [kv EXCEPT !.dev[l] = [valid |-> Most(@.valid, tk),
                           row   |-> [@.row EXCEPT ![tk - 1] = kv.row[l][tk - 1]]]]

\* DeviceKv: rows [from, tk) are copied behind the ones the device has.
device_kv_sync(dev, rows, from, tk) ==
    [valid |-> Most(from, tk),
     row   |-> Strict([p \in DOMAIN dev.row |-> IF p \in from .. tk - 1 THEN rows[p] ELSE dev.row[p]])]

sync_device(kv, l, pos_base, tk) ==
    IF kv.ring # 0 THEN [kv EXCEPT !.fault = TRUE]
    ELSE [kv EXCEPT !.dev[l] = device_kv_sync(@, kv.row[l], Least(@.valid, pos_base), tk)]

(***************************************************************************)
(* Recurrent mixers carry no position: the k-th token absorbed is the one  *)
(* at position k - 1 as far as the state can tell.  The conv history is    *)
(* the last `keep' inputs, and a convolution reaches DConv - 1 back.       *)
(***************************************************************************)
LastOf(s, n) == SubSeq(s, Most(1, Len(s) - n + 1), Len(s))

\* What the scan's output holds when the state has folded in `ssm'.
selective_scan(ssm) == {<<k - 1, ssm[k]>> : k \in 1 .. Len(ssm)}

\* What the convolution at the newest of `aug' sees, dated from the state.
causal_conv1d_silu(aug, at) ==
    {<<at - (Len(aug) - j), aug[j]>> : j \in Most(1, Len(aug) - DConv + 1) .. Len(aug)}

snapshot_mamba_into(kv) == [conv |-> kv.conv, ssm |-> kv.ssm]
restore_mamba_from(kv, snap) == [kv EXCEPT !.conv = snap.conv, !.ssm = snap.ssm]

(***************************************************************************)
(* The Compressor.  With compress ratio 4 it pools overlapping windows:    *)
(* the state keeps the previous window in its first `ratio' slots and the  *)
(* open one after them.  A pooled row is the windows it was made from.     *)
(***************************************************************************)
Overlap(ratio) == ratio = 4
NewState(ratio) ==
    [i \in 1 .. (IF Overlap(ratio) THEN 2 * ratio ELSE ratio) |-> Zero]

\* A row's first half feeds the next window's pool, its second half its own.
Pool(prev, cur) == [over |-> prev, norm |-> cur]
PoolInfo(b) == UNION (Range(b.over) \cup Range(b.norm))

compress_prefill(vs, ratio) ==
    LET s == Len(vs)
        remainder == s % ratio
        cutoff == s - remainder
        offset == IF Overlap(ratio) THEN ratio ELSE 0
        Window(b) == SubSeq(vs, b * ratio + 1, (b + 1) * ratio)
        none == [i \in 1 .. ratio |-> Zero]
    IN  [rows |-> Strict([b \in 1 .. cutoff \div ratio |->
                     Pool(IF ~Overlap(ratio) THEN <<>>
                          ELSE IF b = 1 THEN none ELSE Window(b - 2), Window(b - 1))]),
         st   |-> Strict([i \in DOMAIN NewState(ratio) |->
                     IF i > offset
                     THEN IF i - offset <= remainder THEN vs[cutoff + i - offset] ELSE Zero
                     ELSE IF cutoff >= ratio THEN vs[cutoff - ratio + i] ELSE Zero])]

\* Mutant: a closed window is not kept as the next one's overlap.
compress_decode_forgets(st, v, pos, ratio) ==
    LET base == IF Overlap(ratio) THEN ratio + (pos % ratio) ELSE pos % ratio
        kept == [st EXCEPT ![base + 1] = v]
        cur  == SubSeq(kept, Len(kept) - ratio + 1, Len(kept))
    IN  [rows |-> IF (pos + 1) % ratio # 0 THEN <<>>
                  ELSE << Pool(IF Overlap(ratio) THEN SubSeq(kept, 1, ratio) ELSE <<>>, cur) >>,
         st   |-> kept]

compress_decode(st, v, pos, ratio) ==
    LET slot == pos % ratio
        base == IF Overlap(ratio) THEN ratio + slot ELSE slot
        kept == [st EXCEPT ![base + 1] = v]
        cur  == SubSeq(kept, Len(kept) - ratio + 1, Len(kept))
    IN  IF (pos + 1) % ratio # 0
        THEN [rows |-> <<>>, st |-> kept]
        ELSE [rows |-> << Pool(IF Overlap(ratio) THEN SubSeq(kept, 1, ratio) ELSE <<>>, cur) >>,
              st   |-> IF Overlap(ratio) THEN cur \o cur ELSE kept]

\* comp_push and icomp_push drop a row past the capacity the layer was given.
MaxBlocks(ratio) == MaxCtx \div ratio + 2
comp_push(rows, new, ratio) == LET all == rows \o new IN
    SubSeq(all, 1, Least(Len(all), MaxBlocks(ratio)))

\* comp_init and icomp_init: fresh states, sized by the layer's own ratio; the
\* indexer keeps one on the layers of ratio 4 only.
comp_init(kv, ratios) ==
    IF kv.st # [l \in DOMAIN kv.st |-> <<>>] THEN kv
    ELSE LET Ratio(l) == IF l <= Len(ratios) THEN ratios[l] ELSE 0 IN
         [kv EXCEPT !.st  = [l \in DOMAIN @ |-> IF Ratio(l) > 0 THEN NewState(Ratio(l)) ELSE <<>>],
                    !.ist = [l \in DOMAIN @ |-> IF Ratio(l) = 4 THEN NewState(4) ELSE <<>>]]
=============================================================================
