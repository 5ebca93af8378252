---------------------------- MODULE ForwardPass ----------------------------
(***************************************************************************)
(* forward.rs, attention.rs, dsa.rs, dsv4.rs and kda.rs: one pass of the   *)
(* layer stack over a batch of tokens, as the pass moves information.  A   *)
(* hidden row is the set of pairs <<position, token>> it was computed      *)
(* from.  Projections, norms, rotary embeddings and softmax move no        *)
(* information between positions and are left out; so are the experts,     *)
(* which work on one row at a time.  What is kept is every read and write  *)
(* of the cache and the choice of the rows that are read.                  *)
(*                                                                         *)
(* An architecture is a record: `stack' names the driver, `layers' and     *)
(* `head' the layers and the sublayers of the MTP head.  A layer has a     *)
(* mixer `mix', a sliding window `win' (0 for none), a compress ratio      *)
(* `ratio', `full' when it computes the sparse selection itself, `bsize'   *)
(* the size of a key block where a layer selects whole blocks.             *)
(***************************************************************************)
EXTENDS KvCache

CONSTANTS Score(_, _),  \* what the indexer gives key t for query q
          IndexTopk,    \* cfg.index_topk, cfg.index_topk_blocks
          LocalBlocks,  \* cfg.index_local_blocks
          HcMult        \* cfg.hc_mult

ASSUME FwdAssumption == IndexTopk \in Nat \ {0} /\ LocalBlocks \in Nat /\ HcMult \in Nat \ {0}

Own(x) == CHOOSE t \in {pr[2] : pr \in x} :
             \E pr \in x : pr[2] = t /\ \A r \in x : r[1] <= pr[1]
Tokens(xs) == Strict([i \in 1 .. Len(xs) |-> Own(xs[i])])
embed(ids, pos) == Strict([i \in 1 .. Len(ids) |-> {<<pos + i - 1, ids[i]>>}])
Fault(kv, bad) == [kv EXCEPT !.fault = @ \/ bad]
\* A pass that has stopped goes no further.
Unless(acc, next) == IF acc.kv.fault THEN acc ELSE next

(***************************************************************************)
(* Choosing keys.  All three selections keep the best scores and break     *)
(* ties towards the lower index; none of them runs outside a prefill.      *)
(***************************************************************************)
\* dsa.rs: a threshold, then two passes that stop at `keep'.
select_topk(scores, topk) ==
    LET nk   == Len(scores)
        keep == Least(nk, topk)
        sorted == SortSeq(scores, LAMBDA a, b : a > b)
        thr  == sorted[keep]
        Pass(P(_)) == SelectSeq([t \in 1 .. nk |-> t - 1], LAMBDA t : P(scores[t + 1]))
        above == Pass(LAMBDA sc : sc > thr)
        equal == Pass(LAMBDA sc : sc = thr)
    IN  IF keep = nk THEN {t - 1 : t \in 1 .. nk}
        ELSE Range(SubSeq(above \o equal, 1, keep))

\* Sort by score, then index, and cut: topk_blocks and dsv4_compress_select.
topk_blocks(scores, keep) ==
    LET idx == SortSeq([i \in 1 .. Len(scores) |-> i - 1],
                  LAMBDA a, b : \/ scores[a + 1] > scores[b + 1]
                                \/ scores[a + 1] = scores[b + 1] /\ a < b)
    IN  Range(SubSeq(idx, 1, Least(keep, Len(idx))))

\* Each query's selection; an empty one means every key.
indexer_forward(s, pos) ==
    Strict([i \in 1 .. s |->
        LET nk == pos + i IN
        IF nk <= IndexTopk THEN {}
        ELSE select_topk(Strict([t \in 1 .. nk |-> Score(nk - 1, t - 1)]), IndexTopk)])

None == <<>>
indexer_select(layer, st0, s, pos, have) ==
    IF have \/ st0 # 0 \/ pos # 0 \/ ~layer.full \/ pos + s <= IndexTopk
    THEN None ELSE indexer_forward(s, pos)

Infinity == 1000
m3_block_select(layer, s, pos) ==
    LET bs == layer.bsize
        Blocks(tk) == (tk + bs - 1) \div bs
        Best(q, b) == LET sc == {Score(q, t) : t \in b * bs .. Least((b + 1) * bs, q + 1) - 1}
                      IN  CHOOSE m \in sc : \A x \in sc : x <= m
        Local(q) == {SatSub(q \div bs, lb) : lb \in 0 .. LocalBlocks - 1}
    IN  IF bs = 0 \/ pos # 0 \/ s <= 1 \/ Blocks(s) <= IndexTopk THEN None
        ELSE Strict([i \in 1 .. s |->
               LET q == pos + i - 1
                   keep == topk_blocks([b \in 1 .. Blocks(q + 1) |->
                              IF b - 1 \in Local(q) THEN Infinity ELSE Best(q, b - 1)], IndexTopk)
               IN  UNION {b * bs .. Least((b + 1) * bs, q + 1) - 1 : b \in keep}])

\* The cores: a query's output is a mix of the rows it attends to.
reconstruct_core(rows, keys) == UNION {rows[q] : q \in keys}
attention_dsv4_sparse(cache, idx) == UNION {cache[j + 1] : j \in idx}

(***************************************************************************)
(* Attention over cached rows.  A query reads from the layer's first valid *)
(* row, or from its window, to itself, or the keys selected for it.        *)
(***************************************************************************)
\* Projections, norms and rotary embedding of a batch, into the layer's rows.
mla_rows(kv, l, xs, pos) == write_rows(kv, l, pos, xs)
gqa_rows(kv, l, xs, pos) == write_rows(kv, l, pos, xs)
dsv4_rows(kv, l, xs, pos) == write_rows(kv, l, pos, xs)

\* The core for every query of a batch, over rows that have to be there.
attend(kv, l, rows, xs, pos, keys) ==
    LET Over(ok) == [kv |-> Fault(kv, ~ok),
                     y  |-> IF ok THEN Strict([i \in DOMAIN xs |-> reconstruct_core(rows, keys[i])])
                            ELSE xs]
    IN  Over(kv.kv_start[l] <= pos /\ \A i \in DOMAIN xs : keys[i] \subseteq DOMAIN rows)

\* A decode step without a selection runs on the device, over the shadow.
mla_core(kv, l, xs, pos, sel, onDevice) ==
    LET st0  == kv.kv_start[l]
        keys == Strict([i \in DOMAIN xs |-> IF sel # None /\ sel[i] # {} THEN sel[i]
                                            ELSE st0 .. pos + i - 1])
        OnShadow(k) == attend(k, l, k.dev[l].row, xs, pos, keys)
    IN  IF onDevice /\ sel = None /\ Len(xs) = 1 /\ st0 = 0
        THEN OnShadow(sync_device(kv, l, pos, pos + 1))
        ELSE attend(kv, l, kv.row[l], xs, pos, keys)

attention_with(kv, layer, l, xs, pos, incoming, onDevice) ==
    LET Core(k, own) == mla_core(k, l, xs, pos, IF incoming # None THEN incoming ELSE own, onDevice)
                          @@ [sel |-> own]
    IN  Core(mla_rows(kv, l, xs, pos),
             indexer_select(layer, kv.kv_start[l], Len(xs), pos, incoming # None))

\* Mutant: a query of a batch sees the rest of the batch.
attention_gqa_acausal(kv, layer, l, xs, pos) ==
    LET s   == Len(xs)
        kv1 == write_rows(kv, l, pos, xs)
        sel == m3_block_select(layer, s, pos)
        Keys(i) == IF sel # None THEN sel[i]
                   ELSE IF layer.win > 0 THEN SatSub(pos + i, layer.win) .. pos + i - 1
                   ELSE kv1.kv_start[l] .. pos + s - 1
    IN  [kv |-> kv1, y |-> Strict([i \in 1 .. s |-> UNION {kv1.row[l][q] : q \in Keys(i)}])]

attention_gqa(kv, layer, l, xs, pos) ==
    LET st0 == kv.kv_start[l]
        Lo(q) == IF layer.win > 0 THEN Most(st0, SatSub(q + 1, layer.win)) ELSE st0
        Core(k, sel) ==
            attend(k, l, k.row[l], xs, pos, Strict([i \in DOMAIN xs |->
                IF sel # None THEN {t \in sel[i] : t >= st0} ELSE Lo(pos + i - 1) .. pos + i - 1]))
    IN  Core(gqa_rows(kv, l, xs, pos), m3_block_select(layer, Len(xs), pos))

(***************************************************************************)
(* The recurrent mixers: the conv sees the carried history and the batch,  *)
(* the scan folds the batch into the state.  They differ in how much       *)
(* history they carry.                                                     *)
(***************************************************************************)
Recur(kv, l, xs, keep) ==
    LET hist == LastOf(kv.conv[l], DConv - 1)
        At(i) == Len(kv.ssm[l]) + i - 1
        Fold(toks) ==
            [kv |-> [kv EXCEPT !.conv[l] = LastOf(@ \o toks, keep), !.ssm[l] = @ \o toks],
             y  |-> Strict([i \in DOMAIN xs |->
                        selective_scan(kv.ssm[l] \o SubSeq(toks, 1, i))
                          \cup causal_conv1d_silu(hist \o SubSeq(toks, 1, i), At(i))])]
    IN  Fold(Tokens(xs))

mamba2_mixer(kv, l, xs) == Recur(kv, l, xs, DConv)
kda_mixer(kv, l, xs)    == Recur(kv, l, xs, DConv - 1)

Residual(xs, ys) == Strict([i \in 1 .. Len(xs) |-> xs[i] \cup ys[i]])

\* A mixer's output joins the stream; `sel' is what the next layer inherits.
Joined(r, xs, sel) == [kv |-> r.kv, x |-> Residual(xs, r.y), sel |-> sel]

nemotron_layer_forward(kv, layer, l, xs, pos, sel) ==
    Joined(CASE layer.mix = "mamba" -> mamba2_mixer(kv, l, xs)
             [] layer.mix = "gqa"   -> attention_gqa(kv, layer, l, xs, pos)
             [] layer.mix = "moe"   -> [kv |-> kv, y |-> xs], xs, sel)

\* layer_forward_kind: the selection of a full layer serves the ones after it.
layer_forward_kind(stack, kv, layer, l, xs, pos, dsa_sel, onDevice) ==
    LET Mla(r) == Joined(r, xs, IF layer.full THEN r.sel ELSE dsa_sel) IN
    IF stack = "nemotron" THEN nemotron_layer_forward(kv, layer, l, xs, pos, dsa_sel)
    ELSE IF layer.mix = "mla"
    THEN Mla(attention_with(kv, layer, l, xs, pos, IF layer.full THEN None ELSE dsa_sel, onDevice))
    ELSE Joined(attention_gqa(kv, layer, l, xs, pos), xs, dsa_sel)

Indices(s) == [i \in 1 .. Len(s) |-> i]

layer_stack(arch, kv, xs, pos, onDevice) ==
    FoldLeft(LAMBDA acc, l : Unless(acc, layer_forward_kind(arch.stack, acc.kv, arch.layers[l], l,
                                                            acc.x, pos, acc.sel, onDevice)),
             [kv |-> kv, x |-> xs, sel |-> None], Indices(arch.layers))

(***************************************************************************)
(* Kimi-K3: a sublayer reads a mix of the running prefix and of the blocks *)
(* snapshotted so far; its output is added to the prefix, or starts a new  *)
(* one after a snapshot.                                                   *)
(***************************************************************************)
apply_attn_res(st) ==
    Strict([i \in 1 .. Len(st.prefix) |-> st.prefix[i] \cup UNION {b[i] : b \in Range(st.blocks)}])
maybe_snapshot(st, li, bs) ==
    IF li % bs = 0
    THEN [st EXCEPT !.blocks = Append(@, st.prefix), !.have_prefix = FALSE] ELSE st
accumulate(st, out) ==
    [st EXCEPT !.prefix = IF st.have_prefix THEN Residual(@, out) ELSE out,
               !.have_prefix = TRUE]

\* A mixer on the mix of a layer's snapshots, then the experts on a new mix.
kimi_sublayers(st, li, bs, r) ==
    LET Experts(s) == accumulate(s, apply_attn_res(s))
    IN  [kv |-> r.kv, st |-> Experts(accumulate(maybe_snapshot(st, li, bs), r.y))]

kimi_forward(arch, kv, xs, pos, onDevice) ==
    LET Mixer(k, l, h) == IF arch.layers[l].mix = "kda" THEN kda_mixer(k, l, h)
                          ELSE attention_with(k, arch.layers[l], l, h, pos, None, onDevice)
        Top(end) == [kv |-> end.kv, x |-> apply_attn_res(end.st)]
    IN  Top(FoldLeft(LAMBDA acc, l : Unless(acc, kimi_sublayers(acc.st, l - 1, arch.bs,
                                                      Mixer(acc.kv, l, apply_attn_res(acc.st)))),
                      [kv |-> kv, st |-> [prefix |-> xs, blocks |-> <<>>, have_prefix |-> TRUE]],
                      Indices(arch.layers)))

(***************************************************************************)
(* DeepSeek-V4: a window of raw rows in a ring, and one pooled row for     *)
(* every closed block of `ratio' positions.                                *)
(***************************************************************************)
\* Mutant: the span starts at the window of the last query, not of the first.
dsv4_raw_span_of_last(pos, s, window) ==
    LET total == pos + s
        win   == IF window > 0 THEN window ELSE total
    IN  [lo |-> total - Least(win, total), total |-> total, win |-> win]

dsv4_raw_span(pos, s, window) ==
    LET total == pos + s
        win   == IF window > 0 THEN window ELSE total
    IN  [lo |-> (pos + 1) - Least(win, pos + 1), total |-> total, win |-> win]

\* Prefill pools the whole batch; decode feeds the state one token at a time.
compress(st, xs, pos, ratio) ==
    LET Fed(acc, r) == [rows |-> acc.rows \o r.rows, st |-> r.st] IN
    IF pos = 0 THEN compress_prefill(xs, ratio)
    ELSE FoldLeft(LAMBDA acc, i : Fed(acc, compress_decode(acc.st, xs[i], pos + i - 1, ratio)),
                  [rows |-> <<>>, st |-> st], Indices(xs))

\* The indexer's own compressor, on the layers that have one.
indexer_compress(kv, l, xs, pos, ratio) ==
    LET Kept(r) == [kv EXCEPT !.ist[l] = r.st, !.icomp[l] = comp_push(@, r.rows, 4)]
    IN  IF kv.ist[l] = <<>> THEN kv ELSE Kept(compress(kv.ist[l], xs, pos, ratio))

\* Without an indexer a query keeps every closed block.
AllBlocks(s, pos, avail_at) == [i \in 1 .. s |-> 0 .. avail_at[pos + i - 1] - 1]

\* The blocks each query keeps: all of them until there are more than fit.
dsv4_compress_select(kv, l, s, pos, avail_at) ==
    LET n_ic == Len(kv.icomp[l])
        Kept(i) == LET q == pos + i - 1
                       avail == Least(avail_at[q], n_ic)
                   IN  IF avail <= IndexTopk THEN 0 .. avail - 1
                       ELSE topk_blocks([t \in 1 .. avail |-> Score(q, t - 1)], IndexTopk)
    IN  IF n_ic = 0 THEN AllBlocks(s, pos, avail_at)
        ELSE Strict([i \in 1 .. s |-> Kept(i)])

\* Indices into the raw rows followed by the pooled ones, from 0.
key_indices(span, pos, s, n_raw, sel) ==
    Strict([i \in 1 .. s |->
        LET p == pos + i - 1
            wcount == Least(span.win, p + 1)
            wstart == (p + 1) - wcount
        IN  {wstart + k - span.lo : k \in 0 .. wcount - 1} \cup {n_raw + t : t \in sel[i]}])

MinRatio(arch) ==
    LET rs == {arch.layers[l].ratio : l \in DOMAIN arch.layers} \ {0}
    IN  IF rs = {} THEN 4 ELSE CHOOSE r \in rs : \A q \in rs : r <= q

\* The raw rows live in a ring wide enough for the span of the batch.
dsv4_ring_for(kv, arch, span) ==
    IF arch.window > 0 THEN ring_ensure(kv, span.total - span.lo) ELSE kv

\* The Compressor pools the windows that the batch closes.
dsv4_pool(kv, l, xs, pos, ratio, min_ratio) ==
    LET Pooled(c) == [kv EXCEPT !.st[l] = c.st, !.comp[l] = comp_push(@, c.rows, min_ratio)]
    IN  IF ratio = 0 THEN kv ELSE Pooled(compress(kv.st[l], xs, pos, ratio))

\* What a query may index: its span of raw rows, then the pooled rows.
dsv4_keys(kv, l, span) ==
    extend_rows(kv, l, span.lo, span.total)
      \o Strict([b \in 1 .. Len(kv.comp[l]) |-> PoolInfo(kv.comp[l][b])])

\* The blocks that are closed at each position of the batch.
comp_avail(kv, l, s, pos, ratio) ==
    Strict([p \in pos .. pos + s - 1 |->
        IF ratio > 0 THEN Least((p + 1) \div ratio, Len(kv.comp[l])) ELSE 0])

dsv4_core(kv, xs, cache, readable, idxs) ==
    LET Over(ok) == [kv |-> Fault(kv, ~ok),
                     y  |-> IF ok THEN Strict([i \in DOMAIN xs |-> attention_dsv4_sparse(cache, idxs[i])])
                            ELSE xs]
    IN  Over(readable /\ \A i \in DOMAIN xs : \A j \in idxs[i] : j + 1 \in DOMAIN cache)

dsv4_attention(kv, arch, l, xs, pos) ==
    LET ratio == arch.layers[l].ratio
        Read(k, ki, span) ==
            dsv4_core(ki, xs, dsv4_keys(k, l, span), Readable(k, l, span.lo, span.total),
                      key_indices(span, pos, Len(xs), span.total - span.lo,
                          dsv4_compress_select(ki, l, Len(xs), pos,
                                               comp_avail(k, l, Len(xs), pos, ratio))))
        Index(k, span) == Read(k, indexer_compress(k, l, xs, pos, ratio), span)
        Over(span) == Index(dsv4_pool(dsv4_rows(dsv4_ring_for(kv, arch, span), l, xs, pos), l, xs, pos,
                                      ratio, MinRatio(arch)), span)
    IN  Over(dsv4_raw_span(pos, Len(xs), arch.window))

\* Hyper-connections: HcMult copies of the stream, mixed into the sublayer's
\* input and mixed again with its output.
hc_pre(copies)       == UNION Range(copies)
hc_post(out, copies) == [c \in 1 .. HcMult |-> out \cup UNION Range(copies)]
hc_head(copies)      == UNION Range(copies)

dsv4_layer_forward(arch, kv, l, xs, pos) ==
    LET Post(ys, cs) == Strict([i \in 1 .. Len(cs) |-> hc_post(ys[i], cs[i])])
        Pre(cs) == Strict([i \in 1 .. Len(cs) |-> hc_pre(cs[i])])
        Experts(mid) == Post(Pre(mid), mid)
        After(r) == [kv |-> r.kv, x |-> Experts(Post(r.y, xs))]
    IN  After(dsv4_attention(kv, arch, l, Pre(xs), pos))

dsv4_forward(arch, kv, ids, pos) ==
    LET Copies(e) == [i \in DOMAIN e |-> [c \in 1 .. HcMult |-> e[i]]]
        Top(end) == [kv |-> end.kv, x |-> Strict([i \in DOMAIN end.x |-> hc_head(end.x[i])])]
    IN  Top(FoldLeft(LAMBDA acc, l : Unless(acc, dsv4_layer_forward(arch, acc.kv, l, acc.x, pos)),
                 [kv |-> comp_init(kv, [l \in 1 .. Len(arch.layers) |-> arch.layers[l].ratio]),
                  x  |-> Copies(embed(ids, pos))],
                 Indices(arch.layers)))

\* A prompt within the ring's budget is one call; a longer one is cut to the budget.
dsv4_prefill_chunk(arch, s) ==
    LET budget_rows == Most(arch.chunk, Most(arch.window, 1)) IN Least(s, budget_rows)

dsv4_forward_chunked(arch, kv, ids, pos, chunk) ==
    LET Slice(c) == SubSeq(ids, (c - 1) * chunk + 1, Least(c * chunk, Len(ids)))
        Behind(acc, r) == [kv |-> r.kv, x |-> acc.x \o r.x]
    IN  FoldLeft(LAMBDA acc, c :
                   Unless(acc, Behind(acc, dsv4_forward(arch, acc.kv, Slice(c), pos + (c - 1) * chunk))),
                 [kv |-> kv, x |-> <<>>], [c \in 1 .. (Len(ids) + chunk - 1) \div chunk |-> c])

\* forward: the pass over `ids' at positions pos, pos + 1, ...; its hidden rows are x.
forward(arch, kv, ids, pos, onDevice) ==
    CASE arch.stack = "kimi"  -> kimi_forward(arch, kv, embed(ids, pos), pos, onDevice)
      [] arch.stack = "dsv4"  -> dsv4_forward_chunked(arch, kv, ids, pos, dsv4_prefill_chunk(arch, Len(ids)))
      [] OTHER                -> layer_stack(arch, kv, embed(ids, pos), pos, onDevice)
=============================================================================
