------------------------------ MODULE KvBytes ------------------------------
(***************************************************************************)
(* What a sequence's cache is charged for, and what it really holds:       *)
(* model.rs `bytes_for' and its parts beside the buffers of `for_model',   *)
(* ring_ensure, comp_init and the recurrent mixers.  Bytes are counted in  *)
(* f32 values.  An architecture is the record ForwardPass runs; `chunk' is *)
(* the number of raw rows its ring budget holds.                           *)
(***************************************************************************)
EXTENDS KvCache, FiniteSetsExt

CONSTANTS KvLora, QkRope,     \* cfg.kv_lora (0 where no layer keeps a latent), cfg.qk_rope
          KvDim,              \* n_kv_heads * qk_head
          QkHead, IndexHd,    \* cfg.qk_head, cfg.index_hd
          RecurrentLen,       \* values of one Mamba or KDA layer's two buffers
          Cuda                \* built with the `cuda' feature

Mixes(a, ms) == {l \in DOMAIN a.layers : a.layers[l].mix \in ms}

\* Mutant: is_gqa alone, which leaves the hybrid stack out.
allocates_gqa_kv_homogeneous(a) == a.stack = "plain" /\ Mixes(a, {"gqa"}) # {}

\* for_model gives the full K and V buffers to the GQA stacks and the hybrid one.
allocates_gqa_kv(a) == Mixes(a, {"gqa"}) # {}

\* Only the weight-absorption reader keeps roped keys and a device shadow.
mirrors_kv_on_device(a) == ~allocates_gqa_kv(a) /\ a.window = 0

\* In a hybrid stack only the attention layers hold rows.
kv_layers(a) == Cardinality(Mixes(a, {"mla", "gqa", "dsv4"}))

Latent(a) == IF allocates_gqa_kv(a) THEN 0 ELSE KvLora

raw_row_bytes(a) ==
    LET mla == IF mirrors_kv_on_device(a) THEN QkRope ELSE 0
        gqa_full == IF allocates_gqa_kv(a) THEN 2 * KvDim ELSE 0
        device_shadow == IF Cuda /\ mirrors_kv_on_device(a) THEN Latent(a) + mla ELSE 0
    IN  kv_layers(a) * (Latent(a) + mla + gqa_full + device_shadow)

\* The raw rows the ring's byte budget holds.
ring_budget_bytes(a) == IF a.window = 0 THEN 0 ELSE a.chunk

\* Rows a ringed cache keeps: the budget's worth, and the window before them.
ring_rows(a) == IF a.window = 0 THEN 0 ELSE Most(ring_budget_bytes(a), a.window) + a.window

\* A layer pools `ratio' tokens into a row, and the ratio-4 layers into two.
compressed_bytes_per_token(a) ==
    MapThenSumSet(LAMBDA l : LET r == a.layers[l].ratio IN
                             QkHead \div r + (IF r = 4 THEN IndexHd \div r ELSE 0),
                  {l \in DOMAIN a.layers : a.layers[l].ratio > 0})

bytes_per_token(a) ==
    (IF a.window > 0 THEN 0 ELSE raw_row_bytes(a)) + compressed_bytes_per_token(a)

\* cfg.layer_kind is filled by the parsers of the two hybrid stacks alone.
has_layer_kind(a) == a.stack \in {"nemotron", "kimi"}

ring_bytes(a) == ring_rows(a) * raw_row_bytes(a)

\* The recurrent state and the ring do not grow with the context.  The early
\* return for an empty layer_kind comes before both: V4's is empty.
fixed_bytes(a) ==
    IF has_layer_kind(a)
    THEN Cardinality(Mixes(a, {"mamba", "kda"})) * RecurrentLen + ring_bytes(a)
    ELSE 0

bytes_for_split(a, n_prompt, n) == bytes_per_token(a) * (n_prompt + n) + fixed_bytes(a)
bytes_for(a, n) == bytes_for_split(a, n, 0)

\* What `gen' reports as Class::Kv.
charge_gen_kv(a, n_prompt, n) == bytes_for_split(a, n_prompt, n)

(***************************************************************************)
(* What is resident: the rows written (a ring is allocated whole), the     *)
(* pooled rows, the recurrent buffers, and the device's buffers, which     *)
(* hold max_t rows from the first upload on.                               *)
(***************************************************************************)
RowLen(a, mix) ==
    CASE mix = "mla"  -> KvLora + QkRope
      [] mix = "gqa"  -> 2 * KvDim
      [] mix = "dsv4" -> KvLora
      [] OTHER        -> 0

Held(c, l) == IF c.ring > 0 THEN c.ring
              ELSE Cardinality({p \in DOMAIN c.row[l] : c.row[l][p] # Zero})

resident_bytes(a, c) ==
    LET mix(l) == IF l \in DOMAIN a.layers THEN a.layers[l].mix ELSE a.head[l - Len(a.layers)].mix
    IN  MapThenSumSet(LAMBDA l :
            Held(c, l) * RowLen(a, mix(l))
              + Len(c.comp[l]) * QkHead + Len(c.icomp[l]) * IndexHd
              + (IF mix(l) \in {"mamba", "kda"} THEN RecurrentLen ELSE 0)
              + (IF Cuda /\ c.dev[l].valid > 0 THEN c.max_t * RowLen(a, mix(l)) ELSE 0),
          DOMAIN c.row)
=============================================================================
