----------------------------- MODULE ModelConfig -----------------------------
(***************************************************************************)
(* config.rs: from `config.json` to the structure of the model.            *)
(*                                                                         *)
(* A JSON object is a record whose fields are the keys it has.  Of the     *)
(* parsed `Config` the model keeps what decides which tensors a model has, *)
(* how its layers are told apart and when it stops; the floating-point     *)
(* hyperparameters are left out.  A parse that the code refuses is         *)
(* Refused.                                                                *)
(***************************************************************************)
EXTENDS Integers, Sequences, FiniteSets, SequencesExt

CONSTANTS MaxLayersIdx,   \* MAX_LAYERS_IDX: layers the per-layer lists describe
          MaxStopIds      \* MAX_STOP_IDS

Refused == [arch |-> "refused"]

Get(j, k, d) == IF k \in DOMAIN j THEN j[k] ELSE d

\* gi_in: an integer field, 0 when it is absent.
gi_in(j, k) == Get(j, k, 0)

AtLeast(a, b) == IF a > b THEN a ELSE b

\* ckr!: a value in its closed range.
ckr(v, lo, hi) == lo <= v /\ v <= hi

\* is_gqa, routed_experts_are_latent
is_gqa(arch) == arch \in {"MinimaxM3", "MinimaxM2", "Maple"}

routed_experts_are_latent(arch) == arch \in {"NemotronH", "KimiK3"}

\* The fields every parser fills in the same way; a parser replaces what it reads.
Blank(j, arch) ==
    [arch |-> arch, hidden |-> gi_in(j, "hidden_size"), n_layers |-> gi_in(j, "num_hidden_layers"),
     n_heads |-> gi_in(j, "num_attention_heads"), n_kv_heads |-> gi_in(j, "num_key_value_heads"),
     n_experts |-> gi_in(j, "n_routed_experts"), topk |-> gi_in(j, "num_experts_per_tok"),
     moe_inter |-> gi_in(j, "moe_intermediate_size"), dense_inter |-> 0, first_dense |-> 0,
     kv_lora |-> 0, qk_nope |-> 0, qk_rope |-> 0, qk_head |-> 0, v_head |-> 0, n_shared |-> gi_in(j, "n_shared_experts"),
     shared_inter |-> 0, vocab |-> gi_in(j, "vocab_size"), stop_ids |-> <<>>,
     index_nh |-> gi_in(j, "index_n_heads"), index_hd |-> gi_in(j, "index_head_dim"), idx_type |-> <<>>,
     gemma_norm |-> FALSE, router_score |-> "sigmoid", swa_window |-> 0, layer_swa |-> <<>>, nope_on_global |-> FALSE,
     layer_kind |-> <<>>, mtp_layer_kind |-> <<>>, moe_latent |-> 0,
     compress_ratios |-> <<>>, n_hash_layers |-> 0, dspark_targets |-> <<>>, hc_mult |-> 0,
     attn_res_block_size |-> 0, kda |-> <<0, 0, 0>>, mamba |-> <<0, 0, 0, 0, 0>>]

\* parse_stop_ids: a scalar, or the first MAX_STOP_IDS of an array.
parse_stop_ids(j) ==
    LET e == Get(j, "eos_token_id", <<>>)
    IN SubSeq(e, 1, IF Len(e) < MaxStopIds THEN Len(e) ELSE MaxStopIds)

\* MiniMax and Kimi: the text config's ids, or else the root's.
StopIdsOf(r, t) == IF parse_stop_ids(t) # <<>> THEN parse_stop_ids(t) ELSE parse_stop_ids(r)

LayersListed(n) == IF n < 0 THEN 0 ELSE IF n < MaxLayersIdx THEN n ELSE MaxLayersIdx

\* validate_common
validate_common(c) ==
    /\ ckr(c.hidden, 1, 2^20) /\ ckr(c.n_layers, 1, 128) /\ ckr(c.n_heads, 1, 1024)
    /\ ckr(c.n_experts, 1, 4096) /\ ckr(c.topk, 1, 64) /\ ckr(c.moe_inter, 1, 2^20)
    /\ ckr(c.dense_inter, IF c.first_dense > 0 THEN 1 ELSE 0, 2^24)
    /\ ckr(c.first_dense, 0, c.n_layers)
    /\ ckr(c.v_head, 1, 2^16) /\ ckr(c.n_shared, 0, 64) /\ ckr(c.vocab, 1, 2^24)

\* The type of each layer's DSA indexer: the listed one, or by frequency and offset.
GlmIdxType(j, n) ==
    LET listed == Get(j, "indexer_types", <<>>)
        freq == AtLeast(gi_in(j, "index_topk_freq"), 1)
        off == Get(j, "index_skip_topk_offset", 2)
    IN [i \in 1 .. LayersListed(n) |->
          IF i <= Len(listed) THEN listed[i] = "full" ELSE AtLeast(i - off, 0) % freq = 0]

from_json_glm(r) ==
    LET c == [Blank(r, "GlmMoeDsa") EXCEPT
                !.n_kv_heads = gi_in(r, "num_attention_heads"),
                !.dense_inter = gi_in(r, "intermediate_size"), !.first_dense = gi_in(r, "first_k_dense_replace"),
                !.kv_lora = gi_in(r, "kv_lora_rank"), !.qk_nope = gi_in(r, "qk_nope_head_dim"),
                !.qk_rope = gi_in(r, "qk_rope_head_dim"), !.v_head = gi_in(r, "v_head_dim"),
                !.qk_head = gi_in(r, "qk_nope_head_dim") + gi_in(r, "qk_rope_head_dim"),
                !.shared_inter = gi_in(r, "n_shared_experts") * gi_in(r, "moe_intermediate_size"),
                !.stop_ids = parse_stop_ids(r), !.idx_type = GlmIdxType(r, gi_in(r, "num_hidden_layers"))]
    IN IF /\ gi_in(r, "n_group") = 1 /\ validate_common(c)
          /\ ckr(gi_in(r, "q_lora_rank"), 0, 2^20) /\ ckr(c.kv_lora, 1, 2^20)
          /\ ckr(c.qk_nope, 1, 2^16) /\ ckr(c.qk_rope, 1, 2^16)
          /\ ckr(c.index_nh, 0, 1024) /\ ckr(c.index_hd, 0, 2^16)
       THEN c ELSE Refused

\* The dense layers of a MiniMax model are the leading zeros of `moe_layer_freq`.
LeadingDense(t) ==
    IF "moe_layer_freq" \notin DOMAIN t THEN gi_in(t, "first_k_dense_replace")
    ELSE Cardinality({i \in DOMAIN t.moe_layer_freq : \A j \in 1 .. i : t.moe_layer_freq[j] = 0})

\* The block-sparse indexer of each layer, from `sparse_attention_freq`.
SparseIdxType(t) ==
    LET freq == Get(Get(t, "sparse_attention_config", <<>>), "sparse_attention_freq", <<>>)
    IN [i \in 1 .. LayersListed(gi_in(t, "num_hidden_layers")) |-> i <= Len(freq) /\ freq[i] # 0]

\* GQA ranges: the heads, the part of a head that is rotated, and the KV heads.
GqaRanges(c, head_dim, rotary) ==
    ckr(head_dim, 1, 2^16) /\ ckr(rotary, 1, head_dim) /\ ckr(c.n_kv_heads, 1, c.n_heads)

from_json_minimax(r, t, arch) ==
    LET head_dim == gi_in(t, "head_dim")
        sparse == Get(t, "sparse_attention_config", <<>>)
        c == [Blank(t, arch) EXCEPT
                !.n_experts = gi_in(t, "num_local_experts"), !.moe_inter = gi_in(t, "intermediate_size"),
                !.dense_inter = gi_in(t, "dense_intermediate_size"), !.first_dense = LeadingDense(t),
                !.qk_nope = head_dim - gi_in(t, "rotary_dim"), !.qk_rope = gi_in(t, "rotary_dim"),
                !.qk_head = head_dim, !.v_head = head_dim, !.shared_inter = gi_in(t, "shared_intermediate_size"),
                !.index_nh = Get(sparse, "sparse_num_index_heads", 0), !.index_hd = Get(sparse, "sparse_index_dim", 0),
                !.idx_type = SparseIdxType(t), !.gemma_norm = Get(t, "use_gemma_norm", FALSE),
                !.stop_ids = StopIdsOf(r, t)]
    IN IF validate_common(c) /\ GqaRanges(c, head_dim, gi_in(t, "rotary_dim")) /\ ckr(c.shared_inter, 0, 2^24)
       THEN c ELSE Refused

\* Which Maple layers slide; the window counts only when one does.
MapleSliding(r) ==
    LET types == Get(r, "layer_types", <<>>)
    IN [i \in 1 .. LayersListed(gi_in(r, "num_hidden_layers")) |-> i <= Len(types) /\ types[i] = "sliding_attention"]

from_json_maple(r) ==
    LET heads == gi_in(r, "num_attention_heads")
        head_dim == IF gi_in(r, "head_dim") > 0 THEN gi_in(r, "head_dim")
                    ELSE IF heads > 0 THEN gi_in(r, "hidden_size") \div heads ELSE 0
        rotary == head_dim \div Get(r, "rotary_split", 1)   \* partial_rotary_factor is 1 / rotary_split
        slides == MapleSliding(r)
        c == [Blank(r, "Maple") EXCEPT
                !.n_experts = gi_in(r, "num_experts"), !.n_shared = gi_in(r, "num_shared_experts"),
                !.qk_nope = head_dim - rotary, !.qk_rope = rotary, !.qk_head = head_dim, !.v_head = head_dim,
                !.index_nh = 0, !.index_hd = 0, !.router_score = "softmax", !.layer_swa = slides,
                !.swa_window = IF TRUE \in ToSet(slides) THEN gi_in(r, "sliding_window") ELSE 0,
                !.nope_on_global = Get(r, "nope_on_global_attention", FALSE), !.stop_ids = parse_stop_ids(r)]
    IN IF validate_common(c) /\ GqaRanges(c, head_dim, rotary) /\ ckr(c.swa_window, 0, 2^24) THEN c ELSE Refused

\* DeepSeek-V4 is taken as it stands: this parser checks no range.
from_json_deepseek_v4(r) ==
    LET head_dim == gi_in(r, "head_dim")
    IN [Blank(r, "DeepseekV4") EXCEPT
          !.kv_lora = head_dim, !.qk_nope = head_dim - gi_in(r, "qk_rope_head_dim"),
          !.qk_rope = gi_in(r, "qk_rope_head_dim"), !.qk_head = head_dim, !.v_head = head_dim,
          !.shared_inter = gi_in(r, "n_shared_experts") * gi_in(r, "moe_intermediate_size"),
          !.compress_ratios = Get(r, "compress_ratios", <<>>), !.n_hash_layers = gi_in(r, "num_hash_layers"),
          !.dspark_targets = Get(r, "dspark_target_layer_ids", <<>>), !.hc_mult = gi_in(r, "hc_mult"),
          !.stop_ids = parse_stop_ids(r)]

\* Kimi's mixers: the layers of the 1-indexed `full_attn_layers` attend, all others are KDA.
KimiKinds(t) ==
    LET full == ToSet(Get(Get(t, "linear_attn_config", <<>>), "full_attn_layers", <<>>))
    IN [i \in 1 .. LayersListed(gi_in(t, "num_hidden_layers")) |-> IF i \in full THEN "Attn" ELSE "Kda"]

from_json_kimi(r, t) ==
    LET lac == Get(t, "linear_attn_config", <<>>)
        c == [Blank(t, "KimiK3") EXCEPT
                !.n_experts = gi_in(t, "num_experts"), !.topk = gi_in(t, "num_experts_per_token"),
                !.dense_inter = gi_in(t, "intermediate_size"), !.first_dense = gi_in(t, "first_k_dense_replace"),
                !.kv_lora = gi_in(t, "kv_lora_rank"), !.qk_nope = gi_in(t, "qk_nope_head_dim"),
                !.qk_rope = gi_in(t, "qk_rope_head_dim"), !.v_head = gi_in(t, "v_head_dim"),
                !.qk_head = gi_in(t, "qk_nope_head_dim") + gi_in(t, "qk_rope_head_dim"),
                !.n_shared = gi_in(t, "num_shared_experts"),
                !.shared_inter = gi_in(t, "num_shared_experts") * gi_in(t, "moe_intermediate_size"),
                !.index_nh = 0, !.index_hd = 0, !.layer_kind = KimiKinds(t),
                !.kda = <<Get(lac, "num_heads", 0), Get(lac, "head_dim", 0), Get(lac, "short_conv_kernel_size", 0)>>,
                !.moe_latent = gi_in(t, "routed_expert_hidden_size"),
                !.attn_res_block_size = gi_in(t, "attn_res_block_size"), !.stop_ids = StopIdsOf(r, t)]
    IN IF /\ validate_common(c)
          /\ Len(c.layer_kind) = c.n_layers /\ "Attn" \in ToSet(c.layer_kind)
          /\ ckr(c.kda[1], 1, 2^16) /\ ckr(c.kda[2], 1, 2^16) /\ ckr(c.kda[3], 1, 2^8)
          /\ ckr(c.moe_latent, 0, 2^24) /\ ckr(c.kv_lora, 1, 2^16) /\ ckr(c.attn_res_block_size, 1, 2^16)
       THEN c ELSE Refused

\* parse_hybrid_pattern: one mixer per character; any other character refuses the model.
PatternKind == [M |-> "Mamba", E |-> "Moe", star |-> "Attn"]

PatternKnown(p) == ToSet(p) \subseteq DOMAIN PatternKind

parse_hybrid_pattern(p) == [i \in DOMAIN p |-> PatternKind[p[i]]]

from_json_nemotron(r) ==
    LET head_dim == gi_in(r, "head_dim")
        pattern == Get(r, "hybrid_override_pattern", <<>>)
        head == Get(r, "mtp_hybrid_override_pattern", <<>>)
        rope == head_dim \div Get(r, "rotary_split", 1)
        c == [Blank(r, "NemotronH") EXCEPT
                !.dense_inter = AtLeast(gi_in(r, "moe_intermediate_size"), 1),
                !.qk_nope = head_dim - rope, !.qk_rope = rope, !.qk_head = head_dim, !.v_head = head_dim,
                !.n_shared = AtLeast(gi_in(r, "n_shared_experts"), 0),
                !.shared_inter = AtLeast(gi_in(r, "moe_shared_expert_intermediate_size"), 0),
                !.index_nh = 0, !.index_hd = 0,
                !.layer_kind = parse_hybrid_pattern(pattern), !.mtp_layer_kind = parse_hybrid_pattern(head),
                !.mamba = <<gi_in(r, "ssm_state_size"), gi_in(r, "conv_kernel"), gi_in(r, "mamba_num_heads"),
                            gi_in(r, "mamba_head_dim"), AtLeast(gi_in(r, "n_groups"), 1)>>,
                !.moe_latent = gi_in(r, "moe_latent_size"), !.stop_ids = parse_stop_ids(r)]
    IN IF /\ PatternKnown(pattern) /\ PatternKnown(head)
          /\ validate_common(c)
          /\ ckr(head_dim, 1, 2^16) /\ ckr(c.n_kv_heads, 1, c.n_heads)
          /\ ckr(c.mamba[1], 1, 2^16) /\ ckr(c.mamba[2], 1, 64) /\ ckr(c.mamba[3], 1, 2^16)
          /\ ckr(c.mamba[4], 1, 2^16) /\ ckr(c.mamba[5], 1, c.mamba[3])
          /\ ckr(c.moe_latent, 1, 2^20) /\ ckr(c.shared_inter, 1, 2^24)
          /\ Len(c.layer_kind) = c.n_layers
       THEN c ELSE Refused

Says(r, types, classes) ==
    \/ Get(r, "model_type", "") \in types
    \/ ToSet(Get(r, "architectures", <<>>)) \cap classes # {}

\* from_json: which architecture a config names.  Anything left that nests a `text_config`
\* is MiniMax-M3, so Kimi, which nests one too, is asked for before.
from_json(r) ==
    LET t == Get(r, "text_config", r)
    IN IF Says(r, {"nemotron_h"}, {"NemotronHForCausalLM"}) THEN from_json_nemotron(r)
       ELSE IF Says(r, {"minimax_m2"}, {"MiniMaxM2ForCausalLM"}) THEN from_json_minimax(r, r, "MinimaxM2")
       ELSE IF Says(r, {"deepseek_v4"}, {"DeepseekV4ForCausalLM"}) THEN from_json_deepseek_v4(r)
       ELSE IF Says(r, {"kimi_k3"}, {"KimiK3ForConditionalGeneration", "KimiLinearForCausalLM"}) THEN from_json_kimi(r, t)
       ELSE IF Says(r, {"maple"}, {"MapleForCausalLM"}) THEN from_json_maple(r)
       ELSE IF Says(r, {"minimax_m3_vl"}, {}) \/ "text_config" \in DOMAIN r THEN from_json_minimax(r, t, "MinimaxM3")
       ELSE from_json_glm(r)

\* Does layer i hold experts?  moe_layers reads it off `layer_kind` where that names Moe layers.
HoldsExperts(c, i) ==
    IF "Moe" \in ToSet(c.layer_kind) THEN c.layer_kind[i + 1] = "Moe" ELSE i >= c.first_dense

moe_layers(c) == {i \in 0 .. c.n_layers - 1 : HoldsExperts(c, i)}

\* The layer indices a speculative head takes up above the stack.
mtp_head_layers(c) == AtLeast(Len(c.mtp_layer_kind), 1)
==============================================================================
