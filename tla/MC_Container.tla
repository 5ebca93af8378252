---------------------------- MODULE MC_Container ----------------------------
(***************************************************************************)
(* Eight checkpoints of six architectures, each two layers deep with three *)
(* experts, over three source shards; the GLM and the Nemotron head spread *)
(* their experts over shards.                                              *)
(***************************************************************************)
EXTENDS Container

\* A weight, a one-dimensional tensor and an expert's weight of a source checkpoint.
Src(tree, l, e, path, enc, dims) ==
    [tree |-> tree, layer |-> l, expert |-> e, path |-> path, enc |-> enc, dims |-> dims, ternary |-> FALSE]
M(l, path) == Src("text", l, -1, path, "bf16", 2)
V(l, path) == Src("text", l, -1, path, "f32", 1)
Xs(tree, l, e, block, enc, ws) == [k \in DOMAIN ws |-> Src(tree, l, e, <<block, "experts", ws[k], "weight">>, enc, 2)]
Ms(l, block, ws) == [k \in DOMAIN ws |-> M(l, <<block, ws[k], "weight">>)]
Vs(l, ws) == [k \in DOMAIN ws |-> V(l, <<ws[k], "weight">>)]
In(l, block, ws) == [k \in DOMAIN ws |-> V(l, <<block, ws[k], "weight">>)]
As(tree, ts) == [k \in DOMAIN ts |-> [ts[k] EXCEPT !.tree = tree]]

Three == <<"gate_proj", "up_proj", "down_proj">>
Swi == <<"w1", "w3", "w2">>
Dense(l) == Ms(l, "mlp", Three)
SharedOf(l, block) == [k \in DOMAIN Three |-> M(l, <<block, "shared_experts", Three[k], "weight">>)]
Embeds == <<M(-1, <<"embed_tokens", "weight">>), M(-1, <<"lm_head", "weight">>), V(-1, <<"norm", "weight">>)>>

Sizes == [hidden_size |-> 4, num_hidden_layers |-> 2, num_attention_heads |-> 2, vocab_size |-> 8,
          num_experts_per_tok |-> 1, moe_intermediate_size |-> 4, head_dim |-> 4, eos_token_id |-> <<1>>]

------------------------------------------------------------------------------
(* GLM: a dense layer, a sparse one with an indexer, the head as layer 2.  *)

MlaOf(l) == Vs(l, <<"input_layernorm", "post_attention_layernorm">>)
            \o Ms(l, "self_attn", <<"q_a_proj", "q_b_proj", "kv_a_proj_with_mqa", "kv_b_proj", "o_proj">>)
            \o In(l, "self_attn", <<"q_a_layernorm", "kv_a_layernorm">>)
GlmGate(l) == <<M(l, <<"mlp", "gate", "weight">>), V(l, <<"mlp", "gate", "e_score_correction_bias">>)>> \o SharedOf(l, "mlp")
GlmIdx(l) == [k \in 1 .. 3 |-> M(l, <<"self_attn", "indexer", <<"wq_b", "wk", "weights_proj">>[k], "weight">>)]
             \o <<V(l, <<"self_attn", "indexer", "k_norm", "weight">>), V(l, <<"self_attn", "indexer", "k_norm", "bias">>)>>
GlmScale(l) == <<M(l, <<"self_attn", "q_a_proj", "weight_scale_inv">>)>>
GlmJson == Sizes @@ [model_type |-> "glm_moe_dsa", n_routed_experts |-> 3, intermediate_size |-> 4, first_k_dense_replace |-> 1,
                     kv_lora_rank |-> 2, q_lora_rank |-> 2, qk_nope_head_dim |-> 2, qk_rope_head_dim |-> 2, v_head_dim |-> 4,
                     n_shared_experts |-> 1, n_group |-> 1, index_n_heads |-> 1, index_head_dim |-> 2]
GlmFiles == <<Embeds \o MlaOf(0) \o Dense(0) \o GlmScale(0)
                \o MlaOf(2) \o GlmGate(2) \o Vs(2, <<"enorm", "hnorm">>)
                \o <<M(2, <<"eh_proj", "weight">>), V(2, <<"shared_head", "norm", "weight">>)>> \o Xs("text", 2, 0, "mlp", "fp8", Three),
              MlaOf(1) \o GlmIdx(1) \o GlmGate(1) \o Xs("text", 1, 0, "mlp", "fp8", Three) \o Xs("text", 2, 1, "mlp", "fp8", Three),
              Xs("text", 1, 1, "mlp", "fp8", Three) \o Xs("text", 1, 2, "mlp", "fp8", Three) \o Xs("text", 2, 2, "mlp", "fp8", Three)>>

------------------------------------------------------------------------------
(* MiniMax-M3: GQA, Gemma norms, a sparse indexer, a vision tower to drop. *)

GqaOf(l) == Vs(l, <<"input_layernorm", "post_attention_layernorm">>)
            \o Ms(l, "self_attn", <<"q_proj", "k_proj", "v_proj", "o_proj">>) \o In(l, "self_attn", <<"q_norm", "k_norm">>)
M3Json == [model_type |-> "minimax_m3_vl",
           text_config |-> Sizes @@ [num_local_experts |-> 3, intermediate_size |-> 4, dense_intermediate_size |-> 4,
             shared_intermediate_size |-> 4, n_shared_experts |-> 1, num_key_value_heads |-> 1, rotary_dim |-> 2,
             moe_layer_freq |-> <<0, 1>>, use_gemma_norm |-> TRUE,
             sparse_attention_config |-> [sparse_num_index_heads |-> 1, sparse_index_dim |-> 2, sparse_attention_freq |-> <<0, 1>>]]]
M3Moe(l) == <<M(l, <<"block_sparse_moe", "gate", "weight">>), V(l, <<"block_sparse_moe", "e_score_correction_bias">>)>>
            \o SharedOf(l, "block_sparse_moe")
M3Files == <<Embeds \o GqaOf(0) \o Dense(0) \o As("vision", <<M(0, <<"self_attn", "q_proj", "weight">>)>>),
             GqaOf(1) \o Ms(1, "self_attn", <<"index_q_proj", "index_k_proj">>) \o In(1, "self_attn", <<"index_q_norm", "index_k_norm">>)
               \o M3Moe(1) \o Xs("text", 1, 0, "block_sparse_moe", "bf16", Swi),
             Xs("text", 1, 1, "block_sparse_moe", "bf16", Swi) \o Xs("text", 1, 2, "block_sparse_moe", "bf16", Swi)>>

------------------------------------------------------------------------------
(* Maple: every layer sparse, ternary weights, softmax routing, no bias.   *)

MapleJson == Sizes @@ [model_type |-> "maple", num_experts |-> 3, num_shared_experts |-> 1, num_key_value_heads |-> 1,
                       layer_types |-> <<"sliding_attention", "full_attention">>, sliding_window |-> 2]
Ternary(ts) == [k \in DOMAIN ts |-> [ts[k] EXCEPT !.ternary = ts[k].layer >= 0 /\ ts[k].dims = 2]]
MapleTop == <<M(-1, <<"word_embeddings", "weight">>), M(-1, <<"lm_head", "weight">>), V(-1, <<"norm", "weight">>)>>
MapleMoe(l) == <<M(l, <<"mlp", "gate", "weight">>)>> \o SharedOf(l, "mlp")
MapleFiles == <<MapleTop \o Ternary(GqaOf(0) \o MapleMoe(0) \o Xs("text", 0, 0, "mlp", "bf16", Three)),
                Ternary(GqaOf(1) \o MapleMoe(1) \o Xs("text", 1, 0, "mlp", "bf16", Three) \o Xs("text", 0, 1, "mlp", "bf16", Three)),
                Ternary(Xs("text", 1, 1, "mlp", "bf16", Three) \o Xs("text", 0, 2, "mlp", "bf16", Three) \o Xs("text", 1, 2, "mlp", "bf16", Three))>>

------------------------------------------------------------------------------
(* Kimi-K3: a KDA layer and an attention layer, latent MXFP4 experts.      *)

KimiJson == [model_type |-> "kimi_k3",
             text_config |-> Sizes @@ [num_experts |-> 3, num_experts_per_token |-> 1, num_shared_experts |-> 1,
               intermediate_size |-> 4, first_k_dense_replace |-> 1, kv_lora_rank |-> 2, qk_nope_head_dim |-> 2,
               qk_rope_head_dim |-> 2, v_head_dim |-> 4, routed_expert_hidden_size |-> 2, attn_res_block_size |-> 1,
               linear_attn_config |-> [full_attn_layers |-> <<2>>, num_heads |-> 1, head_dim |-> 2, short_conv_kernel_size |-> 2]]]
KimiNorms(l) == Vs(l, <<"input_layernorm", "post_attention_layernorm", "self_attention_res_norm", "mlp_res_norm">>)
                \o <<M(l, <<"self_attention_res_proj", "weight">>), M(l, <<"mlp_res_proj", "weight">>)>>
                \o Ms(l, "self_attn", <<"o_proj", "g_proj">>)
KimiKda(l) == Ms(l, "self_attn", <<"q_proj", "k_proj", "v_proj", "b_proj", "f_a_proj", "f_b_proj">>)
              \o [k \in 1 .. 3 |-> Src("text", l, -1, <<"self_attn", <<"q_conv1d", "k_conv1d", "v_conv1d">>[k], "weight">>, "bf16", 3)]
              \o In(l, "self_attn", <<"o_norm">>) \o <<V(l, <<"self_attn", "A_log">>), V(l, <<"self_attn", "dt_bias">>)>>
KimiMla(l) == Ms(l, "self_attn", <<"q_a_proj", "q_b_proj", "kv_a_proj_with_mqa", "kv_b_proj">>)
              \o In(l, "self_attn", <<"q_a_layernorm", "kv_a_layernorm">>)
KimiMoe(l) == <<M(l, <<"block_sparse_moe", "gate", "weight">>), V(l, <<"block_sparse_moe", "gate", "e_score_correction_bias">>),
                V(l, <<"block_sparse_moe", "routed_expert_norm", "weight">>),
                M(l, <<"block_sparse_moe", "routed_expert_down_proj", "weight">>), M(l, <<"block_sparse_moe", "routed_expert_up_proj", "weight">>)>>
              \o SharedOf(l, "block_sparse_moe")
Packed(l, e) == [k \in 1 .. 3 |-> Src("text", l, e, <<"block_sparse_moe", "experts", Swi[k], "weight_packed">>, "mxfp4", 2)]
KimiFiles == <<Embeds \o Vs(-1, <<"output_attn_res_norm">>) \o <<M(-1, <<"output_attn_res_proj", "weight">>)>>
                 \o KimiNorms(0) \o KimiKda(0) \o Dense(0),
               KimiNorms(1) \o KimiMla(1) \o KimiMoe(1) \o Packed(1, 0), Packed(1, 1) \o Packed(1, 2)>>

------------------------------------------------------------------------------
(* Nemotron-H: a Mamba layer, a latent MoE layer, a head of two layers.    *)

NemJson == Sizes @@ [model_type |-> "nemotron_h", n_routed_experts |-> 3, n_shared_experts |-> 1, num_key_value_heads |-> 1,
                     hybrid_override_pattern |-> <<"M", "E">>, mtp_hybrid_override_pattern |-> <<"star", "E">>,
                     moe_shared_expert_intermediate_size |-> 4, moe_latent_size |-> 2, ssm_state_size |-> 2, conv_kernel |-> 2,
                     mamba_num_heads |-> 1, mamba_head_dim |-> 2, n_groups |-> 1]
NemMamba(l) == Vs(l, <<"norm">>) \o Ms(l, "mixer", <<"in_proj", "out_proj">>) \o In(l, "mixer", <<"norm">>)
               \o <<Src("text", l, -1, <<"mixer", "conv1d", "weight">>, "bf16", 3), V(l, <<"mixer", "conv1d", "bias">>),
                    V(l, <<"mixer", "A_log">>), V(l, <<"mixer", "D">>), V(l, <<"mixer", "dt_bias">>)>>
NemMoe(l) == Vs(l, <<"norm">>) \o <<M(l, <<"mixer", "gate", "weight">>), V(l, <<"mixer", "gate", "e_score_correction_bias">>)>>
             \o Ms(l, "mixer", <<"fc1_latent_proj", "fc2_latent_proj">>)
             \o [k \in 1 .. 2 |-> M(l, <<"mixer", "shared_experts", <<"up_proj", "down_proj">>[k], "weight">>)]
NemX(tree, l, e) == Xs(tree, l, e, "mixer", "nvfp4", <<"up_proj", "down_proj">>)
NemHead0 == As("mtp", Vs(0, <<"norm", "enorm", "hnorm">>) \o Ms(0, "mixer", <<"q_proj", "k_proj", "v_proj", "o_proj">>)
                       \o <<M(0, <<"eh_proj", "weight">>)>>)
NemHead1 == As("mtp", NemMoe(1) \o Vs(1, <<"final_layernorm">>))
NemFiles == <<<<M(-1, <<"embeddings", "weight">>), M(-1, <<"lm_head", "weight">>), V(-1, <<"norm_f", "weight">>)>>
                \o NemMamba(0) \o NemHead0 \o NemHead1 \o NemX("mtp", 1, 0),
              NemMoe(1) \o NemX("text", 1, 0) \o NemX("text", 1, 1) \o NemX("mtp", 1, 1),
              NemX("text", 1, 2) \o NemX("mtp", 1, 2)>>

------------------------------------------------------------------------------
(* DeepSeek-V4: hyper-connections, hash-routed layer 0, compressed layer 1 *)
(* with an indexer, one DSpark stage.                                      *)

V4Json == Sizes @@ [model_type |-> "deepseek_v4", n_routed_experts |-> 3, n_shared_experts |-> 1, qk_rope_head_dim |-> 2,
                    compress_ratios |-> <<0, 4>>, num_hash_layers |-> 1, hc_mult |-> 2, index_n_heads |-> 1, index_head_dim |-> 2,
                    dspark_target_layer_ids |-> <<0, 1>>]
V4Hc(l) == <<M(l, <<"hc_attn_fn">>), V(l, <<"hc_attn_base">>), V(l, <<"hc_attn_scale">>),
             M(l, <<"hc_ffn_fn">>), V(l, <<"hc_ffn_base">>), V(l, <<"hc_ffn_scale">>)>>
V4Mla(l) == Vs(l, <<"attn_norm", "ffn_norm">>) \o V4Hc(l)
            \o Ms(l, "attn", <<"wq_a", "wq_b", "wkv", "wo_a", "wo_b">>) \o In(l, "attn", <<"q_norm", "kv_norm">>)
            \o <<V(l, <<"attn", "attn_sink">>)>>
V4Comp(l, block) == <<M(l, block \o <<"wkv", "weight">>), M(l, block \o <<"wgate", "weight">>), M(l, block \o <<"ape">>),
                      V(l, block \o <<"norm", "weight">>)>>
V4Shared(l) == [k \in 1 .. 3 |-> M(l, <<"ffn", "shared_experts", Swi[k], "weight">>)]
V4Gate(l) == <<M(l, <<"ffn", "gate", "weight">>), V(l, <<"ffn", "gate", "bias">>)>> \o V4Shared(l)
V4Hash(l) == <<M(l, <<"ffn", "gate", "weight">>), Src("text", l, -1, <<"ffn", "gate", "tid2eid">>, "i64", 2)>> \o V4Shared(l)
V4X(tree, l, e) == Xs(tree, l, e, "ffn", "mxfp4", Swi)
V4Idx(l) == <<M(l, <<"attn", "indexer", "wq_b", "weight">>), M(l, <<"attn", "indexer", "weights_proj", "weight">>)>>
            \o V4Comp(l, <<"attn", "indexer", "compressor">>)
V4Stage == As("mtp", V4Mla(0) \o V4Gate(0) \o <<M(0, <<"main_proj", "weight">>)>> \o Vs(0, <<"main_norm", "norm">>)
                      \o <<M(0, <<"confidence_head", "proj", "weight">>), M(0, <<"markov_head", "markov_w1", "weight">>)>>)
V4Files == <<<<M(-1, <<"embed", "weight">>), M(-1, <<"head", "weight">>), V(-1, <<"norm", "weight">>),
               M(-1, <<"hc_head_fn">>), V(-1, <<"hc_head_base">>), V(-1, <<"hc_head_scale">>)>>
               \o V4Mla(0) \o V4Hash(0) \o V4X("text", 0, 0) \o V4X("text", 0, 1) \o V4X("text", 0, 2),
             V4Mla(1) \o V4Comp(1, <<"attn", "compressor">>) \o V4Idx(1) \o V4Gate(1) \o V4X("text", 1, 0) \o V4X("text", 1, 1),
             V4X("text", 1, 2) \o V4Stage>>

------------------------------------------------------------------------------

Checkpoint(json, files, stages, headless) == [json |-> json, files |-> files, stages |-> stages, headless |-> headless]

AllModels == [glm      |-> Checkpoint(GlmJson, GlmFiles, 0, FALSE), glm_headless |-> Checkpoint(GlmJson, GlmFiles, 0, TRUE),
              nemotron |-> Checkpoint(NemJson, NemFiles, 0, FALSE), nemotron_headless |-> Checkpoint(NemJson, NemFiles, 0, TRUE),
              m3       |-> Checkpoint(M3Json, M3Files, 0, FALSE), maple |-> Checkpoint(MapleJson, MapleFiles, 0, FALSE),
              kimi     |-> Checkpoint(KimiJson, KimiFiles, 0, FALSE), v4 |-> Checkpoint(V4Json, V4Files, 1, FALSE)]

V4Only == [v4 |-> AllModels.v4]

Env(idx, xfp8, io16, mtp) == [keep_indexer |-> idx, xfp8 |-> xfp8, io16 |-> io16, mtp_only |-> mtp]

\* COLI_XFP8 is for the checkpoints whose experts are not MXFP4 already, COLI_MTP_ONLY for
\* those with a head, COLI_KEEP_INDEXER for all but V4 (see IndexerEnvs).
UsualEnvs(c) ==
    {Env(FALSE, FALSE, FALSE, FALSE), Env(c.arch # "DeepseekV4", FALSE, TRUE, FALSE)}
    \cup (IF c.arch \in {"GlmMoeDsa", "MinimaxM3", "NemotronH"} THEN {Env(FALSE, TRUE, FALSE, FALSE)} ELSE {})
    \cup (IF c.arch \in {"GlmMoeDsa", "NemotronH", "DeepseekV4"} THEN {Env(FALSE, FALSE, FALSE, TRUE)} ELSE {})

IndexerEnvs(c) == {Env(TRUE, FALSE, FALSE, FALSE)}
==============================================================================
