------------------------------ MODULE ModelLoad ------------------------------
(***************************************************************************)
(* lib.rs `load_model_with` and the loaders of each architecture,          *)
(* loader.rs `qt_load` and `ld`, moe.rs `load_expert`: which tensors of a  *)
(* container a model reads, with which reader, and what each reader makes  *)
(* of the bytes it finds.                                                  *)
(***************************************************************************)
EXTENDS Converter

Err == [of |-> "err", exact |-> FALSE, plus |-> 0]

HasName(sh, name) == name \in DOMAIN sh

\* read_f32 turns bytes of a U8 tensor into numbers one by one.
read_f32(sh, name) ==
    IF ~HasName(sh, name) THEN Err
    ELSE IF ~sh[name].ok THEN Err
    ELSE IF IsCodes(sh[name].bytes.enc) THEN Garbage ELSE sh[name].bytes.val

ld(sh, name) == read_f32(sh, name)

\* Codes read with the scales beside them, decoded as `as`.
Decoded(sh, name, side, as) ==
    IF ~HasName(sh, name) \/ ~HasName(sh, Side(name, side)) THEN Err
    ELSE IF ~sh[name].ok \/ ~sh[Side(name, side)].ok THEN Err
    ELSE IF sh[name].bytes.enc = as THEN sh[name].bytes.val ELSE Garbage

\* One byte per weight is int8; any other length is taken for int2.
ByLength(sh, name) ==
    IF HasName(sh, name) /\ sh[name].bytes.enc \in {"int8", "e4m3"} /\ sh[name].bytes.full THEN "int8" ELSE "int2"

qt_load(sh, name, bits) ==
    IF HasName(sh, Side(name, "g"))
    THEN IF HasName(sh, name) /\ (sh[name].bytes.enc # "nvfp4" \/ ~sh[name].bytes.full) THEN Err
         ELSE Decoded(sh, name, "g", "nvfp4")
    ELSE IF bits >= 16 /\ HasName(sh, name) /\ sh[name].bytes.enc = "BF16" THEN read_f32(sh, name)
    ELSE IF HasName(sh, Side(name, "qs")) THEN Decoded(sh, name, "qs", ByLength(sh, name))
    ELSE LET w == read_f32(sh, name) IN IF bits >= 16 \/ w = Err THEN w ELSE Rounded(w)

------------------------------------------------------------------------------
(* The reads of a model: pairs of a reader and a name, all of which must   *)
(* succeed for the load to.                                                *)

Ld(i, paths) == {<<"ld", Name(i, -1, p)>> : p \in paths}

Qt(i, paths) == {<<"qt", Name(i, -1, p)>> : p \in paths}

W(block, names) == {<<block, x, "weight">> : x \in names}

Blocks(names) == {<<x, "weight">> : x \in names}

DenseFfn(i) == Qt(i, W("mlp", {"gate_proj", "up_proj", "down_proj"}))

SharedFfn(i) == Qt(i, {<<"mlp", "shared_experts", x, "weight">> : x \in {"gate_proj", "up_proj", "down_proj"}})

\* The three names a routing bias goes by, in the order they are tried.
BiasNames(i) == <<Name(i, -1, <<"mlp", "gate", "e_score_correction_bias">>),
                  Name(i, -1, <<"mlp", "e_score_correction_bias">>), Name(i, -1, <<"mlp", "gate", "bias">>)>>

\* The first that can be read; V4 and Maple go without, any other model fails on the last.
RouterBias(sh, c, i) ==
    LET good == {k \in 1 .. 3 : ld(sh, BiasNames(i)[k]) # Err}
    IN IF good # {} THEN {<<"ld", BiasNames(i)[CHOOSE k \in good : \A m \in good : k <= m]>>}
       ELSE IF c.arch \in {"DeepseekV4", "Maple"} THEN {} ELSE {<<"ld", BiasNames(i)[3]>>}

Ffn(sh, c, i, sparse) ==
    IF ~sparse THEN DenseFfn(i)
    ELSE Ld(i, {<<"mlp", "gate", "weight">>}) \cup RouterBias(sh, c, i)
         \cup IF c.moe_inter * c.n_shared > 0 THEN SharedFfn(i) ELSE {}

GqaReads(sh, c, i) ==
    Qt(i, W("self_attn", {"o_proj", "q_proj", "k_proj", "v_proj"})) \cup Ld(i, W("self_attn", {"q_norm", "k_norm"}))
    \cup IF /\ i + 1 \in DOMAIN c.idx_type /\ c.idx_type[i + 1] /\ c.index_hd > 0
            /\ HasName(sh, Name(i, -1, <<"self_attn", "index_q_proj", "weight">>))
         THEN Qt(i, W("self_attn", {"index_q_proj", "index_k_proj"})) \cup Ld(i, W("self_attn", {"index_q_norm", "index_k_norm"}))
         ELSE {}

HasIndexer(sh, i) == HasName(sh, Name(i, -1, <<"self_attn", "indexer", "wq_b", "weight">>))

Indexer(names) == {<<"self_attn", "indexer", x, "weight">> : x \in names}

MlaReads(sh, c, i) ==
    Qt(i, W("self_attn", {"o_proj", "q_a_proj", "q_b_proj", "kv_a_proj_with_mqa", "kv_b_proj"}))
    \cup Ld(i, W("self_attn", {"q_a_layernorm", "kv_a_layernorm"}))
    \cup IF c.index_hd > 0 /\ c.index_nh > 0 /\ HasIndexer(sh, i)
         THEN Qt(i, Indexer({"wq_b", "wk", "weights_proj"}))
              \cup Ld(i, Indexer({"k_norm"}) \cup {<<"self_attn", "indexer", "k_norm", "bias">>})
         ELSE {}

Compressor(block) == {block \o <<x, "weight">> : x \in {"wkv", "wgate"}}

\* V4: the O-LoRA pair, hyper-connections, a compressor by ratio, indexer and hash table by presence.
Dsv4Reads(sh, c, i) ==
    Qt(i, W("self_attn", {"o_a_proj", "o_b_proj", "q_a_proj", "q_b_proj", "kv_a_proj"}))
    \cup Ld(i, W("self_attn", {"q_a_layernorm", "kv_a_layernorm"}) \cup {<<"self_attn", "attn_sink">>}
               \cup {<<x>> : x \in {"hc_attn_fn", "hc_attn_base", "hc_attn_scale", "hc_ffn_fn", "hc_ffn_base", "hc_ffn_scale"}})
    \cup (IF i + 1 \in DOMAIN c.compress_ratios /\ c.compress_ratios[i + 1] > 0
          THEN Qt(i, Compressor(<<"self_attn", "compressor">>))
               \cup Ld(i, {<<"self_attn", "compressor", "ape">>, <<"self_attn", "compressor", "norm", "weight">>})
          ELSE {})
    \cup (IF HasIndexer(sh, i)
          THEN Qt(i, Indexer({"wq_b", "weights_proj"}) \cup Compressor(<<"self_attn", "indexer", "compressor">>))
               \cup Ld(i, {<<"self_attn", "indexer", "compressor", "ape">>,
                           <<"self_attn", "indexer", "compressor", "norm", "weight">>})
          ELSE {})
    \cup IF HasName(sh, Name(i, -1, <<"mlp", "gate", "tid2eid">>)) THEN Ld(i, {<<"mlp", "gate", "tid2eid">>}) ELSE {}

\* split_row_blocks cuts int8 and f32 rows only: an O-LoRA weight in NVFP4 is refused.
SplitsRows(sh, i) == ~HasName(sh, Side(Name(i, -1, <<"self_attn", "o_a_proj", "weight">>), "g"))

nemotron_kind_reads(sh, i, kind) ==
    Ld(i, {<<"input_layernorm", "weight">>}) \cup
    CASE kind = "Mamba" ->
           Qt(i, W("mixer", {"in_proj", "out_proj"})) \cup Ld(i, W("mixer", {"conv1d", "norm"}))
           \cup Ld(i, {<<"mixer", x>> : x \in {"A_log", "D", "dt_bias"}})
           \cup IF ld(sh, Name(i, -1, <<"mixer", "conv1d", "bias">>)) # Err THEN Ld(i, {<<"mixer", "conv1d", "bias">>}) ELSE {}
      [] kind = "Attn" -> Qt(i, W("mixer", {"q_proj", "k_proj", "v_proj", "o_proj"}))
      [] kind = "Moe" ->
           Ld(i, {<<"mixer", "gate", "weight">>, <<"mixer", "gate", "e_score_correction_bias">>})
           \cup Qt(i, W("mixer", {"fc1_latent_proj", "fc2_latent_proj"})
                      \cup {<<"mixer", "shared_experts", x, "weight">> : x \in {"up_proj", "down_proj"}})

load_layer_kimi(c, i) ==
    Ld(i, Blocks({"input_layernorm", "post_attention_layernorm", "self_attention_res_norm", "self_attention_res_proj",
                  "mlp_res_norm", "mlp_res_proj"}))
    \cup Qt(i, W("self_attn", {"o_proj", "g_proj"}))
    \cup (IF c.layer_kind[i + 1] = "Kda"
          THEN Qt(i, W("self_attn", {"q_proj", "k_proj", "v_proj", "b_proj", "f_a_proj", "f_b_proj"}))
               \cup Ld(i, W("self_attn", {"q_conv1d", "k_conv1d", "v_conv1d", "o_norm"})
                          \cup {<<"self_attn", "A_log">>, <<"self_attn", "dt_bias">>})
          ELSE Qt(i, W("self_attn", {"q_a_proj", "q_b_proj", "kv_a_proj_with_mqa", "kv_b_proj"}))
               \cup Ld(i, W("self_attn", {"q_a_layernorm", "kv_a_layernorm"})))
    \cup IF i < c.first_dense THEN DenseFfn(i)
         ELSE Ld(i, {<<"mlp", "gate", "weight">>, <<"mlp", "gate", "e_score_correction_bias">>, <<"mlp", "routed_expert_norm", "weight">>})
              \cup Qt(i, W("mlp", {"fc1_latent_proj", "fc2_latent_proj"})) \cup SharedFfn(i)

load_layer(sh, c, i, sparse) ==
    CASE c.arch = "NemotronH" -> nemotron_kind_reads(sh, i, c.layer_kind[i + 1])
      [] c.arch = "KimiK3"    -> load_layer_kimi(c, i)
      [] OTHER ->
           Ld(i, Blocks({"input_layernorm", "post_attention_layernorm"}))
           \cup (CASE c.arch = "DeepseekV4" -> Dsv4Reads(sh, c, i)
                   [] is_gqa(c.arch)        -> GqaReads(sh, c, i)
                   [] OTHER                 -> MlaReads(sh, c, i))
           \cup Ffn(sh, c, i, sparse)

------------------------------------------------------------------------------
(* The speculative heads.                                                  *)

Expert(l, e, path) == Name(l, e, path)

MtpInputs(i) == Ld(i, {<<"enorm", "weight">>, <<"hnorm", "weight">>, <<"shared_head", "norm", "weight">>}) \cup Qt(i, {<<"eh_proj", "weight">>})

\* Mutant: the last expert is not asked for.
RequiredGlmFirstOnly(c) ==
    {r[2] : r \in MtpInputs(c.n_layers)} \cup {Expert(c.n_layers, 0, <<"mlp", "experts", "gate_proj", "weight">>)}

\* What must be there before the head is taken for complete.
RequiredGlm(c) ==
    LET i == c.n_layers
    IN {r[2] : r \in MtpInputs(i)}
       \cup {Name(i, -1, p) : p \in Blocks({"input_layernorm", "post_attention_layernorm"})
               \cup W("self_attn", {"q_a_proj", "q_b_proj", "kv_a_proj_with_mqa", "kv_b_proj", "o_proj"})
               \cup {<<"mlp", "gate", "weight">>, <<"mlp", "shared_experts", "gate_proj", "weight">>,
                     <<"mlp", "shared_experts", "down_proj", "weight">>}}
       \cup {Expert(i, 0, <<"mlp", "experts", "gate_proj", "weight">>),
             Expert(i, c.n_experts - 1, <<"mlp", "experts", "down_proj", "weight">>)}

RequiredKind(c, i, kind) ==
    {Name(i, -1, <<"input_layernorm", "weight">>)} \cup
    CASE kind = "Attn" -> {Name(i, -1, p) : p \in W("mixer", {"q_proj", "k_proj", "v_proj", "o_proj"})}
      [] kind = "Moe" ->
           {r[2] : r \in nemotron_kind_reads(<<>>, i, "Moe")}
           \cup {Expert(i, 0, <<"mixer", "experts", "up_proj", "weight">>),
                 Expert(i, c.n_experts - 1, <<"mixer", "experts", "down_proj", "weight">>)}
      [] kind = "Mamba" -> {r[2] : r \in nemotron_kind_reads(<<>>, i, "Mamba")}

load_mtp_nemotron(sh, c) ==
    LET base == c.n_layers
        required == {r[2] : r \in MtpInputs(base)}
                    \cup UNION {RequiredKind(c, base + j - 1, c.mtp_layer_kind[j]) : j \in DOMAIN c.mtp_layer_kind}
    IN IF c.mtp_layer_kind = <<>> \/ ~(required \subseteq DOMAIN sh) THEN {}
       ELSE MtpInputs(base)
            \cup UNION {nemotron_kind_reads(sh, base + j - 1, c.mtp_layer_kind[j]) : j \in DOMAIN c.mtp_layer_kind}

\* The reads of the head; none when it is switched off or not all there.
load_mtp(sh, c, mtp_off) ==
    IF mtp_off THEN {}
    ELSE IF c.arch = "NemotronH" THEN load_mtp_nemotron(sh, c)
    ELSE IF ~(RequiredGlm(c) \subseteq DOMAIN sh) THEN {}
    ELSE MtpInputs(c.n_layers) \cup load_layer(sh, c, c.n_layers, TRUE)

\* DSpark: the stages are the run of layers above the stack that attend; the rest is optional.
Stages(sh, c) ==
    {j \in 0 .. 7 : \A k \in 0 .. j : HasName(sh, Name(c.n_layers + k, -1, <<"self_attn", "q_a_proj", "weight">>))}

DsparkOptional(n, last) ==
    Qt(n, {<<"main_proj", "weight">>}) \cup Ld(n, {<<"main_norm", "weight">>})
    \cup Ld(last, {<<"norm", "weight">>, <<"confidence_head", "proj", "weight">>, <<"hc_head_fn">>, <<"hc_head_base">>, <<"hc_head_scale">>})
    \cup Qt(last, {<<"markov_head", "markov_w1", "weight">>, <<"markov_head", "markov_w2", "weight">>})

DsparkReads(sh, c) ==
    LET n == c.n_layers
        stages == Stages(sh, c)
        last == n + Cardinality(stages) - 1
    IN IF stages = {} THEN {}
       ELSE UNION {load_layer(sh, c, n + j, TRUE) : j \in stages}
            \cup {r \in DsparkOptional(n, last) : HasName(sh, r[2])}

------------------------------------------------------------------------------
(* The whole model.                                                        *)

Top(p) == Name(-1, -1, p)

Sentinels(c) == {Top(<<"embed_tokens", "weight">>), Top(<<"lm_head", "weight">>), Top(<<"norm", "weight">>),
                 Name(c.n_layers - 1, -1, <<"input_layernorm", "weight">>)}

TopReads(c) ==
    {<<"io", Top(<<"embed_tokens", "weight">>)>>, <<"io", Top(<<"lm_head", "weight">>)>>} \cup Ld(-1, {<<"norm", "weight">>})
    \cup (IF c.arch = "KimiK3" THEN Ld(-1, {<<"output_attn_res_norm", "weight">>, <<"output_attn_res_proj", "weight">>}) ELSE {})
    \cup IF c.hc_mult > 0 THEN Ld(-1, {<<"hc_head_fn">>, <<"hc_head_base">>, <<"hc_head_scale">>}) ELSE {}

Read(sh, r) ==
    CASE r[1] = "ld" -> ld(sh, r[2]) [] r[1] = "qt" -> qt_load(sh, r[2], 8) [] r[1] = "io" -> qt_load(sh, r[2], 16)

LoadRefused == [ok |-> FALSE]

\* Shards are open; env has the switches MTP=0 and COLI_DSPARK=1.
load_model_with(sh, c, env) ==
    LET stack == UNION {load_layer(sh, c, i, i >= c.first_dense) : i \in 0 .. c.n_layers - 1}
        head == load_mtp(sh, c, env.mtp_off)
        dspark == IF env.dspark /\ c.arch = "DeepseekV4" THEN DsparkReads(sh, c) ELSE {}
        held == [r \in TopReads(c) \cup stack \cup head \cup dspark |-> Read(sh, r)]
    IN IF \/ c = Refused \/ ~(Sentinels(c) \subseteq DOMAIN sh)
          \/ \E r \in DOMAIN held : held[r] = Err
          \/ c.arch = "DeepseekV4" /\ \E i \in 0 .. c.n_layers - 1 : ~SplitsRows(sh, i)
       THEN LoadRefused
       ELSE [ok |-> TRUE, held |-> held, has_mtp |-> head # {}, dspark |-> dspark # {}]

------------------------------------------------------------------------------
(* A routed expert, read when a token needs it.                            *)

projs(c) == IF c.arch = "NemotronH" THEN <<"up_proj", "down_proj">> ELSE <<"gate_proj", "up_proj", "down_proj">>

prefix(c) == IF c.arch = "NemotronH" THEN "mixer" ELSE "mlp"

weight_name(c, l, e, proj) == Name(l, e, <<prefix(c), "experts", proj, "weight">>)

\* fp4_sidecar: `.g` is NVFP4, `.mx` MXFP4.
fp4_sidecar(sh, name) == IF HasName(sh, Side(name, "g")) THEN "g" ELSE IF HasName(sh, Side(name, "mx")) THEN "mx" ELSE ""

has_prequant_marker(sh, name) == HasName(sh, Side(name, "qs")) \/ fp4_sidecar(sh, name) # ""

\* expert_from_views: one projection of an expert that carries a marker.
ExpertView(sh, name, fp8) ==
    LET fp4 == fp4_sidecar(sh, name)
    IN CASE fp4 = "g"  -> Decoded(sh, name, "g", "nvfp4")
         [] fp4 = "mx" -> Decoded(sh, name, "mx", "mxfp4")
         [] OTHER      -> Decoded(sh, name, "qs", IF ByLength(sh, name) = "int2" THEN "int2" ELSE IF fp8 THEN "e4m3" ELSE "int8")

\* The first projection's marker decides how all of them are read.
load_expert(sh, c, l, e, fp8) ==
    LET marked == has_prequant_marker(sh, weight_name(c, l, e, projs(c)[1]))
    IN [k \in DOMAIN projs(c) |->
          IF marked THEN ExpertView(sh, weight_name(c, l, e, projs(c)[k]), fp8)
          ELSE qt_load(sh, weight_name(c, l, e, projs(c)[k]), 8)]

\* The first expert's marker decides for a whole batch; one that fails fails all (<<>>).
load_experts_batch(sh, c, l, eids, fp8) ==
    LET marked == has_prequant_marker(sh, weight_name(c, l, eids[1], projs(c)[1]))
        expert_from_views(e) == [k \in DOMAIN projs(c) |-> ExpertView(sh, weight_name(c, l, e, projs(c)[k]), fp8)]
        experts == [n \in DOMAIN eids |-> IF marked THEN expert_from_views(eids[n]) ELSE load_expert(sh, c, l, eids[n], fp8)]
    IN IF \E n \in DOMAIN eids, k \in DOMAIN projs(c) : experts[n][k] = Err THEN <<>> ELSE experts
==============================================================================
