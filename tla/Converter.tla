------------------------------ MODULE Converter ------------------------------
(***************************************************************************)
(* convert.rs: from a published checkpoint to the container the engine     *)
(* loads, and from one container to another (`requant-nvfp4`).             *)
(*                                                                         *)
(* A tensor's name is its layer (-1 above the stack), the number of its    *)
(* expert (-1 for none), the dotted path below the layer as a sequence of  *)
(* components, and the side-car suffix of the container (`.qs`, `.g`,      *)
(* `.mx`, or none).  A tensor's bytes are their encoding, whether they     *)
(* have the length that goes with the tensor's shape, and what they decode *)
(* to: the trained values or not, unrounded or not, and how many times the *)
(* `+1` of the Gemma norm was folded in.                                   *)
(***************************************************************************)
EXTENDS ModelConfig, TLC

Name(layer, expert, path) == [layer |-> layer, expert |-> expert, path |-> path, side |-> ""]

Side(name, side) == [name EXCEPT !.side = side]

Trained == [of |-> "trained", exact |-> TRUE, plus |-> 0]

Garbage == [of |-> "garbage", exact |-> FALSE, plus |-> 0]

Rounded(val) == [val EXCEPT !.exact = FALSE]

Bytes(enc, val) == [enc |-> enc, full |-> TRUE, val |-> val]

IsCodes(enc) == enc \notin {"F32", "BF16"}

Skipped == [kind |-> "skip"]

Failed == [kind |-> "err"]

------------------------------------------------------------------------------
(* Names.  A source tensor carries the subtree it comes from: "text",      *)
(* "vision", or "mtp" (its layer then counts the stages of the head).      *)

Dropped == Name(-2, -1, <<>>)

Rename(path, by) == [k \in DOMAIN path |-> IF path[k] \in DOMAIN by THEN by[path[k]] ELSE path[k]]

ExpertWeights == [w1 |-> "gate_proj", w3 |-> "up_proj", w2 |-> "down_proj"]

m3_container_name(t) ==
    IF t.tree # "text" THEN Dropped
    ELSE Name(t.layer, t.expert, Rename(t.path, ExpertWeights @@ [block_sparse_moe |-> "mlp"]))

\* Mutant: the source's spelling of the packed weight goes through.
kimi_container_name_packed(t) ==
    IF t.tree = "vision" THEN Dropped
    ELSE Name(t.layer, t.expert, Rename(t.path, ExpertWeights @@ [block_sparse_moe |-> "mlp",
                routed_expert_down_proj |-> "fc1_latent_proj", routed_expert_up_proj |-> "fc2_latent_proj"]))

kimi_container_name(t) ==
    IF t.tree = "vision" THEN Dropped
    ELSE Name(t.layer, t.expert, Rename(t.path, ExpertWeights @@ [block_sparse_moe |-> "mlp",
                routed_expert_down_proj |-> "fc1_latent_proj", routed_expert_up_proj |-> "fc2_latent_proj",
                weight_packed |-> "weight"]))

\* v4_tail: what stands right below `attn` is renamed; a compressor or an indexer keeps its names.
V4Attn == [wq_a |-> "q_a_proj", wq_b |-> "q_b_proj", wkv |-> "kv_a_proj", wo_a |-> "o_a_proj", wo_b |-> "o_b_proj",
           q_norm |-> "q_a_layernorm", kv_norm |-> "kv_a_layernorm"]

v4_tail(path) ==
    LET p == Rename(path, ExpertWeights @@ [attn |-> "self_attn", ffn |-> "mlp",
                                            attn_norm |-> "input_layernorm", ffn_norm |-> "post_attention_layernorm"])
    IN IF p[1] = "self_attn" THEN <<"self_attn">> \o Rename(<<path[2]>>, V4Attn) \o SubSeq(p, 3, Len(p)) ELSE p

V4Top == [embed |-> "embed_tokens", head |-> "lm_head"]

deepseek_v4_container_name(t, n) ==
    CASE t.tree = "mtp"                   -> Name(n + t.layer, t.expert, v4_tail(t.path))
      [] t.tree = "text" /\ t.layer = -1  -> Name(-1, -1, Rename(t.path, V4Top))
      [] t.tree = "text" /\ t.layer >= 0  -> Name(t.layer, t.expert, v4_tail(t.path))
      [] OTHER                            -> Dropped

\* The block's own norm takes GLM's name; the gated `mixer.norm` keeps its own.
BlockNorm(path) == IF path = <<"norm", "weight">> THEN <<"input_layernorm", "weight">> ELSE path

nemotron_container_name(t, n) ==
    CASE t.tree = "mtp" /\ t.layer = -1 -> Dropped
      [] t.tree = "mtp" /\ t.layer >= 0 ->
           IF t.path = <<"final_layernorm", "weight">> THEN Name(n, -1, <<"shared_head", "norm", "weight">>)
           ELSE Name(n + t.layer, t.expert, BlockNorm(t.path))
      [] t.tree # "mtp" /\ t.layer = -1 -> Name(-1, -1, Rename(t.path, [embeddings |-> "embed_tokens", norm_f |-> "norm"]))
      [] OTHER -> Name(t.layer, t.expert, BlockNorm(t.path))

maple_container_name(t) == Name(t.layer, t.expert, Rename(t.path, [word_embeddings |-> "embed_tokens"]))

------------------------------------------------------------------------------
(* Classes.                                                                *)

Norms == {"norm", "input_layernorm", "post_attention_layernorm", "q_a_layernorm", "kv_a_layernorm", "q_norm", "k_norm",
          "o_norm", "index_q_norm", "index_k_norm", "self_attention_res_norm", "mlp_res_norm", "output_attn_res_norm",
          "routed_expert_norm", "main_norm", "enorm", "hnorm"}

ScaleSuffixes == {"weight_scale_inv", "weight_scale", "weight_scale_2", "input_scale", "scale"}

Says2(name, a, b) == Len(name.path) > 1 /\ name.path[Len(name.path) - 1] \in a /\ Last(name.path) = b

IsNorm(name) == Says2(name, Norms, "weight")

IsWeight(name) == Last(name.path) = "weight"

classify_nemotron(name) ==
    IF \/ Says2(name, {"gate"}, "weight") \/ Last(name.path) = "e_score_correction_bias"
       \/ Contains(name.path, "conv1d") \/ IsNorm(name)
    THEN "F32"
    ELSE IF name.expert >= 0 /\ IsWeight(name) THEN "X"
    ELSE IF IsWeight(name) THEN "Q" ELSE "F32"

\* The head's own tensors: dropped everywhere else.
HeadParts == {"indexers_proj", "eh_proj", "enorm", "hnorm", "shared_head"}

HeadKind(name, is_mtp) ==
    IF ~is_mtp THEN "Skip"
    ELSE IF Contains(name.path, "eh_proj") THEN "Q"
    ELSE IF Contains(name.path, "enorm") \/ Contains(name.path, "hnorm") \/ Says2(name, {"norm"}, "weight")
    THEN "F32" ELSE "Skip"

\* What stays F32 for its role rather than for its shape: the router with its bias and
\* table, the one-row heads, the short convolutions, every norm.
KeptF32(name) ==
    \/ Last(name.path) = "e_score_correction_bias"
    \/ Says2(name, {"gate"}, "weight") \/ Says2(name, {"gate"}, "tid2eid")
    \/ Says2(name, {"proj"}, "weight") /\ Contains(name.path, "confidence_head")
    \/ IsNorm(name)

KimiF32(name) ==
    Says2(name, {"q_conv1d", "k_conv1d", "v_conv1d", "self_attention_res_proj", "mlp_res_proj", "output_attn_res_proj"}, "weight")

classify_head(name, n_layers, keep_idx, mtp_only, mtp_layers) ==
    LET is_mtp == name.layer >= n_layers /\ name.layer < n_layers + mtp_layers
    IN IF Last(name.path) \in ScaleSuffixes \/ name.layer >= n_layers + mtp_layers \/ (mtp_only /\ ~is_mtp) THEN "Skip"
       ELSE IF Contains(name.path, "mixer") THEN classify_nemotron(name)
       ELSE IF Contains(name.path, "indexer")
            THEN IF ~keep_idx THEN "Skip" ELSE IF Contains(name.path, "k_norm") THEN "F32" ELSE "Q"
       ELSE IF ToSet(name.path) \cap HeadParts # {} THEN HeadKind(name, is_mtp)
       ELSE IF KeptF32(name) THEN "F32"
       ELSE IF name.layer = -1 /\ name.path \in {<<"embed_tokens", "weight">>, <<"lm_head", "weight">>} THEN "Io"
       ELSE IF KimiF32(name) THEN "F32"
       ELSE IF name.expert >= 0 /\ name.path[1] = "mlp" /\ Last(name.path) \in {"weight", "weight_packed"} THEN "X"
       ELSE IF IsWeight(name) THEN "Q" ELSE "F32"

classify(name, n_layers) == classify_head(name, n_layers, TRUE, FALSE, 1)

------------------------------------------------------------------------------
(* One source tensor.  What its bytes are: "bf16", "f32", "i64", "fp8" and *)
(* "nvfp4" (with the scales beside them), "mxfp4" (packed, likewise).      *)

\* dequant knows no MXFP4: its bytes are read as one number each, half as many as the weight has.
dequant(t) == IF t.enc = "mxfp4" THEN [Bytes("F32", Garbage) EXCEPT !.full = FALSE] ELSE Bytes("F32", Trained)

Plain(name, bytes) == [kind |-> "plain", out |-> name, bytes |-> bytes]

Quant(name, enc, side, w) == [kind |-> "quant", out |-> name, bytes |-> [w EXCEPT !.enc = enc], side |-> side]

\* The name below the rename of the architecture.
ContainerName(t, opts) ==
    CASE opts.arch \in {"MinimaxM3", "MinimaxM2"} -> m3_container_name(t)
      [] opts.arch = "DeepseekV4" -> deepseek_v4_container_name(t, opts.n_layers)
      [] opts.arch = "KimiK3"     -> kimi_container_name(t)
      [] opts.arch = "Maple"      -> maple_container_name(t)
      [] opts.arch = "NemotronH"  -> nemotron_container_name(t, opts.n_layers)
      [] OTHER                    -> Name(t.layer, t.expert, t.path)

\* The container name of a source tensor, or Dropped: by name, or for its layer.
OutName(t, opts) ==
    LET Past(name) == CASE opts.arch \in {"DeepseekV4", "NemotronH"} -> name.layer >= opts.n_layers + opts.mtp_layers
                        [] opts.arch = "GlmMoeDsa" -> FALSE
                        [] OTHER -> name.layer >= opts.n_layers
        Kept(name) == IF name = Dropped \/ Past(name) THEN Dropped ELSE name
    IN Kept(ContainerName(t, opts))

\* What a 2-D weight of class X, Q or Io becomes.
Requantised(t, name, kind, opts) ==
    LET w == dequant(t)
        rounded == [w EXCEPT !.val = Rounded(w.val)]
    IN IF opts.arch = "Maple" /\ kind \in {"X", "Q"}
       THEN IF t.ternary THEN Quant(name, "int2", "qs", w) ELSE Failed
       ELSE IF kind = "X" THEN IF opts.xfp8 THEN Quant(name, "e4m3", "qs", rounded) ELSE Quant(name, "nvfp4", "g", rounded)
       ELSE IF kind = "Io" /\ opts.io16 THEN Plain(name, [w EXCEPT !.enc = IF t.enc = "bf16" THEN "BF16" ELSE "F32"])
       ELSE Quant(name, "int8", "qs", rounded)

process_one(t, opts) ==
    LET w == dequant(t)
        Kind(name) == IF name = Dropped THEN "Skip"
                      ELSE classify_head(name, opts.n_layers, opts.keep_indexer, opts.mtp_only, opts.mtp_layers)
        Written(name, kind) ==
            CASE kind = "Skip" -> Skipped
              [] kind = "F32"  -> Plain(name, IF opts.gemma_norm /\ IsNorm(name) THEN [w EXCEPT !.val.plus = @ + 1] ELSE w)
              [] kind = "X" /\ ~opts.xfp8 /\ t.enc = "mxfp4" -> Quant(name, "mxfp4", "mx", Bytes("mxfp4", Trained))
              [] OTHER -> IF t.dims # 2 THEN Plain(name, w) ELSE Requantised(t, name, kind, opts)
        Under(name) == Written(name, Kind(name))
    IN Under(OutName(t, opts))

\* A shard as it lies on disk: the codes in the order of the source, then the floats, the
\* scales of quantised tensors among them.  A tensor copied raw is one or the other.
Layout(outs) ==
    LET kept == SelectSeq(outs, LAMBDA o : o.kind # "skip")
        codes == SelectSeq(kept, LAMBDA o : o.kind = "quant" \/ IsCodes(o.bytes.enc))
        floats == SelectSeq(kept, LAMBDA o : o.kind = "quant" \/ ~IsCodes(o.bytes.enc))
    IN [k \in DOMAIN codes |-> [name |-> codes[k].out, bytes |-> codes[k].bytes]]
       \o [k \in DOMAIN floats |->
             IF floats[k].kind = "quant"
             THEN [name |-> Side(floats[k].out, floats[k].side), bytes |-> [floats[k].bytes EXCEPT !.enc = "F32", !.full = TRUE]]
             ELSE [name |-> floats[k].out, bytes |-> floats[k].bytes]]

\* The options of a pass, as cmd_convert takes them from the config and the environment.
ConvertOpts(c, env, stages) ==
    [arch |-> c.arch, n_layers |-> c.n_layers, gemma_norm |-> c.gemma_norm,
     keep_indexer |-> env.keep_indexer, xfp8 |-> env.xfp8, io16 |-> env.io16, mtp_only |-> env.mtp_only,
     mtp_layers |-> IF c.arch = "DeepseekV4" /\ stages > 0 THEN stages ELSE mtp_head_layers(c)]

------------------------------------------------------------------------------
(* One tensor of a container being requantised.  sh maps the names of the  *)
(* container to their bytes, with whether they can be read.                *)

\* resident_nvfp4_dims: codes of one byte per weight beside one scale per row.
resident_nvfp4_dims(name, sh) ==
    /\ name \in DOMAIN sh
    /\ Side(name, "g") \notin DOMAIN sh
    /\ Side(name, "qs") \in DOMAIN sh
    /\ sh[name].bytes.enc \in {"int8", "e4m3", "int2"}

\* The decoder takes the codes for int8; int2 codes are a quarter as many as the weight has.
requant_resident_one(name, sh) ==
    IF ~sh[name].ok \/ ~sh[Side(name, "qs")].ok THEN Failed
    ELSE IF sh[name].bytes.enc = "int8" THEN Quant(name, "nvfp4", "g", [sh[name].bytes EXCEPT !.val = Rounded(@)])
    ELSE Quant(name, "nvfp4", "g", [enc |-> "nvfp4", full |-> FALSE, val |-> Garbage])

copy_raw(name, sh) ==
    IF ~sh[name].ok THEN Failed ELSE [kind |-> "raw", out |-> name, bytes |-> sh[name].bytes]

\* An expert must be e4m3 at the model's width; the experts of a latent MoE are narrower.
requant_expert(name, sh, c) ==
    LET qs == Side(name, "qs")
        wide == sh[name].bytes.enc \in {"int8", "e4m3"} /\ sh[name].bytes.full /\ ~routed_experts_are_latent(c.arch)
    IN IF Side(name, "g") \in DOMAIN sh THEN copy_raw(name, sh)
       ELSE IF ~wide \/ qs \notin DOMAIN sh THEN Failed
       ELSE IF ~sh[name].ok \/ ~sh[qs].ok THEN Failed
       ELSE Quant(name, "nvfp4", "g", [sh[name].bytes EXCEPT
                    !.val = IF sh[name].bytes.enc = "e4m3" THEN Rounded(@) ELSE Garbage])

\* Mutant: the resident scales go whether or not their weight is requantised.
requant_one_drops_scales(name, sh, c, resident) ==
    LET base == Side(name, "")
        kind == classify(base, c.n_layers)
    IN CASE name.side = "qs" ->
              IF kind = "X" \/ (resident /\ kind \in {"Q", "Io"}) THEN Skipped ELSE copy_raw(name, sh)
         [] name.side = "" /\ IsWeight(name) /\ kind = "X" -> requant_expert(name, sh, c)
         [] name.side = "" /\ IsWeight(name) /\ kind = "Q" /\ resident /\ resident_nvfp4_dims(name, sh) ->
              requant_resident_one(name, sh)
         [] OTHER -> copy_raw(name, sh)

requant_one(name, sh, c, resident) ==
    LET base == Side(name, "")
        kind == classify(base, c.n_layers)
    IN CASE name.side = "qs" ->
              IF kind = "X" \/ (resident /\ kind = "Q" /\ resident_nvfp4_dims(base, sh)) THEN Skipped
              ELSE copy_raw(name, sh)
         [] name.side = "" /\ IsWeight(name) /\ kind = "X" -> requant_expert(name, sh, c)
         [] name.side = "" /\ IsWeight(name) /\ kind = "Q" /\ resident /\ resident_nvfp4_dims(name, sh) ->
              requant_resident_one(name, sh)
         [] OTHER -> copy_raw(name, sh)
==============================================================================
