----------------------------- MODULE MoeDispatch -----------------------------
(***************************************************************************)
(* One MoE layer over a batch of tokens: moe.rs `moe`, `moe_sharded`,      *)
(* `nemotron_moe`, `kimi_moe` and `dsv4_moe`, the expert loop they share   *)
(* (`compute_experts_partial_into`), and the grouped and single-expert GPU *)
(* calls it tries first (gpu.rs `try_expert_group_*`, `try_expert_ffn_*`). *)
(*                                                                         *)
(* The numbers of a layer are left out.  What is kept of a sum is what was *)
(* added, in which order: out[t] is a sequence of partial sums, each a     *)
(* sequence of terms [e, w, act]: expert e's output for token t, weighted  *)
(* w, computed with activation act.                                        *)
(***************************************************************************)
EXTENDS Routing

CONSTANTS Jobs,            \* the layer calls: the records described at Init
          TopK,            \* cfg.topk
          Int2DecodeMax,   \* experts of one int2 decode call (16)
          Int2GrpMax,      \* experts of one int2 rows call (32)
          Int2RowsMax,     \* int2_group_rows_max (32)
          GroupMax,        \* experts of one fp8 or relu2 call (64)
          GroupChunk,      \* COLI_GROUP_CHUNK (32)
          Nvfp4RowsMax     \* nvfp4_group_rows_max (8)

\* A call has a row of scores for each token, a bias for each expert, for a hash layer a
\* table row for each token, and a map of the experts to the nodes.  A softmax has a
\* positive sum, V4's scoring is not one, and Unit is fine enough for the softmax's division.
\* Only Nemotron's parser sets relu2.
ASSUME DispatchAssumption ==
    /\ TopK \in Nat \ {0}
    /\ \A j \in Jobs :
         /\ j.score \in Seq([Experts -> Nat]) \ {<<>>} /\ j.bias \in [Experts -> Int]
         /\ j.table \in Seq(Seq(Nat)) /\ (j.table # <<>> => Len(j.table) = Len(j.score))
         /\ j.nodes \in Nat \ {0} /\ j.me \in 0 .. j.nodes - 1
         /\ j.owner \in [Experts -> 0 .. j.nodes - 1]
         /\ j.arch = "dsv4" => j.kind # "softmax"
         /\ j.kind = "softmax" => \A t \in DOMAIN j.score :
              SumFunction(j.score[t]) # 0 /\ Unit % SumFunction(j.score[t]) = 0
         /\ j.act \in {"silu", "oai", "clamp", "relu2", "situ"}
         /\ j.act = "relu2" => j.arch = "nemotron"

VARIABLES job,        \* the call's inputs and the process's settings
          pc,         \* where the call is
          routed,     \* union_and_weights' result
          waiting,    \* peers whose answer has not come
          answers,    \* peer -> its partial sum
          failed,     \* an error was recorded while nodes were in flight
          active,     \* [e, rows, w] per local expert some token is sent to, in order
          arms,       \* the grouped calls still to try
          staged,     \* experts of `active` the grouped call has computed
          partial,    \* this node's partial sum, per token
          out,        \* the layer's output, per token
          after       \* what was done to the routed sum and added to it afterwards

vars == <<job, pc, routed, waiting, answers, failed, active, arms, staged, partial, out, after>>

Tokens == DOMAIN job.score

Nothing == Strict([t \in Tokens |-> <<>>])

-----------------------------------------------------------------------------
(* Formats and activations.                                                *)

\* A gateless expert's gate is the empty tensor, whose format code is 0.
GateFmt(e) == IF job.arch = "nemotron" THEN 0 ELSE job.fmt[e]

\* mark_gpu_eligible under gpu_experts_enabled: never f32 or int8.
Eligible(e) == "eligible" \in job.gpu /\ job.fmt[e] \notin {0, 1}

GpuOn == "gpu" \in job.gpu

ZeroCopy == GpuOn /\ "zerocopy" \in job.gpu

\* set_activation mirrors the SwiGLU variants into the device, neither relu2 nor situ.
GpuActivation == IF job.act \in {"silu", "oai", "clamp"} THEN job.act ELSE "silu"

AllFmt(f) == active # <<>> /\ \A i \in DOMAIN active : job.fmt[active[i].e] = f

RowsOf(a) == SumFunction([i \in DOMAIN a |-> Len(a[i].rows)])

-----------------------------------------------------------------------------
(* The grouped calls.                                                      *)

\* The if-chain of compute_experts_partial_into, in order; relu2 tries its segmented form first.
GroupArms ==
    (IF AllFmt(3) THEN <<"int2_decode", "int2_rows">> ELSE <<>>) \o
    (IF job.act = "relu2" THEN <<"relu2_seg", "relu2">>
     ELSE IF "dsv4_group" \in job.gpu /\ AllFmt(6) THEN <<"mxfp4">>
     ELSE IF "nvfp4_group" \in job.gpu /\ AllFmt(5) /\ RowsOf(active) \div Len(active) <= Nvfp4RowsMax
          THEN <<"nvfp4">>
     ELSE IF "group" \in job.gpu THEN <<"fp8">>
     ELSE <<>>)

\* Every expert is a three-tensor one of the format and may run on the device.
Three(f) == \A i \in DOMAIN active :
    job.fmt[active[i].e] = f /\ GateFmt(active[i].e) = f /\ Eligible(active[i].e)

try_expert_group_int2_decode ==
    /\ GpuOn /\ "int2" \in job.gpu
    /\ Len(active) \in 1 .. Int2DecodeMax
    /\ \A i \in DOMAIN active : active[i].rows = <<Head(active[1].rows)>>
    /\ Three(3)

try_expert_group_int2_rows ==
    /\ GpuOn /\ "int2" \in job.gpu
    /\ active # <<>> /\ Three(3)
    /\ RowsOf(active) \div Len(active) <= Int2RowsMax

\* job.fits: how many experts' staging a quarter of the ledger's headroom holds.
try_expert_group_packed(f) ==
    ZeroCopy /\ (active = <<>> \/ (Three(f) /\ job.fits > 0))

OneRowEach == \A i \in DOMAIN active : Len(active[i].rows) = 1

try_expert_group_relu2 ==
    /\ ZeroCopy
    /\ \/ active = <<>>
       \/ /\ "prefill" \in job.gpu \/ "seg" \in job.gpu \/ OneRowEach
          /\ \A i \in DOMAIN active : job.fmt[active[i].e] = 5 /\ Eligible(active[i].e)

\* One grid for the whole layer, when experts carry several rows or decode is to use it, too.
relu2_segmented ==
    /\ try_expert_group_relu2 /\ active # <<>>
    /\ ("seg" \in job.gpu /\ ~OneRowEach) \/ ("seg_decode" \in job.gpu /\ Len(active) > 1)

try_expert_group == ZeroCopy /\ (active = <<>> \/ Three(4))

Takes(arm) ==
    CASE arm = "int2_decode" -> try_expert_group_int2_decode
      [] arm = "int2_rows" -> try_expert_group_int2_rows
      [] arm = "relu2_seg" -> relu2_segmented
      [] arm = "relu2" -> try_expert_group_relu2
      [] arm = "mxfp4" -> try_expert_group_packed(6)
      [] arm = "nvfp4" -> try_expert_group_packed(5)
      [] arm = "fp8" -> try_expert_group

\* Experts per kernel call.
ChunkOf(arm) ==
    CASE arm \in {"int2_decode", "relu2_seg"} -> Len(active)
      [] arm = "int2_rows" -> Int2GrpMax
      [] arm \in {"mxfp4", "nvfp4"} -> Smaller(GroupChunk, job.fits)
      [] arm \in {"relu2", "fp8"} -> GroupMax

KernelAct(arm) == IF arm \in {"relu2", "relu2_seg"} THEN "relu2" ELSE GpuActivation

\* The switch of each format's grouped SwiGLU call.
GroupSwitches == {<<3, "int2">>, <<4, "group">>, <<5, "nvfp4_group">>, <<6, "dsv4_group">>}

\* What a node's share of the layer may be computed with: the model's activation or, where
\* a grouped SwiGLU call is offered a situ model's experts, the device's.
Activations ==
    {job.act} \cup
    (IF job.act = "situ" /\ GpuOn
          /\ \E e \in Experts, s \in GroupSwitches : job.fmt[e] = s[1] /\ s[2] \in job.gpu
     THEN {GpuActivation} ELSE {})

-----------------------------------------------------------------------------
(* The single-expert call and the sums.                                    *)

\* The activations ffn's call may have computed: a device kernel if one takes it, or the CPU.
ffn(e) ==
    {job.act} \cup
    (CASE job.act = "relu2" -> IF ZeroCopy /\ job.fmt[e] = 5 /\ Eligible(e) THEN {"relu2"} ELSE {}
       [] job.act = "situ"  -> IF ZeroCopy /\ job.fmt[e] = 6 THEN {"situ"} ELSE {}
       [] OTHER -> IF (ZeroCopy /\ job.fmt[e] = 6) \/ (GpuOn /\ Eligible(e) /\ GateFmt(e) \notin {0, 1})
                   THEN {GpuActivation} ELSE {})

\* The scatter: every row's weighted result of the entries `as` is added to its token.
Scatter(sum, as, act) ==
    LET term(a, t) == [e |-> a.e, w |-> a.w[CHOOSE r \in DOMAIN a.rows : a.rows[r] = t], act |-> act]
    IN Strict([t \in Tokens |->
         LET its == Ascending(Len(as), {i \in DOMAIN as : t \in ToSet(as[i].rows)})
         IN sum[t] \o [j \in DOMAIN its |-> term(as[its[j]], t)]])

\* The tokens with a non-zero weight for each expert of `es`, and the weights.
PerExpert(es, ws) ==
    LET entry(i) == LET rows == Ascending(Len(ws), {t \in DOMAIN ws : ws[t][i] # 0})
                    IN [e |-> es[i], rows |-> rows, w |-> Strict([r \in DOMAIN rows |-> ws[rows[r]][i]])]
        some == Ascending(Len(es), {i \in DOMAIN es : \E t \in DOMAIN ws : ws[t][i] # 0})
    IN Strict([j \in DOMAIN some |-> entry(some[j])])

\* The columns of `uniq` that node n owns.
ColsOf(u, n) == Ascending(Len(u), {i \in DOMAIN u : job.owner[u[i]] = n})

Pick(s, cols) == Strict([j \in DOMAIN cols |-> s[cols[j]]])

\* What a node that computes all its experts returns for the request of columns `cols`.
PartialOf(r, cols, act) ==
    Scatter(Nothing, PerExpert(Pick(r.uniq, cols), subcols(r.w_mat, cols)), act)

OwnersOf(u) == {job.owner[u[i]] : i \in DOMAIN u}

-----------------------------------------------------------------------------
(* The layer's steps.                                                      *)

RowOf(t) ==
    LET k == Smaller(TopK, NumExperts)
    IN IF job.arch # "dsv4" THEN route(job.kind, job.norm, job.score[t], job.bias, TopK)
       ELSE IF job.table # <<>> THEN Strided(route_hash(job.score[t], job.table[t]), k)
       ELSE Strided(route_topk(job.score[t], job.bias, k), k)

\* dsv4_moe never asks the cluster: all its experts are this node's to load.
Sharded == job.arch # "dsv4" /\ job.nodes > 1

LocalCols(r) == IF Sharded THEN ColsOf(r.uniq, job.me) ELSE [i \in DOMAIN r.uniq |-> i]

\* A job: arch, kind and norm of the router, score per token, bias per expert, hash table
\* rows (<<>> when the layer has none), activation, format per expert, settings, staging
\* room, whether there is a shared expert, and the cluster: nodes, this node, owners.
Init ==
    /\ job \in Jobs
    /\ pc = "route"
    /\ routed = [uniq |-> <<>>, w_mat |-> <<>>]
    /\ waiting = {} /\ answers = <<>> /\ failed = FALSE
    /\ active = <<>> /\ arms = <<>> /\ staged = 0
    /\ partial = Nothing /\ out = Nothing /\ after = <<>>

\* Route every token, clear the output, and, on a cluster, send every peer its shard.
Route ==
    /\ pc = "route"
    /\ routed' = union_and_weights(Strict([t \in Tokens |-> RowOf(t)]))
    /\ waiting' = IF Sharded THEN OwnersOf(routed'.uniq) \ {job.me} ELSE {}
    /\ pc' = IF LocalCols(routed') = <<>> THEN "join" ELSE "prefetch"
    /\ UNCHANGED <<job, answers, failed, active, arms, staged, partial, out, after>>

\* The provider refuses an expert of another node.
MayLoad(e) == job.nodes = 1 \/ job.owner[e] = job.me

\* An error of the local shard: alone it ends the call, on a cluster the peers are joined first.
LocalError ==
    /\ failed' = TRUE
    /\ pc' = IF Sharded THEN "join" ELSE "err"
    /\ UNCHANGED <<job, routed, waiting, answers, active, arms, staged, partial, out, after>>

\* Read the layer's experts, list the rows of each, and fix the grouped calls to try.
Prefetch ==
    /\ pc = "prefetch"
    /\ LET cols == LocalCols(routed)
           es == Pick(routed.uniq, cols)
       IN \/ LocalError
          \/ /\ \A i \in DOMAIN es : MayLoad(es[i])
             /\ UNCHANGED <<job, routed, waiting, answers, failed, staged, partial, out, after>>
             /\ active' = PerExpert(es, subcols(routed.w_mat, cols))
             /\ arms' = GroupArms'
             /\ pc' = "group"

\* A grouped call that does not take this batch returns before it computes anything.
Decline ==
    /\ pc = "group" /\ arms # <<>> /\ ~Takes(Head(arms))
    /\ arms' = Tail(arms)
    /\ UNCHANGED <<job, pc, routed, waiting, answers, failed, active, staged, partial, out, after>>

\* Mutant of GroupKernel: each chunk is scattered as soon as it is computed.
GroupKernel_ScattersEach ==
    /\ pc = "group" /\ arms # <<>> /\ Takes(Head(arms)) /\ staged < Len(active)
    /\ staged' = Smaller(staged + ChunkOf(Head(arms)), Len(active))
    /\ partial' = IF staged' = Len(active) THEN partial
                  ELSE Scatter(partial, SubSeq(active, staged + 1, staged'), KernelAct(Head(arms)))
    /\ UNCHANGED <<job, pc, routed, waiting, answers, failed, active, arms, out, after>>

\* One kernel call of a grouped call; its results stay in the scratch buffer until the last.
GroupKernel ==
    /\ pc = "group" /\ arms # <<>> /\ Takes(Head(arms)) /\ staged < Len(active)
    /\ staged' = Smaller(staged + ChunkOf(Head(arms)), Len(active))
    /\ UNCHANGED <<job, pc, routed, waiting, answers, failed, active, arms, partial, out, after>>

\* Mutant of GroupKernelFails: the same call is tried again.
GroupKernelFails_Retries ==
    /\ pc = "group" /\ arms # <<>> /\ Takes(Head(arms)) /\ staged < Len(active)
    /\ staged' = 0
    /\ UNCHANGED <<job, pc, routed, waiting, answers, failed, active, arms, partial, out, after>>

\* A kernel or a descriptor fails: the call declines, the next one or the expert loop takes over.
GroupKernelFails ==
    /\ pc = "group" /\ arms # <<>> /\ Takes(Head(arms)) /\ staged < Len(active)
    /\ arms' = Tail(arms) /\ staged' = 0
    /\ UNCHANGED <<job, pc, routed, waiting, answers, failed, active, partial, out, after>>

\* All chunks are computed: the weighted scatter, and the call is done.
GroupScatter ==
    /\ pc = "group" /\ arms # <<>> /\ Takes(Head(arms)) /\ staged = Len(active)
    /\ partial' = Scatter(partial, active, KernelAct(Head(arms)))
    /\ pc' = "join"
    /\ UNCHANGED <<job, routed, waiting, answers, failed, active, arms, staged, out, after>>

\* No grouped call took the batch: gather, ffn and scatter of the next expert.
OneExpert ==
    /\ pc = "group" /\ arms = <<>> /\ active # <<>>
    /\ \/ LocalError
       \/ /\ \E act \in ffn(Head(active).e) : partial' = Scatter(partial, <<Head(active)>>, act)
          /\ active' = Tail(active)
          /\ UNCHANGED <<job, pc, routed, waiting, answers, failed, arms, staged, out, after>>

LoopDone ==
    /\ pc = "group" /\ arms = <<>> /\ active = <<>>
    /\ pc' = "join"
    /\ UNCHANGED <<job, routed, waiting, answers, failed, active, arms, staged, partial, out, after>>

\* A peer's answer, in any order and while the local shard computes, from the same loop
\* under the same settings.
PeerAnswers(n) ==
    /\ n \in waiting
    /\ waiting' = waiting \ {n}
    /\ \E act \in Activations :
         answers' = [m \in DOMAIN answers \cup {n} |->
                      IF m = n THEN PartialOf(routed, ColsOf(routed.uniq, n), act) ELSE answers[m]]
    /\ UNCHANGED <<job, pc, routed, failed, active, arms, staged, partial, out, after>>

\* A transport error, a panic of the exchange thread, or an answer of the wrong length.
PeerFails(n) ==
    /\ n \in waiting
    /\ waiting' = waiting \ {n} /\ failed' = TRUE
    /\ UNCHANGED <<job, pc, routed, answers, active, arms, staged, partial, out, after>>

\* Mutant of FoldOrder: the order of pushing.
FoldOrder_AsPushed ==
    (IF LocalCols(routed) = <<>> THEN <<>> ELSE <<job.me>>) \o Ascending(job.nodes - 1, DOMAIN answers)

\* Partials are pushed own first, then by peer, and sorted by node before they are folded.
FoldOrder == Ascending(job.nodes - 1, DOMAIN answers \cup (IF LocalCols(routed) = <<>> THEN {} ELSE {job.me}))

\* Everyone is joined: the error, or the fold of the partial sums into the output.
Join ==
    /\ pc = "join" /\ waiting = {}
    /\ IF failed
       THEN pc' = "err" /\ UNCHANGED out
       ELSE /\ pc' = "finish"
            /\ out' = [t \in Tokens |->
                         IF ~Sharded THEN <<partial[t]>>
                         ELSE [i \in DOMAIN FoldOrder |->
                                 IF FoldOrder[i] = job.me THEN partial[t] ELSE answers[FoldOrder[i]][t]]]
    /\ UNCHANGED <<job, routed, waiting, answers, failed, active, arms, staged, partial, after>>

\* The latent models' way back to the hidden size: kimi_moe normalises the sum first.
nemotron_moe == <<"fc2">>
kimi_moe == <<"norm", "fc2">>

\* Back to the hidden size, then the shared expert on the layer's input.
Finish ==
    /\ pc = "finish"
    /\ after' = (CASE job.arch = "nemotron" -> nemotron_moe
                   [] job.arch = "kimi" -> kimi_moe
                   [] OTHER -> <<>>)
                \o (IF job.shared THEN <<"shared">> ELSE <<>>)
    /\ pc' = "done"
    /\ UNCHANGED <<job, routed, waiting, answers, failed, active, arms, staged, partial, out>>

Next ==
    \/ Route \/ Prefetch \/ Decline \/ GroupKernel \/ GroupKernelFails \/ GroupScatter
    \/ OneExpert \/ LoopDone \/ Join \/ Finish
    \/ \E n \in 0 .. job.nodes - 1 : PeerAnswers(n) \/ PeerFails(n)

\* The call runs on until it returns; an exchange returns because its socket answers or breaks.
\* (Weak fairness of Next, with its ENABLED written out: a step is possible until the end.)
Progress == []<>(pc \in {"done", "err"}) \/ []<><<TRUE>>_vars

Spec == Init /\ [][Next]_vars /\ Progress

-----------------------------------------------------------------------------
(* Properties.                                                             *)

Wanted(t, e) ==
    LET k == Smaller(TopK, NumExperts)
        s == job.score[t]
        biased == [f \in Experts |-> s[f] + (IF job.kind = "softmax" THEN 0 ELSE job.bias[f])]
    IN IF job.arch = "dsv4" /\ job.table # <<>> THEN DeclaredHash(s, job.table[t], e)
       ELSE IF job.norm \/ job.arch = "dsv4" THEN DeclaredTopK(biased, s, k, e)
       ELSE IF ~Chosen(biased, k, e) THEN 0
       ELSE IF job.kind = "softmax" THEN (s[e] * Unit) \div SumFunction(s) ELSE s[e]

\* Hash rows that are neither padded nor cut: each names k different experts, or none.
WholeRow(eids, k) == Cardinality(ToSet(Valid(eids))) \in {0, k}
WholeHashRows ==
    \A j \in Jobs : j.arch = "dsv4" =>
        \A t \in DOMAIN j.table : WholeRow(j.table[t], Smaller(TopK, NumExperts))

\* When a layer returns, every token holds each of its experts once, with the weight the
\* router declares and the model's activation, whichever grouped call declined or failed
\* half-way and whichever node computed it (moe.rs compute_experts_partial_into).  The one
\* exception is a situ model offered to a grouped SwiGLU call, which computes SiLU.
ContributionsExact ==
    pc = "done" => \A t \in Tokens, e \in Experts :
        LET of == UNION {{<<n, i>> : i \in {i \in DOMAIN out[t][n] : out[t][n][i].e = e}} : n \in DOMAIN out[t]}
        IN \/ of = {} /\ Wanted(t, e) = 0
           \/ \E n \in DOMAIN out[t] : \E i \in DOMAIN out[t][n] :
                of = {<<n, i>>} /\ out[t][n][i].w = Wanted(t, e) /\ out[t][n][i].act \in Activations

\* The order in which a token's f32 sum is added up depends on the routing and the placement
\* alone: not on the path that computed it, nor on which peer answered first (moe.rs
\* sharded_experts_partial's sort, "same expert order" of the grouped calls in gpu.rs).
AccumulationFixed ==
    pc = "done" => \A t \in Tokens :
        LET nodes == IF Sharded THEN Ascending(job.nodes - 1, OwnersOf(routed.uniq)) ELSE <<job.me>>
            cols(n) == IF Sharded THEN ColsOf(routed.uniq, n) ELSE [i \in DOMAIN routed.uniq |-> i]
            terms(n) == LET its == Ascending(Len(cols(n)), {j \in DOMAIN cols(n) : routed.w_mat[t][cols(n)[j]] # 0})
                        IN [i \in DOMAIN its |->
                              <<routed.uniq[cols(n)[its[i]]], routed.w_mat[t][cols(n)[its[i]]]>>]
        IN [i \in DOMAIN out[t] |-> [j \in DOMAIN out[t][i] |-> <<out[t][i][j].e, out[t][i][j].w>>]]
             = [i \in DOMAIN nodes |-> terms(nodes[i])]

\* Every call returns: declining calls are not tried again and peers are all joined.
DispatchEnds == <>(pc \in {"done", "err"})
=============================================================================
