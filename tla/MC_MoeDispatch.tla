--------------------------- MODULE MC_MoeDispatch ---------------------------
(* Three experts, the best two per token, up to three nodes.               *)
EXTENDS MoeDispatch

CONSTANT ShortHashRows   \* TRUE: the hash rows that pick fewer than TopK experts, too

Row(a, b, c) == [e \in Experts |-> CASE e = 0 -> a [] e = 1 -> b [] e = 2 -> c]

Plain == [arch |-> "moe", kind |-> "sigmoid", norm |-> TRUE,
          score |-> <<Row(2, 1, 1), Row(0, 2, 1)>>, bias |-> Row(0, 0, 0), table |-> <<>>,
          act |-> "silu", fmt |-> Row(1, 1, 1), gpu |-> {}, fits |-> 3, shared |-> TRUE,
          nodes |-> 1, me |-> 0, owner |-> Row(0, 0, 0)]

\* Every row of scores, both scorers, with and without a bias that overturns the order.
RoutingJobs ==
    {[Plain EXCEPT !.kind = kind, !.norm = norm, !.score = <<row, Row(0, 2, 1)>>, !.bias = bias] :
       kind \in {"sigmoid", "softmax"}, norm \in BOOLEAN,
       row \in [Experts -> 0 .. 2] \ {Row(0, 0, 0)}, bias \in {Row(0, 0, 0), Row(0, 2, 0)}}

Device == {"gpu", "zerocopy", "eligible", "int2", "nvfp4_group"}

Batches == {<<Row(2, 1, 1)>>, <<Row(2, 1, 1), Row(0, 2, 1)>>, <<Row(0, 0, 2), Row(0, 0, 1)>>,
            <<Row(1, 1, 0), Row(0, 1, 1), Row(1, 0, 1)>>}

\* SwiGLU layers of every format, mixed formats included, under every set of switches.
SwigluJobs ==
    {[Plain EXCEPT !.score = batch, !.act = act, !.fmt = fmt, !.gpu = gpu, !.fits = fits] :
       batch \in Batches, act \in {"silu", "oai"},
       fmt \in {Row(1, 1, 1), Row(3, 3, 3), Row(4, 4, 4), Row(5, 5, 5), Row(5, 4, 5), Row(6, 6, 6)},
       gpu \in {{}, Device \ {"zerocopy", "eligible"}, Device, Device \cup {"group"}},
       fits \in {0, 1, 3}}

LatentJobs ==
    {[Plain EXCEPT !.arch = "nemotron", !.act = "relu2", !.score = batch, !.fmt = fmt,
                   !.gpu = Device \cup extra] :
       batch \in Batches, fmt \in {Row(5, 5, 5), Row(3, 3, 3)},
       extra \in {{}, {"seg"}, {"seg_decode"}, {"prefill"}}}
    \cup {[Plain EXCEPT !.arch = "kimi", !.act = "situ", !.score = batch, !.fmt = fmt,
                        !.gpu = Device \cup extra] :
            batch \in Batches, extra \in {{}, {"group", "dsv4_group"}},
            fmt \in {Row(6, 6, 6), Row(3, 3, 3), Row(4, 4, 4), Row(5, 5, 5), Row(5, 6, 6)}}

HashRows == {<<0, 1>>, <<2, 0>>, <<>>} \cup (IF ShortHashRows THEN {<<1, 1>>} ELSE {})

Dsv4Jobs ==
    {[Plain EXCEPT !.arch = "dsv4", !.act = "clamp", !.fmt = Row(6, 6, 6), !.bias = Row(0, 0, 1),
                   !.gpu = gpu, !.table = table, !.fits = fits] :
       gpu \in {Device, Device \cup {"dsv4_group"}}, fits \in {1, 2},
       table \in {<<>>} \cup {<<a, b>> : a, b \in HashRows}}

ClusterJobs ==
    {[base EXCEPT !.nodes = 3, !.me = me, !.owner = owner] :
       base \in {[Plain EXCEPT !.gpu = Device, !.fmt = Row(5, 5, 5)],
                [Plain EXCEPT !.arch = "nemotron", !.act = "relu2", !.fmt = Row(5, 5, 5), !.gpu = Device],
                [Plain EXCEPT !.arch = "kimi", !.act = "situ", !.fmt = Row(6, 6, 6), !.gpu = Device],
                [Plain EXCEPT !.arch = "kimi", !.act = "situ", !.fmt = Row(5, 5, 5), !.gpu = Device],
                [Plain EXCEPT !.arch = "dsv4", !.act = "clamp", !.fmt = Row(6, 6, 6), !.gpu = Device]},
       me \in {0, 1}, owner \in {Row(0, 1, 2), Row(1, 0, 1), Row(2, 2, 2), Row(1, 1, 1)}}

MCJobs == IF ShortHashRows THEN Dsv4Jobs
          ELSE RoutingJobs \cup SwigluJobs \cup LatentJobs \cup Dsv4Jobs \cup ClusterJobs

\* The hypothesis of the proof of ContributionsExact.
ASSUME ShortHashRows \/ WholeHashRows
=============================================================================
