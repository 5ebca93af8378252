----------------------------- MODULE MC_Decode -----------------------------
(* Small architectures of every kind the forward pass dispatches on.       *)
EXTENDS Decode, FiniteSetsExt

L(mix) == [mix |-> mix, win |-> 0, ratio |-> 0, full |-> FALSE, bsize |-> 0]
Plain == [stack |-> "plain", head |-> <<>>, gpu |-> FALSE, dsa |-> FALSE,
          bs |-> 0, window |-> 0, chunk |-> 100]

\* MLA with the sparse indexer on the first layer, device shadow, MTP head.
Glm == [layers |-> <<[L("mla") EXCEPT !.full = TRUE], L("mla")>>]
         @@ [Plain EXCEPT !.head = <<L("mla")>>, !.gpu = TRUE, !.dsa = TRUE]
\* A recurrent mixer before attention, and a head of two sublayers.
Nemotron == [layers |-> <<L("mamba"), L("gqa"), L("moe")>>]
              @@ [Plain EXCEPT !.stack = "nemotron", !.head = <<L("gqa"), L("moe")>>]
Kimi == [layers |-> <<L("kda"), L("mla"), L("kda")>>]
          @@ [Plain EXCEPT !.stack = "kimi", !.gpu = TRUE, !.bs = 2]
\* A sliding layer under a full one; a layer that selects blocks of keys.
Maple == [layers |-> <<[L("gqa") EXCEPT !.win = 2], L("gqa")>>] @@ Plain
MiniMax == [layers |-> <<[L("gqa") EXCEPT !.bsize = 2], [L("gqa") EXCEPT !.bsize = 2]>>] @@ Plain
\* Raw window in a ring, blocks of 2 and of 4 with the indexer; a ring budget below the
\* window, one that cuts prompts, and one that does not.
V4(chunk) == [layers |-> <<L("dsv4"), [L("dsv4") EXCEPT !.ratio = 2], [L("dsv4") EXCEPT !.ratio = 4]>>]
               @@ [Plain EXCEPT !.stack = "dsv4", !.window = 2, !.chunk = chunk]

MCArchs == {Glm, Nemotron, Kimi, Maple, MiniMax, V4(1), V4(3), V4(100)}
MCPrompts == {<<1>>, <<2, 1, 1, 2>>, <<1, 2, 2, 1, 2, 1, 1>>, <<2, 2, 1, 1, 1, 2, 1, 2, 2, 1>>}
MCVocab == {0, 1, 2}
MCLM(info) == LET h == MapThenSumSet(LAMBDA pr : (pr[1] + 1) * pr[2] + pr[1], info)
              IN  IF h % 11 = 0 THEN 0 ELSE 1 + (h % 2)
MCScore(q, t) == (3 * t + q) % 4
=============================================================================
