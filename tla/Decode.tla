------------------------------- MODULE Decode -------------------------------
(***************************************************************************)
(* forward.rs `generate_stream_drafting' and mtp.rs: prefill, then a loop  *)
(* that emits a token, lets the MTP head draft a few more, verifies them   *)
(* in one pass, emits the accepted ones, rolls the recurrent state back    *)
(* over the rejected ones and feeds the accepted ones to the head.         *)
(*                                                                         *)
(* The model's weights are the operator LM; the head's are free, so a      *)
(* draft is any token.  A pass may fail (an expert that cannot be read, a  *)
(* worker that does not answer), which ends the call with an error.        *)
(***************************************************************************)
EXTENDS ForwardPass, KvBytes

CONSTANTS Archs,        \* the architectures, as records of ForwardPass
          Prompts,      \* the prompts a caller passes
          NewTokens,    \* n_new
          Vocab,        \* token ids
          StopIds,      \* cfg.stop_ids
          Budgets,      \* draft budget: COLI_MTP, or what the caller asks
          AutoOffAfter, \* proposals before a poor head is switched off
          LM(_)         \* argmax of the logits of a hidden row

ASSUME DecodeAssumption == Archs # {} /\ Prompts # {} /\ AutoOffAfter \in Nat

VARIABLES
    arch, prompt, n_new,
    kv,         \* the cache
    out,        \* tokens handed to on_token
    pos, hlast, logit, budget, proposed, accepted,
    pc,         \* the next step of the loop
    drafts, h_all, k, snap, done

vars == <<arch, prompt, n_new, kv, out, pos, hlast, logit, budget, proposed, accepted,
          pc, drafts, h_all, k, snap, done>>
call == <<arch, prompt, n_new>>

Ended == {"finished", "failed"}
HasMamba == \E l \in DOMAIN arch.layers : arch.layers[l].mix = "mamba"
Hidden(h) == h[Len(h)]
Emitted == Len(out)

\* Room for the prompt and every new token, which is what the callers give.
Init ==
    /\ arch \in Archs /\ prompt \in Prompts /\ n_new \in NewTokens
    /\ kv = for_model(Len(arch.layers), Len(arch.head), Len(prompt) + n_new, HasMamba)
    /\ budget \in IF arch.head = <<>> THEN {0} ELSE Budgets
    /\ out = <<>> /\ pos = 0 /\ hlast = Zero /\ logit = Zero
    /\ proposed = 0 /\ accepted = 0
    /\ pc = "prefill"
    /\ drafts = <<>> /\ h_all = <<>> /\ k = 0 /\ done = FALSE
    /\ snap = <<>>

\* Whether the device takes a decode step's core, or declines and the host computes it.
OnDevice == IF arch.gpu THEN BOOLEAN ELSE {FALSE}

Prefill ==
    /\ pc = "prefill"
    /\ \E r \in {forward(arch, kv, prompt, 0, FALSE)} :
       /\ kv' = r.kv
       /\ hlast' = Hidden(r.x) /\ logit' = Hidden(r.x)
       /\ h_all' = r.x
    /\ pos' = Len(prompt)
    /\ pc' = IF n_new > 0 THEN "emit" ELSE "finished"
    /\ UNCHANGED <<call, out, budget, proposed, accepted, drafts, k, snap, done>>

Emit(keep_going) ==
    /\ pc = "emit"
    /\ LET next == LM(logit) IN
       /\ out' = Append(out, next)
       /\ pc' = IF next \in StopIds \/ ~keep_going \/ Emitted + 1 >= n_new
                THEN "finished" ELSE "draft"
    /\ UNCHANGED <<call, kv, pos, hlast, logit, budget, proposed, accepted, drafts, h_all, k, snap, done>>

(***************************************************************************)
(* mtp.rs.  The head runs a stack of its own over rows of its own: the row *)
(* at position q pairs the hidden row of q with the token after it.        *)
(***************************************************************************)
fuse(tok, h, q) == h \cup {<<q + 1, tok>>}

head_forward(c, hx, p) ==
    LET n == Len(arch.layers)
    IN  FoldLeft(LAMBDA acc, j :
                    Unless(acc, layer_forward_kind(arch.stack, start_at(acc.kv, n + j, p), arch.head[j],
                                                   n + j, acc.x, p, None, FALSE)),
                 [kv |-> c, x |-> hx], Indices(arch.head))

absorb(c, next_ids, h, p) ==
    IF arch.head = <<>> \/ next_ids = <<>> THEN c
    ELSE head_forward(c, [i \in 1 .. Len(next_ids) |-> fuse(next_ids[i], h[i], p + i - 1)], p).kv

\* How many drafts fit: a draft needs room for itself and its verification.
DraftRoom(kv_idx, g_max) == Least(g_max, SatSub(kv.max_t - 1, kv_idx))

draft(next, dr, kv_idx) ==
    LET p == kv_idx - 1
        Row(r) == [kv |-> r.kv, h |-> r.x[1]]
    IN  FoldLeft(LAMBDA acc, g :
                    Unless(acc, Row(head_forward(acc.kv,
                        <<fuse(IF g = 1 THEN next ELSE dr[g - 1], acc.h, p + g - 1)>>, p + g - 1))),
                 [kv |-> start_at(kv, Len(arch.layers) + 1, p), h |-> hlast], Indices(dr)).kv

\* The verification takes what still may be emitted and fits the cache.
Verifiable(n, dr) ==
    LET g == Least(Len(dr), n_new - n) IN
    IF pos + g + 2 > kv.max_t THEN Least(SatSub(kv.max_t, pos + 2), g) ELSE g

\* A head that is hardly ever right is switched off for the rest of the call.
AutoOff == IF budget > 0 /\ proposed >= AutoOffAfter /\ accepted * 10 < proposed
           THEN 0 ELSE budget

Draft(dr) ==
    /\ pc = "draft"
    /\ budget' = AutoOff
    /\ Len(dr) = IF AutoOff > 0 THEN DraftRoom(pos, AutoOff) ELSE 0
    /\ LET next == out[Emitted] IN
       /\ kv' = IF AutoOff > 0 THEN draft(next, dr, pos) ELSE kv
       /\ proposed' = proposed + Len(dr)
       /\ drafts' = SubSeq(dr, 1, Verifiable(Emitted, dr))
       /\ pc' = "verify"
    /\ UNCHANGED <<call, out, pos, hlast, logit, accepted, h_all, k, snap, done>>

Verify(onDevice) ==
    /\ pc = "verify"
    /\ snap' = IF kv.mamba /\ drafts # <<>> THEN snapshot_mamba_into(kv) ELSE snap
    /\ \E r \in {forward(arch, kv, <<out[Emitted]>> \o drafts, pos, onDevice)} :
       kv' = r.kv /\ h_all' = r.x
    /\ k' = 0 /\ done' = FALSE
    /\ pc' = "accept"
    /\ UNCHANGED <<call, out, pos, hlast, logit, budget, proposed, accepted, drafts>>

\* Mutant: a draft is taken without comparing it with the model's own token.
AcceptingUnchecked == ~done /\ k < Len(drafts) /\ Emitted < n_new

Accepting ==
    /\ ~done /\ k < Len(drafts) /\ Emitted < n_new
    /\ LM(h_all[k + 1]) = drafts[k + 1]

Accept(keep) ==
    /\ pc = "accept" /\ Accepting
    /\ out' = Append(out, drafts[k + 1])
    /\ k' = k + 1
    /\ done' = (drafts[k + 1] \in StopIds \/ ~keep)
    /\ UNCHANGED <<call, kv, pos, hlast, logit, budget, proposed, accepted, pc, drafts, h_all, snap>>

\* Mutant: the replay runs over the state the rejected drafts left.
RollbackUnrestored(onDevice) ==
    IF kv.mamba /\ k < Len(drafts) /\ ~done
    THEN forward(arch, kv, SubSeq(<<out[Emitted - k]>> \o drafts, 1, 1 + k), pos, onDevice).kv
    ELSE kv

\* Everything after a rejected draft is stale: replay over the saved state.
Rollback(onDevice) ==
    IF kv.mamba /\ k < Len(drafts) /\ ~done
    THEN forward(arch, restore_mamba_from(kv, snap),
                 SubSeq(<<out[Emitted - k]>> \o drafts, 1, 1 + k), pos, onDevice).kv
    ELSE kv

\* Mutant: a batch whose first draft is rejected is verified again.
SettleRetries(onDevice) ==
    /\ pc = "accept" /\ ~Accepting
    /\ pc' = IF drafts # <<>> /\ k = 0 THEN "verify" ELSE "finished"
    /\ kv' = IF kv.mamba /\ drafts # <<>> THEN restore_mamba_from(kv, snap) ELSE kv
    /\ UNCHANGED <<call, out, pos, hlast, logit, budget, proposed, accepted, drafts, h_all, k, snap, done>>

Settle(onDevice) ==
    /\ pc = "accept" /\ ~Accepting
    /\ kv' = absorb(Rollback(onDevice), SubSeq(drafts, 1, k), h_all, pos)
    /\ accepted' = accepted + k
    /\ hlast' = h_all[k + 1] /\ logit' = h_all[k + 1]
    /\ pos' = pos + 1 + k
    /\ pc' = IF done \/ Emitted >= n_new THEN "finished" ELSE "emit"
    /\ UNCHANGED <<call, out, budget, proposed, drafts, h_all, k, snap, done>>

\* An error in any pass ends the call; what was emitted stays emitted.
Fail ==
    /\ \/ pc \in {"prefill", "draft", "verify"}
       \/ pc = "accept" /\ ~Accepting
    /\ pc' = "failed"
    /\ UNCHANGED <<call, kv, out, pos, hlast, logit, budget, proposed, accepted, drafts, h_all, k, snap, done>>

Next == \/ Prefill
        \/ \E b \in BOOLEAN : Emit(b)
        \/ \E dr \in UNION {[1 .. n -> Vocab] : n \in 0 .. budget} : Draft(dr)
        \/ \E b \in OnDevice : Verify(b)
        \/ \E b \in BOOLEAN : Accept(b)
        \/ \E b \in OnDevice : Settle(b)
        \/ Fail

\* The loop runs on one thread and nothing it waits for blocks for ever: a call
\* that has not ended takes another step.  This is WF_vars(Next), written with
\* the condition under which Next is enabled.
Progress == []<>(pc \in Ended) \/ []<><<TRUE>>_vars
Spec == Init /\ [][Next]_vars /\ Progress

(***************************************************************************)
(* The reference: every position sees the positions its layers let it see, *)
(* of the whole sequence at once.                                          *)
(***************************************************************************)
\* The best `n' of the keys `K' for query q, earlier keys first on a tie.
BestOf(q, K, n) ==
    {t \in K : Cardinality({u \in K : \/ Score(q, u) > Score(q, t)
                                      \/ Score(q, u) = Score(q, t) /\ u < t}) < n}

\* What query q of a layer attends to when the prompt has `np' tokens.
Seen(a, layer, q, np) ==
    LET past == 0 .. q
        window == IF layer.win > 0 THEN {t \in past : t > q - layer.win} ELSE past
        BlockOf(t) == t \div layer.bsize
        Peak(b) == LET sc == {Score(q, t) : t \in {u \in past : BlockOf(u) = b}}
                   IN  CHOOSE m \in sc : \A x \in sc : x <= m
        near == {b \in {BlockOf(t) : t \in past} : BlockOf(q) - b < LocalBlocks}
        far  == {BlockOf(t) : t \in past} \ near
        bestFar == {b \in far : Cardinality({c \in far : Peak(c) > Peak(b) \/ (Peak(c) = Peak(b) /\ c < b)})
                                  + Cardinality(near) < IndexTopk}
    IN  IF layer.bsize > 0 /\ q < np /\ np > IndexTopk * layer.bsize
        THEN {t \in past : BlockOf(t) \in near \cup bestFar}
        ELSE IF layer.mix = "mla" /\ a.dsa /\ q < np /\ q >= IndexTopk THEN BestOf(q, past, IndexTopk)
        ELSE IF layer.mix = "dsv4"
             THEN (IF a.window > 0 THEN {t \in past : t > q - a.window} ELSE past)
                  \cup (IF layer.ratio = 0 THEN {}
                        ELSE LET closed == 0 .. (q + 1) \div layer.ratio - 1
                                 kept   == IF layer.ratio = 4 THEN BestOf(q, closed, IndexTopk) ELSE closed
                                 back   == IF layer.ratio = 4 THEN 1 ELSE 0
                             IN  {t \in past : \E b \in kept : t \div layer.ratio \in {b - back, b}})
             ELSE window

\* Row q of the last layer, from the rows of all layers below it.
RefRows(a, toks, np) ==
    FoldLeft(LAMBDA xs, layer :
               IF layer.mix = "moe" THEN xs
               ELSE Strict([i \in DOMAIN xs |-> xs[i] \cup UNION {xs[t + 1] : t \in Seen(a, layer, i - 1, np)}]),
             embed(toks, 0), a.layers)

Sequence == prompt \o out
Ref(i) == RefRows(arch, Sequence, Len(prompt))[i]

(***************************************************************************)
(* Properties.                                                             *)
(***************************************************************************)
\* After a verification pass, the row of every draft accepted so far is exact:
\* a rejected draft never leaks into a row that is used.
VerifiedRowsExact ==
    pc = "accept" => \A i \in 0 .. k : pos + 1 + i <= Len(Sequence) => h_all[i + 1] = Ref(pos + 1 + i)

\* Between iterations the recurrent state has absorbed exactly the tokens of
\* the positions behind it, once each and in order, and the conv history is
\* their tail: a rejected draft is rolled back, an accepted one is not lost.
RecurrentStateExact ==
    pc \in {"emit", "draft"} =>
        \A l \in DOMAIN arch.layers :
            /\ arch.layers[l].mix \in {"mamba", "kda"} => kv.ssm[l] = SubSeq(Sequence, 1, pos)
            /\ arch.layers[l].mix = "mamba" => kv.conv[l] = LastOf(kv.ssm[l], DConv)
            /\ arch.layers[l].mix = "kda"   => kv.conv[l] = LastOf(kv.ssm[l], DConv - 1)

\* No pass reads or writes outside the cache the callers size for it.
NoFault == ~kv.fault

\* Rows of the device shadow that count as valid are the host's rows.
DeviceShadowCurrent ==
    \A l \in DOMAIN arch.layers : \A q \in 0 .. kv.dev[l].valid - 1 : kv.dev[l].row[q] = kv.row[l][q]

\* "The accounting twin of the allocation": what prefill leaves resident is within
\* what a server reserves for the prompt, and what the whole call ever holds is
\* within what `gen' charges; a draft head's own rows are not charged for.  The
\* raw ring of an architecture without a layer_kind is in neither (RingCharged).
Uncharged(a) == IF has_layer_kind(a) THEN 0 ELSE ring_bytes(a)
KvCharged ==
    /\ out = <<>> => resident_bytes(arch, kv) <= bytes_for(arch, Len(prompt)) + Uncharged(arch)
    /\ arch.head = <<>> =>
         resident_bytes(arch, kv) <= charge_gen_kv(arch, Len(prompt), n_new) + Uncharged(arch)

\* The comment in the test of bytes_for, "The ring must be CHARGED, not merely
\* bounded": what a call on a ringed cache holds is within what was reserved,
\* its ring included.
RingCharged ==
    arch.window > 0 => resident_bytes(arch, kv) <= charge_gen_kv(arch, Len(prompt), n_new)

\* Every block of the Compressor pools exactly its own window, and with
\* overlap the window before it, however the tokens were fed.
BlocksExact ==
    (arch.stack = "dsv4" /\ pc \in {"emit", "draft"}) =>
        \A l \in DOMAIN arch.layers :
            arch.layers[l].ratio > 0 =>
                LET r == arch.layers[l].ratio
                    Newest(x) == CHOOSE p \in {pr[1] : pr \in x} : \A o \in x : o[1] <= p
                    Slots(w) == [i \in DOMAIN w |-> IF w[i] = Zero THEN -1 ELSE Newest(w[i])]
                    Want(b) == [i \in 1 .. r |-> (b - 1) * r + i - 1]
                IN  /\ Len(kv.comp[l]) = pos \div r
                    /\ \A b \in DOMAIN kv.comp[l] :
                         /\ Slots(kv.comp[l][b].norm) = Want(b)
                         /\ r = 4 => Slots(kv.comp[l][b].over) =
                                       IF b = 1 THEN [i \in 1 .. r |-> -1] ELSE Want(b - 1)

\* The tokens handed out are the greedy continuation of the prompt.
See(a, np, s) == LET rows == RefRows(a, s, np) IN rows[Len(s)]
Greedy == INSTANCE GreedyDecode WITH ended <- pc \in Ended
ImplementsGreedy == Greedy!Spec

\* A call ends: with all its tokens, at a stop token, or with an error.
CallEnds == <>(pc \in Ended)
=============================================================================
