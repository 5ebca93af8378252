---------------------------- MODULE GreedyDecode ----------------------------
(***************************************************************************)
(* What generation promises, whatever it caches, chunks, drafts or rolls   *)
(* back: the tokens handed out are the model's greedy continuation of the  *)
(* prompt, one after another, at most n_new of them and none after a stop  *)
(* token.  See(a, np, s) is the hidden row of the last token of s.           *)
(***************************************************************************)
EXTENDS Naturals, Sequences

CONSTANTS LM(_),         \* argmax of the logits of a hidden row
          See(_, _, _),  \* the hidden row of the last of a sequence of tokens
          StopIds        \* cfg.stop_ids

VARIABLES arch, prompt, n_new, out, ended

vars == <<arch, prompt, n_new, out, ended>>

Init == out = <<>> /\ ended = FALSE

Emit == /\ ~ended
        /\ Len(out) < n_new
        /\ out # <<>> => out[Len(out)] \notin StopIds
        /\ out' = Append(out, LM(See(arch, Len(prompt), prompt \o out)))
        /\ ended' \in BOOLEAN
        /\ UNCHANGED <<arch, prompt, n_new>>

End == ~ended /\ ended' = TRUE /\ UNCHANGED <<arch, prompt, n_new, out>>

Next == Emit \/ End
Spec == Init /\ [][Next]_vars
=============================================================================
