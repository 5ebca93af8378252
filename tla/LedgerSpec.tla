----------------------------- MODULE LedgerSpec -----------------------------
(***************************************************************************)
(* What the RAM ledger of colibri-engine/src/ram.rs promises, with every   *)
(* call one step: a commitment is taken only if it fits under the ceiling  *)
(* together with everything booked and reported at that moment; a report   *)
(* (set_usage) replaces a class's figure and cannot be refused; a release  *)
(* gives back bytes that were booked.  RamLedger implements this module.   *)
(***************************************************************************)
EXTENDS Integers

CONSTANTS Ceiling,     \* RamManager::ceiling
          Amounts      \* the byte counts callers ask for or report

VARIABLES booked,      \* bytes held by live Commitment handles
          usage        \* reported class -> bytes it last reported

specVars == <<booked, usage>>

\* The classes that report an absolute figure instead of holding commitments.
Reported == {"Experts", "Scratch", "ReadBuf"}

Used == usage["Experts"] + usage["Scratch"] + usage["ReadBuf"]

Init == /\ booked = 0
        /\ usage = [c \in Reported |-> 0]

\* commit: all or nothing, and only if it fits.
Admit(b) == /\ booked + Used + b <= Ceiling
            /\ booked' = booked + b
            /\ UNCHANGED usage

\* Commitment::drop.
Release(b) == /\ booked >= b
              /\ booked' = booked - b
              /\ UNCHANGED usage

\* set_usage: absolute, unconditional.
Report(c, b) == /\ usage' = [usage EXCEPT ![c] = b]
                /\ UNCHANGED booked

Next == \E b \in Amounts : \/ Admit(b)
                           \/ Release(b)
                           \/ \E c \in Reported : Report(c, b)

Spec == Init /\ [][Next]_specVars
=============================================================================
