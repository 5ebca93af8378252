------------------------------ MODULE RamLedger ------------------------------
(***************************************************************************)
(* The process-wide RAM ledger, colibri-engine/src/ram.rs, at the          *)
(* granularity of its atomic operations.  The callers are threads: request *)
(* handlers commit and drop (Class::Kv, and Class::Dense once at load),    *)
(* reporters overwrite a class's figure with set_usage (the expert cache   *)
(* for Experts, the budget monitor for Scratch and ReadBuf, the forward    *)
(* pass for Scratch and ReadBuf again).                                    *)
(*                                                                         *)
(* Every load, compare-exchange, fetch_add, fetch_sub and swap is a step   *)
(* of its own; arithmetic on `total` wraps at the word size W, as          *)
(* AtomicU64 does.  note_peak is one step: its compare-exchange loop is a  *)
(* fetch_max.                                                              *)
(***************************************************************************)
EXTENDS Integers, FiniteSetsExt

CONSTANTS Threads,       \* threads that call the ledger
          Committers,    \* committed class -> the threads that commit it
          Reporters,     \* reported class -> the threads that report it
          Ceiling,       \* RamManager::ceiling
          Amounts,       \* byte counts callers ask for or report
          MaxAmount,     \* the largest of them
          MaxPolls,      \* polls of commit_or_wait that fit in its timeout
          W,             \* word size: AtomicU64 arithmetic is modulo W
          Serialised,    \* reported classes whose reports never overlap
          NoHandle       \* held[t] of a thread without a Commitment

Committed == {"Dense", "Kv"}
Reported  == {"Experts", "Scratch", "ReadBuf"}
Class     == Committed \cup Reported

ASSUME LedgerAssumption ==
  /\ Ceiling \in Nat /\ MaxAmount \in Nat /\ MaxPolls \in Nat /\ W \in Nat
  /\ Amounts \subseteq 0 .. MaxAmount
  /\ Ceiling + 3 * MaxAmount < W
  /\ Committers \in [Committed -> SUBSET Threads]
  /\ Reporters \in [Reported -> SUBSET Threads]
  /\ Serialised \subseteq Reported
  /\ NoHandle \notin [class : Committed, bytes : Nat]

VARIABLES
  total,           \* AtomicU64 total
  per_class,       \* [AtomicU64; N_CLASSES]
  peak_per_class,  \* [AtomicU64; N_CLASSES]
  pc,              \* thread -> where it is inside a ledger call
  call,            \* thread -> the locals of that call
  held,            \* thread -> the Commitment it owns
  live             \* history: bytes of the commitments `total` has taken and
                   \* no drop has given back, hold_forever ones included

vars == <<total, per_class, peak_per_class, pc, call, held, live>>

\* Where another thread may run between two steps of a call:
\*   cas    commit is about to compare-exchange `total` from `val`
\*   count  commit has moved `total`, not yet the class counter
\*   peak   about to note_peak, then commit returns its handle
\*   sleep  commit_or_wait sleeps 10 ms before the next try
\*   swap   set_usage has swapped the class counter; note_peak comes next
\*   apply  set_usage is about to move `total` by the difference
\*   drop   Commitment::drop has moved `total`, not yet the class counter
PC == {"idle", "cas", "count", "peak", "sleep", "swap", "apply", "drop"}

\* The locals of a call: its arguments, `val` the last value it read (`cur` of
\* commit, the fetch_add result, `prev` of set_usage), and the polls left
\* before commit_or_wait's deadline.
NoCall == [class |-> "Dense", bytes |-> 0, val |-> 0, polls |-> 0]

Init ==
  /\ total = 0
  /\ per_class = [c \in Class |-> 0]
  /\ peak_per_class = [c \in Class |-> 0]
  /\ pc = [t \in Threads |-> "idle"]
  /\ call = [t \in Threads |-> NoCall]
  /\ held = [t \in Threads |-> NoHandle]
  /\ live = 0

Wrap(x) == x % W

\* u64::saturating_sub.
SatSub(a, b) == IF a >= b THEN a - b ELSE 0

Goto(t, l) == pc' = [pc EXCEPT ![t] = l]
Return(t)  == Goto(t, "idle") /\ call' = [call EXCEPT ![t] = NoCall]

-----------------------------------------------------------------------------
(* commit and commit_or_wait.                                              *)

\* A caller asks for b > 0 bytes of class c with room for n polls before its
\* deadline: n = 0 is a plain commit / try_commit.  commit_or_wait answers
\* TooLarge when b exceeds the caller's bound, and touches nothing then.  The
\* load of `total` that opens commit is part of the step.
Commit(t, c, b, n) ==
  /\ pc[t] = "idle" /\ held[t] = NoHandle
  /\ b > 0
  /\ call' = [call EXCEPT ![t] = [class |-> c, bytes |-> b, val |-> total, polls |-> n]]
  /\ Goto(t, "cas")
  /\ UNCHANGED <<total, per_class, peak_per_class, held, live>>

\* A zero-byte commitment is granted without touching the counters.
CommitZero(t, c) ==
  /\ pc[t] = "idle" /\ held[t] = NoHandle
  /\ held' = [held EXCEPT ![t] = [class |-> c, bytes |-> 0]]
  /\ UNCHANGED <<total, per_class, peak_per_class, pc, call, live>>

\* Mutant: the fit is off by one.
Fits_OffByOne(t) == call[t].bytes <= SatSub(Ceiling, call[t].val) + 1

Fits(t) == call[t].bytes <= SatSub(Ceiling, call[t].val)

\* Mutant: a plain store of the sum instead of the compare-exchange.
CommitTake_Store(t) ==
  /\ pc[t] = "cas"
  /\ Fits(t)
  /\ total' = Wrap(call[t].val + call[t].bytes)
  /\ live' = live + call[t].bytes
  /\ Goto(t, "count")
  /\ UNCHANGED <<per_class, peak_per_class, call, held>>

\* compare_exchange succeeds: one step from "fits" to "taken".
CommitTake(t) ==
  /\ pc[t] = "cas"
  /\ Fits(t)
  /\ total = call[t].val
  /\ total' = Wrap(call[t].val + call[t].bytes)
  /\ live' = live + call[t].bytes
  /\ Goto(t, "count")
  /\ UNCHANGED <<per_class, peak_per_class, call, held>>

\* compare_exchange fails: another thread moved `total`; re-test the fit.
CommitRetry(t) ==
  /\ pc[t] = "cas"
  /\ Fits(t)
  /\ total # call[t].val
  /\ call' = [call EXCEPT ![t].val = total]
  /\ UNCHANGED <<total, per_class, peak_per_class, pc, held, live>>

\* commit returns None.  commit_or_wait sleeps and tries again until its
\* deadline, then answers Busy; a plain commit gives up at once.
CommitRefuse(t) ==
  /\ pc[t] = "cas"
  /\ ~Fits(t)
  /\ IF call[t].polls > 0 THEN Goto(t, "sleep") /\ UNCHANGED call ELSE Return(t)
  /\ UNCHANGED <<total, per_class, peak_per_class, held, live>>

\* The next poll of commit_or_wait: a fresh commit.
CommitPoll(t) ==
  /\ pc[t] = "sleep"
  /\ call' = [call EXCEPT ![t].val = total, ![t].polls = @ - 1]
  /\ Goto(t, "cas")
  /\ UNCHANGED <<total, per_class, peak_per_class, held, live>>

\* per_class.fetch_add after the compare-exchange.
CommitCount(t) ==
  /\ pc[t] = "count"
  /\ per_class' = [per_class EXCEPT ![call[t].class] = @ + call[t].bytes]
  /\ call' = [call EXCEPT ![t].val = per_class[call[t].class]]
  /\ Goto(t, "peak")
  /\ UNCHANGED <<total, peak_per_class, held, live>>

\* note_peak raises the high-water mark of class c to `now`, never lowers it.
note_peak(c, now) ==
  peak_per_class' = [peak_per_class EXCEPT ![c] = IF now > @ THEN now ELSE @]

\* note_peak of the value fetch_add left, then commit returns Some(handle).
CommitPeak(t) ==
  /\ pc[t] = "peak"
  /\ note_peak(call[t].class, call[t].val + call[t].bytes)
  /\ held' = [held EXCEPT ![t] = [class |-> call[t].class, bytes |-> call[t].bytes]]
  /\ Return(t)
  /\ UNCHANGED <<total, per_class, live>>

\* Commitment::hold_forever: the handle is forgotten, its bytes stay counted.
HoldForever(t) ==
  /\ pc[t] = "idle" /\ held[t] # NoHandle
  /\ held' = [held EXCEPT ![t] = NoHandle]
  /\ UNCHANGED <<total, per_class, peak_per_class, pc, call, live>>

\* Commitment::drop, first half: total.fetch_sub.
DropTotal(t) ==
  /\ pc[t] = "idle" /\ held[t] # NoHandle
  /\ total' = Wrap(total - held[t].bytes)
  /\ live' = live - held[t].bytes
  /\ Goto(t, "drop")
  /\ UNCHANGED <<per_class, peak_per_class, call, held>>

\* Commitment::drop, second half: per_class.fetch_sub.
DropClass(t) ==
  /\ pc[t] = "drop"
  /\ per_class' = [per_class EXCEPT ![held[t].class] = @ - held[t].bytes]
  /\ held' = [held EXCEPT ![t] = NoHandle]
  /\ Return(t)
  /\ UNCHANGED <<total, peak_per_class, live>>

-----------------------------------------------------------------------------
(* set_usage.  It cannot refuse and may push `total` past the ceiling.     *)

\* The threads that have swapped a class's counter and not yet moved `total`.
reporting == [c \in Reported |->
                {t \in Threads : call[t].class = c /\ pc[t] \in {"swap", "apply"}}]

\* per_class.swap.  A serialised class has one report under way at a time: the
\* expert cache publishes Experts under its lock, and Scratch and ReadBuf are
\* reported by the budget monitor alone in a build without CUDA and without
\* the profile print.
UsageSwap(t, c, b) ==
  /\ pc[t] = "idle"
  /\ c \in Serialised => reporting[c] = {}
  /\ call' = [call EXCEPT ![t] = [class |-> c, bytes |-> b, val |-> per_class[c],
                                  polls |-> 0]]
  /\ per_class' = [per_class EXCEPT ![c] = b]
  /\ Goto(t, "swap")
  /\ UNCHANGED <<total, peak_per_class, held, live>>

UsagePeak(t) ==
  /\ pc[t] = "swap"
  /\ note_peak(call[t].class, call[t].bytes)
  /\ Goto(t, "apply")
  /\ UNCHANGED <<total, per_class, call, held, live>>

\* Mutant: the new figure is added without taking the old one away.
UsageApply_Absolute(t) ==
  /\ pc[t] = "apply"
  /\ total' = Wrap(total + call[t].bytes)
  /\ Return(t)
  /\ UNCHANGED <<per_class, peak_per_class, held, live>>

\* One fetch_add or one fetch_sub of the difference.  The headroom set_usage
\* returns is a read that changes nothing.
UsageApply(t) ==
  /\ pc[t] = "apply"
  /\ total' = IF call[t].bytes >= call[t].val
              THEN Wrap(total + (call[t].bytes - call[t].val))
              ELSE Wrap(total - (call[t].val - call[t].bytes))
  /\ Return(t)
  /\ UNCHANGED <<per_class, peak_per_class, held, live>>

-----------------------------------------------------------------------------
CommitStep(t) == \/ CommitTake(t) \/ CommitRetry(t) \/ CommitRefuse(t)
                 \/ CommitPoll(t) \/ CommitCount(t) \/ CommitPeak(t)
HandleStep(t) == HoldForever(t) \/ DropTotal(t) \/ DropClass(t)
UsageStep(t)  == UsagePeak(t) \/ UsageApply(t)

Next ==
  \/ \E c \in Committed : \E t \in Committers[c] :
       \/ CommitZero(t, c)
       \/ \E b \in Amounts, n \in 0 .. MaxPolls : Commit(t, c, b, n)
  \/ \E c \in Reported : \E t \in Reporters[c], b \in Amounts : UsageSwap(t, c, b)
  \/ \E t \in Threads : CommitStep(t) \/ HandleStep(t) \/ UsageStep(t)

Spec == Init /\ [][Next]_vars

-----------------------------------------------------------------------------
(* Properties.                                                             *)

\* Every variable ranges over its type; a class counter never goes below zero
\* although commit and drop move it after `total`.
TypeOK ==
  /\ total \in 0 .. W - 1
  /\ per_class \in [Class -> Nat]
  /\ peak_per_class \in [Class -> Nat]
  /\ pc \in [Threads -> PC]
  /\ call \in [Threads -> [class : Class, bytes : 0 .. MaxAmount, val : Nat,
                           polls : 0 .. MaxPolls]]
  /\ held \in [Threads -> [class : Committed, bytes : 0 .. MaxAmount] \cup {NoHandle}]
  /\ live \in Nat

\* The part of each reported class's figure that `total` already includes.
applied == [c \in Reported |->
              IF reporting[c] = {} THEN per_class[c]
              ELSE call[CHOOSE t \in reporting[c] : TRUE].val]

\* The module comment of ram.rs, "the sum of live commitments can never exceed
\* RamManager::ceiling": the bytes of every Commitment not yet dropped fit
\* under the ceiling in every state, whatever the reporters do meanwhile.
CommitmentsBounded == live <= Ceiling

\* The accounting identity behind it: at every instant `total` is the live
\* commitments plus what the reported classes have applied; no interleaving of
\* commit, drop and set_usage loses, duplicates or clobbers a delta.
TotalAccountsForAll ==
  total = live + applied["Experts"] + applied["Scratch"] + applied["ReadBuf"]

\* The ledger with every call atomic.
Abstract == INSTANCE LedgerSpec
              WITH booked <- live, usage <- applied, Amounts <- 0 .. MaxAmount

\* Every step of the lock-free code is a step of the atomic ledger or
\* invisible to it: the compare-exchange is the moment a commitment is
\* admitted, the fetch_add / fetch_sub the moment a report takes effect.
RefinesLedger == Abstract!Spec
=============================================================================
