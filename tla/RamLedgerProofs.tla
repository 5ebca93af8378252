-------------------------- MODULE RamLedgerProofs --------------------------
(***************************************************************************)
(* For every set of threads, ceiling and set of sizes: if the reports of   *)
(* each class never overlap, the RAM ledger never lends more than its      *)
(* ceiling in commitments, its total accounts for every byte at every      *)
(* instant, no counter underflows, and it implements LedgerSpec.           *)
(*                                                                         *)
(* The inductive invariant IInv adds to the properties what each position  *)
(* inside a call fixes (Local), that at most one report of a class is      *)
(* under way (OneReport), and two sums: the bytes that threads have taken  *)
(* out of `total` and out of each class counter.  Without the sums a drop  *)
(* could be thought to underflow; with them every subtraction gives back   *)
(* what was added.                                                         *)
(***************************************************************************)
EXTENDS RamLedger, SumTheorems

\* The bytes of each thread that `total` holds as a commitment.
taken == [t \in Threads |->
            IF pc[t] \in {"count", "peak"} THEN call[t].bytes
            ELSE IF held[t] # NoHandle /\ pc[t] # "drop" THEN held[t].bytes
            ELSE 0]

\* The bytes of each thread that a class counter holds as a commitment.
counted == [c \in Committed |-> [t \in Threads |->
              IF pc[t] = "peak" /\ call[t].class = c THEN call[t].bytes
              ELSE IF held[t] # NoHandle /\ held[t].class = c THEN held[t].bytes
              ELSE 0]]

Local == \A t \in Threads :
  /\ pc[t] \in {"cas", "count", "peak", "sleep"} =>
       call[t].class \in Committed /\ call[t].bytes > 0 /\ held[t] = NoHandle
  /\ pc[t] \in {"swap", "apply"} =>
       call[t].class \in Reported /\ call[t].val \in 0 .. MaxAmount
  /\ pc[t] = "sleep" => call[t].polls > 0
  /\ pc[t] = "drop" => held[t] # NoHandle

Reports == \A c \in Reported :
  /\ per_class[c] \in 0 .. MaxAmount
  /\ \A t \in reporting[c] : per_class[c] = call[t].bytes

OneReport == \A c \in Reported : \A s, t \in reporting[c] : s = t

\* `forgotten` is what hold_forever left behind.
TakenSum == \E forgotten \in Nat : IsSum(taken, Threads, live - forgotten)
CountedSum == \A c \in Committed : \E forgotten \in Nat :
                IsSum(counted[c], Threads, per_class[c] - forgotten)

IInv == /\ TypeOK /\ Local /\ Reports /\ OneReport
        /\ TakenSum /\ CountedSum
        /\ CommitmentsBounded /\ TotalAccountsForAll

\* Below the word size, wrapping arithmetic is arithmetic.
LEMMA NoWrap == ASSUME NEW x \in 0 .. W - 1 PROVE Wrap(x) = x
BY LedgerAssumption DEF Wrap

LEMMA NoCallType ==
  NoCall \in [class : Class, bytes : 0 .. MaxAmount, val : Nat, polls : 0 .. MaxPolls]
BY LedgerAssumption DEF NoCall, Class, Committed

\* What `applied` is, without its CHOOSE: the figure a report under way has
\* read, and the counter itself when there is none.
LEMMA AppliedValue ==
  ASSUME OneReport, NEW c \in Reported
  PROVE  /\ \A t \in reporting[c] : applied[c] = call[t].val
         /\ reporting[c] = {} => applied[c] = per_class[c]
<1>1. ASSUME NEW t \in reporting[c] PROVE applied[c] = call[t].val
  <2>1. (CHOOSE u \in reporting[c] : TRUE) = t
    BY DEF OneReport
  <2> QED BY <2>1 DEF applied
<1> QED BY <1>1 DEF applied

LEMMA AppliedValueNext ==
  ASSUME OneReport', NEW c \in Reported
  PROVE  /\ \A t \in reporting'[c] : applied'[c] = call'[t].val
         /\ reporting'[c] = {} => applied'[c] = per_class'[c]
<1>1. ASSUME NEW t \in reporting'[c] PROVE applied'[c] = call'[t].val
  <2>1. (CHOOSE u \in reporting'[c] : TRUE) = t
    BY DEF OneReport
  <2> QED BY <2>1 DEF applied
<1> QED BY <1>1 DEF applied

\* A reported class's applied figure is a size some caller reported.
LEMMA AppliedRange ==
  ASSUME IInv, NEW c \in Reported
  PROVE  applied[c] \in 0 .. MaxAmount
<1>1. CASE reporting[c] # {}
  <2>1. PICK t \in reporting[c] : TRUE
    BY <1>1
  <2>2. applied[c] = call[t].val
    BY AppliedValue DEF IInv
  <2>3. call[t].val \in 0 .. MaxAmount
    BY DEF IInv, Local, reporting
  <2> QED BY <2>2, <2>3
<1>2. CASE reporting[c] = {}
  BY <1>2, AppliedValue DEF IInv, Reports
<1> QED BY <1>1, <1>2

-----------------------------------------------------------------------------
\* If no report starts, ends or moves its counter, `applied` stays.
LEMMA AppliedFrame ==
  ASSUME OneReport, reporting' = reporting,
         \A c \in Reported : per_class'[c] = per_class[c],
         \A c \in Reported : \A t \in reporting[c] : call'[t] = call[t]
  PROVE  OneReport' /\ applied' = applied
<1>1. OneReport'
  BY DEF OneReport
<1>2. ASSUME NEW c \in Reported PROVE applied'[c] = applied[c]
  <2>1. CASE reporting[c] = {}
    BY <2>1, AppliedValue, AppliedValueNext, <1>1
  <2>2. CASE reporting[c] # {}
    <3>1. PICK t \in reporting[c] : TRUE
      BY <2>2
    <3> QED BY <3>1, AppliedValue, AppliedValueNext, <1>1
  <2> QED BY <2>1, <2>2
<1>3. applied' = applied
  BY <1>2 DEF applied
<1> QED BY <1>1, <1>3

\* A step that leaves the counters, every thread's share of them and the
\* reports under way alone keeps the invariant.
LEMMA QuietStep ==
  ASSUME IInv, TypeOK', Local',
         UNCHANGED <<total, live, per_class, taken, counted, reporting>>,
         \A c \in Reported : \A t \in reporting[c] : call'[t] = call[t]
  PROVE  IInv'
<1>1. OneReport' /\ applied' = applied
  BY AppliedFrame DEF IInv
<1>2. Reports' /\ TakenSum' /\ CountedSum' /\ CommitmentsBounded' /\ TotalAccountsForAll'
  BY <1>1 DEF IInv, Reports, TakenSum, CountedSum, CommitmentsBounded, TotalAccountsForAll
<1> QED BY <1>1, <1>2 DEF IInv

LEMMA CommitInv ==
  ASSUME IInv, NEW c \in Committed, NEW t \in Committers[c], NEW b \in Amounts,
         NEW n \in 0 .. MaxPolls, Commit(t, c, b, n)
  PROVE  IInv'
<1>0. t \in Threads /\ b \in 0 .. MaxAmount /\ c \in Class
  BY LedgerAssumption DEF Class
<1>1. TypeOK' /\ Local'
  BY <1>0 DEF IInv, TypeOK, Local, Commit, Goto, PC
<1>2. UNCHANGED <<taken, counted, reporting>>
  BY <1>0 DEF IInv, TypeOK, Local, Commit, Goto, taken, counted, reporting, Committed, Reported
<1>3. \A d \in Reported : \A s \in reporting[d] : call'[s] = call[s]
  BY <1>0 DEF IInv, TypeOK, Commit, reporting
<1> QED BY <1>1, <1>2, <1>3, QuietStep DEF Commit

LEMMA CommitZeroInv ==
  ASSUME IInv, NEW c \in Committed, NEW t \in Committers[c], CommitZero(t, c)
  PROVE  IInv'
<1>0. t \in Threads /\ MaxAmount \in Nat
  BY LedgerAssumption
<1>1. TypeOK' /\ Local'
  BY <1>0 DEF IInv, TypeOK, Local, CommitZero, PC
<1>2. UNCHANGED <<taken, counted, reporting>>
  BY <1>0 DEF IInv, TypeOK, Local, CommitZero, taken, counted, reporting
<1> QED BY <1>1, <1>2, QuietStep DEF CommitZero

LEMMA CommitTakeInv ==
  ASSUME IInv, NEW t \in Threads, CommitTake(t)
  PROVE  IInv'
<1> DEFINE b == call[t].bytes
<1>0. /\ b \in Nat /\ b \in 0 .. MaxAmount
      /\ total + b <= Ceiling /\ total \in Nat /\ total + b \in 0 .. W - 1
      /\ call[t].class \in Committed /\ held[t] = NoHandle
  BY LedgerAssumption DEF IInv, TypeOK, Local, CommitTake, Fits, SatSub
<1>1. total' = total + b /\ live' = live + b
  BY <1>0, NoWrap DEF CommitTake
<1>2. TypeOK' /\ Local'
  BY <1>0, <1>1 DEF IInv, TypeOK, Local, CommitTake, Goto, PC
<1>3. UNCHANGED <<counted, reporting>>
  BY DEF IInv, TypeOK, CommitTake, Goto, counted, reporting
<1>4. OneReport' /\ applied' = applied
  BY <1>3, AppliedFrame DEF IInv, CommitTake
<1>5. Reports' /\ CountedSum'
  BY <1>3 DEF IInv, Reports, CountedSum, CommitTake
<1>6. CommitmentsBounded' /\ TotalAccountsForAll'
  <2>1. \A c \in Reported : applied[c] \in Nat
    BY AppliedRange
  <2>2. /\ applied["Experts"] \in Nat /\ applied["Scratch"] \in Nat
        /\ applied["ReadBuf"] \in Nat /\ live \in Nat
    BY <2>1 DEF Reported, IInv, TypeOK
  <2>3. live + b <= total + b
    BY <1>0, <2>2 DEF IInv, TotalAccountsForAll
  <2> QED BY <1>0, <1>1, <1>4, <2>2, <2>3, LedgerAssumption
          DEF IInv, CommitmentsBounded, TotalAccountsForAll
<1>7. TakenSum'
  <2>1. PICK g \in Nat : IsSum(taken, Threads, live - g)
    BY DEF IInv, TakenSum
  <2>2. \A x \in Threads : taken[x] \in Nat
    BY DEF IInv, TypeOK, taken
  <2>3. taken[t] = 0 /\ taken'[t] = taken[t] + b /\ taken'[t] \in Nat
    BY <1>0 DEF IInv, TypeOK, CommitTake, Goto, taken
  <2>4. \A x \in Threads \ {t} : taken'[x] = taken[x]
    BY DEF IInv, TypeOK, CommitTake, Goto, taken
  <2>5. IsSum(taken', Threads, (live - g) + b)
    <3> HIDE DEF b
    <3> QED BY <1>0, <2>1, <2>2, <2>3, <2>4, SumUpdate
  <2>6. (live - g) + b = live' - g
    BY <1>0, <1>1 DEF IInv, TypeOK
  <2> QED BY <2>5, <2>6 DEF TakenSum
<1> QED BY <1>2, <1>4, <1>5, <1>6, <1>7 DEF IInv

LEMMA CommitRetryInv ==
  ASSUME IInv, NEW t \in Threads, CommitRetry(t)
  PROVE  IInv'
<1>1. TypeOK' /\ Local'
  BY LedgerAssumption DEF IInv, TypeOK, Local, CommitRetry
<1>2. UNCHANGED <<taken, counted, reporting>>
  BY DEF IInv, TypeOK, CommitRetry, taken, counted, reporting
<1>3. \A d \in Reported : \A s \in reporting[d] : call'[s] = call[s]
  BY DEF IInv, TypeOK, CommitRetry, reporting
<1> QED BY <1>1, <1>2, <1>3, QuietStep DEF CommitRetry

LEMMA CommitRefuseInv ==
  ASSUME IInv, NEW t \in Threads, CommitRefuse(t)
  PROVE  IInv'
<1>1. TypeOK' /\ Local'
  <2>1. CASE call[t].polls > 0
    BY <2>1 DEF IInv, TypeOK, Local, CommitRefuse, Goto, PC
  <2>2. CASE ~(call[t].polls > 0)
    BY <2>2, NoCallType DEF IInv, TypeOK, Local, CommitRefuse, Return, Goto, PC
  <2> QED BY <2>1, <2>2
<1>2. UNCHANGED <<taken, counted, reporting>>
  BY DEF IInv, TypeOK, Local, CommitRefuse, Return, Goto, NoCall, taken, counted, reporting
<1>3. \A d \in Reported : \A s \in reporting[d] : call'[s] = call[s]
  BY DEF IInv, TypeOK, CommitRefuse, Return, Goto, reporting
<1> QED BY <1>1, <1>2, <1>3, QuietStep DEF CommitRefuse

LEMMA CommitPollInv ==
  ASSUME IInv, NEW t \in Threads, CommitPoll(t)
  PROVE  IInv'
<1>1. TypeOK' /\ Local'
  BY LedgerAssumption DEF IInv, TypeOK, Local, CommitPoll, Goto, PC
<1>2. UNCHANGED <<taken, counted, reporting>>
  BY DEF IInv, TypeOK, Local, CommitPoll, Goto, taken, counted, reporting
<1>3. \A d \in Reported : \A s \in reporting[d] : call'[s] = call[s]
  BY DEF IInv, TypeOK, CommitPoll, reporting
<1> QED BY <1>1, <1>2, <1>3, QuietStep DEF CommitPoll

LEMMA CommitCountInv ==
  ASSUME IInv, NEW t \in Threads, CommitCount(t)
  PROVE  IInv'
<1> DEFINE b == call[t].bytes
           c == call[t].class
<1>0. b \in Nat /\ c \in Committed /\ c \in Class /\ c \notin Reported /\ held[t] = NoHandle
  BY LedgerAssumption DEF IInv, TypeOK, Local, CommitCount, Committed, Reported
<1>1. TypeOK' /\ Local'
  BY <1>0 DEF IInv, TypeOK, Local, CommitCount, Goto, PC
<1>2. UNCHANGED <<taken, reporting>>
  BY DEF IInv, TypeOK, CommitCount, Goto, taken, reporting
<1>3. \A d \in Reported : \A s \in reporting[d] : call'[s] = call[s]
  BY DEF IInv, TypeOK, CommitCount, reporting
<1>4. \A d \in Reported : per_class'[d] = per_class[d]
  BY <1>0 DEF IInv, TypeOK, CommitCount, Class
<1>5. OneReport' /\ applied' = applied
  BY <1>2, <1>3, <1>4, AppliedFrame DEF IInv
<1>6. Reports' /\ TakenSum' /\ CommitmentsBounded' /\ TotalAccountsForAll'
  BY <1>2, <1>4, <1>5
     DEF IInv, Reports, TakenSum, CommitCount, CommitmentsBounded, TotalAccountsForAll
<1>7. CountedSum'
  <2> SUFFICES ASSUME NEW d \in Committed
               PROVE  \E g \in Nat : IsSum(counted'[d], Threads, per_class'[d] - g)
    BY DEF CountedSum
  <2>1. PICK g \in Nat : IsSum(counted[d], Threads, per_class[d] - g)
    BY DEF IInv, CountedSum
  <2>2. CASE d # c
    <3>1. counted'[d] = counted[d]
      BY <2>2, <1>0 DEF IInv, TypeOK, CommitCount, Goto, counted
    <3>2. per_class'[d] = per_class[d]
      BY <2>2 DEF IInv, TypeOK, CommitCount, Class
    <3> QED BY <2>1, <3>1, <3>2
  <2>3. CASE d = c
    <3>1. \A x \in Threads : counted[d][x] \in Nat
      BY DEF IInv, TypeOK, counted
    <3>2. /\ counted[d][t] = 0 /\ counted'[d][t] = counted[d][t] + b
          /\ counted'[d][t] \in Nat
      BY <1>0, <2>3 DEF IInv, TypeOK, CommitCount, Goto, counted
    <3>3. \A x \in Threads \ {t} : counted'[d][x] = counted[d][x]
      BY DEF IInv, TypeOK, CommitCount, Goto, counted
    <3>4. per_class'[d] = per_class[d] + b /\ per_class[d] \in Nat
      BY <1>0, <2>3 DEF IInv, TypeOK, CommitCount
    <3>5. IsSum(counted'[d], Threads, (per_class[d] - g) + b)
      <4> DEFINE f == counted[d]
                 h == counted'[d]
                 v == per_class[d] - g
      <4>1. /\ \A x \in Threads : f[x] \in Nat
            /\ h[t] = f[t] + b /\ h[t] \in Nat
            /\ \A x \in Threads \ {t} : h[x] = f[x]
            /\ IsSum(f, Threads, v)
        BY <2>1, <3>1, <3>2, <3>3
      <4>2. b \in Int
        BY <1>0
      <4> HIDE DEF b, f, h, v
      <4>3. IsSum(h, Threads, v + b)
        BY <4>1, <4>2, SumUpdate
      <4> QED BY <4>3 DEF h, v
    <3>6. (per_class[d] - g) + b = per_class'[d] - g
      BY <1>0, <3>4
    <3> QED BY <3>5, <3>6
  <2> QED BY <2>2, <2>3
<1> QED BY <1>1, <1>5, <1>6, <1>7 DEF IInv

LEMMA CommitPeakInv ==
  ASSUME IInv, NEW t \in Threads, CommitPeak(t)
  PROVE  IInv'
<1>0. /\ call[t].class \in Committed /\ held[t] = NoHandle
      /\ [class |-> call[t].class, bytes |-> call[t].bytes] # NoHandle
  BY LedgerAssumption DEF IInv, TypeOK, Local, CommitPeak
<1>1. TypeOK' /\ Local'
  BY <1>0, NoCallType DEF IInv, TypeOK, Local, CommitPeak, Return, Goto, PC, note_peak
<1>2. UNCHANGED <<taken, counted, reporting>>
  BY <1>0 DEF IInv, TypeOK, CommitPeak, Return, Goto, NoCall, taken, counted, reporting
<1>3. \A d \in Reported : \A s \in reporting[d] : call'[s] = call[s]
  BY DEF IInv, TypeOK, CommitPeak, Return, reporting
<1> QED BY <1>1, <1>2, <1>3, QuietStep DEF CommitPeak

LEMMA HoldForeverInv ==
  ASSUME IInv, NEW t \in Threads, HoldForever(t)
  PROVE  IInv'
<1> DEFINE b == held[t].bytes
<1>0. held[t] # NoHandle /\ pc[t] = "idle" /\ b \in Nat /\ held[t].class \in Committed
  BY LedgerAssumption DEF IInv, TypeOK, HoldForever
<1>1. TypeOK' /\ Local'
  BY <1>0 DEF IInv, TypeOK, Local, HoldForever
<1>2. UNCHANGED reporting
  BY DEF HoldForever, reporting
<1>3. OneReport' /\ applied' = applied
  BY <1>2, AppliedFrame DEF IInv, HoldForever
<1>4. Reports' /\ CommitmentsBounded' /\ TotalAccountsForAll'
  BY <1>2, <1>3 DEF IInv, Reports, HoldForever, CommitmentsBounded, TotalAccountsForAll
<1>5. TakenSum'
  <2>1. PICK g \in Nat : IsSum(taken, Threads, live - g)
    BY DEF IInv, TakenSum
  <2>2. \A x \in Threads : taken[x] \in Nat
    BY DEF IInv, TypeOK, taken
  <2>3. taken'[t] = taken[t] + (0 - b) /\ taken'[t] \in Nat
    BY <1>0 DEF IInv, TypeOK, HoldForever, taken
  <2>4. \A x \in Threads \ {t} : taken'[x] = taken[x]
    BY DEF IInv, TypeOK, HoldForever, taken
  <2>5. IsSum(taken', Threads, (live - g) + (0 - b))
    <3>1. 0 - b \in Int
      BY <1>0
    <3> HIDE DEF b
    <3> QED BY <3>1, <2>1, <2>2, <2>3, <2>4, SumUpdate
  <2>6. (live - g) + (0 - b) = live' - (g + b) /\ g + b \in Nat
    BY <1>0 DEF IInv, TypeOK, HoldForever
  <2> QED BY <2>5, <2>6 DEF TakenSum
<1>6. CountedSum'
  <2> SUFFICES ASSUME NEW d \in Committed
               PROVE  \E g \in Nat : IsSum(counted'[d], Threads, per_class'[d] - g)
    BY DEF CountedSum
  <2>1. PICK g \in Nat : IsSum(counted[d], Threads, per_class[d] - g)
    BY DEF IInv, CountedSum
  <2>2. CASE held[t].class # d
    <3>1. counted'[d] = counted[d]
      BY <2>2, <1>0 DEF IInv, TypeOK, HoldForever, counted
    <3> QED BY <2>1, <3>1 DEF HoldForever
  <2>3. CASE held[t].class = d
    <3> DEFINE f == counted[d]
               h == counted'[d]
               v == per_class[d] - g
    <3>1. /\ \A x \in Threads : f[x] \in Nat
          /\ h[t] = f[t] + (0 - b) /\ h[t] \in Nat
          /\ \A x \in Threads \ {t} : h[x] = f[x]
      BY <1>0, <2>3 DEF IInv, TypeOK, HoldForever, counted
    <3>2. 0 - b \in Int /\ IsSum(f, Threads, v)
      BY <1>0, <2>1
    <3>3. IsSum(h, Threads, v + (0 - b))
      <4> HIDE DEF b, f, h, v
      <4> QED BY <3>1, <3>2, SumUpdate
    <3>4. v + (0 - b) = per_class'[d] - (g + b) /\ g + b \in Nat
      BY <1>0 DEF IInv, TypeOK, HoldForever, Class
    <3> QED BY <3>3, <3>4
  <2> QED BY <2>2, <2>3
<1> QED BY <1>1, <1>3, <1>4, <1>5, <1>6 DEF IInv

LEMMA DropTotalInv ==
  ASSUME IInv, NEW t \in Threads, DropTotal(t)
  PROVE  IInv'
<1> DEFINE b == held[t].bytes
<1>0. held[t] # NoHandle /\ pc[t] = "idle" /\ b \in Nat /\ taken[t] = b
  BY LedgerAssumption DEF IInv, TypeOK, DropTotal, taken
<1>1. PICK g \in Nat : IsSum(taken, Threads, live - g)
  BY DEF IInv, TakenSum
<1>2. b <= live /\ live \in Nat
  <2>1. taken[t] <= live - g
    BY <1>0, <1>1, SumBounds
  <2> QED BY <1>0, <2>1 DEF IInv, TypeOK
<1>3. /\ applied["Experts"] \in Nat /\ applied["Scratch"] \in Nat
      /\ applied["ReadBuf"] \in Nat
  BY AppliedRange DEF Reported
<1>4. total' = total - b /\ live' = live - b
  <2>1. total \in 0 .. W - 1 /\ total - b >= 0
    BY <1>0, <1>2, <1>3 DEF IInv, TypeOK, TotalAccountsForAll
  <2>2. total - b \in 0 .. W - 1
    BY <1>0, <2>1, LedgerAssumption
  <2> QED BY <2>2, NoWrap DEF DropTotal
<1>5. TypeOK' /\ Local'
  BY <1>0, <1>2, <1>4, LedgerAssumption
     DEF IInv, TypeOK, Local, DropTotal, Goto, PC, Wrap
<1>6. UNCHANGED <<counted, reporting>>
  BY <1>0 DEF IInv, TypeOK, DropTotal, Goto, counted, reporting
<1>7. OneReport' /\ applied' = applied
  BY <1>6, AppliedFrame DEF IInv, DropTotal
<1>8. Reports' /\ CountedSum'
  BY <1>6 DEF IInv, Reports, CountedSum, DropTotal
<1>9. CommitmentsBounded' /\ TotalAccountsForAll'
  BY <1>0, <1>2, <1>3, <1>4, <1>7, LedgerAssumption
     DEF IInv, TypeOK, CommitmentsBounded, TotalAccountsForAll
<1>10. TakenSum'
  <2>2. \A x \in Threads : taken[x] \in Nat
    BY DEF IInv, TypeOK, taken
  <2>3. taken'[t] = taken[t] + (0 - b) /\ taken'[t] \in Nat
    BY <1>0 DEF IInv, TypeOK, DropTotal, Goto, taken
  <2>4. \A x \in Threads \ {t} : taken'[x] = taken[x]
    BY DEF IInv, TypeOK, DropTotal, Goto, taken
  <2>5. IsSum(taken', Threads, (live - g) + (0 - b))
    <3>1. 0 - b \in Int
      BY <1>0
    <3> HIDE DEF b
    <3> QED BY <3>1, <1>1, <2>2, <2>3, <2>4, SumUpdate
  <2>6. (live - g) + (0 - b) = live' - g
    BY <1>0, <1>2, <1>4
  <2> QED BY <2>5, <2>6 DEF TakenSum
<1> QED BY <1>5, <1>7, <1>8, <1>9, <1>10 DEF IInv

LEMMA DropClassInv ==
  ASSUME IInv, NEW t \in Threads, DropClass(t)
  PROVE  IInv'
<1> DEFINE b == held[t].bytes
           c == held[t].class
<1>0. /\ held[t] # NoHandle /\ b \in Nat /\ c \in Committed /\ c \in Class
      /\ c \notin Reported /\ pc[t] = "drop"
  BY LedgerAssumption DEF IInv, TypeOK, Local, DropClass, Committed, Reported, Class
<1>1. b <= per_class[c] /\ per_class[c] \in Nat
  <2>1. PICK g \in Nat : IsSum(counted[c], Threads, per_class[c] - g)
    BY <1>0 DEF IInv, CountedSum
  <2>2. counted[c][t] = b
    BY <1>0 DEF counted
  <2>3. counted[c][t] <= per_class[c] - g
    BY <1>0, <2>1, <2>2, SumBounds
  <2> QED BY <1>0, <2>2, <2>3 DEF IInv, TypeOK
<1>2. TypeOK' /\ Local'
  BY <1>0, <1>1, NoCallType DEF IInv, TypeOK, Local, DropClass, Return, Goto, PC
<1>3. UNCHANGED <<taken, reporting>>
  BY <1>0 DEF IInv, TypeOK, DropClass, Return, Goto, NoCall, taken, reporting
<1>4. \A d \in Reported : \A s \in reporting[d] : call'[s] = call[s]
  BY <1>0 DEF IInv, TypeOK, DropClass, Return, reporting
<1>5. \A d \in Reported : per_class'[d] = per_class[d]
  BY <1>0 DEF IInv, TypeOK, DropClass, Class
<1>6. OneReport' /\ applied' = applied
  BY <1>3, <1>4, <1>5, AppliedFrame DEF IInv
<1>7. Reports' /\ TakenSum' /\ CommitmentsBounded' /\ TotalAccountsForAll'
  BY <1>3, <1>4, <1>5, <1>6
     DEF IInv, Reports, TakenSum, DropClass, CommitmentsBounded, TotalAccountsForAll
<1>8. CountedSum'
  <2> SUFFICES ASSUME NEW d \in Committed
               PROVE  \E g \in Nat : IsSum(counted'[d], Threads, per_class'[d] - g)
    BY DEF CountedSum
  <2>1. PICK g \in Nat : IsSum(counted[d], Threads, per_class[d] - g)
    BY DEF IInv, CountedSum
  <2>2. CASE c # d
    <3>1. counted'[d] = counted[d]
      BY <2>2, <1>0 DEF IInv, TypeOK, DropClass, Return, Goto, NoCall, counted
    <3>2. per_class'[d] = per_class[d]
      BY <2>2, <1>0 DEF IInv, TypeOK, DropClass, Class
    <3> QED BY <2>1, <3>1, <3>2
  <2>3. CASE c = d
    <3> DEFINE f == counted[d]
               h == counted'[d]
               v == per_class[d] - g
    <3>1. /\ \A x \in Threads : f[x] \in Nat
          /\ h[t] = f[t] + (0 - b) /\ h[t] \in Nat
          /\ \A x \in Threads \ {t} : h[x] = f[x]
      BY <1>0, <2>3 DEF IInv, TypeOK, DropClass, Return, Goto, NoCall, counted
    <3>2. 0 - b \in Int /\ IsSum(f, Threads, v)
      BY <1>0, <2>1
    <3>3. IsSum(h, Threads, v + (0 - b))
      <4> HIDE DEF b, c, f, h, v
      <4> QED BY <3>1, <3>2, SumUpdate
    <3>4. v + (0 - b) = per_class'[d] - g
      BY <1>0, <1>1, <2>3 DEF IInv, TypeOK, DropClass
    <3> QED BY <3>3, <3>4
  <2> QED BY <2>2, <2>3
<1> QED BY <1>2, <1>6, <1>7, <1>8 DEF IInv

LEMMA UsageSwapInv ==
  ASSUME IInv, NEW c \in Serialised, NEW t \in Reporters[c], NEW b \in Amounts,
         UsageSwap(t, c, b)
  PROVE  IInv' /\ applied' = applied
<1>0. /\ t \in Threads /\ b \in 0 .. MaxAmount /\ b \in Nat /\ c \in Reported /\ c \in Class
      /\ c \notin Committed /\ pc[t] = "idle" /\ reporting[c] = {}
      /\ per_class[c] \in 0 .. MaxAmount /\ per_class[c] \in Nat
  BY LedgerAssumption DEF IInv, Reports, UsageSwap, Committed, Reported, Class
<1>1. TypeOK' /\ Local'
  <2>1. [class |-> c, bytes |-> b, val |-> per_class[c], polls |-> 0]
          \in [class : Class, bytes : 0 .. MaxAmount, val : Nat, polls : 0 .. MaxPolls]
    BY <1>0, LedgerAssumption
  <2>2. TypeOK'
    BY <1>0, <2>1 DEF IInv, TypeOK, UsageSwap, Goto, PC
  <2>3. Local'
    BY <1>0 DEF IInv, TypeOK, Local, UsageSwap, Goto
  <2> QED BY <2>2, <2>3
<1>2. UNCHANGED taken
  BY <1>0 DEF IInv, TypeOK, UsageSwap, Goto, taken
<1>3. UNCHANGED counted
  BY <1>0 DEF IInv, TypeOK, UsageSwap, Goto, counted
<1>4. reporting' = [reporting EXCEPT ![c] = {t}]
  <2>1. \A s \in Threads \ {t} : pc'[s] = pc[s] /\ call'[s] = call[s]
    BY DEF IInv, TypeOK, UsageSwap, Goto
  <2>2. pc'[t] = "swap" /\ call'[t].class = c
    BY <1>0 DEF IInv, TypeOK, UsageSwap, Goto
  <2>3. \A d \in Reported : t \notin reporting[d]
    BY <1>0 DEF reporting
  <2>4. ASSUME NEW d \in Reported PROVE reporting'[d] = IF d = c THEN {t} ELSE reporting[d]
    BY <1>0, <2>1, <2>2, <2>3 DEF reporting
  <2> QED BY <2>4 DEF reporting
<1>5. OneReport'
  <2>1. \A d \in Reported : reporting'[d] = IF d = c THEN {t} ELSE reporting[d]
    BY <1>4 DEF reporting
  <2> QED BY <2>1 DEF IInv, OneReport
<1>6. \A d \in Reported \ {c} : /\ reporting'[d] = reporting[d]
                               /\ per_class'[d] = per_class[d]
                               /\ \A s \in reporting[d] : call'[s] = call[s]
  BY <1>0, <1>4 DEF IInv, TypeOK, UsageSwap, Class, reporting
<1>7. reporting'[c] = {t} /\ call'[t].val = per_class[c] /\ call'[t].bytes = b
      /\ per_class'[c] = b
  BY <1>0, <1>4 DEF IInv, TypeOK, UsageSwap, reporting
<1>8. Reports'
  BY <1>0, <1>6, <1>7 DEF IInv, Reports
<1>9. applied' = applied
  <2>1. ASSUME NEW d \in Reported PROVE applied'[d] = applied[d]
    <3>1. CASE d = c
      BY <1>0, <1>5, <1>7, <3>1, AppliedValue, AppliedValueNext DEF IInv
    <3>2. CASE d # c /\ reporting[d] = {}
      BY <1>5, <1>6, <3>2, AppliedValue, AppliedValueNext DEF IInv
    <3>3. CASE d # c /\ reporting[d] # {}
      <4>1. PICK s \in reporting[d] : TRUE
        BY <3>3
      <4> QED BY <1>5, <1>6, <3>3, <4>1, AppliedValue, AppliedValueNext DEF IInv
    <3> QED BY <3>1, <3>2, <3>3
  <2> QED BY <2>1 DEF applied
<1>10. TakenSum' /\ CommitmentsBounded' /\ TotalAccountsForAll'
  BY <1>2, <1>9 DEF IInv, TakenSum, UsageSwap, CommitmentsBounded, TotalAccountsForAll
<1>11. CountedSum'
  <2>1. \A d \in Committed : per_class'[d] = per_class[d]
    BY <1>0 DEF IInv, TypeOK, UsageSwap, Class
  <2> QED BY <1>3, <2>1 DEF IInv, CountedSum
<1> QED BY <1>1, <1>5, <1>8, <1>9, <1>10, <1>11 DEF IInv

LEMMA UsagePeakInv ==
  ASSUME IInv, NEW t \in Threads, UsagePeak(t)
  PROVE  IInv'
<1>0. /\ pc[t] = "swap" /\ pc' = [pc EXCEPT ![t] = "apply"] /\ pc \in [Threads -> PC]
      /\ call[t].class \in Class /\ call[t].bytes \in Nat
      /\ UNCHANGED <<total, per_class, call, held, live>>
  BY LedgerAssumption DEF IInv, TypeOK, UsagePeak, Goto
<1>1. peak_per_class' \in [Class -> Nat]
  BY <1>0 DEF IInv, TypeOK, UsagePeak, note_peak
<1>2. TypeOK' /\ Local'
  BY <1>0, <1>1 DEF IInv, TypeOK, Local, PC
<1>3. \A s \in Threads :
         /\ (pc'[s] = "drop") <=> (pc[s] = "drop")
         /\ (pc'[s] = "peak") <=> (pc[s] = "peak")
         /\ (pc'[s] = "count") <=> (pc[s] = "count")
         /\ (pc'[s] \in {"swap", "apply"}) <=> (pc[s] \in {"swap", "apply"})
  <2> TAKE s \in Threads
  <2>1. CASE s = t
    <3>1. pc'[s] = "apply" /\ pc[s] = "swap"
      BY <1>0, <2>1
    <3> QED BY <3>1
  <2>2. CASE s # t
    <3>1. pc'[s] = pc[s]
      BY <1>0, <2>2
    <3> QED BY <3>1
  <2> QED BY <2>1, <2>2
<1>4. taken' = taken
  BY <1>0, <1>3 DEF taken
<1>5. counted' = counted
  BY <1>0, <1>3 DEF counted
<1>6. reporting' = reporting
  BY <1>0, <1>3 DEF reporting
<1> QED BY <1>0, <1>2, <1>4, <1>5, <1>6, QuietStep

LEMMA UsageApplyInv ==
  ASSUME IInv, NEW t \in Threads, UsageApply(t)
  PROVE  IInv' /\ applied' = [applied EXCEPT ![call[t].class] = call[t].bytes]
<1> DEFINE c == call[t].class
           b == call[t].bytes
           v == call[t].val
<1>0. /\ pc[t] = "apply" /\ c \in Reported /\ t \in reporting[c]
      /\ b \in 0 .. MaxAmount /\ v \in 0 .. MaxAmount /\ MaxAmount \in Nat
      /\ per_class[c] = b
  BY LedgerAssumption DEF IInv, TypeOK, Local, Reports, UsageApply, reporting
<1>1. reporting' = [reporting EXCEPT ![c] = {}]
  <2>1. \A s \in reporting[c] : s = t
    BY <1>0 DEF IInv, OneReport
  <2>2. \A s \in Threads \ {t} : pc'[s] = pc[s] /\ call'[s] = call[s]
    BY DEF IInv, TypeOK, UsageApply, Return, Goto
  <2>3. pc'[t] = "idle"
    BY DEF IInv, TypeOK, UsageApply, Return, Goto
  <2>4. ASSUME NEW d \in Reported PROVE reporting'[d] = IF d = c THEN {} ELSE reporting[d]
    BY <1>0, <2>1, <2>2, <2>3 DEF reporting
  <2> QED BY <2>4 DEF reporting
<1>2. OneReport'
  BY <1>0, <1>1 DEF IInv, OneReport, reporting
<1>3. \A d \in Reported \ {c} : /\ reporting'[d] = reporting[d]
                               /\ \A s \in reporting[d] : call'[s] = call[s]
  BY <1>0, <1>1 DEF IInv, TypeOK, UsageApply, Return, Goto, reporting
<1>4. reporting'[c] = {} /\ per_class' = per_class
  BY <1>0, <1>1 DEF UsageApply, reporting
<1>5. applied[c] = v /\ applied'[c] = b
  BY <1>0, <1>2, <1>4, AppliedValue, AppliedValueNext DEF IInv
<1>6. ASSUME NEW d \in Reported, d # c PROVE applied'[d] = applied[d]
  <2>1. CASE reporting[d] = {}
    BY <1>2, <1>3, <1>4, <1>6, <2>1, AppliedValue, AppliedValueNext DEF IInv
  <2>2. CASE reporting[d] # {}
    <3>1. PICK s \in reporting[d] : TRUE
      BY <2>2
    <3> QED BY <1>2, <1>3, <1>4, <1>6, <3>1, AppliedValue, AppliedValueNext DEF IInv
  <2> QED BY <2>1, <2>2
<1>7. Reports'
  BY <1>3, <1>4 DEF IInv, Reports
<1>8. /\ applied["Experts"] \in 0 .. MaxAmount /\ applied["Scratch"] \in 0 .. MaxAmount
      /\ applied["ReadBuf"] \in 0 .. MaxAmount
      /\ live \in Nat /\ live <= Ceiling /\ Ceiling \in Nat
      /\ total = live + applied["Experts"] + applied["Scratch"] + applied["ReadBuf"]
  BY AppliedRange, LedgerAssumption
     DEF Reported, IInv, TypeOK, CommitmentsBounded, TotalAccountsForAll
<1>9. total' = total + b - v /\ TotalAccountsForAll'
  <2> DEFINE tot == live + applied'["Experts"] + applied'["Scratch"] + applied'["ReadBuf"]
  <2>1. tot = total + b - v /\ tot \in 0 .. W - 1
    <3>1. CASE c = "Experts"
      BY <1>0, <1>5, <1>6, <1>8, <3>1, LedgerAssumption DEF Reported
    <3>2. CASE c = "Scratch"
      BY <1>0, <1>5, <1>6, <1>8, <3>2, LedgerAssumption DEF Reported
    <3>3. CASE c = "ReadBuf"
      BY <1>0, <1>5, <1>6, <1>8, <3>3, LedgerAssumption DEF Reported
    <3> QED BY <1>0, <3>1, <3>2, <3>3 DEF Reported
  <2>2. Wrap(total + b - v) = total + b - v
    BY <2>1, NoWrap
  <2>3. total' = total + b - v
    BY <1>0, <1>8, <2>2 DEF UsageApply
  <2> QED BY <2>1, <2>3 DEF TotalAccountsForAll, UsageApply
<1>10. total' \in 0 .. W - 1
  BY LedgerAssumption DEF UsageApply, Wrap, IInv, TypeOK
<1>11. TypeOK' /\ Local'
  BY <1>10, NoCallType DEF IInv, TypeOK, Local, UsageApply, Return, Goto, PC
<1>12. UNCHANGED <<taken, counted>>
  BY <1>0 DEF IInv, TypeOK, UsageApply, Return, Goto, taken, counted
<1>13. TakenSum' /\ CountedSum' /\ CommitmentsBounded'
  BY <1>12 DEF IInv, TakenSum, CountedSum, UsageApply, CommitmentsBounded
<1>14. applied' = [applied EXCEPT ![c] = b]
  <2>1. \A d \in Reported : applied'[d] = IF d = c THEN b ELSE applied[d]
    BY <1>5, <1>6
  <2>2. /\ applied = [d \in Reported |-> applied[d]]
        /\ applied' = [d \in Reported |-> applied'[d]]
    BY DEF applied
  <2> HIDE DEF b, c
  <2> QED BY <2>1, <2>2
<1> QED BY <1>2, <1>7, <1>9, <1>11, <1>13, <1>14 DEF IInv

-----------------------------------------------------------------------------
LEMMA InitInv == Init => IInv
<1> SUFFICES ASSUME Init PROVE IInv
  OBVIOUS
<1>1. TypeOK /\ Local
  BY NoCallType, LedgerAssumption DEF Init, TypeOK, Local, PC, Class
<1>2. reporting = [c \in Reported |-> {}]
  BY DEF Init, reporting
<1>3. Reports /\ OneReport
  BY <1>2, LedgerAssumption DEF Init, Reports, OneReport, Class
<1>4. TakenSum
  <2>1. \A t \in Threads : taken[t] = 0
    BY DEF Init, taken
  <2>2. IsSum(taken, Threads, 0)
    BY <2>1, SumZero
  <2> QED BY <2>2 DEF Init, TakenSum
<1>5. CountedSum
  <2> SUFFICES ASSUME NEW c \in Committed
               PROVE  \E g \in Nat : IsSum(counted[c], Threads, per_class[c] - g)
    BY DEF CountedSum
  <2> DEFINE f == counted[c]
  <2>1. \A t \in Threads : f[t] = 0
    BY DEF Init, counted
  <2>2. IsSum(f, Threads, 0)
    <3> HIDE DEF f
    <3> QED BY <2>1, SumZero
  <2>3. per_class[c] - 0 = 0
    BY DEF Init, Class
  <2> QED BY <2>2, <2>3
<1>6. CommitmentsBounded
  BY LedgerAssumption DEF Init, CommitmentsBounded
<1>7. TotalAccountsForAll
  <2>1. \A c \in Reported : applied[c] = 0
    BY <1>2 DEF Init, applied, Class
  <2> QED BY <2>1 DEF Init, TotalAccountsForAll, Reported
<1> QED BY <1>1, <1>3, <1>4, <1>5, <1>6, <1>7 DEF IInv

LEMMA NextInv ==
  ASSUME Serialised = Reported, IInv, [Next]_vars
  PROVE  IInv'
<1>1. CASE UNCHANGED vars
  <2>1. UNCHANGED <<taken, counted, reporting>>
    BY <1>1 DEF vars, taken, counted, reporting
  <2>2. TypeOK' /\ Local'
    BY <1>1 DEF vars, IInv, TypeOK, Local
  <2> QED BY <1>1, <2>1, <2>2, QuietStep DEF vars
<1>2. CASE Next
  <2>1. ASSUME NEW c \in Committed, NEW t \in Committers[c],
               \/ CommitZero(t, c)
               \/ \E b \in Amounts, n \in 0 .. MaxPolls : Commit(t, c, b, n)
        PROVE  IInv'
    BY <2>1, CommitZeroInv, CommitInv
  <2>2. ASSUME NEW c \in Reported, NEW t \in Reporters[c], NEW b \in Amounts,
               UsageSwap(t, c, b)
        PROVE  IInv'
    BY <2>2, UsageSwapInv
  <2>3. ASSUME NEW t \in Threads, CommitStep(t) PROVE IInv'
    BY <2>3, CommitTakeInv, CommitRetryInv, CommitRefuseInv, CommitPollInv,
       CommitCountInv, CommitPeakInv DEF CommitStep
  <2>4. ASSUME NEW t \in Threads, HandleStep(t) PROVE IInv'
    BY <2>4, HoldForeverInv, DropTotalInv, DropClassInv DEF HandleStep
  <2>5. ASSUME NEW t \in Threads, UsageStep(t) PROVE IInv'
    BY <2>5, UsagePeakInv, UsageApplyInv DEF UsageStep
  <2> QED BY <1>2, <2>1, <2>2, <2>3, <2>4, <2>5 DEF Next
<1> QED BY <1>1, <1>2

\* With serialised reports the inductive invariant holds in every reachable
\* state of the ledger.
THEOREM LedgerInvariant ==
  ASSUME Serialised = Reported
  PROVE  Spec => []IInv
<1>1. Init => IInv
  BY InitInv
<1>2. IInv /\ [Next]_vars => IInv'
  BY NextInv
<1> QED BY <1>1, <1>2, PTL DEF Spec

\* No counter of the ledger underflows or wraps: every fetch_sub of
\* Commitment::drop and set_usage takes away what was added before.
THEOREM LedgerTypes ==
  ASSUME Serialised = Reported
  PROVE  Spec => []TypeOK
<1>1. IInv => TypeOK
  BY DEF IInv
<1> QED BY <1>1, LedgerInvariant, PTL

\* The live commitments never exceed the ceiling, for any number of threads
\* committing, dropping and reporting at once.
THEOREM CommitmentsNeverExceedCeiling ==
  ASSUME Serialised = Reported
  PROVE  Spec => []CommitmentsBounded
<1>1. IInv => CommitmentsBounded
  BY DEF IInv
<1> QED BY <1>1, LedgerInvariant, PTL

\* `total` is at every instant the live commitments plus the applied reports.
THEOREM TotalIsExact ==
  ASSUME Serialised = Reported
  PROVE  Spec => []TotalAccountsForAll
<1>1. IInv => TotalAccountsForAll
  BY DEF IInv
<1> QED BY <1>1, LedgerInvariant, PTL

-----------------------------------------------------------------------------
(* Refinement: what the atomic ledger sees of each step.                   *)

\* The steps that are invisible to the atomic ledger.
Invisible(t) == \/ CommitRetry(t) \/ CommitRefuse(t) \/ CommitPoll(t)
                \/ CommitCount(t) \/ CommitPeak(t) \/ HoldForever(t)
                \/ DropClass(t) \/ UsagePeak(t)

\* An invisible step starts and ends no report and reports nothing new.
LEMMA InvisibleStep ==
  ASSUME IInv, NEW t \in Threads, Invisible(t)
  PROVE  live' = live /\ applied' = applied
<1>0. live' = live
  BY DEF Invisible, CommitRetry, CommitRefuse, CommitPoll, CommitCount, CommitPeak,
     HoldForever, DropClass, UsagePeak
<1>1. CASE UsagePeak(t)
  <2>1. \A s \in Threads :
           (pc'[s] \in {"swap", "apply"}) <=> (pc[s] \in {"swap", "apply"})
    <3> TAKE s \in Threads
    <3>1. CASE s = t
      BY <1>1, <3>1 DEF IInv, TypeOK, UsagePeak, Goto
    <3>2. CASE s # t
      BY <1>1, <3>2 DEF IInv, TypeOK, UsagePeak, Goto
    <3> QED BY <3>1, <3>2
  <2>2. reporting' = reporting
    BY <1>1, <2>1 DEF UsagePeak, reporting
  <2> QED BY <1>0, <1>1, <2>2, AppliedFrame DEF IInv, UsagePeak
<1>2. CASE ~UsagePeak(t)
  <2>1. pc[t] \notin {"swap", "apply"} /\ pc'[t] \notin {"swap", "apply"}
    BY <1>2 DEF IInv, TypeOK, Invisible, CommitRetry, CommitRefuse, CommitPoll,
       CommitCount, CommitPeak, HoldForever, DropClass, Return, Goto
  <2>2. \A s \in Threads \ {t} : pc'[s] = pc[s] /\ call'[s] = call[s]
    BY <1>2 DEF IInv, TypeOK, Invisible, CommitRetry, CommitRefuse, CommitPoll,
       CommitCount, CommitPeak, HoldForever, DropClass, Return, Goto
  <2>3. reporting' = reporting
    BY <2>1, <2>2 DEF reporting
  <2>4. \A c \in Reported : \A s \in reporting[c] : call'[s] = call[s]
    BY <2>1, <2>2 DEF reporting
  <2>5. \A c \in Reported : per_class'[c] = per_class[c]
    <3>1. CASE CommitCount(t)
      BY <3>1 DEF IInv, TypeOK, Local, CommitCount, Class, Committed, Reported
    <3>2. CASE DropClass(t)
      <4>1. held[t].class \in Committed
        BY <3>2 DEF IInv, TypeOK, Local, DropClass
      <4> QED BY <3>2, <4>1 DEF IInv, TypeOK, DropClass, Class, Committed, Reported
    <3>3. CASE ~CommitCount(t) /\ ~DropClass(t)
      BY <1>2, <3>3 DEF Invisible, CommitRetry, CommitRefuse, CommitPoll, CommitPeak,
         HoldForever
    <3> QED BY <3>1, <3>2, <3>3
  <2> QED BY <1>0, <2>3, <2>4, <2>5, AppliedFrame DEF IInv
<1> QED BY <1>1, <1>2

\* The compare-exchange admits: it fits with everything booked and applied.
LEMMA TakeAdmits ==
  ASSUME IInv, NEW t \in Threads, CommitTake(t)
  PROVE  \E b \in 0 .. MaxAmount : Abstract!Admit(b)
<1> DEFINE b == call[t].bytes
<1>1. /\ b \in 0 .. MaxAmount /\ total + b <= Ceiling /\ total \in Nat
  BY LedgerAssumption DEF IInv, TypeOK, Local, CommitTake, Fits, SatSub
<1>2. reporting' = reporting
  BY DEF IInv, TypeOK, CommitTake, Goto, reporting
<1>3. applied' = applied
  BY <1>2, AppliedFrame DEF IInv, CommitTake
<1>4. live + (applied["Experts"] + applied["Scratch"] + applied["ReadBuf"]) + b <= Ceiling
  <2>1. /\ applied["Experts"] \in Nat /\ applied["Scratch"] \in Nat
        /\ applied["ReadBuf"] \in Nat /\ live \in Nat /\ b \in Nat
    BY <1>1, AppliedRange, LedgerAssumption DEF Reported, IInv, TypeOK
  <2> QED BY <1>1, <2>1 DEF IInv, TotalAccountsForAll
<1>5. Abstract!Admit(b)
  BY <1>3, <1>4 DEF Abstract!Admit, Abstract!Used, CommitTake
<1> QED BY <1>1, <1>5

\* The fetch_sub of drop releases bytes that are booked.
LEMMA DropReleases ==
  ASSUME IInv, NEW t \in Threads, DropTotal(t)
  PROVE  \E b \in 0 .. MaxAmount : Abstract!Release(b)
<1> DEFINE b == held[t].bytes
<1>1. b \in 0 .. MaxAmount /\ b \in Int /\ taken[t] = b
  BY LedgerAssumption DEF IInv, TypeOK, DropTotal, taken
<1>2. live >= b
  <2>1. PICK g \in Nat : IsSum(taken, Threads, live - g)
    BY DEF IInv, TakenSum
  <2>2. taken[t] <= live - g
    BY <1>1, <2>1, SumBounds
  <2> QED BY <1>1, <2>2 DEF IInv, TypeOK
<1>3. reporting' = reporting
  BY DEF IInv, TypeOK, DropTotal, Goto, reporting
<1>4. applied' = applied
  BY <1>3, AppliedFrame DEF IInv, DropTotal
<1>5. Abstract!Release(b)
  BY <1>2, <1>4 DEF Abstract!Release, DropTotal
<1> QED BY <1>1, <1>5

LEMMA StepRefines ==
  ASSUME Serialised = Reported, IInv, [Next]_vars
  PROVE  [Abstract!Next]_Abstract!specVars
<1> USE DEF Abstract!specVars
<1>1. CASE UNCHANGED vars
  <2>1. reporting' = reporting
    BY <1>1 DEF vars, reporting
  <2> QED BY <1>1, <2>1, AppliedFrame DEF vars, IInv
<1>2. CASE Next
  <2>1. ASSUME NEW c \in Committed, NEW t \in Committers[c],
               \/ CommitZero(t, c)
               \/ \E b \in Amounts, n \in 0 .. MaxPolls : Commit(t, c, b, n)
        PROVE  UNCHANGED <<live, applied>>
    <3>0. t \in Threads
      BY LedgerAssumption
    <3>1. reporting' = reporting
      BY <2>1, <3>0 DEF IInv, TypeOK, CommitZero, Commit, Goto, reporting, Committed, Reported
    <3>2. \A d \in Reported : \A s \in reporting[d] : call'[s] = call[s]
      BY <2>1, <3>0 DEF IInv, TypeOK, CommitZero, Commit, reporting
    <3> QED BY <2>1, <3>1, <3>2, AppliedFrame DEF IInv, CommitZero, Commit
  <2>2. ASSUME NEW c \in Reported, NEW t \in Reporters[c], NEW b \in Amounts,
               UsageSwap(t, c, b)
        PROVE  UNCHANGED <<live, applied>>
    BY <2>2, UsageSwapInv DEF UsageSwap
  <2>3. ASSUME NEW t \in Threads, UsageApply(t)
        PROVE  Abstract!Next
    <3>1. call[t].class \in Reported /\ call[t].bytes \in 0 .. MaxAmount
      BY <2>3 DEF IInv, TypeOK, Local, UsageApply
    <3>2. Abstract!Report(call[t].class, call[t].bytes)
      BY <2>3, UsageApplyInv DEF Abstract!Report, UsageApply
    <3> QED BY <3>1, <3>2 DEF Abstract!Next, Abstract!Reported, Reported
  <2>4. ASSUME NEW t \in Threads, CommitTake(t) PROVE Abstract!Next
    BY <2>4, TakeAdmits DEF Abstract!Next
  <2>5. ASSUME NEW t \in Threads, DropTotal(t) PROVE Abstract!Next
    BY <2>5, DropReleases DEF Abstract!Next
  <2>6. ASSUME NEW t \in Threads, Invisible(t) PROVE UNCHANGED <<live, applied>>
    BY <2>6, InvisibleStep
  <2>7. ASSUME NEW t \in Threads, CommitStep(t) \/ HandleStep(t) \/ UsageStep(t)
        PROVE  Invisible(t) \/ CommitTake(t) \/ DropTotal(t) \/ UsageApply(t)
    BY <2>7 DEF CommitStep, HandleStep, UsageStep, Invisible
  <2> QED BY <1>2, <2>1, <2>2, <2>3, <2>4, <2>5, <2>6, <2>7 DEF Next
<1> QED BY <1>1, <1>2

\* The lock-free ledger implements the atomic one.
THEOREM LedgerRefinement ==
  ASSUME Serialised = Reported
  PROVE  Spec => RefinesLedger
<1>1. Init => Abstract!Init
  <2> SUFFICES ASSUME Init PROVE Abstract!Init
    OBVIOUS
  <2>1. \A c \in Reported : reporting[c] = {}
    BY DEF Init, reporting
  <2>2. applied = [c \in Reported |-> 0]
    BY <2>1 DEF Init, applied, Class
  <2> QED BY <2>2 DEF Init, Abstract!Init, Abstract!Reported, Reported
<1>2. IInv /\ [Next]_vars => [Abstract!Next]_Abstract!specVars
  BY StepRefines
<1> QED BY <1>1, <1>2, LedgerInvariant, PTL DEF Spec, RefinesLedger, Abstract!Spec
=============================================================================
