--------------------------- MODULE ExchangeProofs ---------------------------
(***************************************************************************)
(* For every finite set of peers, expert map, head assignment and route,   *)
(* and whatever crashes, restarts, broken connections and retries          *)
(* interleave: the sum a call returns counts every piece of its work once, *)
(* only peers with the driver's map are asked, round trips are serialised  *)
(* by the mutex of `conns`, and a retry never leaves a second request or   *)
(* answer on a connection.                                                 *)
(*                                                                         *)
(* None of this is inductive alone.  The argument is that an open          *)
(* connection only exists to a worker that runs and agrees (Open and Sever *)
(* keep that), that a message only exists while its thread awaits it on an *)
(* open connection and is then the one request of this call or its answer  *)
(* (Wire), and that a thread which is done has its whole share, or nothing *)
(* because the owner could not load it (Shares).                           *)
(***************************************************************************)
EXTENDS ClusterExchange, FiniteSetTheorems, TLAPS

\* What the current call asks of node n, and the messages about it.
mine(n) == Share(call.kind, call.work, n)
Request(n) == [id |-> call.id, kind |-> call.kind, pieces |-> mine(n)]
Zeros(n)   == [id |-> call.id, kind |-> call.kind, pieces |-> {}]

Thread_pc == {"off", "want", "connect", "send", "await", "ok", "err"}
Roundtrip == {"connect", "send", "await"}

\* TypeOK but for the queues, whose contents Wire gives.
Types ==
  /\ phase \in {"verify", "ready", "busy", "exit"}
  /\ call \in [id : 0 .. MaxCalls, kind : {"moe", "attn"}, work : SUBSET Pieces]
  /\ local \in {"todo", "ok", "err"} /\ outcome \in {"none", "ok", "err"}
  /\ ex \in [Peers -> [pc : Thread_pc, attempt : {0, 1}]]
  /\ lock \in Peers \cup {Nobody}
  /\ conn \in [Peers -> {"none", "open", "dead"}]
  /\ DOMAIN reqs = Peers /\ DOMAIN resps = Peers
  /\ reqs = [n \in Peers |-> reqs[n]] /\ resps = [n \in Peers |-> resps[n]]
  /\ part \in [Nodes -> SUBSET Pieces]
  /\ up \in [Peers -> BOOLEAN] /\ map \in [Peers -> Maps] /\ lost \subseteq Pieces

\* A call's pieces are of its kind, and every one has an owner; between calls
\* no thread runs.
Calls ==
  /\ call.work \subseteq (IF call.kind = "moe" THEN Experts ELSE Heads)
  /\ phase = "busy" => call.id > 0 /\ outcome = "none"
  /\ phase # "busy" => \A n \in Peers : ex[n].pc = "off"

\* Exactly the holder of the mutex is inside roundtrip.
OneRoundTrip == \A n \in Peers : ex[n].pc \in Roundtrip <=> lock = n

WireTo(n) ==
  /\ conn[n] = "open" => PeerAccepts(n)
  /\ ex[n].pc # "await" \/ conn[n] # "open" => reqs[n] = <<>> /\ resps[n] = <<>>
  /\ reqs[n] = <<>> \/ (reqs[n] = <<Request(n)>> /\ resps[n] = <<>>)
  /\ \/ resps[n] = <<>>
     \/ resps[n] = <<Request(n)>>
     \/ resps[n] = <<Zeros(n)>> /\ mine(n) \subseteq lost

Wire == \A n \in Peers : WireTo(n)

\* Node n's partial is its share, or zeros for a share that was lost.
Exact(n) == part[n] = mine(n) \/ (part[n] = {} /\ mine(n) \subseteq lost)

Shares ==
  /\ phase = "busy" =>
       /\ local = "ok" => part[Driver] = mine(Driver)
       /\ \A n \in Peers : /\ ex[n].pc = "ok" => Exact(n)
                           /\ ex[n].pc = "off" => mine(n) = {} /\ part[n] = {}
  /\ outcome = "ok" => part[Driver] = mine(Driver) /\ \A n \in Peers : Exact(n)

IInv == Types /\ Calls /\ OneRoundTrip /\ Wire /\ Shares

\* A retry leaves no second request or answer on a connection.
NoDuplicates == \A n \in Peers : Len(reqs[n]) + Len(resps[n]) <= 1

-----------------------------------------------------------------------------
(* The operators.                                                          *)

\* A queue of one message.
LEMMA OneMessage ==
  ASSUME NEW m
  PROVE  /\ Append(<<>>, m) = <<m>> /\ Head(<<m>>) = m /\ Tail(<<m>>) = <<>>
         /\ <<m>> # <<>> /\ Len(<<m>>) = 1 /\ Len(<<>>) = 0
OBVIOUS

\* The driver is no peer and nobody is no node.
LEMMA Ranks == Driver \notin Peers /\ Nobody \notin Peers
BY ExchangeAssumption DEF Driver, Nobody

\* Every piece of a call's work has one owner, the node whose share holds it.
LEMMA OwnerIsUnique ==
  ASSUME Types, Calls, NEW p \in call.work
  PROVE  \E o \in Nodes : \A n \in Nodes : p \in mine(n) <=> n = o
<1>1. CASE call.kind = "moe"
  <2>1. p \in Experts /\ DriverMap[p] \in Nodes
    BY <1>1, ExchangeAssumption DEF Calls
  <2> QED
    BY <1>1, <2>1 DEF mine, Share
<1>2. CASE call.kind # "moe"
  <2>1. p \in Heads /\ HeadMap[p] \in Nodes
    BY <1>2, ExchangeAssumption DEF Calls
  <2> QED
    BY <1>2, <2>1 DEF mine, Share
<1> QED
  BY <1>1, <1>2

\* A share is part of the work.
LEMMA ShareOfWork == ASSUME NEW n PROVE mine(n) \subseteq call.work
BY DEF mine, Share

\* A worker with the driver's map owns every expert of its share, so its
\* handler never meets an expert it cannot serve.
LEMMA AgreeingPeerOwnsShare ==
  ASSUME Types, Calls, NEW n \in Peers, PeerAccepts(n), call.kind = "moe",
         NEW p \in mine(n)
  PROVE  map[n][p] = n
BY DEF PeerAccepts, mine, Share

-----------------------------------------------------------------------------
(* One lemma per step.                                                     *)

\* What a step leaves of the wire to a peer it does not touch.
LEMMA WireKept ==
  ASSUME NEW n \in Peers, WireTo(n), UNCHANGED <<call, lost, conn[n], reqs[n], resps[n]>>,
         UNCHANGED <<up[n], map[n]>>, UNCHANGED ex[n].pc
  PROVE  WireTo(n)'
BY DEF WireTo, PeerAccepts, Request, Zeros, mine

\* A fresh connection: it is to a worker that agrees, and it is empty.
LEMMA OpenStep ==
  ASSUME IInv, NEW n \in Peers, Open(n), UNCHANGED <<call, lost, up, map>>,
         \A m \in Peers : m # n => UNCHANGED ex[m].pc
  PROVE  Wire'
<1> SUFFICES ASSUME NEW m \in Peers PROVE WireTo(m)'
  BY DEF Wire
<1>1. CASE m = n
  BY <1>1 DEF IInv, Types, Open, WireTo, PeerAccepts
<1>2. CASE m # n
  <2>1. UNCHANGED <<conn[m], reqs[m], resps[m]>>
    BY <1>2 DEF Open, IInv, Types
  <2> QED
    BY <1>2, <2>1, WireKept DEF IInv, Wire
<1> QED
  BY <1>1, <1>2

LEMMA VerifyPeerStep == ASSUME IInv, NEW n \in Peers, VerifyPeer(n) PROVE IInv'
<1> USE DEF VerifyPeer, IInv
<1>1. Types'
  BY DEF Types, Open, net
<1>2. Calls'
  BY DEF Calls
<1>3. OneRoundTrip'
  BY DEF OneRoundTrip
<1>4. Wire'
  <2>1. CASE Open(n)
    BY <2>1, OpenStep
  <2>2. CASE UNCHANGED net
    BY <2>2, WireKept DEF Wire, net
  <2> QED
    BY <2>1, <2>2
<1>5. Shares'
  BY DEF Shares, Exact, mine
<1> QED
  BY <1>1, <1>2, <1>3, <1>4, <1>5

LEMMA VerifiedStep == ASSUME IInv, Verified PROVE IInv'
<1> USE DEF Verified, IInv, net, workers
<1>1. Types'
  BY DEF Types
<1>2. Calls' /\ OneRoundTrip'
  BY DEF Calls, OneRoundTrip
<1>3. Wire'
  BY WireKept DEF Wire
<1>4. Shares'
  BY DEF Shares, Exact, mine
<1> QED
  BY <1>1, <1>2, <1>3, <1>4

\* A call starts with empty queues, because no thread was waiting.
LEMMA StartCallStep ==
  ASSUME IInv, NEW kind \in {"moe", "attn"},
         NEW work \in SUBSET (IF kind = "moe" THEN Experts ELSE Heads),
         StartCall(kind, work)
  PROVE  IInv'
<1> USE DEF StartCall, IInv, net, workers
<1>1. Types'
  BY ExchangeAssumption DEF Types, Off, Pieces, Thread_pc
<1>2. Calls'
  BY DEF Calls, Types
<1>3. OneRoundTrip'
  BY DEF OneRoundTrip, Calls, Off, Roundtrip
<1>4. \A n \in Peers : reqs[n] = <<>> /\ resps[n] = <<>>
  BY DEF Calls, Wire, WireTo
<1>5. Wire'
  BY <1>4 DEF Wire, WireTo, PeerAccepts
<1>6. Shares'
  <2>1. ASSUME NEW n \in Peers, ex'[n].pc = "off" PROVE mine(n)' = {}
    BY <2>1 DEF mine, Off
  <2>2. \A n \in Peers : ex'[n].pc # "ok" /\ part'[n] = {}
    BY DEF Off, Nodes
  <2> QED
    BY <2>1, <2>2 DEF Shares
<1> QED
  BY <1>1, <1>2, <1>3, <1>5, <1>6

LEMMA LocalComputeStep == ASSUME IInv, LocalCompute PROVE IInv'
<1> USE DEF LocalCompute, IInv, net, workers
<1>0. mine(Driver) \subseteq Pieces /\ Driver \in Nodes
  BY ShareOfWork DEF Types, Nodes
<1>1. Types'
  BY <1>0 DEF Types, mine
<1>2. Calls' /\ OneRoundTrip'
  BY DEF Calls, OneRoundTrip
<1>3. Wire'
  BY WireKept DEF Wire
<1>4. Shares'
  <2>1. \A n \in Peers : part'[n] = part[n] /\ mine(n)' = mine(n)
    BY Ranks DEF mine, Types, Nodes
  <2>2. local' = "ok" => part'[Driver] = mine(Driver)'
    BY <1>0 DEF mine, Types
  <2>3. outcome' # "ok"
    BY DEF Calls
  <2> QED
    BY <2>1, <2>2, <2>3 DEF Shares, Exact
<1> QED
  BY <1>1, <1>2, <1>3, <1>4

\* Every thread has been joined: nobody awaits an answer, and each partial is
\* exact unless the call fails.
LEMMA FoldStep == ASSUME IInv, Fold PROVE IInv'
<1> USE DEF Fold, IInv, net, workers
<1>1. Types'
  BY DEF Types, Off, Thread_pc
<1>2. Calls'
  BY DEF Calls, Off
<1>3. OneRoundTrip'
  BY DEF OneRoundTrip, Joined, Off, Roundtrip, Types
<1>4. Wire'
  BY DEF Wire, WireTo, Joined, Off, PeerAccepts, Request, Zeros, mine
<1>5. Shares'
  BY DEF Shares, Exact, Failed, Joined, mine, Types, Off
<1> QED
  BY <1>1, <1>2, <1>3, <1>4, <1>5

-----------------------------------------------------------------------------
(* The exchange threads.                                                   *)

\* A thread of the current call runs only while the call does.
LEMMA ThreadBusy ==
  ASSUME IInv, NEW n \in Peers, ex[n].pc # "off"
  PROVE  phase = "busy" /\ outcome = "none" /\ call.id > 0
BY DEF IInv, Calls, Types

\* A step of one thread that does not deliver: the thread moves to a stage in
\* which it is not done, or fails.
LEMMA SharesKept ==
  ASSUME IInv, NEW n \in Peers, ex[n].pc # "off",
         UNCHANGED <<phase, call, local, outcome, part, lost>>,
         \A m \in Peers : m # n => UNCHANGED ex[m].pc,
         ex'[n].pc \notin {"off", "ok"}
  PROVE  Shares'
<1>1. phase = "busy" /\ outcome = "none"
  BY ThreadBusy
<1>2. \A m : mine(m)' = mine(m)
  BY DEF mine
<1> QED
  BY <1>1, <1>2 DEF IInv, Shares, Exact

LEMMA AcquireStep == ASSUME IInv, NEW n \in Peers, Acquire(n) PROVE IInv'
<1> USE DEF Acquire, driver, net, workers
<1>0. /\ \A m \in Peers : m # n => UNCHANGED ex[m].pc
      /\ ex'[n].pc \in {"connect", "send"} /\ ex'[n].attempt \in {0, 1}
  BY DEF IInv, Types
<1>1. Types'
  BY DEF IInv, Types, Thread_pc
<1>2. Calls'
  BY <1>0, ThreadBusy DEF IInv, Calls
<1>3. OneRoundTrip'
  BY <1>0, Ranks DEF IInv, OneRoundTrip, Roundtrip
<1>4. Wire'
  BY <1>0 DEF IInv, Wire, WireTo, PeerAccepts, Request, Zeros, mine
<1>5. Shares'
  BY <1>0, SharesKept
<1> QED
  BY <1>1, <1>2, <1>3, <1>4, <1>5 DEF IInv

\* roundtrip returns an error, or starts its second attempt.
LEMMA TryAgainStep ==
  ASSUME IInv, NEW n \in Peers, ex[n].pc \in Roundtrip, TryAgain(n) \/ Done(n, "err"),
         UNCHANGED <<driver, workers, part, lost>>
  PROVE  /\ ex' \in [Peers -> [pc : Thread_pc, attempt : {0, 1}]]
         /\ lock' \in Peers \cup {Nobody}
         /\ Calls' /\ OneRoundTrip' /\ Shares'
         /\ \A m \in Peers : m # n => UNCHANGED ex[m].pc
         /\ ex'[n].pc \in {"err", "connect"}
<1> USE DEF TryAgain, Done, driver, workers
<1>0. /\ \A m \in Peers : m # n => UNCHANGED ex[m].pc
      /\ ex'[n].pc \in {"err", "connect"}
  BY DEF IInv, Types
<1>1. ex' \in [Peers -> [pc : Thread_pc, attempt : {0, 1}]] /\ lock' \in Peers \cup {Nobody}
  BY DEF IInv, Types, Thread_pc
<1>2. Calls'
  BY <1>0, ThreadBusy DEF IInv, Calls, Roundtrip
<1>3. OneRoundTrip'
  <2>1. lock = n
    BY DEF IInv, OneRoundTrip
  <2>2. \/ ex'[n].pc = "err" /\ lock' = Nobody
        \/ ex'[n].pc = "connect" /\ lock' = lock
    BY DEF IInv, Types
  <2> QED
    BY <1>0, <2>1, <2>2, Ranks DEF IInv, OneRoundTrip, Roundtrip
<1>4. Shares'
  BY <1>0, SharesKept DEF Roundtrip
<1> QED
  BY <1>0, <1>1, <1>2, <1>3, <1>4

LEMMA ConnectStep == ASSUME IInv, NEW n \in Peers, Connect(n) PROVE IInv'
<1> USE DEF Connect, driver, workers
<1>0. /\ \A m \in Peers : m # n => UNCHANGED ex[m].pc
      /\ ex'[n].pc = "send" /\ ex'[n].attempt \in {0, 1}
  BY DEF IInv, Types
<1>1. Types'
  BY DEF IInv, Types, Thread_pc, Open
<1>2. Calls'
  BY <1>0, ThreadBusy DEF IInv, Calls
<1>3. OneRoundTrip'
  BY <1>0 DEF IInv, OneRoundTrip, Roundtrip
<1>4. Wire'
  BY <1>0, OpenStep
<1>5. Shares'
  BY <1>0, SharesKept
<1> QED
  BY <1>1, <1>2, <1>3, <1>4, <1>5 DEF IInv

LEMMA ConnectFailsStep ==
  ASSUME IInv, NEW n \in Peers, ConnectRefused(n) \/ ConnectFails(n) PROVE IInv'
<1> USE DEF ConnectRefused, ConnectFails, net, Roundtrip
<1>0. /\ ex' \in [Peers -> [pc : Thread_pc, attempt : {0, 1}]]
      /\ lock' \in Peers \cup {Nobody}
      /\ Calls' /\ OneRoundTrip' /\ Shares'
      /\ \A m \in Peers : m # n => UNCHANGED ex[m].pc
      /\ ex'[n].pc \in {"err", "connect"}
  BY TryAgainStep
<1>1. Types'
  BY <1>0 DEF IInv, Types, driver, workers
<1>2. Wire'
  BY <1>0 DEF IInv, Wire, WireTo, PeerAccepts, Request, Zeros, mine, driver, workers
<1> QED
  BY <1>0, <1>1, <1>2 DEF IInv

\* The thread held the connection alone, so its request is the only message.
LEMMA SendStep == ASSUME IInv, NEW n \in Peers, Send(n) PROVE IInv'
<1> USE DEF Send, driver, workers
<1>0. /\ \A m \in Peers : m # n => UNCHANGED ex[m].pc
      /\ ex'[n].pc = "await" /\ ex'[n].attempt \in {0, 1}
  BY DEF IInv, Types
<1>1. Types'
  BY DEF IInv, Types, Thread_pc
<1>2. Calls'
  BY <1>0, ThreadBusy DEF IInv, Calls
<1>3. OneRoundTrip'
  BY <1>0 DEF IInv, OneRoundTrip, Roundtrip
<1>4. Wire'
  <2> SUFFICES ASSUME NEW m \in Peers PROVE WireTo(m)'
    BY DEF Wire
  <2>1. CASE m = n
    <3>1. reqs[n] = <<>> /\ resps[n] = <<>>
      BY DEF IInv, Wire, WireTo
    <3>2. reqs'[n] = Append(reqs[n], Request(n)) /\ resps'[n] = resps[n] /\ conn'[n] = conn[n]
      BY DEF IInv, Types, Request, mine
    <3>3. reqs'[n] = <<Request(n)>> /\ Request(n)' = Request(n)
      BY <3>1, <3>2, OneMessage DEF Request, mine
    <3> QED
      BY <1>0, <2>1, <3>1, <3>2, <3>3 DEF IInv, Wire, WireTo, PeerAccepts
  <2>2. CASE m # n
    BY <1>0, <2>2, WireKept DEF IInv, Wire, Types
  <2> QED
    BY <2>1, <2>2
<1>5. Shares'
  BY <1>0, SharesKept
<1> QED
  BY <1>1, <1>2, <1>3, <1>4, <1>5 DEF IInv

\* The connection is dead, and its queues went with it.
LEMMA BrokenStep == ASSUME IInv, NEW n \in Peers, Broken(n) PROVE IInv'
<1> USE DEF Broken, Roundtrip
<1>0. /\ ex' \in [Peers -> [pc : Thread_pc, attempt : {0, 1}]]
      /\ lock' \in Peers \cup {Nobody}
      /\ Calls' /\ OneRoundTrip' /\ Shares'
      /\ \A m \in Peers : m # n => UNCHANGED ex[m].pc
      /\ ex'[n].pc \in {"err", "connect"}
  BY TryAgainStep
<1>1. Types'
  BY <1>0 DEF IInv, Types, driver, workers
<1>2. Wire'
  <2> SUFFICES ASSUME NEW m \in Peers PROVE WireTo(m)'
    BY DEF Wire
  <2>1. CASE m = n
    BY <1>0, <2>1 DEF IInv, Types, Wire, WireTo
  <2>2. CASE m # n
    BY <1>0, <2>2, WireKept DEF IInv, Wire, Types, driver, workers
  <2> QED
    BY <2>1, <2>2
<1> QED
  BY <1>0, <1>1, <1>2 DEF IInv

\* The answer is to this call: its partial is the whole share, or zeros for a
\* share whose owner failed.
LEMMA RecvStep == ASSUME IInv, NEW n \in Peers, Recv(n) PROVE IInv'
<1> USE DEF Recv, driver, workers, Done
<1>0. reqs[n] = <<>> /\ n \in Nodes /\ lock = n
  BY DEF IInv, Wire, WireTo, Nodes, OneRoundTrip, Roundtrip
<1>1. PICK r : /\ resps[n] = <<r>> /\ r.kind = call.kind
               /\ r.pieces = mine(n) \/ (r.pieces = {} /\ mine(n) \subseteq lost)
  <2>1. \/ resps[n] = <<Request(n)>>
        \/ resps[n] = <<Zeros(n)>> /\ mine(n) \subseteq lost
    BY DEF IInv, Wire, WireTo
  <2>2. Request(n).kind = call.kind /\ Request(n).pieces = mine(n)
    BY DEF Request
  <2>3. Zeros(n).kind = call.kind /\ Zeros(n).pieces = {}
    BY DEF Zeros
  <2> QED
    BY <2>1, <2>2, <2>3
<1>2. /\ ex' = [ex EXCEPT ![n].pc = "ok"] /\ lock' = Nobody
      /\ part' = [part EXCEPT ![n] = r.pieces]
      /\ resps' = [resps EXCEPT ![n] = <<>>]
  BY <1>1, OneMessage
<1>3. /\ \A m \in Peers : m # n => UNCHANGED <<ex[m].pc, part[m], resps[m]>>
      /\ ex'[n].pc = "ok" /\ part'[n] = r.pieces /\ resps'[n] = <<>>
      /\ UNCHANGED part[Driver]
  BY <1>0, <1>2, Ranks DEF IInv, Types, Nodes
<1>4. \A m : mine(m)' = mine(m)
  BY DEF mine
<1>5. Types'
  <2>1. r.pieces \subseteq Pieces
    BY <1>1, ShareOfWork DEF IInv, Types
  <2>2. part' \in [Nodes -> SUBSET Pieces]
    BY <1>2, <2>1 DEF IInv, Types
  <2>3. ex' \in [Peers -> [pc : Thread_pc, attempt : {0, 1}]]
    BY <1>2 DEF IInv, Types, Thread_pc
  <2> QED
    BY <1>2, <2>2, <2>3 DEF IInv, Types
<1>6. Calls'
  BY <1>3, ThreadBusy DEF IInv, Calls
<1>7. OneRoundTrip'
  BY <1>0, <1>2, <1>3, Ranks DEF IInv, OneRoundTrip, Roundtrip
<1>8. Wire'
  <2> SUFFICES ASSUME NEW m \in Peers PROVE WireTo(m)'
    BY DEF Wire
  <2>1. CASE m = n
    BY <1>0, <1>3, <2>1 DEF IInv, Wire, WireTo, PeerAccepts
  <2>2. CASE m # n
    BY <1>3, <2>2, WireKept DEF IInv, Wire
  <2> QED
    BY <2>1, <2>2
<1>9. Shares'
  <2>1. phase = "busy" /\ outcome = "none"
    BY ThreadBusy
  <2> QED
    BY <1>1, <1>3, <1>4, <2>1 DEF IInv, Shares, Exact
<1> QED
  BY <1>5, <1>6, <1>7, <1>8, <1>9 DEF IInv

-----------------------------------------------------------------------------
(* The workers, the network and the theorems.                              *)

\* An answer repeats the call of its request.
LEMMA AnswerTo ==
  ASSUME NEW n, NEW s
  PROVE  [Request(n) EXCEPT !.pieces = s]
           = [id |-> call.id, kind |-> call.kind, pieces |-> s]
BY DEF Request

\* A worker only meets requests of this call, for the share it owns by its own
\* map: it answers with the whole share, or loses the whole share.
LEMMA HandleStep == ASSUME IInv, NEW n \in Peers, Handle(n) PROVE IInv'
<1> USE DEF Handle, driver, workers
<1>0. reqs[n] = <<Request(n)>> /\ resps[n] = <<>> /\ ex[n].pc = "await" /\ PeerAccepts(n)
  BY DEF IInv, Wire, WireTo
<1>1. phase = "busy" /\ outcome = "none"
  BY <1>0, ThreadBusy
<1>2. Head(reqs[n]) = Request(n) /\ Tail(reqs[n]) = <<>>
  BY <1>0, OneMessage
<1>3. PICK a : /\ a \in IF Request(n).kind = "moe" THEN handle_experts(n, Request(n))
                        ELSE compute_attention_partial(Request(n))
               /\ resps' = [resps EXCEPT ![n] = Append(@, [Request(n) EXCEPT !.pieces = a.sum])]
               /\ lost' = lost \cup a.lost
  BY <1>2
<1>4. \/ a.sum = mine(n) /\ a.lost = {}
      \/ a.sum = {} /\ a.lost = mine(n)
  <2>1. Request(n).kind = call.kind /\ Request(n).pieces = mine(n)
    BY DEF Request
  <2>2. CASE call.kind = "moe"
    <3>1. \A p \in mine(n) : map[n][p] = n
      BY <1>0, <2>2, AgreeingPeerOwnsShare DEF IInv
    <3>2. a \in {[sum |-> mine(n), lost |-> {}], [sum |-> {}, lost |-> mine(n)]}
      BY <1>3, <2>1, <2>2, <3>1 DEF handle_experts
    <3> QED
      BY <3>2
  <2>3. CASE call.kind # "moe"
    <3>1. a \in {[sum |-> mine(n), lost |-> {}], [sum |-> {}, lost |-> mine(n)]}
      BY <1>3, <2>1, <2>3 DEF compute_attention_partial
    <3> QED
      BY <3>1
  <2> QED
    BY <2>2, <2>3
<1>5. /\ reqs' = [reqs EXCEPT ![n] = <<>>]
      /\ \/ resps' = [resps EXCEPT ![n] = <<Request(n)>>]
         \/ resps' = [resps EXCEPT ![n] = <<Zeros(n)>>] /\ mine(n) \subseteq lost'
  <2>1. [Request(n) EXCEPT !.pieces = mine(n)] = Request(n)
    <3>1. [Request(n) EXCEPT !.pieces = mine(n)]
            = [id |-> call.id, kind |-> call.kind, pieces |-> mine(n)]
      BY AnswerTo
    <3> QED
      BY <3>1 DEF Request
  <2>2. [Request(n) EXCEPT !.pieces = {}] = Zeros(n)
    <3>1. [Request(n) EXCEPT !.pieces = {}]
            = [id |-> call.id, kind |-> call.kind, pieces |-> {}]
      BY AnswerTo
    <3> QED
      BY <3>1 DEF Zeros
  <2>3. resps' = [resps EXCEPT ![n] = <<[Request(n) EXCEPT !.pieces = a.sum]>>]
    BY <1>0, <1>3, OneMessage
  <2>4. CASE a.sum = mine(n) /\ a.lost = {}
    BY <1>2, <2>1, <2>3, <2>4
  <2>5. CASE a.sum = {} /\ a.lost = mine(n)
    BY <1>2, <1>3, <2>2, <2>3, <2>5
  <2> QED
    BY <1>4, <2>4, <2>5
<1>6. lost \subseteq lost' /\ lost' \subseteq Pieces
  BY <1>3, <1>4, ShareOfWork DEF IInv, Types
<1>7. \A m : mine(m)' = mine(m) /\ Request(m)' = Request(m) /\ Zeros(m)' = Zeros(m)
  BY DEF mine, Request, Zeros
<1>8. Types'
  BY <1>5, <1>6 DEF IInv, Types
<1>9. Calls' /\ OneRoundTrip'
  BY DEF IInv, Calls, OneRoundTrip
<1>10. Wire'
  <2> SUFFICES ASSUME NEW m \in Peers PROVE WireTo(m)'
    BY DEF Wire
  <2>1. CASE m = n
    <3>1. reqs'[n] = <<>>
      BY <1>5 DEF IInv, Types
    <3>2. \/ resps'[n] = <<Request(n)>>
          \/ resps'[n] = <<Zeros(n)>> /\ mine(n) \subseteq lost'
      <4>1. ASSUME NEW q, resps' = [resps EXCEPT ![n] = q] PROVE resps'[n] = q
        BY <4>1 DEF IInv, Types
      <4> QED
        BY <1>5, <4>1
    <3> QED
      BY <1>0, <1>7, <2>1, <3>1, <3>2 DEF WireTo, PeerAccepts
  <2>2. CASE m # n
    <3>1. UNCHANGED <<reqs[m], resps[m]>>
      BY <1>5, <2>2 DEF IInv, Types
    <3>2. WireTo(m)
      BY DEF IInv, Wire
    <3> QED
      BY <1>6, <1>7, <3>1, <3>2 DEF WireTo, PeerAccepts
  <2> QED
    BY <2>1, <2>2
<1>11. Shares'
  BY <1>1, <1>6, <1>7 DEF IInv, Shares, Exact
<1> QED
  BY <1>8, <1>9, <1>10, <1>11 DEF IInv

\* The other end goes away: a connection to it dies and empties.
LEMMA SeverStep ==
  ASSUME IInv, NEW n \in Peers, Sever(n), UNCHANGED <<driver, ex, lock, part, map, lost>>,
         up' \in [Peers -> BOOLEAN], \A m \in Peers : m # n => UNCHANGED up[m]
  PROVE  IInv'
<1> USE DEF Sever, driver
<1>1. Types'
  BY DEF IInv, Types
<1>2. Calls' /\ OneRoundTrip'
  BY DEF IInv, Calls, OneRoundTrip
<1>3. Wire'
  <2> SUFFICES ASSUME NEW m \in Peers PROVE WireTo(m)'
    BY DEF Wire
  <2>1. CASE m = n
    BY <2>1 DEF IInv, Types, WireTo
  <2>2. CASE m # n
    BY <2>2, WireKept DEF IInv, Wire, Types
  <2> QED
    BY <2>1, <2>2
<1>4. Shares'
  BY DEF IInv, Shares, Exact, mine
<1> QED
  BY <1>1, <1>2, <1>3, <1>4 DEF IInv

\* A worker that starts has no connection yet: it was down.
LEMMA StartStep == ASSUME IInv, NEW n \in Peers, NEW m \in Maps, Start(n, m) PROVE IInv'
<1> USE DEF Start, driver, net
<1>1. Types'
  BY DEF IInv, Types
<1>2. Calls' /\ OneRoundTrip'
  BY DEF IInv, Calls, OneRoundTrip
<1>3. Wire'
  <2> SUFFICES ASSUME NEW k \in Peers PROVE WireTo(k)'
    BY DEF Wire
  <2>1. CASE k = n
    <3>1. conn[n] # "open"
      BY DEF IInv, Wire, WireTo, PeerAccepts
    <3> QED
      BY <2>1, <3>1 DEF IInv, Wire, WireTo
  <2>2. CASE k # n
    BY <2>2, WireKept DEF IInv, Wire, Types
  <2> QED
    BY <2>1, <2>2
<1>4. Shares'
  BY DEF IInv, Shares, Exact, mine
<1> QED
  BY <1>1, <1>2, <1>3, <1>4 DEF IInv

\* The inductive invariant holds of every behaviour.
LEMMA Inductive == Spec => []IInv
<1>1. Init => IInv
  <2> SUFFICES ASSUME Init PROVE IInv
    OBVIOUS
  <2> USE DEF Init
  <2>1. Types
    BY ExchangeAssumption DEF Types, Off, Thread_pc
  <2>2. Calls
    BY DEF Calls, Off
  <2>3. OneRoundTrip
    BY Ranks DEF OneRoundTrip, Off, Roundtrip
  <2>4. Wire
    BY DEF Wire, WireTo
  <2>5. Shares
    BY DEF Shares
  <2> QED
    BY <2>1, <2>2, <2>3, <2>4, <2>5 DEF IInv
<1>2. IInv /\ [Next]_vars => IInv'
  <2> SUFFICES ASSUME IInv, [Next]_vars PROVE IInv'
    OBVIOUS
  <2>1. ASSUME NEW work \in Routes, StartCall("moe", work) PROVE IInv'
    BY <2>1, StartCallStep, ExchangeAssumption
  <2>2. CASE StartAttention
    BY <2>2, StartCallStep DEF StartAttention
  <2>3. ASSUME NEW n \in Peers, Thread(n) PROVE IInv'
    BY <2>3, AcquireStep, ConnectStep, ConnectFailsStep, SendStep, BrokenStep, RecvStep
       DEF Thread
  <2>4. ASSUME NEW n \in Peers, Crash(n) PROVE IInv'
    <3>1. up' \in [Peers -> BOOLEAN] /\ \A m \in Peers : m # n => UNCHANGED up[m]
      BY <2>4 DEF Crash, IInv, Types
    <3> QED
      BY <2>4, <3>1, SeverStep DEF Crash
  <2>5. ASSUME NEW n \in Peers, NetBreak(n) PROVE IInv'
    <3>1. up' \in [Peers -> BOOLEAN] /\ \A m \in Peers : m # n => UNCHANGED up[m]
      BY <2>5 DEF NetBreak, workers, IInv, Types
    <3> QED
      BY <2>5, <3>1, SeverStep DEF NetBreak, workers
  <2>6. CASE UNCHANGED vars
    BY <2>6 DEF vars, IInv, Types, Calls, OneRoundTrip, Wire, WireTo, PeerAccepts, Shares,
                Exact, Request, Zeros, mine
  <2> QED
    BY <2>1, <2>2, <2>3, <2>4, <2>5, <2>6, VerifyPeerStep, VerifiedStep, LocalComputeStep,
       FoldStep, HandleStep, StartStep DEF Next
<1> QED
  BY <1>1, <1>2, PTL DEF Spec

\* A request only waits at a worker that runs with the driver's map
\* (serve_conn's handshake), although workers crash and restart with other
\* maps at any moment.
THEOREM AgreeingPeersOnly == Spec => []OnlyAgreeingPeersWork
<1>1. IInv => OnlyAgreeingPeersWork
  BY DEF IInv, Wire, WireTo, PeerAccepts, OnlyAgreeingPeersWork
<1> QED
  BY <1>1, Inductive, PTL

\* In every sum that sharded_experts_partial or attention_sharded returns each
\* piece of the work counts once and nothing else counts; a piece is missing
\* only if its owner could not load it.
THEOREM SumsAreExact == Spec => []SumIsExact
<1>1. IInv => SumIsExact
  <2> SUFFICES ASSUME IInv, outcome = "ok", NEW p \in Pieces
               PROVE  \/ Counted(p) = (IF p \in call.work THEN 1 ELSE 0)
                      \/ p \in lost /\ Counted(p) = 0
    BY DEF SumIsExact
  <2>1. \A n \in Nodes : Exact(n)
    BY DEF IInv, Shares, Nodes, Exact
  <2>2. CASE p \notin call.work
    <3>1. {n \in Nodes : p \in part[n]} = {}
      BY <2>1, <2>2, ShareOfWork DEF Exact
    <3> QED
      BY <2>2, <3>1, FS_EmptySet DEF Counted
  <2>3. CASE p \in call.work
    <3>1. PICK o \in Nodes : \A n \in Nodes : p \in mine(n) <=> n = o
      BY <2>3, OwnerIsUnique DEF IInv
    <3>2. CASE part[o] = mine(o)
      <4>1. {n \in Nodes : p \in part[n]} = {o}
        BY <2>1, <3>1, <3>2 DEF Exact
      <4> QED
        BY <2>3, <4>1, FS_Singleton DEF Counted
    <3>3. CASE part[o] = {} /\ mine(o) \subseteq lost
      <4>1. {n \in Nodes : p \in part[n]} = {}
        BY <2>1, <3>1, <3>3 DEF Exact
      <4> QED
        BY <3>1, <3>3, <4>1, FS_EmptySet DEF Counted
    <3> QED
      BY <2>1, <3>2, <3>3 DEF Exact
  <2> QED
    BY <2>2, <2>3
<1> QED
  BY <1>1, Inductive, PTL

\* The mutex of `conns` serialises the round trips of a call, and a retry in
\* roundtrip never leaves a second request or answer on a connection.
THEOREM RetriesNeverDuplicate == Spec => [](OneRoundTrip /\ NoDuplicates)
<1>1. IInv => OneRoundTrip /\ NoDuplicates
  <2> SUFFICES ASSUME IInv, NEW n \in Peers PROVE Len(reqs[n]) + Len(resps[n]) <= 1
    BY DEF IInv, NoDuplicates
  <2>1. Len(<<>>) = 0 /\ Len(<<Request(n)>>) = 1 /\ Len(<<Zeros(n)>>) = 1
    BY OneMessage
  <2>2. \/ reqs[n] = <<>> /\ resps[n] \in {<<>>, <<Request(n)>>, <<Zeros(n)>>}
        \/ reqs[n] = <<Request(n)>> /\ resps[n] = <<>>
    BY DEF IInv, Wire, WireTo
  <2>3. \/ Len(reqs[n]) = 0 /\ Len(resps[n]) \in {0, 1}
        \/ Len(reqs[n]) = 1 /\ Len(resps[n]) = 0
    BY <2>1, <2>2, Zenon
  <2>4. \A a, b : (a = 0 /\ b \in {0, 1}) \/ (a = 1 /\ b = 0) => a + b <= 1
    OBVIOUS
  <2> QED
    BY <2>3, <2>4, Zenon
<1> QED
  BY <1>1, Inductive, PTL

\* Every variable has its type, and the mutex is held by a thread inside
\* roundtrip.
THEOREM ExchangeTypes == Spec => []TypeOK
<1>1. IInv => TypeOK
  <2> SUFFICES ASSUME IInv PROVE TypeOK
    OBVIOUS
  <2>1. \A n \in Peers : reqs[n] \in Seq(Message) /\ resps[n] \in Seq(Message)
    <3> SUFFICES ASSUME NEW n \in Peers
                 PROVE  reqs[n] \in Seq(Message) /\ resps[n] \in Seq(Message)
      OBVIOUS
    <3>1. CASE ex[n].pc = "await"
      <4>1. call.id \in 1 .. MaxCalls
        BY <3>1, ThreadBusy, ExchangeAssumption DEF IInv, Types
      <4>2. Request(n) \in Message /\ Zeros(n) \in Message
        BY <4>1, ShareOfWork DEF IInv, Types, Message, Request, Zeros
      <4>3. <<>> \in Seq(Message) /\ <<Request(n)>> \in Seq(Message)
            /\ <<Zeros(n)>> \in Seq(Message)
        BY <4>2
      <4> QED
        BY <4>3 DEF IInv, Wire, WireTo
    <3>2. CASE ex[n].pc # "await"
      <4>1. <<>> \in Seq(Message)
        OBVIOUS
      <4> QED
        BY <3>2, <4>1 DEF IInv, Wire, WireTo
    <3> QED
      BY <3>1, <3>2
  <2>2. reqs \in [Peers -> Seq(Message)] /\ resps \in [Peers -> Seq(Message)]
    BY <2>1 DEF IInv, Types
  <2>3. lock # Nobody => ex[lock].pc \in Roundtrip
    BY DEF IInv, Types, OneRoundTrip
  <2> QED
    BY <2>2, <2>3 DEF IInv, Types, TypeOK, Roundtrip, Thread_pc
<1> QED
  BY <1>1, Inductive, PTL
=============================================================================
