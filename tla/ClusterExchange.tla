--------------------------- MODULE ClusterExchange ---------------------------
(***************************************************************************)
(* Expert-parallel layers over TCP: sharded_experts_partial of moe.rs and  *)
(* attention_sharded of attention.rs on the driver, TcpTransport and       *)
(* serve_conn of colibri-cluster/src/net.rs, and the handlers coli worker  *)
(* gives them.                                                             *)
(*                                                                         *)
(* A call splits its work, the routed experts of a layer or its attention  *)
(* heads, over the nodes that own the pieces: one exchange thread per peer *)
(* sends a request and waits for the peer's partial sum while the driver   *)
(* computes its own share; all threads are joined and the partials added.  *)
(* A partial sum is the set of pieces it accounts for, and the empty set   *)
(* is a vector of zeros.  Workers crash and come back, possibly with       *)
(* another expert map, and connections break at any moment.  Two maps have *)
(* the same fingerprint only if they are equal.                            *)
(***************************************************************************)
EXTENDS Integers, Sequences, FiniteSets

CONSTANTS Peers,       \* ranks of the other nodes; the driver has rank 0
          Experts, Heads,
          Maps,        \* expert maps a node may have built
          DriverMap,   \* the driver's, one of Maps
          HeadMap,     \* head -> node, from head_slice
          Routes,      \* sets of experts a layer may route to
          MaxCalls     \* bound on the calls of a behaviour

Driver == 0
Nodes  == {Driver} \cup Peers
Pieces == Experts \cup Heads
Nobody == -1

ASSUME ExchangeAssumption ==
  /\ Peers \subseteq Nat \ {Driver} /\ IsFiniteSet(Peers)
  /\ Experts \cap Heads = {}
  /\ Maps \subseteq [Experts -> Nodes] /\ DriverMap \in Maps
  /\ HeadMap \in [Heads -> Nodes]
  /\ Routes \subseteq SUBSET Experts
  /\ MaxCalls \in Nat

VARIABLES
  phase,    \* the driver: verify, ready, busy or exit
  call,     \* the current or last call: id, kind, work
  local,    \* the driver's own share: todo, ok or err
  ex,       \* peer -> its exchange thread: pc and attempt
  lock,     \* rank whose thread holds the mutex of `conns`, or Nobody
  conn,     \* peer -> the pooled connection: none, open or dead
  reqs,     \* peer -> requests on that connection, not yet handled
  resps,    \* peer -> responses on it, not yet read
  part,     \* node -> the pieces its partial sum accounts for
  up,       \* peer -> whether its worker runs
  map,      \* peer -> the expert map of that worker
  outcome,  \* what the last call returned: none, ok or err
  lost      \* pieces a worker failed to compute for this call (history)

driver  == <<phase, call, local, outcome>>
net     == <<conn, reqs, resps>>
workers == <<up, map>>
vars    == <<phase, call, local, ex, lock, conn, reqs, resps, part, up, map,
             outcome, lost>>

Off == [pc |-> "off", attempt |-> 0]

Init ==
  /\ phase = "verify"
  /\ call = [id |-> 0, kind |-> "moe", work |-> {}]
  /\ local = "todo"
  /\ ex = [n \in Peers |-> Off]
  /\ lock = Nobody
  /\ conn = [n \in Peers |-> "none"]
  /\ reqs = [n \in Peers |-> <<>>]
  /\ resps = [n \in Peers |-> <<>>]
  /\ part = [n \in Nodes |-> {}]
  /\ up \in [Peers -> BOOLEAN]
  /\ map \in [Peers -> Maps]
  /\ outcome = "none"
  /\ lost = {}

-----------------------------------------------------------------------------
(* connect_and_hello and verify_peers.                                     *)

\* Mutant: the worker accepts every hello.
PeerAccepts_Any(n) == up[n]

\* serve_conn answers a hello with ok only for its own fingerprint.
PeerAccepts(n) == up[n] /\ map[n] = DriverMap

\* A fresh connection whose handshake succeeded.
Open(n) ==
  /\ PeerAccepts(n)
  /\ conn' = [conn EXCEPT ![n] = "open"]
  /\ reqs' = [reqs EXCEPT ![n] = <<>>]
  /\ resps' = [resps EXCEPT ![n] = <<>>]

\* verify_peers: the handshake with every peer in rank order; the first
\* failure, a refusal or an I/O error, ends the process.
VerifyPeer(n) ==
  /\ phase = "verify" /\ conn[n] = "none"
  /\ \A m \in Peers : m < n => conn[m] # "none"
  /\ \/ Open(n) /\ UNCHANGED phase
     \/ phase' = "exit" /\ UNCHANGED net
  /\ UNCHANGED <<call, local, outcome, ex, lock, part, up, map, lost>>

Verified ==
  /\ phase = "verify" /\ \A n \in Peers : conn[n] # "none"
  /\ phase' = "ready"
  /\ UNCHANGED <<call, local, outcome, ex, lock, part, lost>> /\ UNCHANGED <<net, workers>>

-----------------------------------------------------------------------------
(* The driver: a call, its own share and the sum.                          *)

\* The pieces of `work` that node n owns, by the driver's own map.
Share(kind, work, n) ==
  IF kind = "moe" THEN {p \in work : DriverMap[p] = n} ELSE {p \in work : HeadMap[p] = n}

\* Split the work and spawn the exchange threads: for attention one per peer,
\* for experts one per peer that owns some of them.
StartCall(kind, work) ==
  /\ phase = "ready" /\ call.id < MaxCalls
  /\ phase' = "busy"
  /\ call' = [id |-> call.id + 1, kind |-> kind, work |-> work]
  /\ local' = "todo" /\ outcome' = "none" /\ lost' = {}
  /\ part' = [n \in Nodes |-> {}]
  /\ ex' = [n \in Peers |-> IF kind = "attn" \/ Share(kind, work, n) # {}
                            THEN [pc |-> "want", attempt |-> 0] ELSE Off]
  /\ UNCHANGED <<lock, net, workers>>

\* attention_sharded: every head of the layer.
StartAttention == StartCall("attn", Heads)

\* The driver computes its own share meanwhile; loading an expert may fail.
LocalCompute ==
  /\ phase = "busy" /\ local = "todo"
  /\ \/ local' = "ok" /\ part' = [part EXCEPT ![Driver] = Share(call.kind, call.work, Driver)]
     \/ call.kind = "moe" /\ local' = "err" /\ UNCHANGED part
  /\ UNCHANGED <<phase, call, outcome, ex, lock, lost>> /\ UNCHANGED <<net, workers>>

Joined == \A n \in Peers : ex[n].pc \in {"off", "ok", "err"}

\* The error the call returns, if any.
Failed == local = "err" \/ \E n \in Peers : ex[n].pc = "err"

\* Mutant: the call returns at the first error and abandons the other threads.
Fold_FirstError ==
  /\ phase = "busy" /\ local # "todo" /\ (Joined \/ Failed)
  /\ outcome' = IF Failed THEN "err" ELSE "ok"
  /\ phase' = "ready"
  /\ ex' = [n \in Peers |-> Off]
  /\ lock' = Nobody
  /\ UNCHANGED <<call, local, part, lost>> /\ UNCHANGED <<net, workers>>

\* thread::scope has joined every thread: add the partials, or return the
\* first error.
Fold ==
  /\ phase = "busy" /\ local # "todo" /\ Joined
  /\ outcome' = IF Failed THEN "err" ELSE "ok"
  /\ phase' = "ready"
  /\ ex' = [n \in Peers |-> Off]
  /\ UNCHANGED <<call, local, lock, part, lost>> /\ UNCHANGED <<net, workers>>

-----------------------------------------------------------------------------
(* An exchange thread: roundtrip.                                          *)

\* The mutex of `conns` is held from here to the end of the round trip.
Acquire(n) ==
  /\ ex[n].pc = "want" /\ lock = Nobody
  /\ lock' = n
  /\ ex' = [ex EXCEPT ![n].pc = IF conn[n] = "none" THEN "connect" ELSE "send"]
  /\ UNCHANGED <<driver, net, workers, part, lost>>

\* roundtrip returns.
Done(n, result) ==
  /\ ex' = [ex EXCEPT ![n].pc = result]
  /\ lock' = Nobody

\* Mutant: the attempts are not counted.
TryAgain_Forever(n) ==
  /\ ex' = [ex EXCEPT ![n] = [pc |-> "connect", attempt |-> 0]]
  /\ UNCHANGED lock

\* An attempt failed: the second one is the last.
TryAgain(n) ==
  \/ ex[n].attempt = 1 /\ Done(n, "err")
  \/ /\ ex[n].attempt = 0
     /\ ex' = [ex EXCEPT ![n] = [pc |-> "connect", attempt |-> 1]]
     /\ UNCHANGED lock

Connect(n) ==
  /\ ex[n].pc = "connect"
  /\ Open(n)
  /\ ex' = [ex EXCEPT ![n].pc = "send"]
  /\ UNCHANGED <<driver, workers, lock, part, lost>>

\* FingerprintMismatch is never retried.
ConnectRefused(n) ==
  /\ ex[n].pc = "connect" /\ up[n] /\ ~PeerAccepts(n)
  /\ Done(n, "err")
  /\ UNCHANGED <<driver, net, workers, part, lost>>

\* The peer is down, or the network fails during the handshake.
ConnectFails(n) ==
  /\ ex[n].pc = "connect"
  /\ TryAgain(n)
  /\ UNCHANGED <<driver, net, workers, part, lost>>

Send(n) ==
  /\ ex[n].pc = "send" /\ conn[n] = "open"
  /\ reqs' = [reqs EXCEPT ![n] = Append(@, [id |-> call.id, kind |-> call.kind,
                                            pieces |-> Share(call.kind, call.work, n)])]
  /\ ex' = [ex EXCEPT ![n].pc = "await"]
  /\ UNCHANGED <<driver, workers, lock, conn, resps, part, lost>>

\* The write or the read fails: drop the connection and retry on a fresh one.
Broken(n) ==
  /\ ex[n].pc \in {"send", "await"} /\ conn[n] = "dead"
  /\ conn' = [conn EXCEPT ![n] = "none"]
  /\ TryAgain(n)
  /\ UNCHANGED <<driver, workers, reqs, resps, part, lost>>

\* Read one frame; a frame of the other kind fails to decode.
Recv(n) ==
  /\ ex[n].pc = "await" /\ resps[n] # <<>>
  /\ LET r == Head(resps[n])
     IN IF r.kind = call.kind
        THEN Done(n, "ok") /\ part' = [part EXCEPT ![n] = r.pieces]
        ELSE Done(n, "err") /\ UNCHANGED part
  /\ resps' = [resps EXCEPT ![n] = Tail(@)]
  /\ UNCHANGED <<driver, workers, conn, reqs, lost>>

-----------------------------------------------------------------------------
(* The workers and the network.                                            *)

\* What the expert handler may answer, and what the driver lacks then: if an
\* expert cannot be loaded, because another node owns it or the disk fails,
\* coli worker answers with zeros.
handle_experts(n, r) ==
  IF \E p \in r.pieces : map[n][p] # n THEN {[sum |-> {}, lost |-> {}]}
  ELSE {[sum |-> r.pieces, lost |-> {}], [sum |-> {}, lost |-> r.pieces]}

\* The attention handler needs resident weights only: any heads, from scratch.  For a layer
\* the worker's model lacks (the handshake compares expert maps alone) it answers zeros.
compute_attention_partial(r) == {[sum |-> r.pieces, lost |-> {}], [sum |-> {}, lost |-> r.pieces]}

\* One turn of serve_conn: compute the request's share and answer it.
Handle(n) ==
  /\ up[n] /\ conn[n] = "open" /\ reqs[n] # <<>>
  /\ LET r == Head(reqs[n])
     IN \E a \in IF r.kind = "moe" THEN handle_experts(n, r) ELSE compute_attention_partial(r) :
          /\ resps' = [resps EXCEPT ![n] = Append(@, [r EXCEPT !.pieces = a.sum])]
          /\ lost' = lost \cup a.lost
  /\ reqs' = [reqs EXCEPT ![n] = Tail(@)]
  /\ UNCHANGED <<driver, workers, ex, lock, conn, part>>

\* What happens to the connection when its other end goes away.
Sever(n) ==
  /\ conn' = [conn EXCEPT ![n] = IF @ = "open" THEN "dead" ELSE @]
  /\ reqs' = [reqs EXCEPT ![n] = <<>>]
  /\ resps' = [resps EXCEPT ![n] = <<>>]

Crash(n) ==
  /\ up[n]
  /\ up' = [up EXCEPT ![n] = FALSE]
  /\ Sever(n)
  /\ UNCHANGED <<driver, ex, lock, part, map, lost>>

\* A worker starts, with the map its COLI_SHARD and usage history give.
Start(n, m) ==
  /\ ~up[n]
  /\ up' = [up EXCEPT ![n] = TRUE]
  /\ map' = [map EXCEPT ![n] = m]
  /\ UNCHANGED <<driver, net, ex, lock, part, lost>>

NetBreak(n) ==
  /\ conn[n] = "open"
  /\ Sever(n)
  /\ UNCHANGED <<driver, workers, ex, lock, part, lost>>

-----------------------------------------------------------------------------
Thread(n) == \/ Acquire(n) \/ Connect(n) \/ ConnectRefused(n) \/ ConnectFails(n)
             \/ Send(n) \/ Broken(n) \/ Recv(n)

Next ==
  \/ \E n \in Peers : VerifyPeer(n)
  \/ Verified
  \/ \E work \in Routes : StartCall("moe", work)
  \/ StartAttention
  \/ LocalCompute
  \/ Fold
  \/ \E n \in Peers : Thread(n) \/ Handle(n) \/ Crash(n) \/ NetBreak(n)
  \/ \E n \in Peers, m \in Maps : Start(n, m)

\* The driver's threads are scheduled and a running worker answers the requests
\* it has: the sockets have no read timeout, so nothing less would do.  The
\* mutex need not be fair, as a thread takes it once in a call.
Fairness ==
  /\ WF_vars(LocalCompute) /\ WF_vars(Fold)
  /\ \A n \in Peers : WF_vars(Thread(n)) /\ WF_vars(Handle(n))

Spec == Init /\ [][Next]_vars /\ Fairness

-----------------------------------------------------------------------------
(* Properties.                                                             *)

Message == [id : 1 .. MaxCalls, kind : {"moe", "attn"}, pieces : SUBSET Pieces]

\* Every variable ranges over its type, and the mutex is held by a thread that
\* is inside roundtrip.
TypeOK ==
  /\ phase \in {"verify", "ready", "busy", "exit"}
  /\ call \in [id : 0 .. MaxCalls, kind : {"moe", "attn"}, work : SUBSET Pieces]
  /\ local \in {"todo", "ok", "err"} /\ outcome \in {"none", "ok", "err"}
  /\ ex \in [Peers -> [pc : {"off", "want", "connect", "send", "await", "ok", "err"},
                       attempt : {0, 1}]]
  /\ lock \in Peers \cup {Nobody}
  /\ lock # Nobody => ex[lock].pc \in {"connect", "send", "await"}
  /\ conn \in [Peers -> {"none", "open", "dead"}]
  /\ reqs \in [Peers -> Seq(Message)] /\ resps \in [Peers -> Seq(Message)]
  /\ part \in [Nodes -> SUBSET Pieces]
  /\ up \in [Peers -> BOOLEAN] /\ map \in [Peers -> Maps] /\ lost \subseteq Pieces

\* How often the sum of the partials accounts for a piece.
Counted(p) == Cardinality({n \in Nodes : p \in part[n]})

\* The doc of serve_conn: with disagreeing maps experts are "computed twice or
\* not at all".  In every sum a call returns, each piece of its work
\* counts once and nothing else counts, whatever crashed, restarted with
\* another map, broke or was retried; a piece is missing only if its owner
\* could not load it, or has a model without that layer.
SumIsExact ==
  outcome = "ok" =>
    \A p \in Pieces : \/ Counted(p) = (IF p \in call.work THEN 1 ELSE 0)
                      \/ p \in lost /\ Counted(p) = 0

\* The doc of serve_conn: a peer with another map is dropped "without ever
\* calling a handler".  A request only waits at a worker that has the
\* driver's map, although workers restart with others while calls run.
OnlyAgreeingPeersWork ==
  \A n \in Peers : reqs[n] # <<>> => up[n] /\ map[n] = DriverMap

\* A call ends, with a sum or with an error, while workers crash and
\* connections break.
CallEnds == phase = "busy" ~> phase = "ready"
=============================================================================
