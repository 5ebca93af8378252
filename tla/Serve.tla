-------------------------------- MODULE Serve --------------------------------
(***************************************************************************)
(* `coli serve' of coli/src/serve.rs: start-up, the accept loop, the life  *)
(* of a request and the shutdown signal, over the cache's budget monitor   *)
(* and reservations (AdaptiveBudget) and the ledger's admission.           *)
(*                                                                         *)
(* One thread accepts and answers, so there is one request at a time.  Of  *)
(* a request the model keeps what the control reads: whether it is a probe *)
(* (GET, OPTIONS or an unknown route), a body complete() rejects, or a     *)
(* completion with its prompt's tokens and its max_tokens.  Streaming and  *)
(* sending one body differ in what the client sees, not in these steps.  A *)
(* client may go away, and it may hold the connection: each read times out *)
(* after 30 s, but nothing bounds a client that sends a byte at a time or  *)
(* does not read what it is sent.                                          *)
(***************************************************************************)
EXTENDS AdaptiveBudget

CONSTANTS CtxLen,               \* ctx_len: prompt and completion
          Requests,             \* what clients send
          BytesPerToken, FixedBytes,  \* KvCache::bytes_per_token, fixed_bytes
          WarmupTokens,         \* tokens of the warm-up, prompt and completion
          Ceiling, Dense,       \* the ledger's ceiling and its Dense class
          Scratch               \* what Scratch and ReadBuf may hold together

ASSUME ServeAssumption ==
  /\ CtxLen \in Nat /\ BytesPerToken \in Nat /\ FixedBytes \in Nat
  /\ WarmupTokens \in Nat /\ Ceiling \in Nat /\ Dense \in Nat
  /\ Scratch \subseteq Nat
  /\ Requests \subseteq [kind : {"probe", "bad", "post"}, prompt : Nat,
                         max : Nat \ {0}]

VARIABLES
  srv,          \* the server thread: pc, its request, tokens generated, held
  kvc,          \* the ledger's Kv class
  shutdown      \* SHUTDOWN

serverVars == <<srv, kvc, shutdown>>
vars == <<bytes, budget, reserved, other, kv, mon, req, srv, kvc, shutdown>>

NoRequest == [kind |-> "bad", prompt |-> 0, max |-> 1]
At(pc) == [pc |-> pc, q |-> NoRequest, n |-> 0, held |-> FALSE]
To(pc) == [srv EXCEPT !.pc = pc]

bytes_for(t) == FixedBytes + BytesPerToken * t
max_tokens(q) == Lo(q.max, CtxLen - q.prompt)

\* Stages of cmd_serve before the accept loop.
Starting == {"load", "wire", "warm", "warming", "bind"}

Init ==
  /\ BudgetInit
  /\ srv = At("load")
  /\ kvc = 0
  /\ shutdown = FALSE

\* The process is gone, and with it everything it held.
Exit ==
  /\ srv' = At("exit")
  /\ bytes' = 0 /\ kv' = 0 /\ kvc' = 0 /\ reserved' = 0
  /\ budget' = FirstBudget
  /\ mon' = [pc |-> "sleep", low_ticks |-> 0, prev_avail |-> 0,
             learned_cap |-> fill_target, tick |-> NoTick]
  /\ req' = Idle
  /\ UNCHANGED <<other, shutdown>>

-----------------------------------------------------------------------------
(* cmd_serve.                                                              *)

\* Load the model and the tokenizer; size the window and the first budget.
LoadModel ==
  /\ srv.pc = "load"
  /\ \/ Exit
     \/ srv' = To("wire") /\ UNCHANGED <<cacheVars, kvc, shutdown>>

\* The provider, its cache and the monitor; preload and prefetch may insert
\* from here on.  Peers that disagree end the start-up.
WireCache ==
  /\ srv.pc = "wire"
  /\ \/ Exit
     \/ /\ srv' = To("warm")
        /\ budget' = fill_target
        /\ UNCHANGED <<bytes, reserved, other, kv, mon, req, kvc, shutdown>>

\* Autopin, and a warm-up whose KV cache is neither reserved nor committed;
\* then the signal handlers, before the scan of the fabric.
WarmUp ==
  /\ srv.pc \in {"warm", "warming"}
  /\ \/ srv.pc = "warm" /\ kv' = bytes_for(WarmupTokens) /\ srv' = To("warming")
     \/ kv' = 0 /\ srv' = To("bind")
  /\ UNCHANGED <<bytes, budget, reserved, other, mon, req, kvc, shutdown>>

\* Discovery is over; bind, and announce the port.
Bind ==
  /\ srv.pc = "bind"
  /\ \/ Exit
     \/ srv' = At("loop") /\ UNCHANGED <<cacheVars, kvc, shutdown>>

StartUp == LoadModel \/ WireCache \/ WarmUp \/ Bind

-----------------------------------------------------------------------------
(* The accept loop.                                                        *)

\* Leave on the flag, else take a client that waits, else wait on the socket.
AcceptLoop ==
  /\ srv.pc = "loop"
  /\ \/ shutdown /\ Exit
     \/ /\ ~shutdown
        /\ \E pc \in {"read", "poll"} : srv' = At(pc)
        /\ UNCHANGED <<cacheVars, kvc, shutdown>>

\* Mutant: wait without a timeout, when no client comes after the signal.
wait_for_connection_forever ==
  /\ srv.pc = "poll" /\ ~shutdown
  /\ srv' = At("loop")
  /\ UNCHANGED <<cacheVars, kvc, shutdown>>

\* poll returns on a client, on a signal, or after its timeout.
wait_for_connection ==
  /\ srv.pc = "poll"
  /\ srv' = At("loop")
  /\ UNCHANGED <<cacheVars, kvc, shutdown>>

\* The first signal sets the flag, a second one ends the process; before the
\* handlers are installed the default action does.
Signal ==
  /\ srv.pc # "exit"
  /\ IF shutdown \/ srv.pc \in Starting \ {"bind"} THEN Exit
     ELSE shutdown' = TRUE /\ UNCHANGED <<cacheVars, srv, kvc>>

\* read_request fails, or the route needs no model: 200, 204 or 404.
handle(q) ==
  /\ srv.pc = "read"
  /\ q.kind = "probe"
  /\ srv' = At("loop")
  /\ UNCHANGED <<cacheVars, kvc, shutdown>>

\* complete() answers 400: no JSON object, no prompt or one without a token, or
\* one as long as the window.
Refuse(q) ==
  /\ srv.pc = "read"
  /\ q.kind = "bad" \/ (q.kind = "post" /\ (q.prompt = 0 \/ q.prompt >= CtxLen))
  /\ srv' = At("loop")
  /\ UNCHANGED <<cacheVars, kvc, shutdown>>

\* A completion: reserve the KV cache of its prompt.
ReadCompletion(q) ==
  /\ srv.pc = "read"
  /\ q.kind = "post" /\ q.prompt > 0 /\ q.prompt < CtxLen
  /\ ReserveAdd(bytes_for(q.prompt))
  /\ srv' = [At("reserve") EXCEPT !.q = q]
  /\ UNCHANGED <<kvc, shutdown>>

-----------------------------------------------------------------------------
(* complete.                                                               *)

Reserving ==
  /\ srv.pc = "reserve"
  /\ ReserveStep
  /\ UNCHANGED serverVars

\* reserve_ram answered: on refusal 507, and nothing to release.
Reserved ==
  /\ srv.pc = "reserve"
  /\ req.pc \in {"idle", "granted"}
  /\ srv' = IF req.pc = "idle" THEN At("loop") ELSE To("rigid")
  /\ UNCHANGED <<cacheVars, kvc, shutdown>>

\* What requests may take of the ceiling as the ledger stands, and
\* commit_or_wait's first test: more than that is refused at once with 507.
Rigid ==
  /\ srv.pc = "rigid"
  /\ \E s \in Scratch :
       LET rigid == SatSub(SatSub(SatSub(Ceiling, Dense), bytes), s)
       IN  srv' = To(IF req.bytes > rigid THEN "release" ELSE "commit")
  /\ UNCHANGED <<cacheVars, kvc, shutdown>>

\* try_commit, retried every 10 ms: it succeeds, or the deadline passes on a
\* try that fails, with 503.
CommitOrWait ==
  /\ srv.pc = "commit"
  /\ \E s \in Scratch :
       IF Dense + bytes + kvc + s + req.bytes <= Ceiling
       THEN kvc' = kvc + req.bytes /\ srv' = To("prefill")
       ELSE srv' = To("release") /\ UNCHANGED kvc
  /\ UNCHANGED <<cacheVars, shutdown>>

\* mk_kv and the prompt's forward pass.  An error there ends the completion.
Prefill ==
  /\ srv.pc = "prefill"
  /\ kv' = bytes_for(srv.q.prompt)
  /\ \E pc \in {"generate", "drop"} : srv' = To(pc)
  /\ UNCHANGED <<bytes, budget, reserved, other, mon, req, kvc, shutdown>>

\* The next token, whose row the KV cache grows by.  Generation ends at
\* max_tokens, on a stop token, on an error and, when streaming, once a write
\* fails.
Generate ==
  /\ srv.pc = "generate"
  /\ kv' = bytes_for(srv.q.prompt + srv.n)
  /\ \E pc \in {"generate", "drop"} :
       /\ pc = "generate" => srv.n + 1 < max_tokens(srv.q)
       /\ srv' = [To(pc) EXCEPT !.n = @ + 1]
  /\ UNCHANGED <<bytes, budget, reserved, other, mon, req, kvc, shutdown>>

\* The KV cache goes before the commitment that covers it.
DropKv ==
  /\ srv.pc = "drop"
  /\ kv' = 0
  /\ srv' = [To("uncommit") EXCEPT !.n = 0]
  /\ UNCHANGED <<bytes, budget, reserved, other, mon, req, kvc, shutdown>>

\* Mutant: the commitment outlives the request.
DropCommitment_Leak ==
  /\ srv.pc = "uncommit"
  /\ srv' = To("release")
  /\ UNCHANGED <<cacheVars, kvc, shutdown>>

DropCommitment ==
  /\ srv.pc = "uncommit"
  /\ kvc' = kvc - req.bytes
  /\ srv' = To("release")
  /\ UNCHANGED <<cacheVars, shutdown>>

\* KvRoom::drop, release_ram: load `reserved' ...
ReleaseLoad ==
  /\ srv.pc = "release"
  /\ req' = [req EXCEPT !.now = reserved]
  /\ srv' = To("subtract")
  /\ UNCHANGED <<bytes, budget, reserved, other, kv, mon, kvc, shutdown>>

\* ... and store the difference.
ReleaseStore ==
  /\ srv.pc = "subtract"
  /\ reserved' = SatSub(req.now, req.bytes)
  /\ req' = Idle
  /\ srv' = At("loop")
  /\ UNCHANGED <<bytes, budget, other, kv, mon, kvc, shutdown>>

Complete == \/ Reserving \/ Reserved \/ Rigid \/ CommitOrWait \/ Prefill \/ Generate
            \/ DropKv \/ DropCommitment \/ ReleaseLoad \/ ReleaseStore

-----------------------------------------------------------------------------
Server == \/ StartUp \/ AcceptLoop \/ wait_for_connection
          \/ \E q \in Requests : handle(q) \/ Refuse(q) \/ ReadCompletion(q)
          \/ Complete

ServerStep == ~srv.held /\ Server

\* A client that drips its request or does not read its answer, and goes on.
ClientHolds ==
  /\ srv.pc \in {"read", "generate"} /\ ~srv.held
  /\ srv' = [srv EXCEPT !.held = TRUE]
  /\ UNCHANGED <<cacheVars, kvc, shutdown>>
ClientResumes ==
  /\ srv.held
  /\ srv' = [srv EXCEPT !.held = FALSE]
  /\ UNCHANGED <<cacheVars, kvc, shutdown>>

CacheLives == srv.pc \notin {"load", "wire", "exit"}

MonitorStep == CacheLives /\ Monitor /\ UNCHANGED serverVars

Next == \/ ServerStep \/ MonitorStep
        \/ Signal \/ ClientHolds \/ ClientResumes
        \/ CacheLives /\ UNCHANGED serverVars /\ \E d \in {1, MaxBatch} : Insert(d)
        \/ UNCHANGED serverVars /\ OthersMove

\* The monitor's thread and the server's are scheduled; nothing is assumed of
\* clients, of inserts or of the rest of the machine.  A silent client's read
\* times out, which is a step of the server.
Fairness == WF_vars(MonitorStep) /\ WF_vars(ServerStep)

Spec == Init /\ [][Next]_vars /\ Fairness

-----------------------------------------------------------------------------
(* Properties.                                                             *)

\* A request's memory is accounted for from its admission to its end and is
\* given back on every path: what is reserved is what the request in hand
\* asked for, the ledger's Kv class is that too between admission and the
\* drop of the commitment and zero otherwise, and outside the warm-up a KV
\* cache exists only under a commitment.
ReservationsBalance ==
  /\ reserved = req.bytes
  /\ kvc = IF srv.pc \in {"prefill", "generate", "drop", "uncommit"} THEN req.bytes ELSE 0
  /\ kv > 0 => kvc > 0 \/ srv.pc = "warming"
  /\ srv.pc \in {"loop", "poll", "read"} => reserved = 0 /\ kv = 0

\* A client that is accepted is done with: reserve_ram's passes, the wait for
\* the ledger and the completion are all bounded, whatever the cache and the
\* machine do meanwhile, unless the client itself holds the connection.
RequestEnds == srv.pc = "read" ~> srv.pc \in {"loop", "exit"} \/ srv.held

\* install_shutdown_handlers' doc, "the long-running servers stop cleanly": a
\* signal ends the process, however it falls between the flag's test and the
\* wait, unless a client holds the connection in hand.
ShutdownEnds == shutdown ~> srv.pc = "exit" \/ srv.held
=============================================================================
