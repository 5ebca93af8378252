------------------------------- MODULE MC_Serve -------------------------------
(***************************************************************************)
(* A machine of 8 experts' size whose other tenants use little or much:    *)
(* with much the planned cache does not fit, and every guard fires.  The   *)
(* monitor's arguments and the ledger's ceiling come from Sizing, on this  *)
(* machine in bytes at 100 bytes an expert.                                *)
(***************************************************************************)
EXTENDS Serve, Sizing

Unit == 100
Host == [total |-> 800, avail |-> 700, swap |-> FALSE, earlyoom |-> NoOom]
Held == [resident |-> 100, duplicate |-> 0, per |-> 100, n_moe |-> 2, owned |-> 4]
Wired == wire_adaptive_cache(Held, Host)

MCMem     == Host.total \div Unit
MCPlan    == Wired.plan.fill_target \div Unit
MCDanger  == Wired.danger_floor \div Unit
MCHard    == Wired.hard_floor \div Unit
MCCeiling == Wired.plan.ceiling \div Unit
MCDense   == Wired.plan.dense \div Unit
MCCtxLen  == ctx_len(8, 4, FALSE, Host.total, Unit, Unit)
MCFirst   == serve_budget(Host, Unit + MCCtxLen * Unit) \div Unit
MCOthers  == {1, 5}
MCScratch == {0, 1}
MCRequests == {[kind |-> "probe", prompt |-> 0, max |-> 1],
               [kind |-> "bad", prompt |-> 0, max |-> 1],
               [kind |-> "post", prompt |-> 0, max |-> 2],
               [kind |-> "post", prompt |-> 1, max |-> 2],
               [kind |-> "post", prompt |-> 4, max |-> 8]}
===============================================================================
