---------------------------- MODULE MC_RamLedger ----------------------------
(***************************************************************************)
(* A small instance of RamLedger: two request handlers that commit, one of *)
(* which also publishes the expert cache, and the monitor thread.  Sizes   *)
(* make two requests collide under the ceiling.                            *)
(***************************************************************************)
EXTENDS RamLedger, TLC

CONSTANTS h1, h2, mon

MCThreads    == {h1, h2, mon}
MCCommitters == "Dense" :> {h1} @@ "Kv" :> {h2}
MCAmounts    == {0, 2}

\* A build without CUDA: the cache publishes Experts from whichever thread
\* holds its lock, the monitor alone reports ReadBuf, nobody Scratch.
CpuReporters  == "Experts" :> {h1, mon} @@ "ReadBuf" :> {mon} @@ "Scratch" :> {}
CpuSerialised == Reported
=============================================================================
