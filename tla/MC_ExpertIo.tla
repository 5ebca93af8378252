----------------------------- MODULE MC_ExpertIo -----------------------------
(***************************************************************************)
(* Two loaders over two shard files with an alignment of 2.  An expert's   *)
(* gate and up lie back to back in the first file, its down begins, in the *)
(* second file, at the very offset where up ends.  `tail` ends with an odd *)
(* file length, so its direct read reaches past the end; `bias` is in no   *)
(* file.                                                                   *)
(***************************************************************************)
EXTENDS ShardReads, TLC

MCTensor == "gate" :> [file |-> 1, off |-> 1, nbytes |-> 1]
         @@ "up"   :> [file |-> 1, off |-> 2, nbytes |-> 2]
         @@ "down" :> [file |-> 2, off |-> 4, nbytes |-> 1]
         @@ "tail" :> [file |-> 1, off |-> 4, nbytes |-> 1]

MCFileLen == <<5, 6>>

Expert == {"gate", "up", "down"}
\* Allocations alternate between aligned and unaligned addresses.
MCAddr == [b \in Bufs |-> b % DIO_ALIGN]

Call(one, names) == {[single |-> one, groups |-> <<names>>]}
TwoGroups == [single |-> FALSE, groups |-> <<{"gate", "up"}, {"bias"}>>]
Organic == [slot_bytes |-> 0, slots |-> 0]
OneSlot == [slot_bytes |-> 6, slots |-> 1]
Direct  == [dio |-> TRUE,  ring |-> FALSE, mmap |-> FALSE, direct |-> FALSE]
Ring    == [dio |-> TRUE,  ring |-> TRUE,  mmap |-> FALSE, direct |-> TRUE]
Mapped  == [dio |-> FALSE, ring |-> FALSE, mmap |-> TRUE,  direct |-> TRUE]

\* The first loader reads the expert in a batch.  The second one meets the end
\* of the file, reads without a batch, or competes for the arena's slot.
MCSetups ==
    {[arena |-> Organic, pin_max |-> 0, flags |-> Ring,
      calls |-> <<Call(FALSE, {"gate", "up", "tail"}), {}>>],
     [arena |-> Organic, pin_max |-> 6, flags |-> Direct,
      calls |-> <<Call(FALSE, Expert), Call(FALSE, {"tail"})>>],
     [arena |-> Organic, pin_max |-> 0, flags |-> Mapped,
      calls |-> <<Call(FALSE, Expert) \cup {TwoGroups}, Call(TRUE, {"gate", "up"})>>],
     [arena |-> OneSlot, pin_max |-> 0, flags |-> Direct,
      calls |-> <<Call(FALSE, Expert), Call(FALSE, {"gate", "up"})>>]}
=============================================================================
