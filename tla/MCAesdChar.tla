----------------------------- MODULE MCAesdChar -----------------------------
(***************************************************************************)
(* Instances of the driver for TLC.  Two slots wrap and evict after three  *)
(* commands.  The payloads are a piece without newline, a newline alone    *)
(* and a newline with a byte behind it that the write does not take.       *)
(***************************************************************************)
EXTENDS AesdChar, TLC

MCBytes == {"a", "n"}
MCPayloads == {<<"a">>, <<"a", "n", "a">>}
MCBlocks == 1 .. MaxWriteOps + 2
MCReadCounts == {1, 5}
MCSeeks == {[offset |->  1, whence |-> "SET"],
            [offset |-> -1, whence |-> "CUR"],
            [offset |-> -1, whence |-> "END"],
            [offset |->  0, whence |-> "other"]}
\* A write_cmd behind the last slot, for the run about the bounds check.
MCSeekTosBehind == [write_cmd : {0, MaxWriteOps}, write_cmd_offset : {0}]
MCSeekTos == [write_cmd : {0, 1}, write_cmd_offset : {0, 1}]
\* With it the greatest unsigned int, which is -1 as an int.
MCSeekTosNegative ==
  MCSeekTos \cup {[write_cmd |-> 2 ^ IntBits - 1, write_cmd_offset |-> 0]}

\* Processes differ only by name, and no liveness is checked with this.
MCSymmetry == Permutations(Procs)
=============================================================================
