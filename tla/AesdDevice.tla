----------------------------- MODULE AesdDevice -----------------------------
(***************************************************************************)
(* What /dev/aesdchar promises the processes that use it, with no lock, no *)
(* memory and no ring: the most recent Limit commands, the command being   *)
(* typed, and one file position per open file.  Every system call takes    *)
(* effect at one instant, or fails and changes nothing.                    *)
(***************************************************************************)
EXTENDS Integers, Sequences, SequencesExt

CONSTANTS
  Procs,       \* processes, each with one open file
  Payloads,    \* what a write may pass: non-empty sequences of bytes
  ReadCounts,  \* how many bytes a read may ask for
  Seeks,       \* what llseek may be given: [offset, whence]
  Newline,     \* the byte that ends a command
  Limit        \* how many commands are kept

VARIABLES
  loaded,    \* the module is in the kernel
  open,      \* which processes have the device open
  cmds,      \* the kept commands, oldest first
  partial,   \* the bytes written since the last newline
  f_pos,     \* file position, counted from the oldest kept byte
  ret        \* what the last call of a process returned: status and bytes

vars == <<loaded, open, cmds, partial, f_pos, ret>>

Init ==
  /\ loaded = FALSE
  /\ open = [p \in Procs |-> FALSE]
  /\ cmds = <<>> /\ partial = <<>>
  /\ f_pos = [p \in Procs |-> 0]
  /\ ret = [p \in Procs |-> [status |-> "OK", data |-> <<>>]]

Return(p, status, data) ==
  ret' = [ret EXCEPT ![p] = [status |-> status, data |-> data]]

Load ==
  /\ ~loaded /\ loaded' = TRUE
  /\ UNCHANGED <<open, cmds, partial, f_pos, ret>>

\* Nothing survives the module.
Unload ==
  /\ loaded /\ (\A p \in Procs : ~open[p])
  /\ loaded' = FALSE /\ cmds' = <<>> /\ partial' = <<>>
  /\ UNCHANGED <<open, f_pos, ret>>

Open(p) ==
  /\ loaded /\ ~open[p]
  /\ open' = [open EXCEPT ![p] = TRUE]
  /\ f_pos' = [f_pos EXCEPT ![p] = 0]
  /\ UNCHANGED <<loaded, cmds, partial, ret>>

\* A file that is closed has no position.
Release(p) ==
  /\ open[p] /\ open' = [open EXCEPT ![p] = FALSE]
  /\ f_pos' = [f_pos EXCEPT ![p] = 0] /\ Return(p, "OK", <<>>)
  /\ UNCHANGED <<loaded, cmds, partial>>

\* A write takes its bytes up to the first newline; the newline turns what was
\* typed, by whichever processes, into a command.
WriteBytes(p, bytes) ==
  LET stop  == {i \in DOMAIN bytes : bytes[i] = Newline}
      taken == IF stop = {} THEN bytes ELSE SubSeq(bytes, 1, Min(stop))
      typed == partial \o taken
      kept  == IF Len(cmds) = Limit THEN Tail(cmds) ELSE cmds
  IN  /\ open[p]
      /\ IF stop = {}
         THEN partial' = typed /\ UNCHANGED cmds
         ELSE partial' = <<>> /\ cmds' = Append(kept, typed)
      /\ Return(p, "OK", taken)
      /\ UNCHANGED <<loaded, open, f_pos>>

Write(p) == \E bytes \in Payloads : WriteBytes(p, bytes)

\* A read returns the bytes from f_pos on, as many as it asked for or up to
\* the end of one command, and nothing when f_pos is behind the last byte.
Read(p) ==
  LET all  == FlattenSeq(cmds)
      from == f_pos[p] + 1
  IN  /\ open[p]
      /\ UNCHANGED <<loaded, open, cmds, partial>>
      /\ \/ from > Len(all) /\ Return(p, "OK", <<>>) /\ UNCHANGED f_pos
         \/ \E count \in ReadCounts : \E last \in from .. Len(all) :
              /\ last - f_pos[p] <= count
              /\ \A i \in from .. last - 1 : all[i] # Newline
              /\ last - f_pos[p] = count \/ all[last] = Newline
              /\ Return(p, "OK", SubSeq(all, from, last))
              /\ f_pos' = [f_pos EXCEPT ![p] = last]

\* Seeking changes nothing but the caller's own position, which never becomes
\* negative.  llseek goes where it is told, from one of three origins; where
\* the seek command goes AesdChar says.
Seek(p) ==
  /\ open[p]
  /\ f_pos' = [f_pos EXCEPT ![p] = f_pos'[p]] /\ f_pos'[p] \in Nat
  /\ Return(p, "OK", <<>>)
  /\ UNCHANGED <<loaded, open, cmds, partial>>

Llseek(p) ==
  /\ Seek(p)
  /\ \E s \in Seeks :
       \/ s.whence = "SET" /\ f_pos'[p] = s.offset
       \/ s.whence = "CUR" /\ f_pos'[p] = f_pos[p] + s.offset
       \/ s.whence = "END" /\ f_pos'[p] = Len(FlattenSeq(cmds)) + s.offset

SeekCommand(p) == Seek(p)

Fail(p) ==
  /\ \E status \in {"ENOMEM", "EFAULT", "ERESTARTSYS", "EINVAL"} :
       Return(p, status, <<>>)
  /\ UNCHANGED <<loaded, open, cmds, partial, f_pos>>

Next ==
  \/ Load \/ Unload
  \/ \E p \in Procs : \/ Open(p) \/ Release(p) \/ Write(p) \/ Read(p)
                      \/ Llseek(p) \/ SeekCommand(p) \/ Fail(p)

Spec == Init /\ [][Next]_vars
=============================================================================
