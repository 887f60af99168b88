--------------------------- MODULE RecentCommands ---------------------------
(***************************************************************************)
(* What the ring promises its caller, with no slots and no offsets: a      *)
(* sequence of the most recent entries, at most Limit of them, oldest      *)
(* first.  Adding to a full sequence drops the oldest entry and hands its  *)
(* pointer back; adding to any other hands back NULL.                      *)
(***************************************************************************)
EXTENDS Naturals, Sequences

CONSTANTS
  Entries,   \* the entries a caller may add, records with a field buffptr
  Limit,     \* how many are kept
  NULL       \* handed back when nothing was dropped

VARIABLES
  cmds,      \* the kept entries, oldest first
  dropped    \* the pointer the last Add handed back

vars == <<cmds, dropped>>

Init == cmds = <<>> /\ dropped = NULL

Add(e) ==
  IF Len(cmds) = Limit
  THEN /\ cmds' = Append(Tail(cmds), e)
       /\ dropped' = Head(cmds).buffptr
  ELSE /\ cmds' = Append(cmds, e)
       /\ dropped' = NULL

Next == \E e \in Entries : Add(e)

Spec == Init /\ [][Next]_vars
=============================================================================
