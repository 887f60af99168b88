-------------------------- MODULE CircularBufferLog -------------------------
(***************************************************************************)
(* The ring in the hands of a caller that follows the contract of          *)
(* aesd-circular-buffer.c: it owns the memory of every entry, hands over   *)
(* pointers that are not in the ring already, and gets each one back when  *)
(* add_entry returns it.  log is the history of every entry ever added,    *)
(* held the pointers handed over and not yet given back.                   *)
(***************************************************************************)
EXTENDS CircularBuffer, SequencesExt

CONSTANTS
  Ptrs,      \* the caller's memory blocks
  Sizes,     \* the sizes an entry may have
  MaxAdds    \* bound on the length of log

ASSUME CallerAssumption ==
  /\ NULL \notin Ptrs
  /\ Sizes \subseteq Nat
  /\ MaxAdds \in Nat

VARIABLES
  buffer,       \* struct aesd_circular_buffer
  overwritten,  \* the value the last add_entry returned
  held,         \* history: pointers handed over and not given back
  log           \* history: every entry ever added, oldest first

vars == <<buffer, overwritten, held, log>>

Entries == [buffptr : Ptrs, size : Sizes]

Init ==
  /\ buffer = InitBuffer
  /\ overwritten = NULL
  /\ held = {}
  /\ log = <<>>

Add(e) ==
  /\ Len(log) < MaxAdds
  /\ e.buffptr \notin held
  /\ overwritten' = Overwritten(buffer)
  /\ buffer' = AddEntry(buffer, e)
  /\ held' = (held \cup {e.buffptr}) \ {Overwritten(buffer)}
  /\ log' = Append(log, e)

Next == \E e \in Entries : Add(e)

Spec == Init /\ [][Next]_vars

-----------------------------------------------------------------------------

\* Every variable has its type.
TypeOK ==
  /\ buffer \in RingsOver(Ptrs)
  /\ overwritten \in Ptrs \cup {NULL}
  /\ held \in SUBSET Ptrs
  /\ log \in Seq(Entries)

\* in_offs = out_offs means empty or full, and full is what tells them apart;
\* out_offs leaves slot 0 only when something has been overwritten.
Offsets ==
  /\ buffer.full => buffer.in_offs = buffer.out_offs /\ Len(log) >= MaxWriteOps
  /\ ~buffer.full => buffer.out_offs = 0 /\ buffer.in_offs = Len(log)

\* Slots below in_offs hold the newest entries, the others the ones of one
\* lap before, or nothing when there was no lap before.
Slots ==
  \A i \in Index :
    buffer.entry[i] =
      IF i < buffer.in_offs THEN log[Len(log) - buffer.in_offs + i + 1]
      ELSE IF buffer.full
           THEN log[Len(log) - buffer.in_offs + i + 1 - MaxWriteOps]
           ELSE EmptyEntry

\* Where every entry of the history is, slot by slot, through any number of
\* laps of add_entry: the inductive strengthening of what follows.
SlotsHoldHistory == Offsets /\ Slots

\* The most recent entries of the history, as many as the ring can keep.
Kept == IF Len(log) < MaxWriteOps THEN Len(log) ELSE MaxWriteOps
RecentHistory == [k \in 1 .. Kept |-> log[Len(log) - Kept + k]]

\* The valid entries are exactly the most recent ones, in the order they were
\* added, and none is missing until the ring is full: the wrap of in_offs and
\* out_offs never skips, repeats or reorders an entry (add_entry).
WindowIsRecentHistory == Window(buffer) = RecentHistory

\* A pointer handed over is in exactly one slot until add_entry gives it back,
\* and it is given back exactly when it leaves: the caller can free what it is
\* given and nothing else, without a leak or a double free (add_entry, FOREACH).
HeldIsStored ==
  /\ held = StoredPointers(buffer)
  /\ PointersDiffer(buffer)

\* The bytes behind an entry, each named by its block and place in it.
BytesOf(e) == [j \in 1 .. e.size |-> <<e.buffptr, j - 1>>]

\* "All buffer strings concatenated end to end" (the search's own comment).
Concatenation(es) == FlattenSeq([k \in DOMAIN es |-> BytesOf(es[k])])

\* For every offset the search finds the byte at that place of the
\* concatenation of the entries, and finds nothing from the end onwards; an
\* entry of size 0 is never the answer (find_entry_offset_for_fpos).
FindIsConcatenation ==
  LET all == Concatenation(RecentHistory)
  IN  \A off \in 0 .. Len(all) + 1 :
        LET r == FindEntryOffsetForFpos(buffer, off)
        IN  /\ r.found <=> off < Len(all)
            /\ r.found => <<buffer.entry[r.index].buffptr, r.offset>> = all[off + 1]

\* The ring implements the abstract specification.
Abstract == INSTANCE RecentCommands
              WITH Limit   <- MaxWriteOps,
                   cmds    <- Window(buffer),
                   dropped <- overwritten

\* Every add_entry is one Add of the abstract specification: the ring is the
\* list of recent commands and returns what that list drops.
ImplementsRecentCommands == Abstract!Spec
=============================================================================
