--------------------------- MODULE CircularBuffer ---------------------------
(***************************************************************************)
(* The ring of aesd-char-driver/aesd-circular-buffer.c as operators on a   *)
(* record: struct aesd_circular_buffer is                                  *)
(*   [entry, in_offs, out_offs, full]                                      *)
(* and struct aesd_buffer_entry is [buffptr, size].  The ring stores the   *)
(* pointers it is given and never looks at the memory behind them, so a    *)
(* pointer is any value other than NULL.                                   *)
(*                                                                         *)
(* StoreEntry and AdvanceOut are the two halves of add_entry that a caller *)
(* who holds no lock can tell apart; AddEntry is the whole function.       *)
(*                                                                         *)
(* Definitions whose name begins with Bug are seeded faults, plausible     *)
(* mistakes in the operator that follows; nothing uses them.  Putting one  *)
(* in the place of its operator must break the property it is listed with. *)
(***************************************************************************)
EXTENDS Integers, Sequences, FiniteSetsExt, Functions

CONSTANTS
  MaxWriteOps,  \* AESDCHAR_MAX_WRITE_OPERATIONS_SUPPORTED (10 in the code)
  NULL          \* the null pointer

ASSUME MaxWriteOpsAssumption == MaxWriteOps \in Nat \ {0}

Index == 0 .. MaxWriteOps - 1

EmptyEntry == [buffptr |-> NULL, size |-> 0]

\* struct aesd_buffer_entry and struct aesd_circular_buffer over pointers P.
EntriesOver(P) == [buffptr : P \cup {NULL}, size : Nat]

RingsOver(P) == [entry    : [Index -> EntriesOver(P)],
                 in_offs  : Index,
                 out_offs : Index,
                 full     : BOOLEAN]

\* aesd_circular_buffer_init: memset to zero.
InitBuffer == [entry    |-> [i \in Index |-> EmptyEntry],
               in_offs  |-> 0,
               out_offs |-> 0,
               full     |-> FALSE]

-----------------------------------------------------------------------------

BugCount(b) == b.in_offs    \* a full ring taken for an empty one

\* The number of valid entries, as the search computes it.
Count(b) == IF b.full THEN MaxWriteOps ELSE b.in_offs

\* The slot of the k-th oldest valid entry, k counted from 0.
Slot(b, k) == (b.out_offs + k) % MaxWriteOps

\* The bytes held by the k oldest entries (bytes_so_far after k iterations).
BytesSoFar(b, k) ==
  SumFunction([i \in 0 .. k - 1 |-> b.entry[Slot(b, i)].size])

NotFound == [found |-> FALSE, index |-> 0, offset |-> 0]

\* The comparison off by one: the byte behind an entry is found in it.
BugFindEntryOffsetForFpos(b, char_offset) ==
  LET hits == {k \in 0 .. Count(b) - 1 : char_offset <= BytesSoFar(b, k + 1)}
  IN  IF hits = {}
      THEN NotFound
      ELSE [found  |-> TRUE,
            index  |-> Slot(b, Min(hits)),
            offset |-> char_offset - BytesSoFar(b, Min(hits))]

\* The loop stops at the first entry whose last byte lies beyond char_offset.
FindEntryOffsetForFpos(b, char_offset) ==
  LET hits == {k \in 0 .. Count(b) - 1 : char_offset < BytesSoFar(b, k + 1)}
  IN  IF hits = {}
      THEN NotFound
      ELSE [found  |-> TRUE,
            index  |-> Slot(b, Min(hits)),
            offset |-> char_offset - BytesSoFar(b, Min(hits))]

-----------------------------------------------------------------------------

\* The oldest slot's pointer returned although nothing was overwritten.
BugOverwritten(b) == b.entry[b.out_offs].buffptr

\* The pointer add_entry returns for the caller to free, NULL if none.
Overwritten(b) == IF b.full THEN b.entry[b.out_offs].buffptr ELSE NULL

\* in_offs runs off the array.
BugStoreEntryNoWrap(b, e) ==
  [entry    |-> [b.entry EXCEPT ![b.in_offs] = e],
   in_offs  |-> b.in_offs + 1,
   out_offs |-> b.out_offs,
   full     |-> b.full]

\* Store the new entry at in_offs and advance in_offs.
StoreEntry(b, e) ==
  [entry    |-> [b.entry EXCEPT ![b.in_offs] = e],
   in_offs  |-> (b.in_offs + 1) % MaxWriteOps,
   out_offs |-> b.out_offs,
   full     |-> b.full]

\* The oldest position stays where it was although its entry is gone.
BugAdvanceOutStays(b) == [b EXCEPT !.full = b.full \/ b.in_offs = b.out_offs]

\* If the ring was full the oldest entry is gone; recompute full.
AdvanceOut(b) ==
  LET out == IF b.full THEN (b.out_offs + 1) % MaxWriteOps ELSE b.out_offs
  IN  [entry    |-> b.entry,
       in_offs  |-> b.in_offs,
       out_offs |-> out,
       full     |-> b.in_offs = out]

AddEntry(b, e) == AdvanceOut(StoreEntry(b, e))

-----------------------------------------------------------------------------

\* The valid entries, oldest first: what a search walks over.
Window(b) == [k \in 1 .. Count(b) |-> b.entry[Slot(b, k - 1)]]

\* The pointers in every slot, valid or not: what the FOREACH macro visits.
StoredPointers(b) == {b.entry[i].buffptr : i \in Index} \ {NULL}

\* No pointer is in two slots.
PointersDiffer(b) ==
  \A i, j \in Index :
    b.entry[i].buffptr = b.entry[j].buffptr
      => i = j \/ b.entry[i].buffptr = NULL
=============================================================================
