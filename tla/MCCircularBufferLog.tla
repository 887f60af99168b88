------------------------ MODULE MCCircularBufferLog -------------------------
(***************************************************************************)
(* Instance for TLC: a ring of three slots driven through more than two    *)
(* laps with entries of size 0, 1 and 2.  Four blocks are one more than    *)
(* the ring holds, so a block given back is always reused.                 *)
(***************************************************************************)
EXTENDS CircularBufferLog, TLC

MCSizes == 0 .. 2

\* The blocks are interchangeable: the ring never inspects a pointer.
MCSymmetry == Permutations(Ptrs)
=============================================================================
