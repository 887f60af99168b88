------------------------- MODULE AesdSocketProofs ---------------------------
(***************************************************************************)
(* Theorems about the two mutexes of AesdSocket and about its list of      *)
(* thread_info blocks, for any number of clients and any faults.           *)
(***************************************************************************)
EXTENDS AesdSocket, FiniteSetTheorems, WellFoundedInduction, TLAPS

\* A connection main is about to start a thread for has none: no thread that
\* died with the mutex is started again.
Unstarted == mpc \in {"insert", "create"} => cur \in Conns /\ pc[cur] = "none"

MutexInv ==
  /\ pc \in [Conns -> Labels]
  /\ cancelled \in [Conns -> BOOLEAN]
  /\ MutexDiscipline
  /\ Unstarted

Gone == Cleaning \cup {"ended"}

USE ServerAssumption

\* Nobody is in a region when the server starts.
LEMMA MutexInvInit == Init => MutexInv
<1> SUFFICES ASSUME Init PROVE MutexInv
  OBVIOUS
<1>1. pc \in [Conns -> Labels] /\ cancelled \in [Conns -> BOOLEAN]
  BY DEF Init, Labels
<1>2. MutexDiscipline
  BY DEF Init, MutexDiscipline, FileCritical, MainAt
<1>3. Unstarted
  BY DEF Init, Unstarted
<1> QED
  BY <1>1, <1>2, <1>3 DEF MutexInv

\* A step of a thread that exists and that changes no mutex.
LEMMA MoveKeepsMutexInv ==
  ASSUME MutexInv, NEW c \in Conns, NEW label \in Labels \ {"none"},
         Goto(c, label), ~At(c, "none"),
         label \in FileCritical => pc[c] \in FileCritical,
         file_mutex = c => \/ label \in FileCritical
                           \/ cancelled[c] /\ label \in Gone,
         UNCHANGED <<mpc, cur, cancelled, mutexes>>
  PROVE  MutexInv'
<1>1. pc' \in [Conns -> Labels] /\ cancelled' \in [Conns -> BOOLEAN]
  BY DEF MutexInv, Goto
<1>2. pc'[c] = label /\ \A d \in Conns \ {c} : pc'[d] = pc[d]
  BY DEF MutexInv, Goto
<1>3. MutexDiscipline'
  BY <1>2 DEF MutexInv, MutexDiscipline, Gone, MainAt, mutexes
<1>4. Unstarted'
  BY <1>2 DEF MutexInv, Unstarted, At
<1> QED
  BY <1>1, <1>3, <1>4 DEF MutexInv

\* Taking file_mutex.
LEMMA LockKeepsMutexInv ==
  ASSUME MutexInv, NEW c \in Conns, NEW label \in FileCritical,
         Goto(c, label), ~At(c, "none"), file_mutex = NoOwner, file_mutex' = c,
         UNCHANGED <<mpc, cur, cancelled, list_mutex>>
  PROVE  MutexInv'
<1>1. label \in Labels
  BY DEF Labels
<1>2. pc' \in [Conns -> Labels] /\ cancelled' \in [Conns -> BOOLEAN]
  BY <1>1 DEF MutexInv, Goto
<1>3. pc'[c] = label /\ \A d \in Conns \ {c} : pc'[d] = pc[d]
  BY DEF MutexInv, Goto
<1>4. MutexDiscipline'
  BY <1>3 DEF MutexInv, MutexDiscipline, MainAt
<1>5. Unstarted'
  BY <1>3 DEF MutexInv, Unstarted, At
<1> QED
  BY <1>2, <1>4, <1>5 DEF MutexInv

\* Letting file_mutex go on the way out of its region.
LEMMA UnlockKeepsMutexInv ==
  ASSUME MutexInv, NEW c \in Conns, NEW label \in Labels \ FileCritical,
         Goto(c, label), pc[c] \in FileCritical, file_mutex' = NoOwner,
         UNCHANGED <<mpc, cur, cancelled, list_mutex>>
  PROVE  MutexInv'
<1>1. pc' \in [Conns -> Labels] /\ cancelled' \in [Conns -> BOOLEAN]
  BY DEF MutexInv, Goto
<1>2. pc'[c] = label /\ \A d \in Conns \ {c} : pc'[d] = pc[d]
  BY DEF MutexInv, Goto
<1>3. file_mutex = c /\ pc[c] # "none"
  BY DEF MutexInv, MutexDiscipline, FileCritical
<1>4. MutexDiscipline'
  BY <1>2, <1>3 DEF MutexInv, MutexDiscipline, MainAt
<1>5. Unstarted'
  BY <1>2, <1>3 DEF MutexInv, Unstarted
<1> QED
  BY <1>1, <1>4, <1>5 DEF MutexInv

\* Outside the region and not cancelled there, a thread owns nothing, so a move
\* to another place outside keeps the invariant.
LEMMA OutsideKeepsMutexInv ==
  ASSUME MutexInv, NEW c \in Conns, NEW label \in Labels \ FileCritical,
         Goto(c, label), label # "none",
         pc[c] \notin FileCritical \cup Gone \cup {"none"},
         UNCHANGED <<mpc, cur, cancelled, mutexes>>
  PROVE  MutexInv'
<1>1. file_mutex # c
  BY DEF MutexInv, MutexDiscipline, Gone
<1> QED
  BY <1>1, MoveKeepsMutexInv DEF At

\* The calls of handle_client outside the region.
LEMMA ServingKeepsMutexInv ==
  ASSUME MutexInv, NEW c \in Conns,
         \/ OpenFile(c) \/ RecvChunk(c) \/ RecvEnd(c) \/ Ioctl(c)
         \/ SeekRead(c) \/ SeekSend(c) \/ SeekClose(c)
         \/ OpenRead(c) \/ Read(c) \/ Send(c) \/ CloseRead(c)
  PROVE  MutexInv'
<1> DEFINE Outside == {"open", "recv", "ioctl", "seek_read", "seek_send",
                       "seek_close", "open_read", "read", "send", "r_close"}
           Onward == Outside \cup {"lock_file", "exit"}
<1> SUFFICES \E label \in Onward :
               /\ pc[c] \in Outside /\ Goto(c, label)
               /\ UNCHANGED <<mpc, cur, cancelled, mutexes>>
  <2>1. Onward \subseteq (Labels \ FileCritical) \ {"none"}
    BY DEF Labels, CancelPoints, FileCritical
  <2>2. Outside \cap (FileCritical \cup Gone \cup {"none"}) = {}
    BY DEF FileCritical, Gone, Cleaning
  <2> QED
    BY <2>1, <2>2, OutsideKeepsMutexInv
<1>1. CASE OpenFile(c)
  BY <1>1 DEF OpenFile, Runs, At, outer, main, mutexes
<1>2. CASE RecvChunk(c)
  BY <1>2 DEF RecvChunk, HandlerOf, Runs, At, outer, main, mutexes
<1>3. CASE RecvEnd(c)
  BY <1>3 DEF RecvEnd, Runs, At, outer, main, mutexes
<1>4. CASE Ioctl(c)
  BY <1>4 DEF Ioctl, Runs, At, outer, main, mutexes
<1>5. CASE SeekRead(c)
  BY <1>5 DEF SeekRead, ReadDevice, Runs, At, outer, main, mutexes
<1>6. CASE SeekSend(c)
  BY <1>6 DEF SeekSend, Runs, At, outer, main, mutexes
<1>7. CASE SeekClose(c)
  BY <1>7 DEF SeekClose, Runs, At, outer, main, mutexes
<1>8. CASE OpenRead(c)
  BY <1>8 DEF OpenRead, Runs, At, outer, main, mutexes
<1>9. CASE Read(c)
  BY <1>9 DEF Read, ReadDevice, Runs, At, outer, main, mutexes
<1>10. CASE Send(c)
  BY <1>10 DEF Send, Runs, At, outer, main, mutexes
<1>11. CASE CloseRead(c)
  BY <1>11 DEF CloseRead, Runs, At, outer, main, mutexes
<1> QED
  BY <1>1, <1>2, <1>3, <1>4, <1>5, <1>6, <1>7, <1>8, <1>9, <1>10, <1>11

\* Into the region, through it and out of it.
LEMMA RegionKeepsMutexInv ==
  ASSUME MutexInv, NEW c \in Conns,
         LockFile(c) \/ NoFile(c) \/ Write(c) \/ CloseFile(c)
  PROVE  MutexInv'
<1>1. CASE LockFile(c)
  <2>1. Locked(c) \in FileCritical
    BY DEF Locked, FileCritical
  <2> QED
    BY <1>1, <2>1, LockKeepsMutexInv DEF LockFile, At, outer, main
<1>2. CASE NoFile(c)
  <2>1. pc[c] \in FileCritical /\ "exit" \in Labels \ FileCritical
    BY <1>2 DEF NoFile, Runs, At, FileCritical, Labels
  <2> QED
    BY <1>2, <2>1, UnlockKeepsMutexInv DEF NoFile, outer, main
<1>3. CASE Write(c)
  <2>1. /\ pc[c] = "write"
        /\ \E label \in {"w_close", "w_close_err"} : Goto(c, label)
        /\ UNCHANGED <<mpc, cur, cancelled, mutexes>>
    BY <1>3 DEF Write, Runs, At, outer, main, mutexes
  <2>2. /\ {"write", "w_close", "w_close_err"} \subseteq FileCritical
        /\ FileCritical \subseteq Labels
    BY DEF FileCritical, Labels
  <2> QED
    BY <2>1, <2>2, MoveKeepsMutexInv DEF At
<1>4. CASE CloseFile(c)
  <2>1. /\ pc[c] \in {"w_close", "w_close_err"}
        /\ \E label \in {"open_read", "recv", "exit"} : Goto(c, label)
        /\ file_mutex' = NoOwner
        /\ UNCHANGED <<mpc, cur, cancelled, list_mutex>>
    BY <1>4 DEF CloseFile, Runs, At, outer, main
  <2>2. /\ {"w_close", "w_close_err"} \subseteq FileCritical
        /\ {"open_read", "recv", "exit"} \subseteq Labels \ FileCritical
    BY DEF FileCritical, Labels, CancelPoints
  <2> QED
    BY <2>1, <2>2, UnlockKeepsMutexInv
<1> QED
  BY <1>1, <1>2, <1>3, <1>4

\* A cancelled thread may carry file_mutex from its region to its end.
LEMMA CleanupKeepsMutexInv ==
  ASSUME MutexInv, NEW c \in Conns,
         \/ ActOnCancel(c) \/ CleanupClose(c) \/ CancelledInCleanup(c)
         \/ CleanupRemove(c) \/ CleanupFree(c)
  PROVE  MutexInv'
<1>1. Gone \subseteq Labels \ (FileCritical \cup {"none"})
  BY DEF Gone, Cleaning, Labels, FileCritical
<1>2. SUFFICES \E label \in Gone :
                 /\ pc[c] # "none" /\ Goto(c, label)
                 /\ file_mutex = c => cancelled[c]
                 /\ UNCHANGED <<mpc, cur, cancelled, mutexes>>
  BY <1>1, MoveKeepsMutexInv DEF At
<1>3. file_mutex = c => cancelled[c] \/ pc[c] \in FileCritical
  BY DEF MutexInv, MutexDiscipline
<1>4. CASE ActOnCancel(c)
  BY <1>4 DEF ActOnCancel, CancelPoints, Gone, Cleaning, outer, main, mutexes
<1>5. CASE CleanupClose(c)
  <2>1. pc[c] \in {"c_close", "exit"} /\ pc[c] \notin FileCritical
    BY <1>5 DEF CleanupClose, At, FileCritical
  <2> QED
    BY <1>3, <1>5, <2>1 DEF CleanupClose, Gone, Cleaning, outer, main, mutexes
<1>6. CASE CancelledInCleanup(c)
  BY <1>6 DEF CancelledInCleanup, At, Gone, outer, main, mutexes
<1>7. CASE CleanupRemove(c)
  BY <1>3, <1>7 DEF CleanupRemove, At, FileCritical, Gone, Cleaning, stopping
<1>8. CASE CleanupFree(c)
  BY <1>3, <1>8 DEF CleanupFree, At, FileCritical, Gone, stopping
<1> QED
  BY <1>4, <1>5, <1>6, <1>7, <1>8

\* A step of main that starts no thread and cancels none.
LEMMA MainMoveKeepsMutexInv ==
  ASSUME MutexInv, UNCHANGED <<pc, cancelled, file_mutex>>,
         (list_mutex = Main <=> mpc = "loop")
           => (list_mutex' = Main <=> mpc' = "loop"),
         Unstarted'
  PROVE  MutexInv'
BY DEF MutexInv, MutexDiscipline, MainAt

\* Starting a thread puts it outside the region, and it owned nothing before.
LEMMA AcceptingKeepsMutexInv ==
  ASSUME MutexInv,
         \/ \E c \in Conns : Accept(c)
         \/ Insert \/ Create \/ UndoRemove \/ UndoFree
  PROVE  MutexInv'
<1>1. ASSUME NEW c \in Conns, Accept(c)
      PROVE  MutexInv'
  <2>1. Unstarted'
    BY <1>1 DEF Accept, Unstarted, At, thread
  <2> QED
    BY <1>1, <2>1, MainMoveKeepsMutexInv
       DEF Accept, MainAt, MainGoto, stopping, thread, mutexes
<1>2. CASE Insert
  <2>1. Unstarted'
    BY <1>2 DEF MutexInv, Insert, Unstarted, MainAt, MainGoto, threads, thread
  <2> QED
    BY <1>2, <2>1, MainMoveKeepsMutexInv
       DEF Insert, MainAt, MainGoto, stopping, threads, thread
<1>3. CASE Create
  <2>1. cur \in Conns /\ pc[cur] = "none"
    BY <1>3 DEF MutexInv, Create, Unstarted, MainAt
  <2>2. CASE Goto(cur, "open") /\ mpc' = "accept"
    <3>1. file_mutex # cur
      BY <2>1 DEF MutexInv, MutexDiscipline, FileCritical, Cleaning
    <3>2. "open" \in Labels \ FileCritical
      BY DEF Labels, CancelPoints, FileCritical
    <3>3. pc' \in [Conns -> Labels] /\ cancelled' \in [Conns -> BOOLEAN]
      BY <1>3, <2>2, <3>2 DEF MutexInv, Create, Goto, stopping
    <3>4. pc'[cur] = "open" /\ \A d \in Conns \ {cur} : pc'[d] = pc[d]
      BY <2>1, <2>2 DEF MutexInv, Goto
    <3>5. MutexDiscipline'
      BY <1>3, <2>2, <3>1, <3>2, <3>4
         DEF MutexInv, MutexDiscipline, Create, MainAt, stopping, mutexes
    <3>6. Unstarted'
      BY <2>2 DEF Unstarted
    <3> QED
      BY <3>3, <3>5, <3>6 DEF MutexInv
  <2>3. CASE mpc' = "u_remove" /\ UNCHANGED pc
    <3>1. Unstarted'
      BY <2>3 DEF Unstarted
    <3> QED
      BY <1>3, <2>3, <3>1, MainMoveKeepsMutexInv
         DEF Create, MainAt, stopping, mutexes
  <2> QED
    BY <1>3, <2>2, <2>3 DEF Create, MainGoto
<1>4. CASE UndoRemove
  BY <1>4, MainMoveKeepsMutexInv
     DEF UndoRemove, Unstarted, MainAt, MainGoto, stopping, threads, thread
<1>5. CASE UndoFree
  BY <1>5, MainMoveKeepsMutexInv
     DEF UndoFree, Unstarted, MainAt, MainGoto, stopping, thread, mutexes
<1> QED
  BY <1>1, <1>2, <1>3, <1>4, <1>5

\* Shutdown takes and releases list_mutex around its loop; a cancellation only
\* adds to the threads that may die with file_mutex.
LEMMA ShutdownKeepsMutexInv ==
  ASSUME MutexInv,
         \/ Signal \/ StopLock \/ Cancel \/ LoopEnds \/ Join \/ Reap
         \/ UseAfterFree
  PROVE  MutexInv'
<1>1. CASE Signal \/ UseAfterFree
  <2>1. UNCHANGED <<mpc, cur, pc, cancelled, file_mutex, list_mutex>>
    BY <1>1 DEF Signal, UseAfterFree, main, threads, thread
  <2> QED
    BY <2>1, MainMoveKeepsMutexInv DEF MutexInv, Unstarted
<1>2. CASE StopLock
  BY <1>2, MainMoveKeepsMutexInv
     DEF StopLock, Unstarted, MainAt, MainGoto, threads, thread
<1>3. CASE Cancel
  <2>1. /\ cancelled' \in [Conns -> BOOLEAN]
        /\ \A c \in Conns : cancelled[c] => cancelled'[c]
    BY <1>3 DEF MutexInv, Cancel
  <2>2. Unstarted'
    BY <1>3 DEF Cancel, Unstarted, MainGoto
  <2>3. MutexDiscipline'
    BY <1>3, <2>1
       DEF MutexInv, MutexDiscipline, Cancel, MainAt, MainGoto, threads, thread
  <2> QED
    BY <1>3, <2>1, <2>2, <2>3 DEF MutexInv, Cancel, threads, thread
<1>4. CASE LoopEnds
  BY <1>4, MainMoveKeepsMutexInv
     DEF LoopEnds, Unstarted, MainAt, MainGoto, stopping, threads, thread
<1>5. CASE Join
  BY <1>5, MainMoveKeepsMutexInv
     DEF Join, Unstarted, MainAt, MainGoto, stopping, threads, thread
<1>6. CASE Reap
  BY <1>6, MainMoveKeepsMutexInv
     DEF Reap, Unstarted, MainAt, MainGoto, threads, thread
<1> QED
  BY <1>1, <1>2, <1>3, <1>4, <1>5, <1>6

\* Every step of the server keeps the invariant.
LEMMA NextKeepsMutexInv ==
  ASSUME MutexInv, [Next]_vars
  PROVE  MutexInv'
<1>1. CASE UNCHANGED vars
  BY <1>1 DEF MutexInv, MutexDiscipline, Unstarted, MainAt,
              vars, main, thread, mutexes
<1>2. ASSUME NEW c \in Conns, Serve(c) \/ Client(c)
      PROVE  MutexInv'
  BY <1>2, ServingKeepsMutexInv, RegionKeepsMutexInv, CleanupKeepsMutexInv,
     AcceptingKeepsMutexInv DEF Serve, Client
<1>3. CASE MainStep \/ Signal
  BY <1>3, AcceptingKeepsMutexInv, ShutdownKeepsMutexInv DEF MainStep
<1> QED
  BY <1>1, <1>2, <1>3 DEF Next

\* "Protects file write access", "Protects access to the thread list": through
\* any interleaving of any number of clients, failures and a shutdown, each
\* mutex is held by whoever is in its region, and file_mutex otherwise only by
\* a thread cancelled in it (handle_client 263-278, main 454-466).
THEOREM MutexDisciplineHolds == Spec => []MutexDiscipline
<1>1. MutexInv => MutexDiscipline
  BY DEF MutexInv
<1> QED
  BY <1>1, MutexInvInit, NextKeepsMutexInv, PTL DEF Spec

\* Two threads never write to the device at once, dead owner or not
\* (handle_client 263-278).
THEOREM OneWriter ==
  Spec => [](\A c, d \in Conns :
               pc[c] \in FileCritical /\ pc[d] \in FileCritical => c = d)
<1>1. MutexInv => \A c, d \in Conns :
                    pc[c] \in FileCritical /\ pc[d] \in FileCritical => c = d
  BY DEF MutexInv, MutexDiscipline
<1> QED
  BY <1>1, MutexInvInit, NextKeepsMutexInv, PTL DEF Spec

-----------------------------------------------------------------------------
(***************************************************************************)
(* Where main and the threads are, beside what they work on.               *)
(***************************************************************************)

MainLabels == {"accept", "insert", "create", "u_remove", "u_free",
               "loop", "join", "joining", "exit"}

ControlTypes ==
  /\ terminate_program \in BOOLEAN /\ ub \in BOOLEAN
  /\ mpc \in MainLabels
  /\ {cur, entry, next_entry, head} \subseteq Conns \cup {NULL}
  /\ chunks \in [Conns -> 0 .. MaxChunks]
  /\ tinfo \in [Conns -> {"none", "live", "freed"}]
  /\ le_next \in [Conns -> Conns \cup {NULL}]
  /\ le_prev \in [Conns -> Conns \cup {ListHead}]
  /\ file_mutex \in Conns \cup {NoOwner}
  /\ list_mutex \in {Main, NoOwner}

\* The connection main is busy with has a block and no thread; main joins one
\* that exists.
Accepting == {"insert", "create", "u_remove", "u_free"}

MainShape ==
  /\ mpc \in Accepting
       => cur \in Conns /\ tinfo[cur] = "live" /\ pc[cur] = "none"
  /\ mpc \in {"join", "joining"} => entry \in Conns

\* A thread has its block until it has freed it itself; only a cancelled one
\* is where the handler begins.
ThreadShape ==
  \A c \in Conns :
    /\ pc[c] \notin {"none", "ended"} => tinfo[c] = "live"
    /\ pc[c] = "ended" => tinfo[c] # "none"
    /\ pc[c] = "c_close" => cancelled[c]

ControlInv == MutexInv /\ ControlTypes /\ MainShape /\ ThreadShape

\* The server starts so.
LEMMA ControlInvInit == Init => ControlInv
<1> SUFFICES ASSUME Init PROVE ControlInv
  OBVIOUS
<1>1. MutexInv
  BY MutexInvInit
<1>2. ControlTypes
  <2>1. 0 \in 0 .. MaxChunks /\ NULL \in Conns \cup {NULL}
    OBVIOUS
  <2> QED
    BY <2>1 DEF Init, ControlTypes, MainLabels
<1>3. MainShape /\ ThreadShape
  BY DEF Init, MainShape, ThreadShape, Accepting
<1> QED
  BY <1>1, <1>2, <1>3 DEF ControlInv

\* What handle_client does to the control state: the thread moves on.
Moves(c, label) ==
  /\ label \in Labels \ ({"none", "ended"} \cup Cleaning) /\ Goto(c, label)
  /\ pc[c] \in Labels \ {"none", "ended", "c_remove", "c_free"}
  /\ chunks' \in [Conns -> 0 .. MaxChunks]
  /\ file_mutex' \in {c, NoOwner, file_mutex}
  /\ UNCHANGED outer

\* Each of its calls is such a move.
LEMMA ServingMoves ==
  ASSUME ControlInv, NEW c \in Conns,
         \/ OpenFile(c) \/ RecvChunk(c) \/ RecvEnd(c) \/ Ioctl(c)
         \/ SeekRead(c) \/ SeekSend(c) \/ SeekClose(c)
         \/ LockFile(c) \/ NoFile(c) \/ Write(c) \/ CloseFile(c)
         \/ OpenRead(c) \/ Read(c) \/ Send(c) \/ CloseRead(c)
  PROVE  \E label \in Labels : Moves(c, label)
<1> DEFINE Inside == {"open", "recv", "ioctl", "seek_read", "seek_send",
                      "seek_close", "lock_file", "no_file", "write",
                      "w_close", "w_close_err", "open_read", "read", "send",
                      "r_close"}
           Onward == Inside \cup {"exit"}
<1>1. /\ Inside \subseteq Labels \ {"none", "ended", "c_remove", "c_free"}
      /\ Onward \subseteq Labels \ ({"none", "ended"} \cup Cleaning)
  BY DEF Labels, CancelPoints, FileCritical, Cleaning
<1>2. chunks \in [Conns -> 0 .. MaxChunks] /\ MaxChunks \in Nat
  BY DEF ControlInv, ControlTypes
<1> SUFFICES \E label \in Onward :
               /\ pc[c] \in Inside /\ Goto(c, label)
               /\ chunks' \in [Conns -> 0 .. MaxChunks]
               /\ file_mutex' \in {c, NoOwner, file_mutex}
               /\ UNCHANGED outer
  BY <1>1 DEF Moves
<1>3. CASE OpenFile(c)
  BY <1>2, <1>3 DEF OpenFile, Runs, At, input
<1>4. CASE RecvChunk(c)
  <2>1. chunks' \in [Conns -> 0 .. MaxChunks]
    BY <1>2, <1>4 DEF RecvChunk
  <2>2. PICK chunk \in Chunks[c] : Goto(c, HandlerOf(c, chunk))
    BY <1>4 DEF RecvChunk
  <2>3. HandlerOf(c, chunk) \in Onward
    BY DEF HandlerOf
  <2> QED
    BY <1>4, <2>1, <2>2, <2>3 DEF RecvChunk, Runs, At
<1>5. CASE RecvEnd(c)
  BY <1>2, <1>5 DEF RecvEnd, Runs, At, input
<1>6. CASE Ioctl(c)
  BY <1>2, <1>6 DEF Ioctl, Runs, At, input
<1>7. CASE SeekRead(c)
  BY <1>2, <1>7 DEF SeekRead, ReadDevice, Runs, At, input
<1>8. CASE SeekSend(c)
  BY <1>2, <1>8 DEF SeekSend, Runs, At, input
<1>9. CASE SeekClose(c)
  BY <1>2, <1>9 DEF SeekClose, Runs, At, input
<1>10. CASE LockFile(c)
  <2>1. Locked(c) \in Onward
    BY DEF Locked
  <2> QED
    BY <1>2, <1>10, <2>1 DEF LockFile, At, input
<1>11. CASE NoFile(c)
  BY <1>2, <1>11 DEF NoFile, Runs, At, input
<1>12. CASE Write(c)
  <2>1. /\ pc[c] = "write" /\ UNCHANGED <<outer, chunks, file_mutex>>
        /\ \E label \in {"w_close", "w_close_err"} : Goto(c, label)
    BY <1>12 DEF Write, Runs, At, input
  <2> QED
    BY <1>2, <2>1
<1>13. CASE CloseFile(c)
  BY <1>2, <1>13 DEF CloseFile, Runs, At, input
<1>14. CASE OpenRead(c)
  BY <1>2, <1>14 DEF OpenRead, Runs, At, input
<1>15. CASE Read(c)
  BY <1>2, <1>15 DEF Read, ReadDevice, Runs, At, input
<1>16. CASE Send(c)
  BY <1>2, <1>16 DEF Send, Runs, At, input
<1>17. CASE CloseRead(c)
  BY <1>2, <1>17 DEF CloseRead, Runs, At, input
<1> QED
  BY <1>3, <1>4, <1>5, <1>6, <1>7, <1>8, <1>9, <1>10, <1>11, <1>12, <1>13,
     <1>14, <1>15, <1>16, <1>17
\* So it keeps the control state.
LEMMA MovesKeepControl ==
  ASSUME ControlInv, MutexInv', NEW c \in Conns, NEW label \in Labels,
         Moves(c, label)
  PROVE  ControlInv'
<1>1. pc'[c] = label /\ \A d \in Conns \ {c} : pc'[d] = pc[d]
  BY DEF ControlInv, MutexInv, Moves, Goto
<1>2. ControlTypes'
  BY DEF ControlInv, ControlTypes, Moves, outer, main, list, links
<1>3. MainShape'
  BY <1>1 DEF ControlInv, MainShape, Moves, outer, main, list
<1>4. ThreadShape'
  BY <1>1 DEF ControlInv, ThreadShape, Moves, Cleaning, outer, main, list
<1> QED
  BY <1>2, <1>3, <1>4 DEF ControlInv

\* Pointers stay pointers through the macros of sys/queue.h.
LEMMA InsertTypes ==
  ASSUME ControlTypes, NEW c \in Conns, ListInsertHead(c)
  PROVE  /\ head' \in Conns \cup {NULL}
         /\ le_next' \in [Conns -> Conns \cup {NULL}]
         /\ le_prev' \in [Conns -> Conns \cup {ListHead}]
BY DEF ControlTypes, ListInsertHead

\* ... through LIST_REMOVE too.
LEMMA RemoveTypes ==
  ASSUME ControlTypes, NEW c \in Conns, ListRemove(c)
  PROVE  /\ head' \in Conns \cup {NULL}
         /\ le_next' \in [Conns -> Conns \cup {NULL}]
         /\ le_prev' \in [Conns -> Conns \cup {ListHead}]
BY DEF ControlTypes, ListRemove

\* The end of a thread.
LEMMA CleanupKeepsControl ==
  ASSUME ControlInv, MutexInv', NEW c \in Conns,
         \/ ActOnCancel(c) \/ CleanupClose(c) \/ CancelledInCleanup(c)
         \/ CleanupRemove(c) \/ CleanupFree(c)
  PROVE  ControlInv'
<1>t. ControlTypes /\ pc \in [Conns -> Labels] /\ MainShape /\ ThreadShape
  BY DEF ControlInv, MutexInv
<1>q. \A label : Goto(c, label) => /\ pc'[c] = label
                                   /\ \A d \in Conns \ {c} : pc'[d] = pc[d]
  BY <1>t DEF Goto
<1>1. CASE ActOnCancel(c)
  <2>1. pc[c] \notin {"none", "ended"} /\ cancelled[c] /\ Goto(c, "c_close")
    BY <1>1 DEF ActOnCancel, CancelPoints
  <2>2. UNCHANGED <<outer, chunks, file_mutex>>
    BY <1>1 DEF ActOnCancel, input
  <2>3. ControlTypes'
    BY <1>t, <2>2 DEF ControlTypes, outer, main, list, links
  <2>4. MainShape' /\ ThreadShape'
    BY <1>t, <1>q, <2>1, <2>2 DEF MainShape, ThreadShape, Accepting, outer, main, list
  <2> QED
    BY <2>3, <2>4 DEF ControlInv
<1>2. CASE CleanupClose(c)
  <2>1. pc[c] \notin {"none", "ended"} /\ Goto(c, "c_remove")
    BY <1>2 DEF CleanupClose, At
  <2>2. UNCHANGED <<outer, chunks, file_mutex>>
    BY <1>2 DEF CleanupClose, input
  <2>3. ControlTypes'
    BY <1>t, <2>2 DEF ControlTypes, outer, main, list, links
  <2>4. MainShape' /\ ThreadShape'
    BY <1>t, <1>q, <2>1, <2>2 DEF MainShape, ThreadShape, Accepting, outer, main, list
  <2> QED
    BY <2>3, <2>4 DEF ControlInv
<1>3. CASE CancelledInCleanup(c)
  <2>1. pc[c] \notin {"none", "ended"} /\ Goto(c, "ended")
    BY <1>3 DEF CancelledInCleanup, At
  <2>2. UNCHANGED <<outer, chunks, file_mutex>>
    BY <1>3 DEF CancelledInCleanup, input
  <2>3. ControlTypes'
    BY <1>t, <2>2 DEF ControlTypes, outer, main, list, links
  <2>4. MainShape' /\ ThreadShape'
    BY <1>t, <1>q, <2>1, <2>2 DEF MainShape, ThreadShape, Accepting, outer, main, list
  <2> QED
    BY <2>3, <2>4 DEF ControlInv
<1>4. CASE CleanupRemove(c)
  <2>1. pc[c] \notin {"none", "ended"} /\ Goto(c, "c_free") /\ ListRemove(c)
    BY <1>4 DEF CleanupRemove, At
  <2>2. UNCHANGED <<stopping, mpc, cur, chunks, tinfo, mutexes>>
    BY <1>4 DEF CleanupRemove, input
  <2>3. ControlTypes'
    BY <1>t, <2>1, <2>2, RemoveTypes DEF ControlTypes, stopping, mutexes
  <2>4. MainShape' /\ ThreadShape'
    BY <1>t, <1>q, <2>1, <2>2 DEF MainShape, ThreadShape, Accepting, stopping
  <2> QED
    BY <2>3, <2>4 DEF ControlInv
<1>5. CASE CleanupFree(c)
  <2>1. pc[c] = "c_free" /\ Goto(c, "ended")
        /\ tinfo' = [tinfo EXCEPT ![c] = "freed"]
    BY <1>5 DEF CleanupFree, At
  <2>2. UNCHANGED <<stopping, mpc, cur, chunks, links, mutexes>>
    BY <1>5 DEF CleanupFree, input
  <2>3. tinfo' \in [Conns -> {"none", "live", "freed"}] /\ tinfo'[c] = "freed"
        /\ \A d \in Conns \ {c} : tinfo'[d] = tinfo[d]
    BY <1>t, <2>1 DEF ControlTypes
  <2>4. ControlTypes'
    BY <1>t, <2>2, <2>3 DEF ControlTypes, stopping, links, mutexes
  <2>5. MainShape'
    <3>1. ASSUME mpc \in Accepting PROVE cur # c
      BY <1>t, <2>1, <3>1 DEF MainShape
    <3> QED
      BY <1>t, <1>q, <2>1, <2>2, <2>3, <3>1 DEF MainShape, stopping
  <2>6. ThreadShape'
    BY <1>t, <1>q, <2>1, <2>2, <2>3 DEF ThreadShape, stopping
  <2> QED
    BY <2>4, <2>5, <2>6 DEF ControlInv
<1> QED
  BY <1>1, <1>2, <1>3, <1>4, <1>5

\* main, up to the shutdown.
LEMMA AcceptingKeepsControl ==
  ASSUME ControlInv, MutexInv',
         \/ \E c \in Conns : Accept(c)
         \/ Insert \/ Create \/ UndoRemove \/ UndoFree
  PROVE  ControlInv'
<1>t. ControlTypes /\ pc \in [Conns -> Labels] /\ MainShape /\ ThreadShape
  BY DEF ControlInv, MutexInv
<1>1. ASSUME NEW c \in Conns, Accept(c) PROVE ControlInv'
  <2>1. /\ pc[c] = "none" /\ tinfo[c] = "none" /\ cur' = c /\ mpc' = "insert"
        /\ tinfo' = [tinfo EXCEPT ![c] = "live"]
        /\ UNCHANGED <<stopping, thread, links, mutexes>>
    BY <1>1 DEF Accept, At, MainGoto
  <2>2. tinfo' \in [Conns -> {"none", "live", "freed"}] /\ tinfo'[c] = "live"
        /\ \A d \in Conns \ {c} : tinfo'[d] = tinfo[d]
    BY <1>t, <2>1 DEF ControlTypes
  <2>3. ControlTypes'
    BY <1>t, <2>1, <2>2 DEF ControlTypes, MainLabels, stopping, thread, input, links, mutexes
  <2>4. MainShape'
    BY <2>1, <2>2 DEF MainShape, Accepting, thread
  <2>5. ThreadShape'
    BY <1>t, <2>1, <2>2 DEF ThreadShape, thread, stopping
  <2> QED
    BY <2>3, <2>4, <2>5 DEF ControlInv
<1>2. CASE Insert
  <2>1. /\ mpc = "insert" /\ mpc' = "create" /\ ListInsertHead(cur)
        /\ UNCHANGED <<stopping, thread, cur, tinfo, file_mutex, list_mutex>>
    BY <1>2 DEF Insert, MainAt, MainGoto, threads
  <2>2. cur \in Conns
    BY <1>t, <2>1 DEF MainShape, Accepting
  <2>3. ControlTypes'
    BY <1>t, <2>1, <2>2, InsertTypes DEF ControlTypes, MainLabels, stopping, thread, input
  <2>4. MainShape' /\ ThreadShape'
    BY <1>t, <2>1 DEF MainShape, ThreadShape, Accepting, thread, stopping
  <2> QED
    BY <2>3, <2>4 DEF ControlInv
<1>3. CASE Create
  <2>1. /\ mpc = "create" /\ UNCHANGED <<stopping, cur, chunks, list, mutexes>>
        /\ mpc' \in {"accept", "u_remove"}
        /\ mpc' = "accept" => Goto(cur, "open")
        /\ mpc' = "u_remove" => UNCHANGED pc
    BY <1>3 DEF Create, MainAt, MainGoto, input
  <2>2. cur \in Conns /\ tinfo[cur] = "live" /\ pc[cur] = "none"
    BY <1>t, <2>1 DEF MainShape, Accepting
  <2>3. ControlTypes'
    BY <1>t, <2>1 DEF ControlTypes, MainLabels, stopping, list, links, mutexes
  <2>4. MainShape'
    BY <2>1, <2>2 DEF MainShape, Accepting, list
  <2>5. ThreadShape'
    <3>1. CASE mpc' = "accept"
      <4>1. pc'[cur] = "open" /\ \A d \in Conns \ {cur} : pc'[d] = pc[d]
        BY <1>t, <2>1, <2>2, <3>1 DEF Goto
      <4> QED
        BY <1>t, <2>1, <2>2, <4>1 DEF ThreadShape, stopping, list
    <3>2. CASE mpc' = "u_remove"
      BY <1>t, <2>1, <3>2 DEF ThreadShape, stopping, list
    <3> QED
      BY <2>1, <3>1, <3>2
  <2> QED
    BY <2>3, <2>4, <2>5 DEF ControlInv
<1>4. CASE UndoRemove
  <2>1. /\ mpc = "u_remove" /\ mpc' = "u_free" /\ ListRemove(cur)
        /\ UNCHANGED <<stopping, thread, cur, tinfo, file_mutex, list_mutex>>
    BY <1>4 DEF UndoRemove, MainAt, MainGoto, threads
  <2>2. cur \in Conns
    BY <1>t, <2>1 DEF MainShape, Accepting
  <2>3. ControlTypes'
    BY <1>t, <2>1, <2>2, RemoveTypes DEF ControlTypes, MainLabels, stopping, thread, input
  <2>4. MainShape' /\ ThreadShape'
    BY <1>t, <2>1 DEF MainShape, ThreadShape, Accepting, thread, stopping
  <2> QED
    BY <2>3, <2>4 DEF ControlInv
<1>5. CASE UndoFree
  <2>1. /\ mpc = "u_free" /\ mpc' = "accept"
        /\ tinfo' = [tinfo EXCEPT ![cur] = "freed"]
        /\ UNCHANGED <<stopping, thread, cur, links, mutexes>>
    BY <1>5 DEF UndoFree, MainAt, MainGoto
  <2>2. cur \in Conns /\ pc[cur] = "none"
    BY <1>t, <2>1 DEF MainShape, Accepting
  <2>3. tinfo' \in [Conns -> {"none", "live", "freed"}] /\ tinfo'[cur] = "freed"
        /\ \A d \in Conns \ {cur} : tinfo'[d] = tinfo[d]
    BY <1>t, <2>1, <2>2 DEF ControlTypes
  <2>4. ControlTypes'
    BY <1>t, <2>1, <2>3 DEF ControlTypes, MainLabels, stopping, thread, input, links, mutexes
  <2>5. MainShape'
    BY <2>1 DEF MainShape, Accepting
  <2>6. ThreadShape'
    BY <1>t, <2>1, <2>2, <2>3 DEF ThreadShape, thread, stopping
  <2> QED
    BY <2>4, <2>5, <2>6 DEF ControlInv
<1> QED
  BY <1>1, <1>2, <1>3, <1>4, <1>5

\* A signal, and the shutdown.
LEMMA ShutdownKeepsControl ==
  ASSUME ControlInv, MutexInv',
         \/ Signal \/ StopLock \/ Cancel \/ LoopEnds \/ Join \/ Reap
         \/ UseAfterFree
  PROVE  ControlInv'
<1>t. ControlTypes /\ pc \in [Conns -> Labels] /\ MainShape /\ ThreadShape
      /\ cancelled \in [Conns -> BOOLEAN]
  BY DEF ControlInv, MutexInv
<1>1. CASE Signal \/ UseAfterFree
  <2>1. /\ UNCHANGED <<threads, main, cancelled, list, list_mutex>>
        /\ terminate_program' \in BOOLEAN /\ ub' \in BOOLEAN
    BY <1>t, <1>1 DEF Signal, UseAfterFree, ControlTypes
  <2>2. ControlTypes'
    BY <1>t, <2>1 DEF ControlTypes, threads, thread, input, main, list, links
  <2>3. MainShape' /\ ThreadShape'
    BY <1>t, <2>1 DEF MainShape, ThreadShape, threads, thread, main, list
  <2> QED
    BY <2>2, <2>3 DEF ControlInv
<1>2. CASE StopLock \/ LoopEnds \/ Join
  <2>1. /\ UNCHANGED <<terminate_program, ub, threads, cur, next_entry, cancelled, list>>
        /\ mpc' \in {"loop", "exit", "joining"}
        /\ list_mutex' \in {Main, NoOwner}
        /\ entry' \in {head, entry}
        /\ mpc' = "joining" => entry' = entry /\ mpc = "join"
    BY <1>t, <1>2 DEF StopLock, LoopEnds, Join, MainAt, MainGoto, stopping, ControlTypes
  <2>2. ControlTypes'
    BY <1>t, <2>1 DEF ControlTypes, MainLabels, threads, thread, input, list, links
  <2>3. MainShape' /\ ThreadShape'
    BY <1>t, <2>1 DEF MainShape, ThreadShape, Accepting, threads, thread, list
  <2> QED
    BY <2>2, <2>3 DEF ControlInv
<1>3. CASE Cancel
  <2>1. /\ entry # NULL /\ next_entry' = le_next[entry] /\ mpc' = "join"
        /\ list_mutex' = NoOwner
        /\ cancelled' = [cancelled EXCEPT ![entry] = TRUE]
        /\ UNCHANGED <<terminate_program, ub, threads, cur, entry, list>>
    BY <1>3 DEF Cancel, NextOf, MainGoto
  <2>2. entry \in Conns /\ next_entry' \in Conns \cup {NULL}
    BY <1>t, <2>1 DEF ControlTypes
  <2>3. ControlTypes'
    BY <1>t, <2>1, <2>2 DEF ControlTypes, MainLabels, threads, thread, input, list, links
  <2>4. \A c \in Conns : cancelled[c] => cancelled'[c]
    BY <1>t, <2>1, <2>2
  <2>5. MainShape' /\ ThreadShape'
    BY <1>t, <2>1, <2>2, <2>4 DEF MainShape, ThreadShape, Accepting, threads, thread, list
  <2> QED
    BY <2>3, <2>5 DEF ControlInv
<1>4. CASE Reap
  <2>1. /\ mpc = "joining" /\ pc[entry] = "ended"
        /\ ListRemove(entry) /\ tinfo' = [tinfo EXCEPT ![entry] = "freed"]
        /\ list_mutex' = Main /\ entry' = next_entry /\ mpc' = "loop"
        /\ UNCHANGED <<terminate_program, ub, threads, cur, next_entry, cancelled>>
    BY <1>4 DEF Reap, At, MainAt, MainGoto
  <2>2. entry \in Conns
    BY <1>t, <2>1 DEF MainShape
  <2>3. tinfo' \in [Conns -> {"none", "live", "freed"}] /\ tinfo'[entry] = "freed"
        /\ \A d \in Conns \ {entry} : tinfo'[d] = tinfo[d]
    BY <1>t, <2>1, <2>2 DEF ControlTypes
  <2>4. ControlTypes'
    BY <1>t, <2>1, <2>2, <2>3, RemoveTypes DEF ControlTypes, MainLabels, threads, thread, input
  <2>5. MainShape'
    BY <2>1 DEF MainShape, Accepting
  <2>6. ThreadShape'
    BY <1>t, <2>1, <2>2, <2>3 DEF ThreadShape, threads, thread
  <2> QED
    BY <2>4, <2>5, <2>6 DEF ControlInv
<1> QED
  BY <1>1, <1>2, <1>3, <1>4

\* Every step of the server.
LEMMA NextKeepsControl ==
  ASSUME ControlInv, [Next]_vars
  PROVE  ControlInv'
<1>1. MutexInv'
  BY NextKeepsMutexInv DEF ControlInv
<1>2. CASE UNCHANGED vars
  BY <1>1, <1>2 DEF ControlInv, ControlTypes, MainShape, ThreadShape,
     vars, main, thread, input, list, links, mutexes
<1>3. ASSUME NEW c \in Conns, Serve(c) \/ Client(c)
      PROVE  ControlInv'
  BY <1>1, <1>3, ServingMoves, MovesKeepControl, CleanupKeepsControl,
     AcceptingKeepsControl DEF Serve, Client
<1>4. CASE MainStep \/ Signal
  BY <1>1, <1>4, AcceptingKeepsControl, ShutdownKeepsControl DEF MainStep
<1> QED
  BY <1>2, <1>3, <1>4 DEF Next
-----------------------------------------------------------------------------
(***************************************************************************)
(* The list of threads.                                                    *)
(***************************************************************************)

\* The blocks in L, in that order, are what the pointers lead through.
Chain(n, L) ==
  /\ n \in Nat /\ L \in [1 .. n -> Conns]
  /\ \A i, j \in 1 .. n : L[i] = L[j] => i = j
  /\ head = IF n = 0 THEN NULL ELSE L[1]
  /\ \A i \in 1 .. n :
       /\ le_next[L[i]] = IF i = n THEN NULL ELSE L[i + 1]
       /\ le_prev[L[i]] = IF i = 1 THEN ListHead ELSE L[i - 1]

Covers(n, L, S) == S = {L[i] : i \in 1 .. n}

\* LIST_INSERT_HEAD puts a new block in front.
LEMMA ChainInsert ==
  ASSUME ControlTypes, NEW n, NEW L, Chain(n, L), NEW S, Covers(n, L, S),
         NEW c \in Conns \ S, ListInsertHead(c)
  PROVE  \E m, K : Chain(m, K)' /\ Covers(m, K, S \cup {c})
<1> DEFINE K == [i \in 1 .. n + 1 |-> IF i = 1 THEN c ELSE L[i - 1]]
<1>1. /\ n \in Nat /\ L \in [1 .. n -> Conns]
      /\ \A i, j \in 1 .. n : L[i] = L[j] => i = j
      /\ \A i \in 1 .. n : L[i] # c
  BY DEF Chain, Covers
<1>2. /\ head' = c
      /\ \A d \in Conns : le_next'[d] = IF d = c THEN head ELSE le_next[d]
      /\ \A d \in Conns : le_prev'[d] = IF d = c THEN ListHead
                                        ELSE IF d = head THEN c ELSE le_prev[d]
  BY DEF ListInsertHead, ControlTypes
<1>3. K[1] = c /\ \A i \in 2 .. n + 1 : K[i] = L[i - 1] /\ i - 1 \in 1 .. n
  BY <1>1
<1>4. K \in [1 .. n + 1 -> Conns]
  BY <1>1
<1> HIDE DEF K
<1>5. \A i, j \in 1 .. n + 1 : K[i] = K[j] => i = j
  <2> SUFFICES ASSUME NEW i \in 1 .. n + 1, NEW j \in 1 .. n + 1, K[i] = K[j]
               PROVE  i = j
    OBVIOUS
  <2>1. CASE i = 1 \/ j = 1
    BY <1>1, <1>3, <2>1
  <2>2. CASE i # 1 /\ j # 1
    <3>1. i \in 2 .. n + 1 /\ j \in 2 .. n + 1
      BY <1>1, <2>2
    <3>2. L[i - 1] = L[j - 1] /\ i - 1 \in 1 .. n /\ j - 1 \in 1 .. n
      BY <1>3, <3>1
    <3>3. i - 1 = j - 1
      BY <1>1, <3>2
    <3> QED
      BY <1>1, <3>3
  <2> QED
    BY <2>1, <2>2
<1>6. ASSUME NEW i \in 1 .. n + 1
      PROVE  /\ le_next'[K[i]] = IF i = n + 1 THEN NULL ELSE K[i + 1]
             /\ le_prev'[K[i]] = IF i = 1 THEN ListHead ELSE K[i - 1]
  <2>1. CASE i = 1
    <3>1. le_next'[c] = head /\ le_prev'[c] = ListHead
      BY <1>2
    <3>2. n # 0 => 2 \in 2 .. n + 1
      BY <1>1
    <3>3. n # 0 => K[2] = L[1]
      BY <1>3, <3>2
    <3> QED
      BY <1>1, <1>3, <2>1, <3>1, <3>3 DEF Chain
  <2>2. CASE i # 1
    <3> DEFINE j == i - 1
    <3>1. i \in 2 .. n + 1 /\ j \in 1 .. n /\ K[i] = L[j] /\ j + 1 = i /\ j \in Int
      BY <1>1, <1>3, <2>2
    <3>2. L[j] \in Conns /\ L[j] # c
      BY <1>1, <3>1
    <3>3. le_next[L[j]] = IF j = n THEN NULL ELSE L[j + 1]
      BY <3>1 DEF Chain
    <3>4. le_next'[L[j]] = le_next[L[j]]
      BY <1>2, <3>2
    <3>5. j # n => i + 1 \in 2 .. n + 1
      BY <1>1, <3>1
    <3>6. j # n => K[i + 1] = L[j + 1]
      BY <1>3, <3>1, <3>5
    <3>7. le_next'[K[i]] = IF i = n + 1 THEN NULL ELSE K[i + 1]
      BY <1>1, <3>1, <3>3, <3>4, <3>6
    <3>8. le_prev[L[j]] = IF j = 1 THEN ListHead ELSE L[j - 1]
      BY <3>1 DEF Chain
    <3>9. le_prev'[L[j]] = IF L[j] = head THEN c ELSE le_prev[L[j]]
      BY <1>2, <3>2
    <3>10. head = L[1] /\ 1 \in 1 .. n
      BY <1>1, <3>1 DEF Chain
    <3>11. CASE j = 1
      BY <1>3, <3>1, <3>9, <3>10, <3>7, <3>11
    <3>12. CASE j # 1
      <4>1. L[j] # head
        BY <1>1, <3>1, <3>10, <3>12
      <4>2. i - 1 \in 2 .. n + 1
        BY <1>1, <3>1, <3>12
      <4>3. K[i - 1] = L[j - 1]
        BY <1>3, <4>2
      <4> QED
        BY <2>2, <3>1, <3>7, <3>8, <3>9, <3>12, <4>1, <4>3
    <3> QED
      BY <3>11, <3>12
  <2> QED
    BY <2>1, <2>2
<1>7. n + 1 \in Nat /\ n + 1 # 0
  BY <1>1
<1>8. Chain(n + 1, K)'
  BY <1>2, <1>3, <1>4, <1>5, <1>6, <1>7 DEF Chain
<1>9. Covers(n + 1, K, S \cup {c})
  <2>1. ASSUME NEW i \in 1 .. n + 1 PROVE K[i] \in S \cup {c}
    <3>1. CASE i = 1
      BY <1>3, <3>1
    <3>2. CASE i # 1
      <4>1. i \in 2 .. n + 1
        BY <1>1, <3>2
      <4> QED
        BY <1>3, <4>1 DEF Covers
    <3> QED
      BY <3>1, <3>2
  <2>2. ASSUME NEW d \in S \cup {c} PROVE \E i \in 1 .. n + 1 : K[i] = d
    <3>1. CASE d = c
      BY <1>1, <1>3, <3>1
    <3>2. CASE d # c
      <4>1. PICK j \in 1 .. n : L[j] = d
        BY <3>2 DEF Covers
      <4>2. j + 1 \in 2 .. n + 1 /\ j + 1 \in 1 .. n + 1 /\ (j + 1) - 1 = j
        BY <1>1
      <4> QED
        BY <1>3, <4>1, <4>2
    <3> QED
      BY <3>1, <3>2
  <2> QED
    BY <2>1, <2>2 DEF Covers
<1> QED
  BY <1>8, <1>9
\* LIST_REMOVE takes a block out from wherever it is.
LEMMA ChainRemove ==
  ASSUME ControlTypes, NEW n, NEW L, Chain(n, L), NEW S, Covers(n, L, S),
         NEW c \in S, ListRemove(c)
  PROVE  \E m, K : Chain(m, K)' /\ Covers(m, K, S \ {c})
<1>1. /\ n \in Nat /\ L \in [1 .. n -> Conns]
      /\ \A i, j \in 1 .. n : L[i] = L[j] => i = j
      /\ NULL \notin Conns /\ ListHead \notin Conns
  BY DEF Chain
<1>2. PICK k \in 1 .. n : L[k] = c
  BY DEF Covers
<1> DEFINE K == [i \in 1 .. n - 1 |-> IF i < k THEN L[i] ELSE L[i + 1]]
           at(i) == IF i < k THEN i ELSE i + 1
<1>3. c \in Conns /\ n # 0 /\ n - 1 \in Nat /\ k \in Int
  BY <1>1, <1>2
<1>4. /\ head' = IF le_prev[c] = ListHead THEN le_next[c] ELSE head
      /\ \A d \in Conns : le_next'[d] = IF d = le_prev[c] THEN le_next[c] ELSE le_next[d]
      /\ \A d \in Conns : le_prev'[d] = IF d = le_next[c] THEN le_prev[c] ELSE le_prev[d]
  BY DEF ListRemove, ControlTypes
<1>5. /\ le_next[c] = IF k = n THEN NULL ELSE L[k + 1]
      /\ le_prev[c] = IF k = 1 THEN ListHead ELSE L[k - 1]
      /\ head = L[1]
  BY <1>2, <1>3 DEF Chain
<1>6. \A i \in 1 .. n - 1 : at(i) \in 1 .. n /\ at(i) # k
  BY <1>1, <1>2
<1>7. \A i \in 1 .. n - 1 : K[i] = L[at(i)]
  OBVIOUS
<1>8. K \in [1 .. n - 1 -> Conns]
  <2>1. \A i \in 1 .. n - 1 : L[at(i)] \in Conns
    BY <1>1, <1>6
  <2>2. K = [i \in 1 .. n - 1 |-> L[at(i)]]
    OBVIOUS
  <2> HIDE DEF K, at
  <2> QED
    BY <2>1, <2>2
<1>9. \A i, j \in 1 .. n - 1 : at(i) = at(j) => i = j
  BY <1>1, <1>2
<1>10. \A i \in 1 .. n - 1 :
         /\ i = n - 1 => at(i) = n \/ (k = n /\ at(i) = k - 1)
         /\ i # n - 1 => i + 1 \in 1 .. n - 1 /\ at(i) # n
         /\ i = 1 => at(i) = 1 \/ (k = 1 /\ at(i) = k + 1)
         /\ i # 1 => i - 1 \in 1 .. n - 1 /\ at(i) # 1
  BY <1>1, <1>2
<1>11. \A i \in 1 .. n - 1 : i # n - 1 => at(i + 1) = IF at(i) = k - 1 THEN k + 1 ELSE at(i) + 1
  BY <1>1, <1>2
<1>12. \A i \in 1 .. n - 1 : i # 1 => at(i - 1) = IF at(i) = k + 1 THEN k - 1 ELSE at(i) - 1
  BY <1>1, <1>2
<1>13. n - 1 # 0 => at(1) = IF k = 1 THEN 2 ELSE 1
  BY <1>1, <1>2
<1>14. \A i \in 1 .. n - 1 : at(i) = k - 1 /\ i = n - 1 => k = n
  BY <1>1, <1>2
<1>15. \A i \in 1 .. n - 1 : at(i) = k + 1 /\ i = 1 => k = 1
  BY <1>1, <1>2
<1> HIDE DEF K, at
<1>16. \A i, j \in 1 .. n - 1 : K[i] = K[j] => i = j
  BY <1>1, <1>6, <1>7, <1>9
<1>17. head' = IF n - 1 = 0 THEN NULL ELSE K[1]
  <2>1. CASE n - 1 = 0
    <3>1. k = 1 /\ k = n
      BY <1>1, <1>2, <2>1
    <3> QED
      BY <1>4, <1>5, <2>1, <3>1
  <2>2. CASE n - 1 # 0
    <3>1. 1 \in 1 .. n - 1 /\ (k = 1 => k # n /\ k + 1 = 2)
      BY <1>1, <1>2, <2>2
    <3>2. K[1] = L[at(1)]
      BY <1>7, <3>1
    <3>3. k # 1 => L[k - 1] # ListHead
      BY <1>1, <1>2
    <3> QED
      BY <1>4, <1>5, <1>13, <2>2, <3>1, <3>2, <3>3
  <2> QED
    BY <2>1, <2>2
<1>18. ASSUME NEW i \in 1 .. n - 1
       PROVE  /\ le_next'[K[i]] = IF i = n - 1 THEN NULL ELSE K[i + 1]
              /\ le_prev'[K[i]] = IF i = 1 THEN ListHead ELSE K[i - 1]
  <2> DEFINE a == at(i)
             d == L[a]
  <2>1. a \in 1 .. n /\ a # k /\ K[i] = d /\ d \in Conns /\ d # c
    BY <1>1, <1>2, <1>6, <1>7
  <2>2. /\ le_next[d] = IF a = n THEN NULL ELSE L[a + 1]
        /\ le_prev[d] = IF a = 1 THEN ListHead ELSE L[a - 1]
    BY <2>1 DEF Chain
  <2>3. d = le_prev[c] <=> a = k - 1
    <3>1. CASE k = 1
      BY <1>1, <1>5, <2>1, <3>1
    <3>2. CASE k # 1
      <4>1. k - 1 \in 1 .. n /\ le_prev[c] = L[k - 1]
        BY <1>1, <1>2, <1>5, <3>2
      <4> QED
        BY <1>1, <2>1, <4>1
    <3> QED
      BY <3>1, <3>2
  <2>4. d = le_next[c] <=> a = k + 1
    <3>1. CASE k = n
      BY <1>1, <1>5, <2>1, <3>1
    <3>2. CASE k # n
      <4>1. k + 1 \in 1 .. n /\ le_next[c] = L[k + 1]
        BY <1>1, <1>2, <1>5, <3>2
      <4> QED
        BY <1>1, <2>1, <4>1
    <3> QED
      BY <3>1, <3>2
  <2>5. le_next'[d] = (IF a = k - 1 THEN le_next[c] ELSE le_next[d])
        /\ le_prev'[d] = IF a = k + 1 THEN le_prev[c] ELSE le_prev[d]
    BY <1>4, <2>1, <2>3, <2>4
  <2>6. i # n - 1 => K[i + 1] = L[at(i + 1)]
    BY <1>7, <1>10
  <2>7. i # 1 => K[i - 1] = L[at(i - 1)]
    BY <1>7, <1>10
  <2>8. a \in Int /\ k \in Int /\ n \in Int /\ i \in Int
    BY <1>1, <1>2, <2>1
  <2>9. /\ i = n - 1 => a = n \/ (k = n /\ a = k - 1)
        /\ i # n - 1 => a # n
        /\ i = 1 => a = 1 \/ (k = 1 /\ a = k + 1)
        /\ i # 1 => a # 1
        /\ i # n - 1 => at(i + 1) = IF a = k - 1 THEN k + 1 ELSE a + 1
        /\ i # 1 => at(i - 1) = IF a = k + 1 THEN k - 1 ELSE a - 1
    BY <1>10, <1>11, <1>12
  <2>10. (i # n - 1 /\ a = k - 1 => k # n) /\ (i # 1 /\ a = k + 1 => k # 1)
         /\ (a = n => a # k - 1) /\ (a = 1 => a # k + 1)
    BY <1>1, <1>2, <1>6, <1>10, <2>8 DEF at
  <2> HIDE DEF a, d
  <2>11. le_next'[d] = IF i = n - 1 THEN NULL ELSE K[i + 1]
    BY <1>5, <2>2, <2>5, <2>6, <2>9, <2>10
  <2>12. le_prev'[d] = IF i = 1 THEN ListHead ELSE K[i - 1]
    BY <1>5, <2>2, <2>5, <2>7, <2>9, <2>10
  <2> QED
    BY <2>1, <2>11, <2>12
<1>19. Chain(n - 1, K)'
  BY <1>3, <1>8, <1>16, <1>17, <1>18 DEF Chain
<1>20. Covers(n - 1, K, S \ {c})
  <2>1. ASSUME NEW i \in 1 .. n - 1 PROVE K[i] \in S \ {c}
    BY <1>1, <1>2, <1>6, <1>7 DEF Covers
  <2>2. ASSUME NEW d \in S \ {c} PROVE \E i \in 1 .. n - 1 : K[i] = d
    <3>1. PICK j \in 1 .. n : L[j] = d
      BY DEF Covers
    <3>2. j # k
      BY <1>2, <3>1
    <3>3. \E i \in 1 .. n - 1 : at(i) = j
      <4>1. CASE j < k
        <5>1. j \in 1 .. n - 1
          BY <1>1, <1>2, <4>1
        <5> QED
          BY <4>1, <5>1 DEF at
      <4>2. CASE ~ (j < k)
        <5>1. j - 1 \in 1 .. n - 1 /\ ~ (j - 1 < k) /\ (j - 1) + 1 = j
          BY <1>1, <1>2, <3>2, <4>2
        <5> QED
          BY <5>1 DEF at
      <4> QED
        BY <4>1, <4>2
    <3> QED
      BY <1>7, <3>1, <3>3
  <2> QED
    BY <2>1, <2>2 DEF Covers
<1> QED
  BY <1>19, <1>20

\* The live blocks, without those that are not in the list yet or any more.
Members == {c \in Conns : tinfo[c] = "live"} \ Unlisted

ListInv == \E n, L : Chain(n, L) /\ Covers(n, L, Members)

\* A step that leaves the pointers and the members alone.
LEMMA SameList ==
  ASSUME ListInv, UNCHANGED links, Members' = Members
  PROVE  ListInv'
BY DEF ListInv, Chain, links

\* Nobody is in the list when the server starts.
LEMMA ListInvInit == Init => ListInv
<1> SUFFICES ASSUME Init PROVE ListInv
  OBVIOUS
<1> DEFINE L == [i \in 1 .. 0 |-> NULL]
<1>1. 1 .. 0 = {}
  OBVIOUS
<1>2. L \in [1 .. 0 -> Conns]
  BY <1>1
<1> HIDE DEF L
<1>3. Chain(0, L)
  BY <1>1, <1>2 DEF Init, Chain
<1>4. Members = {}
  BY DEF Init, Members
<1>5. Covers(0, L, Members)
  BY <1>1, <1>4 DEF Covers
<1> QED
  BY <1>3, <1>5 DEF ListInv

\* Who is in the list, read off the places of main and the threads.
LEMMA MembersAre ==
  ASSUME ControlInv, NEW c \in Conns
  PROVE  c \in Members <=> /\ tinfo[c] = "live" /\ pc[c] # "c_free"
                           /\ ~ (mpc \in {"insert", "u_free"} /\ c = cur)
BY DEF Members, Unlisted, At

\* ... and so after the step.
LEMMA MembersNextAre ==
  ASSUME ControlInv', NEW c \in Conns
  PROVE  c \in Members' <=> /\ tinfo'[c] = "live" /\ pc'[c] # "c_free"
                            /\ ~ (mpc' \in {"insert", "u_free"} /\ c = cur')
BY DEF Members, Unlisted, At

\* The steps that leave the list alone: the same blocks are in it.
LEMMA OthersKeepList ==
  ASSUME ControlInv, ControlInv', ListInv, UNCHANGED links,
         \A c \in Conns : /\ tinfo'[c] = "live" <=> tinfo[c] = "live" 
                          /\ pc'[c] = "c_free" <=> pc[c] = "c_free",
         mpc' \notin {"insert", "u_free"}, mpc \notin {"insert", "u_free"}
  PROVE  ListInv'
<1>1. \A c \in Conns : c \in Members' <=> c \in Members
  BY MembersAre, MembersNextAre
<1>2. Members' = Members
  BY <1>1 DEF Members
<1> QED
  BY <1>2, SameList

\* A list of the next step's members.
LEMMA ListNext ==
  ASSUME NEW S, Members' = S, \E m, K : Chain(m, K)' /\ Covers(m, K, S)
  PROVE  ListInv'
<1>1. PICK m, K : Chain(m, K)' /\ Covers(m, K, S)
  OBVIOUS
<1>2. Covers(m, K, Members')
  BY <1>1
<1>3. Covers(m, K, Members)'
  BY <1>2 DEF Covers
<1> QED
  BY <1>1, <1>3 DEF ListInv

\* A thread takes itself out, then main's is the only other way out.
LEMMA RemovalKeepsList ==
  ASSUME ControlInv, ListInv, NEW c \in Members, ListRemove(c),
         Members' = Members \ {c}
  PROVE  ListInv'
<1>1. PICK n, L : Chain(n, L) /\ Covers(n, L, Members)
  BY DEF ListInv
<1>2. ControlTypes
  BY DEF ControlInv
<1>3. \E m, K : Chain(m, K)' /\ Covers(m, K, Members \ {c})
  BY <1>1, <1>2, ChainRemove
<1> QED
  BY <1>3, ListNext

\* The moves of a thread outside its cleanup.
LEMMA MovesKeepList ==
  ASSUME ControlInv, ControlInv', ListInv, NEW c \in Conns,
         NEW label \in Labels \ {"c_free", "none", "ended"}, Goto(c, label),
         pc[c] # "c_free", UNCHANGED outer
  PROVE  ListInv'
<1>1. \A d \in Conns : pc'[d] = IF d = c THEN label ELSE pc[d]
  BY DEF ControlInv, MutexInv, Goto
<1>2. \A d \in Conns : d \in Members' <=> d \in Members
  BY <1>1, MembersAre, MembersNextAre DEF outer, main, list
<1>3. Members' = Members
  BY <1>2 DEF Members
<1> QED
  BY <1>3, SameList DEF outer, list

\* The end of a thread.
LEMMA CleanupKeepsList ==
  ASSUME ControlInv, ControlInv', ListInv, NEW c \in Conns,
         \/ ActOnCancel(c) \/ CleanupClose(c) \/ CancelledInCleanup(c)
         \/ CleanupRemove(c) \/ CleanupFree(c)
  PROVE  ListInv'
<1>q. \A label : Goto(c, label) =>
        \A d \in Conns : pc'[d] = IF d = c THEN label ELSE pc[d]
  BY DEF ControlInv, MutexInv, Goto
<1>1. CASE ActOnCancel(c) \/ CleanupClose(c) \/ CancelledInCleanup(c)
  <2>1. PICK label \in {"c_close", "c_remove", "ended"} : Goto(c, label)
    BY <1>1 DEF ActOnCancel, CleanupClose, CancelledInCleanup
  <2>2. pc[c] # "c_free" /\ UNCHANGED outer
    BY <1>1 DEF ActOnCancel, CleanupClose, CancelledInCleanup, At, CancelPoints
  <2>3. \A d \in Conns : pc'[d] = "c_free" <=> pc[d] = "c_free"
    BY <1>q, <2>1, <2>2
  <2>4. \A d \in Conns : d \in Members' <=> d \in Members
    BY <2>2, <2>3, MembersAre, MembersNextAre DEF outer, main, list
  <2>5. Members' = Members
    BY <2>4 DEF Members
  <2> QED
    BY <2>2, <2>5, SameList DEF outer, list
<1>2. CASE CleanupRemove(c)
  <2>1. /\ pc[c] = "c_remove" /\ Goto(c, "c_free") /\ ListRemove(c)
        /\ UNCHANGED <<mpc, cur, tinfo>>
    BY <1>2 DEF CleanupRemove, At
  <2>2. tinfo[c] = "live" /\ ~ (mpc \in {"insert", "u_free"} /\ c = cur)
    BY <2>1 DEF ControlInv, ThreadShape, MainShape, Accepting
  <2>3. c \in Members
    BY <2>1, <2>2, MembersAre
  <2>4. \A d \in Conns : d \in Members' <=> d \in Members \ {c}
    BY <1>q, <2>1, MembersAre, MembersNextAre
  <2>5. Members' = Members \ {c}
    BY <2>4 DEF Members
  <2> QED
    BY <2>1, <2>3, <2>5, RemovalKeepsList
<1>3. CASE CleanupFree(c)
  <2>1. /\ pc[c] = "c_free" /\ Goto(c, "ended") /\ UNCHANGED <<mpc, cur, links>>
        /\ \A d \in Conns : tinfo'[d] = IF d = c THEN "freed" ELSE tinfo[d]
    BY <1>3 DEF CleanupFree, At, ControlInv, ControlTypes
  <2>2. \A d \in Conns : d \in Members' <=> d \in Members
    BY <1>q, <2>1, MembersAre, MembersNextAre
  <2>3. Members' = Members
    BY <2>2 DEF Members
  <2> QED
    BY <2>1, <2>3, SameList
<1> QED
  BY <1>1, <1>2, <1>3

\* main, up to the shutdown.
LEMMA AcceptingKeepsList ==
  ASSUME ControlInv, ControlInv', ListInv,
         \/ \E c \in Conns : Accept(c)
         \/ Insert \/ Create \/ UndoRemove \/ UndoFree
  PROVE  ListInv'
<1>m. mpc \in Accepting => cur \in Conns /\ tinfo[cur] = "live" /\ pc[cur] = "none"
  BY DEF ControlInv, MainShape
<1>1. ASSUME NEW c \in Conns, Accept(c) PROVE ListInv'
  <2>1. /\ tinfo[c] = "none" /\ cur' = c /\ mpc = "accept" /\ mpc' = "insert"
        /\ \A d \in Conns : tinfo'[d] = IF d = c THEN "live" ELSE tinfo[d]
        /\ UNCHANGED <<pc, links>>
    BY <1>1 DEF Accept, MainAt, MainGoto, thread, ControlInv, ControlTypes
  <2>2. \A d \in Conns : d \in Members' <=> d \in Members
    BY <2>1, MembersAre, MembersNextAre
  <2>3. Members' = Members
    BY <2>2 DEF Members
  <2> QED
    BY <2>1, <2>3, SameList
<1>2. CASE Insert
  <2>1. /\ mpc = "insert" /\ mpc' = "create" /\ ListInsertHead(cur)
        /\ UNCHANGED <<pc, cur, tinfo>>
    BY <1>2 DEF Insert, MainAt, MainGoto, threads, thread
  <2>2. cur \in Conns /\ tinfo[cur] = "live" /\ pc[cur] = "none"
    BY <1>m, <2>1 DEF Accepting
  <2>3. cur \notin Members
    BY <2>1, <2>2, MembersAre
  <2>4. \A d \in Conns : d \in Members' <=> d \in Members \cup {cur}
    BY <2>1, <2>2, MembersAre, MembersNextAre
  <2>5. Members' = Members \cup {cur}
    BY <2>2, <2>4 DEF Members
  <2>6. PICK n, L : Chain(n, L) /\ Covers(n, L, Members)
    BY DEF ListInv
  <2>7. \E m, K : Chain(m, K)' /\ Covers(m, K, Members \cup {cur})
    BY <2>1, <2>2, <2>3, <2>6, ChainInsert DEF ControlInv
  <2> QED
    BY <2>5, <2>7, ListNext
<1>3. CASE Create
  <2>1. /\ mpc = "create" /\ mpc' \in {"accept", "u_remove"}
        /\ Goto(cur, "open") \/ UNCHANGED pc
        /\ UNCHANGED <<cur, tinfo, links>>
    BY <1>3 DEF Create, MainAt, MainGoto, list
  <2>2. cur \in Conns /\ pc[cur] = "none"
    BY <1>m, <2>1 DEF Accepting
  <2>3. \A d \in Conns : pc'[d] = "c_free" <=> pc[d] = "c_free"
    BY <2>1, <2>2 DEF ControlInv, MutexInv, Goto
  <2> QED
    BY <2>1, <2>3, OthersKeepList
<1>4. CASE UndoRemove
  <2>1. /\ mpc = "u_remove" /\ mpc' = "u_free" /\ ListRemove(cur)
        /\ UNCHANGED <<pc, cur, tinfo>>
    BY <1>4 DEF UndoRemove, MainAt, MainGoto, threads, thread
  <2>2. cur \in Conns /\ tinfo[cur] = "live" /\ pc[cur] = "none"
    BY <1>m, <2>1 DEF Accepting
  <2>3. cur \in Members
    BY <2>1, <2>2, MembersAre
  <2>4. \A d \in Conns : d \in Members' <=> d \in Members \ {cur}
    BY <2>1, MembersAre, MembersNextAre
  <2>5. Members' = Members \ {cur}
    BY <2>4 DEF Members
  <2> QED
    BY <2>1, <2>3, <2>5, RemovalKeepsList
<1>5. CASE UndoFree
  <2>1. /\ mpc = "u_free" /\ mpc' = "accept" /\ UNCHANGED <<pc, cur, links>>
        /\ tinfo' = [tinfo EXCEPT ![cur] = "freed"]
    BY <1>5 DEF UndoFree, MainAt, MainGoto, thread
  <2>2. \A d \in Conns : tinfo'[d] = IF d = cur THEN "freed" ELSE tinfo[d]
    BY <2>1 DEF ControlInv, ControlTypes
  <2>3. \A d \in Conns : d \in Members' <=> d \in Members
    BY <2>1, <2>2, MembersAre, MembersNextAre
  <2>4. Members' = Members
    BY <2>3 DEF Members
  <2> QED
    BY <2>1, <2>4, SameList
<1> QED
  BY <1>1, <1>2, <1>3, <1>4, <1>5

\* The shutdown takes out the threads that did not get to it themselves.
LEMMA ShutdownKeepsList ==
  ASSUME ControlInv, ControlInv', ListInv,
         \/ StopLock \/ Cancel \/ LoopEnds \/ Join \/ Reap
  PROVE  ListInv'
<1>1. CASE StopLock \/ Cancel \/ LoopEnds \/ Join
  <2>1. /\ UNCHANGED <<pc, tinfo, links>>
        /\ mpc \in {"accept", "loop", "join"}
        /\ mpc' \in {"loop", "join", "exit", "joining"}
    BY <1>1 DEF StopLock, Cancel, LoopEnds, Join, MainAt, MainGoto, threads, thread, list
  <2> QED
    BY <2>1, OthersKeepList
<1>2. CASE Reap
  <2>1. /\ mpc = "joining" /\ mpc' = "loop" /\ pc[entry] = "ended"
        /\ ListRemove(entry) /\ tinfo' = [tinfo EXCEPT ![entry] = "freed"]
        /\ UNCHANGED <<pc, cur>> /\ ~EntryFreed
    BY <1>2 DEF Reap, At, MainAt, MainGoto, threads, thread
  <2>2. entry \in Conns /\ tinfo[entry] # "freed" /\ tinfo[entry] # "none"
    BY <2>1 DEF ControlInv, MainShape, ThreadShape, EntryFreed
  <2>3. tinfo[entry] = "live"
        /\ \A d \in Conns : tinfo'[d] = IF d = entry THEN "freed" ELSE tinfo[d]
    BY <2>1, <2>2 DEF ControlInv, ControlTypes
  <2>4. entry \in Members
    BY <2>1, <2>2, <2>3, MembersAre
  <2>5. \A d \in Conns : d \in Members' <=> d \in Members \ {entry}
    BY <2>1, <2>3, MembersAre, MembersNextAre
  <2>6. Members' = Members \ {entry}
    BY <2>5 DEF Members
  <2> QED
    BY <2>1, <2>4, <2>6, RemovalKeepsList
<1> QED
  BY <1>1, <1>2

\* Every step of the server.
LEMMA NextKeepsList ==
  ASSUME ControlInv, ControlInv', ListInv, [Next]_vars
  PROVE  ListInv'
<1>1. ASSUME UNCHANGED <<pc, mpc, cur, tinfo, links>> PROVE ListInv'
  <2>1. Members' = Members
    BY <1>1 DEF Members, Unlisted, At
  <2> QED
    BY <1>1, <2>1, SameList
<1>2. CASE UNCHANGED vars \/ Signal \/ UseAfterFree
  BY <1>1, <1>2 DEF vars, Signal, UseAfterFree, main, thread, threads, list
<1>3. ASSUME NEW c \in Conns, Serve(c) \/ Client(c)
      PROVE  ListInv'
  <2>1. \A label \in Labels : Moves(c, label) => ListInv'
    <3> SUFFICES ASSUME NEW label \in Labels, Moves(c, label) PROVE ListInv'
      OBVIOUS
    <3>1. label # "c_free"
      BY DEF Moves, Cleaning
    <3> QED
      BY <3>1, MovesKeepList DEF Moves
  <2> QED
    BY <1>3, <2>1, ServingMoves, CleanupKeepsList, AcceptingKeepsList DEF Serve, Client
<1>4. CASE MainStep
  BY <1>2, <1>4, AcceptingKeepsList, ShutdownKeepsList DEF MainStep
<1> QED
  BY <1>2, <1>3, <1>4 DEF Next
\* The least of a set of numbers, and induction.
LEMMA LeastNatural ==
  ASSUME NEW T, T \subseteq Nat, T # {}
  PROVE  \E x \in T : \A y \in T : x <= y
<1> DEFINE R == OpToRel(<, Nat)
<1>1. IsWellFoundedOn(R, Nat)
  BY NatLessThanWellFounded
<1>2. \A x, y \in Nat : y < x => <<y, x>> \in R
  BY DEF OpToRel
<1> HIDE DEF R
<1>3. PICK x \in T : \A y \in T : ~ (<<y, x>> \in R)
  BY <1>1, WFMin
<1>4. ASSUME NEW y \in T PROVE x <= y
  <2>1. ~ (y < x)
    BY <1>2, <1>3
  <2> QED
    BY <2>1
<1> QED
  BY <1>4

\* A set of numbers with 0 and every successor is all of them.
LEMMA AllNaturals ==
  ASSUME NEW T, 0 \in T, \A n \in Nat : n \in T => n + 1 \in T
  PROVE  Nat \subseteq T
<1> SUFFICES ASSUME Nat \ T # {} PROVE FALSE
  OBVIOUS
<1>1. PICK x \in Nat \ T : \A y \in Nat \ T : x <= y
  BY LeastNatural
<1>2. x # 0 /\ x - 1 \in Nat /\ x - 1 \notin Nat \ T
  BY <1>1
<1> QED
  BY <1>1, <1>2

\* What the walk from head is: le_next again and again.
IsWalk(f) ==
  f = [n \in Nat |-> IF n = 0 THEN head
                     ELSE IF f[n - 1] \in Conns THEN le_next[f[n - 1]] ELSE NULL]

\* There is one walk at most.
LEMMA OneWalk ==
  ASSUME NEW f, IsWalk(f), NEW g, IsWalk(g), NEW k \in Nat
  PROVE  f[k] = g[k]
<1> DEFINE T == {n \in Nat : f[n] = g[n]}
<1>1. 0 \in T
  BY DEF IsWalk
<1>2. ASSUME NEW n \in Nat, n \in T PROVE n + 1 \in T
  <2>1. n + 1 \in Nat /\ n + 1 # 0 /\ (n + 1) - 1 = n
    OBVIOUS
  <2>2. f[n + 1] = IF f[n] \in Conns THEN le_next[f[n]] ELSE NULL
    BY <2>1 DEF IsWalk
  <2>3. g[n + 1] = IF g[n] \in Conns THEN le_next[g[n]] ELSE NULL
    BY <2>1 DEF IsWalk
  <2> QED
    BY <1>2, <2>1, <2>2, <2>3
<1> HIDE DEF T
<1>3. Nat \subseteq T
  BY <1>1, <1>2, AllNaturals
<1> QED
  BY <1>3 DEF T

\* The walk meets the blocks of the chain and then the null pointer.
LEMMA WalkIsChain ==
  ASSUME NEW n, NEW L, Chain(n, L), NEW k \in Nat
  PROVE  Nth[k] = IF k < n THEN L[k + 1] ELSE NULL
<1> DEFINE g == [m \in Nat |-> IF m < n THEN L[m + 1] ELSE NULL]
<1>1. IsWalk(g)
  <2> DEFINE h == [m \in Nat |-> IF m = 0 THEN head
                       ELSE IF g[m - 1] \in Conns THEN le_next[g[m - 1]] ELSE NULL]
  <2>1. ASSUME NEW m \in Nat PROVE g[m] = h[m]
    <3>1. n \in Nat /\ L \in [1 .. n -> Conns] /\ NULL \notin Conns
      BY DEF Chain
    <3>2. CASE m = 0
      BY <3>1, <3>2 DEF Chain
    <3>3. CASE m # 0
      <4>1. m - 1 \in Nat /\ (m - 1) + 1 = m /\ m - 1 < n <=> m \in 1 .. n
        BY <3>1, <3>3
      <4>2. g[m - 1] = IF m \in 1 .. n THEN L[m] ELSE NULL
        BY <3>1, <3>3, <4>1
      <4>3. m \in 1 .. n => le_next[L[m]] = IF m = n THEN NULL ELSE L[m + 1]
        BY DEF Chain
      <4>4. m \in 1 .. n => L[m] \in Conns
        BY <3>1
      <4>5. h[m] = IF m \in 1 .. n THEN le_next[L[m]] ELSE NULL
        BY <3>1, <3>3, <4>2, <4>4
      <4>6. g[m] = IF m < n THEN L[m + 1] ELSE NULL
        OBVIOUS
      <4>7. m \in 1 .. n /\ m # n <=> m < n
        BY <3>1, <3>3
      <4>8. m < n \/ m = n => m \in 1 .. n
        BY <3>1, <3>3
      <4> HIDE DEF g, h
      <4> QED
        BY <4>3, <4>5, <4>6, <4>7, <4>8
    <3> QED
      BY <3>2, <3>3
  <2>2. g = h
    BY <2>1
  <2> QED
    BY <2>2 DEF IsWalk
<1>2. \A m \in Nat : g[m] = IF m < n THEN L[m + 1] ELSE NULL
  OBVIOUS
<1> HIDE DEF g
<1>3. Nth = CHOOSE f : IsWalk(f)
  BY DEF Nth, IsWalk
<1>4. IsWalk(Nth)
  BY <1>1, <1>3
<1>5. Nth[k] = g[k]
  BY <1>1, <1>4, OneWalk
<1> QED
  BY <1>2, <1>5

\* No more blocks than connections.
LEMMA ChainFits ==
  ASSUME NEW n, NEW L, Chain(n, L)
  PROVE  n <= Cardinality(Conns) /\ Cardinality(Conns) \in Nat
<1>1. /\ n \in Nat /\ L \in [1 .. n -> Conns]
      /\ \A i, j \in 1 .. n : L[i] = L[j] => i = j
  BY DEF Chain
<1>2. Cardinality(Conns) \in Nat
  BY FS_CardinalityType
<1>3. IsFiniteSet(1 .. n) /\ Cardinality(1 .. n) = n
  BY <1>1, FS_Interval
<1>4. ~ (Cardinality(Conns) < Cardinality(1 .. n))
  <2> SUFFICES ASSUME Cardinality(Conns) < Cardinality(1 .. n) PROVE FALSE
    OBVIOUS
  <2>1. \E x, y \in 1 .. n : x # y /\ L[x] = L[y]
    BY <1>1, <1>3, FS_PigeonHole
  <2> QED
    BY <1>1, <2>1
<1> QED
  BY <1>1, <1>2, <1>3, <1>4

\* So the list is what shutdown relies on.
LEMMA ListIsWalked ==
  ASSUME ControlInv, ListInv
  PROVE  ThreadsAreListed
<1>1. PICK n, L : Chain(n, L) /\ Covers(n, L, Members)
  BY DEF ListInv
<1> DEFINE N == Cardinality(Conns)
<1>2. n \in Nat /\ L \in [1 .. n -> Conns] /\ NULL \notin Conns
  BY <1>1 DEF Chain
<1>3. n <= N /\ N \in Nat
  BY <1>1, ChainFits
<1> HIDE DEF N
<1>4. \A k \in Nat : Nth[k] = IF k < n THEN L[k + 1] ELSE NULL
  BY <1>1, WalkIsChain
<1>5. Nth[N] = NULL
  BY <1>2, <1>3, <1>4
<1>6. Listed = Members
  <2>1. ASSUME NEW x \in Listed PROVE x \in Members
    <3>1. PICK k \in 0 .. N - 1 : x = Nth[k] /\ x # NULL
      BY <1>3 DEF Listed, N
    <3>2. k \in Nat
      BY <1>3, <3>1
    <3>3. k < n /\ x = L[k + 1]
      BY <1>4, <3>1, <3>2
    <3>4. k + 1 \in 1 .. n
      BY <1>2, <3>2, <3>3
    <3> QED
      BY <1>1, <3>3, <3>4 DEF Covers
  <2>2. ASSUME NEW x \in Members PROVE x \in Listed
    <3>1. PICK i \in 1 .. n : L[i] = x
      BY <1>1 DEF Covers
    <3>2. i - 1 \in Nat /\ i - 1 < n /\ (i - 1) + 1 = i /\ i - 1 \in 0 .. N - 1
      BY <1>2, <1>3
    <3>3. Nth[i - 1] = x
      BY <1>4, <3>1, <3>2
    <3>4. x # NULL
      BY <1>2, <3>1
    <3> QED
      BY <3>2, <3>3, <3>4 DEF Listed, N
  <2> QED
    BY <2>1, <2>2
<1>7. ASSUME NEW c \in Listed
      PROVE  IF head = c THEN le_prev[c] = ListHead
             ELSE le_prev[c] \in Listed /\ le_next[le_prev[c]] = c
  <2>1. PICK i \in 1 .. n : L[i] = c
    BY <1>1, <1>6 DEF Covers
  <2>2. head = L[1] /\ 1 \in 1 .. n
    BY <1>1, <1>2 DEF Chain
  <2>3. head = c <=> i = 1
    BY <1>1, <2>1, <2>2 DEF Chain
  <2>4. le_prev[c] = IF i = 1 THEN ListHead ELSE L[i - 1]
    BY <1>1, <2>1 DEF Chain
  <2>5. i # 1 => i - 1 \in 1 .. n /\ i - 1 # n /\ (i - 1) + 1 = i
    BY <1>2
  <2>6. i # 1 => L[i - 1] \in Members
    BY <1>1, <2>5 DEF Covers
  <2>7. i # 1 => le_next[L[i - 1]] = L[(i - 1) + 1]
    BY <1>1, <2>5 DEF Chain
  <2>8. i # 1 => le_next[L[i - 1]] = c
    BY <2>1, <2>5, <2>7
  <2> QED
    BY <1>6, <2>3, <2>4, <2>6, <2>8
<1> QED
  BY <1>5, <1>6, <1>7 DEF ThreadsAreListed, Members, N

\* Walking the list meets each live thread_info block once and no freed one,
\* and the back pointers agree with it, through any order of threads that
\* arrive, remove themselves and are removed by the shutdown, for any number of
\* them (main 437-471, thread_cleanup 191-207).
THEOREM ListIsTheThreads == Spec => []ThreadsAreListed
<1>1. Init => ControlInv /\ ListInv
  BY ControlInvInit, ListInvInit
<1>2. ControlInv /\ ListInv /\ [Next]_vars => (ControlInv /\ ListInv)'
  BY NextKeepsControl, NextKeepsList
<1>3. ControlInv /\ ListInv => ThreadsAreListed
  BY ListIsWalked
<1> QED
  BY <1>1, <1>2, <1>3, PTL DEF Spec
=============================================================================
