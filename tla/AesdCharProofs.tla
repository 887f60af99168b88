--------------------------- MODULE AesdCharProofs ---------------------------
(***************************************************************************)
(* Who is inside the region dev->lock protects, for any number of          *)
(* processes, any faults and any arguments.                                *)
(***************************************************************************)
EXTENDS AesdChar, RingLemmas

\* No call is in progress on a file that is not open, and no file is open when
\* the module is not there: insmod finds nobody inside the driver.
NobodyInside ==
  /\ ~loaded => \A p \in Procs : ~open[p]
  /\ \A p \in Procs : ~open[p] => pc[p] = "idle"

LockInv == ControlTypeOK /\ NobodyInside /\ LockDiscipline

\* Before insmod nobody is inside.
LEMMA LockInvInit ==
  ASSUME Init
  PROVE  LockInv
<1>1. "idle" \in Labels \ CriticalLabels
  BY DEF Labels, CriticalLabels
<1>2. NoProc \notin Procs
  BY DriverAssumption
<1>3. /\ loaded = FALSE /\ lock = NoProc /\ calls = 0 /\ stolen = FALSE /\ ub = FALSE
      /\ open = [p \in Procs |-> FALSE]
      /\ pc = [p \in Procs |-> "idle"]
      /\ quiet = [p \in Procs |-> TRUE]
  BY DEF Init
<1> QED
  BY <1>1, <1>2, <1>3
     DEF LockInv, ControlTypeOK, NobodyInside, LockDiscipline, Critical

\* A step of one call that neither takes nor releases the lock keeps the
\* invariant when it stays on its side of the lock.
LEMMA MoveKeepsLockInv ==
  ASSUME LockInv, NEW p \in Procs, NEW l \in Labels,
         open[p],
         pc' = [pc EXCEPT ![p] = l],
         Critical(p) <=> l \in CriticalLabels,
         UNCHANGED <<loaded, lock, open, stolen>>,
         calls' \in Nat, quiet' \in [Procs -> BOOLEAN], ub' \in BOOLEAN
  PROVE  LockInv'
<1>1. ControlTypeOK'
  BY DEF LockInv, ControlTypeOK
<1>2. NobodyInside'
  BY DEF LockInv, ControlTypeOK, NobodyInside
<1>3. LockDiscipline'
  BY DEF LockInv, ControlTypeOK, LockDiscipline, Critical
<1> QED
  BY <1>1, <1>2, <1>3 DEF LockInv

\* A process that is not idle has the device open.
LEMMA InsideIsOpen ==
  ASSUME LockInv, NEW p \in Procs, pc[p] # "idle"
  PROVE  open[p]
BY DEF LockInv, ControlTypeOK, NobodyInside

\* What a step that begins a call does to who is where.
LEMMA EnterKeepsLockInv ==
  ASSUME LockInv, NEW p \in Procs, NEW l \in Labels \ CriticalLabels, NEW a,
         Enter(p, l, a),
         UNCHANGED <<loaded, lock, open, stolen>>,
         quiet' \in [Procs -> BOOLEAN], ub' \in BOOLEAN
  PROVE  LockInv'
<1>1. open[p] /\ pc[p] = "idle" /\ calls' = calls + 1 /\ pc' = [pc EXCEPT ![p] = l]
  BY DEF Enter, At, Goto
<1>2. ~Critical(p) /\ l \notin CriticalLabels /\ calls' \in Nat
  BY <1>1 DEF Critical, CriticalLabels, LockInv, ControlTypeOK
<1> QED
  BY <1>1, <1>2, MoveKeepsLockInv

\* A process enters when nobody owns the lock.
LEMMA TakeLockKeepsLockInv ==
  ASSUME LockInv, NEW p \in Procs, TakeLock(p)
  PROVE  LockInv'
<1>1. /\ pc[p] \in {"w_lock", "r_lock", "l_lock", "i_lock"}
      /\ pc' = [pc EXCEPT ![p] = AfterLock[pc[p]]]
      /\ lock = NoProc /\ lock' = p
      /\ UNCHANGED <<loaded, open, stolen, calls, quiet, ub>>
  BY DEF TakeLock, AfterLock, Goto, file, hist
<1>2. AfterLock[pc[p]] \in Labels /\ AfterLock[pc[p]] \in CriticalLabels
  BY <1>1 DEF AfterLock, Labels, CriticalLabels
<1>3. open[p]
  BY <1>1, InsideIsOpen
<1>4. ControlTypeOK'
  BY <1>1, <1>2 DEF LockInv, ControlTypeOK
<1>5. NobodyInside'
  BY <1>1, <1>3 DEF LockInv, ControlTypeOK, NobodyInside
<1>6. LockDiscipline'
  BY <1>1, <1>2, DriverAssumption
     DEF LockInv, ControlTypeOK, LockDiscipline, Critical
<1> QED
  BY <1>4, <1>5, <1>6 DEF LockInv

\* The unlock of a failed write is harmless only while nobody holds the lock;
\* otherwise stolen records it.
LEMMA UnlockKeepsLockInv ==
  ASSUME LockInv, NEW p \in Procs, Unlock(p)
  PROVE  LockInv'
<1>1. /\ pc[p] \in {"unlock", "w_fail"}
      /\ pc' = [pc EXCEPT ![p] = "idle"]
      /\ lock' = NoProc
      /\ stolen' = (stolen \/ lock \notin {p, NoProc})
      /\ UNCHANGED <<loaded, open, calls, quiet, ub>>
  BY DEF Unlock, Goto, file
<1>2. ControlTypeOK'
  BY <1>1 DEF LockInv, ControlTypeOK, Labels
<1>3. NobodyInside'
  BY <1>1 DEF LockInv, ControlTypeOK, NobodyInside
<1>4. LockDiscipline'
  <2> SUFFICES ASSUME ~stolen', NEW q \in Procs PROVE ~(Critical(q)') /\ lock' # q
    BY DEF LockDiscipline
  <2>1. ~stolen /\ lock \in {p, NoProc}
    BY <1>1
  <2>2. CASE q = p
    BY <1>1, <2>2, DriverAssumption DEF LockInv, ControlTypeOK, Critical, CriticalLabels
  <2>3. CASE q # p
    BY <1>1, <2>1, <2>3, DriverAssumption
       DEF LockInv, ControlTypeOK, LockDiscipline, Critical
  <2> QED
    BY <2>2, <2>3
<1> QED
  BY <1>2, <1>3, <1>4 DEF LockInv

\* The steps of a call that stay on their side of the lock.
LEMMA LeaveKeepsLockInv ==
  ASSUME LockInv, NEW p \in Procs, NEW status, Leave(p, status),
         pc[p] \in Labels \ (CriticalLabels \cup {"idle"}),
         UNCHANGED <<loaded, lock, open, calls, stolen, quiet, ub>>
  PROVE  LockInv'
<1>1. pc' = [pc EXCEPT ![p] = "idle"] /\ "idle" \in Labels \ CriticalLabels
  BY DEF Leave, Goto, Labels, CriticalLabels
<1>2. open[p] /\ calls' \in Nat /\ quiet' \in [Procs -> BOOLEAN] /\ ub' \in BOOLEAN
  BY InsideIsOpen DEF LockInv, ControlTypeOK
<1> QED
  BY <1>1, <1>2, MoveKeepsLockInv DEF Critical

\* A step inside the protected region, to another place inside it.
LEMMA InsideKeepsLockInv ==
  ASSUME LockInv, NEW p \in Procs, NEW l \in CriticalLabels,
         pc[p] \in CriticalLabels, Goto(p, l),
         UNCHANGED <<loaded, lock, open, calls, stolen, ub>>,
         quiet' \in [Procs -> BOOLEAN]
  PROVE  LockInv'
<1>1. pc' = [pc EXCEPT ![p] = l] /\ l \in Labels
  BY DEF Goto, Labels, CriticalLabels
<1>2. open[p] /\ calls' \in Nat /\ ub' \in BOOLEAN
  BY InsideIsOpen DEF LockInv, ControlTypeOK, CriticalLabels
<1> QED
  BY <1>1, <1>2, MoveKeepsLockInv DEF Critical

\* A step outside the protected region, to another place outside it.
LEMMA OutsideKeepsLockInv ==
  ASSUME LockInv, NEW p \in Procs, NEW l \in Labels \ CriticalLabels,
         pc[p] \in Labels \ (CriticalLabels \cup {"idle"}), Goto(p, l),
         UNCHANGED <<loaded, lock, open, calls, stolen, quiet, ub>>
  PROVE  LockInv'
<1>1. pc' = [pc EXCEPT ![p] = l]
  BY DEF Goto
<1>2. open[p] /\ calls' \in Nat /\ quiet' \in [Procs -> BOOLEAN] /\ ub' \in BOOLEAN
  BY InsideIsOpen DEF LockInv, ControlTypeOK
<1> QED
  BY <1>1, <1>2, MoveKeepsLockInv DEF Critical

\* The steps of a write.
LEMMA WriteKeepsLockInv ==
  ASSUME LockInv, NEW p \in Procs,
         \/ BeginWrite(p) \/ BeginWriteFails(p) \/ WriteInterrupted(p)
         \/ WriteAppend(p) \/ WriteAppendFails(p) \/ WriteStore(p)
         \/ WriteAdvance(p) \/ WriteReclaim(p)
  PROVE  LockInv'
<1> quiet \in [Procs -> BOOLEAN] /\ ub \in BOOLEAN
  BY DEF LockInv, ControlTypeOK
<1> USE DEF file, hist, device
<1>1. CASE BeginWrite(p)
  <2>1. PICK bytes \in Payloads :
          Enter(p, "w_lock", [data |-> Accepted(bytes), overwritten |-> NULL])
    BY <1>1 DEF BeginWrite
  <2>2. "w_lock" \in Labels \ CriticalLabels
    BY DEF Labels, CriticalLabels, AfterLock
  <2> QED
    BY <1>1, <2>1, <2>2, EnterKeepsLockInv DEF BeginWrite
<1>2. CASE BeginWriteFails(p)
  <2>1. "w_fail" \in Labels \ CriticalLabels
    BY DEF Labels, CriticalLabels
  <2> QED
    BY <1>2, <2>1, EnterKeepsLockInv DEF BeginWriteFails
<1>3. CASE WriteInterrupted(p)
  <2>1. pc[p] \in Labels \ (CriticalLabels \cup {"idle"})
        /\ "w_fail" \in Labels \ CriticalLabels
    BY <1>3 DEF WriteInterrupted, At, Labels, CriticalLabels, AfterLock
  <2> QED
    BY <1>3, <2>1, OutsideKeepsLockInv DEF WriteInterrupted
<1>4. CASE WriteAppend(p)
  <2>1. pc[p] \in CriticalLabels /\ "w_store" \in CriticalLabels
        /\ "unlock" \in CriticalLabels
    BY <1>4 DEF WriteAppend, At, CriticalLabels
  <2>2. Goto(p, IF EndsCommand(arg[p].data) THEN "w_store" ELSE "unlock")
    BY <1>4 DEF WriteAppend
  <2> QED
    BY <1>4, <2>1, <2>2, InsideKeepsLockInv DEF WriteAppend
<1>5. CASE WriteAppendFails(p)
  <2>1. pc[p] \in CriticalLabels /\ "unlock" \in CriticalLabels
    BY <1>5 DEF WriteAppendFails, At, CriticalLabels
  <2> QED
    BY <1>5, <2>1, InsideKeepsLockInv DEF WriteAppendFails
<1>6. CASE WriteStore(p)
  <2>1. pc[p] \in CriticalLabels /\ "w_advance" \in CriticalLabels
    BY <1>6 DEF WriteStore, At, CriticalLabels
  <2> QED
    BY <1>6, <2>1, InsideKeepsLockInv DEF WriteStore
<1>7. CASE WriteAdvance(p)
  <2>1. pc[p] \in CriticalLabels /\ "w_reclaim" \in CriticalLabels
    BY <1>7 DEF WriteAdvance, At, CriticalLabels
  <2> QED
    BY <1>7, <2>1, InsideKeepsLockInv DEF WriteAdvance
<1>8. CASE WriteReclaim(p)
  <2>1. pc[p] \in CriticalLabels /\ "unlock" \in CriticalLabels
    BY <1>8 DEF WriteReclaim, At, CriticalLabels
  <2> QED
    BY <1>8, <2>1, InsideKeepsLockInv DEF WriteReclaim
<1> QED
  BY <1>1, <1>2, <1>3, <1>4, <1>5, <1>6, <1>7, <1>8

\* The steps of read and llseek.
LEMMA ReadAndSeekKeepLockInv ==
  ASSUME LockInv, NEW p \in Procs,
         \/ BeginRead(p) \/ ReadFind(p) \/ ReadCopy(p)
         \/ BeginLlseek(p) \/ Llseek(p)
  PROVE  LockInv'
<1> quiet \in [Procs -> BOOLEAN] /\ ub \in BOOLEAN
  BY DEF LockInv, ControlTypeOK
<1> USE DEF file, hist, device
<1>1. CASE BeginRead(p)
  <2>1. PICK count \in ReadCounts :
          Enter(p, "r_lock", [count |-> count, entry |-> NotFound])
    BY <1>1 DEF BeginRead
  <2>2. "r_lock" \in Labels \ CriticalLabels
    BY DEF Labels, CriticalLabels, AfterLock
  <2> QED
    BY <1>1, <2>1, <2>2, EnterKeepsLockInv DEF BeginRead
<1>2. CASE ReadFind(p)
  <2>1. pc[p] \in CriticalLabels /\ "r_copy" \in CriticalLabels
        /\ "unlock" \in CriticalLabels
    BY <1>2 DEF ReadFind, At, CriticalLabels
  <2>2. Goto(p, "r_copy") \/ Goto(p, "unlock")
    BY <1>2 DEF ReadFind
  <2> QED
    BY <1>2, <2>1, <2>2, InsideKeepsLockInv DEF ReadFind
<1>3. CASE ReadCopy(p)
  <2>1. pc[p] \in CriticalLabels /\ "unlock" \in CriticalLabels
    BY <1>3 DEF ReadCopy, At, CriticalLabels
  <2>2. Goto(p, "unlock") /\ UNCHANGED <<loaded, lock, open, calls, stolen, quiet, ub>>
    BY <1>3 DEF ReadCopy
  <2> QED
    BY <2>1, <2>2, InsideKeepsLockInv
<1>4. CASE BeginLlseek(p)
  <2>1. PICK seek \in Seeks : Enter(p, "l_lock", seek)
    BY <1>4 DEF BeginLlseek
  <2>2. "l_lock" \in Labels \ CriticalLabels
    BY DEF Labels, CriticalLabels, AfterLock
  <2> QED
    BY <1>4, <2>1, <2>2, EnterKeepsLockInv DEF BeginLlseek
<1>5. CASE Llseek(p)
  <2>1. pc[p] \in CriticalLabels /\ "unlock" \in CriticalLabels
    BY <1>5 DEF Llseek, At, CriticalLabels
  <2>2. Goto(p, "unlock") /\ UNCHANGED <<loaded, lock, open, calls, stolen, quiet, ub>>
    BY <1>5 DEF Llseek
  <2> QED
    BY <2>1, <2>2, InsideKeepsLockInv
<1> QED
  BY <1>1, <1>2, <1>3, <1>4, <1>5

\* The steps of the ioctl.
LEMMA IoctlKeepsLockInv ==
  ASSUME LockInv, NEW p \in Procs,
         \/ BeginIoctl(p) \/ IoctlFault(p) \/ IoctlIndex(p)
         \/ IoctlAccepts(p) \/ IoctlRejects(p) \/ IoctlSeek(p)
  PROVE  LockInv'
<1> quiet \in [Procs -> BOOLEAN] /\ ub \in BOOLEAN
  BY DEF LockInv, ControlTypeOK
<1> USE DEF file, hist, device
<1> {"i_index", "i_check", "i_lock"} \subseteq Labels \ (CriticalLabels \cup {"idle"})
  BY DEF Labels, CriticalLabels, AfterLock
<1>1. CASE BeginIoctl(p)
  <2>1. PICK seekto \in SeekTos :
          Enter(p, "i_index",
                [seekto |-> seekto, trav |-> circ_buf.out_offs, index |-> 0])
    BY <1>1 DEF BeginIoctl
  <2>2. quiet' \in [Procs -> BOOLEAN]
    BY <1>1 DEF BeginIoctl
  <2> QED
    BY <1>1, <2>1, <2>2, EnterKeepsLockInv DEF BeginIoctl
<1>2. CASE IoctlFault(p)
  BY <1>2, LeaveKeepsLockInv DEF IoctlFault, At
<1>3. CASE IoctlIndex(p)
  BY <1>3, OutsideKeepsLockInv DEF IoctlIndex, At
<1>4. CASE IoctlAccepts(p)
  BY <1>4, OutsideKeepsLockInv DEF IoctlAccepts, At
<1>5. CASE IoctlRejects(p)
  BY <1>5, LeaveKeepsLockInv DEF IoctlRejects, At
<1>6. CASE IoctlSeek(p)
  <2>1. pc[p] \in CriticalLabels /\ "unlock" \in CriticalLabels
    BY <1>6 DEF IoctlSeek, At, CriticalLabels
  <2>2. Goto(p, "unlock") /\ UNCHANGED <<loaded, lock, open, calls, stolen, quiet, ub>>
    BY <1>6 DEF IoctlSeek
  <2> QED
    BY <2>1, <2>2, InsideKeepsLockInv
<1> QED
  BY <1>1, <1>2, <1>3, <1>4, <1>5, <1>6

\* Opening, closing, insmod, rmmod and the end of all claims.
LEMMA ModuleKeepsLockInv ==
  ASSUME LockInv,
         \/ \E p \in Procs : Open(p) \/ Release(p) \/ Misuse(p)
         \/ InitModule \/ CleanupModule \/ CleanupMisuse
  PROVE  LockInv'
<1> USE DEF file, hist, device, LockInv
<1>1. ASSUME NEW p \in Procs, Open(p) PROVE LockInv'
  BY <1>1 DEF Open, ControlTypeOK, NobodyInside, LockDiscipline, Critical
<1>2. ASSUME NEW p \in Procs, Release(p) PROVE LockInv'
  BY <1>2 DEF Release, At, ControlTypeOK, NobodyInside, LockDiscipline, Critical
<1>3. CASE Undefined
  BY <1>3 DEF Undefined, ControlTypeOK, NobodyInside, LockDiscipline, Critical
<1>4. CASE InitModule
  <2>1. /\ ~loaded /\ loaded' \in BOOLEAN /\ lock' = NoProc
        /\ UNCHANGED <<open, pc, calls, stolen, quiet, ub>>
    BY <1>4 DEF InitModule
  <2>2. \A q \in Procs : pc[q] = "idle" /\ ~open[q]
    BY <2>1 DEF NobodyInside
  <2> QED
    BY <2>1, <2>2, DriverAssumption
       DEF ControlTypeOK, NobodyInside, LockDiscipline, Critical, CriticalLabels
<1>5. CASE CleanupModule
  BY <1>5 DEF CleanupModule, ControlTypeOK, NobodyInside, LockDiscipline, Critical
<1> QED
  BY <1>1, <1>2, <1>3, <1>4, <1>5 DEF Misuse, CleanupMisuse

\* Every step of the driver keeps the invariant.
LEMMA NextKeepsLockInv ==
  ASSUME LockInv, [Next]_vars
  PROVE  LockInv'
<1>1. ASSUME NEW p \in Procs, Begin(p) PROVE LockInv'
  BY <1>1, WriteKeepsLockInv, ReadAndSeekKeepLockInv, IoctlKeepsLockInv,
     ModuleKeepsLockInv DEF Begin
<1>2. ASSUME NEW p \in Procs, LockInterrupted(p) PROVE LockInv'
  <2>1. pc[p] \in Labels \ (CriticalLabels \cup {"idle"})
    BY <1>2 DEF LockInterrupted, Labels, CriticalLabels, AfterLock
  <2> QED
    BY <1>2, <2>1, LeaveKeepsLockInv DEF LockInterrupted, file, hist
<1>3. ASSUME NEW p \in Procs, Continue(p) \/ Interrupted(p) PROVE LockInv'
  BY <1>2, <1>3, TakeLockKeepsLockInv, UnlockKeepsLockInv, WriteKeepsLockInv,
     ReadAndSeekKeepLockInv, IoctlKeepsLockInv, ModuleKeepsLockInv
     DEF Continue, Interrupted
<1>4. CASE UNCHANGED vars
  BY <1>4 DEF vars, file, hist, LockInv, ControlTypeOK, NobodyInside,
              LockDiscipline, Critical
<1> QED
  BY <1>1, <1>3, <1>4, ModuleKeepsLockInv DEF Next

\* The control state keeps its types, whatever fails.
THEOREM ControlTypeCorrect == Spec => []ControlTypeOK
BY LockInvInit, NextKeepsLockInv, PTL DEF Spec, LockInv

\* As long as no failed write has released another process's lock, the
\* process in the protected region holds it and nobody else is there.
THEOREM LockDisciplineHolds == Spec => []LockDiscipline
BY LockInvInit, NextKeepsLockInv, PTL DEF Spec, LockInv

-----------------------------------------------------------------------------

\* The calls whose failure sends aesd_write to the unlock without the lock.
EarlyFaults == {"kmalloc", "copy_from_user", "interrupt_write"}

NoEarlyFailure == ~stolen /\ \A p \in Procs : pc[p] # "w_fail"

\* Every move of a process other than the two failing ones leads elsewhere.
LEMMA MovesAvoidFail ==
  ASSUME LockInv, NoEarlyFailure, Faults \cap EarlyFaults = {},
         NEW p \in Procs, Begin(p) \/ Continue(p) \/ Interrupted(p)
  PROVE  \A q \in Procs : pc'[q] # "w_fail"
<1> SUFFICES ASSUME NEW q \in Procs PROVE pc'[q] # "w_fail"
  OBVIOUS
<1>1. pc \in [Procs -> Labels] /\ pc[q] # "w_fail"
  BY DEF LockInv, ControlTypeOK, NoEarlyFailure
<1> USE DEF Goto, Enter, Leave, file, hist, device
<1>2. CASE Open(p) \/ Release(p) \/ Misuse(p)
  BY <1>1, <1>2 DEF Open, Release, Misuse, Undefined
<1>3. CASE BeginWrite(p)
  BY <1>1, <1>3 DEF BeginWrite
<1>4. CASE BeginWriteFails(p)
  BY <1>4 DEF BeginWriteFails, EarlyFaults
<1>5. CASE BeginRead(p)
  BY <1>1, <1>5 DEF BeginRead
<1>6. CASE BeginLlseek(p)
  BY <1>1, <1>6 DEF BeginLlseek
<1>7. CASE BeginIoctl(p)
  BY <1>1, <1>7 DEF BeginIoctl
<1>8. CASE TakeLock(p)
  BY <1>1, <1>8 DEF TakeLock, AfterLock
<1>9. CASE LockInterrupted(p)
  BY <1>1, <1>9 DEF LockInterrupted
<1>10. CASE Unlock(p)
  BY <1>1, <1>10 DEF Unlock
<1>11. CASE WriteInterrupted(p)
  BY <1>11 DEF WriteInterrupted, EarlyFaults
<1>12. CASE WriteAppend(p)
  <2>1. pc' = [pc EXCEPT ![p] = IF EndsCommand(arg[p].data) THEN "w_store" ELSE "unlock"]
    BY <1>12 DEF WriteAppend
  <2> QED
    BY <1>1, <2>1
<1>13. CASE WriteAppendFails(p)
  BY <1>1, <1>13 DEF WriteAppendFails
<1>14. CASE WriteStore(p) \/ WriteAdvance(p) \/ WriteReclaim(p)
  BY <1>1, <1>14 DEF WriteStore, WriteAdvance, WriteReclaim
<1>15. CASE ReadFind(p)
  <2>1. pc' = [pc EXCEPT ![p] = "r_copy"] \/ pc' = [pc EXCEPT ![p] = "unlock"]
    BY <1>15 DEF ReadFind
  <2> QED
    BY <1>1, <2>1
<1>16. CASE ReadCopy(p) \/ Llseek(p)
  <2>1. pc' = [pc EXCEPT ![p] = "unlock"]
    BY <1>16 DEF ReadCopy, Llseek
  <2> QED
    BY <1>1, <2>1
<1>17. CASE IoctlFault(p) \/ IoctlIndex(p) \/ IoctlAccepts(p) \/ IoctlRejects(p)
  BY <1>1, <1>17 DEF IoctlFault, IoctlIndex, IoctlAccepts, IoctlRejects
<1>18. CASE IoctlSeek(p)
  BY <1>1, <1>18 DEF IoctlSeek
<1> QED
  BY <1>2, <1>3, <1>4, <1>5, <1>6, <1>7, <1>8, <1>9, <1>10, <1>11, <1>12, <1>13,
     <1>14, <1>15, <1>16, <1>17, <1>18 DEF Begin, Continue, Interrupted

\* Only an unlock by a process that does not hold the lock can steal it.
LEMMA HoldersDoNotSteal ==
  ASSUME LockInv, NoEarlyFailure,
         NEW p \in Procs, Begin(p) \/ Continue(p) \/ Interrupted(p)
  PROVE  ~stolen'
<1>1. CASE Unlock(p)
  <2>1. pc[p] = "unlock"
    BY <1>1 DEF Unlock, NoEarlyFailure
  <2>2. lock = p
    BY <2>1 DEF LockInv, LockDiscipline, NoEarlyFailure, Critical, CriticalLabels
  <2> QED
    BY <1>1, <2>2 DEF Unlock, NoEarlyFailure
<1>2. CASE ~Unlock(p)
  BY <1>2
     DEF Begin, Continue, Interrupted, NoEarlyFailure, file, hist, device, Open, Release,
         BeginWrite, BeginWriteFails, BeginRead, BeginLlseek, BeginIoctl,
         TakeLock, LockInterrupted, WriteInterrupted, WriteAppend,
         WriteAppendFails, WriteStore, WriteAdvance, WriteReclaim, ReadFind,
         ReadCopy, Llseek, IoctlFault, IoctlIndex, IoctlAccepts, IoctlRejects,
         IoctlSeek, Misuse, Undefined
<1> QED
  BY <1>1, <1>2

\* Without them no lock is ever stolen.
LEMMA NoEarlyFailureStays ==
  ASSUME Faults \cap EarlyFaults = {}, LockInv, NoEarlyFailure, [Next]_vars
  PROVE  NoEarlyFailure'
<1>1. ASSUME NEW p \in Procs, Begin(p) \/ Continue(p) \/ Interrupted(p)
      PROVE  NoEarlyFailure'
  <2>1. ~stolen'
    BY <1>1, HoldersDoNotSteal
  <2>2. \A q \in Procs : pc'[q] # "w_fail"
    BY <1>1, MovesAvoidFail
  <2> QED
    BY <2>1, <2>2 DEF NoEarlyFailure
<1>2. CASE InitModule \/ CleanupModule \/ CleanupMisuse
  <2>1. UNCHANGED <<pc, stolen>>
    BY <1>2 DEF InitModule, CleanupModule, CleanupMisuse, Undefined, hist
  <2> QED
    BY <2>1 DEF NoEarlyFailure
<1>3. CASE UNCHANGED vars
  BY <1>3 DEF vars, hist, NoEarlyFailure
<1> QED
  BY <1>1, <1>2, <1>3 DEF Next

\* The mutex protects its accesses in every system where the three calls that
\* aesd_write makes before it has the lock do not fail: the violation needs one
\* of them, whatever else fails.
THEOREM ExclusionWithoutEarlyFailures ==
  ASSUME Faults \cap EarlyFaults = {}
  PROVE  Spec => []MutualExclusion
<1>1. Init => NoEarlyFailure
  BY DEF Init, NoEarlyFailure
<1>2. LockInv /\ NoEarlyFailure /\ [Next]_vars => NoEarlyFailure'
  BY NoEarlyFailureStays
<1>3. LockInv /\ NoEarlyFailure => MutualExclusion
  BY DEF LockInv, LockDiscipline, NoEarlyFailure, MutualExclusion
<1> QED
  BY <1>1, <1>2, <1>3, LockInvInit, NextKeepsLockInv, PTL DEF Spec
=============================================================================
