------------------------------ MODULE AesdChar ------------------------------
(***************************************************************************)
(* The character driver, aesd-char-driver/main.c, in a kernel where any    *)
(* number of processes are inside it at once.  A system call is a sequence *)
(* of steps; pc[p] names the next one and a step is as large as what no    *)
(* other process can see into: a stretch under dev->lock is split where a  *)
(* process that reads without the lock, or that was let in by a mistaken   *)
(* unlock, could come between.                                             *)
(*                                                                         *)
(* Each process has one open file.  Memory is a set of blocks; a block is  *)
(* FREE or holds a sequence of bytes.  A byte is any value, Newline one of *)
(* them.  Undefined behaviour (using or freeing a freed block, reading     *)
(* behind a block) sets ub and the system stops: nothing is claimed about  *)
(* what follows.                                                           *)
(*                                                                         *)
(* As in CircularBuffer, names that begin with Bug are seeded faults.      *)
(***************************************************************************)
EXTENDS CircularBuffer, SequencesExt

CONSTANTS
  Procs,        \* processes
  NoProc,       \* nobody holds the lock
  Blocks,       \* kernel heap blocks for command data; MaxWriteOps + 2 are
                \* enough for every state with one writer at a time
  FREE,         \* what a block that is not allocated holds
  Bytes,        \* the values of a byte
  Newline,      \* '\n'
  Payloads,     \* what a write may pass: non-empty sequences of bytes
  ReadCounts,   \* how many bytes a read may ask for
  Seeks,        \* arguments of llseek: [offset, whence]
  SeekTos,      \* arguments of the ioctl: struct aesd_seekto, [write_cmd,
                \* write_cmd_offset], both unsigned int
  IntBits,      \* width of int and unsigned int (32 in the code)
  Faults,       \* the calls that may fail
  MaxCalls      \* bound on the number of system calls begun

FaultSites == {"kmalloc", "copy_from_user", "interrupt_write", "krealloc",
               "interrupt", "copy_to_user", "cdev_add"}

ASSUME DriverAssumption ==
  /\ IsFiniteSet(Procs) /\ NoProc \notin Procs
  /\ NULL \notin Blocks
  /\ Payloads \subseteq Seq(Bytes) \ {<<>>}
  /\ FREE \notin Seq(Bytes)
  /\ ReadCounts \subseteq Nat \ {0}
  /\ Seeks \subseteq [offset : Int, whence : {"SET", "CUR", "END", "other"}]
  /\ SeekTos \subseteq [write_cmd : Nat, write_cmd_offset : Nat]
  /\ IntBits \in Nat \ {0}
  /\ Faults \subseteq FaultSites
  /\ MaxCalls \in Nat

VARIABLES
  loaded,     \* the module is inserted and the device exists
  lock,       \* the owner of dev->lock
  circ_buf,   \* dev->circ_buf
  working,    \* dev->working_entry
  heap,       \* the data blocks
  kern_bufs,  \* number of kern_buf allocations not freed
  open,       \* processes that have the device open
  f_pos,      \* filp->f_pos of each process
  pc,         \* where each process is in the driver
  arg,        \* arguments and local variables of the call in progress
  ret,        \* status of the last call, and the bytes it moved
  calls,      \* number of calls begun, bounded by MaxCalls
  stolen,     \* history: an unlock has released another process's lock
  quiet,      \* history: no command was committed since p's ioctl began
  ub          \* undefined behaviour has happened

device == <<circ_buf, working, heap>>
file   == <<open, f_pos>>
hist   == <<stolen, quiet, ub>>
vars   == <<loaded, lock, device, kern_bufs, file, pc, arg, ret, calls, hist>>

NoArg == <<>>

Init ==
  /\ loaded = FALSE
  /\ lock = NoProc
  /\ circ_buf = InitBuffer
  /\ working = EmptyEntry
  /\ heap = [b \in Blocks |-> FREE]
  /\ kern_bufs = 0
  /\ open = [p \in Procs |-> FALSE]
  /\ f_pos = [p \in Procs |-> 0]
  /\ pc = [p \in Procs |-> "idle"]
  /\ arg = [p \in Procs |-> NoArg]
  /\ ret = [p \in Procs |-> [status |-> "OK", data |-> <<>>]]
  /\ calls = 0
  /\ stolen = FALSE
  /\ quiet = [p \in Procs |-> TRUE]
  /\ ub = FALSE

-----------------------------------------------------------------------------
\* Steps of one process.

At(p, label) == pc[p] = label

Goto(p, label) == pc' = [pc EXCEPT ![p] = label]

SetArg(p, a) == arg' = [arg EXCEPT ![p] = a]

Result(p, status, data) ==
  ret' = [ret EXCEPT ![p] = [status |-> status, data |-> data]]

\* Enter the driver: some call of p's file begins with arguments a.
Enter(p, label, a) ==
  /\ open[p] /\ At(p, "idle") /\ calls < MaxCalls
  /\ calls' = calls + 1
  /\ Goto(p, label) /\ SetArg(p, a)

\* Return to user space without touching the lock.
Leave(p, status) ==
  /\ Goto(p, "idle") /\ SetArg(p, NoArg) /\ Result(p, status, <<>>)

\* mutex_lock_interruptible, when it succeeds: the label behind each lock call.
AfterLock == [w_lock |-> "w_append", r_lock |-> "r_find",
              l_lock |-> "l_seek",   i_lock |-> "i_seek"]

\* Nobody waits.
BugTakeLock(p) ==
  /\ pc[p] \in DOMAIN AfterLock
  /\ lock' = p /\ Goto(p, AfterLock[pc[p]])
  /\ UNCHANGED <<loaded, device, kern_bufs, file, arg, ret, calls, hist>>

TakeLock(p) ==
  /\ pc[p] \in DOMAIN AfterLock /\ lock = NoProc
  /\ lock' = p /\ Goto(p, AfterLock[pc[p]])
  /\ UNCHANGED <<loaded, device, kern_bufs, file, arg, ret, calls, hist>>

\* A signal while waiting for the lock, everywhere but in aesd_write.
LockInterrupted(p) ==
  /\ "interrupt" \in Faults /\ lock # NoProc
  /\ pc[p] \in {"r_lock", "l_lock", "i_lock"}
  /\ Leave(p, "ERESTARTSYS")
  /\ UNCHANGED <<loaded, lock, device, kern_bufs, file, calls, hist>>

\* A call that fails under the lock returns with it.
BugUnlock(p) ==
  /\ pc[p] \in {"unlock", "w_fail"}
  /\ lock' = IF lock = p /\ ret[p].status # "OK" THEN p ELSE NoProc
  /\ stolen' = (stolen \/ lock \notin {p, NoProc})
  /\ Goto(p, "idle") /\ SetArg(p, NoArg)
  /\ UNCHANGED <<loaded, device, kern_bufs, file, ret, calls, quiet, ub>>

\* mutex_unlock releases the lock whoever holds it.  Every path of a call that
\* took the lock ends here ("unlock"), and so do the paths of aesd_write that
\* failed before taking it ("w_fail").
Unlock(p) ==
  /\ pc[p] \in {"unlock", "w_fail"}
  /\ lock' = NoProc
  /\ stolen' = (stolen \/ lock \notin {p, NoProc})
  /\ Goto(p, "idle") /\ SetArg(p, NoArg)
  /\ UNCHANGED <<loaded, device, kern_bufs, file, ret, calls, quiet, ub>>

-----------------------------------------------------------------------------
\* aesd_open, aesd_release.  The kernel lets a file be opened while the module
\* is inserted, and closed when no call on it is in progress; the struct file is
\* freed then, and its position with it.

Open(p) ==
  /\ loaded /\ ~open[p]
  /\ open' = [open EXCEPT ![p] = TRUE]
  /\ f_pos' = [f_pos EXCEPT ![p] = 0]
  /\ UNCHANGED <<loaded, lock, device, kern_bufs, pc, arg, ret, calls, hist>>

Release(p) ==
  /\ open[p] /\ At(p, "idle")
  /\ open' = [open EXCEPT ![p] = FALSE]
  /\ f_pos' = [f_pos EXCEPT ![p] = 0] /\ Result(p, "OK", <<>>)
  /\ UNCHANGED <<loaded, lock, device, kern_bufs, pc, arg, calls, hist>>

-----------------------------------------------------------------------------
\* aesd_write

BugAccepted(bytes) == bytes    \* the bytes behind the newline are taken too

\* The bytes a write takes: up to and including the first newline.
Accepted(bytes) ==
  LET newlines == {i \in DOMAIN bytes : bytes[i] = Newline}
  IN  IF newlines = {} THEN bytes ELSE SubSeq(bytes, 1, Min(newlines))

EndsCommand(bytes) == \E i \in DOMAIN bytes : bytes[i] = Newline

\* kmalloc and copy_from_user succeed.
BeginWrite(p) ==
  /\ \E bytes \in Payloads :
       Enter(p, "w_lock", [data |-> Accepted(bytes), overwritten |-> NULL])
  /\ kern_bufs' = kern_bufs + 1
  /\ UNCHANGED <<loaded, lock, device, file, ret, hist>>

\* One of them fails: on to the unlock, with no copy left and no lock held.
BeginWriteFails(p) ==
  /\ Enter(p, "w_fail", NoArg)
  /\ \/ "kmalloc" \in Faults /\ Result(p, "ENOMEM", <<>>)
     \/ "copy_from_user" \in Faults /\ Result(p, "EFAULT", <<>>)
  /\ UNCHANGED <<loaded, lock, device, kern_bufs, file, hist>>

\* A signal while waiting: the copy is freed, then on to the same unlock.
WriteInterrupted(p) ==
  /\ "interrupt_write" \in Faults /\ At(p, "w_lock") /\ lock # NoProc
  /\ kern_bufs' = kern_bufs - 1
  /\ Result(p, "ERESTARTSYS", <<>>)
  /\ Goto(p, "w_fail") /\ SetArg(p, NoArg)
  /\ UNCHANGED <<loaded, lock, device, file, calls, hist>>

Freed(ptr) == ptr # NULL /\ heap[ptr] = FREE

BugKfree(ptr) == UNCHANGED heap    \* the pointer is dropped

\* kfree of one pointer and of NULL, which is nothing.
Kfree(ptr) == heap' = [b \in Blocks |-> IF b = ptr THEN FREE ELSE heap[b]]

\* krealloc grows the block (a move leaves no trace, nobody else knows the
\* pointer) or allocates the first one, and which one makes no difference;
\* memcpy appends.  kern_buf is not freed on this path or on any other that
\* took the lock.
WriteAppend(p) ==
  /\ At(p, "w_append") /\ ~Freed(working.buffptr)
  /\ working.buffptr = NULL => \E b \in Blocks : heap[b] = FREE
  /\ LET ptr == IF working.buffptr # NULL THEN working.buffptr
                ELSE CHOOSE b \in Blocks : heap[b] = FREE
         old == IF working.buffptr # NULL THEN heap[ptr] ELSE <<>>
     IN  /\ heap' = [heap EXCEPT ![ptr] = old \o arg[p].data]
         /\ working' = [buffptr |-> ptr,
                        size    |-> working.size + Len(arg[p].data)]
  /\ Result(p, "OK", arg[p].data)
  /\ Goto(p, IF EndsCommand(arg[p].data) THEN "w_store" ELSE "unlock")
  /\ UNCHANGED <<loaded, lock, circ_buf, kern_bufs, file, arg, calls, hist>>

\* krealloc fails: the block is freed, its pointer and size stay behind.
WriteAppendFails(p) ==
  /\ "krealloc" \in Faults
  /\ At(p, "w_append") /\ ~Freed(working.buffptr)
  /\ Kfree(working.buffptr)
  /\ Result(p, "ENOMEM", <<>>)
  /\ Goto(p, "unlock")
  /\ UNCHANGED <<loaded, lock, circ_buf, working, kern_bufs, file, arg, calls, hist>>

\* aesd_circular_buffer_add_entry, first half ...
WriteStore(p) ==
  /\ At(p, "w_store")
  /\ SetArg(p, [arg[p] EXCEPT !.overwritten = Overwritten(circ_buf)])
  /\ circ_buf' = StoreEntry(circ_buf, working)
  /\ Goto(p, "w_advance")
  /\ UNCHANGED <<loaded, lock, working, heap, kern_bufs, file, ret, calls, hist>>

\* ... and second half; every ioctl in progress has now seen a change.
WriteAdvance(p) ==
  /\ At(p, "w_advance")
  /\ circ_buf' = AdvanceOut(circ_buf)
  /\ quiet' = [q \in Procs |-> FALSE]
  /\ Goto(p, "w_reclaim")
  /\ UNCHANGED <<loaded, lock, working, heap, kern_bufs, file, arg, ret, calls,
                 stolen, ub>>

\* Free what was overwritten and clear the working entry.
WriteReclaim(p) ==
  /\ At(p, "w_reclaim") /\ ~Freed(arg[p].overwritten)
  /\ Kfree(arg[p].overwritten)
  /\ working' = EmptyEntry
  /\ Goto(p, "unlock")
  /\ UNCHANGED <<loaded, lock, circ_buf, kern_bufs, file, arg, ret, calls, hist>>

-----------------------------------------------------------------------------
\* aesd_read

BeginRead(p) ==
  /\ \E count \in ReadCounts :
       Enter(p, "r_lock", [count |-> count, entry |-> NotFound])
  /\ UNCHANGED <<loaded, lock, device, kern_bufs, file, ret, hist>>

\* Look up the entry f_pos falls into; none means end of file.
ReadFind(p) ==
  LET hit == FindEntryOffsetForFpos(circ_buf, f_pos[p])
  IN  /\ At(p, "r_find")
      /\ IF hit.found /\ circ_buf.entry[hit.index].buffptr # NULL
         THEN /\ SetArg(p, [arg[p] EXCEPT !.entry = hit])
              /\ Goto(p, "r_copy") /\ UNCHANGED ret
         ELSE /\ Result(p, "OK", <<>>)
              /\ Goto(p, "unlock") /\ UNCHANGED arg
      /\ UNCHANGED <<loaded, lock, device, kern_bufs, file, calls, hist>>

\* The entry a reader found, read again, how many of its bytes are copied, and
\* whether the memory they are in is still there.
Found(p) == circ_buf.entry[arg[p].entry.index]

Available(p) ==
  LET rest == Found(p).size - arg[p].entry.offset
  IN  IF rest < arg[p].count THEN rest ELSE arg[p].count

Readable(p) ==
  /\ Found(p).buffptr # NULL /\ ~Freed(Found(p).buffptr)
  /\ Available(p) >= 0
  /\ arg[p].entry.offset + Available(p) <= Len(heap[Found(p).buffptr])

ReadCopy(p) ==
  LET from      == arg[p].entry.offset
      available == Available(p)
  IN  /\ At(p, "r_copy") /\ Readable(p)
      /\ \/ /\ Result(p, "OK", SubSeq(heap[Found(p).buffptr],
                                      from + 1, from + available))
            /\ f_pos' = [f_pos EXCEPT ![p] = @ + available]
         \/ /\ "copy_to_user" \in Faults
            /\ Result(p, "EFAULT", <<>>) /\ UNCHANGED f_pos
      /\ Goto(p, "unlock")
      /\ UNCHANGED <<loaded, lock, device, kern_bufs, open, arg, calls, hist>>

-----------------------------------------------------------------------------
\* aesd_llseek

BeginLlseek(p) ==
  /\ \E seek \in Seeks : Enter(p, "l_lock", seek)
  /\ UNCHANGED <<loaded, lock, device, kern_bufs, file, ret, hist>>

\* All slots count that hold a pointer, valid or not.
TotalSize ==
  SumFunction([i \in Index |-> IF circ_buf.entry[i].buffptr # NULL
                               THEN circ_buf.entry[i].size ELSE 0])

BugRefused(newpos) == FALSE    \* a negative position is set

\* A position in front of the first byte is refused.
Refused(newpos) == newpos < 0

Llseek(p) ==
  LET newpos == CASE arg[p].whence = "SET" -> arg[p].offset
                  [] arg[p].whence = "CUR" -> f_pos[p] + arg[p].offset
                  [] arg[p].whence = "END" -> TotalSize + arg[p].offset
                  [] OTHER -> -1
  IN  /\ At(p, "l_seek")
      /\ IF Refused(newpos)
         THEN Result(p, "EINVAL", <<>>) /\ UNCHANGED f_pos
         ELSE Result(p, "OK", <<>>) /\ f_pos' = [f_pos EXCEPT ![p] = newpos]
      /\ Goto(p, "unlock")
      /\ UNCHANGED <<loaded, lock, device, kern_bufs, open, arg, calls, hist>>

-----------------------------------------------------------------------------
\* aesd_unlocked_ioctl, command AESDCHAR_IOCSEEKTO

\* The conversion of an unsigned int to int, and C's remainder.
ToInt(u) == IF u >= 2 ^ (IntBits - 1) THEN u - 2 ^ IntBits ELSE u

CRemainder(a, n) == IF a >= 0 THEN a % n ELSE -((-a) % n)

\* trav is out_offs as it is before the arguments are copied in; no lock.
BeginIoctl(p) ==
  /\ \E seekto \in SeekTos :
       Enter(p, "i_index",
             [seekto |-> seekto, trav |-> circ_buf.out_offs, index |-> 0])
  /\ quiet' = [quiet EXCEPT ![p] = TRUE]
  /\ UNCHANGED <<loaded, lock, device, kern_bufs, file, ret, stolen, ub>>

IoctlFault(p) ==
  /\ "copy_from_user" \in Faults /\ At(p, "i_index")
  /\ Leave(p, "EFAULT")
  /\ UNCHANGED <<loaded, lock, device, kern_bufs, file, calls, hist>>

\* write_cmd taken for a slot, wherever the oldest command is.
BugCommandIndex(write_cmd) == CRemainder(ToInt(write_cmd), MaxWriteOps)

CommandIndex(write_cmd) ==
  CRemainder(ToInt(write_cmd) + circ_buf.out_offs, MaxWriteOps)

\* command_index, from out_offs read a second time; still no lock.
IoctlIndex(p) ==
  /\ At(p, "i_index")
  /\ SetArg(p, [arg[p] EXCEPT !.index = CommandIndex(arg[p].seekto.write_cmd)])
  /\ Goto(p, "i_check")
  /\ UNCHANGED <<loaded, lock, device, kern_bufs, file, ret, calls, hist>>

\* The offset may be as large as the size of the entry, read without the lock.
\* In front of the array (index < 0) the size is whatever is in memory there.
IoctlAccepts(p) ==
  /\ At(p, "i_check")
  /\ arg[p].index \in Index =>
       arg[p].seekto.write_cmd_offset <= circ_buf.entry[arg[p].index].size
  /\ Goto(p, "i_lock")
  /\ UNCHANGED <<loaded, lock, device, kern_bufs, file, arg, ret, calls, hist>>

IoctlRejects(p) ==
  /\ At(p, "i_check")
  /\ arg[p].index \in Index =>
       arg[p].seekto.write_cmd_offset > circ_buf.entry[arg[p].index].size
  /\ Leave(p, "EINVAL")
  /\ UNCHANGED <<loaded, lock, device, kern_bufs, file, calls, hist>>

\* The sizes of the slots from trav on, up to but not including index.
ByteCount(trav, index) ==
  LET steps == (index - trav) % MaxWriteOps
  IN  SumFunction([k \in 0 .. steps - 1 |->
                     circ_buf.entry[(trav + k) % MaxWriteOps].size])

\* trav runs through the slots until it meets index; when index is negative it
\* never does, and the process stays here with the lock.
IoctlSeek(p) ==
  /\ At(p, "i_seek") /\ arg[p].index \in Index
  /\ f_pos' = [f_pos EXCEPT ![p] =
                 ByteCount(arg[p].trav, arg[p].index)
                   + arg[p].seekto.write_cmd_offset]
  /\ Result(p, "OK", <<>>)
  /\ Goto(p, "unlock")
  /\ UNCHANGED <<loaded, lock, device, kern_bufs, open, arg, calls, hist>>

-----------------------------------------------------------------------------
\* The module

\* aesd_init_module; when cdev_add fails there is no device.
InitModule ==
  /\ ~loaded
  /\ lock' = NoProc
  /\ circ_buf' = InitBuffer
  /\ working' = EmptyEntry
  /\ loaded' \in {TRUE, "cdev_add" \notin Faults}
  /\ UNCHANGED <<heap, kern_bufs, file, pc, arg, ret, calls, hist>>

BugCleanupFrees == StoredPointers(circ_buf)    \* not the unfinished command

\* Everything aesd_cleanup_module frees, slot by slot and then the working
\* entry; a block must not come up twice or be free already.
CleanupFrees == StoredPointers(circ_buf) \cup ({working.buffptr} \ {NULL})

CleanupSafe ==
  /\ \A b \in CleanupFrees : heap[b] # FREE
  /\ working.buffptr \notin StoredPointers(circ_buf)
  /\ PointersDiffer(circ_buf)

\* The kernel does not remove a module whose device is open.
CleanupModule ==
  /\ loaded /\ (\A p \in Procs : ~open[p]) /\ CleanupSafe
  /\ loaded' = FALSE
  /\ heap' = [b \in Blocks |-> IF b \in CleanupFrees THEN FREE ELSE heap[b]]
  /\ UNCHANGED <<lock, circ_buf, working, kern_bufs, file, pc, arg, ret, calls, hist>>

-----------------------------------------------------------------------------

\* Nothing is claimed about what follows.
Undefined ==
  /\ ub' = TRUE
  /\ UNCHANGED <<loaded, lock, device, kern_bufs, file, pc, arg, ret, calls,
                 stolen, quiet>>

\* Using or freeing a freed block, or reading behind one.
Misuse(p) ==
  /\ \/ At(p, "w_append") /\ Freed(working.buffptr)
     \/ At(p, "w_reclaim") /\ Freed(arg[p].overwritten)
     \/ At(p, "r_copy") /\ ~Readable(p)
  /\ Undefined

CleanupMisuse ==
  /\ loaded /\ (\A p \in Procs : ~open[p]) /\ ~CleanupSafe
  /\ Undefined

\* A call in progress goes on.
Continue(p) ==
  \/ TakeLock(p) \/ Unlock(p)
  \/ WriteAppend(p) \/ WriteAppendFails(p)
  \/ WriteStore(p) \/ WriteAdvance(p) \/ WriteReclaim(p)
  \/ ReadFind(p) \/ ReadCopy(p)
  \/ Llseek(p)
  \/ IoctlFault(p) \/ IoctlIndex(p) \/ IoctlAccepts(p) \/ IoctlRejects(p)
  \/ IoctlSeek(p)
  \/ Misuse(p)

\* A signal ends the wait for the lock; none has to come.
Interrupted(p) == LockInterrupted(p) \/ WriteInterrupted(p)

Begin(p) ==
  \/ Open(p) \/ Release(p)
  \/ BeginWrite(p) \/ BeginWriteFails(p) \/ BeginRead(p)
  \/ BeginLlseek(p) \/ BeginIoctl(p)

Next ==
  /\ ~ub
  /\ \/ \E p \in Procs : Begin(p) \/ Continue(p) \/ Interrupted(p)
     \/ InitModule \/ CleanupModule
     \/ CleanupMisuse

\* A process inside the driver keeps running, and the mutex hands over to its
\* waiters: nobody waits for ever for a lock that is released again and again.
Fairness ==
  \A p \in Procs : WF_vars(~ub /\ Continue(p)) /\ SF_vars(~ub /\ TakeLock(p))

Spec == Init /\ [][Next]_vars

FairSpec == Spec /\ Fairness

-----------------------------------------------------------------------------

Labels == DOMAIN AfterLock \cup
  {"idle", "unlock", "w_fail", "w_append", "w_store", "w_advance", "w_reclaim",
   "r_find", "r_copy", "l_seek", "i_index", "i_check", "i_seek"}

\* Inside the region dev->lock protects.
CriticalLabels == {"w_append", "w_store", "w_advance", "w_reclaim",
                   "r_find", "r_copy", "l_seek", "i_seek", "unlock"}

Critical(p) == pc[p] \in CriticalLabels

WriteArgs == [data : Seq(Bytes), overwritten : Blocks \cup {NULL}]
ReadArgs  == [count : ReadCounts,
              entry : [found : BOOLEAN, index : Index, offset : Nat]]
IoctlArgs == [seekto : SeekTos, trav : Index, index : Int]

\* The arguments and local variables of a call, by where it is.
ArgsAt(label) ==
  IF label \in {"w_lock", "w_append", "w_store", "w_advance", "w_reclaim"}
  THEN WriteArgs
  ELSE IF label \in {"r_lock", "r_find", "r_copy"} THEN ReadArgs
  ELSE IF label \in {"l_lock", "l_seek"} THEN Seeks
  ELSE IF label \in {"i_index", "i_check", "i_lock", "i_seek"} THEN IoctlArgs
  ELSE IF label \in {"idle", "w_fail"} THEN {NoArg}
  ELSE WriteArgs \cup ReadArgs \cup Seeks \cup IoctlArgs

Statuses == {"OK", "ENOMEM", "EFAULT", "ERESTARTSYS", "EINVAL"}

\* The types of everything that decides who is inside the driver.
ControlTypeOK ==
  /\ loaded \in BOOLEAN
  /\ lock \in Procs \cup {NoProc}
  /\ open \in [Procs -> BOOLEAN]
  /\ pc \in [Procs -> Labels]
  /\ calls \in Nat
  /\ stolen \in BOOLEAN
  /\ quiet \in [Procs -> BOOLEAN]
  /\ ub \in BOOLEAN

\* Every variable has its type.
TypeOK ==
  /\ ControlTypeOK
  /\ circ_buf \in RingsOver(Blocks)
  /\ working \in EntriesOver(Blocks)
  /\ heap \in [Blocks -> Seq(Bytes) \cup {FREE}]
  /\ kern_bufs \in Nat
  /\ f_pos \in [Procs -> Nat]
  /\ DOMAIN arg = Procs /\ \A p \in Procs : arg[p] \in ArgsAt(pc[p])
  /\ ret \in [Procs -> [status : Statuses, data : Seq(Bytes)]]

\* The lock is held by the process inside the protected region, and by it
\* alone, as long as no unlock has released somebody else's lock
\* (mutex_lock_interruptible and mutex_unlock in all five operations).
LockDiscipline == ~stolen => \A p \in Procs : Critical(p) <=> lock = p

\* "Mutex to protect accesses" (aesdchar.h): never two processes at once in
\* the region between a lock call and its unlock.
MutualExclusion ==
  \A p, q \in Procs : Critical(p) /\ Critical(q) => p = q

\* No freed block is read, written or freed again (krealloc, kfree,
\* copy_to_user in main.c).
NoUseAfterFree == ~ub

-----------------------------------------------------------------------------
\* What the device holds, once the command being stored is stored.

\* A writer is between the copy of a newline and the end of its call.
Committing(label) == \E p \in Procs : At(p, label)

Settled ==
  IF Committing("w_store") THEN AddEntry(circ_buf, working)
  ELSE IF Committing("w_advance") THEN AdvanceOut(circ_buf)
  ELSE circ_buf

Commands ==
  IF ~loaded THEN <<>>
  ELSE LET w == Window(Settled) IN [k \in DOMAIN w |-> heap[w[k].buffptr]]

Partial ==
  IF \/ ~loaded \/ working.buffptr = NULL
     \/ Committing("w_store") \/ Committing("w_advance") \/ Committing("w_reclaim")
  THEN <<>> ELSE heap[working.buffptr]

\* Neither of the two ways a failed write spoils the device has happened.
Sound == ~stolen /\ ~ub /\ (loaded => ~Freed(working.buffptr))

Allocated == {b \in Blocks : heap[b] # FREE}

\* Blocks taken out of the ring and not yet freed.
Leaving == {arg[p].overwritten : p \in {q \in Procs : pc[q] \in {"w_advance", "w_reclaim"}}}
             \ {NULL}

\* Every allocated block has one owner at every step of every interleaving:
\* a slot, the working entry, or the writer about to free it; the newest slot
\* and the working entry share one only until the writer clears the latter.
\* The size beside a pointer is the size of its block (aesd_write, add_entry).
Ownership ==
  Sound /\ loaded =>
    LET stored == StoredPointers(circ_buf)
        typed  == {working.buffptr} \ {NULL}
    IN  /\ Allocated = stored \cup typed \cup Leaving
        /\ Leaving \cap (stored \cup typed) = {}
        /\ typed \cap stored # {} => Committing("w_advance") \/ Committing("w_reclaim")
        /\ PointersDiffer(circ_buf)
        /\ \A e \in {circ_buf.entry[i] : i \in Index} \cup {working} :
             e.size = IF e.buffptr = NULL THEN 0 ELSE Len(heap[e.buffptr])

\* Unloading the module frees every command and the unfinished one
\* (aesd_cleanup_module); the leaked copies of writes are counted elsewhere.
NoBlockOutlivesModule == Sound /\ ~loaded => Allocated = {}

\* What readers are given are whole commands: each kept command ends with its
\* only newline, and what is being typed has none, however the pieces of
\* several writers arrive (memchr and num_copy in aesd_write).
CommandsAreWhole ==
  Sound =>
    /\ \A k \in DOMAIN Commands :
         {i \in DOMAIN Commands[k] : Commands[k][i] = Newline} = {Len(Commands[k])}
    /\ ~EndsCommand(Partial)

\* A seek to a stored command, undisturbed by a commit, goes to the byte at
\* that offset of that command; the unlocked reads of out_offs and size do no
\* harm then (aesd_unlocked_ioctl).
SeekIsExact ==
  [][\A p \in Procs :
       IoctlSeek(p) /\ quiet[p] /\ Sound
         => LET n   == arg[p].seekto.write_cmd
                off == arg[p].seekto.write_cmd_offset
            IN  n < Len(Commands) =>
                  /\ off <= Len(Commands[n + 1])
                  /\ f_pos'[p] = Len(FlattenSeq(SubSeq(Commands, 1, n))) + off
    ]_vars

\* "The zero referenced write command to seek into" (aesd_ioctl.h): a seek
\* that is carried out names a command the device holds, if it holds any.
SeekNamesStoredCommand ==
  \A p \in Procs :
    At(p, "i_seek") /\ quiet[p] /\ Commands # <<>>
      => arg[p].seekto.write_cmd < Len(Commands)

\* A seek whose index is negative: it looks for a slot in front of the array
\* for ever, with the lock (lines 213-229).
SeeksForEver(p) == At(p, "i_seek") /\ arg[p].index \notin Index

\* Every system call returns, failed or not: no path of the driver leaves
\* without unlocking and none waits for a lock that is never released, but for
\* that of a seek to a command number that an int takes for a negative one.
EveryCallReturns ==
  \A p \in Procs :
    ~At(p, "idle") ~> At(p, "idle") \/ ub \/ \E q \in Procs : SeeksForEver(q)

\* The driver implements the atomic device.  A write takes effect when its
\* bytes are appended, a read when they are copied.
Abstract == INSTANCE AesdDevice
              WITH Limit   <- MaxWriteOps,
                   cmds    <- Commands,
                   partial <- Partial

\* Whatever the interleaving, every call looks like one atomic step: no
\* reader or seeker ever sees half a command, half an eviction, or the bytes
\* of a command out of order.
ImplementsAesdDevice == Abstract!Spec

\* The same, step by step, with every fault of the kernel's services: a write
\* that fails appends nothing, unless it has spoiled the device.
StepsImplementDevice ==
  [][Sound /\ Sound' => [Abstract!Next]_(Abstract!vars)]_vars
=============================================================================
