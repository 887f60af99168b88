-------------------------- MODULE AesdDeviceProofs --------------------------
(***************************************************************************)
(* The driver looks like the atomic device of AesdDevice to everybody who  *)
(* uses it: every step of a call is one operation of that device or none.  *)
(***************************************************************************)
EXTENDS AesdMemoryProofs

\* The commands in ring b, their bytes in heap h.
CommandsIn(b, h) == [k \in 1 .. Count(b) |-> h[b.entry[Slot(b, k - 1)].buffptr]]

\* The commands of the refinement mapping are the bytes behind the ring's
\* entries.
LEMMA CommandsInRing ==
  ASSUME loaded
  PROVE  Commands = CommandsIn(Settled, heap)
BY DEF Commands, CommandsIn, Window

\* The same of the next state.
LEMMA CommandsInRingNext ==
  ASSUME loaded'
  PROVE  Commands' = CommandsIn(Settled', heap')
BY DEF Commands, CommandsIn, Window

-----------------------------------------------------------------------------
\* What the device holds while nobody commits.

NobodyCommits == \A q \in Procs : pc[q] \notin StoringLabels

\* Between commits the ring and the working entry are what the device shows.
LEMMA Quiescent ==
  ASSUME DriverInv, Sound, loaded, NobodyCommits
  PROVE  /\ Settled = circ_buf
         /\ Partial = IF working.buffptr = NULL THEN <<>> ELSE heap[working.buffptr]
         /\ MemoryOK(circ_buf, working, heap, "idle", NULL)
BY DEF NobodyCommits, Settled, Partial, Committing, At, StoringLabels, DriverInv, MemoryInv

\* A process inside the region that is not committing keeps others from it.
LEMMA InsideNobodyCommits ==
  ASSUME DriverInv, Sound, NEW p \in Procs, pc[p] \in CriticalLabels \ StoringLabels
  PROVE  NobodyCommits /\ loaded
<1>1. LockInv /\ ~stolen
  BY DEF DriverInv, TypeInv, Sound
<1>2. \A q \in Procs : q # p => pc[q] \notin CriticalLabels
  BY <1>1, Alone DEF Critical
<1>3. NobodyCommits
  BY <1>2 DEF NobodyCommits, StoringLabels, CriticalLabels
<1>4. loaded
  BY <1>1, InsideIsOpen DEF LockInv, NobodyInside, CriticalLabels
<1> QED
  BY <1>3, <1>4

\* The command in slot k of the window is as long as its entry says.
LEMMA CommandSizes ==
  ASSUME DriverInv, Sound, loaded, NobodyCommits
  PROVE  /\ Commands \in Seq(Seq(Bytes)) /\ Len(Commands) = Count(circ_buf)
         /\ \A k \in 1 .. Count(circ_buf) :
              LET e == circ_buf.entry[Slot(circ_buf, k - 1)]
              IN  /\ Commands[k] = heap[e.buffptr] /\ Len(Commands[k]) = e.size
                  /\ Whole(Commands[k])
<1>1. Settled = circ_buf /\ MemoryOK(circ_buf, working, heap, "idle", NULL)
  BY Quiescent
<1>2. /\ Count(circ_buf) \in Nat /\ DOMAIN Commands = 1 .. Count(circ_buf)
      /\ \A k \in 1 .. Count(circ_buf) :
              /\ Commands[k] = heap[circ_buf.entry[Slot(circ_buf, k - 1)].buffptr]
              /\ circ_buf.entry[Slot(circ_buf, k - 1)].buffptr \in StoredPointers(circ_buf)
              /\ Whole(Commands[k])
  BY <1>1, CommandsAre
<1>3. circ_buf \in RingsOver(Blocks) /\ heap \in Heaps
  BY DEF DriverInv, TypeInv, DataTypeOK
<1>4. ASSUME NEW k \in 1 .. Count(circ_buf)
      PROVE  /\ Commands[k] \in Seq(Bytes)
             /\ Len(Commands[k]) = circ_buf.entry[Slot(circ_buf, k - 1)].size
  <2> DEFINE i == Slot(circ_buf, k - 1)
             ptr == circ_buf.entry[i].buffptr
  <2>1. k - 1 \in Nat
    BY <1>2
  <2>2. i \in Index
    BY <1>3, <2>1, SlotInIndex
  <2>3. Commands[k] = heap[ptr] /\ ptr \in StoredPointers(circ_buf)
    BY <1>2
  <2> HIDE DEF i
  <2>4. ptr \in Blocks /\ heap[ptr] # FREE /\ ptr # NULL
    BY <1>1, <2>3 DEF MemoryOK, OneOwner, StoredPointers
  <2>5. heap[ptr] \in Seq(Bytes)
    BY <1>3, <2>4 DEF Heaps
  <2>6. SizeRight(circ_buf.entry[i], heap)
    BY <1>1, <2>2 DEF MemoryOK, SizesRight
  <2>7. Len(Commands[k]) = circ_buf.entry[i].size
    BY <2>3, <2>4, <2>6 DEF SizeRight
  <2> QED
    BY <2>3, <2>5, <2>7 DEF i
<1>5. Commands = [k \in 1 .. Count(circ_buf) |-> Commands[k]]
  BY <1>1, <1>2, CommandsInRing DEF CommandsIn
<1>6. Commands \in Seq(Seq(Bytes)) /\ Len(Commands) = Count(circ_buf)
  <2> DEFINE n == Count(circ_buf)
             c == Commands
  <2>1. n \in Nat /\ c = [k \in 1 .. n |-> c[k]] /\ \A k \in 1 .. n : c[k] \in Seq(Bytes)
    BY <1>2, <1>4, <1>5
  <2> HIDE DEF n, c
  <2>2. c \in Seq(Seq(Bytes)) /\ Len(c) = n
    BY <2>1
  <2> QED
    BY <2>2 DEF n, c
<1> QED
  BY <1>2, <1>4, <1>6

\* bytes_so_far is where each command begins in the concatenation of all.
LEMMA CommandPlaces ==
  ASSUME DriverInv, Sound, loaded, NobodyCommits
  PROVE  LET all == FlattenSeq(Commands)
             n   == Count(circ_buf)
         IN  /\ all \in Seq(Bytes) /\ Len(all) = BytesSoFar(circ_buf, n)
             /\ \A k \in 0 .. n - 1 : \A j \in 1 .. Len(Commands[k + 1]) :
                  /\ all[BytesSoFar(circ_buf, k) + j] = Commands[k + 1][j]
                  /\ BytesSoFar(circ_buf, k) + j <= Len(all)
             /\ \A k \in 0 .. n :
                  Len(FlattenSeq(SubSeq(Commands, 1, k))) = BytesSoFar(circ_buf, k)
<1> DEFINE b == circ_buf
           n == Count(b)
           pos == [k \in 0 .. n |-> BytesSoFar(b, k)]
           all == FlattenSeq(Commands)
<1>1. b \in RingsOver(Blocks)
  BY DEF DriverInv, TypeInv, DataTypeOK
<1>2. n \in Nat
  BY <1>1, CountType
<1>3. /\ Commands \in Seq(Seq(Bytes)) /\ Len(Commands) = n
      /\ \A k \in 1 .. n : Len(Commands[k]) = b.entry[Slot(b, k - 1)].size
  BY CommandSizes
<1>4. /\ \A k \in 0 .. n : pos[k] = BytesSoFar(b, k) /\ pos[k] \in Nat
      /\ pos[0] = 0
  BY <1>1, <1>2, BytesSoFarStep
<1>5. ASSUME NEW k \in 1 .. n PROVE pos[k] = pos[k - 1] + Len(Commands[k])
  <2>1. k - 1 \in Nat /\ (k - 1) + 1 = k /\ k \in 0 .. n /\ k - 1 \in 0 .. n
    BY <1>2
  <2>2. BytesSoFar(b, (k - 1) + 1)
          = BytesSoFar(b, k - 1) + b.entry[Slot(b, k - 1)].size
    BY <1>1, <2>1, BytesSoFarStep
  <2> HIDE DEF pos, n, b
  <2> QED
    BY <1>3, <1>4, <2>1, <2>2
<1> HIDE DEF pos, n, b
<1>6. /\ all \in Seq(Bytes) /\ Len(all) = pos[n]
      /\ \A k \in 1 .. n : \A j \in 1 .. Len(Commands[k]) :
           all[pos[k - 1] + j] = Commands[k][j]
  <2> DEFINE c == Commands
  <2>1. c \in Seq(Seq(Bytes)) /\ Len(c) = n /\ \A k \in 1 .. n : pos[k] = pos[k - 1] + Len(c[k])
    BY <1>3, <1>5
  <2> HIDE DEF c
  <2>2. Places(pos, c)
    BY <1>4, <2>1 DEF Places
  <2>3. /\ FlattenSeq(c) \in Seq(Bytes) /\ Len(FlattenSeq(c)) = pos[Len(c)]
        /\ LaidOut(FlattenSeq(c), c, pos)
    BY <2>1, <2>2, FlattenPlaces
  <2> QED
    BY <2>1, <2>3 DEF LaidOut, c
<1>7. \A k \in 0 .. n : pos[k] <= pos[n]
  <2>1. \A k \in 0 .. n : BytesSoFar(b, k) <= BytesSoFar(b, n)
    BY <1>1, <1>2, BytesSoFarGrows
  <2>2. n \in 0 .. n
    BY <1>2
  <2> QED
    BY <1>4, <2>1, <2>2
<1>8. ASSUME NEW k \in 0 .. n - 1, NEW j \in 1 .. Len(Commands[k + 1])
      PROVE  /\ all[BytesSoFar(b, k) + j] = Commands[k + 1][j]
             /\ BytesSoFar(b, k) + j <= Len(all)
  <2>1. k + 1 \in 1 .. n /\ (k + 1) - 1 = k /\ k \in 0 .. n /\ k + 1 \in 0 .. n
        /\ n \in 0 .. n
    BY <1>2
  <2>2. all[pos[k] + j] = Commands[k + 1][j]
    BY <1>6, <2>1
  <2>3. pos[k + 1] = pos[k] + Len(Commands[k + 1])
    BY <1>5, <2>1
  <2>4. /\ pos[k + 1] <= pos[n] /\ pos[k] \in Nat /\ pos[n] \in Nat
        /\ Len(Commands[k + 1]) \in Nat
    BY <1>3, <1>4, <1>7, <2>1
  <2>5. pos[k] = BytesSoFar(b, k)
    BY <1>4, <2>1
  <2> QED
    BY <1>6, <2>2, <2>3, <2>4, <2>5
<1>9. ASSUME NEW k \in 0 .. n
      PROVE  Len(FlattenSeq(SubSeq(Commands, 1, k))) = BytesSoFar(b, k)
  <2> DEFINE s == SubSeq(Commands, 1, k)
  <2>1. /\ k \in Nat /\ k <= n /\ s \in Seq(Seq(Bytes)) /\ Len(s) = k
        /\ \A i \in 1 .. k : s[i] = Commands[i]
    BY <1>2, <1>3
  <2> HIDE DEF s
  <2>2. \A i \in 0 .. k : pos[i] \in Nat
    BY <1>2, <1>4, <2>1
  <2>3. \A i \in 1 .. k : pos[i] = pos[i - 1] + Len(s[i])
    BY <1>2, <1>5, <2>1
  <2>4. Len(FlattenSeq(s)) = pos[k]
    <3>1. Places(pos, s)
      BY <1>4, <2>1, <2>2, <2>3 DEF Places
    <3> QED
      BY <2>1, <3>1, FlattenPlaces
  <2> QED
    BY <1>4, <2>4 DEF s
<1>10. n \in 0 .. n
  BY <1>2
<1>11. Len(all) = BytesSoFar(b, n)
  BY <1>4, <1>6, <1>10
<1> QED
  BY <1>6, <1>8, <1>9, <1>11 DEF n, b
-----------------------------------------------------------------------------
\* Steps that leave the device as it is.

\* A call goes on outside a commit.
LEMMA MoveKeepsContents ==
  ASSUME TypeInv, NEW p \in Procs, NEW l,
         pc' = [pc EXCEPT ![p] = l],
         pc[p] \notin StoringLabels, l \notin StoringLabels,
         UNCHANGED <<device, loaded>>
  PROVE  UNCHANGED <<Commands, Partial>>
<1>1. /\ pc \in [Procs -> Labels]
      /\ circ_buf' = circ_buf /\ working' = working /\ heap' = heap /\ loaded' = loaded
  BY DEF TypeInv, LockInv, ControlTypeOK, device
<1>2. ASSUME NEW s \in StoringLabels PROVE Committing(s)' <=> Committing(s)
  BY <1>1 DEF Committing, At
<1>3. /\ Committing("w_store")' <=> Committing("w_store")
      /\ Committing("w_advance")' <=> Committing("w_advance")
      /\ Committing("w_reclaim")' <=> Committing("w_reclaim")
  BY <1>2 DEF StoringLabels
<1> QED
  BY <1>1, <1>3 DEF Commands, Partial, Settled

\* A call that has failed has left everything but its result as it was.
LEMMA FailureIsFail ==
  ASSUME NEW p \in Procs, NEW status \in Statuses \ {"OK"}, Result(p, status, <<>>),
         UNCHANGED <<loaded, open, f_pos, Commands, Partial>>
  PROVE  Abstract!Fail(p)
BY DEF Result, Abstract!Fail, Abstract!Return, Statuses

\* The steps nobody outside notices.
LEMMA HiddenSteps ==
  ASSUME TypeInv, NEW p \in Procs,
         \/ BeginWrite(p) \/ BeginRead(p) \/ BeginLlseek(p) \/ BeginIoctl(p)
         \/ TakeLock(p) \/ Unlock(p) \/ IoctlIndex(p) \/ IoctlAccepts(p)
  PROVE  UNCHANGED Abstract!vars
<1>1. UNCHANGED <<device, loaded, open, f_pos, ret>>
  BY DEF BeginWrite, BeginRead, BeginLlseek, BeginIoctl, TakeLock, Unlock, IoctlIndex,
         IoctlAccepts, file
<1>2. pc[p] \notin StoringLabels
  BY DEF BeginWrite, BeginRead, BeginLlseek, BeginIoctl, TakeLock, Unlock, IoctlIndex,
         IoctlAccepts, Enter, At, AfterLock, StoringLabels
<1>3. \E l : l \notin StoringLabels /\ pc' = [pc EXCEPT ![p] = l]
  <2>1. CASE TakeLock(p)
    <3>1. AfterLock[pc[p]] \notin StoringLabels
      BY <2>1 DEF TakeLock, AfterLock, StoringLabels
    <3> QED
      BY <2>1, <3>1 DEF TakeLock, Goto
  <2>2. CASE ~TakeLock(p)
    <3>1. \E l \in {"w_lock", "r_lock", "l_lock", "i_index", "idle", "i_check", "i_lock"} :
            pc' = [pc EXCEPT ![p] = l]
      BY <2>2 DEF BeginWrite, BeginRead, BeginLlseek, BeginIoctl, Unlock, IoctlIndex,
                  IoctlAccepts, Enter, Goto
    <3> QED
      BY <3>1 DEF StoringLabels
  <2> QED
    BY <2>1, <2>2
<1>4. UNCHANGED <<Commands, Partial>>
  BY <1>1, <1>2, <1>3, MoveKeepsContents
<1> QED
  BY <1>1, <1>4 DEF Abstract!vars

\* The ends of calls that failed, and of llseek and the ioctl that were refused.
LEMMA FailingSteps ==
  ASSUME TypeInv, NEW p \in Procs,
         \/ BeginWriteFails(p) \/ LockInterrupted(p) \/ WriteInterrupted(p)
         \/ IoctlFault(p) \/ IoctlRejects(p)
  PROVE  Abstract!Fail(p)
<1> USE DEF BeginWriteFails, LockInterrupted, WriteInterrupted, IoctlFault, IoctlRejects,
            Leave, Goto
<1>1. UNCHANGED <<device, loaded, open, f_pos>>
  BY DEF file
<1>2. pc[p] \notin StoringLabels
  BY DEF Enter, At, StoringLabels
<1>3. \E l \in {"w_fail", "idle"} : pc' = [pc EXCEPT ![p] = l]
  BY DEF Enter
<1>4. \E status \in Statuses \ {"OK"} : Result(p, status, <<>>)
  BY DEF Statuses
<1>5. UNCHANGED <<Commands, Partial>>
  BY <1>1, <1>2, <1>3, MoveKeepsContents DEF StoringLabels
<1> QED
  BY <1>1, <1>4, <1>5, FailureIsFail
-----------------------------------------------------------------------------
\* The steps of a commit.

\* Who commits, before and after a step of the process that does.
LEMMA OnlyCommits ==
  ASSUME DriverInv, Sound, NEW p \in Procs, pc[p] \in StoringLabels,
         NEW l, pc' = [pc EXCEPT ![p] = l]
  PROVE  \A s \in StoringLabels : /\ Committing(s) <=> pc[p] = s
                                  /\ Committing(s)' <=> l = s
<1>1. pc \in [Procs -> Labels]
  BY DEF DriverInv, TypeInv, LockInv, ControlTypeOK
<1>2. \A q \in Procs : pc[q] \in StoringLabels => q = p
  BY OneCommits
<1>3. \A q \in Procs : pc'[q] = IF q = p THEN l ELSE pc[q]
  BY <1>1
<1> QED
  BY <1>2, <1>3 DEF Committing, At

\* add_entry and what follows it have been accounted for when the bytes came.
LEMMA CommitSteps ==
  ASSUME DriverInv, Sound, NEW p \in Procs,
         WriteStore(p) \/ WriteAdvance(p) \/ WriteReclaim(p)
  PROVE  UNCHANGED Abstract!vars
<1>1. UNCHANGED <<loaded, open, f_pos, ret>>
  BY DEF WriteStore, WriteAdvance, WriteReclaim, file
<1>2. loaded /\ circ_buf \in RingsOver(Blocks)
  <2>1. pc[p] # "idle"
    BY DEF WriteStore, WriteAdvance, WriteReclaim, At
  <2> QED
    BY <2>1, InsideIsOpen DEF DriverInv, TypeInv, LockInv, NobodyInside, DataTypeOK
<1>3. StoringLabels = {"w_store", "w_advance", "w_reclaim"}
  BY DEF StoringLabels
<1>4. CASE WriteStore(p)
  <2>1. /\ pc[p] = "w_store" /\ pc' = [pc EXCEPT ![p] = "w_advance"]
        /\ circ_buf' = StoreEntry(circ_buf, working) /\ heap' = heap
    BY <1>4 DEF WriteStore, At, Goto
  <2>2. /\ Committing("w_store") /\ ~Committing("w_store")' /\ Committing("w_advance")'
    BY <1>3, <2>1, OnlyCommits
  <2>3. Settled' = Settled
    BY <2>1, <2>2 DEF Settled, AddEntry
  <2>4. Commands' = Commands /\ Partial' = Partial
    BY <1>1, <2>1, <2>2, <2>3 DEF Commands, Partial
  <2> QED
    BY <1>1, <2>4 DEF Abstract!vars
<1>5. CASE WriteAdvance(p)
  <2>1. /\ pc[p] = "w_advance" /\ pc' = [pc EXCEPT ![p] = "w_reclaim"]
        /\ circ_buf' = AdvanceOut(circ_buf) /\ heap' = heap
    BY <1>5 DEF WriteAdvance, At, Goto
  <2>2. /\ Committing("w_advance") /\ ~Committing("w_store")
        /\ ~Committing("w_store")' /\ ~Committing("w_advance")' /\ Committing("w_reclaim")'
    BY <1>3, <2>1, OnlyCommits
  <2>3. Settled' = Settled
    BY <2>1, <2>2 DEF Settled
  <2>4. Commands' = Commands /\ Partial' = Partial
    BY <1>1, <2>1, <2>2, <2>3 DEF Commands, Partial
  <2> QED
    BY <1>1, <2>4 DEF Abstract!vars
<1>6. CASE WriteReclaim(p)
  <2> DEFINE ov == arg[p].overwritten
  <2>1. /\ pc[p] = "w_reclaim" /\ pc' = [pc EXCEPT ![p] = "unlock"]
        /\ circ_buf' = circ_buf /\ working' = EmptyEntry
        /\ heap' = [x \in Blocks |-> IF x = ov THEN FREE ELSE heap[x]]
    BY <1>6 DEF WriteReclaim, At, Goto, Kfree
  <2>2. /\ Committing("w_reclaim") /\ ~Committing("w_store") /\ ~Committing("w_advance")
        /\ ~Committing("w_store")' /\ ~Committing("w_advance")'
    BY <1>3, <2>1, OnlyCommits
  <2>3. Settled = circ_buf /\ Settled' = circ_buf
    BY <2>1, <2>2 DEF Settled
  <2>4. MemoryOK(circ_buf, working, heap, "w_reclaim", ov)
    BY <2>1, WriterFinds DEF StoringLabels, CriticalLabels
  <2>5. \A x \in StoredPointers(circ_buf) : x \in Blocks /\ heap'[x] = heap[x]
    <3>1. StoredPointers(circ_buf) \subseteq Blocks
      BY <2>4 DEF MemoryOK, OneOwner
    <3>2. ov \notin StoredPointers(circ_buf)
      BY <2>4 DEF MemoryOK, OneOwner, StoredPointers
    <3> QED
      BY <2>1, <3>1, <3>2
  <2>6. Commands' = Commands
    <3>1. Commands = CommandsIn(circ_buf, heap) /\ Commands' = CommandsIn(circ_buf, heap')
      BY <1>1, <1>2, <2>3, CommandsInRing, CommandsInRingNext
    <3>2. \A k \in 1 .. Count(circ_buf) :
            circ_buf.entry[Slot(circ_buf, k - 1)].buffptr \in StoredPointers(circ_buf)
      BY <1>2, <2>3, CommandsAre
    <3> QED
      BY <2>5, <3>1, <3>2 DEF CommandsIn
  <2>7. Partial' = Partial
    BY <2>1, <2>2 DEF Partial, EmptyEntry
  <2> QED
    BY <1>1, <2>6, <2>7 DEF Abstract!vars
<1> QED
  BY <1>4, <1>5, <1>6

\* krealloc fails with nothing to spoil.
LEMMA AppendFailsStep ==
  ASSUME DriverInv, Sound, Sound', NEW p \in Procs, WriteAppendFails(p)
  PROVE  Abstract!Fail(p)
<1>1. /\ pc[p] = "w_append" /\ ~Freed(working.buffptr)
      /\ pc' = [pc EXCEPT ![p] = "unlock"]
      /\ heap' = [b \in Blocks |-> IF b = working.buffptr THEN FREE ELSE heap[b]]
      /\ Result(p, "ENOMEM", <<>>)
      /\ UNCHANGED <<loaded, circ_buf, working, open, f_pos>>
  BY DEF WriteAppendFails, At, Goto, Kfree, file
<1>2. /\ working \in EntriesOver(Blocks) /\ heap \in Heaps /\ NULL \notin Blocks
      /\ TypeInv
  BY DriverAssumption DEF DriverInv, TypeInv, DataTypeOK
<1>3. loaded
  BY <1>1, InsideIsOpen DEF DriverInv, TypeInv, LockInv, NobodyInside
<1>4. working.buffptr = NULL
  BY <1>1, <1>2, <1>3 DEF Sound, Freed, EntriesOver
<1>5. heap' = heap
  BY <1>1, <1>2, <1>4 DEF Heaps
<1>6. UNCHANGED <<Commands, Partial>>
  BY <1>1, <1>2, <1>5, MoveKeepsContents DEF device, StoringLabels
<1>7. "ENOMEM" \in Statuses \ {"OK"}
  BY DEF Statuses
<1> QED
  BY <1>1, <1>6, <1>7, FailureIsFail
-----------------------------------------------------------------------------
\* A write takes effect when its bytes are appended.

\* What is taken ends the command exactly when there is a newline to take.
LEMMA AcceptedEnds ==
  ASSUME NEW bytes \in Payloads
  PROVE  EndsCommand(Accepted(bytes)) <=> EndsCommand(bytes)
<1> DEFINE newlines == {i \in DOMAIN bytes : bytes[i] = Newline}
<1>1. bytes \in Seq(Bytes)
  BY DriverAssumption
<1>2. EndsCommand(bytes) <=> newlines # {}
  BY DEF EndsCommand
<1>3. CASE newlines = {}
  BY <1>3 DEF Accepted
<1>4. CASE newlines # {}
  <2> DEFINE m == Min(newlines)
  <2>1. m \in newlines
    <3>1. newlines \subseteq Nat
      BY <1>1
    <3> HIDE DEF newlines
    <3> QED
      BY <1>4, <3>1, MinIsLeast
  <2>2. m \in 1 .. Len(bytes) /\ bytes[m] = Newline
    BY <1>1, <2>1
  <2>3. Accepted(bytes) = SubSeq(bytes, 1, m)
    BY <1>4 DEF Accepted
  <2> HIDE DEF m
  <2>4. m \in DOMAIN SubSeq(bytes, 1, m) /\ SubSeq(bytes, 1, m)[m] = Newline
    BY <1>1, <2>2
  <2> QED
    BY <1>2, <1>4, <2>3, <2>4 DEF EndsCommand
<1> QED
  BY <1>3, <1>4

\* The memory an append changes is the working entry's own.
LEMMA AppendChanges ==
  ASSUME DriverInv, Sound, NEW p \in Procs, WriteAppend(p)
  PROVE  LET data == arg[p].data
             ptr  == working'.buffptr
         IN  /\ loaded /\ NobodyCommits
             /\ data \in Seq(Bytes) /\ working' \in EntriesOver(Blocks)
             /\ ptr \in Blocks /\ ptr # NULL
             /\ heap'[ptr] = Partial \o data /\ Partial \in Seq(Bytes)
             /\ \A x \in StoredPointers(circ_buf) : heap'[x] = heap[x]
<1> DEFINE data == arg[p].data
           ptr  == working'.buffptr
           old  == IF working.buffptr # NULL THEN heap[ptr] ELSE <<>>
<1>1. /\ pc[p] = "w_append" /\ ~Freed(working.buffptr)
      /\ heap' = [heap EXCEPT ![ptr] = old \o data]
      /\ working' = [buffptr |-> ptr, size |-> working.size + Len(data)]
  BY DEF WriteAppend, At
<1>2. NobodyCommits /\ loaded
  BY <1>1, InsideNobodyCommits DEF CriticalLabels, StoringLabels
<1>3. /\ working \in EntriesOver(Blocks) /\ heap \in Heaps /\ data \in Seq(Bytes)
      /\ NULL \notin Blocks
  <2>1. arg[p] \in WriteArgs
    BY <1>1 DEF DriverInv, TypeInv, DataTypeOK, ArgsTyped, ArgsAt
  <2> QED
    BY <2>1, DriverAssumption DEF DriverInv, TypeInv, DataTypeOK, WriteArgs
<1>4. /\ MemoryOK(circ_buf, working, heap, "idle", NULL)
      /\ Partial = IF working.buffptr = NULL THEN <<>> ELSE heap[working.buffptr]
  BY <1>2, Quiescent
<1>5. /\ {x \in Blocks : heap[x] # FREE}
           = StoredPointers(circ_buf) \cup ({working.buffptr} \ {NULL})
      /\ working.buffptr \notin StoredPointers(circ_buf)
  BY <1>4 DEF MemoryOK, OneOwner
<1>6. /\ ptr \in Blocks /\ ptr \notin StoredPointers(circ_buf)
      /\ old \in Seq(Bytes) /\ Partial = old
  <2>1. CASE working.buffptr = NULL
    <3> DEFINE q == CHOOSE b \in Blocks : heap[b] = FREE
    <3>1. ptr = q /\ \E b \in Blocks : heap[b] = FREE
      BY <2>1 DEF WriteAppend
    <3>2. q \in Blocks /\ heap[q] = FREE
      BY <3>1
    <3>3. old = <<>> /\ <<>> \in Seq(Bytes)
      BY <2>1
    <3> QED
      BY <1>4, <1>5, <2>1, <3>1, <3>2, <3>3
  <2>2. CASE working.buffptr # NULL
    <3>1. ptr = working.buffptr
      BY <2>2 DEF WriteAppend
    <3>2. ptr \in Blocks /\ heap[ptr] \in Seq(Bytes)
      BY <1>1, <1>3, <2>2, <3>1 DEF Freed, EntriesOver, Heaps
    <3> QED
      BY <1>4, <1>5, <2>2, <3>1, <3>2
  <2> QED
    BY <2>1, <2>2
<1> HIDE DEF data, ptr, old
<1>7. heap'[ptr] = old \o data /\ \A x \in Blocks : x # ptr => heap'[x] = heap[x]
  BY <1>1, <1>6, <1>3 DEF Heaps
<1>8. \A x \in StoredPointers(circ_buf) : heap'[x] = heap[x]
  BY <1>5, <1>6, <1>7
<1>9. working' \in EntriesOver(Blocks)
  <2>1. working.size + Len(data) \in Nat
    BY <1>3 DEF EntriesOver
  <2> QED
    BY <1>1, <1>6, <2>1 DEF EntriesOver
<1> QED
  BY <1>2, <1>3, <1>6, <1>7, <1>8, <1>9 DEF data, ptr

\* The commands there were are still the same.
LEMMA AppendKeepsCommands ==
  ASSUME DriverInv, Sound, NEW p \in Procs, WriteAppend(p)
  PROVE  /\ Commands = CommandsIn(circ_buf, heap)
         /\ CommandsIn(circ_buf, heap') = CommandsIn(circ_buf, heap)
         /\ Commands \in Seq(Seq(Bytes)) /\ Len(Commands) = Count(circ_buf)
<1>1. /\ loaded /\ NobodyCommits
      /\ \A x \in StoredPointers(circ_buf) : heap'[x] = heap[x]
  BY AppendChanges
<1>2. Settled = circ_buf
  BY <1>1, Quiescent
<1>3. \A k \in 1 .. Count(circ_buf) :
        circ_buf.entry[Slot(circ_buf, k - 1)].buffptr \in StoredPointers(circ_buf)
  BY <1>1, <1>2, CommandsAre
<1>4. CommandsIn(circ_buf, heap') = CommandsIn(circ_buf, heap)
  BY <1>1, <1>3 DEF CommandsIn
<1> QED
  BY <1>1, <1>2, <1>4, CommandsInRing, CommandSizes

\* The bytes become a command, and the oldest one goes when there is no room.
LEMMA AppendedCommand ==
  ASSUME DriverInv, Sound, NEW p \in Procs, WriteAppend(p), EndsCommand(arg[p].data)
  PROVE  LET kept == IF Len(Commands) = MaxWriteOps THEN Tail(Commands) ELSE Commands
         IN  /\ Commands' = Append(kept, Partial \o arg[p].data)
             /\ Partial' = <<>>
<1> DEFINE b == circ_buf
           c == AddEntry(b, working')
           n == Count(c) - 1
           new == Partial \o arg[p].data
           ptr == working'.buffptr
<1>1. /\ pc[p] = "w_append" /\ pc' = [pc EXCEPT ![p] = "w_store"]
      /\ circ_buf' = circ_buf /\ loaded' = loaded
  BY DEF WriteAppend, At, Goto
<1>2. /\ loaded /\ NobodyCommits /\ ptr # NULL /\ heap'[ptr] = new
      /\ working' \in EntriesOver(Blocks)
      /\ \A x \in StoredPointers(circ_buf) : heap'[x] = heap[x]
  BY AppendChanges
<1>3. Committing("w_store")'
  BY <1>1 DEF DriverInv, TypeInv, LockInv, ControlTypeOK, Committing, At
<1>4. Settled' = c
  BY <1>1, <1>3 DEF Settled
<1>5. Partial' = <<>>
  BY <1>3 DEF Partial
<1>6. Commands' = CommandsIn(c, heap')
  BY <1>1, <1>2, <1>4, CommandsInRingNext
<1>7. /\ Commands = CommandsIn(b, heap') /\ Commands \in Seq(Seq(Bytes))
      /\ Len(Commands) = Count(b)
  BY AppendKeepsCommands
<1>8. b \in RingsOver(Blocks) /\ RingShape(b)
  <2>1. MemoryOK(circ_buf, working, heap, "idle", NULL)
    BY <1>2, Quiescent
  <2> QED
    BY <2>1 DEF MemoryOK, DriverInv, TypeInv, DataTypeOK
<1>9. /\ n \in Index
      /\ n = IF b.full THEN MaxWriteOps - 1 ELSE Count(b)
      /\ \A k \in 0 .. n - 1 :
           c.entry[Slot(c, k)] = b.entry[Slot(b, IF b.full THEN k + 1 ELSE k)]
      /\ c.entry[Slot(c, n)] = working'
  BY <1>2, <1>8, AddToWindow
<1>10. /\ Count(b) \in Nat /\ (Count(b) = MaxWriteOps <=> b.full)
       /\ n \in Nat /\ Count(c) = n + 1
  <2>1. Count(c) \in Nat
    BY <1>2, <1>8, HalvesType, CountType DEF AddEntry
  <2> QED
    BY <1>8, <1>9, <2>1, CountType DEF Index
<1> HIDE DEF b, c, n, new, ptr
<1>11. \A k \in 1 .. n + 1 : Commands'[k] = heap'[c.entry[Slot(c, k - 1)].buffptr]
  BY <1>6, <1>10 DEF CommandsIn
<1>12. \A k \in 1 .. Count(b) : Commands[k] = heap'[b.entry[Slot(b, k - 1)].buffptr]
  BY <1>7 DEF CommandsIn
<1>13. Commands'[n + 1] = new
  <2>1. (n + 1) - 1 = n /\ n + 1 \in 1 .. n + 1
    BY <1>10
  <2> QED
    BY <1>2, <1>9, <1>11, <2>1 DEF ptr
<1>14. Commands' = [k \in 1 .. n + 1 |-> Commands'[k]]
  BY <1>6, <1>10 DEF CommandsIn
<1>15. new \in Seq(Bytes)
  BY AppendChanges DEF new
<1>16. CASE b.full
  <2>1. n = MaxWriteOps - 1 /\ Len(Commands) = n + 1
    BY <1>7, <1>9, <1>10, <1>16
  <2>2. ASSUME NEW k \in 1 .. n PROVE Commands'[k] = Commands[k + 1]
    <3>1. /\ k - 1 \in 0 .. n - 1 /\ (k - 1) + 1 = k /\ k \in 1 .. n + 1
          /\ k + 1 \in 1 .. Count(b) /\ (k + 1) - 1 = k
      BY <1>7, <1>10, <2>1
    <3>2. c.entry[Slot(c, k - 1)] = b.entry[Slot(b, k)]
      BY <1>9, <1>16, <3>1
    <3> QED
      BY <1>11, <1>12, <3>1, <3>2
  <2>3. Commands' = Append(Tail(Commands), new)
    <3>1. Shifted(Commands', Commands, new)
      BY <1>10, <1>13, <1>14, <2>1, <2>2 DEF Shifted
    <3>2. Commands # <<>>
      BY <1>10, <2>1
    <3> QED
      BY <1>7, <1>15, <3>1, <3>2, TailAppendIs
  <2> QED
    BY <1>5, <1>7, <1>10, <1>16, <2>3 DEF new
<1>17. CASE ~b.full
  <2>1. n = Count(b) /\ Len(Commands) = n /\ Len(Commands) # MaxWriteOps
    BY <1>7, <1>9, <1>10, <1>17
  <2>2. ASSUME NEW k \in 1 .. n PROVE Commands'[k] = Commands[k]
    <3>1. k - 1 \in 0 .. n - 1 /\ k \in 1 .. n + 1 /\ k \in 1 .. Count(b)
      BY <1>10, <2>1
    <3>2. c.entry[Slot(c, k - 1)] = b.entry[Slot(b, k - 1)]
      BY <1>9, <1>17, <3>1
    <3> QED
      BY <1>11, <1>12, <3>1, <3>2
  <2>3. Commands' = Append(Commands, new)
    <3>1. Grown(Commands', Commands, new)
      BY <1>10, <1>13, <1>14, <2>1, <2>2 DEF Grown
    <3> QED
      BY <1>7, <1>15, <3>1, AppendIs
  <2> QED
    BY <1>5, <2>1, <2>3 DEF new
<1> QED
  BY <1>16, <1>17
\* So a write is the one of the device.
LEMMA AppendStep ==
  ASSUME DriverInv, Sound, NEW p \in Procs, WriteAppend(p)
  PROVE  Abstract!Write(p)
<1> DEFINE data == arg[p].data
<1>1. /\ pc[p] = "w_append"
      /\ pc' = [pc EXCEPT ![p] = IF EndsCommand(data) THEN "w_store" ELSE "unlock"]
      /\ circ_buf' = circ_buf
      /\ UNCHANGED <<loaded, open, f_pos>>
      /\ Result(p, "OK", data)
  BY DEF WriteAppend, At, Goto, file
<1>2. /\ loaded /\ NobodyCommits /\ working'.buffptr # NULL
      /\ heap'[working'.buffptr] = Partial \o data
  BY AppendChanges
<1>3. open[p]
  BY <1>1, InsideIsOpen DEF DriverInv, TypeInv, LockInv, NobodyInside
<1>4. PICK bytes \in Payloads : data = Accepted(bytes)
  BY <1>1 DEF DriverInv, TakenIsAccepted, Taken
<1>5. EndsCommand(data) <=> EndsCommand(bytes)
  BY <1>4, AcceptedEnds
<1> DEFINE stop == {i \in DOMAIN bytes : bytes[i] = Newline}
           kept == IF Len(Commands) = MaxWriteOps THEN Tail(Commands) ELSE Commands
<1>6. stop = {} <=> ~EndsCommand(data)
  BY <1>5 DEF EndsCommand
<1>7. data = IF stop = {} THEN bytes ELSE SubSeq(bytes, 1, Min(stop))
  BY <1>4 DEF Accepted
<1>8. CASE EndsCommand(data)
  <2>1. Commands' = Append(kept, Partial \o data) /\ Partial' = <<>>
    BY <1>8, AppendedCommand
  <2> DEFINE taken == IF stop = {} THEN bytes ELSE SubSeq(bytes, 1, Min(stop))
  <2>2. Commands' = Append(kept, Partial \o taken) /\ Result(p, "OK", taken)
    BY <1>1, <1>7, <2>1
  <2>3. Abstract!WriteBytes(p, bytes)
    <3>1. /\ open[p]
          /\ IF stop = {} THEN Partial' = Partial \o taken /\ UNCHANGED Commands
             ELSE Partial' = <<>> /\ Commands' = Append(kept, Partial \o taken)
          /\ Abstract!Return(p, "OK", taken)
          /\ UNCHANGED <<loaded, open, f_pos>>
      <4>1. stop # {} /\ Abstract!Return(p, "OK", taken)
        BY <1>6, <1>8, <2>2 DEF Abstract!Return, Result
      <4> HIDE DEF stop, kept, taken
      <4> QED
        BY <1>1, <1>3, <2>1, <2>2, <4>1
    <3> QED
      BY <3>1 DEF Abstract!WriteBytes, Min, Abstract!Min
  <2> QED
    BY <2>3 DEF Abstract!Write
<1>9. CASE ~EndsCommand(data)
  <2>1. NobodyCommits'
    BY <1>1, <1>2, <1>9
       DEF NobodyCommits, StoringLabels, DriverInv, TypeInv, LockInv, ControlTypeOK
  <2>2. Settled' = circ_buf' /\ Partial' = heap'[working'.buffptr]
    BY <1>1, <1>2, <2>1 DEF NobodyCommits, StoringLabels, Settled, Partial, Committing, At
  <2>3. Commands' = Commands
    BY <1>1, <1>2, <2>2, AppendKeepsCommands, CommandsInRingNext
  <2>4. Partial' = Partial \o data
    BY <1>2, <2>2
  <2> QED
    BY <1>1, <1>3, <1>6, <1>7, <1>9, <2>3, <2>4
       DEF Abstract!Write, Abstract!WriteBytes, Abstract!Return, Result
<1> QED
  BY <1>8, <1>9
-----------------------------------------------------------------------------
\* A read takes effect when its bytes are copied, or at once at end of file.

\* Two instances of one operator of the library.
LEMMA FlattenSame ==
  \A s : Abstract!FlattenSeq(s) = FlattenSeq(s)
BY DEF FlattenSeq, Abstract!FlattenSeq

\* The lookup of a read: end of file, or nothing yet.
LEMMA FindStep ==
  ASSUME DriverInv, Sound, NEW p \in Procs, ReadFind(p)
  PROVE  Abstract!Read(p) \/ UNCHANGED Abstract!vars
<1> DEFINE b == circ_buf
           pos == f_pos[p]
           hit == FindEntryOffsetForFpos(b, pos)
           n == Count(b)
<1>1. /\ pc[p] = "r_find" /\ UNCHANGED <<device, loaded, open, f_pos>>
      /\ IF hit.found /\ b.entry[hit.index].buffptr # NULL
         THEN pc' = [pc EXCEPT ![p] = "r_copy"] /\ UNCHANGED ret
         ELSE pc' = [pc EXCEPT ![p] = "unlock"] /\ Result(p, "OK", <<>>)
  BY DEF ReadFind, At, Goto, file
<1>2. UNCHANGED <<Commands, Partial>>
  BY <1>1, MoveKeepsContents DEF StoringLabels, DriverInv
<1>3. CASE hit.found /\ b.entry[hit.index].buffptr # NULL
  BY <1>1, <1>2, <1>3 DEF Abstract!vars
<1>4. CASE ~(hit.found /\ b.entry[hit.index].buffptr # NULL)
  <2>1. NobodyCommits /\ loaded
    BY <1>1, InsideNobodyCommits DEF CriticalLabels, StoringLabels
  <2>2. /\ b \in RingsOver(Blocks) /\ pos \in Nat
        /\ open[p] /\ RingShape(b)
    <3>1. MemoryOK(circ_buf, working, heap, "idle", NULL)
      BY <2>1, Quiescent
    <3> QED
      BY <1>1, <3>1, InsideIsOpen DEF MemoryOK, DriverInv, TypeInv, DataTypeOK, LockInv,
                                     NobodyInside
  <2>3. ~hit.found
    <3> SUFFICES ASSUME hit.found PROVE FALSE
      OBVIOUS
    <3>1. PICK k \in 0 .. n - 1 : hit.index = Slot(b, k)
      BY <2>2, FindStopsInside
    <3>2. b.entry[Slot(b, k)].buffptr \in StoredPointers(b)
      BY <2>2, ValidHoldPointers
    <3> QED
      BY <1>4, <3>1, <3>2 DEF StoredPointers
  <2>4. BytesSoFar(b, n) <= pos
    BY <2>2, <2>3, SearchFails
  <2>5. Len(FlattenSeq(Commands)) = BytesSoFar(b, n) /\ BytesSoFar(b, n) \in Nat
    BY <2>1, <2>2, CommandPlaces, CountType, BytesSoFarStep
  <2>6. pos + 1 > Len(Abstract!FlattenSeq(Commands))
    BY <2>2, <2>4, <2>5, FlattenSame
  <2>7. Abstract!Return(p, "OK", <<>>)
    BY <1>1, <1>4 DEF Abstract!Return, Result
  <2> QED
    BY <1>1, <1>2, <2>2, <2>6, <2>7 DEF Abstract!Read
<1> QED
  BY <1>3, <1>4
\* Where a reader that has found its entry is: in the k-th oldest command,
\* counted from 0, and how far behind the first byte of it.
ReadsFrom(p, k) ==
  /\ k \in 0 .. Count(circ_buf) - 1
  /\ arg[p].entry.index = Slot(circ_buf, k)
  /\ BytesSoFar(circ_buf, k) + arg[p].entry.offset = f_pos[p]
  /\ arg[p].entry.offset \in Nat /\ BytesSoFar(circ_buf, k) \in Nat
  /\ Commands[k + 1] = heap[Found(p).buffptr]
  /\ Len(Commands[k + 1]) = Found(p).size /\ Whole(Commands[k + 1])
  /\ arg[p].entry.offset < Found(p).size

\* A reader about to copy stands inside one of the kept commands.
LEMMA ReaderIsInCommand ==
  ASSUME DriverInv, Sound, NEW p \in Procs, pc[p] = "r_copy"
  PROVE  \E k : ReadsFrom(p, k)
<1> DEFINE b == circ_buf
           pos == f_pos[p]
           hit == FindEntryOffsetForFpos(b, pos)
<1>1. NobodyCommits /\ loaded
  BY InsideNobodyCommits DEF CriticalLabels, StoringLabels
<1>2. b \in RingsOver(Blocks) /\ pos \in Nat
  BY DEF DriverInv, TypeInv, DataTypeOK
<1>3. hit.found /\ arg[p].entry = hit
  BY <1>1 DEF DriverInv, ReadersAtEntries, AtItsEntry
<1>4. PICK k \in 0 .. Count(b) - 1 :
         /\ hit.index = Slot(b, k)
         /\ hit.offset = pos - BytesSoFar(b, k)
         /\ BytesSoFar(b, k) <= pos
         /\ pos < BytesSoFar(b, k) + b.entry[Slot(b, k)].size
  BY <1>2, <1>3, FindStopsInside
<1>5. /\ Count(b) \in Nat /\ k \in Nat /\ k + 1 \in 1 .. Count(b) /\ (k + 1) - 1 = k
      /\ BytesSoFar(b, k) \in Nat /\ b.entry[Slot(b, k)].size \in Nat
  <2>1. Count(b) \in Nat /\ k \in Nat
    BY <1>2, CountType
  <2> QED
    BY <1>2, <2>1, BytesSoFarStep
<1>6. /\ Commands[k + 1] = heap[b.entry[Slot(b, k)].buffptr]
      /\ Len(Commands[k + 1]) = b.entry[Slot(b, k)].size
      /\ Whole(Commands[k + 1])
  BY <1>1, <1>5, CommandSizes
<1>7. Found(p) = b.entry[Slot(b, k)]
  BY <1>3, <1>4 DEF Found
<1> HIDE DEF hit, b, pos
<1>8. hit.offset \in Nat /\ BytesSoFar(b, k) + hit.offset = pos
      /\ hit.offset < b.entry[Slot(b, k)].size
  BY <1>2, <1>4, <1>5
<1>9. ReadsFrom(p, k)
  BY <1>3, <1>4, <1>5, <1>6, <1>7, <1>8 DEF ReadsFrom, b, pos
<1> QED
  BY <1>9

\* The bytes copied are those of the device from the position on, up to the
\* end of one command.
LEMMA CopyStep ==
  ASSUME DriverInv, Sound, NEW p \in Procs, ReadCopy(p)
  PROVE  Abstract!Read(p) \/ Abstract!Fail(p)
<1> DEFINE pos == f_pos[p]
           from == arg[p].entry.offset
           av == Available(p)
           count == arg[p].count
           all == FlattenSeq(Commands)
<1>1. /\ pc[p] = "r_copy" /\ UNCHANGED <<device, loaded, open>>
      /\ pc' = [pc EXCEPT ![p] = "unlock"]
      /\ \/ /\ Result(p, "OK", SubSeq(heap[Found(p).buffptr], from + 1, from + av))
            /\ f_pos' = [f_pos EXCEPT ![p] = pos + av]
         \/ Result(p, "EFAULT", <<>>) /\ UNCHANGED f_pos
  BY DEF ReadCopy, At, Goto
<1>2. UNCHANGED <<Commands, Partial>>
  BY <1>1, MoveKeepsContents DEF StoringLabels, DriverInv
<1>3. CASE Result(p, "EFAULT", <<>>) /\ UNCHANGED f_pos
  <2>1. "EFAULT" \in Statuses \ {"OK"}
    BY DEF Statuses
  <2> QED
    BY <1>1, <1>2, <1>3, <2>1, FailureIsFail
<1>4. CASE /\ Result(p, "OK", SubSeq(heap[Found(p).buffptr], from + 1, from + av))
           /\ f_pos' = [f_pos EXCEPT ![p] = pos + av]
  <2>1. PICK k : ReadsFrom(p, k)
    BY <1>1, ReaderIsInCommand
  <2> DEFINE cmd == Commands[k + 1]
             start == BytesSoFar(circ_buf, k)
             size == Found(p).size
  <2>2. /\ k \in 0 .. Count(circ_buf) - 1 /\ start + from = pos
        /\ from \in Nat /\ start \in Nat /\ cmd = heap[Found(p).buffptr]
        /\ Len(cmd) = size /\ Whole(cmd) /\ from < size
    BY <2>1 DEF ReadsFrom
  <2>3. count \in ReadCounts /\ count \in Nat /\ count > 0 /\ pos \in Nat /\ open[p]
    <3>1. arg[p] \in ReadArgs
      BY <1>1 DEF DriverInv, TypeInv, DataTypeOK, ArgsTyped, ArgsAt
    <3>2. count \in ReadCounts
      BY <3>1 DEF ReadArgs
    <3>3. count \in Nat /\ count > 0
      <4> HIDE DEF count
      <4> QED
        BY <3>2, DriverAssumption
    <3>4. pos \in Nat /\ open[p]
      BY <1>1, InsideIsOpen DEF DriverInv, TypeInv, DataTypeOK
    <3> QED
      BY <3>2, <3>3, <3>4
  <2>4. NobodyCommits /\ loaded
    BY <1>1, InsideNobodyCommits DEF CriticalLabels, StoringLabels
  <2>5. cmd \in Seq(Bytes) /\ size \in Nat
    <3>1. Commands \in Seq(Seq(Bytes)) /\ Len(Commands) = Count(circ_buf)
      BY <2>4, CommandSizes
    <3>2. k + 1 \in 1 .. Len(Commands)
      BY <2>2, <3>1
    <3> QED
      BY <2>2, <3>1, <3>2
  <2>6. /\ all \in Seq(Bytes)
        /\ \A j \in 1 .. Len(cmd) : all[start + j] = cmd[j] /\ start + j <= Len(all)
    BY <2>2, <2>4, CommandPlaces
  <2>7. av = IF size - from < count THEN size - from ELSE count
    BY DEF Available
  <2>8. UNCHANGED <<loaded, open, Commands, Partial>>
    BY <1>1, <1>2
  <2> DEFINE last == pos + av
  <2> HIDE DEF cmd, start, size, pos, from, av, count, all
  <2>9. /\ av \in Nat /\ av > 0 /\ av <= count /\ from + av <= size
        /\ av = count \/ from + av = size
    BY <2>2, <2>3, <2>5, <2>7
  <2>10. /\ last = start + (from + av) /\ from + av \in 1 .. Len(cmd)
         /\ last <= Len(all) /\ Len(all) \in Nat
    BY <2>2, <2>3, <2>5, <2>6, <2>9
  <2>11. \A i \in pos + 1 .. last - 1 : all[i] # Newline
    <3> SUFFICES ASSUME NEW i \in pos + 1 .. last - 1 PROVE all[i] # Newline
      OBVIOUS
    <3> DEFINE j == i - start
    <3>1. j \in 1 .. Len(cmd) /\ start + j = i /\ j < Len(cmd)
      BY <2>2, <2>3, <2>5, <2>9
    <3> HIDE DEF j
    <3>2. all[i] = cmd[j]
      BY <2>6, <3>1
    <3>3. cmd[j] # Newline
      BY <2>2, <2>5, <3>1 DEF Whole
    <3> QED
      BY <3>2, <3>3
  <2>12. last - pos = count \/ all[last] = Newline
    <3>1. CASE av = count
      BY <2>3, <2>9, <3>1
    <3>2. CASE from + av = size
      <4>1. last = start + Len(cmd) /\ Len(cmd) \in 1 .. Len(cmd)
        BY <2>2, <2>10, <3>2
      <4>2. all[last] = cmd[Len(cmd)]
        BY <2>6, <4>1
      <4> QED
        BY <2>2, <4>2 DEF Whole
    <3> QED
      BY <2>9, <3>1, <3>2
  <2>13. SubSeq(cmd, from + 1, from + av) = SubSeq(all, pos + 1, last)
    <3>1. \A j \in 1 .. av : cmd[from + j] = all[pos + j]
      <4> SUFFICES ASSUME NEW j \in 1 .. av PROVE cmd[from + j] = all[pos + j]
        OBVIOUS
      <4>1. from + j \in 1 .. Len(cmd) /\ start + (from + j) = pos + j
        BY <2>2, <2>5, <2>9
      <4> QED
        BY <2>6, <4>1
    <3>2. from + av <= Len(cmd) /\ pos + av <= Len(all)
      BY <2>10
    <3> QED
      BY <2>2, <2>3, <2>5, <2>6, <2>9, <3>1, <3>2, SubSeqSame DEF last
  <2>14. last \in pos + 1 .. Len(all) /\ last - pos <= count
    BY <2>3, <2>9, <2>10
  <2> HIDE DEF last
  <2>15. /\ Abstract!Return(p, "OK", SubSeq(all, pos + 1, last))
         /\ f_pos' = [f_pos EXCEPT ![p] = last]
    BY <1>4, <2>2, <2>13 DEF Abstract!Return, Result, last, pos, from, av, cmd
  <2>16. all = Abstract!FlattenSeq(Commands)
    BY FlattenSame DEF all
  <2>17. Abstract!Read(p)
    BY <2>3, <2>8, <2>11, <2>12, <2>14, <2>15, <2>16 DEF Abstract!Read, pos
  <2> QED
    BY <2>17
<1> QED
  BY <1>1, <1>3, <1>4
-----------------------------------------------------------------------------
\* Seeking

\* The driver counts the bytes of all slots, the device those of all commands.
LEMMA TotalIsAll ==
  ASSUME DriverInv, Sound, loaded, NobodyCommits
  PROVE  TotalSize = Len(FlattenSeq(Commands)) /\ TotalSize \in Nat
<1> DEFINE b == circ_buf
           f == [i \in Index |-> IF b.entry[i].buffptr # NULL THEN b.entry[i].size ELSE 0]
<1>1. /\ b \in RingsOver(Blocks) /\ RingShape(b)
      /\ \A i \in Index : b.entry[i].buffptr = NULL => b.entry[i].size = 0
  <2>1. MemoryOK(circ_buf, working, heap, "idle", NULL)
    BY Quiescent
  <2> QED
    BY <2>1 DEF MemoryOK, SizesRight, SizeRight, DriverInv, TypeInv, DataTypeOK
<1>2. \A i \in Index : f[i] = b.entry[i].size
  BY <1>1
<1>3. TotalSize = SumFunctionOnSet(f, Index)
  <2>1. TotalSize = SumFunction(f) /\ DOMAIN f = Index
    BY DEF TotalSize
  <2> HIDE DEF f
  <2> QED
    BY <2>1 DEF SumFunction, SumFunctionOnSet
<1> HIDE DEF f, b
<1>4. TotalSize = BytesSoFar(b, Count(b))
  BY <1>1, <1>2, <1>3, LapIsAllSlots, LapIsWindow
<1>5. BytesSoFar(b, Count(b)) \in Nat
  BY <1>1, CountType, BytesSoFarStep
<1> QED
  BY <1>4, <1>5, CommandPlaces DEF b

\* llseek goes where the device's goes, or is refused.
LEMMA LlseekStep ==
  ASSUME DriverInv, Sound, NEW p \in Procs, Llseek(p)
  PROVE  Abstract!Llseek(p) \/ Abstract!Fail(p)
<1> DEFINE s == arg[p]
           newpos == CASE s.whence = "SET" -> s.offset
                       [] s.whence = "CUR" -> f_pos[p] + s.offset
                       [] s.whence = "END" -> TotalSize + s.offset
                       [] OTHER -> -1
<1>1. /\ pc[p] = "l_seek" /\ UNCHANGED <<device, loaded, open>>
      /\ pc' = [pc EXCEPT ![p] = "unlock"]
      /\ IF newpos < 0
         THEN Result(p, "EINVAL", <<>>) /\ UNCHANGED f_pos
         ELSE Result(p, "OK", <<>>) /\ f_pos' = [f_pos EXCEPT ![p] = newpos]
  BY DEF Llseek, At, Goto, Refused
<1>2. UNCHANGED <<Commands, Partial>>
  BY <1>1, MoveKeepsContents DEF StoringLabels, DriverInv
<1>3. NobodyCommits /\ loaded
  BY <1>1, InsideNobodyCommits DEF CriticalLabels, StoringLabels
<1>4. /\ s \in Seeks /\ s.offset \in Int /\ s.whence \in {"SET", "CUR", "END", "other"}
      /\ f_pos \in [Procs -> Nat] /\ open[p]
  <2>1. s \in Seeks
    BY <1>1 DEF DriverInv, TypeInv, DataTypeOK, ArgsTyped, ArgsAt
  <2> QED
    BY <1>1, <2>1, DriverAssumption, InsideIsOpen DEF DriverInv, TypeInv, DataTypeOK
<1>5. TotalSize = Len(Abstract!FlattenSeq(Commands)) /\ TotalSize \in Nat
  BY <1>3, TotalIsAll, FlattenSame
<1> HIDE DEF newpos
<1>6. CASE newpos < 0
  <2>1. "EINVAL" \in Statuses \ {"OK"}
    BY DEF Statuses
  <2> QED
    BY <1>1, <1>2, <1>6, <2>1, FailureIsFail
<1>7. CASE ~(newpos < 0)
  <2>1. newpos \in Nat /\ s.whence # "other"
    BY <1>4, <1>5, <1>7 DEF newpos
  <2>2. f_pos'[p] = newpos
    BY <1>1, <1>4, <1>7
  <2>3. Abstract!Return(p, "OK", <<>>)
    BY <1>1, <1>7 DEF Abstract!Return, Result
  <2>4. Abstract!Seek(p)
    BY <1>1, <1>2, <1>4, <1>7, <2>1, <2>2, <2>3 DEF Abstract!Seek
  <2>5. \/ s.whence = "SET" /\ newpos = s.offset
        \/ s.whence = "CUR" /\ newpos = f_pos[p] + s.offset
        \/ s.whence = "END" /\ newpos = Len(Abstract!FlattenSeq(Commands)) + s.offset
    BY <1>4, <1>5, <2>1 DEF newpos
  <2> QED
    BY <1>4, <2>2, <2>4, <2>5 DEF Abstract!Llseek
<1> QED
  BY <1>6, <1>7
\* The seek command moves nothing but the caller's position.
LEMMA SeekStep ==
  ASSUME DriverInv, DriverInv', NEW p \in Procs, IoctlSeek(p)
  PROVE  Abstract!SeekCommand(p)
<1>1. /\ pc[p] = "i_seek" /\ UNCHANGED <<device, loaded, open>>
      /\ pc' = [pc EXCEPT ![p] = "unlock"]
      /\ Result(p, "OK", <<>>)
      /\ \E n : f_pos' = [f_pos EXCEPT ![p] = n]
  BY DEF IoctlSeek, At, Goto
<1>2. UNCHANGED <<Commands, Partial>>
  BY <1>1, MoveKeepsContents DEF StoringLabels, DriverInv
<1>3. open[p] /\ f_pos \in [Procs -> Nat] /\ f_pos' \in [Procs -> Nat]
  BY <1>1, InsideIsOpen DEF DriverInv, TypeInv, DataTypeOK
<1>4. Abstract!Return(p, "OK", <<>>)
  BY <1>1 DEF Abstract!Return, Result
<1> QED
  BY <1>1, <1>2, <1>3, <1>4 DEF Abstract!SeekCommand, Abstract!Seek

-----------------------------------------------------------------------------
\* Files and the module

\* open and release touch nothing but the caller's file.
LEMMA FileSteps ==
  ASSUME DriverInv, NEW p \in Procs, Open(p) \/ Release(p)
  PROVE  Abstract!Open(p) \/ Abstract!Release(p)
<1>1. UNCHANGED <<device, loaded, pc>>
  BY DEF Open, Release
<1>2. UNCHANGED <<Commands, Partial>>
  BY <1>1 DEF Commands, Partial, Settled, Committing, At, device
<1>3. Release(p) => Abstract!Return(p, "OK", <<>>)
  BY DEF Release, Abstract!Return, Result
<1> QED
  BY <1>1, <1>2, <1>3 DEF Open, Release, Abstract!Open, Abstract!Release

\* A module that is not there holds nothing, and nobody is inside.
LEMMA NotLoaded ==
  ~loaded => Commands = <<>> /\ Partial = <<>>
BY DEF Commands, Partial

\* The same of the next state.
LEMMA NotLoadedNext ==
  ~loaded' => Commands' = <<>> /\ Partial' = <<>>
BY DEF Commands, Partial

\* insmod brings up an empty device, or fails; rmmod takes everything with it.
LEMMA ModuleSteps ==
  ASSUME DriverInv, InitModule \/ CleanupModule
  PROVE  Abstract!Load \/ Abstract!Unload \/ UNCHANGED Abstract!vars
<1>1. CASE InitModule
  <2>1. /\ ~loaded /\ circ_buf' = InitBuffer /\ working' = EmptyEntry
        /\ loaded' \in BOOLEAN /\ UNCHANGED <<open, f_pos, pc, ret>>
    BY <1>1 DEF InitModule, file
  <2>2. Commands = <<>> /\ Partial = <<>>
    BY <2>1, NotLoaded
  <2>3. CASE ~loaded'
    <3>1. Commands' = <<>> /\ Partial' = <<>>
      BY <2>3, NotLoadedNext
    <3>2. loaded' = loaded
      BY <2>1, <2>3 DEF DriverInv, TypeInv, LockInv, ControlTypeOK
    <3> QED
      BY <2>1, <2>2, <3>1, <3>2 DEF Abstract!vars
  <2>4. CASE loaded'
    <3>1. Settled' = InitBuffer
      <4>1. \A q \in Procs : pc'[q] = "idle"
        BY <2>1 DEF DriverInv, TypeInv, LockInv, NobodyInside
      <4> QED
        BY <2>1, <4>1 DEF Settled, Committing, At
    <3>2. Commands' = CommandsIn(InitBuffer, heap')
      BY <2>4, <3>1, CommandsInRingNext
    <3>3. Count(InitBuffer) = 0
      BY DEF Count, InitBuffer
    <3>4. Commands' = <<>>
      BY <3>2, <3>3 DEF CommandsIn
    <3>5. Partial' = <<>>
      BY <2>1 DEF Partial, EmptyEntry
    <3>6. loaded' = TRUE
      BY <2>1, <2>4
    <3> QED
      BY <2>1, <2>2, <3>4, <3>5, <3>6 DEF Abstract!Load
  <2> QED
    BY <2>3, <2>4
<1>2. CASE CleanupModule
  <2>1. /\ loaded /\ (\A p \in Procs : ~open[p]) /\ loaded' = FALSE
        /\ UNCHANGED <<open, f_pos, ret>>
    BY <1>2 DEF CleanupModule, file
  <2>2. Commands' = <<>> /\ Partial' = <<>>
    BY <2>1, NotLoadedNext
  <2> QED
    BY <2>1, <2>2 DEF Abstract!Unload
<1> QED
  BY <1>1, <1>2

\* Every step of a sound driver is a step of the device, or none.
LEMMA StepIsDeviceStep ==
  ASSUME DriverInv, [Next]_vars, Sound, Sound'
  PROVE  [Abstract!Next]_(Abstract!vars)
<1>1. DriverInv'
  BY NextKeepsDriver
<1>2. ASSUME NEW p \in Procs, Begin(p)
      PROVE  [Abstract!Next]_(Abstract!vars)
  <2>1. TypeInv
    BY DEF DriverInv
  <2>2. CASE Open(p) \/ Release(p)
    BY <2>2, FileSteps DEF Abstract!Next
  <2>3. CASE BeginWriteFails(p)
    BY <2>1, <2>3, FailingSteps DEF Abstract!Next
  <2>4. CASE BeginWrite(p) \/ BeginRead(p) \/ BeginLlseek(p) \/ BeginIoctl(p)
    BY <2>1, <2>4, HiddenSteps
  <2> QED
    BY <1>2, <2>2, <2>3, <2>4 DEF Begin
<1>3. ASSUME NEW p \in Procs, Continue(p) \/ Interrupted(p)
      PROVE  [Abstract!Next]_(Abstract!vars)
  <2>1. TypeInv
    BY DEF DriverInv
  <2>2. CASE TakeLock(p) \/ Unlock(p) \/ IoctlIndex(p) \/ IoctlAccepts(p)
    BY <2>1, <2>2, HiddenSteps
  <2>3. CASE \/ LockInterrupted(p) \/ WriteInterrupted(p)
             \/ IoctlFault(p) \/ IoctlRejects(p)
    BY <2>1, <2>3, FailingSteps DEF Abstract!Next
  <2>4. CASE WriteAppend(p)
    BY <2>4, AppendStep DEF Abstract!Next
  <2>5. CASE WriteAppendFails(p)
    BY <2>5, AppendFailsStep DEF Abstract!Next
  <2>6. CASE WriteStore(p) \/ WriteAdvance(p) \/ WriteReclaim(p)
    BY <2>6, CommitSteps
  <2>7. CASE ReadFind(p)
    BY <2>7, FindStep DEF Abstract!Next
  <2>8. CASE ReadCopy(p)
    BY <2>8, CopyStep DEF Abstract!Next
  <2>9. CASE Llseek(p)
    BY <2>9, LlseekStep DEF Abstract!Next
  <2>10. CASE IoctlSeek(p)
    BY <1>1, <2>10, SeekStep DEF Abstract!Next
  <2>11. CASE Misuse(p)
    BY <2>11 DEF Misuse, Undefined, Sound
  <2> QED
    BY <1>3, <2>2, <2>3, <2>4, <2>5, <2>6, <2>7, <2>8, <2>9, <2>10, <2>11
       DEF Continue, Interrupted
<1>4. CASE InitModule \/ CleanupModule
  BY <1>4, ModuleSteps DEF Abstract!Next
<1>5. CASE CleanupMisuse
  BY <1>5 DEF CleanupMisuse, Undefined, Sound
<1>6. CASE UNCHANGED vars
  <2>1. UNCHANGED <<device, loaded, open, f_pos, pc, ret>>
    BY <1>6 DEF vars, device, file
  <2>2. UNCHANGED <<Commands, Partial>>
    BY <2>1 DEF Commands, Partial, Settled, Committing, At, device
  <2> QED
    BY <2>1, <2>2 DEF Abstract!vars
<1> QED
  BY <1>2, <1>3, <1>4, <1>5, <1>6 DEF Next

\* Whatever fails and however calls interleave, each step of the driver is one
\* operation of the atomic device or invisible, until a failed write has
\* spoiled the device (the five operations of main.c and the module's two).
THEOREM DriverStepsAreDeviceSteps == Spec => StepsImplementDevice
<1>1. DriverInv /\ [Next]_vars => (Sound /\ Sound' => [Abstract!Next]_(Abstract!vars))
  BY StepIsDeviceStep
<1>2. Init => DriverInv
  BY DriverInvInit
<1>3. DriverInv /\ [Next]_vars => DriverInv'
  BY NextKeepsDriver
<1> QED
  BY <1>1, <1>2, <1>3, PTL DEF Spec, StepsImplementDevice

\* With none of the failures that spoil a device it is the atomic device, for
\* ever and for everybody.
THEOREM DriverImplementsDevice ==
  ASSUME Faults \cap (EarlyFaults \cup {"krealloc"}) = {}
  PROVE  Spec => ImplementsAesdDevice
<1>1. Faults \cap EarlyFaults = {} /\ "krealloc" \notin Faults
  BY DEF EarlyFaults
<1> DEFINE Unspoiled == DriverInv /\ NoEarlyFailure /\ WorkingIsThere
<1>2. Init => Unspoiled
  BY DriverInvInit DEF Init, NoEarlyFailure, WorkingIsThere
<1>3. Unspoiled /\ [Next]_vars => Unspoiled'
  <2> SUFFICES ASSUME DriverInv, NoEarlyFailure, WorkingIsThere, [Next]_vars
               PROVE  Unspoiled'
    OBVIOUS
  <2>1. DriverInv'
    BY NextKeepsDriver
  <2>2. NoEarlyFailure'
    BY <1>1, NoEarlyFailureStays DEF DriverInv, TypeInv
  <2>3. WorkingIsThere'
    BY <1>1, WorkingStays DEF DriverInv
  <2> QED
    BY <2>1, <2>2, <2>3
<1>4. Unspoiled => Sound
  BY DEF Sound, NoEarlyFailure, WorkingIsThere, DriverInv, SpoiledFirst
<1>5. Init => Abstract!Init
  BY NotLoaded DEF Init, Abstract!Init
<1>6. Unspoiled /\ Unspoiled' /\ [Next]_vars => [Abstract!Next]_(Abstract!vars)
  <2> SUFFICES ASSUME Unspoiled, Unspoiled', [Next]_vars
               PROVE  [Abstract!Next]_(Abstract!vars)
    OBVIOUS
  <2>1. Sound
    BY <1>4
  <2>2. Sound'
    BY DEF Sound, NoEarlyFailure, WorkingIsThere, DriverInv, SpoiledFirst
  <2> QED
    BY <2>1, <2>2, StepIsDeviceStep
<1> QED
  BY <1>2, <1>3, <1>5, <1>6, PTL DEF Spec, ImplementsAesdDevice, Abstract!Spec
-----------------------------------------------------------------------------
\* Where the seek command goes.

SeekLabels == {"i_index", "i_check", "i_lock", "i_seek"}

\* What a seek has read without the lock is still so, as long as nothing has
\* been committed since it began; its check of the offset too, unless a writer
\* has stored an entry and is about to commit it.
ReadsStand(p) ==
  /\ pc[p] \in SeekLabels => arg[p].trav = circ_buf.out_offs
  /\ pc[p] \in SeekLabels \ {"i_index"}
       => arg[p].index = CommandIndex(arg[p].seekto.write_cmd)
  /\ pc[p] \in {"i_lock", "i_seek"} /\ arg[p].index \in Index /\ ~Committing("w_advance")
       => arg[p].seekto.write_cmd_offset <= circ_buf.entry[arg[p].index].size

SeeksStand == \A p \in Procs : quiet[p] => ReadsStand(p)

\* A step outside add_entry that leaves the ring and p's call as they are.
LEMMA OthersStand ==
  ASSUME TypeInv, SeeksStand, NEW p \in Procs, NEW l,
         pc' = [pc EXCEPT ![p] = l], pc[p] # "w_advance", circ_buf' = circ_buf,
         \A q \in Procs : q # p => arg'[q] = arg[q] /\ quiet'[q] = quiet[q],
         quiet'[p] => ReadsStand(p)'
  PROVE  SeeksStand'
<1> SUFFICES ASSUME NEW q \in Procs, q # p, quiet'[q] PROVE ReadsStand(q)'
  BY DEF SeeksStand
<1>1. pc \in [Procs -> Labels]
  BY DEF TypeInv, LockInv, ControlTypeOK
<1>2. /\ ReadsStand(q) /\ arg'[q] = arg[q] /\ pc'[q] = pc[q]
      /\ Committing("w_advance") => Committing("w_advance")'
  BY <1>1 DEF SeeksStand, Committing, At
<1>3. CommandIndex(arg[q].seekto.write_cmd)' = CommandIndex(arg[q].seekto.write_cmd)
  BY <1>2 DEF CommandIndex
<1> QED
  BY <1>2, <1>3 DEF ReadsStand

\* The steps of a seek itself.
LEMMA SeekKeepsStand ==
  ASSUME TypeInv, SeeksStand, NEW p \in Procs,
         \/ BeginIoctl(p) \/ IoctlFault(p) \/ IoctlIndex(p) \/ IoctlAccepts(p)
         \/ IoctlRejects(p) \/ IoctlSeek(p) \/ TakeLock(p) \/ LockInterrupted(p)
  PROVE  SeeksStand'
<1>1. /\ pc \in [Procs -> Labels] /\ DOMAIN arg = Procs /\ quiet \in [Procs -> BOOLEAN]
      /\ arg[p] \in ArgsAt(pc[p])
  BY DEF TypeInv, LockInv, ControlTypeOK, DataTypeOK, ArgsTyped
<1> USE DEF Goto, SetArg, Leave, hist, device
<1>2. CASE BeginIoctl(p)
  <2>1. /\ pc' = [pc EXCEPT ![p] = "i_index"] /\ pc[p] = "idle" /\ circ_buf' = circ_buf
        /\ quiet' = [quiet EXCEPT ![p] = TRUE]
        /\ \E s \in SeekTos : arg' = [arg EXCEPT ![p] = [seekto |-> s,
                                         trav |-> circ_buf.out_offs, index |-> 0]]
    BY <1>2 DEF BeginIoctl, Enter, At
  <2>2. ReadsStand(p)'
    BY <1>1, <2>1 DEF ReadsStand, SeekLabels
  <2> QED
    BY <1>1, <2>1, <2>2, OthersStand
<1>3. CASE IoctlFault(p) \/ IoctlRejects(p) \/ IoctlSeek(p) \/ LockInterrupted(p)
  <2>1. /\ \E l \in {"idle", "unlock"} : pc' = [pc EXCEPT ![p] = l]
        /\ pc[p] # "w_advance" /\ circ_buf' = circ_buf /\ quiet' = quiet
        /\ arg' = arg \/ arg' = [arg EXCEPT ![p] = NoArg]
    BY <1>3 DEF IoctlFault, IoctlRejects, IoctlSeek, LockInterrupted, At
  <2>2. ReadsStand(p)'
    BY <1>1, <2>1 DEF ReadsStand, SeekLabels
  <2> QED
    BY <1>1, <2>1, <2>2, OthersStand
<1>4. CASE IoctlIndex(p)
  <2>1. /\ pc' = [pc EXCEPT ![p] = "i_check"] /\ pc[p] = "i_index"
        /\ circ_buf' = circ_buf /\ quiet' = quiet
        /\ arg' = [arg EXCEPT ![p] =
             [arg[p] EXCEPT !.index = CommandIndex(arg[p].seekto.write_cmd)]]
    BY <1>4 DEF IoctlIndex, At
  <2>2. arg[p] \in IoctlArgs
    BY <1>1, <2>1 DEF ArgsAt
  <2>3. /\ arg'[p].trav = arg[p].trav /\ arg'[p].seekto = arg[p].seekto
        /\ arg'[p].index = CommandIndex(arg[p].seekto.write_cmd)
    BY <1>1, <2>1, <2>2 DEF IoctlArgs
  <2>4. CommandIndex(arg[p].seekto.write_cmd)' = CommandIndex(arg[p].seekto.write_cmd)
    BY <2>1, <2>3 DEF CommandIndex
  <2>5. quiet'[p] => ReadsStand(p)'
    BY <1>1, <2>1, <2>3, <2>4 DEF ReadsStand, SeekLabels, SeeksStand
  <2> QED
    BY <1>1, <2>1, <2>5, OthersStand
<1>5. CASE IoctlAccepts(p)
  <2>1. /\ pc' = [pc EXCEPT ![p] = "i_lock"] /\ pc[p] = "i_check"
        /\ circ_buf' = circ_buf /\ quiet' = quiet /\ arg' = arg
        /\ arg[p].index \in Index =>
             arg[p].seekto.write_cmd_offset <= circ_buf.entry[arg[p].index].size
    BY <1>5 DEF IoctlAccepts, At
  <2>2. CommandIndex(arg[p].seekto.write_cmd)' = CommandIndex(arg[p].seekto.write_cmd)
    BY <2>1 DEF CommandIndex
  <2>3. quiet'[p] => ReadsStand(p)'
    BY <1>1, <2>1, <2>2 DEF ReadsStand, SeekLabels, SeeksStand
  <2> QED
    BY <1>1, <2>1, <2>3, OthersStand
<1>6. CASE TakeLock(p)
  <2>1. /\ pc[p] \in {"w_lock", "r_lock", "l_lock", "i_lock"}
        /\ pc' = [pc EXCEPT ![p] = AfterLock[pc[p]]]
        /\ circ_buf' = circ_buf /\ quiet' = quiet /\ arg' = arg
    BY <1>6 DEF TakeLock, AfterLock
  <2>2. CommandIndex(arg[p].seekto.write_cmd)' = CommandIndex(arg[p].seekto.write_cmd)
    BY <2>1 DEF CommandIndex
  <2>3. pc[p] = "i_lock" \/ pc'[p] \notin SeekLabels
    BY <1>1, <2>1 DEF SeekLabels, AfterLock
  <2>4. pc[p] = "i_lock" => pc'[p] = "i_seek"
    BY <1>1, <2>1 DEF AfterLock
  <2>5. Committing("w_advance") => Committing("w_advance")'
    <3> SUFFICES ASSUME NEW r \in Procs, pc[r] = "w_advance" PROVE pc'[r] = "w_advance"
      BY DEF Committing, At
    <3>1. r # p
      BY <2>1
    <3> QED
      BY <1>1, <2>1, <3>1
  <2>6. quiet'[p] => ReadsStand(p)'
    <3> SUFFICES ASSUME quiet'[p] PROVE ReadsStand(p)'
      OBVIOUS
    <3>1. CASE pc[p] = "i_lock"
      <4>1. ReadsStand(p) /\ pc'[p] = "i_seek"
        BY <2>1, <2>4, <3>1 DEF SeeksStand
      <4> QED
        BY <2>1, <2>2, <2>5, <3>1, <4>1 DEF ReadsStand, SeekLabels
    <3>2. CASE pc'[p] \notin SeekLabels
      BY <3>2 DEF ReadsStand, SeekLabels
    <3> QED
      BY <2>3, <3>1, <3>2
  <2> QED
    BY <1>1, <2>1, <2>6, OthersStand
<1> QED
  BY <1>2, <1>3, <1>4, <1>5, <1>6

\* Every step: the others leave the ring alone, store an entry that is about
\* to be committed, commit and so end the quiet, or find nobody inside.
LEMMA NextKeepsStand ==
  ASSUME TypeInv, SeeksStand, [Next]_vars
  PROVE  SeeksStand'
<1>1. /\ pc \in [Procs -> Labels] /\ DOMAIN arg = Procs /\ quiet \in [Procs -> BOOLEAN]
  BY DEF TypeInv, LockInv, ControlTypeOK, DataTypeOK, ArgsTyped
<1> USE DEF Goto, SetArg, Leave, Enter, At, hist, device
<1>2. ASSUME NEW p \in Procs,
             \/ BeginWrite(p) \/ BeginWriteFails(p) \/ BeginRead(p) \/ BeginLlseek(p)
             \/ Unlock(p) \/ WriteInterrupted(p)
             \/ WriteAppend(p) \/ WriteAppendFails(p) \/ WriteReclaim(p)
             \/ ReadFind(p) \/ ReadCopy(p) \/ Llseek(p)
      PROVE  SeeksStand'
  <2>1. /\ pc[p] # "w_advance" /\ circ_buf' = circ_buf /\ quiet' = quiet
        /\ \E l : l \notin SeekLabels /\ pc' = [pc EXCEPT ![p] = l]
    BY <1>2 DEF BeginWrite, BeginWriteFails, BeginRead, BeginLlseek, Unlock,
                WriteInterrupted, WriteAppend, WriteAppendFails, WriteReclaim,
                ReadFind, ReadCopy, Llseek, SeekLabels
  <2>2. \A q \in Procs : q # p => arg'[q] = arg[q]
    BY <1>1, <1>2 DEF BeginWrite, BeginWriteFails, BeginRead, BeginLlseek, Unlock,
                WriteInterrupted, WriteAppend, WriteAppendFails, WriteReclaim,
                ReadFind, ReadCopy, Llseek
  <2>3. ReadsStand(p)'
    BY <1>1, <2>1 DEF ReadsStand, SeekLabels
  <2> QED
    BY <2>1, <2>2, <2>3, OthersStand
<1>3. ASSUME NEW p \in Procs, WriteStore(p) PROVE SeeksStand'
  <2>1. /\ pc[p] = "w_store" /\ pc' = [pc EXCEPT ![p] = "w_advance"]
        /\ circ_buf'.out_offs = circ_buf.out_offs /\ quiet' = quiet
        /\ \A q \in Procs : q # p => arg'[q] = arg[q]
    BY <1>1, <1>3 DEF WriteStore, StoreEntry
  <2> SUFFICES ASSUME NEW q \in Procs, quiet'[q] PROVE ReadsStand(q)'
    BY DEF SeeksStand
  <2>2. CASE q = p
    BY <1>1, <2>1, <2>2 DEF ReadsStand, SeekLabels
  <2>3. CASE q # p
    <3>1. ReadsStand(q) /\ pc'[q] = pc[q] /\ arg'[q] = arg[q] /\ pc'[p] = "w_advance"
      BY <1>1, <2>1, <2>3 DEF SeeksStand
    <3>2. CommandIndex(arg[q].seekto.write_cmd)' = CommandIndex(arg[q].seekto.write_cmd)
      BY <2>1, <3>1 DEF CommandIndex
    <3>3. Committing("w_advance")'
      BY <3>1 DEF Committing
    <3> QED
      BY <2>1, <3>1, <3>2, <3>3 DEF ReadsStand
  <2> QED
    BY <2>2, <2>3
<1>4. ASSUME NEW p \in Procs, WriteAdvance(p) PROVE SeeksStand'
  BY <1>4 DEF WriteAdvance, SeeksStand
<1>5. CASE InitModule \/ CleanupModule
  <2>1. \A q \in Procs : pc'[q] = "idle"
    <3>1. \A q \in Procs : ~open[q]
      BY <1>5 DEF InitModule, CleanupModule, TypeInv, LockInv, NobodyInside
    <3>2. UNCHANGED pc
      BY <1>5 DEF InitModule, CleanupModule
    <3> QED
      BY <3>1, <3>2 DEF TypeInv, LockInv, NobodyInside
  <2> QED
    BY <2>1 DEF SeeksStand, ReadsStand, SeekLabels
<1>6. ASSUME UNCHANGED <<circ_buf, quiet, pc, arg>> PROVE SeeksStand'
  BY <1>6 DEF SeeksStand, ReadsStand, CommandIndex, Committing
<1>7. ASSUME NEW p \in Procs, Open(p) \/ Release(p) \/ Misuse(p) PROVE SeeksStand'
  BY <1>6, <1>7 DEF Open, Release, Misuse, Undefined
<1>8. CASE CleanupMisuse \/ UNCHANGED vars
  BY <1>6, <1>8 DEF CleanupMisuse, Undefined, vars
<1> QED
  BY <1>2, <1>3, <1>4, <1>5, <1>7, <1>8, SeekKeepsStand
     DEF Next, Begin, Continue, Interrupted
\* The bytes between the oldest slot and the k-th from it are the first k sizes.
LEMMA CountedBytes ==
  ASSUME NEW n \in Nat, n < MaxWriteOps, circ_buf \in RingsOver(Blocks)
  PROVE  ByteCount(circ_buf.out_offs, Slot(circ_buf, n)) = BytesSoFar(circ_buf, n)
<1> DEFINE out == circ_buf.out_offs
           steps == (Slot(circ_buf, n) - out) % MaxWriteOps
<1>1. MaxWriteOps \in Nat \ {0} /\ out \in Index /\ n \in Index
      /\ Index = 0 .. MaxWriteOps - 1
  BY MaxWriteOpsAssumption DEF RingsOver, Index
<1>2. steps = n
  <2>1. Slot(circ_buf, n) = IF out + n < MaxWriteOps THEN out + n ELSE out + n - MaxWriteOps
    BY <1>1, WrapWalk DEF Slot
  <2>2. CASE out + n < MaxWriteOps
    <3>1. Slot(circ_buf, n) - out = n
      BY <1>1, <2>1, <2>2
    <3> QED
      BY <1>1, <3>1
  <2>3. CASE ~(out + n < MaxWriteOps)
    <3>1. Slot(circ_buf, n) - out = n - MaxWriteOps
      BY <1>1, <2>1, <2>3
    <3>2. (n - MaxWriteOps) % MaxWriteOps = n
      BY <1>1
    <3> QED
      BY <3>1, <3>2
  <2> QED
    BY <2>2, <2>3
<1>3. ByteCount(out, Slot(circ_buf, n))
        = SumFunction([k \in 0 .. steps - 1 |-> circ_buf.entry[(out + k) % MaxWriteOps].size])
  BY DEF ByteCount
<1> HIDE DEF steps
<1> QED
  BY <1>2, <1>3 DEF BytesSoFar, Slot

\* A seek under the lock that was never disturbed lands where it should.
LEMMA SeekLands ==
  ASSUME DriverInv, SeeksStand, Sound, \A u \in Index : ToInt(u) = u,
         NEW p \in Procs, IoctlSeek(p), quiet[p],
         arg[p].seekto.write_cmd < Len(Commands)
  PROVE  LET n   == arg[p].seekto.write_cmd
             off == arg[p].seekto.write_cmd_offset
         IN  /\ off <= Len(Commands[n + 1])
             /\ f_pos'[p] = Len(FlattenSeq(SubSeq(Commands, 1, n))) + off
<1> DEFINE b   == circ_buf
           n   == arg[p].seekto.write_cmd
           off == arg[p].seekto.write_cmd_offset
<1>1. /\ pc[p] = "i_seek" /\ arg[p].index \in Index
      /\ f_pos' = [f_pos EXCEPT ![p] = ByteCount(arg[p].trav, arg[p].index) + off]
  BY DEF IoctlSeek, At
<1>2. NobodyCommits /\ loaded
  BY <1>1, InsideNobodyCommits DEF CriticalLabels, StoringLabels
<1>3. /\ b \in RingsOver(Blocks) /\ f_pos \in [Procs -> Nat] /\ n \in Nat /\ off \in Nat
  <2>1. arg[p] \in IoctlArgs
    BY <1>1 DEF DriverInv, TypeInv, DataTypeOK, ArgsTyped, ArgsAt
  <2> QED
    BY <2>1, DriverAssumption DEF IoctlArgs, DriverInv, TypeInv, DataTypeOK
<1>4. /\ arg[p].trav = b.out_offs /\ arg[p].index = CommandIndex(n)
      /\ off <= b.entry[arg[p].index].size
  <2>1. ~Committing("w_advance")
    BY <1>2 DEF NobodyCommits, Committing, At, StoringLabels
  <2> QED
    BY <1>1, <2>1 DEF SeeksStand, ReadsStand, SeekLabels
<1>5. Len(Commands) = Count(b) /\ Count(b) \in Nat /\ Count(b) <= MaxWriteOps
  BY <1>2, <1>3, CommandSizes, CountType
<1>6. n < Count(b) /\ n < MaxWriteOps /\ n \in Index /\ n \in 0 .. Count(b)
      /\ n + 1 \in 1 .. Count(b) /\ (n + 1) - 1 = n
  BY <1>3, <1>5, MaxWriteOpsAssumption DEF Index
<1>7. arg[p].index = Slot(b, n)
  <2>1. CommandIndex(n) = CRemainder(n + b.out_offs, MaxWriteOps)
    BY <1>6 DEF CommandIndex
  <2>2. b.out_offs \in Nat /\ n + b.out_offs >= 0 /\ n + b.out_offs = b.out_offs + n
    BY <1>3 DEF RingsOver, Index
  <2> QED
    BY <1>4, <2>1, <2>2 DEF CRemainder, Slot
<1>8. off <= Len(Commands[n + 1])
  <2>1. Len(Commands[n + 1]) = b.entry[Slot(b, n)].size
    BY <1>2, <1>6, CommandSizes
  <2> QED
    BY <1>4, <1>7, <2>1
<1>9. ByteCount(arg[p].trav, arg[p].index) = Len(FlattenSeq(SubSeq(Commands, 1, n)))
  <2>1. ByteCount(arg[p].trav, arg[p].index) = BytesSoFar(b, n)
    BY <1>3, <1>4, <1>6, <1>7, CountedBytes
  <2> QED
    BY <1>2, <1>6, <2>1, CommandPlaces
<1>10. f_pos'[p] = Len(FlattenSeq(SubSeq(Commands, 1, n))) + off
  BY <1>1, <1>3, <1>9
<1> QED
  BY <1>8, <1>10

\* A seek that no commit has disturbed goes to the byte it names, although it
\* read out_offs twice and a size once without the lock (aesd_unlocked_ioctl),
\* when an int can hold the number of every slot.
THEOREM UndisturbedSeekIsExact ==
  ASSUME \A u \in Index : ToInt(u) = u
  PROVE  Spec => SeekIsExact
<1>1. Init => DriverInv /\ SeeksStand
  BY DriverInvInit DEF Init, SeeksStand, ReadsStand, SeekLabels
<1>2. DriverInv /\ SeeksStand /\ [Next]_vars => DriverInv' /\ SeeksStand'
  BY NextKeepsDriver, NextKeepsStand DEF DriverInv
<1>3. DriverInv /\ SeeksStand /\ [Next]_vars
        => \A p \in Procs :
             IoctlSeek(p) /\ quiet[p] /\ Sound
               => LET n   == arg[p].seekto.write_cmd
                      off == arg[p].seekto.write_cmd_offset
                  IN  n < Len(Commands) =>
                        /\ off <= Len(Commands[n + 1])
                        /\ f_pos'[p] = Len(FlattenSeq(SubSeq(Commands, 1, n))) + off
  BY SeekLands
<1> QED
  BY <1>1, <1>2, <1>3, PTL DEF Spec, SeekIsExact
=============================================================================
