-------------------------- MODULE AesdMemoryProofs --------------------------
(***************************************************************************)
(* What the driver does with its memory, for any number of processes and   *)
(* slots, any faults and any arguments: every variable has its type, every *)
(* allocated block has one owner, no freed block is used, what is stored   *)
(* are whole commands.                                                     *)
(***************************************************************************)
EXTENDS AesdCharProofs

-----------------------------------------------------------------------------
\* What the operators of the driver return.

\* A newline is at the end of these bytes or nowhere in them.
NewlineLast(bytes) ==
  \A i \in DOMAIN bytes : bytes[i] = Newline => i = Len(bytes)

\* memchr and num_copy: what a write takes ends with the first newline.
LEMMA AcceptedBytes ==
  ASSUME NEW bytes \in Payloads
  PROVE  /\ Accepted(bytes) \in Seq(Bytes) \ {<<>>}
         /\ NewlineLast(Accepted(bytes))
<1> DEFINE newlines == {i \in DOMAIN bytes : bytes[i] = Newline}
<1>1. bytes \in Seq(Bytes) /\ bytes # <<>> /\ Len(bytes) \in Nat \ {0}
  BY DriverAssumption
<1>2. CASE newlines = {}
  BY <1>1, <1>2 DEF Accepted, NewlineLast
<1>3. CASE newlines # {}
  <2> DEFINE m == Min(newlines)
  <2>1. newlines \subseteq 1 .. Len(bytes)
    BY <1>1
  <2>2. m \in newlines /\ \A i \in newlines : m <= i
    <3>1. newlines \subseteq Nat
      BY <2>1
    <3> HIDE DEF newlines
    <3> QED
      BY <1>3, <3>1, MinIsLeast
  <2>3. Accepted(bytes) = SubSeq(bytes, 1, m)
    BY <1>3 DEF Accepted
  <2>4. m \in 1 .. Len(bytes)
    BY <2>1, <2>2
  <2>5. ASSUME NEW i \in 1 .. m, bytes[i] = Newline PROVE i = m
    <3>1. i \in newlines /\ i <= m /\ m <= i /\ m \in Nat /\ i \in Nat
      BY <1>1, <2>2, <2>4, <2>5
    <3> HIDE DEF m
    <3> QED
      BY <3>1
  <2> HIDE DEF m
  <2>6. SubSeq(bytes, 1, m) \in Seq(Bytes) /\ Len(SubSeq(bytes, 1, m)) = m
        /\ \A i \in 1 .. m : SubSeq(bytes, 1, m)[i] = bytes[i]
    BY <1>1, <2>4
  <2> QED
    BY <2>3, <2>4, <2>5, <2>6 DEF NewlineLast
<1> QED
  BY <1>2, <1>3

\* Two to the power of the width of an int is a number.
LEMMA PowerOfTwo ==
  ASSUME NEW n \in Nat
  PROVE  2 ^ n \in Nat
<1>1. IsFiniteSet(1 .. n) /\ Cardinality(1 .. n) = n
  BY FS_Interval
<1>2. /\ IsFiniteSet(SUBSET (1 .. n))
      /\ Cardinality(SUBSET (1 .. n)) = 2 ^ Cardinality(1 .. n)
  BY <1>1, FS_SUBSET
<1> QED
  BY <1>1, <1>2, FS_CardinalityType

\* C's remainder lies on the side of the dividend.
LEMMA RemainderType ==
  ASSUME NEW a \in Int
  PROVE  CRemainder(a, MaxWriteOps) \in Int
BY MaxWriteOpsAssumption DEF CRemainder

\* The index the ioctl works out is a number, before the array or in it.
LEMMA CommandIndexType ==
  ASSUME circ_buf.out_offs \in Index, NEW u \in Nat
  PROVE  CommandIndex(u) \in Int
<1>1. 2 ^ IntBits \in Nat
  BY PowerOfTwo, DriverAssumption
<1>2. ToInt(u) \in Int
  <2> DEFINE w == 2 ^ IntBits
             v == 2 ^ (IntBits - 1)
  <2>1. ToInt(u) = IF u >= v THEN u - w ELSE u
    BY DEF ToInt
  <2>2. w \in Nat
    BY <1>1
  <2> HIDE DEF w, v
  <2> QED
    BY <2>1, <2>2
<1>3. ToInt(u) + circ_buf.out_offs \in Int
  BY <1>2 DEF Index
<1> QED
  BY <1>3, RemainderType DEF CommandIndex

\* The bytes in all the slots.
LEMMA TotalSizeType ==
  ASSUME circ_buf \in RingsOver(Blocks)
  PROVE  TotalSize \in Nat
<1> DEFINE f == [i \in Index |-> IF circ_buf.entry[i].buffptr # NULL
                                 THEN circ_buf.entry[i].size ELSE 0]
<1>1. IsFiniteSet(Index)
  BY FS_Interval, MaxWriteOpsAssumption DEF Index
<1>2. \A i \in Index : f[i] \in Nat
  BY DEF RingsOver, EntriesOver
<1>3. TotalSize = SumFunctionOnSet(f, Index)
  BY DEF TotalSize, SumFunction
<1> HIDE DEF f
<1> QED
  BY <1>1, <1>2, <1>3, SumNat

\* The bytes between two slots.
LEMMA ByteCountType ==
  ASSUME circ_buf \in RingsOver(Blocks), NEW trav \in Index, NEW index \in Index
  PROVE  ByteCount(trav, index) \in Nat
<1> DEFINE steps == (index - trav) % MaxWriteOps
           f == [k \in 0 .. steps - 1 |-> circ_buf.entry[(trav + k) % MaxWriteOps].size]
<1>1. steps \in Nat
  BY MaxWriteOpsAssumption DEF Index
<1>2. ByteCount(trav, index) = SumFunctionOnSet(f, 0 .. steps - 1)
  BY DEF ByteCount, SumFunction
<1> HIDE DEF steps
<1>3. IsFiniteSet(0 .. steps - 1)
  BY <1>1, FS_Interval
<1>4. ASSUME NEW k \in 0 .. steps - 1 PROVE f[k] \in Nat
  <2>1. (trav + k) % MaxWriteOps \in Index
    BY <1>1, MaxWriteOpsAssumption DEF Index
  <2> QED
    BY <2>1 DEF RingsOver, EntriesOver
<1> HIDE DEF f
<1> QED
  BY <1>2, <1>3, <1>4, SumNat

\* What the search returns.
LEMMA FindType ==
  ASSUME NEW b \in RingsOver(Blocks), NEW pos \in Nat
  PROVE  FindEntryOffsetForFpos(b, pos) \in
           [found : BOOLEAN, index : Index, offset : Nat]
<1> DEFINE hit == FindEntryOffsetForFpos(b, pos)
<1>1. hit = NotFound \/ hit.found
  BY DEF FindEntryOffsetForFpos
<1>2. CASE hit = NotFound
  BY <1>2, MaxWriteOpsAssumption DEF NotFound, Index
<1>3. CASE hit.found
  <2>1. PICK k \in 0 .. Count(b) - 1 :
           /\ hit.index = Slot(b, k)
           /\ hit.offset = pos - BytesSoFar(b, k)
           /\ BytesSoFar(b, k) <= pos
    BY <1>3, FindStopsInside
  <2>2. Count(b) \in Nat
    BY MaxWriteOpsAssumption DEF Count, RingsOver, Index
  <2>3. k \in Nat
    BY <2>2
  <2>4. hit.index \in Index
    BY <2>1, <2>3, SlotInIndex
  <2>5. hit.offset \in Nat
    BY <2>1, <2>3, BytesSoFarStep
  <2>6. hit = [found |-> hit.found, index |-> hit.index, offset |-> hit.offset]
    BY DEF FindEntryOffsetForFpos, NotFound
  <2>7. hit.found \in BOOLEAN
    BY DEF FindEntryOffsetForFpos, NotFound
  <2>8. hit \in [found : BOOLEAN, index : Index, offset : Nat]
    <3> HIDE DEF hit
    <3> QED
      BY <2>4, <2>5, <2>6, <2>7
  <2> QED
    BY <2>8
<1> QED
  BY <1>1, <1>2, <1>3

-----------------------------------------------------------------------------
\* Every variable keeps its type.

\* There is a copy in the kernel for every write that waits for the lock.
CopiesCounted == Cardinality({p \in Procs : pc[p] = "w_lock"}) <= kern_bufs

ArgsTyped == DOMAIN arg = Procs /\ \A p \in Procs : arg[p] \in ArgsAt(pc[p])

Rets == [status : Statuses, data : Seq(Bytes)]

Heaps == [Blocks -> Seq(Bytes) \cup {FREE}]

\* The types of everything but the control state, field by field.
DataTypeOK ==
  /\ circ_buf \in RingsOver(Blocks)
  /\ working \in EntriesOver(Blocks)
  /\ heap \in Heaps
  /\ kern_bufs \in Nat
  /\ f_pos \in [Procs -> Nat]
  /\ ArgsTyped
  /\ ret \in [Procs -> Rets]

TypeInv == LockInv /\ DataTypeOK /\ CopiesCounted

\* The invariant of the types says what TypeOK says.
LEMMA TypeInvIsTypeOK ==
  TypeInv => TypeOK
BY DEF TypeInv, LockInv, DataTypeOK, TypeOK, ArgsTyped, Rets, Heaps

\* Before insmod.
LEMMA TypeInvInit ==
  ASSUME Init
  PROVE  TypeInv
<1>1. LockInv
  BY LockInvInit
<1>2. InitBuffer \in RingsOver(Blocks) /\ EmptyEntry \in EntriesOver(Blocks)
  BY MaxWriteOpsAssumption DEF InitBuffer, EmptyEntry, RingsOver, EntriesOver, Index
<1>3. ArgsTyped
  <2>1. NoArg \in ArgsAt("idle")
    BY DEF ArgsAt
  <2>2. arg = [p \in Procs |-> NoArg] /\ pc = [p \in Procs |-> "idle"]
    BY DEF Init
  <2> QED
    BY <2>1, <2>2 DEF ArgsTyped
<1>4. ret \in [Procs -> Rets]
  <2>1. <<>> \in Seq(Bytes) /\ "OK" \in Statuses
    BY DEF Statuses
  <2> QED
    BY <2>1 DEF Init, Rets
<1>5. CopiesCounted
  <2>1. {p \in Procs : pc[p] = "w_lock"} = {}
    BY DEF Init
  <2>2. kern_bufs = 0
    BY DEF Init
  <2> QED
    BY <2>1, <2>2, FS_EmptySet DEF CopiesCounted
<1> QED
  BY <1>1, <1>2, <1>3, <1>4, <1>5 DEF Init, TypeInv, DataTypeOK, Heaps

\* A process moves, with arguments that fit the place it moves to.
LEMMA ArgsMove ==
  ASSUME TypeInv, NEW p \in Procs, NEW l, NEW a,
         pc' = [pc EXCEPT ![p] = l], arg' = [arg EXCEPT ![p] = a], a \in ArgsAt(l)
  PROVE  ArgsTyped'
<1>1. pc \in [Procs -> Labels] /\ ArgsTyped
  BY DEF TypeInv, LockInv, ControlTypeOK, DataTypeOK
<1>2. DOMAIN arg' = Procs
  BY <1>1 DEF ArgsTyped
<1>3. ASSUME NEW q \in Procs PROVE arg'[q] \in ArgsAt(pc'[q])
  <2>1. CASE q = p
    <3>1. arg'[q] = a /\ pc'[q] = l
      BY <1>1, <2>1 DEF ArgsTyped
    <3> QED
      BY <3>1
  <2>2. CASE q # p
    <3>1. arg'[q] = arg[q] /\ pc'[q] = pc[q]
      BY <1>1, <2>2 DEF ArgsTyped
    <3> QED
      BY <1>1, <3>1 DEF ArgsTyped
  <2> QED
    BY <2>1, <2>2
<1> QED
  BY <1>2, <1>3 DEF ArgsTyped

\* It moves and keeps its arguments.
LEMMA ArgsStay ==
  ASSUME TypeInv, NEW p \in Procs, NEW l,
         pc' = [pc EXCEPT ![p] = l], arg' = arg, arg[p] \in ArgsAt(l)
  PROVE  ArgsTyped'
<1>1. pc \in [Procs -> Labels] /\ ArgsTyped
  BY DEF TypeInv, LockInv, ControlTypeOK, DataTypeOK
<1>2. ASSUME NEW q \in Procs PROVE arg'[q] \in ArgsAt(pc'[q])
  <2>1. CASE q = p
    <3>1. pc'[q] = l
      BY <1>1, <2>1
    <3> QED
      BY <2>1, <3>1
  <2>2. CASE q # p
    <3>1. pc'[q] = pc[q]
      BY <1>1, <2>2
    <3> QED
      BY <1>1, <3>1 DEF ArgsTyped
  <2> QED
    BY <2>1, <2>2
<1> QED
  BY <1>1, <1>2 DEF ArgsTyped

\* No further write waits for the lock, and no copy goes.
LEMMA CopiesStay ==
  ASSUME TypeInv, NEW p \in Procs, NEW l, l # "w_lock",
         pc' = [pc EXCEPT ![p] = l], kern_bufs' = kern_bufs
  PROVE  CopiesCounted'
<1> DEFINE W == {q \in Procs : pc[q] = "w_lock"}
           V == {q \in Procs : pc'[q] = "w_lock"}
<1>1. V \subseteq W
  BY DEF TypeInv, LockInv, ControlTypeOK
<1>2. IsFiniteSet(W)
  BY FS_Subset, DriverAssumption
<1>3. Cardinality(W) <= kern_bufs /\ kern_bufs \in Nat
  BY DEF TypeInv, CopiesCounted, DataTypeOK
<1> HIDE DEF W
<1>4. Cardinality(V) <= Cardinality(W) /\ IsFiniteSet(V)
  <2> HIDE DEF V
  <2> QED
    BY <1>1, <1>2, FS_Subset
<1>5. Cardinality(V) \in Nat /\ Cardinality(W) \in Nat
  BY <1>2, <1>4, FS_CardinalityType
<1>6. Cardinality(V) <= kern_bufs'
  BY <1>3, <1>4, <1>5
<1> QED
  BY <1>6 DEF CopiesCounted

\* A copy for each further one, and a copy gone with each one that gives up.
LEMMA CopiesMove ==
  ASSUME TypeInv, NEW p \in Procs, NEW l,
         pc' = [pc EXCEPT ![p] = l],
         \/ pc[p] # "w_lock" /\ l = "w_lock" /\ kern_bufs' = kern_bufs + 1
         \/ pc[p] = "w_lock" /\ l # "w_lock" /\ kern_bufs' = kern_bufs - 1
  PROVE  CopiesCounted' /\ kern_bufs' \in Nat
<1> DEFINE W == {q \in Procs : pc[q] = "w_lock"}
           V == {q \in Procs : pc'[q] = "w_lock"}
<1>1. IsFiniteSet(W) /\ IsFiniteSet(V)
  BY FS_Subset, DriverAssumption
<1>2. pc \in [Procs -> Labels] /\ kern_bufs \in Nat /\ Cardinality(W) <= kern_bufs
  BY DEF TypeInv, LockInv, ControlTypeOK, CopiesCounted, DataTypeOK
<1>3. Cardinality(V) \in Nat /\ Cardinality(W) \in Nat
  BY <1>1, FS_CardinalityType
<1>4. Cardinality(V) <= kern_bufs' /\ kern_bufs' \in Nat
  <2>1. CASE pc[p] # "w_lock" /\ l = "w_lock" /\ kern_bufs' = kern_bufs + 1
    <3>1. V = W \cup {p} /\ p \notin W
      BY <1>2, <2>1
    <3> HIDE DEF V, W
    <3>2. Cardinality(V) = Cardinality(W) + 1
      BY <1>1, <3>1, FS_AddElement
    <3> QED
      BY <1>2, <1>3, <2>1, <3>2
  <2>2. CASE pc[p] = "w_lock" /\ l # "w_lock" /\ kern_bufs' = kern_bufs - 1
    <3>1. V = W \ {p} /\ p \in W
      BY <1>2, <2>2
    <3> HIDE DEF V, W
    <3>2. Cardinality(V) = Cardinality(W) - 1
      BY <1>1, <3>1, FS_RemoveElement
    <3> QED
      BY <1>2, <1>3, <2>2, <3>2
  <2> QED
    BY <2>1, <2>2
<1> QED
  BY <1>4 DEF CopiesCounted
\* A call's result.
LEMMA ResultType ==
  ASSUME TypeInv, NEW p \in Procs, NEW status \in Statuses, NEW data \in Seq(Bytes),
         Result(p, status, data)
  PROVE  ret' \in [Procs -> Rets]
<1>1. [status |-> status, data |-> data] \in Rets
  BY DEF Rets
<1> QED
  BY <1>1 DEF Result, TypeInv, DataTypeOK

\* A call that returns no data.
LEMMA EmptyResultType ==
  ASSUME TypeInv, NEW p \in Procs, NEW status \in Statuses, Result(p, status, <<>>)
  PROVE  ret' \in [Procs -> Rets]
<1>1. <<>> \in Seq(Bytes)
  OBVIOUS
<1> QED
  BY <1>1, ResultType

DataInv == DataTypeOK /\ CopiesCounted

\* A step that touches neither the device nor the copies.
LEMMA CallMove ==
  ASSUME TypeInv, NEW p \in Procs, NEW l, l # "w_lock",
         pc' = [pc EXCEPT ![p] = l],
         UNCHANGED <<device, kern_bufs>>,
         ArgsTyped', f_pos' \in [Procs -> Nat], ret' \in [Procs -> Rets]
  PROVE  DataInv'
<1>1. CopiesCounted'
  BY CopiesStay
<1> QED
  BY <1>1 DEF DataInv, TypeInv, DataTypeOK, device

\* Taking and releasing the lock.
LEMMA LockTypes ==
  ASSUME TypeInv, NEW p \in Procs,
         TakeLock(p) \/ LockInterrupted(p) \/ Unlock(p)
  PROVE  DataInv'
<1>1. f_pos \in [Procs -> Nat] /\ ret \in [Procs -> Rets] /\ ArgsTyped
  BY DEF TypeInv, DataTypeOK
<1>2. CASE TakeLock(p)
  <2> DEFINE l == AfterLock[pc[p]]
  <2>1. /\ pc[p] \in {"w_lock", "r_lock", "l_lock", "i_lock"}
        /\ pc' = [pc EXCEPT ![p] = l]
        /\ UNCHANGED <<device, kern_bufs, f_pos, arg, ret>>
    BY <1>2 DEF TakeLock, AfterLock, Goto, file
  <2>2. l # "w_lock" /\ ArgsAt(l) = ArgsAt(pc[p])
    BY <2>1 DEF AfterLock, ArgsAt
  <2>3. ArgsTyped'
    <3> HIDE DEF l
    <3>1. arg[p] \in ArgsAt(l)
      BY <1>1, <2>2 DEF ArgsTyped
    <3> QED
      BY <2>1, <3>1, ArgsStay
  <2> HIDE DEF l
  <2> QED
    BY <1>1, <2>1, <2>2, <2>3, CallMove
<1>3. CASE LockInterrupted(p)
  <2>1. /\ pc' = [pc EXCEPT ![p] = "idle"] /\ arg' = [arg EXCEPT ![p] = NoArg]
        /\ Result(p, "ERESTARTSYS", <<>>)
        /\ UNCHANGED <<device, kern_bufs, f_pos>>
    BY <1>3 DEF LockInterrupted, Leave, Goto, SetArg, file
  <2>2. NoArg \in ArgsAt("idle") /\ "ERESTARTSYS" \in Statuses
    BY DEF ArgsAt, Statuses
  <2> QED
    BY <1>1, <2>1, <2>2, ArgsMove, EmptyResultType, CallMove
<1>4. CASE Unlock(p)
  <2>1. /\ pc' = [pc EXCEPT ![p] = "idle"] /\ arg' = [arg EXCEPT ![p] = NoArg]
        /\ UNCHANGED <<device, kern_bufs, f_pos, ret>>
    BY <1>4 DEF Unlock, Goto, SetArg, file
  <2>2. NoArg \in ArgsAt("idle")
    BY DEF ArgsAt
  <2> QED
    BY <1>1, <2>1, <2>2, ArgsMove, CallMove
<1> QED
  BY <1>2, <1>3, <1>4

\* The beginnings of read, llseek and the ioctl, and the ends of the latter
\* that change nothing.
LEMMA CallTypes ==
  ASSUME TypeInv, NEW p \in Procs,
         \/ BeginWriteFails(p) \/ BeginRead(p) \/ BeginLlseek(p) \/ BeginIoctl(p)
         \/ IoctlFault(p) \/ IoctlIndex(p) \/ IoctlAccepts(p) \/ IoctlRejects(p)
  PROVE  DataInv'
<1>1. f_pos \in [Procs -> Nat] /\ ret \in [Procs -> Rets] /\ ArgsTyped
  BY DEF TypeInv, DataTypeOK
<1>2. NoArg \in ArgsAt("idle") /\ NoArg \in ArgsAt("w_fail")
      /\ {"EFAULT", "ENOMEM", "EINVAL"} \subseteq Statuses
  BY DEF ArgsAt, Statuses
<1> USE DEF Goto, SetArg, Enter, Leave, file
<1>3. CASE BeginWriteFails(p)
  <2>1. /\ pc' = [pc EXCEPT ![p] = "w_fail"] /\ arg' = [arg EXCEPT ![p] = NoArg]
        /\ Result(p, "ENOMEM", <<>>) \/ Result(p, "EFAULT", <<>>)
        /\ UNCHANGED <<device, kern_bufs, f_pos>>
    BY <1>3 DEF BeginWriteFails
  <2>2. ret' \in [Procs -> Rets]
    BY <1>2, <2>1, EmptyResultType
  <2> QED
    BY <1>1, <1>2, <2>1, <2>2, ArgsMove, CallMove
<1>4. CASE BeginRead(p)
  <2>1. PICK count \in ReadCounts :
          Enter(p, "r_lock", [count |-> count, entry |-> NotFound])
    BY <1>4 DEF BeginRead
  <2>2. [count |-> count, entry |-> NotFound] \in ArgsAt("r_lock")
    <3>1. NotFound \in [found : BOOLEAN, index : Index, offset : Nat]
      BY MaxWriteOpsAssumption DEF NotFound, Index
    <3> QED
      BY <3>1 DEF ArgsAt, ReadArgs
  <2>3. UNCHANGED <<device, kern_bufs, f_pos, ret>>
    BY <1>4 DEF BeginRead
  <2> QED
    BY <1>1, <2>1, <2>2, <2>3, ArgsMove, CallMove
<1>5. CASE BeginLlseek(p)
  <2>1. PICK seek \in Seeks : Enter(p, "l_lock", seek)
    BY <1>5 DEF BeginLlseek
  <2>2. seek \in ArgsAt("l_lock")
    BY DEF ArgsAt
  <2>3. UNCHANGED <<device, kern_bufs, f_pos, ret>>
    BY <1>5 DEF BeginLlseek
  <2> QED
    BY <1>1, <2>1, <2>2, <2>3, ArgsMove, CallMove
<1>6. CASE BeginIoctl(p)
  <2>1. PICK seekto \in SeekTos :
          Enter(p, "i_index",
                [seekto |-> seekto, trav |-> circ_buf.out_offs, index |-> 0])
    BY <1>6 DEF BeginIoctl
  <2>2. [seekto |-> seekto, trav |-> circ_buf.out_offs, index |-> 0]
          \in ArgsAt("i_index")
    <3>1. circ_buf.out_offs \in Index
      BY DEF TypeInv, DataTypeOK, RingsOver
    <3> QED
      BY <3>1 DEF ArgsAt, IoctlArgs
  <2>3. UNCHANGED <<device, kern_bufs, f_pos, ret>>
    BY <1>6 DEF BeginIoctl
  <2> QED
    BY <1>1, <2>1, <2>2, <2>3, ArgsMove, CallMove
<1>7. CASE IoctlFault(p) \/ IoctlRejects(p)
  <2>1. /\ pc' = [pc EXCEPT ![p] = "idle"] /\ arg' = [arg EXCEPT ![p] = NoArg]
        /\ Result(p, "EFAULT", <<>>) \/ Result(p, "EINVAL", <<>>)
        /\ UNCHANGED <<device, kern_bufs, f_pos>>
    BY <1>7 DEF IoctlFault, IoctlRejects
  <2>2. ret' \in [Procs -> Rets]
    BY <1>2, <2>1, EmptyResultType
  <2> QED
    BY <1>1, <1>2, <2>1, <2>2, ArgsMove, CallMove
<1>8. CASE IoctlIndex(p)
  <2> DEFINE index == CommandIndex(arg[p].seekto.write_cmd)
  <2>1. /\ pc' = [pc EXCEPT ![p] = "i_check"]
        /\ arg' = [arg EXCEPT ![p] = [arg[p] EXCEPT !.index = index]]
        /\ UNCHANGED <<device, kern_bufs, f_pos, ret>>
    BY <1>8 DEF IoctlIndex
  <2>2. arg[p] \in IoctlArgs
    BY <1>1, <1>8 DEF IoctlIndex, At, ArgsTyped, ArgsAt
  <2>3. index \in Int
    <3>1. arg[p].seekto.write_cmd \in Nat
      BY <2>2, DriverAssumption DEF IoctlArgs
    <3>2. circ_buf.out_offs \in Index
      BY DEF TypeInv, DataTypeOK, RingsOver
    <3> QED
      BY <3>1, <3>2, CommandIndexType
  <2> HIDE DEF index
  <2>4. [arg[p] EXCEPT !.index = index] \in ArgsAt("i_check")
    BY <2>2, <2>3 DEF ArgsAt, IoctlArgs
  <2>5. ArgsTyped'
    BY <2>1, <2>4, ArgsMove
  <2> QED
    BY <1>1, <2>1, <2>5, CallMove
<1>9. CASE IoctlAccepts(p)
  <2>1. /\ pc' = [pc EXCEPT ![p] = "i_lock"]
        /\ UNCHANGED <<device, kern_bufs, f_pos, arg, ret>>
    BY <1>9 DEF IoctlAccepts
  <2>2. arg[p] \in ArgsAt("i_lock")
    BY <1>1, <1>9 DEF IoctlAccepts, At, ArgsTyped, ArgsAt
  <2> QED
    BY <1>1, <2>1, <2>2, ArgsStay, CallMove
<1> QED
  BY <1>3, <1>4, <1>5, <1>6, <1>7, <1>8, <1>9
\* The steps of read and the seeks under the lock.
LEMMA PositionTypes ==
  ASSUME TypeInv, NEW p \in Procs,
         ReadFind(p) \/ ReadCopy(p) \/ Llseek(p) \/ IoctlSeek(p)
  PROVE  DataInv'
<1>1. /\ f_pos \in [Procs -> Nat] /\ ret \in [Procs -> Rets] /\ ArgsTyped
      /\ circ_buf \in RingsOver(Blocks) /\ heap \in Heaps
  BY DEF TypeInv, DataTypeOK
<1>2. "OK" \in Statuses /\ "EFAULT" \in Statuses /\ "EINVAL" \in Statuses
  BY DEF Statuses
<1> USE DEF Goto, SetArg, file
<1>3. CASE ReadFind(p)
  <2> DEFINE hit == FindEntryOffsetForFpos(circ_buf, f_pos[p])
  <2>1. UNCHANGED <<device, kern_bufs, f_pos>> /\ pc[p] = "r_find"
    BY <1>3 DEF ReadFind, At
  <2>2. arg[p] \in ReadArgs
    BY <1>1, <2>1 DEF ArgsTyped, ArgsAt
  <2>3. \/ /\ arg' = [arg EXCEPT ![p] = [arg[p] EXCEPT !.entry = hit]]
           /\ pc' = [pc EXCEPT ![p] = "r_copy"] /\ UNCHANGED ret
        \/ /\ Result(p, "OK", <<>>)
           /\ pc' = [pc EXCEPT ![p] = "unlock"] /\ UNCHANGED arg
    BY <1>3 DEF ReadFind
  <2>4. hit \in [found : BOOLEAN, index : Index, offset : Nat]
    BY <1>1, FindType
  <2> HIDE DEF hit
  <2>5. CASE /\ arg' = [arg EXCEPT ![p] = [arg[p] EXCEPT !.entry = hit]]
             /\ pc' = [pc EXCEPT ![p] = "r_copy"] /\ UNCHANGED ret
    <3>1. [arg[p] EXCEPT !.entry = hit] \in ArgsAt("r_copy")
      BY <2>2, <2>4 DEF ReadArgs, ArgsAt
    <3>2. ArgsTyped'
      BY <2>5, <3>1, ArgsMove
    <3> QED
      BY <1>1, <2>1, <2>5, <3>2, CallMove
  <2>6. CASE /\ Result(p, "OK", <<>>)
             /\ pc' = [pc EXCEPT ![p] = "unlock"] /\ UNCHANGED arg
    <3>1. arg[p] \in ArgsAt("unlock")
      BY <2>2 DEF ArgsAt
    <3>2. ArgsTyped' /\ ret' \in [Procs -> Rets]
      BY <1>2, <2>6, <3>1, ArgsStay, EmptyResultType
    <3> QED
      BY <1>1, <2>1, <2>6, <3>2, CallMove
  <2> QED
    BY <2>3, <2>5, <2>6
<1>4. ASSUME ReadCopy(p) \/ Llseek(p) \/ IoctlSeek(p)
      PROVE  /\ UNCHANGED <<device, kern_bufs>>
             /\ pc' = [pc EXCEPT ![p] = "unlock"]
             /\ ArgsTyped'
  <2>1. /\ UNCHANGED <<device, kern_bufs, arg>>
        /\ pc' = [pc EXCEPT ![p] = "unlock"]
        /\ pc[p] \in {"r_copy", "l_seek", "i_seek"}
    BY <1>4 DEF ReadCopy, Llseek, IoctlSeek, At
  <2>2. arg[p] \in ArgsAt("unlock")
    BY <1>1, <2>1 DEF ArgsTyped, ArgsAt
  <2> QED
    BY <2>1, <2>2, ArgsStay
<1>5. CASE ReadCopy(p)
  <2> DEFINE bytes == heap[Found(p).buffptr]
             n     == Available(p)
             from  == arg[p].entry.offset
  <2>1. /\ pc[p] = "r_copy" /\ Readable(p)
        /\ \/ /\ Result(p, "OK", SubSeq(bytes, from + 1, from + n))
              /\ f_pos' = [f_pos EXCEPT ![p] = @ + n]
           \/ Result(p, "EFAULT", <<>>) /\ UNCHANGED f_pos
    BY <1>5 DEF ReadCopy, At
  <2>2. arg[p].entry.index \in Index /\ from \in Nat /\ arg[p].count \in Nat
    BY <1>1, <2>1, DriverAssumption DEF ArgsTyped, ArgsAt, ReadArgs
  <2>3. Found(p) \in EntriesOver(Blocks)
    BY <1>1, <2>2 DEF Found, RingsOver
  <2>4. n \in Nat
    <3>1. n \in Int /\ n >= 0
      BY <2>1, <2>2, <2>3 DEF Available, Readable, EntriesOver
    <3> QED
      BY <3>1
  <2>5. bytes \in Seq(Bytes)
    BY <1>1, <2>1, <2>3 DEF Readable, Freed, Heaps, EntriesOver
  <2>6. from + n <= Len(bytes)
    BY <2>1 DEF Readable
  <2> HIDE DEF bytes, n, from
  <2>7. SubSeq(bytes, from + 1, from + n) \in Seq(Bytes)
    <3>1. from + 1 \in Nat \ {0} /\ from + n \in Nat /\ Len(bytes) \in Nat
      BY <2>2, <2>4, <2>5
    <3>2. \A i \in from + 1 .. from + n : bytes[i] \in Bytes
      BY <2>5, <2>6, <3>1
    <3> QED
      BY <2>5, <2>6, <3>1, <3>2
  <2>8. f_pos' \in [Procs -> Nat]
    BY <1>1, <2>1, <2>4
  <2>9. ret' \in [Procs -> Rets]
    BY <1>2, <2>1, <2>7, ResultType, EmptyResultType
  <2> QED
    BY <1>4, <1>5, <2>8, <2>9, CallMove
<1>6. CASE Llseek(p)
  <2>1. PICK newpos :
          /\ \/ newpos = arg[p].offset
             \/ newpos = f_pos[p] + arg[p].offset
             \/ newpos = TotalSize + arg[p].offset
             \/ newpos = -1
          /\ \/ Refused(newpos) /\ Result(p, "EINVAL", <<>>) /\ UNCHANGED f_pos
             \/ /\ ~Refused(newpos) /\ Result(p, "OK", <<>>)
                /\ f_pos' = [f_pos EXCEPT ![p] = newpos]
    BY <1>6 DEF Llseek
  <2>2. arg[p].offset \in Int
    BY <1>1, <1>6, DriverAssumption DEF Llseek, At, ArgsTyped, ArgsAt
  <2>3. newpos \in Int
    BY <1>1, <2>1, <2>2, TotalSizeType
  <2>4. f_pos' \in [Procs -> Nat]
    BY <1>1, <2>1, <2>3 DEF Refused
  <2>5. ret' \in [Procs -> Rets]
    BY <1>2, <2>1, EmptyResultType
  <2> QED
    BY <1>4, <1>6, <2>4, <2>5, CallMove
<1>7. CASE IoctlSeek(p)
  <2> DEFINE newpos == ByteCount(arg[p].trav, arg[p].index)
                         + arg[p].seekto.write_cmd_offset
  <2>1. /\ pc[p] = "i_seek" /\ arg[p].index \in Index
        /\ f_pos' = [f_pos EXCEPT ![p] = newpos]
        /\ Result(p, "OK", <<>>)
    BY <1>7 DEF IoctlSeek, At
  <2>2. arg[p].trav \in Index /\ arg[p].seekto.write_cmd_offset \in Nat
    BY <1>1, <2>1, DriverAssumption DEF ArgsTyped, ArgsAt, IoctlArgs
  <2>3. newpos \in Nat
    BY <1>1, <2>1, <2>2, ByteCountType
  <2> HIDE DEF newpos
  <2>4. f_pos' \in [Procs -> Nat] /\ ret' \in [Procs -> Rets]
    BY <1>1, <1>2, <2>1, <2>3, EmptyResultType
  <2> QED
    BY <1>4, <1>7, <2>4, CallMove
<1> QED
  BY <1>3, <1>5, <1>6, <1>7
\* The steps of a write.
LEMMA WriteTypes ==
  ASSUME TypeInv, NEW p \in Procs,
         \/ BeginWrite(p) \/ WriteInterrupted(p) \/ WriteAppend(p)
         \/ WriteAppendFails(p) \/ WriteStore(p) \/ WriteAdvance(p)
         \/ WriteReclaim(p)
  PROVE  DataInv'
<1>1. /\ f_pos \in [Procs -> Nat] /\ ret \in [Procs -> Rets] /\ ArgsTyped
      /\ circ_buf \in RingsOver(Blocks) /\ working \in EntriesOver(Blocks)
      /\ heap \in Heaps /\ pc \in [Procs -> Labels] /\ kern_bufs \in Nat
  BY DEF TypeInv, DataTypeOK, LockInv, ControlTypeOK
<1>2. "OK" \in Statuses /\ "ENOMEM" \in Statuses /\ "ERESTARTSYS" \in Statuses
  BY DEF Statuses
<1>3. \A b : [x \in Blocks |-> IF x = b THEN FREE ELSE heap[x]] \in Heaps
  BY <1>1 DEF Heaps
<1>4. EmptyEntry \in EntriesOver(Blocks)
  BY DEF EmptyEntry, EntriesOver
<1> USE DEF Goto, SetArg, Enter, file
<1>5. CASE BeginWrite(p)
  <2>1. PICK bytes \in Payloads :
          Enter(p, "w_lock", [data |-> Accepted(bytes), overwritten |-> NULL])
    BY <1>5 DEF BeginWrite
  <2>2. [data |-> Accepted(bytes), overwritten |-> NULL] \in ArgsAt("w_lock")
    BY AcceptedBytes DEF ArgsAt, WriteArgs
  <2>3. /\ UNCHANGED <<device, f_pos, ret>> /\ kern_bufs' = kern_bufs + 1
        /\ pc[p] = "idle" /\ pc' = [pc EXCEPT ![p] = "w_lock"]
    BY <1>5, <2>1 DEF BeginWrite, At
  <2>4. CopiesCounted' /\ kern_bufs' \in Nat
    BY <2>3, CopiesMove
  <2>5. ArgsTyped'
    BY <2>1, <2>2, ArgsMove
  <2> QED
    BY <1>1, <2>3, <2>4, <2>5 DEF DataInv, DataTypeOK, device
<1>6. CASE WriteInterrupted(p)
  <2>1. /\ UNCHANGED <<device, f_pos>> /\ kern_bufs' = kern_bufs - 1
        /\ pc[p] = "w_lock" /\ pc' = [pc EXCEPT ![p] = "w_fail"]
        /\ arg' = [arg EXCEPT ![p] = NoArg]
        /\ Result(p, "ERESTARTSYS", <<>>)
    BY <1>6 DEF WriteInterrupted, At
  <2>2. NoArg \in ArgsAt("w_fail")
    BY DEF ArgsAt
  <2>3. CopiesCounted' /\ kern_bufs' \in Nat
    BY <2>1, CopiesMove
  <2>4. ArgsTyped' /\ ret' \in [Procs -> Rets]
    BY <1>2, <2>1, <2>2, ArgsMove, EmptyResultType
  <2> QED
    BY <1>1, <2>1, <2>3, <2>4 DEF DataInv, DataTypeOK, device
<1>7. CASE WriteAppend(p)
  <2>1. arg[p] \in WriteArgs
    BY <1>1, <1>7 DEF WriteAppend, At, ArgsTyped, ArgsAt
  <2>2. PICK ptr \in Blocks, old \in Seq(Bytes) :
          /\ heap' = [heap EXCEPT ![ptr] = old \o arg[p].data]
          /\ working' = [buffptr |-> ptr, size |-> working.size + Len(arg[p].data)]
    <3>1. CASE working.buffptr = NULL
      <4> DEFINE ptr == CHOOSE b \in Blocks : heap[b] = FREE
      <4>1. ptr \in Blocks
        BY <1>7, <3>1 DEF WriteAppend
      <4>2. /\ heap' = [heap EXCEPT ![ptr] = <<>> \o arg[p].data]
            /\ working' = [buffptr |-> ptr, size |-> working.size + Len(arg[p].data)]
        BY <1>7, <3>1 DEF WriteAppend
      <4>3. <<>> \in Seq(Bytes)
        OBVIOUS
      <4> HIDE DEF ptr
      <4> QED
        BY <4>1, <4>2, <4>3
    <3>2. CASE working.buffptr # NULL
      <4>1. working.buffptr \in Blocks /\ heap[working.buffptr] \in Seq(Bytes)
        BY <1>1, <1>7, <3>2 DEF WriteAppend, Freed, EntriesOver, Heaps
      <4> QED
        BY <1>7, <3>2, <4>1 DEF WriteAppend
    <3> QED
      BY <3>1, <3>2
  <2>3. old \o arg[p].data \in Seq(Bytes) /\ Len(arg[p].data) \in Nat
        /\ working.size \in Nat /\ arg[p].data \in Seq(Bytes)
    BY <1>1, <2>1 DEF WriteArgs, EntriesOver
  <2>4. heap' \in Heaps /\ working' \in EntriesOver(Blocks)
    BY <1>1, <2>2, <2>3 DEF Heaps, EntriesOver
  <2> DEFINE l == IF EndsCommand(arg[p].data) THEN "w_store" ELSE "unlock"
  <2>5. /\ UNCHANGED <<circ_buf, f_pos, arg, kern_bufs>>
        /\ pc' = [pc EXCEPT ![p] = l] /\ Result(p, "OK", arg[p].data)
    BY <1>7 DEF WriteAppend
  <2>6. arg[p] \in ArgsAt(l) /\ l # "w_lock"
    BY <2>1 DEF ArgsAt
  <2> HIDE DEF l
  <2>7. ArgsTyped' /\ ret' \in [Procs -> Rets] /\ CopiesCounted'
    BY <1>2, <2>3, <2>5, <2>6, ArgsStay, ResultType, CopiesStay
  <2> QED
    BY <1>1, <2>4, <2>5, <2>7 DEF DataInv, DataTypeOK
<1>8. CASE WriteAppendFails(p)
  <2>1. /\ UNCHANGED <<circ_buf, working, f_pos, arg, kern_bufs>>
        /\ pc' = [pc EXCEPT ![p] = "unlock"] /\ pc[p] = "w_append"
        /\ Result(p, "ENOMEM", <<>>) /\ Kfree(working.buffptr)
    BY <1>8 DEF WriteAppendFails, At
  <2>2. arg[p] \in ArgsAt("unlock")
    BY <1>1, <2>1 DEF ArgsAt, ArgsTyped
  <2>3. heap' \in Heaps
    BY <1>3, <2>1 DEF Kfree
  <2>4. ArgsTyped' /\ ret' \in [Procs -> Rets] /\ CopiesCounted'
    BY <1>2, <2>1, <2>2, ArgsStay, EmptyResultType, CopiesStay
  <2> QED
    BY <1>1, <2>1, <2>3, <2>4 DEF DataInv, DataTypeOK
<1>9. CASE WriteStore(p)
  <2> DEFINE a == [arg[p] EXCEPT !.overwritten = Overwritten(circ_buf)]
  <2>1. /\ UNCHANGED <<working, heap, f_pos, ret, kern_bufs>>
        /\ pc' = [pc EXCEPT ![p] = "w_advance"] /\ pc[p] = "w_store"
        /\ arg' = [arg EXCEPT ![p] = a]
        /\ circ_buf' = StoreEntry(circ_buf, working)
    BY <1>9 DEF WriteStore, At
  <2>2. arg[p] \in WriteArgs /\ Overwritten(circ_buf) \in Blocks \cup {NULL}
    BY <1>1, <2>1, HalvesType DEF ArgsAt, ArgsTyped
  <2>3. a \in ArgsAt("w_advance")
    BY <2>2 DEF ArgsAt, WriteArgs
  <2> HIDE DEF a
  <2>4. ArgsTyped' /\ CopiesCounted' /\ circ_buf' \in RingsOver(Blocks)
    BY <1>1, <2>1, <2>3, ArgsMove, CopiesStay, HalvesType
  <2> QED
    BY <1>1, <2>1, <2>4 DEF DataInv, DataTypeOK
<1>10. CASE WriteAdvance(p)
  <2>1. /\ UNCHANGED <<working, heap, f_pos, arg, ret, kern_bufs>>
        /\ pc' = [pc EXCEPT ![p] = "w_reclaim"] /\ pc[p] = "w_advance"
        /\ circ_buf' = AdvanceOut(circ_buf)
    BY <1>10 DEF WriteAdvance, At
  <2>2. arg[p] \in ArgsAt("w_reclaim")
    BY <1>1, <2>1 DEF ArgsAt, ArgsTyped
  <2>3. ArgsTyped' /\ CopiesCounted' /\ circ_buf' \in RingsOver(Blocks)
    BY <1>1, <2>1, <2>2, ArgsStay, CopiesStay, HalvesType
  <2> QED
    BY <1>1, <2>1, <2>3 DEF DataInv, DataTypeOK
<1>11. CASE WriteReclaim(p)
  <2>1. /\ UNCHANGED <<circ_buf, f_pos, arg, ret, kern_bufs>>
        /\ pc' = [pc EXCEPT ![p] = "unlock"] /\ pc[p] = "w_reclaim"
        /\ working' = EmptyEntry /\ Kfree(arg[p].overwritten)
    BY <1>11 DEF WriteReclaim, At
  <2>2. arg[p] \in ArgsAt("unlock")
    BY <1>1, <2>1 DEF ArgsAt, ArgsTyped
  <2>3. heap' \in Heaps
    BY <1>3, <2>1 DEF Kfree
  <2>4. ArgsTyped' /\ CopiesCounted'
    BY <2>1, <2>2, ArgsStay, CopiesStay
  <2> QED
    BY <1>1, <1>4, <2>1, <2>3, <2>4 DEF DataInv, DataTypeOK
<1> QED
  BY <1>5, <1>6, <1>7, <1>8, <1>9, <1>10, <1>11

\* Opening, closing, insmod, rmmod and the end of all claims.
LEMMA ModuleTypes ==
  ASSUME TypeInv,
         \/ \E p \in Procs : Open(p) \/ Release(p) \/ Misuse(p)
         \/ InitModule \/ CleanupModule \/ CleanupMisuse
  PROVE  DataInv'
<1>1. DataTypeOK /\ CopiesCounted
  BY DEF TypeInv
<1> USE DEF DataInv, DataTypeOK, CopiesCounted, ArgsTyped, device, file
<1>2. ASSUME NEW p \in Procs, Open(p) \/ Release(p) PROVE DataInv'
  <2>1. UNCHANGED <<device, kern_bufs, pc, arg>> /\ f_pos' \in [Procs -> Nat]
    BY <1>1, <1>2 DEF Open, Release
  <2>2. [status |-> "OK", data |-> <<>>] \in Rets
    BY DEF Rets, Statuses
  <2>3. ret' \in [Procs -> Rets]
    BY <1>1, <1>2, <2>2 DEF Open, Release, Result
  <2> QED
    BY <1>1, <2>1, <2>3
<1>3. CASE Undefined
  BY <1>1, <1>3 DEF Undefined
<1>4. CASE InitModule
  <2>1. InitBuffer \in RingsOver(Blocks) /\ EmptyEntry \in EntriesOver(Blocks)
    BY MaxWriteOpsAssumption DEF InitBuffer, EmptyEntry, RingsOver, EntriesOver, Index
  <2> QED
    BY <1>1, <1>4, <2>1 DEF InitModule
<1>5. CASE CleanupModule
  <2>1. heap' \in Heaps
    BY <1>1, <1>5 DEF CleanupModule, Heaps
  <2> QED
    BY <1>1, <1>5, <2>1 DEF CleanupModule
<1> QED
  BY <1>2, <1>3, <1>4, <1>5 DEF Misuse, CleanupMisuse

\* Every step of the driver keeps the types.
LEMMA NextKeepsTypes ==
  ASSUME TypeInv, [Next]_vars
  PROVE  TypeInv'
<1>1. LockInv'
  BY NextKeepsLockInv DEF TypeInv
<1>2. DataInv'
  <2>1. ASSUME NEW p \in Procs, Begin(p) PROVE DataInv'
    BY <2>1, CallTypes, WriteTypes, ModuleTypes DEF Begin
  <2>2. ASSUME NEW p \in Procs, Continue(p) \/ Interrupted(p) PROVE DataInv'
    BY <2>2, LockTypes, CallTypes, PositionTypes, WriteTypes, ModuleTypes
       DEF Continue, Interrupted
  <2>3. CASE UNCHANGED vars
    BY <2>3 DEF vars, device, file, TypeInv, DataInv, DataTypeOK, ArgsTyped,
                CopiesCounted
  <2> QED
    BY <2>1, <2>2, <2>3, ModuleTypes DEF Next
<1> QED
  BY <1>1, <1>2 DEF TypeInv, DataInv

\* Every variable of the driver keeps its type, whatever fails and however
\* calls interleave: in_offs and out_offs stay in the array, no position
\* becomes negative, kern_bufs counts at least the copies still in use.
THEOREM DriverTypeCorrect == Spec => []TypeOK
BY TypeInvInit, NextKeepsTypes, TypeInvIsTypeOK, PTL DEF Spec
-----------------------------------------------------------------------------
\* The memory of the device at each stage of a commit, as a relation between
\* ring b, working entry w and heap h, with the block leaving the ring.

StoringLabels == {"w_store", "w_advance", "w_reclaim"}

\* Its only newline is its last byte.
Whole(bytes) == {i \in DOMAIN bytes : bytes[i] = Newline} = {Len(bytes)}

SizeRight(e, h) == e.size = IF e.buffptr = NULL THEN 0 ELSE Len(h[e.buffptr])

\* Each allocated block is in one slot, or the working entry's, or leaving;
\* the newest slot and the working entry share theirs between w_store and the
\* end of w_reclaim.
OneOwner(b, w, h, stage, leaving) ==
  LET stored == StoredPointers(b)
      typed  == {w.buffptr} \ {NULL}
      gone   == {leaving} \ {NULL}
  IN  /\ {x \in Blocks : h[x] # FREE} = stored \cup typed \cup gone
      /\ gone \cap (stored \cup typed) = {}
      /\ stage \in {"w_advance", "w_reclaim"} => w.buffptr \in stored
      /\ stage \notin {"w_advance", "w_reclaim"} => w.buffptr \notin stored
      /\ stage \in StoringLabels => w.buffptr # NULL

\* The size beside a pointer is the size of its block.
SizesRight(b, w, h) == SizeRight(w, h) /\ \A i \in Index : SizeRight(b.entry[i], h)

\* What is stored are whole commands, what is being typed is none yet.
NewlinesLast(b, w, h, stage) ==
  /\ \A x \in StoredPointers(b) : Whole(h[x])
  /\ w.buffptr # NULL => IF stage \in StoringLabels THEN Whole(h[w.buffptr])
                         ELSE ~EndsCommand(h[w.buffptr])

MemoryOK(b, w, h, stage, leaving) ==
  /\ OneOwner(b, w, h, stage, leaving)
  /\ PointersDiffer(b)
  /\ SizesRight(b, w, h)
  /\ RingShape(IF stage = "w_advance" THEN AdvanceOut(b) ELSE b)
  /\ NewlinesLast(b, w, h, stage)

\* Appending what one write takes to what has no newline.
LEMMA AppendMakesWhole ==
  ASSUME NEW old \in Seq(Bytes), NEW data \in Seq(Bytes),
         ~EndsCommand(old), NewlineLast(data)
  PROVE  IF EndsCommand(data) THEN Whole(old \o data) ELSE ~EndsCommand(old \o data)
<1> DEFINE s == old \o data
           m == Len(old)
           n == Len(data)
<1>1. /\ m \in Nat /\ n \in Nat /\ DOMAIN s = 1 .. m + n /\ Len(s) = m + n
      /\ DOMAIN old = 1 .. m /\ DOMAIN data = 1 .. n
      /\ \A i \in 1 .. m : s[i] = old[i]
      /\ \A i \in m + 1 .. m + n : s[i] = data[i - m]
  OBVIOUS
<1> HIDE DEF s, m, n
<1>2. \A i \in 1 .. m : old[i] # Newline
  BY <1>1 DEF EndsCommand
<1>3. ASSUME NEW i \in 1 .. m + n, s[i] = Newline
      PROVE  i - m \in 1 .. n /\ data[i - m] = Newline
  BY <1>1, <1>2, <1>3
<1>4. CASE EndsCommand(data)
  <2>1. PICK j \in 1 .. n : data[j] = Newline
    BY <1>1, <1>4 DEF EndsCommand
  <2>2. j = n
    BY <1>1, <2>1 DEF NewlineLast, n
  <2>3. s[m + n] = Newline /\ m + n \in 1 .. m + n
    <3>1. m + n \in m + 1 .. m + n /\ (m + n) - m = n
      BY <1>1, <2>1, <2>2
    <3> QED
      BY <1>1, <2>1, <2>2, <3>1
  <2>4. ASSUME NEW i \in 1 .. m + n, s[i] = Newline PROVE i = m + n
    <3>1. i - m = n
      BY <1>1, <1>3, <2>4 DEF NewlineLast, n
    <3> QED
      BY <1>1, <3>1
  <2>5. Whole(s)
    BY <1>1, <2>3, <2>4 DEF Whole
  <2> QED
    BY <1>4, <2>5 DEF s
<1>5. CASE ~EndsCommand(data)
  <2>1. \A i \in 1 .. m + n : s[i] # Newline
    BY <1>1, <1>3, <1>5 DEF EndsCommand
  <2>2. ~EndsCommand(s)
    BY <1>1, <2>1 DEF EndsCommand
  <2> QED
    BY <1>5, <2>2 DEF s
<1> QED
  BY <1>4, <1>5

\* krealloc and memcpy.
LEMMA AppendKeepsMemory ==
  ASSUME NEW b \in RingsOver(Blocks), NEW w \in EntriesOver(Blocks), NEW h \in Heaps,
         MemoryOK(b, w, h, "idle", NULL),
         NEW data \in Seq(Bytes), NewlineLast(data),
         NEW ptr \in Blocks, NEW old \in Seq(Bytes),
         IF w.buffptr = NULL THEN h[ptr] = FREE /\ old = <<>>
         ELSE ptr = w.buffptr /\ old = h[ptr],
         NEW h2, h2 = [h EXCEPT ![ptr] = old \o data],
         NEW w2, w2 = [buffptr |-> ptr, size |-> w.size + Len(data)]
  PROVE  MemoryOK(b, w2, h2, IF EndsCommand(data) THEN "w_store" ELSE "idle", NULL)
<1> DEFINE stored == StoredPointers(b)
           l == IF EndsCommand(data) THEN "w_store" ELSE "idle"
<1>1. ptr # NULL /\ FREE \notin Seq(Bytes) /\ NULL \notin Blocks
  BY DriverAssumption
<1>2. /\ {x \in Blocks : h[x] # FREE} = stored \cup ({w.buffptr} \ {NULL})
      /\ w.buffptr \notin stored
  BY DEF MemoryOK, OneOwner
<1>3. ptr \notin stored /\ stored \subseteq Blocks
  BY <1>2
<1>4. old \o data \in Seq(Bytes) /\ Len(old \o data) = Len(old) + Len(data)
  OBVIOUS
<1>5. /\ h2[ptr] = old \o data
      /\ \A x \in Blocks : x # ptr => h2[x] = h[x]
  BY DEF Heaps
<1>6. w2.buffptr = ptr /\ w2.size = w.size + Len(data)
  OBVIOUS
<1>7. l \notin {"w_advance", "w_reclaim"} /\ (l \in StoringLabels <=> EndsCommand(data))
  BY DEF StoringLabels
<1> HIDE DEF l
<1>8. OneOwner(b, w2, h2, l, NULL)
  <2>1. {x \in Blocks : h2[x] # FREE} = {x \in Blocks : h[x] # FREE} \cup {ptr}
    BY <1>1, <1>4, <1>5
  <2>2. {x \in Blocks : h2[x] # FREE} = stored \cup {ptr}
    BY <1>2, <2>1
  <2> QED
    BY <1>1, <1>3, <1>6, <1>7, <2>2 DEF OneOwner
<1>9. SizesRight(b, w2, h2)
  <2>1. w.size = Len(old)
    <3>1. w.size = IF w.buffptr = NULL THEN 0 ELSE Len(h[w.buffptr])
      BY DEF MemoryOK, SizesRight, SizeRight
    <3> QED
      BY <3>1
  <2>2. SizeRight(w2, h2)
    BY <1>1, <1>4, <1>5, <1>6, <2>1 DEF SizeRight
  <2>3. ASSUME NEW i \in Index PROVE SizeRight(b.entry[i], h2)
    <3>1. SizeRight(b.entry[i], h)
      BY DEF MemoryOK, SizesRight
    <3>2. b.entry[i].buffptr # NULL => b.entry[i].buffptr \in stored
      BY DEF StoredPointers
    <3>3. b.entry[i].buffptr # NULL
            => h2[b.entry[i].buffptr] = h[b.entry[i].buffptr]
      BY <1>3, <1>5, <3>2
    <3> QED
      BY <3>1, <3>3 DEF SizeRight
  <2> QED
    BY <2>2, <2>3 DEF SizesRight
<1>10. NewlinesLast(b, w2, h2, l)
  <2>1. \A x \in stored : Whole(h2[x])
    BY <1>3, <1>5 DEF MemoryOK, NewlinesLast
  <2>2. ~EndsCommand(old)
    <3>1. CASE w.buffptr = NULL
      BY <3>1 DEF EndsCommand
    <3>2. CASE w.buffptr # NULL
      BY <3>2 DEF MemoryOK, NewlinesLast, StoringLabels
    <3> QED
      BY <3>1, <3>2
  <2>3. IF EndsCommand(data) THEN Whole(h2[ptr]) ELSE ~EndsCommand(h2[ptr])
    BY <1>5, <2>2, AppendMakesWhole
  <2> QED
    BY <1>6, <1>7, <2>1, <2>3 DEF NewlinesLast
<1>11. RingShape(b) /\ PointersDiffer(b)
  BY DEF MemoryOK
<1> QED
  BY <1>7, <1>8, <1>9, <1>10, <1>11 DEF MemoryOK, l
\* First half of add_entry.
LEMMA StoreKeepsMemory ==
  ASSUME NEW b \in RingsOver(Blocks), NEW w \in EntriesOver(Blocks), NEW h,
         MemoryOK(b, w, h, "w_store", NULL)
  PROVE  MemoryOK(StoreEntry(b, w), w, h, "w_advance", Overwritten(b))
<1> DEFINE stored == StoredPointers(b)
           c  == StoreEntry(b, w)
           ov == Overwritten(b)
<1>1. /\ {x \in Blocks : h[x] # FREE} = stored \cup {w.buffptr}
      /\ w.buffptr \notin stored /\ w.buffptr # NULL
  BY DEF MemoryOK, OneOwner, StoringLabels
<1>2. RingShape(b) /\ PointersDiffer(b)
  BY DEF MemoryOK
<1>3. StoredPointers(c) = (stored \ {ov}) \cup {w.buffptr} /\ PointersDiffer(c)
  BY <1>1, <1>2, StoreSwapsPointers
<1>4. ov \in stored \cup {NULL}
  <2>1. ov = b.entry[b.in_offs].buffptr /\ b.in_offs \in Index
    BY <1>2, OverwrittenIsAtIn DEF RingsOver
  <2> QED
    BY <2>1 DEF StoredPointers
<1>5. \A i \in Index : c.entry[i] = IF i = b.in_offs THEN w ELSE b.entry[i]
  BY DEF StoreEntry, RingsOver
<1>6. RingShape(AdvanceOut(c))
  BY <1>1, <1>2, AddKeepsShape
<1> HIDE DEF c, ov
<1>7. OneOwner(c, w, h, "w_advance", ov)
  <2>1. NULL \notin stored
    BY DEF StoredPointers
  <2> HIDE DEF stored
  <2>2. {x \in Blocks : h[x] # FREE}
          = StoredPointers(c) \cup ({w.buffptr} \ {NULL}) \cup ({ov} \ {NULL})
    BY <1>1, <1>3, <1>4, <2>1
  <2>3. ({ov} \ {NULL}) \cap (StoredPointers(c) \cup ({w.buffptr} \ {NULL})) = {}
    BY <1>1, <1>3, <1>4
  <2> QED
    BY <1>1, <1>3, <2>2, <2>3 DEF OneOwner
<1>8. SizesRight(c, w, h)
  BY <1>5 DEF MemoryOK, SizesRight
<1>9. NewlinesLast(c, w, h, "w_advance")
  BY <1>1, <1>3 DEF MemoryOK, NewlinesLast, StoringLabels
<1>10. MemoryOK(c, w, h, "w_advance", ov)
  BY <1>3, <1>6, <1>7, <1>8, <1>9 DEF MemoryOK
<1> QED
  BY <1>10 DEF c, ov

\* Second half.
LEMMA AdvanceKeepsMemory ==
  ASSUME NEW b, NEW w, NEW h, NEW ov, MemoryOK(b, w, h, "w_advance", ov)
  PROVE  MemoryOK(AdvanceOut(b), w, h, "w_reclaim", ov)
<1> DEFINE c == AdvanceOut(b)
<1>1. /\ c.entry = b.entry /\ StoredPointers(c) = StoredPointers(b)
      /\ PointersDiffer(c) <=> PointersDiffer(b)
  BY AdvanceKeepsEntries
<1>2. RingShape(c)
  BY DEF MemoryOK
<1> HIDE DEF c
<1>3. MemoryOK(c, w, h, "w_reclaim", ov)
  BY <1>1, <1>2 DEF MemoryOK, OneOwner, SizesRight, NewlinesLast, StoringLabels
<1> QED
  BY <1>3 DEF c

\* kfree of what was overwritten; the working entry starts anew.
LEMMA ReclaimKeepsMemory ==
  ASSUME NEW b \in RingsOver(Blocks), NEW w, NEW h, NEW ov,
         MemoryOK(b, w, h, "w_reclaim", ov),
         NEW h2, h2 = [x \in Blocks |-> IF x = ov THEN FREE ELSE h[x]]
  PROVE  MemoryOK(b, EmptyEntry, h2, "idle", NULL)
<1> DEFINE stored == StoredPointers(b)
<1>1. /\ {x \in Blocks : h[x] # FREE} = stored \cup {w.buffptr} \cup ({ov} \ {NULL})
      /\ ov \notin stored \/ ov = NULL
      /\ w.buffptr \in stored
  BY DEF MemoryOK, OneOwner, StoringLabels
<1>2. NULL \notin stored /\ stored \subseteq Blocks /\ NULL \notin Blocks
  BY <1>1, DriverAssumption DEF StoredPointers
<1>3. \A x \in stored : x # ov /\ h2[x] = h[x]
  BY <1>1, <1>2
<1>4. {x \in Blocks : h2[x] # FREE} = stored
  BY <1>1, <1>2, <1>3
<1>5. OneOwner(b, EmptyEntry, h2, "idle", NULL)
  BY <1>2, <1>4 DEF OneOwner, EmptyEntry, StoringLabels
<1>6. SizesRight(b, EmptyEntry, h2)
  <2>1. SizeRight(EmptyEntry, h2)
    BY DEF SizeRight, EmptyEntry
  <2>2. ASSUME NEW i \in Index PROVE SizeRight(b.entry[i], h2)
    <3>1. SizeRight(b.entry[i], h)
      BY DEF MemoryOK, SizesRight
    <3>2. b.entry[i].buffptr # NULL => b.entry[i].buffptr \in stored
      BY DEF StoredPointers
    <3> QED
      BY <1>3, <3>1, <3>2 DEF SizeRight
  <2> QED
    BY <2>1, <2>2 DEF SizesRight
<1>7. NewlinesLast(b, EmptyEntry, h2, "idle")
  BY <1>3 DEF MemoryOK, NewlinesLast, EmptyEntry
<1> QED
  BY <1>5, <1>6, <1>7 DEF MemoryOK

\* insmod finds nothing allocated.
LEMMA EmptyMemory ==
  ASSUME NEW h, {x \in Blocks : h[x] # FREE} = {}
  PROVE  MemoryOK(InitBuffer, EmptyEntry, h, "idle", NULL)
<1>1. RingShape(InitBuffer) /\ StoredPointers(InitBuffer) = {} /\ PointersDiffer(InitBuffer)
  BY EmptyRingShape
<1>2. SizesRight(InitBuffer, EmptyEntry, h)
  BY DEF SizesRight, SizeRight, InitBuffer, EmptyEntry
<1> QED
  BY <1>1, <1>2 DEF MemoryOK, OneOwner, NewlinesLast, EmptyEntry, StoringLabels
-----------------------------------------------------------------------------
\* The invariant: at every stage of a commit the memory is as above.

MemoryInv ==
  Sound /\ loaded =>
    /\ (\A p \in Procs : pc[p] \notin StoringLabels)
         => MemoryOK(circ_buf, working, heap, "idle", NULL)
    /\ \A p \in Procs : pc[p] \in StoringLabels
         => MemoryOK(circ_buf, working, heap, pc[p],
                     IF pc[p] = "w_store" THEN NULL ELSE arg[p].overwritten)

\* What a writer is about to append is what the driver takes of what it was
\* given to write.
Taken(data) == \E bytes \in Payloads : data = Accepted(bytes)

TakenIsAccepted ==
  \A p \in Procs : pc[p] \in {"w_lock", "w_append"} => Taken(arg[p].data)

\* No command is stored whose block a failed krealloc has freed.
FreedIsNotStored ==
  ~stolen /\ ~ub /\ loaded /\ Freed(working.buffptr)
    => \A p \in Procs : pc[p] \notin StoringLabels

\* The entry a reader is about to copy is still the one its position is in.
AtItsEntry(p) ==
  /\ arg[p].entry = FindEntryOffsetForFpos(circ_buf, f_pos[p])
  /\ arg[p].entry.found /\ Found(p).buffptr # NULL

ReadersAtEntries ==
  Sound /\ loaded => \A p \in Procs : pc[p] = "r_copy" => AtItsEntry(p)

\* A system that uses freed memory was spoiled before.
SpoiledFirst == ub => stolen \/ (loaded /\ Freed(working.buffptr))

DriverInv ==
  /\ TypeInv
  /\ MemoryInv /\ TakenIsAccepted /\ FreedIsNotStored
  /\ ReadersAtEntries /\ NoBlockOutlivesModule
  /\ SpoiledFirst

\* Whoever is inside while no lock has been stolen is there alone.
LEMMA Alone ==
  ASSUME LockInv, ~stolen, NEW p \in Procs, Critical(p)
  PROVE  \A q \in Procs : q # p => pc[q] \notin CriticalLabels
BY DEF LockInv, LockDiscipline, Critical

\* Before insmod.
LEMMA DriverInvInit ==
  ASSUME Init
  PROVE  DriverInv
<1>1. TypeInv
  BY TypeInvInit
<1>2. /\ loaded = FALSE /\ ub = FALSE /\ \A b \in Blocks : heap[b] = FREE
      /\ \A p \in Procs : pc[p] = "idle"
  BY DEF Init
<1>3. Allocated = {}
  BY <1>2 DEF Allocated
<1> QED
  BY <1>1, <1>2, <1>3 DEF DriverInv, MemoryInv, TakenIsAccepted, FreedIsNotStored,
     ReadersAtEntries, NoBlockOutlivesModule, SpoiledFirst

\* A step of a call that leaves the device alone, outside a commit.
LEMMA CallKeepsDriver ==
  ASSUME DriverInv, TypeInv', NEW p \in Procs, NEW l,
         UNCHANGED <<device, loaded, ub>>, ~ub, stolen => stolen',
         pc[p] \notin StoringLabels, l \notin StoringLabels,
         pc' = [pc EXCEPT ![p] = l],
         \A q \in Procs : q # p => arg'[q] = arg[q] /\ f_pos'[q] = f_pos[q],
         l \in {"w_lock", "w_append"} => Taken(arg'[p].data),
         l = "r_copy" /\ Sound /\ loaded => AtItsEntry(p)'
  PROVE  DriverInv'
<1>1. pc \in [Procs -> Labels]
  BY DEF DriverInv, TypeInv, LockInv, ControlTypeOK
<1>2. /\ circ_buf' = circ_buf /\ working' = working /\ heap' = heap
      /\ loaded' = loaded /\ ub' = ub
  BY DEF device
<1>3. Sound' => Sound
  BY <1>2 DEF Sound, Freed
<1>4. \A q \in Procs : pc'[q] \in StoringLabels <=> pc[q] \in StoringLabels
  BY <1>1
<1>5. \A q \in Procs : pc[q] \in StoringLabels => pc'[q] = pc[q] /\ arg'[q] = arg[q]
  BY <1>1
<1>6. MemoryInv'
  <2> SUFFICES ASSUME Sound', loaded'
      PROVE  /\ (\A q \in Procs : pc'[q] \notin StoringLabels)
                  => MemoryOK(circ_buf, working, heap, "idle", NULL)
             /\ \A q \in Procs : pc'[q] \in StoringLabels
                  => MemoryOK(circ_buf, working, heap, pc'[q],
                       IF pc'[q] = "w_store" THEN NULL ELSE arg'[q].overwritten)
    BY <1>2 DEF MemoryInv
  <2> QED
    BY <1>2, <1>3, <1>4, <1>5 DEF DriverInv, MemoryInv
<1>7. TakenIsAccepted'
  BY <1>1 DEF DriverInv, TakenIsAccepted
<1>8. FreedIsNotStored'
  BY <1>2, <1>4 DEF DriverInv, FreedIsNotStored, Freed
<1>9. ReadersAtEntries'
  <2> SUFFICES ASSUME Sound', loaded', NEW q \in Procs, pc'[q] = "r_copy"
               PROVE  AtItsEntry(q)'
    BY DEF ReadersAtEntries
  <2>1. CASE q = p
    BY <1>1, <1>2, <1>3, <2>1
  <2>2. CASE q # p
    <3>1. pc[q] = "r_copy" /\ arg'[q] = arg[q] /\ f_pos'[q] = f_pos[q]
      BY <1>1, <2>2
    <3>2. AtItsEntry(q)
      BY <1>2, <1>3, <3>1 DEF DriverInv, ReadersAtEntries
    <3> QED
      BY <1>2, <3>1, <3>2 DEF AtItsEntry, Found
  <2> QED
    BY <2>1, <2>2
<1>10. NoBlockOutlivesModule'
  BY <1>2, <1>3 DEF DriverInv, NoBlockOutlivesModule, Allocated
<1>11. SpoiledFirst'
  BY <1>2 DEF SpoiledFirst
<1> QED
  BY <1>6, <1>7, <1>8, <1>9, <1>10, <1>11 DEF DriverInv
\* A step of a writer under the lock.
LEMMA WriterKeepsDriver ==
  ASSUME DriverInv, TypeInv', NEW p \in Procs, NEW l,
         pc[p] \in CriticalLabels, pc' = [pc EXCEPT ![p] = l],
         l \notin {"w_lock", "w_append", "r_copy"},
         UNCHANGED <<loaded, ub, stolen>>, ~ub,
         \A q \in Procs : q # p => arg'[q] = arg[q],
         ~stolen /\ l \in StoringLabels => ~Freed(working.buffptr)',
         Sound' => MemoryOK(circ_buf', working', heap',
                            IF l \in StoringLabels THEN l ELSE "idle",
                            IF l \in {"w_advance", "w_reclaim"}
                            THEN arg'[p].overwritten ELSE NULL)
  PROVE  DriverInv'
<1>1. pc \in [Procs -> Labels] /\ LockInv
  BY DEF DriverInv, TypeInv, LockInv, ControlTypeOK
<1>2. loaded /\ loaded'
  BY <1>1, InsideIsOpen DEF LockInv, NobodyInside, CriticalLabels
<1>3. ASSUME ~stolen, NEW q \in Procs, q # p
      PROVE  pc'[q] = pc[q] /\ pc[q] \notin StoringLabels /\ pc[q] # "r_copy"
  <2>1. pc[q] \notin CriticalLabels
    BY <1>1, <1>3, Alone DEF Critical
  <2> QED
    BY <1>1, <1>3, <2>1 DEF StoringLabels, CriticalLabels
<1>4. pc'[p] = l
  BY <1>1
<1>5. MemoryInv'
  <2> SUFFICES ASSUME Sound'
      PROVE  /\ (\A q \in Procs : pc'[q] \notin StoringLabels)
                  => MemoryOK(circ_buf', working', heap', "idle", NULL)
             /\ \A q \in Procs : pc'[q] \in StoringLabels
                  => MemoryOK(circ_buf', working', heap', pc'[q],
                       IF pc'[q] = "w_store" THEN NULL ELSE arg'[q].overwritten)
    BY DEF MemoryInv
  <2>1. ~stolen
    BY DEF Sound
  <2>2. CASE l \in StoringLabels
    <3>1. \A q \in Procs : pc'[q] \in StoringLabels => q = p
      BY <1>3, <2>1
    <3>2. MemoryOK(circ_buf', working', heap', l,
                   IF l = "w_store" THEN NULL ELSE arg'[p].overwritten)
      BY <2>2 DEF StoringLabels
    <3> QED
      BY <1>4, <2>2, <3>1, <3>2
  <2>3. CASE l \notin StoringLabels
    <3>1. \A q \in Procs : pc'[q] \notin StoringLabels
      BY <1>3, <1>4, <2>1, <2>3
    <3>2. MemoryOK(circ_buf', working', heap', "idle", NULL)
      BY <2>3 DEF StoringLabels
    <3> QED
      BY <3>1, <3>2
  <2> QED
    BY <2>2, <2>3
<1>6. TakenIsAccepted'
  <2>1. ASSUME NEW q \in Procs, pc'[q] \in {"w_lock", "w_append"}
        PROVE  Taken(arg'[q].data)
    <3>1. q # p /\ pc[q] = pc'[q] /\ arg'[q] = arg[q]
      BY <1>1, <2>1
    <3> QED
      BY <2>1, <3>1 DEF DriverInv, TakenIsAccepted
  <2> QED
    BY <2>1 DEF TakenIsAccepted
<1>7. FreedIsNotStored'
  BY <1>3, <1>4 DEF FreedIsNotStored
<1>8. ReadersAtEntries'
  <2>1. ASSUME ~stolen, NEW q \in Procs PROVE pc'[q] # "r_copy"
    BY <1>3, <1>4, <2>1
  <2> QED
    BY <2>1 DEF ReadersAtEntries, Sound
<1>9. NoBlockOutlivesModule' /\ SpoiledFirst'
  BY <1>2 DEF NoBlockOutlivesModule, SpoiledFirst
<1> QED
  BY <1>5, <1>6, <1>7, <1>8, <1>9 DEF DriverInv

\* What a writer finds while the device is sound.
LEMMA WriterFinds ==
  ASSUME DriverInv, Sound, NEW p \in Procs, pc[p] \in CriticalLabels
  PROVE  IF pc[p] \in StoringLabels
         THEN MemoryOK(circ_buf, working, heap, pc[p],
                       IF pc[p] = "w_store" THEN NULL ELSE arg[p].overwritten)
         ELSE MemoryOK(circ_buf, working, heap, "idle", NULL)
<1>1. loaded /\ ~stolen /\ LockInv
  BY InsideIsOpen DEF DriverInv, TypeInv, LockInv, NobodyInside, CriticalLabels, Sound
<1>2. CASE pc[p] \in StoringLabels
  BY <1>1, <1>2 DEF DriverInv, MemoryInv
<1>3. CASE pc[p] \notin StoringLabels
  <2>1. \A q \in Procs : pc[q] \notin StoringLabels
    <3>1. \A q \in Procs : q # p => pc[q] \notin CriticalLabels
      BY <1>1, Alone DEF Critical
    <3> QED
      BY <1>3, <3>1 DEF StoringLabels, CriticalLabels
  <2> QED
    BY <1>1, <1>3, <2>1 DEF DriverInv, MemoryInv
<1> QED
  BY <1>2, <1>3

\* krealloc and memcpy: the block grows in place or moves, and the old one
\* goes.
LEMMA AppendKeepsDriver ==
  ASSUME DriverInv, TypeInv', ~ub, NEW p \in Procs, WriteAppend(p)
  PROVE  DriverInv'
<1>1. /\ circ_buf \in RingsOver(Blocks) /\ working \in EntriesOver(Blocks)
      /\ heap \in Heaps /\ ArgsTyped
  BY DEF DriverInv, TypeInv, DataTypeOK
<1> DEFINE data == arg[p].data
           ptr  == working'.buffptr
           old  == IF working.buffptr # NULL THEN heap[ptr] ELSE <<>>
           l    == IF EndsCommand(data) THEN "w_store" ELSE "unlock"
<1>2. /\ pc[p] = "w_append" /\ ~Freed(working.buffptr)
      /\ pc' = [pc EXCEPT ![p] = l]
      /\ UNCHANGED <<loaded, circ_buf, arg, stolen, ub>>
  BY DEF WriteAppend, At, Goto, hist
<1>3. data \in Seq(Bytes) /\ NewlineLast(data)
  <2>1. arg[p] \in WriteArgs /\ Taken(data)
    BY <1>1, <1>2 DEF ArgsTyped, ArgsAt, DriverInv, TakenIsAccepted
  <2> QED
    BY <2>1, AcceptedBytes DEF Taken, WriteArgs
<1>4. /\ heap' = [heap EXCEPT ![ptr] = old \o data]
      /\ working' = [buffptr |-> ptr, size |-> working.size + Len(data)]
  BY DEF WriteAppend
<1>5. /\ ptr \in Blocks /\ old \in Seq(Bytes)
      /\ IF working.buffptr = NULL THEN heap[ptr] = FREE /\ old = <<>>
         ELSE ptr = working.buffptr /\ old = heap[ptr]
  <2>1. CASE working.buffptr = NULL
    <3> DEFINE q == CHOOSE b \in Blocks : heap[b] = FREE
    <3>1. ptr = q /\ \E b \in Blocks : heap[b] = FREE
      BY <2>1 DEF WriteAppend
    <3>2. q \in Blocks /\ heap[q] = FREE
      BY <3>1
    <3>3. old = <<>> /\ <<>> \in Seq(Bytes)
      BY <2>1
    <3> QED
      BY <2>1, <3>1, <3>2, <3>3
  <2>2. CASE working.buffptr # NULL
    <3>1. ptr = working.buffptr
      BY <2>2 DEF WriteAppend
    <3>2. ptr \in Blocks /\ heap[ptr] \in Seq(Bytes)
      BY <1>1, <1>2, <2>2, <3>1 DEF Freed, EntriesOver, Heaps
    <3> QED
      BY <2>2, <3>1, <3>2
  <2> QED
    BY <2>1, <2>2
<1> HIDE DEF data, ptr, old
<1>6. heap'[ptr] = old \o data /\ old \o data \in Seq(Bytes) /\ working'.buffptr = ptr
  BY <1>1, <1>3, <1>4, <1>5 DEF Heaps
<1>7. ~Freed(working.buffptr)'
  BY <1>6, DriverAssumption DEF Freed
<1>8. ASSUME Sound'
      PROVE  MemoryOK(circ_buf', working', heap',
                      IF EndsCommand(data) THEN "w_store" ELSE "idle", NULL)
  <2>1. Sound
    BY <1>2, <1>8 DEF Sound
  <2>2. MemoryOK(circ_buf, working, heap, "idle", NULL)
    BY <1>2, <2>1, WriterFinds DEF StoringLabels, CriticalLabels
  <2>3. MemoryOK(circ_buf, working', heap',
                 IF EndsCommand(data) THEN "w_store" ELSE "idle", NULL)
    BY <1>1, <1>3, <1>4, <1>5, <2>2, AppendKeepsMemory
  <2> QED
    BY <1>2, <2>3
<1>9. /\ l \in StoringLabels <=> EndsCommand(data)
      /\ l \notin {"w_lock", "w_append", "r_copy", "w_advance", "w_reclaim"}
      /\ EndsCommand(data) => l = "w_store"
      /\ "w_append" \in CriticalLabels
  BY DEF StoringLabels, CriticalLabels
<1> HIDE DEF l
<1> QED
  BY <1>2, <1>7, <1>8, <1>9, WriterKeepsDriver

\* krealloc failed: the device is spoiled if there was a working entry.
LEMMA AppendFailsKeepsDriver ==
  ASSUME DriverInv, TypeInv', ~ub, NEW p \in Procs, WriteAppendFails(p)
  PROVE  DriverInv'
<1>1. working \in EntriesOver(Blocks) /\ heap \in Heaps /\ NULL \notin Blocks
  BY DriverAssumption DEF DriverInv, TypeInv, DataTypeOK
<1>2. /\ pc[p] = "w_append" /\ ~Freed(working.buffptr)
      /\ pc' = [pc EXCEPT ![p] = "unlock"]
      /\ heap' = [b \in Blocks |-> IF b = working.buffptr THEN FREE ELSE heap[b]]
      /\ UNCHANGED <<loaded, circ_buf, working, arg, stolen, ub>>
  BY DEF WriteAppendFails, At, Goto, Kfree, hist
<1>3. loaded
  BY <1>2, InsideIsOpen DEF DriverInv, TypeInv, LockInv, NobodyInside
<1>4. ASSUME Sound' PROVE MemoryOK(circ_buf', working', heap', "idle", NULL)
  <2>1. working.buffptr = NULL
    BY <1>1, <1>2, <1>3, <1>4 DEF Sound, Freed, EntriesOver
  <2>2. heap' = heap
    BY <1>1, <1>2, <2>1 DEF Heaps
  <2>3. Sound
    BY <1>2, <1>4 DEF Sound
  <2>4. MemoryOK(circ_buf, working, heap, "idle", NULL)
    BY <1>2, <2>3, WriterFinds DEF StoringLabels, CriticalLabels
  <2> QED
    BY <1>2, <2>2, <2>4
<1>5. "unlock" \notin StoringLabels /\ "w_append" \in CriticalLabels
  BY DEF StoringLabels, CriticalLabels
<1> QED
  BY <1>2, <1>4, <1>5, WriterKeepsDriver
\* A writer that commits is not spoiled.
LEMMA StoringIsSound ==
  ASSUME DriverInv, ~ub, ~stolen, NEW p \in Procs, pc[p] \in StoringLabels
  PROVE  Sound
BY DEF DriverInv, FreedIsNotStored, Sound

\* The first half of add_entry: the slot takes the working entry's pointer.
LEMMA StoreKeepsDriver ==
  ASSUME DriverInv, TypeInv', ~ub, NEW p \in Procs, WriteStore(p)
  PROVE  DriverInv'
<1>1. /\ circ_buf \in RingsOver(Blocks) /\ working \in EntriesOver(Blocks)
      /\ ArgsTyped
  BY DEF DriverInv, TypeInv, DataTypeOK
<1>2. /\ pc[p] = "w_store" /\ pc' = [pc EXCEPT ![p] = "w_advance"]
      /\ arg' = [arg EXCEPT ![p] = [arg[p] EXCEPT !.overwritten = Overwritten(circ_buf)]]
      /\ circ_buf' = StoreEntry(circ_buf, working)
      /\ UNCHANGED <<loaded, working, heap, stolen, ub>>
  BY DEF WriteStore, At, Goto, SetArg, hist
<1>3. "w_store" \in StoringLabels /\ "w_store" \in CriticalLabels
      /\ "w_advance" \in StoringLabels
  BY DEF StoringLabels, CriticalLabels
<1>4. arg'[p].overwritten = Overwritten(circ_buf)
      /\ \A q \in Procs : q # p => arg'[q] = arg[q]
  <2>1. arg[p] \in WriteArgs
    BY <1>1, <1>2 DEF ArgsTyped, ArgsAt
  <2> QED
    BY <1>1, <1>2, <2>1 DEF ArgsTyped, WriteArgs
<1>5. ~stolen => Sound
  BY <1>2, <1>3, StoringIsSound
<1>6. ~stolen => ~Freed(working.buffptr)'
  <2>1. loaded
    BY <1>2, InsideIsOpen DEF DriverInv, TypeInv, LockInv, NobodyInside
  <2> QED
    BY <1>2, <1>5, <2>1 DEF Sound, Freed
<1>7. Sound' => MemoryOK(circ_buf', working', heap', "w_advance", arg'[p].overwritten)
  <2> SUFFICES ASSUME ~stolen
               PROVE  MemoryOK(circ_buf', working', heap', "w_advance", arg'[p].overwritten)
    BY <1>2 DEF Sound
  <2>1. MemoryOK(circ_buf, working, heap, "w_store", NULL)
    BY <1>2, <1>3, <1>5, WriterFinds
  <2> QED
    BY <1>1, <1>2, <1>4, <2>1, StoreKeepsMemory
<1> QED
  BY <1>2, <1>3, <1>4, <1>6, <1>7, WriterKeepsDriver

\* The second half: in_offs, out_offs and full move on.
LEMMA AdvanceKeepsDriver ==
  ASSUME DriverInv, TypeInv', ~ub, NEW p \in Procs, WriteAdvance(p)
  PROVE  DriverInv'
<1>1. /\ pc[p] = "w_advance" /\ pc' = [pc EXCEPT ![p] = "w_reclaim"]
      /\ circ_buf' = AdvanceOut(circ_buf)
      /\ UNCHANGED <<loaded, working, heap, arg, stolen, ub>>
  BY DEF WriteAdvance, At, Goto
<1>2. "w_advance" \in StoringLabels /\ "w_advance" \in CriticalLabels
      /\ "w_reclaim" \in StoringLabels
  BY DEF StoringLabels, CriticalLabels
<1>3. ~stolen => Sound
  BY <1>1, <1>2, StoringIsSound
<1>4. ~stolen => ~Freed(working.buffptr)'
  <2>1. loaded
    BY <1>1, InsideIsOpen DEF DriverInv, TypeInv, LockInv, NobodyInside
  <2> QED
    BY <1>1, <1>3, <2>1 DEF Sound, Freed
<1>5. Sound' => MemoryOK(circ_buf', working', heap', "w_reclaim", arg'[p].overwritten)
  <2> SUFFICES ASSUME ~stolen
               PROVE  MemoryOK(circ_buf', working', heap', "w_reclaim", arg'[p].overwritten)
    BY <1>1 DEF Sound
  <2>1. MemoryOK(circ_buf, working, heap, "w_advance", arg[p].overwritten)
    BY <1>1, <1>2, <1>3, WriterFinds
  <2> QED
    BY <1>1, <2>1, AdvanceKeepsMemory
<1> QED
  BY <1>1, <1>2, <1>4, <1>5, WriterKeepsDriver

\* The pointer that came back is freed and the working entry emptied.
LEMMA ReclaimKeepsDriver ==
  ASSUME DriverInv, TypeInv', ~ub, NEW p \in Procs, WriteReclaim(p)
  PROVE  DriverInv'
<1>1. /\ pc[p] = "w_reclaim" /\ pc' = [pc EXCEPT ![p] = "unlock"]
      /\ working' = EmptyEntry
      /\ heap' = [b \in Blocks |-> IF b = arg[p].overwritten THEN FREE ELSE heap[b]]
      /\ UNCHANGED <<loaded, circ_buf, arg, stolen, ub>>
  BY DEF WriteReclaim, At, Goto, Kfree, hist
<1>2. "w_reclaim" \in StoringLabels /\ "w_reclaim" \in CriticalLabels
      /\ "unlock" \notin StoringLabels
  BY DEF StoringLabels, CriticalLabels
<1>3. Sound' => MemoryOK(circ_buf', working', heap', "idle", NULL)
  <2> SUFFICES ASSUME ~stolen PROVE MemoryOK(circ_buf', working', heap', "idle", NULL)
    BY <1>1 DEF Sound
  <2>1. Sound
    BY <1>1, <1>2, StoringIsSound
  <2>2. MemoryOK(circ_buf, working, heap, "w_reclaim", arg[p].overwritten)
    BY <1>1, <1>2, <2>1, WriterFinds
  <2>3. circ_buf \in RingsOver(Blocks)
    BY DEF DriverInv, TypeInv, DataTypeOK
  <2> QED
    BY <1>1, <2>2, <2>3, ReclaimKeepsMemory
<1> QED
  BY <1>1, <1>2, <1>3, WriterKeepsDriver

\* What a reader found is there to be copied.
LEMMA ReadersReadable ==
  ASSUME DriverInv, Sound, NEW p \in Procs, pc[p] = "r_copy"
  PROVE  Readable(p)
<1>1. /\ circ_buf \in RingsOver(Blocks) /\ heap \in Heaps /\ f_pos[p] \in Nat
      /\ arg[p] \in ReadArgs
  BY DEF DriverInv, TypeInv, DataTypeOK, ArgsTyped, ArgsAt
<1>2. "r_copy" \in CriticalLabels /\ "r_copy" \notin StoringLabels
  BY DEF CriticalLabels, StoringLabels
<1>3. MemoryOK(circ_buf, working, heap, "idle", NULL)
  BY <1>2, WriterFinds
<1>4. loaded
  BY InsideIsOpen DEF DriverInv, TypeInv, LockInv, NobodyInside
<1>5. AtItsEntry(p)
  BY <1>4 DEF DriverInv, ReadersAtEntries
<1> DEFINE hit == arg[p].entry
<1>6. PICK k \in 0 .. Count(circ_buf) - 1 :
        /\ hit.index = Slot(circ_buf, k)
        /\ hit.offset = f_pos[p] - BytesSoFar(circ_buf, k)
        /\ BytesSoFar(circ_buf, k) <= f_pos[p]
        /\ f_pos[p] < BytesSoFar(circ_buf, k) + circ_buf.entry[Slot(circ_buf, k)].size
  BY <1>1, <1>5, FindStopsInside DEF AtItsEntry
<1>7. Count(circ_buf) \in Nat /\ k \in Nat
  BY <1>1, MaxWriteOpsAssumption DEF Count, RingsOver, Index
<1>8. hit.index \in Index /\ Found(p) = circ_buf.entry[hit.index]
  BY <1>1 DEF ReadArgs, Found
<1>9. hit.offset \in Nat /\ hit.offset < Found(p).size /\ Found(p).size \in Nat
  <2>1. BytesSoFar(circ_buf, k) \in Nat
    BY <1>1, <1>7, BytesSoFarStep
  <2>2. Found(p).size = circ_buf.entry[Slot(circ_buf, k)].size
    BY <1>6, <1>8
  <2>3. Found(p).size \in Nat /\ hit.offset \in Nat
    BY <1>1, <1>8 DEF ReadArgs, RingsOver, EntriesOver
  <2> QED
    BY <1>1, <1>6, <2>1, <2>2, <2>3
<1>10. /\ Found(p).buffptr # NULL
       /\ Found(p).buffptr \in StoredPointers(circ_buf)
       /\ Found(p).size = Len(heap[Found(p).buffptr])
  <2>1. Found(p).buffptr # NULL
    BY <1>5 DEF AtItsEntry
  <2>2. SizeRight(Found(p), heap)
    BY <1>3, <1>8 DEF MemoryOK, SizesRight
  <2> QED
    BY <1>8, <2>1, <2>2 DEF SizeRight, StoredPointers
<1>11. ~Freed(Found(p).buffptr)
  BY <1>3, <1>10 DEF MemoryOK, OneOwner, Freed
<1>12. arg[p].count \in Nat
  BY <1>1, DriverAssumption DEF ReadArgs
<1>13. Available(p) >= 0 /\ hit.offset + Available(p) <= Found(p).size
  <2>1. Available(p) = IF Found(p).size - hit.offset < arg[p].count
                       THEN Found(p).size - hit.offset ELSE arg[p].count
    BY DEF Available
  <2> HIDE DEF hit
  <2> QED
    BY <1>9, <1>12, <2>1
<1> QED
  BY <1>10, <1>11, <1>13 DEF Readable
\* With no file open every call has ended.
LEMMA NobodyStores ==
  ASSUME DriverInv, \A p \in Procs : ~open[p]
  PROVE  \A p \in Procs : pc[p] = "idle" /\ pc[p] \notin StoringLabels
BY DEF DriverInv, TypeInv, LockInv, NobodyInside, StoringLabels

\* rmmod finds every pointer once.
LEMMA CleanupIsSafe ==
  ASSUME DriverInv, Sound, loaded, \A p \in Procs : ~open[p]
  PROVE  /\ CleanupSafe
         /\ Allocated = CleanupFrees
<1>1. MemoryOK(circ_buf, working, heap, "idle", NULL)
  BY NobodyStores DEF DriverInv, MemoryInv
<1> QED
  BY <1>1 DEF MemoryOK, OneOwner, CleanupSafe, CleanupFrees, Allocated

\* Freed memory is used by a spoiled system only.
LEMMA MisuseKeepsDriver ==
  ASSUME DriverInv, ~ub, TypeInv',
         (\E p \in Procs : Misuse(p)) \/ CleanupMisuse
  PROVE  DriverInv'
<1>1. Undefined
  BY DEF Misuse, CleanupMisuse
<1>2. stolen \/ (loaded /\ Freed(working.buffptr))
  <2> SUFFICES ASSUME Sound PROVE FALSE
    BY DEF Sound
  <2>1. ASSUME NEW p \in Procs, Misuse(p) PROVE FALSE
    <3>1. loaded \/ pc[p] = "idle"
      BY DEF DriverInv, TypeInv, LockInv, NobodyInside
    <3>2. CASE pc[p] = "w_append"
      BY <2>1, <3>1, <3>2 DEF Misuse, At, Sound
    <3>3. CASE pc[p] = "w_reclaim"
      <4>1. MemoryOK(circ_buf, working, heap, "w_reclaim", arg[p].overwritten)
        BY <3>3, WriterFinds DEF StoringLabels, CriticalLabels
      <4>2. Freed(arg[p].overwritten)
        BY <2>1, <3>3 DEF Misuse, At
      <4>3. arg[p].overwritten \in Blocks
        BY <3>3, <4>2 DEF DriverInv, TypeInv, DataTypeOK, ArgsTyped, ArgsAt,
                          WriteArgs, Freed
      <4> QED
        BY <4>1, <4>2, <4>3 DEF MemoryOK, OneOwner, Freed
    <3>4. CASE pc[p] = "r_copy"
      BY <2>1, <3>4, ReadersReadable DEF Misuse, At
    <3> QED
      BY <2>1, <3>2, <3>3, <3>4 DEF Misuse, At
  <2>2. CASE CleanupMisuse
    BY <2>2, CleanupIsSafe DEF CleanupMisuse
  <2> QED
    BY <2>1, <2>2
<1>3. ub' /\ UNCHANGED <<stolen, loaded, heap, working, pc, arg>>
  BY <1>1 DEF Undefined, device
<1>4. ~Sound' /\ SpoiledFirst' /\ FreedIsNotStored'
  BY <1>2, <1>3 DEF Sound, SpoiledFirst, FreedIsNotStored, Freed
<1>5. TakenIsAccepted'
  BY <1>3 DEF DriverInv, TakenIsAccepted
<1> QED
  BY <1>4, <1>5 DEF DriverInv, MemoryInv, ReadersAtEntries, NoBlockOutlivesModule

\* insmod and rmmod.
LEMMA ModuleKeepsDriver ==
  ASSUME DriverInv, ~ub, TypeInv', InitModule \/ CleanupModule
  PROVE  DriverInv'
<1>1. UNCHANGED <<pc, arg, stolen, ub>>
  BY DEF InitModule, CleanupModule, hist
<1>2. \A p \in Procs : pc[p] = "idle"
  <2>1. \A p \in Procs : ~open[p]
    BY DEF InitModule, CleanupModule, DriverInv, TypeInv, LockInv, NobodyInside
  <2> QED
    BY <2>1, NobodyStores
<1>3. TakenIsAccepted' /\ FreedIsNotStored' /\ ReadersAtEntries' /\ SpoiledFirst'
  BY <1>1, <1>2 DEF TakenIsAccepted, FreedIsNotStored, ReadersAtEntries,
     SpoiledFirst, StoringLabels
<1>4. CASE InitModule
  <2>1. /\ ~loaded /\ circ_buf' = InitBuffer /\ working' = EmptyEntry
        /\ heap' = heap
    BY <1>4 DEF InitModule
  <2>2. Sound' => Sound
    BY <1>1, <2>1 DEF Sound
  <2>3. Sound => Allocated = {}
    BY <2>1 DEF DriverInv, NoBlockOutlivesModule
  <2>4. Sound => MemoryOK(InitBuffer, EmptyEntry, heap, "idle", NULL)
    BY <2>3, EmptyMemory DEF Allocated
  <2>5. MemoryInv'
    <3> SUFFICES ASSUME Sound'
        PROVE  /\ MemoryOK(circ_buf', working', heap', "idle", NULL)
               /\ \A p \in Procs : pc'[p] \notin StoringLabels
      BY DEF MemoryInv
    <3> QED
      BY <1>1, <1>2, <2>1, <2>2, <2>4 DEF StoringLabels
  <2>6. NoBlockOutlivesModule'
    BY <2>1, <2>2, <2>3 DEF NoBlockOutlivesModule, Allocated
  <2> QED
    BY <1>3, <2>5, <2>6 DEF DriverInv
<1>5. CASE CleanupModule
  <2>1. /\ loaded /\ loaded' = FALSE /\ (\A p \in Procs : ~open[p]) /\ CleanupSafe
        /\ heap' = [b \in Blocks |-> IF b \in CleanupFrees THEN FREE ELSE heap[b]]
    BY <1>5 DEF CleanupModule
  <2>2. ASSUME Sound' PROVE Sound
    <3>1. working.buffptr # NULL => working.buffptr \in CleanupFrees
      BY DEF CleanupFrees
    <3>2. ~Freed(working.buffptr)
      BY <2>1, <3>1 DEF CleanupSafe, Freed
    <3> QED
      BY <1>1, <2>2, <3>2 DEF Sound
  <2>3. NoBlockOutlivesModule'
    <3> SUFFICES ASSUME Sound', NEW b \in Blocks PROVE heap'[b] = FREE
      BY DEF NoBlockOutlivesModule, Allocated
    <3>1. Allocated = CleanupFrees
      BY <2>1, <2>2, CleanupIsSafe
    <3> QED
      BY <2>1, <3>1 DEF Allocated
  <2>4. MemoryInv'
    BY <2>1 DEF MemoryInv
  <2> QED
    BY <1>3, <2>3, <2>4 DEF DriverInv
<1> QED
  BY <1>4, <1>5
\* The step of a call that changes nothing but its own place, arguments and
\* position, and goes to no place where the invariant asks for more.
LEMMA PlainMove ==
  ASSUME DriverInv, ~ub, TypeInv', NEW p \in Procs, NEW l,
         l \notin StoringLabels \cup {"w_lock", "w_append", "r_copy"},
         pc[p] \notin StoringLabels,
         UNCHANGED <<device, loaded, ub>>, stolen => stolen',
         pc' = [pc EXCEPT ![p] = l],
         arg' = arg \/ \E a : arg' = [arg EXCEPT ![p] = a],
         f_pos' = f_pos \/ \E n : f_pos' = [f_pos EXCEPT ![p] = n]
  PROVE  DriverInv'
<1>1. DOMAIN arg = Procs /\ f_pos \in [Procs -> Nat]
  BY DEF DriverInv, TypeInv, DataTypeOK, ArgsTyped
<1>2. \A q \in Procs : q # p => arg'[q] = arg[q] /\ f_pos'[q] = f_pos[q]
  BY <1>1
<1> QED
  BY <1>2, CallKeepsDriver

\* The steps of all calls but those of a writer under the lock.
LEMMA CallsKeepDriver ==
  ASSUME DriverInv, ~ub, TypeInv', NEW p \in Procs,
         \/ Open(p) \/ Release(p) \/ BeginWriteFails(p) \/ BeginRead(p)
         \/ BeginLlseek(p) \/ BeginIoctl(p) \/ LockInterrupted(p)
         \/ WriteInterrupted(p) \/ Unlock(p) \/ ReadCopy(p) \/ Llseek(p)
         \/ IoctlFault(p) \/ IoctlIndex(p) \/ IoctlAccepts(p) \/ IoctlRejects(p)
         \/ IoctlSeek(p)
  PROVE  DriverInv'
<1>1. pc \in [Procs -> Labels] /\ f_pos \in [Procs -> Nat]
      /\ (~open[p] => pc[p] = "idle") /\ stolen \in BOOLEAN
  BY DEF DriverInv, TypeInv, DataTypeOK, LockInv, ControlTypeOK, NobodyInside
<1> USE DEF Goto, SetArg, Enter, Leave, At, file, hist
<1>2. CASE Open(p) \/ Release(p)
  <2>1. pc[p] = "idle" /\ pc' = [pc EXCEPT ![p] = "idle"]
    BY <1>1, <1>2 DEF Open, Release
  <2>2. /\ UNCHANGED <<device, loaded, ub, stolen, arg>>
        /\ f_pos' = f_pos \/ f_pos' = [f_pos EXCEPT ![p] = 0]
    BY <1>2 DEF Open, Release
  <2> QED
    BY <2>1, <2>2, PlainMove DEF StoringLabels
<1>3. CASE BeginWriteFails(p)
  <2>1. /\ pc[p] = "idle" /\ pc' = [pc EXCEPT ![p] = "w_fail"]
        /\ arg' = [arg EXCEPT ![p] = NoArg]
        /\ UNCHANGED <<device, loaded, ub, stolen, f_pos>>
    BY <1>3 DEF BeginWriteFails
  <2> QED
    BY <2>1, PlainMove DEF StoringLabels
<1>4. CASE BeginRead(p) \/ BeginLlseek(p) \/ BeginIoctl(p)
  <2>1. PICK l \in {"r_lock", "l_lock", "i_index"} : \E a : Enter(p, l, a)
    BY <1>4 DEF BeginRead, BeginLlseek, BeginIoctl
  <2>2. UNCHANGED <<device, loaded, ub, stolen, f_pos>>
    BY <1>4 DEF BeginRead, BeginLlseek, BeginIoctl
  <2> QED
    BY <2>1, <2>2, PlainMove DEF StoringLabels
<1>5. CASE LockInterrupted(p) \/ IoctlFault(p) \/ IoctlRejects(p)
  <2>1. /\ pc[p] \in {"r_lock", "l_lock", "i_lock", "i_index", "i_check"}
        /\ pc' = [pc EXCEPT ![p] = "idle"] /\ arg' = [arg EXCEPT ![p] = NoArg]
        /\ UNCHANGED <<device, loaded, ub, stolen, f_pos>>
    BY <1>5 DEF LockInterrupted, IoctlFault, IoctlRejects
  <2> QED
    BY <2>1, PlainMove DEF StoringLabels
<1>6. CASE WriteInterrupted(p)
  <2>1. /\ pc[p] = "w_lock" /\ pc' = [pc EXCEPT ![p] = "w_fail"]
        /\ arg' = [arg EXCEPT ![p] = NoArg]
        /\ UNCHANGED <<device, loaded, ub, stolen, f_pos>>
    BY <1>6 DEF WriteInterrupted
  <2> QED
    BY <2>1, PlainMove DEF StoringLabels
<1>7. CASE Unlock(p)
  <2>1. /\ pc[p] \in {"unlock", "w_fail"} /\ pc' = [pc EXCEPT ![p] = "idle"]
        /\ arg' = [arg EXCEPT ![p] = NoArg] /\ (stolen => stolen')
        /\ UNCHANGED <<device, loaded, ub, f_pos>>
    BY <1>7 DEF Unlock
  <2> QED
    BY <2>1, PlainMove DEF StoringLabels
<1>8. CASE ReadCopy(p) \/ Llseek(p) \/ IoctlSeek(p)
  <2>1. /\ pc[p] \in {"r_copy", "l_seek", "i_seek"}
        /\ pc' = [pc EXCEPT ![p] = "unlock"]
        /\ UNCHANGED <<device, loaded, ub, stolen, arg>>
    BY <1>8 DEF ReadCopy, Llseek, IoctlSeek
  <2>2. f_pos' = f_pos \/ \E n : f_pos' = [f_pos EXCEPT ![p] = n]
    BY <1>8 DEF ReadCopy, Llseek, IoctlSeek
  <2> QED
    BY <2>1, <2>2, PlainMove DEF StoringLabels
<1>9. CASE IoctlIndex(p) \/ IoctlAccepts(p)
  <2>1. /\ pc[p] \in {"i_index", "i_check"}
        /\ \E l \in {"i_check", "i_lock"} : pc' = [pc EXCEPT ![p] = l]
        /\ arg' = arg \/ \E a : arg' = [arg EXCEPT ![p] = a]
        /\ UNCHANGED <<device, loaded, ub, stolen, f_pos>>
    BY <1>9 DEF IoctlIndex, IoctlAccepts
  <2> QED
    BY <2>1, PlainMove DEF StoringLabels
<1> QED
  BY <1>2, <1>3, <1>4, <1>5, <1>6, <1>7, <1>8, <1>9

\* A write begins.
LEMMA BeginKeepsDriver ==
  ASSUME DriverInv, ~ub, TypeInv', NEW p \in Procs, BeginWrite(p)
  PROVE  DriverInv'
<1>1. PICK bytes \in Payloads :
        Enter(p, "w_lock", [data |-> Accepted(bytes), overwritten |-> NULL])
  BY DEF BeginWrite
<1>2. DOMAIN arg = Procs
  BY DEF DriverInv, TypeInv, DataTypeOK, ArgsTyped
<1>3. /\ pc[p] = "idle" /\ pc' = [pc EXCEPT ![p] = "w_lock"]
      /\ arg'[p].data = Accepted(bytes)
      /\ \A q \in Procs : q # p => arg'[q] = arg[q]
      /\ UNCHANGED <<device, loaded, ub, stolen, f_pos>>
  BY <1>1, <1>2 DEF BeginWrite, Enter, At, Goto, SetArg, file, hist
<1> QED
  BY <1>3, CallKeepsDriver DEF StoringLabels, Taken

\* A call gets the lock.
LEMMA TakeLockKeepsDriver ==
  ASSUME DriverInv, ~ub, TypeInv', NEW p \in Procs, TakeLock(p)
  PROVE  DriverInv'
<1> DEFINE l == AfterLock[pc[p]]
<1>1. /\ pc[p] \in {"w_lock", "r_lock", "l_lock", "i_lock"}
      /\ pc' = [pc EXCEPT ![p] = l]
      /\ UNCHANGED <<device, loaded, ub, stolen, arg, f_pos>>
  BY DEF TakeLock, AfterLock, Goto, file, hist
<1>2. l \notin StoringLabels \cup {"r_copy", "w_lock"} /\ pc[p] \notin StoringLabels
  BY <1>1 DEF AfterLock, StoringLabels
<1>3. l = "w_append" => Taken(arg'[p].data)
  BY <1>1 DEF AfterLock, DriverInv, TakenIsAccepted
<1> HIDE DEF l
<1> QED
  BY <1>1, <1>2, <1>3, CallKeepsDriver

\* A reader looks up its position.
LEMMA FindKeepsDriver ==
  ASSUME DriverInv, ~ub, TypeInv', NEW p \in Procs, ReadFind(p)
  PROVE  DriverInv'
<1> DEFINE hit == FindEntryOffsetForFpos(circ_buf, f_pos[p])
<1>1. arg[p] \in ReadArgs /\ DOMAIN arg = Procs
  BY DEF DriverInv, TypeInv, DataTypeOK, ArgsTyped, ReadFind, At, ArgsAt
<1>2. /\ pc[p] = "r_find" /\ UNCHANGED <<device, loaded, ub, stolen, f_pos>>
  BY DEF ReadFind, At, file, hist
<1>3. CASE hit.found /\ circ_buf.entry[hit.index].buffptr # NULL
  <2>1. /\ pc' = [pc EXCEPT ![p] = "r_copy"]
        /\ arg' = [arg EXCEPT ![p] = [arg[p] EXCEPT !.entry = hit]]
    BY <1>3 DEF ReadFind, Goto, SetArg
  <2>2. arg'[p].entry = hit /\ \A q \in Procs : q # p => arg'[q] = arg[q]
    BY <1>1, <2>1 DEF ReadArgs
  <2>3. circ_buf' = circ_buf
    BY <1>2 DEF device
  <2>4. AtItsEntry(p)'
    BY <1>2, <1>3, <2>2, <2>3 DEF AtItsEntry, Found
  <2> QED
    BY <1>2, <2>1, <2>2, <2>4, CallKeepsDriver DEF StoringLabels
<1>4. CASE ~(hit.found /\ circ_buf.entry[hit.index].buffptr # NULL)
  <2>1. pc' = [pc EXCEPT ![p] = "unlock"] /\ arg' = arg
    BY <1>4 DEF ReadFind, Goto
  <2> QED
    BY <1>2, <2>1, PlainMove DEF StoringLabels
<1> QED
  BY <1>3, <1>4

\* Every step keeps the invariant.
LEMMA NextKeepsDriver ==
  ASSUME DriverInv, [Next]_vars
  PROVE  DriverInv'
<1>1. TypeInv'
  BY NextKeepsTypes DEF DriverInv
<1>2. ASSUME ~ub, NEW p \in Procs, Begin(p) \/ Continue(p) \/ Interrupted(p)
      PROVE  DriverInv'
  BY <1>1, <1>2, CallsKeepDriver, BeginKeepsDriver, TakeLockKeepsDriver,
     FindKeepsDriver, AppendKeepsDriver, AppendFailsKeepsDriver, StoreKeepsDriver,
     AdvanceKeepsDriver, ReclaimKeepsDriver, MisuseKeepsDriver
     DEF Begin, Continue, Interrupted
<1>3. ASSUME ~ub, InitModule \/ CleanupModule \/ CleanupMisuse
      PROVE  DriverInv'
  BY <1>1, <1>3, ModuleKeepsDriver, MisuseKeepsDriver
<1>4. CASE UNCHANGED vars
  BY <1>1, <1>4
     DEF vars, device, file, hist, DriverInv, MemoryInv, TakenIsAccepted,
         FreedIsNotStored, ReadersAtEntries, AtItsEntry, Found,
         NoBlockOutlivesModule, Allocated, SpoiledFirst, Sound, Freed
<1> QED
  BY <1>2, <1>3, <1>4 DEF Next
-----------------------------------------------------------------------------
\* What the invariant says of the driver.

\* A commit is one process's.
LEMMA OneCommits ==
  ASSUME DriverInv, Sound, NEW p \in Procs, pc[p] \in StoringLabels
  PROVE  \A q \in Procs : pc[q] \in StoringLabels => q = p
<1>1. StoringLabels \subseteq CriticalLabels
  BY DEF StoringLabels, CriticalLabels
<1>2. LockInv /\ ~stolen
  BY DEF DriverInv, TypeInv, Sound
<1> QED
  BY <1>1, <1>2, Alone DEF Critical

\* The blocks leaving the ring are the one its only writer is about to free.
LEMMA LeavingIs ==
  ASSUME DriverInv, Sound
  PROVE  /\ \A p \in Procs : pc[p] \in {"w_advance", "w_reclaim"}
              => Leaving = {arg[p].overwritten} \ {NULL}
         /\ (\A p \in Procs : pc[p] \notin {"w_advance", "w_reclaim"}) => Leaving = {}
<1>1. ASSUME NEW p \in Procs, pc[p] \in {"w_advance", "w_reclaim"}
      PROVE  Leaving = {arg[p].overwritten} \ {NULL}
  <2>1. {q \in Procs : pc[q] \in {"w_advance", "w_reclaim"}} = {p}
    BY <1>1, OneCommits DEF StoringLabels
  <2> QED
    BY <2>1 DEF Leaving
<1>2. ASSUME \A p \in Procs : pc[p] \notin {"w_advance", "w_reclaim"} PROVE Leaving = {}
  BY <1>2 DEF Leaving
<1> QED
  BY <1>1, <1>2

\* The invariant by the commit's stages gives the owners of every block.
LEMMA MemoryIsOwned ==
  ASSUME DriverInv
  PROVE  Ownership
<1> SUFFICES ASSUME Sound, loaded
    PROVE  /\ Allocated = StoredPointers(circ_buf) \cup ({working.buffptr} \ {NULL})
                            \cup Leaving
           /\ Leaving \cap (StoredPointers(circ_buf) \cup ({working.buffptr} \ {NULL})) = {}
           /\ ({working.buffptr} \ {NULL}) \cap StoredPointers(circ_buf) # {}
                => Committing("w_advance") \/ Committing("w_reclaim")
           /\ PointersDiffer(circ_buf)
           /\ \A e \in {circ_buf.entry[i] : i \in Index} \cup {working} :
                e.size = IF e.buffptr = NULL THEN 0 ELSE Len(heap[e.buffptr])
  BY DEF Ownership
<1>1. ASSUME NEW stage, NEW leaving, MemoryOK(circ_buf, working, heap, stage, leaving),
             Leaving = {leaving} \ {NULL},
             stage \in {"w_advance", "w_reclaim"}
               => Committing("w_advance") \/ Committing("w_reclaim")
      PROVE  /\ Allocated = StoredPointers(circ_buf) \cup ({working.buffptr} \ {NULL})
                              \cup Leaving
             /\ Leaving \cap (StoredPointers(circ_buf) \cup ({working.buffptr} \ {NULL})) = {}
             /\ ({working.buffptr} \ {NULL}) \cap StoredPointers(circ_buf) # {}
                  => Committing("w_advance") \/ Committing("w_reclaim")
             /\ PointersDiffer(circ_buf)
             /\ \A e \in {circ_buf.entry[i] : i \in Index} \cup {working} :
                  e.size = IF e.buffptr = NULL THEN 0 ELSE Len(heap[e.buffptr])
  <2>1. OneOwner(circ_buf, working, heap, stage, leaving) /\ PointersDiffer(circ_buf)
        /\ SizesRight(circ_buf, working, heap)
    BY <1>1 DEF MemoryOK
  <2>2. \A e \in {circ_buf.entry[i] : i \in Index} \cup {working} : SizeRight(e, heap)
    BY <2>1 DEF SizesRight
  <2> QED
    BY <1>1, <2>1, <2>2 DEF OneOwner, Allocated, SizeRight
<1>2. CASE \E p \in Procs : pc[p] \in StoringLabels
  <2>1. PICK p \in Procs : pc[p] \in StoringLabels
    BY <1>2
  <2> DEFINE leaving == IF pc[p] = "w_store" THEN NULL ELSE arg[p].overwritten
  <2>2. MemoryOK(circ_buf, working, heap, pc[p], leaving)
    BY <2>1 DEF DriverInv, MemoryInv
  <2>3. Leaving = {leaving} \ {NULL}
    <3>1. CASE pc[p] = "w_store"
      <4>1. \A q \in Procs : pc[q] \notin {"w_advance", "w_reclaim"}
        BY <2>1, <3>1, OneCommits DEF StoringLabels
      <4> QED
        BY <3>1, <4>1, LeavingIs
    <3>2. CASE pc[p] # "w_store"
      BY <2>1, <3>2, LeavingIs DEF StoringLabels
    <3> QED
      BY <3>1, <3>2
  <2>4. pc[p] \in {"w_advance", "w_reclaim"}
          => Committing("w_advance") \/ Committing("w_reclaim")
    BY DEF Committing, At
  <2> HIDE DEF leaving
  <2> QED
    BY <1>1, <2>2, <2>3, <2>4
<1>3. CASE \A p \in Procs : pc[p] \notin StoringLabels
  <2>1. MemoryOK(circ_buf, working, heap, "idle", NULL)
    BY <1>3 DEF DriverInv, MemoryInv
  <2>2. Leaving = {NULL} \ {NULL}
    BY <1>3, LeavingIs DEF StoringLabels
  <2> QED
    BY <1>1, <2>1, <2>2
<1> QED
  BY <1>2, <1>3

\* Every allocated block has exactly one owner at every step of every
\* interleaving, and beside each pointer stands the size of its block, whatever
\* fails, until one of the two spoiling failures has happened.
THEOREM OneOwnerEach == Spec => []Ownership
BY DriverInvInit, NextKeepsDriver, MemoryIsOwned, PTL DEF Spec

\* rmmod frees everything a sound device has allocated.
THEOREM NothingIsLeftBehind == Spec => []NoBlockOutlivesModule
<1>1. DriverInv => NoBlockOutlivesModule
  BY DEF DriverInv
<1> QED
  BY <1>1, DriverInvInit, NextKeepsDriver, PTL DEF Spec

\* No freed block is ever used, freed again or read past its end, whatever
\* else fails, unless an unlock without the lock or a failed krealloc of a
\* growing command has spoiled the device before.
THEOREM MisuseNeedsSpoiling == Spec => []SpoiledFirst
<1>1. DriverInv => SpoiledFirst
  BY DEF DriverInv
<1> QED
  BY <1>1, DriverInvInit, NextKeepsDriver, PTL DEF Spec

-----------------------------------------------------------------------------

\* The ring a reader may be shown: with the command being stored in it.
LEMMA SettledRing ==
  ASSUME DriverInv, Sound, loaded
  PROVE  /\ Settled \in RingsOver(Blocks) /\ RingShape(Settled)
         /\ \A x \in StoredPointers(Settled) : Whole(heap[x])
<1>1. circ_buf \in RingsOver(Blocks) /\ working \in EntriesOver(Blocks)
  BY DEF DriverInv, TypeInv, DataTypeOK
<1>2. ASSUME NEW p \in Procs, pc[p] \in StoringLabels
      PROVE  /\ MemoryOK(circ_buf, working, heap, pc[p],
                         IF pc[p] = "w_store" THEN NULL ELSE arg[p].overwritten)
             /\ Committing("w_store") <=> pc[p] = "w_store"
             /\ Committing("w_advance") <=> pc[p] = "w_advance"
  <2>1. \A q \in Procs : pc[q] \in StoringLabels => q = p
    BY <1>2, OneCommits
  <2> QED
    BY <1>2, <2>1 DEF DriverInv, MemoryInv, Committing, At, StoringLabels
<1>3. CASE Committing("w_store")
  <2>1. PICK p \in Procs : pc[p] = "w_store"
    BY <1>3 DEF Committing, At
  <2>2. MemoryOK(circ_buf, working, heap, "w_store", NULL)
    BY <1>2, <2>1 DEF StoringLabels
  <2>3. Settled = AdvanceOut(StoreEntry(circ_buf, working))
    BY <1>3 DEF Settled, AddEntry
  <2> DEFINE c == StoreEntry(circ_buf, working)
  <2>4. c \in RingsOver(Blocks) /\ AdvanceOut(c) \in RingsOver(Blocks)
    BY <1>1, HalvesType
  <2>5. MemoryOK(c, working, heap, "w_advance", Overwritten(circ_buf))
    BY <1>1, <2>2, StoreKeepsMemory
  <2> HIDE DEF c
  <2>6. RingShape(AdvanceOut(c)) /\ \A x \in StoredPointers(c) : Whole(heap[x])
    BY <2>5 DEF MemoryOK, NewlinesLast
  <2>7. StoredPointers(AdvanceOut(c)) = StoredPointers(c)
    BY AdvanceKeepsEntries
  <2> QED
    BY <2>3, <2>4, <2>6, <2>7 DEF c
<1>4. CASE Committing("w_advance")
  <2>1. PICK p \in Procs : pc[p] = "w_advance"
    BY <1>4 DEF Committing, At
  <2>2. MemoryOK(circ_buf, working, heap, "w_advance", arg[p].overwritten)
        /\ ~Committing("w_store")
    BY <1>2, <2>1 DEF StoringLabels
  <2>3. Settled = AdvanceOut(circ_buf)
    BY <1>4, <2>2 DEF Settled
  <2>4. AdvanceOut(circ_buf) \in RingsOver(Blocks)
    BY <1>1, HalvesType
  <2>5. RingShape(AdvanceOut(circ_buf))
        /\ \A x \in StoredPointers(circ_buf) : Whole(heap[x])
    BY <2>2 DEF MemoryOK, NewlinesLast
  <2> QED
    BY <2>3, <2>4, <2>5, AdvanceKeepsEntries
<1>5. CASE ~Committing("w_store") /\ ~Committing("w_advance")
  <2>1. Settled = circ_buf
    BY <1>5 DEF Settled
  <2>2. RingShape(circ_buf) /\ \A x \in StoredPointers(circ_buf) : Whole(heap[x])
    <3>1. CASE \E p \in Procs : pc[p] \in StoringLabels
      <4>1. PICK p \in Procs : pc[p] \in StoringLabels
        BY <3>1
      <4>2. MemoryOK(circ_buf, working, heap, pc[p],
                     IF pc[p] = "w_store" THEN NULL ELSE arg[p].overwritten)
            /\ pc[p] # "w_advance"
        BY <1>2, <1>5, <4>1
      <4> QED
        BY <4>2 DEF MemoryOK, NewlinesLast
    <3>2. CASE \A p \in Procs : pc[p] \notin StoringLabels
      BY <3>2 DEF DriverInv, MemoryInv, MemoryOK, NewlinesLast
    <3> QED
      BY <3>1, <3>2
  <2> QED
    BY <1>1, <2>1, <2>2
<1> QED
  BY <1>3, <1>4, <1>5

\* The commands, each by its slot and its block.
LEMMA CommandsAre ==
  ASSUME DriverInv, Sound, loaded
  PROVE  /\ Count(Settled) \in Nat /\ DOMAIN Commands = 1 .. Count(Settled)
         /\ \A k \in 1 .. Count(Settled) :
              /\ Commands[k] = heap[Settled.entry[Slot(Settled, k - 1)].buffptr]
              /\ Settled.entry[Slot(Settled, k - 1)].buffptr \in StoredPointers(Settled)
              /\ Whole(Commands[k])
<1>1. /\ Settled \in RingsOver(Blocks) /\ RingShape(Settled)
      /\ \A x \in StoredPointers(Settled) : Whole(heap[x])
  BY SettledRing
<1> DEFINE b == Settled
<1>2. Commands = [k \in DOMAIN Window(b) |-> heap[Window(b)[k].buffptr]]
  BY DEF Commands
<1>3. Window(b) = [k \in 1 .. Count(b) |-> b.entry[Slot(b, k - 1)]]
  BY DEF Window
<1> HIDE DEF b
<1>4. Count(b) \in Nat
  BY <1>1, MaxWriteOpsAssumption DEF Count, RingsOver, Index, b
<1>5. ASSUME NEW k \in 1 .. Count(b)
      PROVE  /\ Commands[k] = heap[b.entry[Slot(b, k - 1)].buffptr]
             /\ b.entry[Slot(b, k - 1)].buffptr \in StoredPointers(b)
             /\ Whole(Commands[k])
  <2>1. Commands[k] = heap[b.entry[Slot(b, k - 1)].buffptr]
    BY <1>2, <1>3
  <2>2. k - 1 \in 0 .. Count(b) - 1
    BY <1>4
  <2>3. b.entry[Slot(b, k - 1)].buffptr \in StoredPointers(b)
    BY <1>1, <2>2, ValidHoldPointers DEF b
  <2> QED
    BY <1>1, <2>1, <2>3 DEF b
<1>6. DOMAIN Commands = 1 .. Count(b)
  BY <1>2, <1>3
<1> QED
  BY <1>4, <1>5, <1>6 DEF b

\* What is being typed has no newline.
LEMMA PartialHasNone ==
  ASSUME DriverInv, Sound
  PROVE  ~EndsCommand(Partial)
<1>1. ~EndsCommand(<<>>)
  BY DEF EndsCommand
<1>2. CASE Partial = <<>>
  BY <1>1, <1>2
<1>3. CASE Partial # <<>>
  <2>1. /\ loaded /\ working.buffptr # NULL /\ Partial = heap[working.buffptr]
        /\ ~Committing("w_store") /\ ~Committing("w_advance")
        /\ ~Committing("w_reclaim")
    BY <1>3 DEF Partial
  <2>2. \A p \in Procs : pc[p] \notin StoringLabels
    BY <2>1 DEF Committing, At, StoringLabels
  <2>3. MemoryOK(circ_buf, working, heap, "idle", NULL)
    BY <2>1, <2>2 DEF DriverInv, MemoryInv
  <2> QED
    BY <2>1, <2>3 DEF MemoryOK, NewlinesLast, StoringLabels
<1> QED
  BY <1>2, <1>3

\* Every kept command ends with its only newline and what is being typed has
\* none, however many writers deliver the pieces.
THEOREM WholeCommands == Spec => []CommandsAreWhole
<1>1. DriverInv => CommandsAreWhole
  <2> SUFFICES ASSUME DriverInv, Sound PROVE CommandsAreWhole
    BY DEF CommandsAreWhole
  <2>1. ASSUME NEW k \in DOMAIN Commands
        PROVE  {i \in DOMAIN Commands[k] : Commands[k][i] = Newline} = {Len(Commands[k])}
    <3>1. CASE loaded
      BY <2>1, <3>1, CommandsAre DEF Whole
    <3>2. CASE ~loaded
      BY <2>1, <3>2 DEF Commands
    <3> QED
      BY <3>1, <3>2
  <2> QED
    BY <2>1, PartialHasNone DEF CommandsAreWhole
<1> QED
  BY <1>1, DriverInvInit, NextKeepsDriver, PTL DEF Spec
-----------------------------------------------------------------------------
\* Systems in which nothing that spoils the device can fail.

WorkingIsThere == loaded => ~Freed(working.buffptr)

\* Without a failure of krealloc the working entry never points to a freed
\* block.
LEMMA WorkingStays ==
  ASSUME "krealloc" \notin Faults, TypeInv, WorkingIsThere, [Next]_vars
  PROVE  WorkingIsThere'
<1>1. CASE \E p \in Procs : WriteAppend(p)
  <2>1. PICK p \in Procs : WriteAppend(p)
    BY <1>1
  <2> DEFINE ptr == working'.buffptr
             old == IF working.buffptr # NULL THEN heap[ptr] ELSE <<>>
  <2>2. heap' = [heap EXCEPT ![ptr] = old \o arg[p].data]
    BY <2>1 DEF WriteAppend
  <2>3. old \in Seq(Bytes) /\ arg[p].data \in Seq(Bytes)
    <3>1. arg[p] \in WriteArgs
      BY <2>1 DEF WriteAppend, At, TypeInv, DataTypeOK, ArgsTyped, ArgsAt
    <3>2. CASE working.buffptr # NULL
      <4>1. ptr = working.buffptr /\ ~Freed(working.buffptr)
        BY <2>1, <3>2 DEF WriteAppend
      <4> QED
        BY <3>1, <3>2, <4>1 DEF Freed, TypeInv, DataTypeOK, EntriesOver, Heaps, WriteArgs
    <3>3. CASE working.buffptr = NULL
      BY <3>1, <3>3 DEF WriteArgs
    <3> QED
      BY <3>2, <3>3
  <2> HIDE DEF old, ptr
  <2>4. old \o arg[p].data \in Seq(Bytes) /\ heap \in Heaps
    BY <2>3 DEF TypeInv, DataTypeOK
  <2>5. heap'[ptr] # FREE \/ ptr \notin Blocks
    BY <2>2, <2>4, DriverAssumption DEF Heaps
  <2>6. ptr \in Blocks
    <3>1. CASE working.buffptr # NULL
      BY <2>1, <3>1 DEF WriteAppend, ptr, TypeInv, DataTypeOK, EntriesOver
    <3>2. CASE working.buffptr = NULL
      <4>1. /\ ptr = CHOOSE b \in Blocks : heap[b] = FREE
            /\ \E b \in Blocks : heap[b] = FREE
        BY <2>1, <3>2 DEF WriteAppend, ptr
      <4> QED
        BY <4>1
    <3> QED
      BY <3>1, <3>2
  <2> QED
    BY <2>5, <2>6 DEF WorkingIsThere, Freed, ptr
<1>2. CASE \E p \in Procs : WriteReclaim(p)
  BY <1>2 DEF WriteReclaim, WorkingIsThere, Freed, EmptyEntry
<1>3. CASE InitModule \/ CleanupModule
  BY <1>3 DEF InitModule, CleanupModule, WorkingIsThere, Freed, EmptyEntry
<1>4. ASSUME \/ UNCHANGED vars \/ CleanupMisuse
             \/ \E p \in Procs : /\ Begin(p) \/ Continue(p) \/ Interrupted(p)
                                 /\ ~WriteAppend(p) /\ ~WriteReclaim(p)
      PROVE  UNCHANGED <<loaded, working, heap>>
  BY <1>4
     DEF vars, device, Begin, Continue, Interrupted, CleanupMisuse, Misuse, Undefined,
         Open, Release, BeginWrite, BeginWriteFails, BeginRead, BeginLlseek,
         BeginIoctl, TakeLock, LockInterrupted, WriteInterrupted, Unlock,
         WriteAppendFails, WriteStore, WriteAdvance, ReadFind, ReadCopy, Llseek,
         IoctlFault, IoctlIndex, IoctlAccepts, IoctlRejects, IoctlSeek
<1> QED
  BY <1>1, <1>2, <1>3, <1>4 DEF Next, WorkingIsThere, Freed

\* Without a failure of krealloc, or of what aesd_write does before it has the
\* lock, no freed block is ever read, written or freed again: nothing else
\* that fails, and no interleaving, leads there.
THEOREM NoMisuseWithoutSpoiling ==
  ASSUME Faults \cap (EarlyFaults \cup {"krealloc"}) = {}
  PROVE  Spec => []NoUseAfterFree
<1>1. Faults \cap EarlyFaults = {} /\ "krealloc" \notin Faults
  BY DEF EarlyFaults
<1>2. Init => NoEarlyFailure /\ WorkingIsThere
  BY DEF Init, NoEarlyFailure, WorkingIsThere
<1>3. DriverInv /\ NoEarlyFailure /\ WorkingIsThere /\ [Next]_vars
        => NoEarlyFailure' /\ WorkingIsThere'
  BY <1>1, NoEarlyFailureStays, WorkingStays DEF DriverInv, TypeInv
<1>4. DriverInv /\ NoEarlyFailure /\ WorkingIsThere => NoUseAfterFree
  BY DEF DriverInv, SpoiledFirst, NoEarlyFailure, WorkingIsThere, NoUseAfterFree
<1> QED
  BY <1>2, <1>3, <1>4, DriverInvInit, NextKeepsDriver, PTL DEF Spec
=============================================================================
