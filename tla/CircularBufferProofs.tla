------------------------ MODULE CircularBufferProofs ------------------------
(***************************************************************************)
(* What the ring does for every number of slots, every set of blocks and   *)
(* every length of history.                                                *)
(***************************************************************************)
EXTENDS CircularBufferLog, RingLemmas, SequenceTheorems

USE MaxWriteOpsAssumption, CallerAssumption

\* When history and in_offs both grow by one, a slot keeps its place in the
\* history; the newest place is one behind in_offs, or a lap behind the wrap.
LEMMA PlacesStay ==
  \A n, x, y, m \in Int :
    /\ (n + 1) - (x + 1) + y + 1 - m = n - x + y + 1 - m
    /\ (n + 1) - (x + 1) + x + 1 = n + 1
    /\ x + 1 = m => (n + 1) - 0 + x + 1 - m = n + 1
OBVIOUS

\* The types of the four fields.
LEMMA FieldTypes ==
  ASSUME TypeOK
  PROVE  /\ buffer.entry \in [Index -> [buffptr : Ptrs \cup {NULL}, size : Nat]]
         /\ buffer.in_offs \in Index
         /\ buffer.out_offs \in Index
         /\ buffer.full \in BOOLEAN
BY DEF TypeOK, RingsOver, EntriesOver

\* add_entry, field by field, with the remainders worked out.
LEMMA AddEntryOffsets ==
  ASSUME TypeOK, NEW e \in Entries, Add(e)
  PROVE  /\ buffer'.in_offs = After(buffer.in_offs)
         /\ buffer'.out_offs = IF buffer.full THEN After(buffer.out_offs)
                               ELSE buffer.out_offs
         /\ buffer'.full \in BOOLEAN
         /\ buffer'.full <=> buffer'.in_offs = buffer'.out_offs
<1>1. (buffer.in_offs + 1) % MaxWriteOps = After(buffer.in_offs)
  BY WrapSuccessor, FieldTypes DEF After
<1>2. (buffer.out_offs + 1) % MaxWriteOps = After(buffer.out_offs)
  BY WrapSuccessor, FieldTypes DEF After
<1>3. buffer' = AdvanceOut(StoreEntry(buffer, e))
  BY DEF Add, AddEntry
<1> QED
  BY <1>1, <1>2, <1>3 DEF AdvanceOut, StoreEntry

\* add_entry writes the slot at in_offs and no other.
LEMMA AddEntryEntry ==
  ASSUME TypeOK, NEW e \in Entries, Add(e)
  PROVE  buffer'.entry = [buffer.entry EXCEPT ![buffer.in_offs] = e]
BY DEF Add, AddEntry, AdvanceOut, StoreEntry

\* The fields of the ring after add_entry, one by one.
LEMMA AddEntryRecord ==
  ASSUME TypeOK, NEW e \in Entries, Add(e)
  PROVE  buffer' = [entry    |-> buffer'.entry,
                    in_offs  |-> buffer'.in_offs,
                    out_offs |-> buffer'.out_offs,
                    full     |-> buffer'.full]
BY DEF Add, AddEntry, AdvanceOut, StoreEntry

\* The history grows by the added entry and keeps the others in place.
LEMMA AddLog ==
  ASSUME TypeOK, NEW e \in Entries, Add(e)
  PROVE  /\ log' \in Seq(Entries)
         /\ Len(log) \in Nat /\ Len(log') = Len(log) + 1
         /\ log'[Len(log) + 1] = e
         /\ \A i \in 1 .. Len(log) : log'[i] = log[i]
BY DEF Add, TypeOK

\* Every variable keeps its type: the offsets never leave the array however
\* often add_entry wraps them.
THEOREM TypeCorrect == Spec => []TypeOK
<1>1. Init => TypeOK
  BY DEF Init, TypeOK, RingsOver, EntriesOver, InitBuffer, EmptyEntry, Index
<1>2. TypeOK /\ [Next]_vars => TypeOK'
  <2> SUFFICES ASSUME TypeOK, [Next]_vars PROVE TypeOK'
    OBVIOUS
  <2>1. ASSUME NEW e \in Entries, Add(e) PROVE TypeOK'
    <3>1. buffer' \in [entry    : [Index -> [buffptr : Ptrs \cup {NULL}, size : Nat]],
                       in_offs  : Index,
                       out_offs : Index,
                       full     : BOOLEAN]
      <4> USE <2>1
      <4>1. e \in [buffptr : Ptrs \cup {NULL}, size : Nat]
        BY DEF Entries
      <4>2. buffer'.entry \in [Index -> [buffptr : Ptrs \cup {NULL}, size : Nat]]
        BY <4>1, AddEntryEntry, FieldTypes
      <4>3. \A x \in Index : After(x) \in Index
        BY DEF After, Index
      <4>4. buffer'.in_offs \in Index /\ buffer'.out_offs \in Index
        BY <4>3, AddEntryOffsets, FieldTypes
      <4>5. buffer'.full \in BOOLEAN
        BY AddEntryOffsets
      <4> QED
        BY <4>2, <4>4, <4>5, AddEntryRecord
    <3>2. overwritten' \in Ptrs \cup {NULL} /\ held' \in SUBSET Ptrs
      BY <2>1, FieldTypes DEF Add, TypeOK, Entries, Overwritten
    <3>3. log' \in Seq(Entries)
      BY <2>1, AddLog
    <3> QED
      BY <3>1, <3>2, <3>3 DEF TypeOK, RingsOver, EntriesOver
  <2>2. CASE UNCHANGED vars
    BY <2>2 DEF vars, TypeOK
  <2> QED
    BY <2>1, <2>2 DEF Next
<1> QED
  BY <1>1, <1>2, PTL DEF Spec

-----------------------------------------------------------------------------

\* Every slot holds the entry of the history the offsets say it holds, and
\* full is set exactly when a whole lap has been written.
THEOREM HistoryInSlots == Spec => []SlotsHoldHistory
<1>1. Init => SlotsHoldHistory
  BY DEF Init, SlotsHoldHistory, Offsets, Slots, InitBuffer, EmptyEntry, Index
<1>2. TypeOK /\ SlotsHoldHistory /\ [Next]_vars => SlotsHoldHistory'
  <2> SUFFICES ASSUME TypeOK, SlotsHoldHistory, [Next]_vars
               PROVE  SlotsHoldHistory'
    OBVIOUS
  <2>1. ASSUME NEW e \in Entries, Add(e) PROVE SlotsHoldHistory'
    <3> USE <2>1
    <3>1. Offsets'
      <4>1. /\ buffer.in_offs \in 0 .. MaxWriteOps - 1
            /\ buffer.out_offs \in 0 .. MaxWriteOps - 1
            /\ buffer.full \in BOOLEAN
        BY FieldTypes DEF Index
      <4>2. Len(log) \in Nat /\ Len(log') = Len(log) + 1
        BY AddLog
      <4>3. CASE buffer.full
        BY <4>1, <4>2, <4>3, AddEntryOffsets DEF SlotsHoldHistory, Offsets
      <4>4. CASE ~buffer.full
        BY <4>1, <4>2, <4>4, AddEntryOffsets DEF SlotsHoldHistory, Offsets, After
      <4> QED
        BY <4>3, <4>4
    <3>2. ASSUME NEW i \in Index
          PROVE  buffer'.entry[i] =
                   IF i < buffer'.in_offs
                   THEN log'[Len(log') - buffer'.in_offs + i + 1]
                   ELSE IF buffer'.full
                        THEN log'[Len(log') - buffer'.in_offs + i + 1 - MaxWriteOps]
                        ELSE EmptyEntry
      <4>1. /\ buffer.in_offs \in 0 .. MaxWriteOps - 1
            /\ i \in 0 .. MaxWriteOps - 1
            /\ MaxWriteOps \in Nat
            /\ buffer'.in_offs = IF buffer.in_offs + 1 = MaxWriteOps
                                 THEN 0 ELSE buffer.in_offs + 1
        BY FieldTypes, AddEntryOffsets DEF Index, After
      <4>2. Len(log) \in Nat /\ Len(log') = Len(log) + 1
        BY AddLog
      <4>3. buffer'.full <=> buffer.full \/ buffer.in_offs + 1 = MaxWriteOps
        BY <4>1, FieldTypes, AddEntryOffsets
           DEF SlotsHoldHistory, Offsets, After, Index
      <4>4. CASE i = buffer.in_offs
        <5>1. buffer'.entry[i] = log'[Len(log')]
          BY <4>4, AddLog, AddEntryEntry, FieldTypes
        <5>2. /\ Len(log) \in Int /\ buffer.in_offs \in Int
              /\ i \in Int /\ MaxWriteOps \in Int
          BY <4>1, <4>2
        <5>3. CASE buffer.in_offs + 1 = MaxWriteOps
          <6>1. ~(i < buffer'.in_offs) /\ buffer'.full /\ buffer'.in_offs = 0
            BY <4>1, <4>3, <5>3
          <6>2. Len(log') - buffer'.in_offs + i + 1 - MaxWriteOps = Len(log')
            BY <4>2, <4>4, <5>2, <5>3, <6>1, PlacesStay
          <6> QED
            BY <5>1, <6>1, <6>2
        <5>4. CASE buffer.in_offs + 1 # MaxWriteOps
          <6>1. i < buffer'.in_offs /\ buffer'.in_offs = buffer.in_offs + 1
            BY <4>1, <4>4, <5>4
          <6>2. Len(log') - buffer'.in_offs + i + 1 = Len(log')
            BY <4>2, <4>4, <5>2, <6>1, PlacesStay
          <6> QED
            BY <5>1, <6>1, <6>2
        <5> QED
          BY <5>3, <5>4
      <4>5. CASE i # buffer.in_offs
        <5>1. buffer'.entry[i] = buffer.entry[i]
          BY <4>5, AddEntryEntry, FieldTypes
        <5>2. buffer.entry[i] =
                IF i < buffer.in_offs THEN log[Len(log) - buffer.in_offs + i + 1]
                ELSE IF buffer.full
                     THEN log[Len(log) - buffer.in_offs + i + 1 - MaxWriteOps]
                     ELSE EmptyEntry
          BY DEF SlotsHoldHistory, Slots
        <5>3. \A j \in 1 .. Len(log) : log'[j] = log[j]
          BY AddLog
        <5>4. /\ buffer.in_offs <= Len(log)
              /\ buffer.full => MaxWriteOps <= Len(log)
          BY <4>1, <4>2 DEF SlotsHoldHistory, Offsets
        <5>5. CASE i < buffer.in_offs
          <6> DEFINE j == Len(log) - buffer.in_offs + i + 1
          <6>1. j \in 1 .. Len(log)
            BY <4>1, <4>2, <5>4, <5>5
          <6>2. buffer'.entry[i] = log'[j]
            BY <5>1, <5>2, <5>3, <5>5, <6>1
          <6>3. CASE buffer.in_offs + 1 = MaxWriteOps
            <7>1. ~(i < buffer'.in_offs) /\ buffer'.full
              BY <4>1, <4>3, <6>3
            <7>2. Len(log') - buffer'.in_offs + i + 1 - MaxWriteOps = j
              BY <4>1, <4>2, <6>3
            <7> QED
              BY <6>2, <7>1, <7>2
          <6>4. CASE buffer.in_offs + 1 # MaxWriteOps
            <7>1. i < buffer'.in_offs
              BY <4>1, <5>5, <6>4
            <7>2. Len(log') - buffer'.in_offs + i + 1 = j
              BY <4>1, <4>2, <6>4
            <7> QED
              BY <6>2, <7>1, <7>2
          <6> QED
            BY <6>3, <6>4
        <5>6. CASE ~(i < buffer.in_offs) /\ buffer.full
          <6> DEFINE j == Len(log) - buffer.in_offs + i + 1 - MaxWriteOps
          <6>1. j \in 1 .. Len(log)
            BY <4>1, <4>2, <4>5, <5>4, <5>6
          <6>2. buffer'.entry[i] = log'[j]
            BY <5>1, <5>2, <5>3, <5>6, <6>1
          <6>3. ~(i < buffer'.in_offs) /\ buffer'.full
            BY <4>1, <4>3, <4>5, <5>6
          <6>4. buffer'.in_offs = buffer.in_offs + 1
            <7>1. buffer.in_offs + 1 # MaxWriteOps
              BY <4>1, <4>5, <5>6
            <7> QED
              BY <4>1, <7>1
          <6>5. Len(log') - buffer'.in_offs + i + 1 - MaxWriteOps = j
            <7>1. /\ Len(log) \in Int /\ buffer.in_offs \in Int
                  /\ i \in Int /\ MaxWriteOps \in Int
              BY <4>1, <4>2
            <7>2. (Len(log) + 1) - (buffer.in_offs + 1) + i + 1 - MaxWriteOps = j
              BY <7>1, PlacesStay
            <7> QED
              BY <4>2, <6>4, <7>2
          <6> QED
            BY <6>2, <6>3, <6>5
        <5>7. CASE ~(i < buffer.in_offs) /\ ~buffer.full
          BY <4>1, <4>2, <4>3, <4>5, <5>1, <5>2, <5>7
        <5> QED
          BY <5>5, <5>6, <5>7
      <4> QED
        BY <4>4, <4>5
    <3> QED
      BY <3>1, <3>2 DEF SlotsHoldHistory, Slots
  <2>2. CASE UNCHANGED vars
    BY <2>2 DEF vars, SlotsHoldHistory, Offsets, Slots
  <2> QED
    BY <2>1, <2>2 DEF Next
<1> QED
  BY <1>1, <1>2, TypeCorrect, PTL DEF Spec

\* Read oldest first from out_offs, the ring is the recent history.
LEMMA SlotsGiveWindow ==
  ASSUME TypeOK, SlotsHoldHistory
  PROVE  WindowIsRecentHistory
<1>1. Count(buffer) = Kept
  BY FieldTypes DEF Count, Kept, TypeOK, SlotsHoldHistory, Offsets, Index
<1>2. ASSUME NEW k \in 1 .. Kept
      PROVE  buffer.entry[Slot(buffer, k - 1)] = log[Len(log) - Kept + k]
  <2>1. /\ Len(log) \in Nat /\ MaxWriteOps \in Nat /\ Kept \in 0 .. MaxWriteOps
        /\ k \in Nat /\ k >= 1 /\ k <= Kept
        /\ buffer.out_offs \in 0 .. MaxWriteOps - 1
        /\ buffer.full \in BOOLEAN
    BY FieldTypes DEF TypeOK, Index, Kept
  <2> DEFINE i == Slot(buffer, k - 1)
  <2>2. i = IF buffer.out_offs + (k - 1) < MaxWriteOps
            THEN buffer.out_offs + (k - 1)
            ELSE buffer.out_offs + (k - 1) - MaxWriteOps
    <3>1. k - 1 \in Index /\ buffer.out_offs \in Index
      BY <2>1 DEF Index
    <3> QED
      BY <3>1, WrapWalk DEF Slot
  <2>3. i \in Index
    BY <2>1, <2>2 DEF Index
  <2>4. buffer.entry[i] =
          IF i < buffer.in_offs
          THEN log[Len(log) - buffer.in_offs + i + 1]
          ELSE IF buffer.full
               THEN log[Len(log) - buffer.in_offs + i + 1 - MaxWriteOps]
               ELSE EmptyEntry
    BY <2>3 DEF SlotsHoldHistory, Slots
  <2>5. CASE buffer.full
    <3>1. buffer.in_offs = buffer.out_offs /\ Kept = MaxWriteOps
      BY <2>1, <2>5 DEF SlotsHoldHistory, Offsets, Kept
    <3>2. CASE i < buffer.in_offs
      <4>1. Len(log) - buffer.in_offs + i + 1 = Len(log) - Kept + k
        BY <2>1, <2>2, <3>1, <3>2
      <4> QED
        BY <2>4, <3>2, <4>1
    <3>3. CASE ~(i < buffer.in_offs)
      <4>1. Len(log) - buffer.in_offs + i + 1 - MaxWriteOps = Len(log) - Kept + k
        BY <2>1, <2>2, <3>1, <3>3
      <4> QED
        BY <2>4, <2>5, <3>3, <4>1
    <3> QED
      BY <3>2, <3>3
  <2>6. CASE ~buffer.full
    <3>1. buffer.out_offs = 0 /\ buffer.in_offs = Len(log) /\ Kept = Len(log)
      BY <2>6, <1>1 DEF SlotsHoldHistory, Offsets, Count
    <3>2. i < buffer.in_offs
      BY <2>1, <2>2, <3>1
    <3>3. Len(log) - buffer.in_offs + i + 1 = Len(log) - Kept + k
      BY <2>1, <2>2, <3>1
    <3> QED
      BY <2>4, <3>2, <3>3
  <2> QED
    BY <2>5, <2>6
<1> QED
  BY <1>1, <1>2 DEF WindowIsRecentHistory, Window, RecentHistory

\* The valid entries are the most recent ones of the history, in order.
THEOREM WindowCorrect == Spec => []WindowIsRecentHistory
BY SlotsGiveWindow, TypeCorrect, HistoryInSlots, PTL

-----------------------------------------------------------------------------

\* The recent history is a sequence of entries.
LEMMA RecentHistorySeq ==
  ASSUME TypeOK
  PROVE  RecentHistory \in Seq(Entries) /\ Len(RecentHistory) = Kept
<1>1. Len(log) \in Nat /\ Kept \in Nat /\ Kept <= Len(log)
  BY DEF TypeOK, Kept
<1>2. \A k \in 1 .. Kept : Len(log) - Kept + k \in 1 .. Len(log)
  BY <1>1
<1>3. \A k \in 1 .. Kept : log[Len(log) - Kept + k] \in Entries
  BY <1>2 DEF TypeOK
<1> QED
  BY <1>1, <1>3 DEF RecentHistory

\* One more entry in the history: the oldest of the recent ones makes room.
LEMMA RecentHistoryStep ==
  ASSUME TypeOK, NEW e \in Entries, Add(e)
  PROVE  RecentHistory' = IF Kept = MaxWriteOps
                          THEN Append(Tail(RecentHistory), e)
                          ELSE Append(RecentHistory, e)
<1> DEFINE rh == RecentHistory
           n  == Len(log)
<1>1. n \in Nat /\ Kept \in Nat /\ Kept <= n /\ MaxWriteOps \in Nat /\ MaxWriteOps >= 1
  BY DEF TypeOK, Kept
<1>2. rh \in Seq(Entries) /\ Len(rh) = Kept
  BY RecentHistorySeq
<1>3. /\ log' \in Seq(Entries)
      /\ Len(log') = n + 1
      /\ log'[n + 1] = e
      /\ \A i \in 1 .. n : log'[i] = log[i]
  BY AddLog
<1>4. RecentHistory' = [k \in 1 .. Kept' |-> log'[Len(log') - Kept' + k]]
  BY DEF RecentHistory
<1>5. \A k \in 1 .. Kept : rh[k] = log[n - Kept + k]
  BY DEF RecentHistory
<1>6. CASE Kept = MaxWriteOps
  <2>1. Kept' = Kept
    BY <1>1, <1>3, <1>6 DEF Kept
  <2>2. Tail(rh) \in Seq(Entries) /\ Len(Tail(rh)) = Kept - 1
        /\ \A k \in 1 .. Kept - 1 : Tail(rh)[k] = rh[k + 1]
    BY <1>1, <1>2, <1>6
  <2> DEFINE r == Append(Tail(rh), e)
  <2>3. r \in Seq(Entries) /\ Len(r) = Kept /\ r[Kept] = e
        /\ \A k \in 1 .. Kept - 1 : r[k] = rh[k + 1]
    BY <1>1, <2>2
  <2>4. ASSUME NEW k \in 1 .. Kept PROVE r[k] = log'[Len(log') - Kept + k]
    <3>1. CASE k = Kept
      <4>1. Len(log') - Kept + k = n + 1
        BY <1>1, <1>3, <3>1
      <4> QED
        BY <1>3, <2>3, <3>1, <4>1
    <3>2. CASE k # Kept
      <4>1. k + 1 \in 1 .. Kept /\ k \in 1 .. Kept - 1
            /\ n - Kept + (k + 1) = Len(log') - Kept + k
            /\ Len(log') - Kept + k \in 1 .. n
        BY <1>1, <1>3, <3>2
      <4>2. r[k] = log[n - Kept + (k + 1)]
        BY <1>5, <2>3, <4>1
      <4> QED
        BY <1>3, <4>1, <4>2
    <3> QED
      BY <3>1, <3>2
  <2>5. r = [k \in 1 .. Kept |-> r[k]]
    <3>1. r \in [1 .. Len(r) -> Entries]
      BY <2>3, LenProperties
    <3> QED
      BY <2>3, <3>1
  <2> QED
    BY <1>4, <1>6, <2>1, <2>4, <2>5
<1>7. CASE Kept # MaxWriteOps
  <2>1. Kept = n /\ Kept' = Kept + 1
    BY <1>1, <1>3, <1>7 DEF Kept
  <2> DEFINE r == Append(rh, e)
  <2>2. r \in Seq(Entries) /\ Len(r) = Kept + 1 /\ r[Kept + 1] = e
        /\ \A k \in 1 .. Kept : r[k] = rh[k]
    BY <1>1, <1>2
  <2>3. ASSUME NEW k \in 1 .. Kept + 1 PROVE r[k] = log'[Len(log') - (Kept + 1) + k]
    <3>1. Len(log') - (Kept + 1) + k = k
      BY <1>1, <1>3, <2>1
    <3>2. CASE k = Kept + 1
      BY <1>3, <2>1, <2>2, <3>1, <3>2
    <3>3. CASE k # Kept + 1
      <4>1. k \in 1 .. Kept /\ k \in 1 .. n /\ n - Kept + k = k
        BY <1>1, <2>1, <3>3
      <4> QED
        BY <1>3, <1>5, <2>2, <3>1, <4>1
    <3> QED
      BY <3>2, <3>3
  <2>4. r = [k \in 1 .. Kept + 1 |-> r[k]]
    <3>1. r \in [1 .. Len(r) -> Entries]
      BY <2>2, LenProperties
    <3> QED
      BY <2>2, <3>1
  <2> QED
    BY <1>4, <1>7, <2>1, <2>3, <2>4
<1> QED
  BY <1>6, <1>7

\* The pointer add_entry returns is that of the oldest entry, if one is lost.
LEMMA OverwrittenIsOldest ==
  ASSUME TypeOK, SlotsHoldHistory
  PROVE  Overwritten(buffer) = IF Kept = MaxWriteOps
                               THEN RecentHistory[1].buffptr ELSE NULL
<1>1. buffer.full <=> Kept = MaxWriteOps
  BY FieldTypes DEF SlotsHoldHistory, Offsets, Kept, Index, TypeOK
<1>2. CASE buffer.full
  <2>1. Count(buffer) = MaxWriteOps
    BY <1>2 DEF Count
  <2>2. Slot(buffer, 0) = buffer.out_offs
    <3>1. buffer.out_offs \in Index /\ 0 \in Index
      BY FieldTypes DEF Index
    <3>2. (buffer.out_offs + 0) % MaxWriteOps =
            IF buffer.out_offs + 0 < MaxWriteOps THEN buffer.out_offs + 0
            ELSE buffer.out_offs + 0 - MaxWriteOps
      BY <3>1, WrapWalk
    <3> QED
      BY <3>1, <3>2 DEF Slot, Index
  <2>3. Window(buffer)[1] = buffer.entry[buffer.out_offs]
    BY <2>1, <2>2 DEF Window
  <2> QED
    BY <1>1, <1>2, <2>3, SlotsGiveWindow DEF Overwritten, WindowIsRecentHistory
<1>3. CASE ~buffer.full
  BY <1>1, <1>3 DEF Overwritten
<1> QED
  BY <1>2, <1>3

\* Every add_entry is one Add of the list of recent commands, whatever the
\* number of slots: the ring implements RecentCommands.
THEOREM RingImplementsRecentCommands == Spec => ImplementsRecentCommands
<1>1. Init => Abstract!Init
  <2> SUFFICES ASSUME Init PROVE Abstract!Init
    OBVIOUS
  <2>1. Count(buffer) = 0
    BY DEF Init, InitBuffer, Count
  <2>2. Window(buffer) = <<>>
    BY <2>1 DEF Window
  <2> QED
    BY <2>2 DEF Init, Abstract!Init
<1>2. /\ TypeOK /\ SlotsHoldHistory /\ WindowIsRecentHistory
      /\ WindowIsRecentHistory' /\ [Next]_vars
      => [Abstract!Next]_(Abstract!vars)
  <2> SUFFICES ASSUME TypeOK, SlotsHoldHistory, WindowIsRecentHistory,
                      WindowIsRecentHistory', [Next]_vars
               PROVE  [Abstract!Next]_(Abstract!vars)
    OBVIOUS
  <2>1. ASSUME NEW e \in Entries, Add(e) PROVE Abstract!Add(e)
    <3>1. /\ Window(buffer) = RecentHistory
          /\ Window(buffer)' = RecentHistory'
      BY DEF WindowIsRecentHistory
    <3>2. Len(RecentHistory) = Kept /\ RecentHistory \in Seq(Entries)
      BY RecentHistorySeq
    <3>3. overwritten' = Overwritten(buffer)
      BY <2>1 DEF Add
    <3>4. Kept = MaxWriteOps => Head(RecentHistory) = RecentHistory[1]
      BY <3>2
    <3> QED
      BY <2>1, <3>1, <3>2, <3>3, <3>4, RecentHistoryStep, OverwrittenIsOldest
         DEF Abstract!Add
  <2>2. CASE UNCHANGED vars
    BY <2>2 DEF vars, Abstract!vars, Window, Count, Slot
  <2> QED
    BY <2>1, <2>2 DEF Next, Abstract!Next
<1> QED
  BY <1>1, <1>2, TypeCorrect, HistoryInSlots, WindowCorrect, PTL
     DEF Spec, ImplementsRecentCommands, Abstract!Spec

-----------------------------------------------------------------------------

\* The slot add_entry writes holds the pointer it returns.
LEMMA OverwrittenIsInSlot ==
  ASSUME TypeOK, SlotsHoldHistory
  PROVE  Overwritten(buffer) = buffer.entry[buffer.in_offs].buffptr
<1>1. CASE buffer.full
  BY <1>1 DEF SlotsHoldHistory, Offsets, Overwritten
<1>2. CASE ~buffer.full
  <2>1. buffer.in_offs \in Index /\ ~(buffer.in_offs < buffer.in_offs)
    BY FieldTypes DEF Index
  <2>2. buffer.entry[buffer.in_offs] = EmptyEntry
    BY <1>2, <2>1 DEF SlotsHoldHistory, Slots
  <2> QED
    BY <1>2, <2>2 DEF EmptyEntry, Overwritten
<1> QED
  BY <1>1, <1>2

\* The caller gets every pointer back exactly once, when it leaves the ring.
THEOREM PointersHandedBack == Spec => []HeldIsStored
<1>1. Init => HeldIsStored
  BY DEF Init, HeldIsStored, PointersDiffer, StoredPointers, InitBuffer, EmptyEntry
<1>2. TypeOK /\ SlotsHoldHistory /\ HeldIsStored /\ [Next]_vars => HeldIsStored'
  <2> SUFFICES ASSUME TypeOK, SlotsHoldHistory, HeldIsStored, [Next]_vars
               PROVE  HeldIsStored'
    OBVIOUS
  <2>1. ASSUME NEW e \in Entries, Add(e) PROVE HeldIsStored'
    <3> DEFINE in == buffer.in_offs
               Ptr(i) == buffer.entry[i].buffptr
    <3>1. /\ in \in Index
          /\ \A i \in Index : buffer'.entry[i] = IF i = in THEN e ELSE buffer.entry[i]
      BY <2>1, AddEntryEntry, FieldTypes
    <3>2. /\ e.buffptr # NULL
          /\ e.buffptr \notin StoredPointers(buffer)
      BY <2>1 DEF Add, Entries, HeldIsStored
    <3>3. held' = (StoredPointers(buffer) \cup {e.buffptr}) \ {Ptr(in)}
      BY <2>1, OverwrittenIsInSlot DEF Add, HeldIsStored
    <3>4. \A i \in Index : Ptr(i) = Ptr(in) => i = in \/ Ptr(i) = NULL
      BY <3>1 DEF HeldIsStored, PointersDiffer
    <3>5. StoredPointers(buffer') = {buffer'.entry[i].buffptr : i \in Index} \ {NULL}
      BY DEF StoredPointers
    <3>6. held' = StoredPointers(buffer')
      <4>1. ASSUME NEW p \in held' PROVE p \in StoredPointers(buffer')
        <5>1. CASE p = e.buffptr
          BY <3>1, <3>2, <3>5, <5>1
        <5>2. CASE p # e.buffptr
          <6>1. PICK i \in Index : p = Ptr(i) /\ p # NULL /\ p # Ptr(in)
            BY <3>3, <4>1, <5>2 DEF StoredPointers
          <6> QED
            BY <3>1, <3>5, <6>1
        <5> QED
          BY <5>1, <5>2
      <4>2. ASSUME NEW p \in StoredPointers(buffer') PROVE p \in held'
        <5>1. PICK i \in Index : p = buffer'.entry[i].buffptr /\ p # NULL
          BY <3>5, <4>2
        <5>2. CASE i = in
          <6>1. p = e.buffptr
            BY <3>1, <5>1, <5>2
          <6>2. Ptr(in) # e.buffptr
            BY <3>1, <3>2 DEF StoredPointers
          <6> QED
            BY <3>3, <6>1, <6>2
        <5>3. CASE i # in
          <6>1. p = Ptr(i) /\ p # Ptr(in)
            BY <3>1, <3>4, <5>1, <5>3
          <6> QED
            BY <3>3, <5>1, <6>1 DEF StoredPointers
        <5> QED
          BY <5>2, <5>3
      <4> QED
        BY <4>1, <4>2
    <3>7. ASSUME NEW i \in Index, NEW j \in Index,
                 buffer'.entry[i].buffptr = buffer'.entry[j].buffptr,
                 buffer'.entry[i].buffptr # NULL
          PROVE  i = j
      <4>1. \A k \in Index : Ptr(k) # e.buffptr
        BY <3>2 DEF StoredPointers
      <4> QED
        BY <3>1, <3>7, <4>1 DEF HeldIsStored, PointersDiffer
    <3> QED
      BY <3>6, <3>7 DEF HeldIsStored, PointersDiffer
  <2>2. CASE UNCHANGED vars
    BY <2>2 DEF vars, HeldIsStored, PointersDiffer, StoredPointers
  <2> QED
    BY <2>1, <2>2 DEF Next
<1> QED
  BY <1>1, <1>2, TypeCorrect, HistoryInSlots, PTL DEF Spec
-----------------------------------------------------------------------------
\* The search

\* The bytes of every entry of the window and where they are in the whole.
LEMMA WindowBytes ==
  ASSUME TypeOK, WindowIsRecentHistory
  PROVE  LET all == Concatenation(RecentHistory)
             n   == Count(buffer)
         IN  /\ n \in Nat /\ Len(all) = BytesSoFar(buffer, n)
             /\ \A k \in 0 .. n - 1 :
                  LET e == buffer.entry[Slot(buffer, k)]
                  IN  \A j \in 1 .. e.size :
                        all[BytesSoFar(buffer, k) + j] = <<e.buffptr, j - 1>>
<1> DEFINE b   == buffer
           n   == Count(b)
           e(k) == b.entry[Slot(b, k - 1)]
           s   == [k \in 1 .. n |-> BytesOf(e(k))]
           pos == [k \in 0 .. n |-> BytesSoFar(b, k)]
           S   == (Ptrs \cup {NULL}) \X Int
<1>1. b \in RingsOver(Ptrs) /\ n \in Nat
  BY CountType DEF TypeOK
<1>2. Concatenation(RecentHistory) = FlattenSeq(s)
  <2>1. RecentHistory = [k \in 1 .. n |-> e(k)]
    BY DEF WindowIsRecentHistory, Window
  <2>2. DOMAIN RecentHistory = 1 .. n /\ \A k \in 1 .. n : RecentHistory[k] = e(k)
    BY <2>1
  <2> HIDE DEF e, n
  <2>3. [k \in DOMAIN RecentHistory |-> BytesOf(RecentHistory[k])] = s
    BY <2>2
  <2> QED
    BY <2>3 DEF Concatenation
<1>3. ASSUME NEW k \in 1 .. n
      PROVE  /\ BytesOf(e(k)) \in Seq(S) /\ Len(BytesOf(e(k))) = e(k).size
             /\ e(k).size \in Nat
             /\ BytesSoFar(b, k) = BytesSoFar(b, k - 1) + e(k).size
             /\ BytesSoFar(b, k) \in Nat
  <2>1. k \in Nat /\ k - 1 \in Nat /\ (k - 1) + 1 = k
    BY <1>1
  <2>2. Slot(b, k - 1) \in Index
    BY <1>1, <2>1, SlotInIndex
  <2>3. e(k).size \in Nat /\ e(k).buffptr \in Ptrs \cup {NULL}
    BY <1>1, <2>2 DEF RingsOver, EntriesOver
  <2>4. BytesSoFar(b, (k - 1) + 1) = BytesSoFar(b, k - 1) + b.entry[Slot(b, k - 1)].size
    BY <1>1, <2>1, BytesSoFarStep
  <2>5. BytesSoFar(b, k) \in Nat
    BY <1>1, <2>1, BytesSoFarStep
  <2> HIDE DEF e, b
  <2>6. BytesOf(e(k)) \in Seq(S) /\ Len(BytesOf(e(k))) = e(k).size
    BY <2>3 DEF BytesOf
  <2> QED
    BY <2>1, <2>3, <2>4, <2>5, <2>6 DEF e
<1> HIDE DEF S
<1>4. s \in Seq(Seq(S)) /\ Len(s) = n
  BY <1>1, <1>3
<1>5. Places(pos, s)
  <2>1. \A k \in 0 .. n : pos[k] \in Nat
    BY <1>1, BytesSoFarStep
  <2>2. pos[0] = 0
    BY <1>1, BytesSoFarStep
  <2>3. ASSUME NEW k \in 1 .. n PROVE pos[k] = pos[k - 1] + Len(s[k])
    <3>1. k \in 0 .. n /\ k - 1 \in 0 .. n
      BY <1>1
    <3> QED
      BY <1>3, <3>1
  <2> HIDE DEF pos, s
  <2> QED
    BY <1>4, <2>1, <2>2, <2>3 DEF Places
<1>6. /\ Len(FlattenSeq(s)) = pos[n]
      /\ LaidOut(FlattenSeq(s), s, pos)
  <2> HIDE DEF pos, s
  <2> QED
    BY <1>4, <1>5, FlattenPlaces
<1>7. Len(FlattenSeq(s)) = BytesSoFar(b, n)
  BY <1>1, <1>6
<1>8. ASSUME NEW k \in 0 .. n - 1, NEW j \in 1 .. e(k + 1).size
      PROVE  FlattenSeq(s)[BytesSoFar(b, k) + j] = <<e(k + 1).buffptr, j - 1>>
  <2>1. k + 1 \in 1 .. n /\ (k + 1) - 1 = k /\ k \in 0 .. n
    BY <1>1
  <2>2. s[k + 1] = BytesOf(e(k + 1)) /\ Len(s[k + 1]) = e(k + 1).size
    BY <1>3, <2>1
  <2>3. pos[k] = BytesSoFar(b, k)
    BY <2>1
  <2> HIDE DEF pos, s, e
  <2>4. FlattenSeq(s)[pos[k] + j] = s[k + 1][j]
    BY <1>4, <1>6, <2>1, <2>2 DEF LaidOut
  <2> QED
    BY <2>2, <2>3, <2>4 DEF BytesOf
<1>9. ASSUME NEW k \in 0 .. n - 1
      PROVE  \A j \in 1 .. b.entry[Slot(b, k)].size :
               FlattenSeq(s)[BytesSoFar(b, k) + j] = <<b.entry[Slot(b, k)].buffptr, j - 1>>
  <2>1. (k + 1) - 1 = k
    BY <1>1
  <2>2. e(k + 1) = b.entry[Slot(b, k)]
    BY <2>1
  <2> QED
    BY <1>8, <2>2
<1> QED
  BY <1>1, <1>2, <1>7, <1>9

\* The search answers with the byte at every offset of the concatenation of
\* what has been added, and with nothing from its end on
\* (find_entry_offset_for_fpos).
THEOREM SearchCorrect == Spec => []FindIsConcatenation
<1>1. TypeOK /\ WindowIsRecentHistory => FindIsConcatenation
  <2> SUFFICES ASSUME TypeOK, WindowIsRecentHistory PROVE FindIsConcatenation
    OBVIOUS
  <2> DEFINE all == Concatenation(RecentHistory)
             n   == Count(buffer)
  <2>1. /\ n \in Nat /\ Len(all) = BytesSoFar(buffer, n)
        /\ \A k \in 0 .. n - 1 : \A j \in 1 .. buffer.entry[Slot(buffer, k)].size :
             all[BytesSoFar(buffer, k) + j]
               = <<buffer.entry[Slot(buffer, k)].buffptr, j - 1>>
    BY WindowBytes
  <2>2. buffer \in RingsOver(Ptrs) /\ BytesSoFar(buffer, n) \in Nat
    BY <2>1, BytesSoFarStep DEF TypeOK
  <2> HIDE DEF all, n
  <2>3. ASSUME NEW off \in 0 .. Len(all) + 1
        PROVE  LET r == FindEntryOffsetForFpos(buffer, off)
               IN  /\ r.found <=> off < Len(all)
                   /\ r.found => <<buffer.entry[r.index].buffptr, r.offset>> = all[off + 1]
    <3> DEFINE r == FindEntryOffsetForFpos(buffer, off)
    <3>1. off \in Nat
      BY <2>1, <2>2
    <3>2. CASE r.found
      <4>1. PICK k \in 0 .. n - 1 :
              /\ r.index = Slot(buffer, k)
              /\ r.offset = off - BytesSoFar(buffer, k)
              /\ BytesSoFar(buffer, k) <= off
              /\ off < BytesSoFar(buffer, k) + buffer.entry[Slot(buffer, k)].size
        BY <2>2, <3>1, <3>2, FindStopsInside DEF n
      <4> HIDE DEF r
      <4> DEFINE at == BytesSoFar(buffer, k)
                 size == buffer.entry[Slot(buffer, k)].size
      <4>2. /\ k \in Nat /\ k + 1 \in 0 .. n
        BY <2>1
      <4>3. at \in Nat /\ size \in Nat /\ BytesSoFar(buffer, k + 1) = at + size
        BY <2>2, <4>2, BytesSoFarStep
      <4>4. BytesSoFar(buffer, k + 1) <= BytesSoFar(buffer, n)
        BY <2>1, <2>2, <4>2, BytesSoFarGrows
      <4> HIDE DEF at, size
      <4>5. off < Len(all)
        BY <2>1, <2>2, <3>1, <4>1, <4>3, <4>4 DEF at, size
      <4>6. (off - at) + 1 \in 1 .. size /\ at + ((off - at) + 1) = off + 1
            /\ ((off - at) + 1) - 1 = off - at
        BY <3>1, <4>1, <4>3 DEF at, size
      <4>7. all[off + 1] = <<buffer.entry[Slot(buffer, k)].buffptr, off - at>>
        <5> DEFINE j == (off - at) + 1
        <5>1. j \in 1 .. size /\ at + j = off + 1 /\ j - 1 = off - at
          BY <4>6
        <5> HIDE DEF j
        <5>2. all[at + j] = <<buffer.entry[Slot(buffer, k)].buffptr, j - 1>>
          BY <2>1, <5>1 DEF at, size
        <5> QED
          BY <5>1, <5>2
      <4> QED
        BY <3>2, <4>1, <4>5, <4>7 DEF r, at
    <3>3. CASE ~r.found
      <4>1. BytesSoFar(buffer, n) <= off
        BY <2>2, <3>1, <3>3, SearchFails DEF n
      <4>2. ~(off < Len(all))
        BY <2>1, <2>2, <3>1, <4>1
      <4> QED
        BY <3>3, <4>2
    <3> QED
      BY <3>2, <3>3
  <2> QED
    BY <2>3 DEF FindIsConcatenation, all
<1> QED
  BY <1>1, TypeCorrect, WindowCorrect, PTL
=============================================================================
