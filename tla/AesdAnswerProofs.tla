-------------------------- MODULE AesdAnswerProofs --------------------------
(***************************************************************************)
(* Theorems about the descriptors the threads of AesdSocket share and      *)
(* about what their clients are sent.                                      *)
(***************************************************************************)
EXTENDS AesdSocketProofs, SequenceTheorems

-----------------------------------------------------------------------------
(***************************************************************************)
(* Sequences laid end to end.                                              *)
(***************************************************************************)

\* The first n sequences of s, laid end to end one after the other, as
\* FlattenSeq does it.
IsFlatten(f, s, n) ==
  f = [i \in 1 .. n |-> IF i = 1 THEN s[i] ELSE f[i - 1] \o s[i]]

\* There is such a function.
LEMMA FlattenExists ==
  ASSUME NEW s, NEW n \in Nat
  PROVE  \E f : IsFlatten(f, s, n)
<1> DEFINE T == {m \in Nat : \E f : IsFlatten(f, s, m)}
<1>1. 0 \in T
  <2> DEFINE g == [i \in 1 .. 0 |-> s[i]]
  <2>1. IsFlatten(g, s, 0)
    BY DEF IsFlatten
  <2> HIDE DEF g
  <2> QED
    BY <2>1
<1>2. ASSUME NEW m \in Nat, m \in T PROVE m + 1 \in T
  <2>1. PICK f : IsFlatten(f, s, m)
    BY <1>2
  <2> DEFINE g == [i \in 1 .. m + 1 |-> IF i = 1 THEN s[i] ELSE f[i - 1] \o s[i]]
  <2>2. ASSUME NEW i \in 1 .. m PROVE f[i] = g[i]
    <3>1. f[i] = IF i = 1 THEN s[i] ELSE f[i - 1] \o s[i]
      BY <2>1 DEF IsFlatten
    <3>2. i \in 1 .. m + 1
      OBVIOUS
    <3> QED
      BY <3>1, <3>2
  <2>3. \A i \in 1 .. m + 1 : i = 1 \/ i - 1 \in 1 .. m
    OBVIOUS
  <2>4. IsFlatten(g, s, m + 1)
    BY <2>2, <2>3 DEF IsFlatten
  <2> HIDE DEF g
  <2> QED
    BY <2>4
<1> HIDE DEF T
<1>3. n \in T
  BY <1>1, <1>2, AllNaturals
<1> QED
  BY <1>3 DEF T

\* One more sequence comes to lie at the end.
LEMMA FlattenAppend ==
  ASSUME NEW B, NEW s \in Seq(Seq(B)), NEW e \in Seq(B)
  PROVE  /\ FlattenSeq(s) \in Seq(B)
         /\ FlattenSeq(Append(s, e)) = FlattenSeq(s) \o e
<1> DEFINE n == Len(s)
           t == Append(s, e)
           F == CHOOSE f : IsFlatten(f, s, n)
           G == CHOOSE f : IsFlatten(f, t, Len(t))
<1>1. /\ n \in Nat /\ \A i \in 1 .. n : s[i] \in Seq(B)
      /\ Len(t) = n + 1 /\ t[n + 1] = e /\ \A i \in 1 .. n : t[i] = s[i]
  OBVIOUS
<1>2. IsFlatten(F, s, n)
  BY <1>1, FlattenExists
<1>3. IsFlatten(G, t, n + 1)
  <2>1. n + 1 \in Nat
    BY <1>1
  <2>2. IsFlatten(G, t, Len(t))
    BY <1>1, <2>1, FlattenExists
  <2> QED
    BY <1>1, <2>2
<1>4. FlattenSeq(t) = G[n + 1]
  <2>1. Len(t) # 0
    BY <1>1
  <2>2. FlattenSeq(t) = G[Len(t)]
    BY <2>1 DEF FlattenSeq, IsFlatten
  <2> QED
    BY <1>1, <2>2
<1>5. n # 0 => FlattenSeq(s) = F[n]
  BY DEF FlattenSeq, IsFlatten
<1>6. n = 0 => FlattenSeq(s) = <<>>
  BY DEF FlattenSeq
<1> HIDE DEF n, t, F, G
<1>7. \A i \in 1 .. n : F[i] = IF i = 1 THEN s[i] ELSE F[i - 1] \o s[i]
  BY <1>2 DEF IsFlatten
<1>8. \A i \in 1 .. n + 1 : G[i] = IF i = 1 THEN t[i] ELSE G[i - 1] \o t[i]
  BY <1>3 DEF IsFlatten
<1> DEFINE T == {m \in Nat : m + 1 \in 1 .. n
                              => F[m + 1] \in Seq(B) /\ G[m + 1] = F[m + 1]}
<1>9. 0 \in T
  <2> SUFFICES ASSUME 1 \in 1 .. n PROVE F[1] \in Seq(B) /\ G[1] = F[1]
    OBVIOUS
  <2>1. 1 \in 1 .. n + 1
    BY <1>1
  <2> QED
    BY <1>1, <1>7, <1>8, <2>1
<1>10. ASSUME NEW m \in Nat, m \in T PROVE m + 1 \in T
  <2> DEFINE k == m + 1
  <2> SUFFICES ASSUME k + 1 \in 1 .. n PROVE F[k + 1] \in Seq(B) /\ G[k + 1] = F[k + 1]
    OBVIOUS
  <2>1. k \in 1 .. n /\ k + 1 \in 1 .. n + 1 /\ k + 1 # 1 /\ (k + 1) - 1 = k
    BY <1>1
  <2>2. F[k] \in Seq(B) /\ G[k] = F[k]
    BY <1>10, <2>1
  <2> HIDE DEF k
  <2>3. F[k + 1] = F[k] \o s[k + 1]
    BY <1>7, <2>1
  <2>4. G[k + 1] = G[k] \o t[k + 1]
    BY <1>8, <2>1
  <2>5. t[k + 1] = s[k + 1] /\ s[k + 1] \in Seq(B)
    BY <1>1
  <2>6. F[k] \o s[k + 1] \in Seq(B)
    BY <2>2, <2>5, ConcatProperties
  <2> QED
    BY <2>2, <2>3, <2>4, <2>5, <2>6
<1>11. n # 0 => F[n] \in Seq(B) /\ G[n] = F[n]
  <2> HIDE DEF T
  <2>1. Nat \subseteq T
    BY <1>9, <1>10, AllNaturals
  <2>2. n # 0 => n - 1 \in T /\ (n - 1) + 1 = n /\ (n - 1) + 1 \in 1 .. n
    BY <1>1, <2>1
  <2> QED
    BY <2>2 DEF T
<1>12. CASE n = 0
  <2>1. G[1] = t[1] /\ t[1] = e /\ n + 1 = 1
    BY <1>1, <1>8, <1>12
  <2>2. <<>> \in Seq(B) /\ <<>> \o e = e
    BY ConcatEmptySeq
  <2> QED
    BY <1>4, <1>6, <1>12, <2>1, <2>2 DEF t
<1>13. CASE n # 0
  <2>1. n + 1 \in 1 .. n + 1 /\ n + 1 # 1 /\ (n + 1) - 1 = n
    BY <1>1, <1>13
  <2>2. G[n + 1] = G[n] \o t[n + 1]
    BY <1>8, <2>1
  <2> QED
    BY <1>1, <1>4, <1>5, <1>11, <1>13, <2>2 DEF t
<1> QED
  BY <1>12, <1>13

\* What lies in front of a position is still there when bytes are added behind.
LEMMA PrefixKept ==
  ASSUME NEW B, NEW t \in Seq(B), NEW u \in Seq(B), NEW n \in Nat, n <= Len(t)
  PROVE  /\ SubSeq(t \o u, 1, n) = SubSeq(t, 1, n)
         /\ n <= Len(t \o u)
<1>1. Len(t \o u) = Len(t) + Len(u) /\ Len(t) \in Nat /\ Len(u) \in Nat
  BY ConcatProperties
<1>2. CASE n = 0
  BY <1>1, <1>2, SubSeqEmpty
<1>3. CASE n # 0
  <2>1. 1 \in 1 .. Len(t) /\ n \in 1 .. Len(t)
    BY <1>1, <1>3
  <2> QED
    BY <1>1, <2>1, SubSeqOfConcat1
<1> QED
  BY <1>2, <1>3

\* What was sent of the bytes in front of a position is a prefix too.
LEMMA FrontIsPrefix ==
  ASSUME NEW B, NEW t \in Seq(B), NEW u \in Seq(B), NEW v \in Seq(B),
         NEW n \in Nat, n <= Len(t), u \o v = SubSeq(t, 1, n)
  PROVE  IsPrefix(u, t)
<1> DEFINE w == SubSeq(t, 1, n)
           rest == SubSeq(t, n + 1, Len(t))
<1>1. Len(t) \in Nat /\ Len(u) \in Nat /\ Len(v) \in Nat /\ Len(u \o v) = Len(u) + Len(v)
  BY ConcatProperties
<1>2. w \in Seq(B) /\ Len(w) = n
  <2>1. \A i \in 1 .. n : t[i] \in B
    BY <1>1
  <2>2. w \in Seq(B) /\ Len(w) = IF 1 <= n THEN n - 1 + 1 ELSE 0
    BY <2>1, SubSeqProperties
  <2> QED
    BY <2>2
<1>3. rest \in Seq(B)
  <2>1. \A i \in n + 1 .. Len(t) : t[i] \in B
    BY <1>1
  <2>2. n + 1 \in Int /\ Len(t) \in Int
    BY <1>1
  <2> QED
    BY <2>1, <2>2, SubSeqProperties
<1>4. w \o rest = t
  <2>1. 1 \in 1 .. Len(t) + 1 /\ n \in 1 - 1 .. Len(t) /\ Len(t) \in n .. Len(t)
    BY <1>1
  <2>2. w \o rest = SubSeq(t, 1, Len(t))
    BY <2>1, ConcatAdjacentSubSeq
  <2> QED
    BY <2>2, SubSeqFull
<1> HIDE DEF w, rest
<1>5. u \o v = w /\ Len(u) <= n
  BY <1>1, <1>2 DEF w
<1>6. SubSeq(w, 1, Len(u)) = SubSeq(u, 1, Len(u))
  BY <1>1, <1>5, PrefixKept
<1>7. SubSeq(w \o rest, 1, Len(u)) = SubSeq(w, 1, Len(u))
  BY <1>1, <1>2, <1>3, <1>5, PrefixKept
<1> QED
  BY <1>1, <1>4, <1>5, <1>6, <1>7 DEF IsPrefix

\* And so is whoever's byte was among them, or among those added.
LEMMA OwnByteKept ==
  ASSUME NEW B, NEW t \in Seq(B), NEW u \in Seq(B), NEW c,
         OwnByte(c, t) \/ OwnByte(c, u)
  PROVE  OwnByte(c, t \o u)
<1>1. /\ Len(t \o u) = Len(t) + Len(u) /\ Len(t) \in Nat /\ Len(u) \in Nat
      /\ t \o u \in Seq(B)
      /\ \A i \in 1 .. Len(t) + Len(u) :
           (t \o u)[i] = IF i <= Len(t) THEN t[i] ELSE u[i - Len(t)]
  BY ConcatProperties
<1>2. DOMAIN t = 1 .. Len(t) /\ DOMAIN u = 1 .. Len(u)
      /\ DOMAIN (t \o u) = 1 .. Len(t) + Len(u)
  BY <1>1
<1>3. CASE OwnByte(c, t)
  <2>1. PICK i \in 1 .. Len(t) : t[i] = c
    BY <1>2, <1>3 DEF OwnByte
  <2>2. i \in 1 .. Len(t) + Len(u) /\ i <= Len(t)
    BY <1>1
  <2> QED
    BY <1>1, <1>2, <2>1, <2>2 DEF OwnByte
<1>4. CASE OwnByte(c, u)
  <2>1. PICK i \in 1 .. Len(u) : u[i] = c
    BY <1>2, <1>4 DEF OwnByte
  <2>2. Len(t) + i \in 1 .. Len(t) + Len(u) /\ ~(Len(t) + i <= Len(t))
        /\ (Len(t) + i) - Len(t) = i
    BY <1>1
  <2> QED
    BY <1>1, <1>2, <2>1, <2>2 DEF OwnByte
<1> QED
  BY <1>3, <1>4

-----------------------------------------------------------------------------
(***************************************************************************)
(* Descriptors.                                                            *)
(***************************************************************************)

USE ServerAssumption

\* What a connection may have open.
Vals(c) == {Conn(c), File(AppendFile(c)), File(ReadFile(c))}

Slots == {Closed} \cup UNION {Vals(c) : c \in Conns}

\* They differ, from each other and from those of another connection.
LEMMA ValuesDiffer ==
  \A c, d \in Conns :
    /\ Closed \notin Vals(c)
    /\ Conn(c) # File(AppendFile(c)) /\ Conn(c) # File(ReadFile(c))
    /\ File(AppendFile(c)) # File(ReadFile(c))
    /\ c # d => Vals(c) \cap Vals(d) = {}
<1> SUFFICES ASSUME NEW c \in Conns, NEW d \in Conns
    PROVE  /\ Closed \notin Vals(c)
           /\ Conn(c) # File(AppendFile(c)) /\ Conn(c) # File(ReadFile(c))
           /\ File(AppendFile(c)) # File(ReadFile(c))
           /\ c # d => Vals(c) \cap Vals(d) = {}
  OBVIOUS
<1>1. /\ Conn(c).kind = "conn" /\ Conn(c).conn = c
      /\ Conn(d).kind = "conn" /\ Conn(d).conn = d
      /\ Closed.kind = "closed"
  BY DEF Conn, Closed
<1>2. \A f : File(f).kind = "file" /\ File(f).file = f
  BY DEF File
<1>3. /\ AppendFile(c)[1] = c /\ AppendFile(c)[2] = "append"
      /\ ReadFile(c)[1] = c /\ ReadFile(c)[2] = "read"
      /\ AppendFile(d)[1] = d /\ AppendFile(d)[2] = "append"
      /\ ReadFile(d)[1] = d /\ ReadFile(d)[2] = "read"
  BY DEF AppendFile, ReadFile
<1>4. /\ File(AppendFile(c)).file[1] = c /\ File(ReadFile(c)).file[1] = c
      /\ File(AppendFile(d)).file[1] = d /\ File(ReadFile(d)).file[1] = d
      /\ File(AppendFile(c)).file[2] = "append" /\ File(ReadFile(c)).file[2] = "read"
  BY <1>2, <1>3
<1>5. /\ Conn(c) # File(AppendFile(d)) /\ Conn(c) # File(ReadFile(d))
      /\ Conn(d) # File(AppendFile(c)) /\ Conn(d) # File(ReadFile(c))
      /\ Conn(c) # File(AppendFile(c)) /\ Conn(c) # File(ReadFile(c))
  BY <1>1, <1>2
<1>6. Closed \notin Vals(c)
  BY <1>1, <1>2 DEF Vals
<1>7. File(AppendFile(c)) # File(ReadFile(c))
  BY <1>4
<1>8. c # d => /\ Conn(c) # Conn(d)
               /\ File(AppendFile(c)) # File(AppendFile(d))
               /\ File(ReadFile(c)) # File(ReadFile(d))
               /\ File(AppendFile(c)) # File(ReadFile(d))
               /\ File(ReadFile(c)) # File(AppendFile(d))
  BY <1>1, <1>4
<1>9. c # d => Vals(c) \cap Vals(d) = {}
  BY <1>5, <1>8 DEF Vals
<1> QED
  BY <1>5, <1>6, <1>7, <1>9

Has(v) == \E n \in Fds : fds[n] = v

Reading == {"read", "send", "r_close"}
Filing == {"ioctl", "seek_read", "seek_send", "seek_close",
           "write", "w_close", "w_close_err"}
Kinds == {"data", "seek"}

DescTypes ==
  /\ client_fd \in [Conns -> Fds \cup {-1}]
  /\ file_fd \in [Conns -> Fds \cup {-1}]
  /\ read_fd \in [Conns -> Fds \cup {-1}]
  /\ fds \in [Fds -> Slots]
  /\ DOMAIN buffer = Conns

\* What is open is where the thread's variable says.
HeldBy(c) ==
  \A n \in Fds :
    /\ fds[n] = Conn(c) => n = client_fd[c] /\ tinfo[c] # "none"
    /\ fds[n] = File(AppendFile(c)) => n = file_fd[c] /\ pc[c] \notin {"none", "open"}
    /\ fds[n] = File(ReadFile(c)) => n = read_fd[c] /\ pc[c] \in Reading \cup Gone

\* A thread begins without a file, and leaves at once if it got none; it does
\* nothing with a file before a chunk has come.
FreshOf(c) ==
  /\ pc[c] \in Filing \cup Reading \cup {"lock_file", "open_read"} => chunks[c] # 0
  /\ pc[c] \in {"none", "open"}
       => file_fd[c] = -1 /\ chunks[c] = 0 /\ buffer[c] = NoChunk
  /\ pc[c] = "no_file" => file_fd[c] = -1

\* What it has closed on the way.
ReturnedBy(c) ==
  /\ pc[c] \in Reading \cup {"open_read"} => ~Has(File(AppendFile(c)))
  /\ pc[c] \in {"recv", "exit"} /\ buffer[c].kind \in Kinds
       => ~Has(File(AppendFile(c)))
  /\ pc[c] \in {"c_remove", "c_free", "ended"} /\ ~cancelled[c]
       /\ buffer[c].kind \in Kinds
       => \A v \in Vals(c) : ~Has(v)

\* What is still its own.
OwnBy(c) ==
  /\ pc[c] \notin {"none", "ended", "c_remove", "c_free"}
       => Target(client_fd[c]) = Conn(c)
  /\ mpc \in Accepting /\ c = cur => Target(client_fd[c]) = Conn(c)
  /\ pc[c] \in Filing => Target(file_fd[c]) = File(AppendFile(c))
  /\ (pc[c] = "recv" /\ chunks[c] = 0) \/ pc[c] = "lock_file"
       => file_fd[c] = -1 \/ Target(file_fd[c]) = File(AppendFile(c))
  /\ pc[c] \in Reading => Target(read_fd[c]) = File(ReadFile(c))

DescOf(c) == /\ HeldBy(c) /\ FreshOf(c) /\ ReturnedBy(c)
             /\ MaxChunks <= 1 => OwnBy(c)

DescInv == DescTypes /\ \A c \in Conns : DescOf(c)

\* The table is empty when the server starts.
LEMMA DescInvInit == Init => DescInv
<1> SUFFICES ASSUME Init PROVE DescInv
  OBVIOUS
<1>1. \A n \in Fds : fds[n] = Closed
  BY DEF Init
<1>2. DescTypes
  BY DEF Init, DescTypes, Slots
<1>3. ASSUME NEW c \in Conns PROVE DescOf(c)
  <2>1. pc[c] = "none" /\ mpc = "accept" /\ file_fd[c] = -1 /\ chunks[c] = 0
        /\ buffer[c] = NoChunk
    BY DEF Init
  <2>2. HeldBy(c)
    BY <1>1, ValuesDiffer DEF HeldBy, Vals
  <2>3. FreshOf(c) /\ ReturnedBy(c) /\ OwnBy(c)
    BY <2>1 DEF FreshOf, ReturnedBy, OwnBy, Reading, Filing, Accepting
  <2> QED
    BY <2>2, <2>3 DEF DescOf
<1> QED
  BY <1>2, <1>3 DEF DescInv

\* Each open slot has one owner, so there is room for what one of them lacks.
LEMMA RoomForOneMore ==
  ASSUME DescInv, NEW c \in Conns, NEW v \in Vals(c), ~Has(v)
  PROVE  LowestFree \in Fds /\ fds[LowestFree] = Closed
<1>1. Cardinality(Conns) \in Nat
  BY FS_CardinalityType
<1>i. ASSUME NEW a \in Nat, NEW b \in Int, b - a + 1 \in Nat
      PROVE  IsFiniteSet(a .. b) /\ Cardinality(a .. b) = b - a + 1
  <2>1. a \in Int /\ (a > b => b - a + 1 = 0)
    BY <1>i
  <2>2. IsFiniteSet(a .. b) /\ Cardinality(a .. b) = IF a > b THEN 0 ELSE b - a + 1
    BY <2>1, FS_Interval
  <2> QED
    BY <2>1, <2>2
<1>2. IsFiniteSet(Fds) /\ Cardinality(Fds) = 3 * Cardinality(Conns)
  <2>1. /\ 3 * Cardinality(Conns) - 1 \in Int
        /\ (3 * Cardinality(Conns) - 1) - 0 + 1 = 3 * Cardinality(Conns)
        /\ 3 * Cardinality(Conns) \in Nat
    BY <1>1
  <2> QED
    BY <1>i, <2>1 DEF Fds
<1>t. IsFiniteSet(1 .. 3) /\ Cardinality(1 .. 3) = 3
  <2>1. 3 - 1 + 1 = 3 /\ 3 - 1 + 1 \in Nat /\ 1 \in Nat /\ 3 \in Int
    OBVIOUS
  <2>2. IsFiniteSet(1 .. 3) /\ Cardinality(1 .. 3) = 3 - 1 + 1
    BY <1>i, <2>1
  <2> QED
    BY <2>1, <2>2
<1> DEFINE Free == {n \in Fds : fds[n] = Closed}
           All == UNION {Vals(d) : d \in Conns}
           N == Cardinality(Conns)
           Three == 1 .. 3
           Pairs == Conns \X Three
           val(p) == IF p[2] = 1 THEN Conn(p[1])
                     ELSE IF p[2] = 2 THEN File(AppendFile(p[1]))
                     ELSE File(ReadFile(p[1]))
           F == [n \in Fds |-> CHOOSE p \in Pairs : val(p) = fds[n]]
<1>3. IsFiniteSet(Three) /\ Cardinality(Three) = 3
  BY <1>t
<1>4. IsFiniteSet(Pairs) /\ Cardinality(Pairs) = 3 * N
  <2> HIDE DEF Three
  <2> QED
    BY <1>1, <1>3, FS_Product
<1>5. PICK p0 \in Pairs : val(p0) = v
  <2>1. <<c, 1>> \in Pairs /\ <<c, 2>> \in Pairs /\ <<c, 3>> \in Pairs
    OBVIOUS
  <2>2. /\ val(<<c, 1>>) = Conn(c) /\ val(<<c, 2>>) = File(AppendFile(c))
        /\ val(<<c, 3>>) = File(ReadFile(c))
    OBVIOUS
  <2> HIDE DEF Pairs, val
  <2> QED
    BY <2>1, <2>2 DEF Vals
<1>6. IsFiniteSet(Pairs \ {p0}) /\ Cardinality(Pairs \ {p0}) = 3 * N - 1
  <2> HIDE DEF Pairs, val
  <2> QED
    BY <1>4, <1>5, FS_RemoveElement
<1>7. Free # {}
  <2> SUFFICES ASSUME Free = {} PROVE FALSE
    OBVIOUS
  <2>1. ASSUME NEW n \in Fds PROVE F[n] \in Pairs \ {p0} /\ val(F[n]) = fds[n]
    <3>1. fds[n] \in All
      BY DEF DescInv, DescTypes, Slots
    <3>2. PICK d \in Conns : fds[n] \in Vals(d)
      BY <3>1
    <3>3. <<d, 1>> \in Pairs /\ <<d, 2>> \in Pairs /\ <<d, 3>> \in Pairs
      OBVIOUS
    <3>4. /\ val(<<d, 1>>) = Conn(d) /\ val(<<d, 2>>) = File(AppendFile(d))
          /\ val(<<d, 3>>) = File(ReadFile(d))
      OBVIOUS
    <3>5. F[n] = CHOOSE p \in Pairs : val(p) = fds[n]
      OBVIOUS
    <3> HIDE DEF Pairs, val, F
    <3>6. \E p \in Pairs : val(p) = fds[n]
      BY <3>2, <3>3, <3>4 DEF Vals
    <3>7. F[n] \in Pairs /\ val(F[n]) = fds[n]
      BY <3>5, <3>6
    <3>8. F[n] # p0
      BY <1>5, <3>7 DEF Has
    <3> QED
      BY <3>7, <3>8
  <2>2. F \in [Fds -> Pairs \ {p0}]
    <3>1. F = [n \in Fds |-> F[n]]
      OBVIOUS
    <3> HIDE DEF F, Pairs, val
    <3> QED
      BY <2>1, <3>1
  <2>3. \E m, n \in Fds : m # n /\ F[m] = F[n]
    <3>1. Cardinality(Pairs \ {p0}) < Cardinality(Fds)
      BY <1>1, <1>2, <1>6
    <3> HIDE DEF F, Pairs, val
    <3> QED
      BY <1>2, <1>6, <2>2, <3>1, FS_PigeonHole
  <2>4. PICK m \in Fds, n \in Fds : m # n /\ F[m] = F[n]
    BY <2>3
  <2>5. fds[m] = fds[n] /\ fds[m] # Closed
    <3> HIDE DEF F, Pairs, val
    <3> QED
      BY <2>1, <2>4
  <2>6. PICK d \in Conns : fds[m] \in Vals(d)
    BY <2>5 DEF DescInv, DescTypes, Slots
  <2>7. HeldBy(d)
    BY DEF DescInv, DescOf
  <2> QED
    BY <2>4, <2>5, <2>6, <2>7 DEF HeldBy, Vals
<1>8. Free \subseteq Nat
  BY <1>1 DEF Fds
<1> HIDE DEF Free
<1>9. Min(Free) \in Free
  BY <1>7, <1>8, LeastNatural DEF Min
<1> QED
  BY <1>9 DEF LowestFree, Free
\* What a step must leave to a connection that it is not about.
LeavesAlone(d) ==
  /\ pc'[d] = pc[d] /\ buffer'[d] = buffer[d] /\ chunks'[d] = chunks[d]
  /\ client_fd'[d] = client_fd[d] /\ file_fd'[d] = file_fd[d]
  /\ read_fd'[d] = read_fd[d]
  /\ cancelled[d] => cancelled'[d]
  /\ tinfo[d] # "none" => tinfo'[d] # "none"
  /\ mpc' \in Accepting /\ d = cur' => mpc \in Accepting /\ d = cur
  /\ \A n \in Fds : fds'[n] \in Vals(d) => fds'[n] = fds[n]
  /\ MaxChunks <= 1 => \A n \in Fds : fds[n] \in Vals(d) => fds'[n] = fds[n]

\* Then all that is said of it still holds.
LEMMA OtherKeeps ==
  ASSUME NEW d \in Conns, DescOf(d), LeavesAlone(d)
  PROVE  DescOf(d)'
<1>1. \A v \in Vals(d) : Has(v)' => Has(v)
  BY DEF LeavesAlone, Has
<1>2. HeldBy(d)'
  BY DEF DescOf, LeavesAlone, HeldBy, Vals
<1>3. FreshOf(d)'
  BY DEF DescOf, LeavesAlone, FreshOf
<1>4. ReturnedBy(d)'
  BY <1>1 DEF DescOf, LeavesAlone, ReturnedBy, Vals
<1>5. ASSUME MaxChunks <= 1 PROVE OwnBy(d)'
  <2>1. OwnBy(d)
    BY <1>5 DEF DescOf
  <2>2. ASSUME NEW n \in Fds, fds[n] \in Vals(d) PROVE fds'[n] = fds[n]
    BY <1>5, <2>2 DEF LeavesAlone
  <2>3. Closed \notin Vals(d)
    BY ValuesDiffer
  <2> QED
    BY <2>1, <2>2, <2>3 DEF LeavesAlone, OwnBy, Target, Vals
<1> QED
  BY <1>2, <1>3, <1>4, <1>5 DEF DescOf

\* The table and the variables that name its slots.
table == <<fds, client_fd, file_fd, read_fd>>

\* A step of connection c, to which all others are others.
LEMMA OneConnection ==
  ASSUME DescInv, DescTypes', NEW c \in Conns, DescOf(c)',
         \A d \in Conns \ {c} : LeavesAlone(d)
  PROVE  DescInv'
<1>1. ASSUME NEW d \in Conns \ {c} PROVE DescOf(d)'
  BY <1>1, OtherKeeps DEF DescInv
<1> QED
  BY <1>1 DEF DescInv

\* A step that opens and closes nothing leaves alone whom it does not move.
LEMMA QuietLeavesAlone ==
  ASSUME UNCHANGED <<table, mpc, cur, cancelled>>, NEW d \in Conns,
         pc'[d] = pc[d], buffer'[d] = buffer[d], chunks'[d] = chunks[d],
         tinfo[d] # "none" => tinfo'[d] # "none"
  PROVE  LeavesAlone(d)
BY DEF LeavesAlone, table

\* So it is enough to look at the one it moves.
LEMMA QuietStep ==
  ASSUME ControlInv, DescInv, NEW c \in Conns, NEW label, Goto(c, label),
         UNCHANGED <<table, mpc, cur, cancelled>>,
         \A d \in Conns \ {c} : /\ buffer'[d] = buffer[d] /\ chunks'[d] = chunks[d]
                                /\ tinfo[d] # "none" => tinfo'[d] # "none",
         DOMAIN buffer' = Conns, DescOf(c)'
  PROVE  DescInv'
<1>1. \A d \in Conns \ {c} : pc'[d] = pc[d]
  BY DEF ControlInv, MutexInv, Goto
<1>2. \A d \in Conns \ {c} : LeavesAlone(d)
  BY <1>1, QuietLeavesAlone
<1>3. DescTypes'
  BY DEF DescInv, DescTypes, table
<1> QED
  BY <1>2, <1>3, OneConnection

\* The slots of c through such a step.
LEMMA QuietHeld ==
  ASSUME NEW c \in Conns, HeldBy(c), UNCHANGED table,
         tinfo[c] # "none" => tinfo'[c] # "none",
         pc[c] \notin {"none", "open"} => pc'[c] \notin {"none", "open"},
         pc[c] \in Reading \cup Gone => pc'[c] \in Reading \cup Gone
  PROVE  HeldBy(c)' /\ \A v : Has(v)' <=> Has(v)
BY DEF HeldBy, Has, table

\* Where a thread is after a step, in steps that open and close nothing.
QuietSteps(c) ==
  \/ RecvEnd(c) \/ Ioctl(c) \/ SeekRead(c) \/ SeekSend(c)
  \/ LockFile(c) \/ NoFile(c) \/ Write(c) \/ Read(c) \/ Send(c)
  \/ ActOnCancel(c) \/ CancelledInCleanup(c)

QuietPath(c, label) ==
  \/ pc[c] = "recv" /\ label = "exit"
  \/ pc[c] \in Filing \ {"w_close", "w_close_err"} /\ label \in Filing
  \/ pc[c] = "lock_file" /\ file_fd[c] = -1 /\ label = "no_file"
  \/ pc[c] = "lock_file" /\ file_fd[c] # -1 /\ label = "write"
  \/ pc[c] = "no_file" /\ label = "exit"
  \/ pc[c] \in Reading /\ label \in Reading
  \/ cancelled[c] /\ pc[c] \in CancelPoints /\ label = "c_close"
  \/ cancelled[c] /\ pc[c] = "exit" /\ label = "ended"

\* Each of them is on one of these paths.
LEMMA QuietPaths ==
  ASSUME NEW c \in Conns, QuietSteps(c)
  PROVE  /\ \E label : Goto(c, label) /\ QuietPath(c, label)
         /\ UNCHANGED <<table, mpc, cur, cancelled, buffer, chunks, tinfo>>
<1> USE DEF QuietPath, Runs, At, outer, main, list, own_fds, input, table
<1>1. CASE RecvEnd(c)
  BY <1>1 DEF RecvEnd
<1>2. CASE Ioctl(c)
  BY <1>2 DEF Ioctl, Filing
<1>3. CASE SeekRead(c)
  BY <1>3 DEF SeekRead, ReadDevice, Filing
<1>4. CASE SeekSend(c)
  BY <1>4 DEF SeekSend, Filing
<1>5. CASE LockFile(c)
  BY <1>5 DEF LockFile, Locked
<1>6. CASE NoFile(c)
  BY <1>6 DEF NoFile
<1>7. CASE Write(c)
  <2>1. /\ pc[c] = "write" /\ UNCHANGED <<outer, own_fds, fds, input>>
        /\ \E label \in {"w_close", "w_close_err"} : Goto(c, label)
    BY <1>7 DEF Write
  <2> QED
    BY <2>1 DEF Filing
<1>8. CASE Read(c)
  BY <1>8 DEF Read, ReadDevice, Reading
<1>9. CASE Send(c)
  BY <1>9 DEF Send, Reading
<1>10. CASE ActOnCancel(c)
  BY <1>10 DEF ActOnCancel
<1>11. CASE CancelledInCleanup(c)
  BY <1>11 DEF CancelledInCleanup
<1> QED
  BY <1>1, <1>2, <1>3, <1>4, <1>5, <1>6, <1>7, <1>8, <1>9, <1>10, <1>11
     DEF QuietSteps

\* And on none of them does anybody lose a descriptor.
LEMMA QuietStepsKeepDesc ==
  ASSUME ControlInv, DescInv, NEW c \in Conns, QuietSteps(c)
  PROVE  DescInv'
<1>1. PICK label : Goto(c, label) /\ QuietPath(c, label)
  BY QuietPaths
<1>2. UNCHANGED <<table, mpc, cur, cancelled, buffer, chunks, tinfo>>
  BY QuietPaths
<1>3. pc'[c] = label /\ HeldBy(c) /\ FreshOf(c) /\ ReturnedBy(c)
      /\ (MaxChunks <= 1 => OwnBy(c))
  BY <1>1 DEF ControlInv, MutexInv, Goto, DescInv, DescOf
<1>4. /\ pc[c] \notin {"none", "open"} => label \notin {"none", "open"}
      /\ pc[c] \in Reading \cup Gone => label \in Reading \cup Gone
      /\ label \notin {"recv", "c_remove", "c_free", "open_read", "lock_file"}
      /\ label \in Filing \cup Reading => pc[c] \in Filing \cup Reading \cup {"lock_file"}
      /\ label \in Reading => pc[c] \in Reading
      /\ label \in Filing
           => pc[c] \in Filing \/ (pc[c] = "lock_file" /\ file_fd[c] # -1)
      /\ label = "no_file" => file_fd[c] = -1
      /\ label = "exit" => pc[c] = "recv" \/ file_fd[c] = -1
      /\ label = "ended" => cancelled[c]
      /\ label \notin {"none", "open"}
      /\ label \notin {"none", "ended", "c_remove", "c_free"}
           => pc[c] \notin {"none", "ended", "c_remove", "c_free"}
  BY <1>1, <1>3 DEF QuietPath, Filing, Reading, Gone, Cleaning, CancelPoints, FreshOf
<1>5. HeldBy(c)' /\ \A v : Has(v)' <=> Has(v)
  BY <1>2, <1>3, <1>4, QuietHeld
<1>6. file_fd[c] = -1 => ~Has(File(AppendFile(c)))
  <2>1. -1 \notin Fds
    BY DEF Fds
  <2> QED
    BY <1>3, <2>1 DEF HeldBy, Has
<1>7. FreshOf(c)'
  BY <1>2, <1>3, <1>4 DEF FreshOf, table
<1>8. ReturnedBy(c)'
  BY <1>2, <1>3, <1>4, <1>5, <1>6 DEF ReturnedBy
<1>9. ASSUME MaxChunks <= 1 PROVE OwnBy(c)'
  <2>1. OwnBy(c)
    BY <1>3, <1>9
  <2>2. Target(client_fd[c])' = Target(client_fd[c])
        /\ Target(file_fd[c])' = Target(file_fd[c])
        /\ Target(read_fd[c])' = Target(read_fd[c])
    BY <1>2 DEF table, Target
  <2> QED
    BY <1>2, <1>3, <1>4, <2>1, <2>2 DEF OwnBy, table
<1>10. DescOf(c)'
  BY <1>5, <1>7, <1>8, <1>9 DEF DescOf
<1>11. DOMAIN buffer' = Conns
  BY <1>2 DEF DescInv, DescTypes
<1> QED
  BY <1>1, <1>2, <1>10, <1>11, QuietStep

\* A chunk comes in: a client that had no file has none to leave open.
LEMMA RecvKeepsDesc ==
  ASSUME ControlInv, DescInv, NEW c \in Conns, RecvChunk(c)
  PROVE  DescInv'
<1>1. PICK chunk \in Chunks[c] : /\ buffer' = [buffer EXCEPT ![c] = chunk]
                                 /\ Goto(c, HandlerOf(c, chunk))
  BY DEF RecvChunk
<1> DEFINE label == HandlerOf(c, chunk)
<1>2. /\ pc[c] = "recv" /\ chunks[c] < MaxChunks
      /\ chunks' = [chunks EXCEPT ![c] = @ + 1]
      /\ UNCHANGED <<table, mpc, cur, cancelled, tinfo>>
  BY DEF RecvChunk, Runs, At, outer, main, list, own_fds, table
<1>3. pc'[c] = label /\ HeldBy(c) /\ (MaxChunks <= 1 => OwnBy(c))
  BY <1>1 DEF ControlInv, MutexInv, Goto, DescInv, DescOf
<1>4. /\ chunks'[c] = chunks[c] + 1 /\ chunks[c] \in Nat /\ MaxChunks \in Nat
      /\ \A d \in Conns \ {c} : chunks'[d] = chunks[d]
  BY <1>2 DEF ControlInv, ControlTypes
<1>5. file_fd[c] \in Fds \cup {-1} /\ -1 \notin Fds /\ Fds \subseteq Nat
  <2>1. Cardinality(Conns) \in Nat
    BY FS_CardinalityType
  <2> QED
    BY <2>1 DEF DescInv, DescTypes, Fds
<1>6. /\ label \in {"lock_file", "ioctl", "recv"}
      /\ label = "ioctl" => file_fd[c] # -1
      /\ label = "recv" => chunk.kind \notin Kinds \/ file_fd[c] = -1
  BY <1>5 DEF HandlerOf, Kinds
<1> HIDE DEF label
<1>7. HeldBy(c)' /\ \A v : Has(v)' <=> Has(v)
  BY <1>2, <1>3, <1>6, QuietHeld DEF Reading, Gone, Cleaning
<1>8. file_fd[c] = -1 => ~Has(File(AppendFile(c)))
  BY <1>3, <1>5 DEF HeldBy, Has
<1>9. FreshOf(c)'
  BY <1>3, <1>4, <1>6 DEF FreshOf
<1>10. ReturnedBy(c)'
  <2>1. label = "recv" => buffer'[c].kind \notin Kinds \/ ~Has(File(AppendFile(c)))
    <3>1. CASE file_fd[c] = -1
      BY <1>8, <3>1
    <3>2. CASE file_fd[c] # -1 /\ label = "recv"
      <4>1. chunk.kind \notin Kinds
        BY <1>6, <3>2
      <4>2. buffer'[c] = chunk
        BY <1>1 DEF DescInv, DescTypes
      <4> QED
        BY <4>1, <4>2
    <3> QED
      BY <3>1, <3>2
  <2> QED
    BY <1>3, <1>6, <1>7, <2>1 DEF ReturnedBy, Reading
<1>11. ASSUME MaxChunks <= 1 PROVE OwnBy(c)'
  <2>1. OwnBy(c) /\ chunks[c] = 0
    BY <1>2, <1>3, <1>4, <1>11
  <2>2. Target(client_fd[c])' = Target(client_fd[c])
        /\ Target(file_fd[c])' = Target(file_fd[c])
        /\ Target(read_fd[c])' = Target(read_fd[c])
    BY <1>2 DEF table, Target
  <2>3. file_fd[c] = -1 \/ Target(file_fd[c]) = File(AppendFile(c))
    BY <1>2, <2>1 DEF OwnBy
  <2>4. Target(client_fd[c]) = Conn(c)
    BY <1>2, <2>1 DEF OwnBy
  <2> QED
    BY <1>2, <1>3, <1>4, <1>6, <2>1, <2>2, <2>3, <2>4
       DEF OwnBy, table, Filing, Reading
<1>12. DescOf(c)'
  BY <1>7, <1>9, <1>10, <1>11 DEF DescOf
<1>13. DOMAIN buffer' = Conns
  BY <1>1 DEF DescInv, DescTypes
<1>14. \A d \in Conns \ {c} : buffer'[d] = buffer[d]
  BY <1>1 DEF DescInv, DescTypes
<1> QED
  BY <1>1, <1>2, <1>3, <1>4, <1>12, <1>13, <1>14, QuietStep DEF label
\* What becomes of the slots of c when slot n is closed.
LEMMA ClosedSlots ==
  ASSUME DescInv, NEW c \in Conns, NEW n \in Fds \cup {-1}, CloseFd(n)
  PROVE  /\ fds' \in [Fds -> Slots]
         /\ \A v \in Vals(c) : Has(v)' => Has(v)
         /\ n = client_fd[c] => ~Has(Conn(c))'
         /\ n = file_fd[c] => ~Has(File(AppendFile(c)))'
         /\ n = read_fd[c] => ~Has(File(ReadFile(c)))'
         /\ \A m : Target(m) \in Vals(c) /\ Target(m) # Target(n)
                     => Target(m)' = Target(m)
<1>1. fds' = [m \in Fds |-> IF m = n THEN Closed ELSE fds[m]]
  BY DEF CloseFd
<1>2. HeldBy(c) /\ fds \in [Fds -> Slots] /\ Closed \in Slots /\ Closed \notin Vals(c)
  BY ValuesDiffer DEF DescInv, DescOf, DescTypes, Slots
<1>3. fds' \in [Fds -> Slots]
  BY <1>1, <1>2
<1>4. \A m \in Fds : m # n => fds'[m] = fds[m]
  BY <1>1
<1>5. \A m \in Fds : fds'[m] \in Vals(c) => m # n
  BY <1>1, <1>2
<1>6. \A v \in Vals(c) : Has(v)' => Has(v)
  BY <1>4, <1>5 DEF Has
<1>7. /\ n = client_fd[c] => ~Has(Conn(c))'
      /\ n = file_fd[c] => ~Has(File(AppendFile(c)))'
      /\ n = read_fd[c] => ~Has(File(ReadFile(c)))'
  BY <1>2, <1>4, <1>5 DEF Has, HeldBy, Vals
<1>8. \A m : Target(m) \in Vals(c) /\ Target(m) # Target(n)
               => Target(m)' = Target(m)
  BY <1>4 DEF Target
<1> QED
  BY <1>3, <1>6, <1>7, <1>8

\* Nobody else is touched when a slot is closed that is not his.
LEMMA ClosingLeavesAlone ==
  ASSUME DescInv, NEW c \in Conns, NEW n \in Fds \cup {-1}, CloseFd(n),
         MaxChunks <= 1 => Target(n) \in Vals(c),
         NEW d \in Conns \ {c}, pc'[d] = pc[d],
         UNCHANGED <<buffer, chunks, client_fd, file_fd, read_fd, cancelled>>,
         tinfo[d] # "none" => tinfo'[d] # "none",
         mpc' \in Accepting /\ d = cur' => mpc \in Accepting /\ d = cur
  PROVE  LeavesAlone(d)
<1>1. fds' = [m \in Fds |-> IF m = n THEN Closed ELSE fds[m]]
  BY DEF CloseFd
<1>2. Closed \notin Vals(d) /\ Vals(c) \cap Vals(d) = {}
  BY ValuesDiffer
<1>3. \A m \in Fds : fds'[m] \in Vals(d) => fds'[m] = fds[m]
  BY <1>1, <1>2
<1>4. ASSUME MaxChunks <= 1, NEW m \in Fds, fds[m] \in Vals(d)
      PROVE  fds'[m] = fds[m]
  BY <1>1, <1>2, <1>4 DEF Target
<1> QED
  BY <1>3, <1>4 DEF LeavesAlone

\* A thread that closes one of its three descriptors and goes on.
LEMMA CloseStep ==
  ASSUME ControlInv, DescInv, NEW c \in Conns, NEW label, Goto(c, label),
         NEW n \in Fds \cup {-1}, CloseFd(n),
         UNCHANGED <<mpc, cur, cancelled, client_fd, file_fd, read_fd, buffer,
                     chunks, tinfo>>,
         MaxChunks <= 1 => Target(n) \in Vals(c),
         label \notin {"none", "open"},
         label \in Gone \/ ~Has(File(ReadFile(c)))',
         FreshOf(c)', ReturnedBy(c)', MaxChunks <= 1 => OwnBy(c)'
  PROVE  DescInv'
<1>1. pc'[c] = label /\ \A d \in Conns \ {c} : pc'[d] = pc[d]
  BY DEF ControlInv, MutexInv, Goto
<1>2. ASSUME NEW d \in Conns \ {c} PROVE LeavesAlone(d)
  BY <1>1, ClosingLeavesAlone
<1>3. DescTypes'
  BY ClosedSlots DEF DescInv, DescTypes
<1>4. HeldBy(c)'
  <2>1. HeldBy(c)
    BY DEF DescInv, DescOf
  <2>2. fds' = [m \in Fds |-> IF m = n THEN Closed ELSE fds[m]]
    BY DEF CloseFd
  <2>3. Closed \notin Vals(c)
    BY ValuesDiffer
  <2>4. \A m \in Fds : fds'[m] \in Vals(c) => fds[m] = fds'[m]
    BY <2>2, <2>3
  <2> QED
    BY <1>1, <2>1, <2>4 DEF HeldBy, Has, Vals
<1>5. DescOf(c)'
  BY <1>4 DEF DescOf
<1> QED
  BY <1>2, <1>3, <1>5, OneConnection
\* What is left of OwnBy after a thread has closed its file.
LEMMA OwnAfterClose ==
  ASSUME ControlInv, DescInv, NEW c \in Conns, OwnBy(c), NEW n \in Fds \cup {-1},
         CloseFd(n), UNCHANGED <<mpc, cur, client_fd, chunks>>,
         pc[c] \notin {"none", "ended", "c_remove", "c_free"},
         Target(n) \in {File(AppendFile(c)), File(ReadFile(c))},
         chunks[c] # 0, pc'[c] \in {"recv", "open_read", "exit"}
  PROVE  OwnBy(c)'
<1>1. Target(client_fd[c]) = Conn(c) /\ Conn(c) \in Vals(c)
  BY DEF OwnBy, Vals
<1>2. Conn(c) # Target(n)
  BY ValuesDiffer
<1>3. Target(client_fd[c])' = Conn(c)
  BY <1>1, <1>2, ClosedSlots
<1> QED
  BY <1>3 DEF OwnBy, Filing, Reading

\* The file is closed after a seek and after a write, the answer's file when it
\* has been sent.
LEMMA FileClosesKeepDesc ==
  ASSUME ControlInv, DescInv, NEW c \in Conns,
         SeekClose(c) \/ CloseFile(c) \/ CloseRead(c)
  PROVE  DescInv'
<1> DEFINE n == IF pc[c] = "r_close" THEN read_fd[c] ELSE file_fd[c]
           Here == pc[c] \in {"seek_close", "w_close", "w_close_err", "r_close"}
<1>1. PICK label \in {"recv", "open_read", "exit"} :
        /\ Here /\ Goto(c, label) /\ CloseFd(n)
        /\ UNCHANGED <<mpc, cur, cancelled, client_fd, file_fd, read_fd, buffer,
                       chunks, tinfo>>
        /\ pc[c] \in {"seek_close", "r_close"} => label = "recv"
  <2>1. CASE SeekClose(c)
    BY <2>1 DEF SeekClose, Runs, At, outer, main, list, input, own_fds
  <2>2. CASE CloseFile(c)
    BY <2>2 DEF CloseFile, Runs, At, outer, main, list, input, own_fds
  <2>3. CASE CloseRead(c)
    BY <2>3 DEF CloseRead, Runs, At, outer, main, list, input, own_fds
  <2> QED
    BY <2>1, <2>2, <2>3
<1>2. /\ HeldBy(c) /\ FreshOf(c) /\ ReturnedBy(c) /\ (MaxChunks <= 1 => OwnBy(c))
      /\ pc'[c] = label /\ n \in Fds \cup {-1}
  BY <1>1 DEF ControlInv, MutexInv, Goto, DescInv, DescOf, DescTypes
<1>3. chunks[c] # 0 /\ pc[c] \in Filing \cup Reading /\ (pc[c] = "r_close" <=> pc[c] \in Reading)
  BY <1>1, <1>2 DEF FreshOf, Filing, Reading
<1>4. /\ n = read_fd[c] => ~Has(File(ReadFile(c)))'
      /\ n = file_fd[c] => ~Has(File(AppendFile(c)))'
      /\ \A v \in Vals(c) : Has(v)' => Has(v)
  BY <1>1, <1>2, ClosedSlots
<1>5. ~Has(File(AppendFile(c)))'
  <2>1. CASE pc[c] = "r_close"
    BY <1>2, <1>4, <2>1 DEF ReturnedBy, Reading, Vals
  <2>2. CASE pc[c] # "r_close"
    BY <1>4, <2>2
  <2> QED
    BY <2>1, <2>2
<1>6. ~Has(File(ReadFile(c)))'
  <2>1. CASE pc[c] = "r_close"
    BY <1>4, <2>1
  <2>2. CASE pc[c] # "r_close"
    <3>1. pc[c] \notin Reading \cup Gone
      BY <1>1, <2>2 DEF Reading, Gone, Cleaning
    <3>2. ~Has(File(ReadFile(c)))
      BY <1>2, <3>1 DEF HeldBy, Has
    <3> QED
      BY <1>4, <3>2 DEF Vals
  <2> QED
    BY <2>1, <2>2
<1>7. FreshOf(c)'
  BY <1>1, <1>2, <1>3 DEF FreshOf, Filing, Reading
<1>8. ReturnedBy(c)'
  BY <1>2, <1>5 DEF ReturnedBy, Reading
<1>9. ASSUME MaxChunks <= 1
      PROVE  Target(n) \in {File(AppendFile(c)), File(ReadFile(c))} /\ OwnBy(c)'
  <2>1. Target(n) \in {File(AppendFile(c)), File(ReadFile(c))}
    BY <1>2, <1>3, <1>9 DEF OwnBy
  <2>2. pc[c] \notin {"none", "ended", "c_remove", "c_free"}
    BY <1>1
  <2> HIDE DEF n, Here
  <2> QED
    BY <1>1, <1>2, <1>3, <1>9, <2>1, <2>2, OwnAfterClose
<1>10. MaxChunks <= 1 => Target(n) \in Vals(c)
  BY <1>9 DEF Vals
<1> HIDE DEF n, Here
<1> QED
  BY <1>1, <1>2, <1>6, <1>7, <1>8, <1>9, <1>10, CloseStep

\* thread_cleanup closes the connection; one that left by itself had closed
\* everything else.
LEMMA CleanupCloseKeepsDesc ==
  ASSUME ControlInv, DescInv, NEW c \in Conns, CleanupClose(c)
  PROVE  DescInv'
<1>1. /\ pc[c] = "c_close" \/ (pc[c] = "exit" /\ ~cancelled[c])
      /\ CloseFd(client_fd[c]) /\ Goto(c, "c_remove")
      /\ UNCHANGED <<mpc, cur, cancelled, client_fd, file_fd, read_fd, buffer,
                     chunks, tinfo>>
  BY DEF CleanupClose, At, outer, main, list, input, own_fds
<1>2. /\ HeldBy(c) /\ FreshOf(c) /\ ReturnedBy(c) /\ (MaxChunks <= 1 => OwnBy(c))
      /\ pc'[c] = "c_remove" /\ client_fd[c] \in Fds \cup {-1}
  BY <1>1 DEF ControlInv, MutexInv, Goto, DescInv, DescOf, DescTypes
<1>3. /\ ~Has(Conn(c))'
      /\ \A v \in Vals(c) : Has(v)' => Has(v)
  BY <1>1, <1>2, ClosedSlots
<1>4. ReturnedBy(c)'
  <2>1. pc[c] = "c_close" => cancelled[c]
    BY DEF ControlInv, ThreadShape
  <2>2. ASSUME ~cancelled'[c], buffer'[c].kind \in Kinds
        PROVE  \A v \in Vals(c) : ~Has(v)'
    <3>1. pc[c] = "exit" /\ buffer[c].kind \in Kinds
      BY <1>1, <2>1, <2>2
    <3>2. ~Has(File(AppendFile(c)))
      BY <1>2, <3>1 DEF ReturnedBy
    <3>3. ~Has(File(ReadFile(c)))
      BY <1>2, <3>1 DEF HeldBy, Has, Reading, Gone, Cleaning
    <3> QED
      BY <1>3, <3>2, <3>3 DEF Vals
  <2> QED
    BY <1>2, <2>2 DEF ReturnedBy, Reading
<1>5. FreshOf(c)'
  BY <1>2 DEF FreshOf, Filing, Reading
<1>6. ASSUME MaxChunks <= 1 PROVE Target(client_fd[c]) \in Vals(c) /\ OwnBy(c)'
  <2>1. Target(client_fd[c]) = Conn(c)
    BY <1>1, <1>2, <1>6 DEF OwnBy
  <2>2. ~(mpc \in Accepting /\ c = cur)
    BY <1>1 DEF ControlInv, MainShape
  <2> QED
    BY <1>1, <1>2, <2>1, <2>2 DEF OwnBy, Vals, Filing, Reading
<1>7. "c_remove" \in Gone
  BY DEF Gone, Cleaning
<1> QED
  BY <1>1, <1>2, <1>4, <1>5, <1>6, <1>7, CloseStep
\* What becomes of the slots of c when v is opened in the lowest free one.
LEMMA OpenedSlots ==
  ASSUME DescInv, NEW c \in Conns, NEW v \in Vals(c), ~Has(v),
         fds' = [fds EXCEPT ![LowestFree] = v]
  PROVE  /\ LowestFree \in Fds /\ fds' \in [Fds -> Slots] /\ fds'[LowestFree] = v
         /\ \A n \in Fds : n # LowestFree => fds'[n] = fds[n]
         /\ \A n \in Fds : fds'[n] = v => n = LowestFree
         /\ \A w \in Vals(c) \ {v} : Has(w)' => Has(w)
         /\ \A m : Target(m) \in Vals(c) => Target(m)' = Target(m)
         /\ \A d \in Conns \ {c} : \A n \in Fds :
              (fds'[n] \in Vals(d) \/ fds[n] \in Vals(d)) => fds'[n] = fds[n]
<1>1. LowestFree \in Fds /\ fds[LowestFree] = Closed
  BY RoomForOneMore
<1>2. fds \in [Fds -> Slots] /\ v \in Slots /\ Closed \notin Vals(c)
  BY ValuesDiffer DEF DescInv, DescTypes, Slots
<1>3. \A n \in Fds : fds'[n] = IF n = LowestFree THEN v ELSE fds[n]
  BY <1>1, <1>2
<1>4. fds' \in [Fds -> Slots]
  BY <1>1, <1>2
<1>5. fds'[LowestFree] = v
  BY <1>1, <1>3
<1>6. \A w \in Vals(c) \ {v} : Has(w)' => Has(w)
  BY <1>3 DEF Has
<1>7. \A m : Target(m) \in Vals(c) => Target(m)' = Target(m)
  BY <1>1, <1>2, <1>3 DEF Target
<1>8. ASSUME NEW d \in Conns \ {c}, NEW n \in Fds,
             fds'[n] \in Vals(d) \/ fds[n] \in Vals(d)
      PROVE  fds'[n] = fds[n]
  <2>1. Closed \notin Vals(d) /\ v \notin Vals(d)
    BY ValuesDiffer
  <2> QED
    BY <1>1, <1>3, <1>8, <2>1
<1> QED
  BY <1>1, <1>3, <1>4, <1>5, <1>6, <1>7, <1>8 DEF Has

\* A step of c or for c, in which it may open something.
LEMMA OpenStep ==
  ASSUME DescInv, NEW c \in Conns, NEW v \in Vals(c), ~Has(v),
         fds' = [fds EXCEPT ![LowestFree] = v],
         \A d \in Conns \ {c} :
           /\ pc'[d] = pc[d] /\ client_fd'[d] = client_fd[d]
           /\ file_fd'[d] = file_fd[d] /\ read_fd'[d] = read_fd[d]
           /\ tinfo[d] # "none" => tinfo'[d] # "none"
           /\ mpc' \in Accepting /\ d = cur' => mpc \in Accepting /\ d = cur,
         UNCHANGED <<buffer, chunks, cancelled>>,
         DescTypes', DescOf(c)'
  PROVE  DescInv'
<1>1. ASSUME NEW d \in Conns \ {c} PROVE LeavesAlone(d)
  <2>1. \A n \in Fds : (fds'[n] \in Vals(d) \/ fds[n] \in Vals(d)) => fds'[n] = fds[n]
    BY OpenedSlots
  <2> QED
    BY <2>1 DEF LeavesAlone
<1> QED
  BY <1>1, OneConnection

\* The thread opens the device for appending, before anything has come in.
LEMMA OpenFileKeepsDesc ==
  ASSUME ControlInv, DescInv, NEW c \in Conns, OpenFile(c)
  PROVE  DescInv'
<1>1. /\ pc[c] = "open" /\ Goto(c, "recv")
      /\ UNCHANGED <<mpc, cur, cancelled, client_fd, read_fd, buffer, chunks, tinfo>>
      /\ \/ /\ file_fd' = [file_fd EXCEPT ![c] = LowestFree]
            /\ fds' = [fds EXCEPT ![LowestFree] = File(AppendFile(c))]
         \/ UNCHANGED <<file_fd, fds>>
  BY DEF OpenFile, Runs, At, outer, main, list, input
<1>2. /\ HeldBy(c) /\ FreshOf(c) /\ ReturnedBy(c) /\ (MaxChunks <= 1 => OwnBy(c))
      /\ pc'[c] = "recv" /\ \A d \in Conns \ {c} : pc'[d] = pc[d]
      /\ DescTypes
  BY <1>1 DEF ControlInv, MutexInv, Goto, DescInv, DescOf
<1>3. /\ file_fd[c] = -1 /\ chunks[c] = 0 /\ buffer[c].kind \notin Kinds
  BY <1>1, <1>2 DEF FreshOf, NoChunk, Kinds
<1>4. FreshOf(c)' /\ ReturnedBy(c)'
  BY <1>1, <1>2, <1>3 DEF FreshOf, ReturnedBy, Filing, Reading
<1>5. CASE UNCHANGED <<file_fd, fds>>
  <2>1. UNCHANGED table
    BY <1>1, <1>5 DEF table
  <2>2. HeldBy(c)'
    BY <1>1, <1>2, <2>1, QuietHeld DEF Reading, Gone, Cleaning
  <2>3. ASSUME MaxChunks <= 1 PROVE OwnBy(c)'
    <3>1. Target(client_fd[c])' = Target(client_fd[c])
      BY <2>1 DEF table, Target
    <3>2. Target(client_fd[c]) = Conn(c)
      BY <1>1, <1>2, <2>3 DEF OwnBy
    <3> QED
      BY <1>1, <1>2, <1>3, <1>5, <3>1, <3>2 DEF OwnBy, Filing, Reading
  <2>4. DescOf(c)'
    BY <1>4, <2>2, <2>3 DEF DescOf
  <2>5. DOMAIN buffer' = Conns
    BY <1>1, <1>2 DEF DescTypes
  <2> QED
    BY <1>1, <2>1, <2>4, <2>5, QuietStep
<1>6. CASE /\ file_fd' = [file_fd EXCEPT ![c] = LowestFree]
           /\ fds' = [fds EXCEPT ![LowestFree] = File(AppendFile(c))]
  <2> DEFINE v == File(AppendFile(c))
  <2>1. v \in Vals(c) /\ ~Has(v)
    BY <1>1, <1>2 DEF Vals, HeldBy, Has
  <2>2. /\ LowestFree \in Fds /\ fds' \in [Fds -> Slots] /\ fds'[LowestFree] = v
        /\ \A n \in Fds : n # LowestFree => fds'[n] = fds[n]
        /\ \A n \in Fds : fds'[n] = v => n = LowestFree
        /\ \A m : Target(m) \in Vals(c) => Target(m)' = Target(m)
    BY <1>6, <2>1, OpenedSlots
  <2>3. file_fd'[c] = LowestFree /\ \A d \in Conns \ {c} : file_fd'[d] = file_fd[d]
    BY <1>2, <1>6 DEF DescTypes
  <2>4. DescTypes'
    BY <1>1, <1>2, <1>6, <2>2 DEF DescTypes
  <2>5. v # Conn(c) /\ v # File(ReadFile(c))
    BY ValuesDiffer
  <2> HIDE DEF v
  <2>6. HeldBy(c)'
    <3>1. ASSUME NEW n \in Fds, n # LowestFree PROVE fds'[n] = fds[n]
      BY <2>2, <3>1
    <3>2. pc[c] \notin Reading \cup Gone
      BY <1>1 DEF Reading, Gone, Cleaning
    <3>3. fds'[LowestFree] = v
      BY <2>2
    <3> QED
      BY <1>1, <1>2, <2>2, <2>3, <2>5, <3>1, <3>2, <3>3 DEF HeldBy, v
  <2>7. ASSUME MaxChunks <= 1 PROVE OwnBy(c)'
    <3>1. Target(client_fd[c]) = Conn(c) /\ Conn(c) \in Vals(c)
      BY <1>1, <1>2, <2>7 DEF OwnBy, Vals
    <3>2. Target(client_fd[c])' = Conn(c)
      BY <1>1, <2>2, <3>1 DEF Target
    <3>3. Target(file_fd[c])' = v
      BY <2>2, <2>3 DEF Target
    <3> QED
      BY <1>1, <1>2, <3>2, <3>3 DEF OwnBy, Filing, Reading, v
  <2>8. DescOf(c)'
    BY <1>4, <2>6, <2>7 DEF DescOf
  <2> QED
    BY <1>1, <1>2, <1>6, <2>1, <2>3, <2>4, <2>8, OpenStep DEF v
<1> QED
  BY <1>1, <1>5, <1>6

\* It opens it again to read the answer, having closed what it wrote to.
LEMMA OpenReadKeepsDesc ==
  ASSUME ControlInv, DescInv, NEW c \in Conns, OpenRead(c)
  PROVE  DescInv'
<1>1. /\ pc[c] = "open_read"
      /\ UNCHANGED <<mpc, cur, cancelled, client_fd, file_fd, buffer, chunks, tinfo>>
      /\ \/ /\ read_fd' = [read_fd EXCEPT ![c] = LowestFree]
            /\ fds' = [fds EXCEPT ![LowestFree] = File(ReadFile(c))]
            /\ Goto(c, "read")
         \/ UNCHANGED <<read_fd, fds>> /\ Goto(c, "exit")
  BY DEF OpenRead, Runs, At, outer, main, list, input
<1>2. /\ HeldBy(c) /\ FreshOf(c) /\ ReturnedBy(c) /\ (MaxChunks <= 1 => OwnBy(c))
      /\ DescTypes /\ pc \in [Conns -> Labels]
  BY DEF ControlInv, MutexInv, DescInv, DescOf
<1>3. chunks[c] # 0 /\ ~Has(File(AppendFile(c)))
  BY <1>1, <1>2 DEF FreshOf, ReturnedBy
<1>5. CASE UNCHANGED <<read_fd, fds>> /\ Goto(c, "exit")
  <2>1. UNCHANGED table /\ pc'[c] = "exit"
    BY <1>1, <1>2, <1>5 DEF table, Goto
  <2>2. pc[c] \notin Reading \cup Gone
    BY <1>1 DEF Reading, Gone, Cleaning
  <2>3. HeldBy(c)' /\ \A w : Has(w)' <=> Has(w)
    BY <1>1, <1>2, <2>1, <2>2, QuietHeld
  <2>4. FreshOf(c)' /\ ReturnedBy(c)'
    BY <1>1, <1>2, <1>3, <2>1, <2>3 DEF FreshOf, ReturnedBy, Filing, Reading
  <2>5. ASSUME MaxChunks <= 1 PROVE OwnBy(c)'
    <3>1. Target(client_fd[c])' = Target(client_fd[c])
      BY <2>1 DEF table, Target
    <3>2. Target(client_fd[c]) = Conn(c)
      BY <1>1, <1>2, <2>5 DEF OwnBy
    <3> QED
      BY <1>1, <2>1, <3>1, <3>2 DEF OwnBy, Filing, Reading
  <2>6. DescOf(c)'
    BY <2>3, <2>4, <2>5 DEF DescOf
  <2>7. DOMAIN buffer' = Conns
    BY <1>1, <1>2 DEF DescTypes
  <2> QED
    BY <1>1, <1>5, <2>1, <2>6, <2>7, QuietStep
<1>6. CASE /\ read_fd' = [read_fd EXCEPT ![c] = LowestFree]
           /\ fds' = [fds EXCEPT ![LowestFree] = File(ReadFile(c))]
           /\ Goto(c, "read")
  <2> DEFINE v == File(ReadFile(c))
  <2>1. v \in Vals(c) /\ ~Has(v)
    BY <1>1, <1>2 DEF Vals, HeldBy, Has, Reading, Gone, Cleaning
  <2>2. /\ LowestFree \in Fds /\ fds' \in [Fds -> Slots] /\ fds'[LowestFree] = v
        /\ \A n \in Fds : n # LowestFree => fds'[n] = fds[n]
        /\ \A n \in Fds : fds'[n] = v => n = LowestFree
        /\ \A w \in Vals(c) \ {v} : Has(w)' => Has(w)
        /\ \A m : Target(m) \in Vals(c) => Target(m)' = Target(m)
    BY <1>6, <2>1, OpenedSlots
  <2>3. read_fd'[c] = LowestFree /\ \A d \in Conns \ {c} : read_fd'[d] = read_fd[d]
    BY <1>2, <1>6 DEF DescTypes
  <2>p. pc'[c] = "read" /\ \A d \in Conns \ {c} : pc'[d] = pc[d]
    BY <1>2, <1>6 DEF Goto
  <2>4. DescTypes'
    BY <1>1, <1>2, <1>6, <2>2 DEF DescTypes
  <2>5. v # Conn(c) /\ v # File(AppendFile(c))
    BY ValuesDiffer
  <2> HIDE DEF v
  <2>6. HeldBy(c)'
    <3>1. ASSUME NEW n \in Fds, n # LowestFree PROVE fds'[n] = fds[n]
      BY <2>2, <3>1
    <3>2. fds'[LowestFree] = v
      BY <2>2
    <3>3. \A n \in Fds : fds[n] # v
      BY <2>1 DEF Has
    <3> QED
      BY <1>1, <1>2, <2>2, <2>3, <2>5, <2>p, <3>1, <3>2, <3>3 DEF HeldBy, v, Reading
  <2>7. ASSUME MaxChunks <= 1 PROVE OwnBy(c)'
    <3>1. Target(client_fd[c]) = Conn(c) /\ Conn(c) \in Vals(c)
      BY <1>1, <1>2, <2>7 DEF OwnBy, Vals
    <3>2. Target(client_fd[c])' = Conn(c)
      BY <1>1, <2>2, <3>1 DEF Target
    <3>3. Target(read_fd[c])' = v
      BY <2>2, <2>3 DEF Target
    <3> QED
      BY <1>1, <2>p, <3>2, <3>3 DEF OwnBy, Filing, v
  <2>8. FreshOf(c)' /\ ReturnedBy(c)'
    <3>1. ~Has(File(AppendFile(c)))'
      BY <1>3, <2>2, <2>5 DEF Vals
    <3> QED
      BY <1>1, <1>3, <2>p, <3>1 DEF FreshOf, ReturnedBy
  <2>9. DescOf(c)'
    BY <2>6, <2>7, <2>8 DEF DescOf
  <2> QED
    BY <1>1, <1>2, <1>6, <2>1, <2>3, <2>p, <2>4, <2>9, OpenStep DEF v
<1> QED
  BY <1>1, <1>5, <1>6
\* A new connection gets a descriptor of its own.
LEMMA AcceptKeepsDesc ==
  ASSUME ControlInv, DescInv, NEW c \in Conns, Accept(c)
  PROVE  DescInv'
<1>1. /\ pc[c] = "none" /\ tinfo[c] = "none" /\ mpc = "accept"
      /\ client_fd' = [client_fd EXCEPT ![c] = LowestFree]
      /\ fds' = [fds EXCEPT ![LowestFree] = Conn(c)]
      /\ tinfo' = [tinfo EXCEPT ![c] = "live"] /\ cur' = c
      /\ UNCHANGED <<pc, cancelled, file_fd, read_fd, buffer, chunks>>
  BY DEF Accept, At, MainAt, stopping, thread, input, own_fds
<1>2. /\ HeldBy(c) /\ FreshOf(c) /\ ReturnedBy(c) /\ (MaxChunks <= 1 => OwnBy(c))
      /\ DescTypes /\ tinfo \in [Conns -> {"none", "live", "freed"}]
  BY DEF ControlInv, ControlTypes, DescInv, DescOf
<1> DEFINE v == Conn(c)
<1>3. v \in Vals(c) /\ ~Has(v)
  BY <1>1, <1>2 DEF Vals, HeldBy, Has
<1>4. /\ LowestFree \in Fds /\ fds' \in [Fds -> Slots] /\ fds'[LowestFree] = v
      /\ \A n \in Fds : n # LowestFree => fds'[n] = fds[n]
      /\ \A n \in Fds : fds'[n] = v => n = LowestFree
      /\ \A m : Target(m) \in Vals(c) => Target(m)' = Target(m)
  BY <1>1, <1>3, OpenedSlots
<1>5. /\ client_fd'[c] = LowestFree /\ tinfo'[c] = "live"
      /\ \A d \in Conns \ {c} : client_fd'[d] = client_fd[d] /\ tinfo'[d] = tinfo[d]
  BY <1>1, <1>2 DEF DescTypes
<1>6. DescTypes'
  BY <1>1, <1>2, <1>4 DEF DescTypes
<1>7. v # File(AppendFile(c)) /\ v # File(ReadFile(c))
  BY ValuesDiffer
<1> HIDE DEF v
<1>8. HeldBy(c)'
  <2>1. ASSUME NEW n \in Fds, n # LowestFree PROVE fds'[n] = fds[n]
    BY <1>4, <2>1
  <2>2. fds'[LowestFree] = v /\ \A n \in Fds : fds[n] # v
    BY <1>3, <1>4 DEF Has
  <2> QED
    BY <1>1, <1>2, <1>4, <1>5, <1>7, <2>1, <2>2 DEF HeldBy, v
<1>9. FreshOf(c)' /\ ReturnedBy(c)'
  BY <1>1, <1>2 DEF FreshOf, ReturnedBy, Filing, Reading
<1>10. OwnBy(c)'
  <2>1. Target(client_fd[c])' = v
    BY <1>4, <1>5 DEF Target
  <2> QED
    BY <1>1, <2>1 DEF OwnBy, Filing, Reading, v
<1>11. DescOf(c)'
  BY <1>8, <1>9, <1>10 DEF DescOf
<1> QED
  BY <1>1, <1>3, <1>5, <1>6, <1>11, OpenStep DEF v

\* A step of main or of a cleanup that touches no descriptor.
LEMMA StillKeepsDesc ==
  ASSUME DescInv, UNCHANGED <<table, pc, buffer, chunks>>,
         \A d \in Conns :
           /\ cancelled[d] => cancelled'[d]
           /\ tinfo[d] # "none" => tinfo'[d] # "none"
           /\ mpc' \in Accepting /\ d = cur' => mpc \in Accepting /\ d = cur
  PROVE  DescInv'
<1>1. ASSUME NEW d \in Conns PROVE LeavesAlone(d)
  BY DEF LeavesAlone, table
<1>2. DescTypes'
  BY DEF DescInv, DescTypes, table
<1> QED
  BY <1>1, <1>2, OtherKeeps DEF DescInv

\* The last two steps of a thread.
LEMMA CleanupEndKeepsDesc ==
  ASSUME ControlInv, DescInv, NEW c \in Conns, CleanupRemove(c) \/ CleanupFree(c)
  PROVE  DescInv'
<1>1. PICK label \in {"c_free", "ended"} :
        /\ pc[c] \in {"c_remove", "c_free"} /\ Goto(c, label)
        /\ UNCHANGED <<table, mpc, cur, cancelled, buffer, chunks>>
        /\ tinfo' = tinfo \/ tinfo' = [tinfo EXCEPT ![c] = "freed"]
  <2>1. CASE CleanupRemove(c)
    BY <2>1 DEF CleanupRemove, At, stopping, input, descs, own_fds, table
  <2>2. CASE CleanupFree(c)
    BY <2>2 DEF CleanupFree, At, stopping, input, descs, own_fds, table
  <2> QED
    BY <2>1, <2>2
<1>2. /\ HeldBy(c) /\ FreshOf(c) /\ ReturnedBy(c) /\ (MaxChunks <= 1 => OwnBy(c))
      /\ DescTypes /\ pc'[c] = label
      /\ \A d \in Conns : tinfo[d] # "none" => tinfo'[d] # "none"
  BY <1>1 DEF ControlInv, ControlTypes, MutexInv, Goto, DescInv, DescOf
<1>3. {"c_remove", "c_free", "ended"} \subseteq Gone
  BY DEF Gone, Cleaning
<1>4. HeldBy(c)' /\ \A w : Has(w)' <=> Has(w)
  BY <1>1, <1>2, <1>3, QuietHeld
<1>5. FreshOf(c)'
  BY <1>1, <1>2 DEF FreshOf, Filing, Reading
<1>6. ReturnedBy(c)'
  BY <1>1, <1>2, <1>4 DEF ReturnedBy, Reading
<1>7. OwnBy(c)'
  <2>1. ~(mpc \in Accepting /\ c = cur)
    BY <1>1 DEF ControlInv, MainShape
  <2> QED
    BY <1>1, <1>2, <2>1 DEF OwnBy, Filing, Reading
<1>8. DescOf(c)'
  BY <1>4, <1>5, <1>6, <1>7 DEF DescOf
<1>9. DOMAIN buffer' = Conns
  BY <1>1, <1>2 DEF DescTypes
<1>10. UNCHANGED <<table, mpc, cur, cancelled>>
  BY <1>1
<1> QED
  BY <1>1, <1>2, <1>8, <1>9, <1>10, QuietStep

\* Starting the thread hands the connection over to it; undoing closes it.
LEMMA AcceptingKeepsDesc ==
  ASSUME ControlInv, DescInv, Insert \/ Create \/ UndoRemove \/ UndoFree
  PROVE  DescInv'
<1>1. CASE Insert \/ UndoRemove
  <2>1. /\ UNCHANGED <<table, pc, buffer, chunks, cancelled, tinfo, cur>>
        /\ mpc \in Accepting
    BY <1>1 DEF Insert, UndoRemove, MainAt, stopping, threads, thread, input,
                descs, own_fds, table, Accepting
  <2> QED
    BY <2>1, StillKeepsDesc
<1>2. CASE Create
  <2>1. /\ mpc = "create" /\ mpc \in Accepting /\ cur \in Conns /\ pc[cur] = "none"
        /\ UNCHANGED <<table, buffer, chunks, cancelled, tinfo, cur>>
    BY <1>2 DEF Create, MainAt, stopping, input, descs, own_fds, list, table,
                ControlInv, MainShape, Accepting
  <2>2. CASE mpc' = "u_remove" /\ UNCHANGED pc
    BY <2>1, <2>2, StillKeepsDesc
  <2>3. CASE mpc' = "accept" /\ Goto(cur, "open")
    <3> DEFINE c == cur
    <3>1. /\ HeldBy(c) /\ FreshOf(c) /\ ReturnedBy(c) /\ (MaxChunks <= 1 => OwnBy(c))
          /\ DescTypes /\ pc'[c] = "open" /\ \A d \in Conns \ {c} : pc'[d] = pc[d]
      BY <2>1, <2>3 DEF ControlInv, MutexInv, Goto, DescInv, DescOf
    <3>2. mpc' \notin Accepting
      BY <2>3 DEF Accepting
    <3>3. ASSUME NEW d \in Conns \ {c} PROVE LeavesAlone(d)
      BY <2>1, <3>1, <3>2 DEF LeavesAlone, table
    <3>4. HeldBy(c)'
      BY <2>1, <3>1 DEF HeldBy, table, Reading, Gone, Cleaning
    <3>5. FreshOf(c)' /\ ReturnedBy(c)'
      BY <2>1, <3>1 DEF FreshOf, ReturnedBy, table, Filing, Reading
    <3>6. ASSUME MaxChunks <= 1 PROVE OwnBy(c)'
      <4>1. Target(client_fd[c]) = Conn(c)
        BY <2>1, <3>1, <3>6 DEF OwnBy
      <4>2. Target(client_fd[c])' = Target(client_fd[c])
        BY <2>1 DEF table, Target
      <4> QED
        BY <2>1, <3>1, <3>2, <4>1, <4>2 DEF OwnBy, Filing, Reading
    <3>7. DescOf(c)'
      BY <3>4, <3>5, <3>6 DEF DescOf
    <3>8. DescTypes'
      BY <2>1, <3>1 DEF DescTypes, table
    <3> QED
      BY <2>1, <3>3, <3>7, <3>8, OneConnection
  <2> QED
    BY <1>2, <2>2, <2>3 DEF Create, MainGoto
<1>3. CASE UndoFree
  <2>1. /\ mpc = "u_free" /\ mpc \in Accepting /\ cur \in Conns /\ pc[cur] = "none"
        /\ CloseFd(client_fd[cur]) /\ tinfo' = [tinfo EXCEPT ![cur] = "freed"]
        /\ mpc' = "accept"
        /\ UNCHANGED <<buffer, chunks, client_fd, file_fd, read_fd, cancelled, pc, cur>>
    BY <1>3 DEF UndoFree, MainAt, MainGoto, stopping, thread, input, own_fds,
                ControlInv, MainShape, Accepting
  <2>2. PICK c \in Conns : c = cur
    BY <2>1
  <2>3. /\ HeldBy(c) /\ FreshOf(c) /\ ReturnedBy(c) /\ (MaxChunks <= 1 => OwnBy(c))
        /\ DescTypes /\ client_fd[c] \in Fds \cup {-1}
        /\ \A d \in Conns : tinfo[d] # "none" => tinfo'[d] # "none"
    BY <2>1 DEF ControlInv, ControlTypes, DescInv, DescOf, DescTypes
  <2>4. mpc' \notin Accepting
    BY <2>1 DEF Accepting
  <2>5. MaxChunks <= 1 => Target(client_fd[c]) \in Vals(c)
    BY <2>1, <2>2, <2>3 DEF OwnBy, Vals
  <2>6. CloseFd(client_fd[c])
    BY <2>1, <2>2
  <2>7. ASSUME NEW d \in Conns \ {c} PROVE LeavesAlone(d)
    BY <2>1, <2>3, <2>4, <2>5, <2>6, ClosingLeavesAlone
  <2>8. fds' \in [Fds -> Slots]
    BY <2>3, <2>6, ClosedSlots
  <2>9. DescTypes'
    BY <2>1, <2>3, <2>8 DEF DescTypes
  <2>10. HeldBy(c)'
    <3>1. fds' = [m \in Fds |-> IF m = client_fd[c] THEN Closed ELSE fds[m]]
      BY <2>6 DEF CloseFd
    <3>2. Closed \notin Vals(c)
      BY ValuesDiffer
    <3>3. \A m \in Fds : fds'[m] \in Vals(c) => fds[m] = fds'[m]
      BY <3>1, <3>2
    <3> QED
      BY <2>1, <2>3, <3>3 DEF HeldBy, Vals
  <2>11. FreshOf(c)' /\ ReturnedBy(c)'
    BY <2>1, <2>2, <2>3 DEF FreshOf, ReturnedBy, Filing, Reading
  <2>12. OwnBy(c)'
    BY <2>1, <2>2, <2>4 DEF OwnBy, Filing, Reading
  <2>13. DescOf(c)'
    BY <2>10, <2>11, <2>12 DEF DescOf
  <2> QED
    BY <2>7, <2>9, <2>13, OneConnection
<1> QED
  BY <1>1, <1>2, <1>3

\* Shutting down touches no descriptor but the listening one.
LEMMA ShutdownKeepsDesc ==
  ASSUME ControlInv, DescInv,
         \/ Signal \/ StopLock \/ Cancel \/ LoopEnds \/ Join \/ Reap
         \/ UseAfterFree
  PROVE  DescInv'
<1> SUFFICES /\ UNCHANGED <<table, pc, buffer, chunks, cur>>
             /\ mpc' \notin Accepting \/ mpc' = mpc
             /\ \A d \in Conns : /\ cancelled[d] => cancelled'[d]
                                 /\ tinfo[d] # "none" => tinfo'[d] # "none"
  BY StillKeepsDesc
<1> USE DEF threads, thread, input, descs, own_fds, table, main, stopping, list,
            MainGoto, Accepting
<1>1. CASE Signal
  BY <1>1 DEF Signal
<1>2. CASE StopLock
  BY <1>2 DEF StopLock
<1>3. CASE Cancel
  BY <1>3 DEF Cancel, ControlInv, MutexInv
<1>4. CASE LoopEnds
  BY <1>4 DEF LoopEnds
<1>5. CASE Join
  BY <1>5 DEF Join
<1>6. CASE Reap
  <2>1. \A d \in Conns : tinfo[d] # "none" => tinfo'[d] # "none"
    BY <1>6 DEF Reap, ControlInv, ControlTypes
  <2> QED
    BY <1>6, <2>1 DEF Reap
<1>7. CASE UseAfterFree
  BY <1>7 DEF UseAfterFree
<1> QED
  BY <1>1, <1>2, <1>3, <1>4, <1>5, <1>6, <1>7
\* Every step keeps the invariant of the descriptors.
LEMMA NextKeepsDesc ==
  ASSUME ControlInv, DescInv, [Next]_vars
  PROVE  DescInv'
<1>1. CASE UNCHANGED vars
  <2>1. UNCHANGED <<table, pc, buffer, chunks, cancelled, tinfo, mpc, cur>>
    BY <1>1 DEF vars, main, thread, input, descs, own_fds, list, table
  <2> QED
    BY <2>1, StillKeepsDesc
<1>2. ASSUME NEW c \in Conns, Serve(c) \/ Client(c) PROVE DescInv'
  <2>1. CASE QuietSteps(c)
    BY <2>1, QuietStepsKeepDesc
  <2>2. CASE SeekClose(c) \/ CloseFile(c) \/ CloseRead(c)
    BY <2>2, FileClosesKeepDesc
  <2>3. CASE OpenFile(c)
    BY <2>3, OpenFileKeepsDesc
  <2>4. CASE OpenRead(c)
    BY <2>4, OpenReadKeepsDesc
  <2>5. CASE RecvChunk(c)
    BY <2>5, RecvKeepsDesc
  <2>6. CASE Accept(c)
    BY <2>6, AcceptKeepsDesc
  <2>7. CASE CleanupClose(c)
    BY <2>7, CleanupCloseKeepsDesc
  <2>8. CASE CleanupRemove(c) \/ CleanupFree(c)
    BY <2>8, CleanupEndKeepsDesc
  <2> QED
    BY <1>2, <2>1, <2>2, <2>3, <2>4, <2>5, <2>6, <2>7, <2>8
       DEF Serve, Client, QuietSteps
<1>3. CASE MainStep \/ Signal
  BY <1>3, AcceptingKeepsDesc, ShutdownKeepsDesc DEF MainStep
<1> QED
  BY <1>1, <1>2, <1>3 DEF Next

\* Both invariants hold together.
LEMMA ServerInv == Spec => [](ControlInv /\ DescInv)
<1>1. Init => ControlInv /\ DescInv
  BY ControlInvInit, DescInvInit
<1>2. ControlInv /\ DescInv /\ [Next]_vars => (ControlInv /\ DescInv)'
  BY NextKeepsControl, NextKeepsDesc
<1> QED
  BY <1>1, <1>2, PTL DEF Spec

\* Every variable of the server has its type: the kernel always finds a free
\* descriptor, and no pointer of the list or of main leads anywhere but to a
\* block.
THEOREM ServerTypeCorrect == Spec => []TypeOK
<1>1. ASSUME ControlInv, DescInv PROVE TypeOK
  <2>1. Slots \subseteq {Closed} \cup {Conn(c) : c \in Conns}
                          \cup {File(f) : f \in Files}
    <3>1. \A c \in Conns : AppendFile(c) \in Files /\ ReadFile(c) \in Files
      BY DEF AppendFile, ReadFile, Files
    <3> QED
      BY <3>1 DEF Slots, Vals
  <2>2. fds \in [Fds -> {Closed} \cup {Conn(c) : c \in Conns}
                                 \cup {File(f) : f \in Files}]
    BY <1>1, <2>1 DEF DescInv, DescTypes
  <2> QED
    BY <1>1, <2>2 DEF ControlInv, ControlTypes, MainLabels, MutexInv, DescInv,
                      DescTypes, TypeOK
<1> QED
  BY <1>1, ServerInv, PTL

\* A thread that leaves by itself after a line or a seek has returned every
\* descriptor it was given, whatever failed on the way and however many threads
\* share the table (handle_client 211-301, thread_cleanup 188-203).
THEOREM EverythingIsClosed == Spec => []NothingLeftOpen
<1>1. ASSUME ControlInv, DescInv PROVE NothingLeftOpen
  <2> SUFFICES ASSUME NEW c \in Conns, pc[c] = "ended", ~cancelled[c],
                      buffer[c].kind \in {"data", "seek"}
               PROVE  Vals(c) \cap Range(fds) = {}
    BY DEF NothingLeftOpen, At, Vals
  <2>1. \A v \in Vals(c) : ~Has(v)
    BY <1>1 DEF DescInv, DescOf, ReturnedBy, Kinds
  <2>2. \A v \in Range(fds) : Has(v)
    BY <1>1 DEF DescInv, DescTypes, Has, Range
  <2> QED
    BY <2>1, <2>2
<1> QED
  BY <1>1, ServerInv, PTL

\* As long as a connection sends one chunk at most, no thread writes to, reads
\* from or closes what is not its own, however the numbers of closed descriptors
\* are handed out again.  With two chunks it is not so: a thread keeps using the
\* number of the file it has closed (lines 254, 273, 277).
THEOREM OneChunkKeepsToItsOwn ==
  ASSUME MaxChunks <= 1
  PROVE  Spec => []OwnDescriptors
<1>1. ASSUME ControlInv, DescInv PROVE OwnDescriptors
  <2> SUFFICES ASSUME NEW c \in Conns
               PROVE  /\ pc[c] \in Labels \ {"none", "ended", "c_remove", "c_free"}
                           => Target(client_fd[c]) = Conn(c)
                      /\ pc[c] \in Filing => Target(file_fd[c]) = File(AppendFile(c))
                      /\ pc[c] \in Reading => Target(read_fd[c]) = File(ReadFile(c))
    BY DEF OwnDescriptors, Filing, Reading
  <2>1. OwnBy(c)
    BY <1>1 DEF DescInv, DescOf
  <2> QED
    BY <2>1 DEF OwnBy
<1> QED
  BY <1>1, ServerInv, PTL

-----------------------------------------------------------------------------
(***************************************************************************)
(* Answers.                                                                *)
(***************************************************************************)

HIDE ServerAssumption

\* The device's content, one command behind the other.
Content == FlattenSeq(cmds)

\* Every data chunk is a sequence of bytes of B, and so is each command that is
\* in the device when the server starts.
BytesOf(B) ==
  /\ \A c \in Conns : \A chunk \in Chunks[c] :
       chunk.kind = "data" => chunk.bytes \in Seq(B)
  /\ Stored \subseteq Seq(Seq(B))

\* A line bears its client's name, in front of its first newline.
LinesAreNamed ==
  \A c \in Conns : \A chunk \in Chunks[c] :
    chunk.kind = "data" /\ Last(chunk.bytes) = Newline
      => \E i \in DOMAIN chunk.bytes :
           chunk.bytes[i] = c /\ \A j \in 1 .. i - 1 : chunk.bytes[j] # Newline

Returns(B) == [status : {"OK", "EFAULT"}, data : Seq(B)]

DataTypes(B) ==
  /\ cmds \in Seq(Seq(B)) /\ partial \in Seq(B)
  /\ got \in [Conns -> Seq(B)]
  /\ undisturbed \in [Conns -> {"none", "open_read", "write"}]
  /\ f_pos \in [Files -> Nat]
  /\ dev_ret \in [Files -> Returns(B)]
  /\ DOMAIN buffer = Conns
  /\ \A c \in Conns : buffer[c] \in Chunks[c] \cup {NoChunk}

\* Bytes read and not sent yet, or never when the send has failed.
Pending(c) ==
  IF pc[c] \in {"send", "r_close"} THEN dev_ret[ReadFile(c)].data ELSE <<>>

Unanswered == {"none", "open", "recv", "ioctl", "lock_file", "no_file",
               "write", "w_close_err"}
Seeking == {"seek_read", "seek_send", "seek_close"}
Written == {"w_close", "open_read"} \cup Reading

\* What the client has been sent, with what is about to be sent, is what lay in
\* front of the thread's position when it last read, and still does while no
\* command goes out of the device; the thread's own line came in before.
AnswerOf(c) ==
  /\ pc[c] \in {"lock_file", "write"} => buffer[c].kind = "data"
  /\ pc[c] \in Unanswered \cup {"w_close", "open_read"} => got[c] = <<>>
  /\ pc[c] \in Unanswered \cup Seeking => undisturbed[c] = "none"
  /\ pc[c] = "w_close" /\ ~EndsLine(c) => undisturbed[c] = "none"
  /\ pc[c] \in Written /\ undisturbed[c] = "write" => OwnByte(c, Content)
  /\ pc[c] \in Reading /\ undisturbed[c] # "none"
       => /\ f_pos[ReadFile(c)] <= Len(Content)
          /\ got[c] \o Pending(c) = SubSeq(Content, 1, f_pos[ReadFile(c)])
  /\ pc[c] = "send" => dev_ret[ReadFile(c)].data # <<>>
  /\ Answered(c) /\ undisturbed[c] = "write" => OwnByte(c, got[c])

AnswerInv(B) == DataTypes(B) /\ \A c \in Conns : AnswerOf(c)

\* The device has what it had, and perhaps more.
Grows(B) == \E more \in Seq(B) : Content' = Content \o more

\* The content is made of bytes; a step that leaves the commands leaves it.
LEMMA ContentType ==
  ASSUME NEW B, DataTypes(B)
  PROVE  Content \in Seq(B) /\ (cmds' = cmds => Content' = Content /\ Grows(B))
<1>1. Content \in Seq(B)
  <2>1. <<>> \in Seq(B)
    OBVIOUS
  <2> QED
    BY <2>1, FlattenAppend DEF DataTypes, Content
<1>2. ASSUME cmds' = cmds PROVE Content' = Content
  BY <1>2 DEF Content
<1>3. Content \o <<>> = Content /\ <<>> \in Seq(B)
  BY <1>1, ConcatEmptySeq
<1> QED
  BY <1>1, <1>2, <1>3 DEF Grows

\* A system call on file f changes at most its own position and result.
OnlyAt(B, f) ==
  /\ f_pos' \in [Files -> Nat] /\ dev_ret' \in [Files -> Returns(B)]
  /\ \A g \in Files \ {f} : f_pos'[g] = f_pos[g] /\ dev_ret'[g] = dev_ret[g]

\* What the calls do that store nothing: open, release and the seek.
LEMMA OpenIsOnlyAt ==
  ASSUME NEW B, DataTypes(B), NEW f \in Files, Dev!Open(f)
  PROVE  /\ OnlyAt(B, f) /\ UNCHANGED <<cmds, partial, dev_ret>>
         /\ f_pos'[f] = 0
BY DEF DataTypes, OnlyAt, Dev!Open

\* close gives back the file, if there is one, and nothing else.
LEMMA CloseIsOnlyAt ==
  ASSUME NEW B, DataTypes(B), NEW n, CloseFd(n), NEW f \in Files,
         Target(n).kind = "file" => Target(n).file = f
  PROVE  OnlyAt(B, f) /\ UNCHANGED <<cmds, partial>>
<1>1. [status |-> "OK", data |-> <<>>] \in Returns(B)
  BY DEF Returns
<1>2. CASE Target(n).kind = "file"
  <2>1. /\ f_pos' = [f_pos EXCEPT ![f] = 0]
        /\ dev_ret' = [dev_ret EXCEPT ![f] = [status |-> "OK", data |-> <<>>]]
        /\ UNCHANGED <<cmds, partial>>
    BY <1>2 DEF CloseFd, Dev!Release, Dev!Return
  <2> QED
    BY <1>1, <2>1 DEF OnlyAt, DataTypes
<1>3. CASE Target(n).kind # "file"
  BY <1>3 DEF CloseFd, device, OnlyAt, DataTypes
<1> QED
  BY <1>2, <1>3

\* close of a socket does nothing to the device.
LEMMA CloseKeepsDevice ==
  ASSUME NEW n, CloseFd(n), NEW c, Target(n) = Conn(c)
  PROVE  UNCHANGED <<cmds, partial, f_pos, dev_ret>>
BY DEF CloseFd, Conn, device

\* The ioctl.
LEMMA SeekIsOnlyAt ==
  ASSUME NEW B, DataTypes(B), NEW f \in Files, NEW pos \in 0 .. Len(Content),
         f_pos' = [f_pos EXCEPT ![f] = pos], Dev!SeekCommand(f)
  PROVE  OnlyAt(B, f) /\ UNCHANGED <<cmds, partial>>
<1>1. /\ dev_ret' = [dev_ret EXCEPT ![f] = [status |-> "OK", data |-> <<>>]]
      /\ UNCHANGED <<cmds, partial>>
  BY DEF Dev!SeekCommand, Dev!Seek, Dev!Return
<1>2. pos \in Nat
  BY ContentType
<1>3. [status |-> "OK", data |-> <<>>] \in Returns(B)
  BY DEF Returns
<1> QED
  BY <1>1, <1>2, <1>3 DEF OnlyAt, DataTypes

\* A read at the end returns nothing; another returns the bytes from the
\* position on, one at least, and moves it behind them.
ReadsOn(f) ==
  \E last \in f_pos[f] + 1 .. Len(Content) :
    /\ dev_ret'[f].data = SubSeq(Content, f_pos[f] + 1, last)
    /\ dev_ret'[f].data # <<>>
    /\ f_pos'[f] = last

ReadsEnd(f) ==
  /\ f_pos[f] >= Len(Content) /\ dev_ret'[f].data = <<>> /\ f_pos'[f] = f_pos[f]

\* A read that fails returns nothing and moves nothing.
ReadFails(f) ==
  dev_ret'[f] = [status |-> "EFAULT", data |-> <<>>] /\ f_pos'[f] = f_pos[f]

\* It, too, leaves all other files alone.
LEMMA FailIsOnlyAt ==
  ASSUME NEW B, DataTypes(B), NEW f \in Files, Dev!Fail(f),
         dev_ret'[f].status = "EFAULT"
  PROVE  /\ OnlyAt(B, f) /\ UNCHANGED <<cmds, partial>>
         /\ ReadFails(f)
<1>1. PICK status \in {"ENOMEM", "EFAULT", "ERESTARTSYS", "EINVAL"} :
        dev_ret' = [dev_ret EXCEPT ![f] = [status |-> status, data |-> <<>>]]
  BY DEF Dev!Fail, Dev!Return
<1>2. UNCHANGED <<cmds, partial, f_pos>>
  BY DEF Dev!Fail
<1>3. dev_ret'[f] = [status |-> status, data |-> <<>>]
  BY <1>1 DEF DataTypes
<1>4. status = "EFAULT"
  BY <1>3
<1>5. [status |-> "EFAULT", data |-> <<>>] \in Returns(B)
  BY DEF Returns
<1> QED
  BY <1>1, <1>2, <1>3, <1>4, <1>5 DEF OnlyAt, DataTypes, ReadFails

\* A read does one or the other, to its own file only, and stores nothing.
LEMMA ReadIsOnlyAt ==
  ASSUME NEW B, DataTypes(B), NEW f \in Files, Dev!Read(f)
  PROVE  /\ OnlyAt(B, f) /\ UNCHANGED <<cmds, partial>>
         /\ ReadsOn(f) \/ ReadsEnd(f)
<1>1. Dev!FlattenSeq(cmds) = Content
  BY DEF Dev!FlattenSeq, FlattenSeq, Content
<1>2. Content \in Seq(B) /\ Len(Content) \in Nat /\ f_pos[f] \in Nat
      /\ f_pos \in [Files -> Nat] /\ dev_ret \in [Files -> Returns(B)]
  <2>1. Content \in Seq(B)
    BY ContentType
  <2> QED
    BY <2>1 DEF DataTypes
<1>3. UNCHANGED <<cmds, partial>>
  BY DEF Dev!Read
<1>4. CASE /\ f_pos[f] + 1 > Len(Content) /\ UNCHANGED f_pos
           /\ dev_ret' = [dev_ret EXCEPT ![f] = [status |-> "OK", data |-> <<>>]]
  <2>1. [status |-> "OK", data |-> <<>>] \in Returns(B)
    BY DEF Returns
  <2>2. dev_ret'[f].data = <<>>
    BY <1>2, <1>4
  <2> QED
    BY <1>2, <1>3, <1>4, <2>1, <2>2 DEF OnlyAt, ReadsEnd
<1>5. ASSUME NEW last \in f_pos[f] + 1 .. Len(Content),
             f_pos' = [f_pos EXCEPT ![f] = last],
             dev_ret' = [dev_ret EXCEPT ![f] =
                           [status |-> "OK",
                            data |-> SubSeq(Content, f_pos[f] + 1, last)]]
      PROVE  OnlyAt(B, f) /\ ReadsOn(f)
  <2> DEFINE bytes == SubSeq(Content, f_pos[f] + 1, last)
  <2>1. bytes \in Seq(B) /\ Len(bytes) = last - (f_pos[f] + 1) + 1
    <3>1. \A i \in f_pos[f] + 1 .. last : Content[i] \in B
      BY <1>2
    <3>2. f_pos[f] + 1 \in Int /\ last \in Int /\ f_pos[f] + 1 <= last
      BY <1>2
    <3> QED
      BY <3>1, <3>2, SubSeqProperties
  <2>2. Len(bytes) # 0 /\ last \in Nat
    BY <1>2, <2>1
  <2> HIDE DEF bytes
  <2>3. bytes # <<>> /\ [status |-> "OK", data |-> bytes] \in Returns(B)
    BY <2>1, <2>2 DEF Returns
  <2>4. dev_ret' = [dev_ret EXCEPT ![f] = [status |-> "OK", data |-> bytes]]
    BY <1>5 DEF bytes
  <2>5. dev_ret'[f].data = bytes /\ f_pos'[f] = last
    BY <1>2, <1>5, <2>4
  <2>6. OnlyAt(B, f)
    BY <1>2, <1>5, <2>2, <2>3, <2>4 DEF OnlyAt
  <2> QED
    BY <2>3, <2>5, <2>6 DEF ReadsOn, bytes
<1>6. \/ f_pos[f] + 1 > Len(Content) /\ UNCHANGED f_pos
         /\ dev_ret' = [dev_ret EXCEPT ![f] = [status |-> "OK", data |-> <<>>]]
      \/ \E last \in f_pos[f] + 1 .. Len(Content) :
           /\ f_pos' = [f_pos EXCEPT ![f] = last]
           /\ dev_ret' = [dev_ret EXCEPT ![f] =
                            [status |-> "OK",
                             data |-> SubSeq(Content, f_pos[f] + 1, last)]]
  BY <1>1 DEF Dev!Read, Dev!Return
<1> QED
  BY <1>3, <1>4, <1>5, <1>6
\* A write adds its bytes to what is typed, or ends a command with them; what
\* was there stays unless the oldest command goes out, and a line that is named
\* is in the device then.
LEMMA WriteGrows ==
  ASSUME NEW B, DataTypes(B), NEW f \in Files, NEW bytes \in Seq(B),
         Dev!WriteBytes(f, bytes)
  PROVE  /\ OnlyAt(B, f) /\ UNCHANGED f_pos
         /\ cmds' \in Seq(Seq(B)) /\ partial' \in Seq(B)
         /\ Drops \/ Grows(B)
         /\ \A c : Last(bytes) = Newline /\ (\E i \in DOMAIN bytes :
                      bytes[i] = c /\ \A j \in 1 .. i - 1 : bytes[j] # Newline)
                     => OwnByte(c, Content')
<1> DEFINE stop == {i \in DOMAIN bytes : bytes[i] = Newline}
           taken == IF stop = {} THEN bytes ELSE SubSeq(bytes, 1, Min(stop))
           typed == partial \o taken
           kept == IF Len(cmds) = Limit THEN Tail(cmds) ELSE cmds
<1>1. /\ IF stop = {} THEN partial' = typed /\ UNCHANGED cmds
                      ELSE partial' = <<>> /\ cmds' = Append(kept, typed)
      /\ dev_ret' = [dev_ret EXCEPT ![f] = [status |-> "OK", data |-> taken]]
      /\ UNCHANGED f_pos
  BY DEF Dev!WriteBytes, Dev!Return, Dev!Min, Min
<1>2. DOMAIN bytes = 1 .. Len(bytes) /\ Len(bytes) \in Nat
  OBVIOUS
<1>3. stop # {} => Min(stop) \in stop /\ \A i \in stop : Min(stop) <= i
  <2>1. stop \subseteq Nat
    BY <1>2
  <2> HIDE DEF stop
  <2> QED
    BY <2>1, LeastNatural DEF Min
<1>4. taken \in Seq(B)
  <2>1. CASE stop = {}
    BY <2>1
  <2>2. CASE stop # {}
    <3>1. Min(stop) \in 1 .. Len(bytes)
      BY <1>2, <1>3, <2>2
    <3>2. \A i \in 1 .. Min(stop) : bytes[i] \in B
      BY <1>2, <3>1
    <3>3. SubSeq(bytes, 1, Min(stop)) \in Seq(B)
      <4> DEFINE least == Min(stop)
      <4>1. 1 \in Int /\ least \in Int /\ \A i \in 1 .. least : bytes[i] \in B
        BY <1>2, <3>1, <3>2
      <4> HIDE DEF least
      <4>2. SubSeq(bytes, 1, least) \in Seq(B)
        BY <4>1, SubSeqProperties
      <4> QED
        BY <4>2 DEF least
    <3> QED
      BY <2>2, <3>3
  <2> QED
    BY <2>1, <2>2
<1>5. partial \in Seq(B) /\ cmds \in Seq(Seq(B)) /\ Content \in Seq(B)
      /\ f_pos \in [Files -> Nat] /\ dev_ret \in [Files -> Returns(B)]
      /\ Limit \in Nat /\ Limit # 0
  <2>1. Content \in Seq(B)
    BY ContentType
  <2> QED
    BY <2>1, ServerAssumption DEF DataTypes
<1> HIDE DEF taken
<1>6. typed \in Seq(B)
  BY <1>4, <1>5, ConcatProperties
<1>7. kept \in Seq(Seq(B))
  <2>1. CASE Len(cmds) = Limit
    <3>1. cmds # <<>>
      BY <1>5, <2>1
    <3>2. Tail(cmds) \in Seq(Seq(B))
      BY <1>5, <3>1, HeadTailProperties
    <3> QED
      BY <2>1, <3>2
  <2>2. CASE Len(cmds) # Limit
    BY <1>5, <2>2
  <2> QED
    BY <2>1, <2>2
<1>8. /\ Append(kept, typed) \in Seq(Seq(B))
      /\ FlattenSeq(kept) \in Seq(B)
      /\ FlattenSeq(Append(kept, typed)) = FlattenSeq(kept) \o typed
  <2> HIDE DEF kept, typed
  <2> QED
    BY <1>6, <1>7, AppendProperties, FlattenAppend
<1>9. OnlyAt(B, f)
  <2>1. [status |-> "OK", data |-> taken] \in Returns(B)
    BY <1>4 DEF Returns
  <2> QED
    BY <1>1, <1>5, <2>1 DEF OnlyAt
<1>10. cmds' \in Seq(Seq(B)) /\ partial' \in Seq(B)
  <2> HIDE DEF kept, typed
  <2>1. <<>> \in Seq(B)
    OBVIOUS
  <2>2. CASE stop = {}
    <3>1. cmds' = cmds /\ partial' = typed
      BY <1>1, <2>2
    <3> QED
      BY <1>5, <1>6, <3>1
  <2>3. CASE stop # {}
    <3>1. cmds' = Append(kept, typed) /\ partial' = <<>>
      BY <1>1, <2>3
    <3> QED
      BY <1>8, <2>1, <3>1
  <2> QED
    BY <2>2, <2>3
<1>11. Drops \/ Grows(B)
  <2>1. CASE cmds' = cmds
    BY <2>1, ContentType
  <2>2. CASE cmds' # cmds
    <3>1. cmds' = Append(kept, typed)
      BY <1>1, <2>2
    <3>2. CASE Len(cmds) = Limit
      <4>1. Len(kept) = Len(cmds) - 1 /\ Len(cmds) \in Nat
        <5>1. cmds # <<>>
          BY <1>5, <3>2
        <5> QED
          BY <1>5, <3>2, <5>1, HeadTailProperties
      <4> HIDE DEF kept, typed
      <4>2. Len(Append(kept, typed)) = Len(kept) + 1
        BY <1>6, <1>7, AppendProperties
      <4>3. Len(cmds') = Len(cmds)
        BY <3>1, <4>1, <4>2
      <4> QED
        BY <2>2, <4>3 DEF Drops
    <3>3. CASE Len(cmds) # Limit
      <4>1. kept = cmds
        BY <3>3
      <4>2. Content' = Content \o typed
        BY <1>8, <3>1, <4>1 DEF Content
      <4> QED
        BY <1>6, <4>2 DEF Grows
    <3> QED
      BY <3>2, <3>3
  <2> QED
    BY <2>1, <2>2
<1>12. ASSUME NEW c, Last(bytes) = Newline,
              NEW i \in DOMAIN bytes, bytes[i] = c,
              \A j \in 1 .. i - 1 : bytes[j] # Newline
       PROVE  OwnByte(c, Content')
  <2>1. Len(bytes) \in stop
    <3>1. Len(bytes) \in 1 .. Len(bytes)
      BY <1>2, <1>12
    <3> QED
      BY <1>2, <1>12, <3>1 DEF Last
  <2>2. i <= Min(stop) /\ i \in 1 .. Min(stop) /\ Min(stop) \in 1 .. Len(bytes)
    <3>1. Min(stop) \in 1 .. Len(bytes) /\ bytes[Min(stop)] = Newline
      BY <1>2, <1>3, <2>1
    <3>2. i \in 1 .. Len(bytes)
      BY <1>2
    <3> QED
      BY <1>12, <3>1, <3>2
  <2>3. taken = SubSeq(bytes, 1, Min(stop))
    BY <2>1 DEF taken
  <2>4. OwnByte(c, taken)
    <3>1. \A k \in 1 .. Min(stop) : bytes[k] \in B
      BY <2>2
    <3>2. /\ Len(taken) = Min(stop) - 1 + 1
          /\ \A k \in 1 .. Min(stop) - 1 + 1 : taken[k] = bytes[1 + k - 1]
      <4> HIDE DEF stop
      <4> QED
        BY <2>2, <2>3, <3>1, SubSeqProperties
    <3>3. i \in 1 .. Min(stop) - 1 + 1 /\ 1 + i - 1 = i /\ Min(stop) - 1 + 1 = Min(stop)
      BY <2>2
    <3>4. taken[i] = c /\ i \in 1 .. Len(taken)
      BY <1>12, <3>2, <3>3
    <3> QED
      BY <1>4, <3>4 DEF OwnByte
  <2>5. OwnByte(c, typed)
    BY <1>4, <1>5, <2>4, OwnByteKept
  <2> HIDE DEF typed, kept
  <2>6. OwnByte(c, FlattenSeq(kept) \o typed)
    BY <1>6, <1>8, <2>5, OwnByteKept
  <2> QED
    BY <1>1, <1>8, <2>1, <2>6 DEF Content
<1> QED
  BY <1>1, <1>9, <1>10, <1>11, <1>12
-----------------------------------------------------------------------------
\* What a step leaves to a connection that it is not about.
LeavesAnswer(B, d) ==
  /\ pc'[d] = pc[d] /\ buffer'[d] = buffer[d] /\ got'[d] = got[d]
  /\ f_pos'[ReadFile(d)] = f_pos[ReadFile(d)]
  /\ dev_ret'[ReadFile(d)] = dev_ret[ReadFile(d)]
  /\ \/ undisturbed'[d] = "none"
     \/ undisturbed'[d] = undisturbed[d] /\ Grows(B)

\* Its answer, as far as it has got, is still a prefix of the content.
LEMMA OtherKeepsAnswer ==
  ASSUME NEW B, DataTypes(B), NEW d \in Conns, AnswerOf(d), LeavesAnswer(B, d)
  PROVE  AnswerOf(d)'
<1> DEFINE n == f_pos[ReadFile(d)]
<1>1. Content \in Seq(B) /\ n \in Nat
  <2>1. ReadFile(d) \in Files
    BY DEF ReadFile, Files
  <2> QED
    BY <2>1, ContentType DEF DataTypes
<1>2. /\ Pending(d)' = Pending(d) /\ (Answered(d)' <=> Answered(d))
      /\ (EndsLine(d)' <=> EndsLine(d))
  BY DEF LeavesAnswer, Pending, Answered, At, EndsLine
<1>3. CASE undisturbed'[d] = "none"
  <2> QED
    BY <1>2, <1>3 DEF AnswerOf, LeavesAnswer
<1>4. CASE undisturbed'[d] = undisturbed[d] /\ Grows(B)
  <2>1. PICK more \in Seq(B) : Content' = Content \o more
    BY <1>4 DEF Grows
  <2>2. n <= Len(Content) => /\ SubSeq(Content', 1, n) = SubSeq(Content, 1, n)
                             /\ n <= Len(Content')
    BY <1>1, <2>1, PrefixKept
  <2>3. OwnByte(d, Content) => OwnByte(d, Content')
    BY <1>1, <2>1, OwnByteKept
  <2>4. f_pos'[ReadFile(d)] = n
    BY DEF LeavesAnswer
  <2>5. /\ pc'[d] = pc[d] /\ buffer'[d] = buffer[d] /\ got'[d] = got[d]
        /\ dev_ret'[ReadFile(d)] = dev_ret[ReadFile(d)]
        /\ undisturbed'[d] = undisturbed[d]
    BY <1>4 DEF LeavesAnswer
  <2> QED
    BY <1>2, <2>2, <2>3, <2>4, <2>5 DEF AnswerOf
<1> QED
  BY <1>3, <1>4 DEF LeavesAnswer

\* The files of the connections.
LEMMA FilesDiffer ==
  \A c, d \in Conns :
    /\ AppendFile(c) \in Files /\ ReadFile(c) \in Files
    /\ ReadFile(d) # AppendFile(c)
    /\ c # d => ReadFile(d) # ReadFile(c)
BY DEF AppendFile, ReadFile, Files

\* A step of connection c, to which all others are others.
LEMMA AnswerStep ==
  ASSUME NEW B, AnswerInv(B), DataTypes(B)', NEW c \in Conns, AnswerOf(c)',
         \A d \in Conns \ {c} : LeavesAnswer(B, d)
  PROVE  AnswerInv(B)'
<1>1. ASSUME NEW d \in Conns \ {c} PROVE AnswerOf(d)'
  BY <1>1, OtherKeepsAnswer DEF AnswerInv
<1> QED
  BY <1>1 DEF AnswerInv

\* While a thread has one chunk to handle, the numbers it uses are its own.
LEMMA OwnTargets ==
  ASSUME MaxChunks <= 1, DescInv, NEW c \in Conns
  PROVE  /\ pc[c] \in Filing => /\ Target(file_fd[c]).kind = "file"
                                /\ Target(file_fd[c]).file = AppendFile(c)
         /\ pc[c] \in Reading => /\ Target(read_fd[c]).kind = "file"
                                 /\ Target(read_fd[c]).file = ReadFile(c)
         /\ pc[c] \in Filing \cup Reading => /\ Target(client_fd[c]).kind = "conn"
                                             /\ Target(client_fd[c]).conn = c
<1>1. OwnBy(c)
  BY DEF DescInv, DescOf
<1>2. \A f : File(f).kind = "file" /\ File(f).file = f
  BY DEF File
<1>3. Conn(c).kind = "conn" /\ Conn(c).conn = c
  BY DEF Conn
<1> QED
  BY <1>1, <1>2, <1>3 DEF OwnBy, Filing, Reading

\* A thread moves on, and neither what it was sent nor what lies in the device
\* changes.
LEMMA QuietAnswer ==
  ASSUME NEW B, AnswerInv(B), ControlInv, NEW c \in Conns, NEW label, Goto(c, label),
         UNCHANGED <<cmds, partial, got, undisturbed>>,
         OnlyAt(B, AppendFile(c)),
         DOMAIN buffer' = Conns, buffer'[c] \in Chunks[c] \cup {NoChunk},
         \A d \in Conns \ {c} : buffer'[d] = buffer[d],
         label \notin {"w_close", "read", "send", "r_close"},
         label \in {"lock_file", "write"} => buffer'[c].kind = "data",
         label \in Unanswered \cup {"open_read"} => got[c] = <<>>,
         label \in Unanswered \cup Seeking => undisturbed[c] = "none",
         label = "open_read" /\ undisturbed[c] = "write" => OwnByte(c, Content)
  PROVE  AnswerInv(B)'
<1>1. pc'[c] = label /\ \A d \in Conns \ {c} : pc'[d] = pc[d]
  BY DEF ControlInv, MutexInv, Goto
<1>2. Content' = Content /\ Grows(B)
  BY ContentType DEF AnswerInv
<1>3. ASSUME NEW d \in Conns \ {c} PROVE LeavesAnswer(B, d)
  BY <1>1, <1>2, FilesDiffer DEF LeavesAnswer, OnlyAt
<1>4. DataTypes(B)'
  BY DEF AnswerInv, DataTypes, OnlyAt
<1>5. AnswerOf(c)'
  <2>1. ~Answered(c)'
    BY <1>1 DEF Answered, At
  <2> QED
    BY <1>1, <1>2, <2>1 DEF AnswerOf, Written, Reading
<1> QED
  BY <1>3, <1>4, <1>5, AnswerStep
\* A step that calls nothing of the device.
LEMMA UnchangedIsOnlyAt ==
  ASSUME NEW B, DataTypes(B), NEW f, UNCHANGED <<f_pos, dev_ret>>
  PROVE  OnlyAt(B, f)
BY DEF DataTypes, OnlyAt

\* Up to the write and through a seek nothing of the answer is at stake.
LEMMA BeforeTheAnswer ==
  ASSUME NEW B, AnswerInv(B), ControlInv, DescInv, MaxChunks <= 1, NEW c \in Conns,
         \/ OpenFile(c) \/ RecvChunk(c) \/ RecvEnd(c) \/ Ioctl(c) \/ SeekRead(c)
         \/ LockFile(c) \/ NoFile(c)
  PROVE  AnswerInv(B)'
<1> DEFINE f == AppendFile(c)
<1>1. /\ DataTypes(B) /\ AnswerOf(c) /\ f \in Files
      /\ DOMAIN buffer = Conns /\ buffer[c] \in Chunks[c] \cup {NoChunk}
  BY FilesDiffer DEF AnswerInv, DataTypes
<1> HIDE DEF f
<1>2. CASE OpenFile(c)
  <2>1. /\ pc[c] = "open" /\ Goto(c, "recv") /\ UNCHANGED <<buffer, got, undisturbed>>
        /\ Dev!Open(f) \/ UNCHANGED <<cmds, partial, f_pos, dev_ret>>
    BY <1>2 DEF OpenFile, Runs, At, outer, input, answer, device, f
  <2>2. OnlyAt(B, f) /\ UNCHANGED <<cmds, partial>>
    BY <1>1, <2>1, OpenIsOnlyAt, UnchangedIsOnlyAt
  <2>3. got[c] = <<>> /\ undisturbed[c] = "none"
    BY <1>1, <2>1 DEF AnswerOf, Unanswered
  <2> QED
    BY <1>1, <2>1, <2>2, <2>3, QuietAnswer DEF f
<1>3. CASE RecvChunk(c)
  <2>1. PICK chunk \in Chunks[c] :
          /\ pc[c] = "recv" /\ Goto(c, HandlerOf(c, chunk))
          /\ buffer' = [buffer EXCEPT ![c] = chunk]
          /\ UNCHANGED <<got, undisturbed, cmds, partial, f_pos, dev_ret>>
    BY <1>3 DEF RecvChunk, Runs, At, answer, device
  <2>2. OnlyAt(B, f)
    BY <1>1, <2>1, UnchangedIsOnlyAt
  <2>3. got[c] = <<>> /\ undisturbed[c] = "none"
    BY <1>1, <2>1 DEF AnswerOf, Unanswered
  <2>4. /\ HandlerOf(c, chunk) \in {"lock_file", "ioctl", "recv"}
        /\ HandlerOf(c, chunk) = "lock_file" => chunk.kind = "data"
    BY DEF HandlerOf
  <2>5. /\ DOMAIN buffer' = Conns /\ buffer'[c] = chunk
        /\ \A d \in Conns \ {c} : buffer'[d] = buffer[d]
    BY <1>1, <2>1
  <2> QED
    BY <1>1, <2>1, <2>2, <2>3, <2>4, <2>5, QuietAnswer DEF f
<1>4. CASE RecvEnd(c) \/ LockFile(c) \/ NoFile(c)
  <2>1. PICK label \in {"exit", "no_file", "write"} :
          /\ Goto(c, label)
          /\ UNCHANGED <<buffer, got, undisturbed, cmds, partial, f_pos, dev_ret>>
          /\ label \in {"no_file", "write"} => pc[c] = "lock_file"
    BY <1>4 DEF RecvEnd, LockFile, NoFile, Locked, At, input, answer, device
  <2>2. OnlyAt(B, f)
    BY <1>1, <2>1, UnchangedIsOnlyAt
  <2>3. label \in {"no_file", "write"}
          => got[c] = <<>> /\ undisturbed[c] = "none" /\ buffer[c].kind = "data"
    BY <1>1, <2>1 DEF AnswerOf, Unanswered
  <2>4. label = "exit" => label \notin Unanswered \cup Seeking \cup {"open_read"}
    BY DEF Unanswered, Seeking
  <2> QED
    BY <1>1, <2>1, <2>2, <2>3, <2>4, QuietAnswer DEF f, Seeking
<1>5. CASE Ioctl(c)
  <2>1. /\ pc[c] = "ioctl" /\ Goto(c, "seek_read")
        /\ UNCHANGED <<buffer, got, undisturbed>>
        /\ \/ \E pos \in 0 .. Len(Content) :
                /\ f_pos' = [f_pos EXCEPT ![Target(file_fd[c]).file] = pos]
                /\ Dev!SeekCommand(Target(file_fd[c]).file)
           \/ UNCHANGED <<cmds, partial, f_pos, dev_ret>>
    BY <1>5 DEF Ioctl, Runs, At, input, answer, device, Content
  <2>2. Target(file_fd[c]).file = f
    BY <2>1, OwnTargets DEF Filing, f
  <2>3. OnlyAt(B, f) /\ UNCHANGED <<cmds, partial>>
    BY <1>1, <2>1, <2>2, SeekIsOnlyAt, UnchangedIsOnlyAt
  <2>4. undisturbed[c] = "none"
    BY <1>1, <2>1 DEF AnswerOf, Unanswered
  <2>5. "seek_read" \notin Unanswered
    BY DEF Unanswered
  <2> QED
    BY <1>1, <2>1, <2>3, <2>4, <2>5, QuietAnswer DEF f
<1>6. CASE SeekRead(c)
  <2>1. PICK label \in {"seek_send", "seek_close"} :
        /\ pc[c] = "seek_read" /\ Goto(c, label)
        /\ UNCHANGED <<buffer, got, undisturbed>>
        /\ \/ Dev!Read(Target(file_fd[c]).file)
           \/ /\ Dev!Fail(Target(file_fd[c]).file)
              /\ dev_ret'[Target(file_fd[c]).file].status = "EFAULT"
           \/ UNCHANGED <<cmds, partial, f_pos, dev_ret>>
    BY <1>6 DEF SeekRead, ReadDevice, Runs, At, input, answer, device
  <2>2. Target(file_fd[c]).file = f
    BY <2>1, OwnTargets DEF Filing, f
  <2>3. OnlyAt(B, f) /\ UNCHANGED <<cmds, partial>>
    BY <1>1, <2>1, <2>2, ReadIsOnlyAt, FailIsOnlyAt, UnchangedIsOnlyAt
  <2>4. undisturbed[c] = "none"
    BY <1>1, <2>1 DEF AnswerOf, Seeking
  <2>5. label \notin Unanswered
    BY <2>1 DEF Unanswered
  <2> QED
    BY <1>1, <2>1, <2>3, <2>4, <2>5, QuietAnswer DEF f
<1> QED
  BY <1>2, <1>3, <1>4, <1>5, <1>6

\* Closing and leaving.
LEMMA ClosingTheFile ==
  ASSUME NEW B, AnswerInv(B), ControlInv, DescInv, MaxChunks <= 1, NEW c \in Conns,
         \/ CloseFile(c) \/ ActOnCancel(c)
         \/ CancelledInCleanup(c) \/ CleanupRemove(c) \/ CleanupFree(c)
  PROVE  AnswerInv(B)'
<1>1. /\ DataTypes(B) /\ AnswerOf(c)
      /\ DOMAIN buffer = Conns /\ buffer[c] \in Chunks[c] \cup {NoChunk}
  BY DEF AnswerInv, DataTypes
<1>2. CASE CloseFile(c)
  <2>1. PICK label \in {"open_read", "recv", "exit"} :
          /\ Goto(c, label) /\ UNCHANGED <<buffer, got, undisturbed>>
          /\ \/ pc[c] = "w_close" /\ label = IF EndsLine(c) THEN "open_read" ELSE "recv"
             \/ pc[c] = "w_close_err" /\ label = "exit"
    BY <1>2 DEF CloseFile, Runs, At, input, answer
  <2>2. Target(file_fd[c]).kind = "file" /\ Target(file_fd[c]).file = AppendFile(c)
    BY <2>1, OwnTargets DEF Filing
  <2>3. OnlyAt(B, AppendFile(c)) /\ UNCHANGED <<cmds, partial>>
    BY <1>1, <1>2, <2>2, FilesDiffer, CloseIsOnlyAt DEF CloseFile
  <2>4. label # "exit" => /\ got[c] = <<>>
                          /\ label = "recv" => undisturbed[c] = "none"
                          /\ undisturbed[c] = "write" => OwnByte(c, Content)
    BY <1>1, <2>1 DEF AnswerOf, Written
  <2>5. label \in Unanswered => label = "recv"
    BY <2>1 DEF Unanswered
  <2> QED
    BY <1>1, <2>1, <2>2, <2>3, <2>4, <2>5, QuietAnswer DEF Seeking
<1>3. CASE \/ ActOnCancel(c) \/ CancelledInCleanup(c)
           \/ CleanupRemove(c) \/ CleanupFree(c)
  <2>1. PICK label \in Gone : Goto(c, label) /\ UNCHANGED <<buffer, got, undisturbed>>
    BY <1>3 DEF ActOnCancel, CancelledInCleanup, CleanupRemove,
                CleanupFree, Gone, Cleaning, input, answer
  <2>2. UNCHANGED <<cmds, partial, f_pos, dev_ret>>
    BY <1>3
       DEF ActOnCancel, CancelledInCleanup, CleanupRemove, CleanupFree, device
  <2>3. OnlyAt(B, AppendFile(c))
    BY <1>1, <2>2, UnchangedIsOnlyAt
  <2>4. label \notin Unanswered \cup Seeking \cup Written
    BY <2>1 DEF Unanswered, Seeking, Written, Reading, Gone, Cleaning
  <2>5. label \notin {"w_close", "read", "send", "r_close", "lock_file", "write", "open_read"}
    BY <2>4 DEF Unanswered, Written, Reading
  <2> QED
    BY <1>1, <2>1, <2>2, <2>3, <2>4, <2>5, QuietAnswer
<1> QED
  BY <1>2, <1>3

\* Closing the connection: nothing is said of what its client was sent.
LEMMA ClosingTheConnection ==
  ASSUME NEW B, AnswerInv(B), ControlInv, DescInv, MaxChunks <= 1, NEW c \in Conns,
         CleanupClose(c)
  PROVE  AnswerInv(B)'
<1>1. DataTypes(B) /\ DOMAIN buffer = Conns /\ <<>> \in Seq(B)
  BY DEF AnswerInv, DataTypes
<1>2. /\ pc[c] \in {"c_close", "exit"} /\ Goto(c, "c_remove") /\ UNCHANGED buffer
      /\ got' = [got EXCEPT ![c] = <<>>]
      /\ undisturbed' = [undisturbed EXCEPT ![c] = "none"]
  BY DEF CleanupClose, At, input
<1>3. UNCHANGED <<cmds, partial, f_pos, dev_ret>>
  <2>1. Target(client_fd[c]) = Conn(c)
    BY <1>2 DEF DescInv, DescOf, OwnBy
  <2> QED
    BY <2>1, CloseKeepsDevice DEF CleanupClose
<1>4. pc'[c] = "c_remove" /\ \A d \in Conns \ {c} : pc'[d] = pc[d]
  BY <1>2 DEF ControlInv, MutexInv, Goto
<1>5. /\ got' \in [Conns -> Seq(B)]
      /\ undisturbed' \in [Conns -> {"none", "open_read", "write"}]
      /\ \A d \in Conns \ {c} : got'[d] = got[d] /\ undisturbed'[d] = undisturbed[d]
  BY <1>1, <1>2 DEF DataTypes
<1>6. Grows(B)
  BY <1>1, <1>3, ContentType
<1>7. ASSUME NEW d \in Conns \ {c} PROVE LeavesAnswer(B, d)
  BY <1>2, <1>3, <1>4, <1>5, <1>6 DEF LeavesAnswer
<1>8. DataTypes(B)'
  BY <1>1, <1>2, <1>3, <1>5 DEF DataTypes
<1>9. AnswerOf(c)'
  BY <1>4 DEF AnswerOf, Answered, At, Unanswered, Seeking, Written, Reading
<1> QED
  BY <1>7, <1>8, <1>9, AnswerStep

\* A send that follows a seek, and the ends of a seek and of an answer: what the
\* client is sent from here on begins anew.
LEMMA ClosingTheAnswer ==
  ASSUME NEW B, AnswerInv(B), ControlInv, DescInv, MaxChunks <= 1, NEW c \in Conns,
         SeekSend(c) \/ SeekClose(c) \/ CloseRead(c)
  PROVE  AnswerInv(B)'
<1>1. /\ DataTypes(B) /\ AnswerOf(c) /\ <<>> \in Seq(B)
      /\ DOMAIN buffer = Conns /\ AppendFile(c) \in Files
  BY FilesDiffer DEF AnswerInv, DataTypes
<1>2. PICK label \in {"seek_read", "recv"} :
        /\ pc[c] \in Seeking \cup {"r_close"} /\ Goto(c, label) /\ UNCHANGED buffer
        /\ label = "recv" => got' = [got EXCEPT ![c] = <<>>]
        /\ pc[c] = "r_close" => /\ label = "recv"
                                /\ undisturbed' = [undisturbed EXCEPT ![c] = "none"]
        /\ pc[c] # "r_close" => UNCHANGED undisturbed
        /\ label = "seek_read" => SeekSend(c)
  BY DEF SeekSend, SeekClose, CloseRead, Runs, At, input, Seeking
<1>3. /\ UNCHANGED <<cmds, partial>>
      /\ OnlyAt(B, AppendFile(c)) \/ OnlyAt(B, ReadFile(c))
  <2>1. CASE SeekSend(c)
    BY <1>1, <2>1, UnchangedIsOnlyAt DEF SeekSend, device
  <2>2. CASE SeekClose(c)
    <3>1. pc[c] = "seek_close" /\ CloseFd(file_fd[c])
      BY <2>2 DEF SeekClose, Runs, At
    <3>2. Target(file_fd[c]).file = AppendFile(c)
      BY <3>1, OwnTargets DEF Filing
    <3> QED
      BY <1>1, <3>1, <3>2, CloseIsOnlyAt
  <2>3. CASE CloseRead(c)
    <3>1. pc[c] = "r_close" /\ CloseFd(read_fd[c])
      BY <2>3 DEF CloseRead, Runs, At
    <3>2. Target(read_fd[c]).file = ReadFile(c)
      BY <3>1, OwnTargets DEF Reading
    <3> QED
      BY <1>1, <3>1, <3>2, FilesDiffer, CloseIsOnlyAt
  <2> QED
    BY <2>1, <2>2, <2>3
<1>4. pc'[c] = label /\ \A d \in Conns \ {c} : pc'[d] = pc[d]
  BY <1>2 DEF ControlInv, MutexInv, Goto
<1>5. got' \in [Conns -> Seq(B)] /\ \A d \in Conns \ {c} : got'[d] = got[d]
  <2>1. CASE label = "recv"
    BY <1>1, <1>2, <2>1 DEF DataTypes
  <2>2. CASE label = "seek_read"
    <3>1. /\ pc[c] = "seek_send"
          /\ \/ /\ Target(file_fd[c]).kind = "file"
                /\ SendTo(client_fd[c], Target(file_fd[c]).file)
             \/ UNCHANGED got
      BY <1>2, <2>2 DEF SeekSend, Runs, At
    <3>2. /\ Target(file_fd[c]).file = AppendFile(c)
          /\ Target(client_fd[c]).kind = "conn" /\ Target(client_fd[c]).conn = c
      BY <3>1, OwnTargets DEF Filing
    <3>3. \/ got' = [got EXCEPT ![c] = @ \o dev_ret[AppendFile(c)].data]
          \/ UNCHANGED got
      BY <3>1, <3>2 DEF SendTo
    <3>4. got[c] \o dev_ret[AppendFile(c)].data \in Seq(B)
      BY <1>1, ConcatProperties DEF DataTypes, Returns
    <3> QED
      BY <1>1, <3>3, <3>4 DEF DataTypes
  <2> QED
    BY <2>1, <2>2
<1>6. /\ undisturbed' \in [Conns -> {"none", "open_read", "write"}]
      /\ undisturbed'[c] = "none"
      /\ \A d \in Conns \ {c} : undisturbed'[d] = undisturbed[d]
  <2>1. CASE pc[c] = "r_close"
    BY <1>1, <1>2, <2>1 DEF DataTypes
  <2>2. CASE pc[c] # "r_close"
    BY <1>1, <1>2, <2>2 DEF DataTypes, AnswerOf
  <2> QED
    BY <2>1, <2>2
<1>7. Grows(B)
  BY <1>1, <1>3, ContentType
<1>8. ASSUME NEW d \in Conns \ {c} PROVE LeavesAnswer(B, d)
  <2>1. ReadFile(d) \in Files \ {AppendFile(c), ReadFile(c)}
    BY FilesDiffer
  <2>2. /\ f_pos'[ReadFile(d)] = f_pos[ReadFile(d)]
        /\ dev_ret'[ReadFile(d)] = dev_ret[ReadFile(d)]
    BY <1>3, <2>1 DEF OnlyAt
  <2> QED
    BY <1>2, <1>4, <1>5, <1>6, <1>7, <2>2 DEF LeavesAnswer
<1>9. DataTypes(B)'
  BY <1>1, <1>2, <1>3, <1>5, <1>6 DEF DataTypes, OnlyAt
<1>10. label = "recv" => got'[c] = <<>>
  BY <1>1, <1>2 DEF DataTypes
<1>11. AnswerOf(c)'
  <2>1. ~Answered(c)'
    BY <1>2, <1>4 DEF Answered, At
  <2> QED
    BY <1>2, <1>4, <1>6, <1>10, <2>1 DEF AnswerOf, Unanswered, Seeking, Written, Reading
<1> QED
  BY <1>8, <1>9, <1>11, AnswerStep

\* The write: the line comes in.
LEMMA WritingTheLine ==
  ASSUME NEW B, BytesOf(B), LinesAreNamed, AnswerInv(B), ControlInv, DescInv,
         MaxChunks <= 1, NEW c \in Conns, Write(c)
  PROVE  AnswerInv(B)'
<1> DEFINE f == AppendFile(c)
           bytes == buffer[c].bytes
<1>1. /\ DataTypes(B) /\ AnswerOf(c) /\ f \in Files
      /\ DOMAIN buffer = Conns /\ buffer[c] \in Chunks[c] \cup {NoChunk}
  BY FilesDiffer DEF AnswerInv, DataTypes
<1>2. pc[c] = "write" /\ UNCHANGED buffer
  BY DEF Write, Runs, At, input
<1>3. Target(file_fd[c]).kind = "file" /\ Target(file_fd[c]).file = f
  BY <1>2, OwnTargets DEF Filing
<1>4. /\ UNCHANGED got
      /\ \/ /\ Dev!WriteBytes(f, bytes) /\ Goto(c, "w_close")
            /\ undisturbed' = [d \in Conns |->
                                IF d = c /\ EndsLine(c) THEN "write"
                                ELSE IF Drops THEN "none" ELSE undisturbed[d]]
         \/ Goto(c, "w_close_err") /\ UNCHANGED <<device, undisturbed>>
  BY <1>3 DEF Write
<1>5. got[c] = <<>> /\ undisturbed[c] = "none" /\ buffer[c].kind = "data"
  BY <1>1, <1>2 DEF AnswerOf, Unanswered
<1>6. buffer[c] \in Chunks[c] /\ bytes \in Seq(B)
  BY <1>1, <1>5 DEF BytesOf, NoChunk
<1> HIDE DEF f, bytes
<1>7. CASE Goto(c, "w_close_err") /\ UNCHANGED <<device, undisturbed>>
  <2>1. UNCHANGED <<cmds, partial, f_pos, dev_ret>>
    BY <1>7 DEF device
  <2>2. OnlyAt(B, f)
    BY <1>1, <2>1, UnchangedIsOnlyAt
  <2> QED
    BY <1>1, <1>2, <1>4, <1>5, <1>7, <2>1, <2>2, QuietAnswer DEF f, Seeking
<1>8. CASE /\ Dev!WriteBytes(f, bytes) /\ Goto(c, "w_close")
           /\ undisturbed' = [d \in Conns |->
                                IF d = c /\ EndsLine(c) THEN "write"
                                ELSE IF Drops THEN "none" ELSE undisturbed[d]]
  <2>1. /\ OnlyAt(B, f) /\ UNCHANGED f_pos
        /\ cmds' \in Seq(Seq(B)) /\ partial' \in Seq(B)
        /\ Drops \/ Grows(B)
        /\ Last(bytes) = Newline /\ (\E i \in DOMAIN bytes :
                bytes[i] = c /\ \A j \in 1 .. i - 1 : bytes[j] # Newline)
             => OwnByte(c, Content')
    BY <1>1, <1>6, <1>8, WriteGrows
  <2>2. EndsLine(c) => OwnByte(c, Content')
    BY <1>6, <2>1 DEF EndsLine, LinesAreNamed, bytes
  <2>3. pc'[c] = "w_close" /\ \A d \in Conns \ {c} : pc'[d] = pc[d]
    BY <1>8 DEF ControlInv, MutexInv, Goto
  <2>4. ASSUME NEW d \in Conns \ {c} PROVE LeavesAnswer(B, d)
    BY <1>2, <1>4, <1>8, <2>1, <2>3, FilesDiffer DEF LeavesAnswer, OnlyAt, f
  <2>5. undisturbed' \in [Conns -> {"none", "open_read", "write"}]
    BY <1>1, <1>8 DEF DataTypes
  <2>6. DataTypes(B)'
    BY <1>1, <1>2, <1>4, <2>1, <2>5 DEF DataTypes, OnlyAt
  <2>7. undisturbed'[c] = IF EndsLine(c) THEN "write" ELSE "none"
    BY <1>5, <1>8
  <2>8. EndsLine(c)' <=> EndsLine(c)
    BY <1>2 DEF EndsLine
  <2>9. AnswerOf(c)'
    <3>1. ~Answered(c)'
      BY <2>3 DEF Answered, At
    <3>2. "w_close" \notin Unanswered \cup Seeking \cup Reading
      BY DEF Unanswered, Seeking, Reading
    <3>3. undisturbed'[c] = "write" => OwnByte(c, Content)'
      BY <2>2, <2>7
    <3>4. ~EndsLine(c)' => undisturbed'[c] = "none"
      BY <2>7, <2>8
    <3> QED
      BY <1>4, <1>5, <2>3, <3>1, <3>2, <3>3, <3>4 DEF AnswerOf
  <2> QED
    BY <2>4, <2>6, <2>9, AnswerStep
<1> QED
  BY <1>4, <1>7, <1>8
\* The device is opened for the answer, which begins at its first byte.
LEMMA OpeningTheAnswer ==
  ASSUME NEW B, AnswerInv(B), ControlInv, DescInv, NEW c \in Conns, OpenRead(c)
  PROVE  AnswerInv(B)'
<1> DEFINE f == ReadFile(c)
<1>1. /\ DataTypes(B) /\ AnswerOf(c) /\ f \in Files
      /\ DOMAIN buffer = Conns /\ buffer[c] \in Chunks[c] \cup {NoChunk}
  BY FilesDiffer DEF AnswerInv, DataTypes
<1>2. /\ pc[c] = "open_read" /\ UNCHANGED <<buffer, got>>
      /\ \/ /\ Dev!Open(f) /\ Goto(c, "read")
            /\ undisturbed' = [undisturbed EXCEPT
                                 ![c] = IF @ = "write" THEN @ ELSE "open_read"]
         \/ Goto(c, "exit") /\ UNCHANGED <<device, undisturbed>>
  BY DEF OpenRead, Runs, At, input
<1> HIDE DEF f
<1>3. CASE Goto(c, "exit") /\ UNCHANGED <<device, undisturbed>>
  <2>1. UNCHANGED <<cmds, partial, f_pos, dev_ret>>
    BY <1>3 DEF device
  <2>2. OnlyAt(B, AppendFile(c))
    BY <1>1, <2>1, UnchangedIsOnlyAt
  <2>3. "exit" \notin Unanswered \cup Seeking
    BY DEF Unanswered, Seeking
  <2> QED
    BY <1>1, <1>2, <1>3, <2>1, <2>2, <2>3, QuietAnswer
<1>4. CASE /\ Dev!Open(f) /\ Goto(c, "read")
           /\ undisturbed' = [undisturbed EXCEPT
                                ![c] = IF @ = "write" THEN @ ELSE "open_read"]
  <2>1. /\ OnlyAt(B, f) /\ UNCHANGED <<cmds, partial, dev_ret>> /\ f_pos'[f] = 0
    BY <1>1, <1>4, OpenIsOnlyAt
  <2>2. pc'[c] = "read" /\ \A d \in Conns \ {c} : pc'[d] = pc[d]
    BY <1>4 DEF ControlInv, MutexInv, Goto
  <2>3. /\ undisturbed' \in [Conns -> {"none", "open_read", "write"}]
        /\ undisturbed'[c] = IF undisturbed[c] = "write" THEN "write" ELSE "open_read"
        /\ \A d \in Conns \ {c} : undisturbed'[d] = undisturbed[d]
    BY <1>1, <1>4 DEF DataTypes
  <2>4. Content' = Content /\ Content \in Seq(B) /\ Grows(B)
    BY <1>1, <2>1, ContentType
  <2>5. ASSUME NEW d \in Conns \ {c} PROVE LeavesAnswer(B, d)
    <3>1. ReadFile(d) \in Files \ {f}
      BY FilesDiffer DEF f
    <3> QED
      BY <1>2, <2>1, <2>2, <2>3, <2>4, <3>1 DEF LeavesAnswer, OnlyAt
  <2>6. DataTypes(B)'
    BY <1>1, <1>2, <2>1, <2>3 DEF DataTypes, OnlyAt
  <2>7. got[c] = <<>> /\ (undisturbed[c] = "write" => OwnByte(c, Content))
    BY <1>1, <1>2 DEF AnswerOf, Written
  <2>8. /\ SubSeq(Content, 1, 0) = <<>> /\ <<>> \o <<>> = <<>>
        /\ 0 <= Len(Content)
    <3>1. <<>> \in Seq(B)
      OBVIOUS
    <3>2. <<>> \o <<>> = <<>>
      BY <3>1, ConcatEmptySeq
    <3> QED
      BY <2>4, <3>2, SubSeqEmpty
  <2>9. AnswerOf(c)'
    <3>1. Pending(c)' = <<>> /\ ~Answered(c)'
      BY <2>2 DEF Pending, Answered, At
    <3>2. "read" \notin Unanswered \cup Seeking
      BY DEF Unanswered, Seeking
    <3>3. f_pos'[ReadFile(c)] = 0
      BY <2>1 DEF f
    <3>4. undisturbed'[c] = "write" => OwnByte(c, Content)'
      BY <2>3, <2>4, <2>7
    <3>5. got'[c] \o Pending(c)' = SubSeq(Content', 1, f_pos'[ReadFile(c)])
          /\ f_pos'[ReadFile(c)] <= Len(Content')
      BY <1>2, <2>4, <2>7, <2>8, <3>1, <3>3
    <3> QED
      BY <2>2, <3>1, <3>2, <3>4, <3>5 DEF AnswerOf
  <2> QED
    BY <2>5, <2>6, <2>9, AnswerStep
<1> QED
  BY <1>2, <1>3, <1>4

\* A read takes the next bytes, or fails, or meets the end: then all that is there
\* has been sent.
LEMMA ReadingTheAnswer ==
  ASSUME NEW B, AnswerInv(B), ControlInv, DescInv, MaxChunks <= 1,
         NEW c \in Conns, Read(c)
  PROVE  AnswerInv(B)'
<1> DEFINE f == ReadFile(c)
           p == f_pos[f]
<1>1. /\ DataTypes(B) /\ AnswerOf(c) /\ f \in Files
      /\ DOMAIN buffer = Conns /\ buffer[c] \in Chunks[c] \cup {NoChunk}
  BY FilesDiffer DEF AnswerInv, DataTypes
<1>2. pc[c] = "read" /\ UNCHANGED <<buffer, got, undisturbed>>
  BY DEF Read, Runs, At, input, answer
<1>3. Target(read_fd[c]).kind = "file" /\ Target(read_fd[c]).file = f
  BY <1>2, OwnTargets DEF Reading
<1>4. \/ /\ Dev!Read(f)
         /\ Goto(c, IF dev_ret'[f].data = <<>> THEN "r_close" ELSE "send")
      \/ Dev!Fail(f) /\ dev_ret'[f].status = "EFAULT" /\ Goto(c, "r_close")
  BY <1>3 DEF Read, ReadDevice
<1>5. /\ OnlyAt(B, f) /\ UNCHANGED <<cmds, partial>>
      /\ ReadsOn(f) \/ ReadsEnd(f) \/ ReadFails(f)
      /\ Goto(c, IF dev_ret'[f].data = <<>> THEN "r_close" ELSE "send")
  <2>1. CASE Dev!Read(f) /\ Goto(c, IF dev_ret'[f].data = <<>> THEN "r_close" ELSE "send")
    BY <1>1, <2>1, ReadIsOnlyAt
  <2>2. CASE Dev!Fail(f) /\ dev_ret'[f].status = "EFAULT" /\ Goto(c, "r_close")
    <3>1. OnlyAt(B, f) /\ UNCHANGED <<cmds, partial>> /\ ReadFails(f)
      BY <1>1, <2>2, FailIsOnlyAt
    <3>2. dev_ret'[f].data = <<>>
      BY <3>1 DEF ReadFails
    <3> QED
      BY <2>2, <3>1, <3>2
  <2> QED
    BY <1>4, <2>1, <2>2
<1>6. Content' = Content /\ Content \in Seq(B) /\ Grows(B)
      /\ p \in Nat /\ Len(Content) \in Nat /\ got[c] \in Seq(B)
  <2>1. Content' = Content /\ Content \in Seq(B) /\ Grows(B)
    BY <1>1, <1>5, ContentType
  <2> QED
    BY <1>1, <2>1 DEF DataTypes
<1>7. /\ pc'[c] = IF dev_ret'[f].data = <<>> THEN "r_close" ELSE "send"
      /\ \A d \in Conns \ {c} : pc'[d] = pc[d]
  BY <1>5 DEF ControlInv, MutexInv, Goto
<1>8. ASSUME NEW d \in Conns \ {c} PROVE LeavesAnswer(B, d)
  <2>1. ReadFile(d) \in Files \ {f}
    BY FilesDiffer
  <2> HIDE DEF f
  <2> QED
    BY <1>2, <1>5, <1>6, <1>7, <2>1 DEF LeavesAnswer, OnlyAt
<1>9. DataTypes(B)'
  BY <1>1, <1>2, <1>5 DEF DataTypes, OnlyAt
<1>10. /\ undisturbed[c] = "write" => OwnByte(c, Content)
       /\ undisturbed[c] # "none" => p <= Len(Content) /\ got[c] = SubSeq(Content, 1, p)
  <2>1. Pending(c) = <<>>
    BY <1>2 DEF Pending
  <2>2. got[c] \o <<>> = got[c]
    BY <1>6, ConcatEmptySeq
  <2> QED
    BY <1>1, <1>2, <2>1, <2>2 DEF AnswerOf, Written, Reading
<1>11. AnswerOf(c)'
  <2>1. {"send", "r_close"} \cap (Unanswered \cup Seeking) = {}
    BY DEF Unanswered, Seeking
  <2>2. undisturbed'[c] = "write" => OwnByte(c, Content)'
    BY <1>2, <1>6, <1>10
  <2>3. CASE ReadsOn(f)
    <3>1. PICK last \in p + 1 .. Len(Content) :
            /\ dev_ret'[f].data = SubSeq(Content, p + 1, last)
            /\ dev_ret'[f].data # <<>>
            /\ f_pos'[f] = last
      BY <2>3 DEF ReadsOn
    <3>2. pc'[c] = "send" /\ ~Answered(c)' /\ Pending(c)' = dev_ret'[f].data
      BY <1>7, <3>1 DEF Answered, At, Pending
    <3>3. ASSUME undisturbed'[c] # "none"
          PROVE  /\ f_pos'[f] <= Len(Content')
                 /\ got'[c] \o Pending(c)' = SubSeq(Content', 1, f_pos'[f])
      <4>1. p <= Len(Content) /\ got[c] = SubSeq(Content, 1, p)
        BY <1>2, <1>10, <3>3
      <4>2. 1 \in 1 .. Len(Content) + 1 /\ p \in 1 - 1 .. Len(Content)
            /\ last \in p .. Len(Content)
        BY <1>6, <4>1
      <4> HIDE DEF p, f
      <4>3. SubSeq(Content, 1, p) \o SubSeq(Content, p + 1, last) = SubSeq(Content, 1, last)
        BY <1>6, <4>2, ConcatAdjacentSubSeq
      <4> QED
        BY <1>2, <1>6, <3>1, <3>2, <4>1, <4>2, <4>3
    <3> QED
      BY <2>1, <2>2, <3>1, <3>2, <3>3 DEF AnswerOf
  <2>4. CASE ReadsEnd(f)
    <3>1. p >= Len(Content) /\ dev_ret'[f].data = <<>> /\ f_pos'[f] = p
      BY <2>4 DEF ReadsEnd
    <3>2. pc'[c] = "r_close" /\ Pending(c)' = <<>>
      BY <1>7, <3>1 DEF Pending
    <3>3. ASSUME undisturbed'[c] # "none"
          PROVE  /\ f_pos'[f] <= Len(Content')
                 /\ got'[c] \o Pending(c)' = SubSeq(Content', 1, f_pos'[f])
                 /\ got'[c] = Content'
      <4>1. p = Len(Content) /\ got[c] = SubSeq(Content, 1, p)
        BY <1>2, <1>6, <1>10, <3>1, <3>3
      <4>2. SubSeq(Content, 1, Len(Content)) = Content /\ Content \o <<>> = Content
        BY <1>6, SubSeqFull, ConcatEmptySeq
      <4> HIDE DEF p, f
      <4> QED
        BY <1>2, <1>6, <3>1, <3>2, <4>1, <4>2
    <3> QED
      BY <2>1, <2>2, <3>2, <3>3 DEF AnswerOf
  <2>5. CASE ReadFails(f)
    <3>1. /\ dev_ret'[f] = [status |-> "EFAULT", data |-> <<>>]
          /\ f_pos'[f] = p
      BY <2>5 DEF ReadFails
    <3>2. pc'[c] = "r_close" /\ Pending(c)' = <<>> /\ ~Answered(c)'
      BY <1>7, <3>1 DEF Pending, Answered
    <3>3. ASSUME undisturbed'[c] # "none"
          PROVE  /\ f_pos'[f] <= Len(Content')
                 /\ got'[c] \o Pending(c)' = SubSeq(Content', 1, f_pos'[f])
      <4>1. p <= Len(Content) /\ got[c] = SubSeq(Content, 1, p)
        BY <1>2, <1>10, <3>3
      <4>2. got[c] \o <<>> = got[c]
        BY <1>6, ConcatEmptySeq
      <4> HIDE DEF p, f
      <4> QED
        BY <1>2, <1>6, <3>1, <3>2, <4>1, <4>2
    <3> QED
      BY <2>1, <2>2, <3>2, <3>3 DEF AnswerOf
  <2> QED
    BY <1>5, <2>3, <2>4, <2>5
<1> QED
  BY <1>8, <1>9, <1>11, AnswerStep

\* A send hands over what was read; one that fails ends the answer early.
LEMMA SendingTheAnswer ==
  ASSUME NEW B, AnswerInv(B), ControlInv, DescInv, MaxChunks <= 1,
         NEW c \in Conns, Send(c)
  PROVE  AnswerInv(B)'
<1> DEFINE f == ReadFile(c)
           bytes == dev_ret[f].data
<1>1. /\ DataTypes(B) /\ AnswerOf(c) /\ f \in Files
      /\ DOMAIN buffer = Conns /\ buffer[c] \in Chunks[c] \cup {NoChunk}
  BY FilesDiffer DEF AnswerInv, DataTypes
<1>2. pc[c] = "send" /\ UNCHANGED <<buffer, undisturbed, cmds, partial, f_pos, dev_ret>>
  BY DEF Send, Runs, At, input, device
<1>3. Target(client_fd[c]).kind = "conn" /\ Target(client_fd[c]).conn = c
  BY <1>2, OwnTargets DEF Reading
<1>4. \/ Goto(c, "read") /\ got' = [got EXCEPT ![c] = @ \o bytes]
      \/ Goto(c, "r_close") /\ UNCHANGED got
  BY <1>3 DEF Send, SendTo
<1>5. Content' = Content /\ Content \in Seq(B) /\ Grows(B)
      /\ got[c] \in Seq(B) /\ bytes \in Seq(B) /\ got \in [Conns -> Seq(B)]
  <2>1. Content' = Content /\ Content \in Seq(B) /\ Grows(B)
    BY <1>1, <1>2, ContentType
  <2> QED
    BY <1>1, <2>1 DEF DataTypes, Returns
<1> HIDE DEF bytes
<1>6. got[c] \o bytes \in Seq(B) /\ (got[c] \o bytes) \o <<>> = got[c] \o bytes
  <2>1. got[c] \o bytes \in Seq(B)
    BY <1>5, ConcatProperties
  <2> QED
    BY <2>1, ConcatEmptySeq
<1>7. got' \in [Conns -> Seq(B)] /\ \A d \in Conns \ {c} : got'[d] = got[d]
  BY <1>4, <1>5, <1>6
<1>8. /\ \/ pc'[c] = "read" /\ got'[c] = got[c] \o bytes
         \/ pc'[c] = "r_close" /\ got'[c] = got[c]
      /\ \A d \in Conns \ {c} : pc'[d] = pc[d]
  BY <1>4, <1>5 DEF ControlInv, MutexInv, Goto
<1>9. ASSUME NEW d \in Conns \ {c} PROVE LeavesAnswer(B, d)
  BY <1>2, <1>5, <1>7, <1>8 DEF LeavesAnswer
<1>10. DataTypes(B)'
  BY <1>1, <1>2, <1>7 DEF DataTypes
<1>11. /\ undisturbed[c] = "write" => OwnByte(c, Content)
       /\ bytes # <<>>
       /\ undisturbed[c] # "none"
            => f_pos[f] <= Len(Content) /\ got[c] \o bytes = SubSeq(Content, 1, f_pos[f])
  BY <1>1, <1>2 DEF AnswerOf, Written, Reading, Pending, bytes
<1>12. AnswerOf(c)'
  <2>1. {"read", "r_close"} \cap (Unanswered \cup Seeking) = {}
    BY DEF Unanswered, Seeking
  <2>2. undisturbed'[c] = "write" => OwnByte(c, Content)'
    BY <1>2, <1>5, <1>11
  <2>3. ~Answered(c)'
    BY <1>2, <1>8, <1>11 DEF Answered, At, bytes
  <2>4. got'[c] \o Pending(c)' = got[c] \o bytes
    <3>1. CASE pc'[c] = "read" /\ got'[c] = got[c] \o bytes
      BY <1>6, <3>1 DEF Pending
    <3>2. CASE pc'[c] = "r_close" /\ got'[c] = got[c]
      BY <1>2, <3>2 DEF Pending, bytes
    <3> QED
      BY <1>8, <3>1, <3>2
  <2>5. undisturbed'[c] # "none"
          => /\ f_pos'[f] <= Len(Content')
             /\ got'[c] \o Pending(c)' = SubSeq(Content', 1, f_pos'[f])
    BY <1>2, <1>5, <1>11, <2>4
  <2> QED
    BY <1>8, <2>1, <2>2, <2>3, <2>5 DEF AnswerOf
<1> QED
  BY <1>9, <1>10, <1>12, AnswerStep
\* Main neither reads nor writes for a client, and starts a thread that has not
\* answered anything.
LEMMA MainKeepsAnswer ==
  ASSUME NEW B, AnswerInv(B), ControlInv, DescInv, MaxChunks <= 1,
         \/ \E c \in Conns : Accept(c)
         \/ MainStep \/ Signal \/ UNCHANGED vars
  PROVE  AnswerInv(B)'
<1>1. /\ UNCHANGED <<buffer, got, undisturbed, cmds, partial, f_pos, dev_ret>>
      /\ \/ UNCHANGED pc
         \/ cur \in Conns /\ pc[cur] = "none" /\ Goto(cur, "open")
  <2> USE DEF thread, input, threads, answer, device
  <2>1. CASE \E c \in Conns : Accept(c)
    BY <2>1 DEF Accept
  <2>2. CASE Insert \/ UndoRemove
    BY <2>2 DEF Insert, UndoRemove
  <2>3. CASE Create
    <3>1. cur \in Conns /\ pc[cur] = "none"
      BY <2>3 DEF Create, MainAt, ControlInv, MainShape, Accepting
    <3> QED
      BY <2>3, <3>1 DEF Create
  <2>4. CASE UndoFree
    <3>1. mpc \in Accepting /\ cur \in Conns
      BY <2>4 DEF UndoFree, MainAt, ControlInv, MainShape, Accepting
    <3>2. Target(client_fd[cur]) = Conn(cur)
      BY <3>1 DEF DescInv, DescOf, OwnBy
    <3>3. UNCHANGED <<cmds, partial, f_pos, dev_ret>>
      BY <2>4, <3>2, CloseKeepsDevice DEF UndoFree
    <3> QED
      BY <2>4, <3>3 DEF UndoFree
  <2>5. CASE StopLock \/ Cancel \/ LoopEnds \/ Join \/ Reap \/ UseAfterFree
    BY <2>5 DEF StopLock, Cancel, LoopEnds, Join, Reap, UseAfterFree
  <2>6. CASE Signal
    BY <2>6 DEF Signal
  <2>7. CASE UNCHANGED vars
    BY <2>7 DEF vars
  <2> QED
    BY <2>1, <2>2, <2>3, <2>4, <2>5, <2>6, <2>7 DEF MainStep
<1>2. DataTypes(B) /\ Grows(B)
  BY <1>1, ContentType DEF AnswerInv
<1>3. CASE UNCHANGED pc
  <2>1. ASSUME NEW d \in Conns PROVE AnswerOf(d)'
    <3>1. LeavesAnswer(B, d)
      BY <1>1, <1>2, <1>3 DEF LeavesAnswer
    <3> QED
      BY <1>2, <3>1, OtherKeepsAnswer DEF AnswerInv
  <2>2. DataTypes(B)'
    BY <1>1, <1>2 DEF DataTypes
  <2> QED
    BY <2>1, <2>2 DEF AnswerInv
<1>4. CASE cur \in Conns /\ pc[cur] = "none" /\ Goto(cur, "open")
  <2>1. PICK c \in Conns : c = cur
    BY <1>4
  <2>2. OnlyAt(B, AppendFile(c))
    BY <1>1, <1>2, UnchangedIsOnlyAt
  <2>3. got[c] = <<>> /\ undisturbed[c] = "none"
    BY <1>4, <2>1 DEF AnswerInv, AnswerOf, Unanswered
  <2>4. DOMAIN buffer' = Conns /\ buffer'[c] \in Chunks[c] \cup {NoChunk}
    BY <1>1, <1>2 DEF DataTypes
  <2> QED
    BY <1>1, <1>4, <2>1, <2>2, <2>3, <2>4, QuietAnswer
<1> QED
  BY <1>1, <1>3, <1>4

\* Nobody has been answered when the server starts.
LEMMA AnswerInvInit ==
  ASSUME NEW B, BytesOf(B), Init
  PROVE  AnswerInv(B)
<1>1. DataTypes(B)
  <2>1. [status |-> "OK", data |-> <<>>] \in Returns(B)
    BY DEF Returns
  <2>2. cmds \in Seq(Seq(B))
    BY DEF Init, BytesOf
  <2> QED
    BY <2>1, <2>2 DEF Init, DataTypes
<1>2. ASSUME NEW c \in Conns PROVE AnswerOf(c)
  <2>1. pc[c] = "none" /\ got[c] = <<>> /\ undisturbed[c] = "none"
    BY DEF Init
  <2> QED
    BY <2>1 DEF AnswerOf, Answered, At, Written, Reading
<1> QED
  BY <1>1, <1>2 DEF AnswerInv

\* Every step keeps the answers.
LEMMA NextKeepsAnswer ==
  ASSUME NEW B, BytesOf(B), LinesAreNamed, MaxChunks <= 1,
         AnswerInv(B), ControlInv, DescInv, [Next]_vars
  PROVE  AnswerInv(B)'
<1>1. ASSUME NEW c \in Conns, Serve(c) \/ RecvChunk(c) \/ RecvEnd(c)
      PROVE  AnswerInv(B)'
  BY <1>1, BeforeTheAnswer, ClosingTheFile, ClosingTheConnection,
     ClosingTheAnswer, WritingTheLine, OpeningTheAnswer, ReadingTheAnswer,
     SendingTheAnswer DEF Serve
<1> QED
  BY <1>1, MainKeepsAnswer DEF Next, Client

\* What a client has been sent in answer to its line is, at every moment, how the
\* device's content begins, whatever other threads write meanwhile and whichever
\* call fails, as long as no command goes out of the device from the open on; and
\* if none does since its line came in, and the answer comes to the end of the
\* file and not to a read that fails, the line is in it (handle_client 271-294).
\* For clients that send one chunk each, any number of them, any content, any size
\* of the buffer and of the device.  A line is told from others by a byte that
\* bears its client's name.
THEOREM OneLineIsAnsweredExactly ==
  ASSUME NEW B, BytesOf(B), LinesAreNamed, MaxChunks <= 1
  PROVE  Spec => []AnswerIsTheFile
<1>1. ASSUME AnswerInv(B) PROVE AnswerIsTheFile
  <2>1. ASSUME NEW c \in Conns PROVE AnswerOf(c)
    BY <1>1 DEF AnswerInv
  <2>2. ASSUME NEW c \in Conns, pc[c] \in Reading, undisturbed[c] # "none"
        PROVE  IsPrefix(got[c], Content)
    <3> DEFINE n == f_pos[ReadFile(c)]
    <3>1. Content \in Seq(B) /\ got[c] \in Seq(B) /\ n \in Nat
      BY <1>1, ContentType, FilesDiffer DEF AnswerInv, DataTypes
    <3>2. Pending(c) \in Seq(B)
      <4>1. dev_ret[ReadFile(c)] \in Returns(B) /\ <<>> \in Seq(B)
        BY <1>1, FilesDiffer DEF AnswerInv, DataTypes
      <4> QED
        BY <4>1 DEF Pending, Returns
    <3>3. n <= Len(Content) /\ got[c] \o Pending(c) = SubSeq(Content, 1, n)
      BY <2>1, <2>2 DEF AnswerOf
    <3> HIDE DEF n
    <3> QED
      BY <3>1, <3>2, <3>3, FrontIsPrefix
  <2>3. ASSUME NEW c \in Conns, Answered(c), undisturbed[c] = "write"
        PROVE  OwnByte(c, got[c])
    BY <2>1, <2>3 DEF AnswerOf
  <2> QED
    BY <2>2, <2>3 DEF AnswerIsTheFile, Reading, Content
<1>2. Init => AnswerInv(B) /\ ControlInv /\ DescInv
  BY AnswerInvInit, ControlInvInit, DescInvInit
<1>3. AnswerInv(B) /\ ControlInv /\ DescInv /\ [Next]_vars
        => (AnswerInv(B) /\ ControlInv /\ DescInv)'
  BY NextKeepsAnswer, NextKeepsControl, NextKeepsDesc
<1> QED
  BY <1>1, <1>2, <1>3, PTL DEF Spec
=============================================================================
