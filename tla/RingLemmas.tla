----------------------------- MODULE RingLemmas -----------------------------
(***************************************************************************)
(* What the operators of CircularBuffer return, for any number of slots,   *)
(* and the facts about numbers and sums they rest on.                      *)
(*                                                                         *)
(* Induction is stated with a set in the place of a predicate, which the   *)
(* provers can instantiate: NatSetInduction says that a set that holds 0   *)
(* and, with each number, the next one holds all of them.  The sum of the  *)
(* community modules is a function defined by recursion, that is, by       *)
(* CHOOSE; that there is a function to choose is the first thing proved.   *)
(***************************************************************************)
EXTENDS CircularBuffer, SequencesExt, FiniteSetTheorems, TLAPS

\* Every set of numbers that is not empty has a least one.
LEMMA LeastNatural ==
  ASSUME NEW T, T \subseteq Nat, T # {}
  PROVE  \E x \in T : \A y \in T : x <= y
<1> DEFINE R == OpToRel(<, Nat)
<1>1. IsWellFoundedOn(R, Nat)
  BY NatLessThanWellFounded
<1>2. \A x, y \in Nat : y < x => <<y, x>> \in R
  BY DEF OpToRel
<1> HIDE DEF R
<1>3. PICK x \in T : \A y \in T : ~ (<<y, x>> \in R)
  BY <1>1, WFMin
<1>4. ASSUME NEW y \in T PROVE x <= y
  <2>1. ~ (y < x)
    BY <1>2, <1>3
  <2> QED
    BY <2>1
<1> QED
  BY <1>4

\* Min returns it.
LEMMA MinIsLeast ==
  ASSUME NEW T, T \subseteq Nat, T # {}
  PROVE  Min(T) \in T /\ \A y \in T : Min(T) <= y
BY LeastNatural DEF Min

\* Induction over the natural numbers.
LEMMA NatSetInduction ==
  ASSUME NEW T, 0 \in T, \A n \in Nat : n \in T => n + 1 \in T
  PROVE  Nat \subseteq T
<1> SUFFICES ASSUME Nat \ T # {} PROVE FALSE
  OBVIOUS
<1>1. PICK x \in Nat \ T : \A y \in Nat \ T : x <= y
  BY LeastNatural
<1>2. x # 0 /\ x - 1 \in Nat /\ x - 1 \notin Nat \ T
  BY <1>1
<1> QED
  BY <1>1, <1>2

\* A set without one of its elements.
LEMMA OneLess ==
  ASSUME NEW S, IsFiniteSet(S), NEW y \in S
  PROVE  Cardinality(S \ {y}) = Cardinality(S) - 1 /\ Cardinality(S) \in Nat
BY FS_RemoveElement, FS_CardinalityType

-----------------------------------------------------------------------------
\* Sums.

\* The element the fold takes next, what it makes of a set, and a function
\* that is the fold on every set of a domain.
PickFrom(s) == CHOOSE x \in s : TRUE

SumStep(g, f, s) ==
  IF s = {} THEN 0 ELSE f[PickFrom(s)] + g[s \ {PickFrom(s)}]

IsSum(g, f, D) == g = [s \in D |-> SumStep(g, f, s)]

\* The element taken is one of the set's.
LEMMA PickFromIn == ASSUME NEW s, s # {} PROVE PickFrom(s) \in s
BY DEF PickFrom

\* There is a function that is the fold on all subsets of a finite set.
LEMMA SumExists ==
  ASSUME NEW f, NEW S, IsFiniteSet(S)
  PROVE  \E g : IsSum(g, f, SUBSET S)
<1> DEFINE D(n) == {s \in SUBSET S : Cardinality(s) <= n}
           T    == {n \in Nat : \E g : IsSum(g, f, D(n))}
<1>1. \A s \in SUBSET S : IsFiniteSet(s) /\ Cardinality(s) \in Nat
  BY FS_Subset, FS_CardinalityType
<1>2. 0 \in T
  <2>1. D(0) = {{}}
    BY <1>1, FS_EmptySet
  <2> DEFINE g == [s \in D(0) |-> 0]
  <2>2. g = [s \in D(0) |-> SumStep(g, f, s)]
    BY <2>1 DEF SumStep
  <2> QED
    BY <2>2 DEF IsSum
<1>3. ASSUME NEW n \in Nat, n \in T PROVE n + 1 \in T
  <2>1. PICK g : g = [s \in D(n) |-> SumStep(g, f, s)]
    BY <1>3 DEF IsSum
  <2> DEFINE h == [s \in D(n + 1) |-> SumStep(g, f, s)]
  <2>2. ASSUME NEW s \in D(n + 1) PROVE SumStep(g, f, s) = SumStep(h, f, s)
    <3>1. CASE s = {}
      BY <3>1 DEF SumStep
    <3>2. CASE s # {}
      <4> DEFINE t == s \ {PickFrom(s)}
      <4>0. PickFrom(s) \in s
        BY <3>2, PickFromIn
      <4>1. Cardinality(t) = Cardinality(s) - 1
        BY <1>1, <4>0, FS_RemoveElement
      <4>2. t \in D(n) /\ t \in D(n + 1)
        BY <1>1, <4>1
      <4>3. g[t] = h[t]
        BY <2>1, <4>2
      <4> QED
        BY <4>3 DEF SumStep
    <3> QED
      BY <3>1, <3>2
  <2>3. IsSum(h, f, D(n + 1))
    BY <2>2 DEF IsSum
  <2> HIDE DEF h, D
  <2> QED
    BY <2>3
<1>4. Cardinality(S) \in T
  <2> HIDE DEF T
  <2> QED
    BY <1>1, <1>2, <1>3, NatSetInduction
<1>5. D(Cardinality(S)) = SUBSET S
  BY <1>1, FS_Subset
<1> QED
  BY <1>4, <1>5

\* A sum is the value of such a function.
LEMMA SumIs ==
  ASSUME NEW f, NEW S, IsFiniteSet(S)
  PROVE  \E g : IsSum(g, f, SUBSET S) /\ SumFunctionOnSet(f, S) = g[S]
<1> DEFINE G == CHOOSE g : IsSum(g, f, SUBSET S)
<1>1. SumFunctionOnSet(f, S) = G[S]
  BY DEF SumFunctionOnSet, FoldFunctionOnSet, MapThenFoldSet, IsSum, SumStep, PickFrom
<1>2. IsSum(G, f, SUBSET S)
  BY SumExists
<1> QED
  BY <1>1, <1>2

\* Two such functions agree where what they add up agrees.
LEMMA SumAgree ==
  ASSUME NEW f, NEW f2, NEW g, NEW h, NEW S, NEW S2,
         IsSum(g, f, SUBSET S), IsSum(h, f2, SUBSET S2),
         NEW U, U \subseteq S, U \subseteq S2, IsFiniteSet(U),
         \A x \in U : f[x] = f2[x]
  PROVE  g[U] = h[U]
<1> DEFINE T == {n \in Nat : \A s \in SUBSET U : Cardinality(s) = n => g[s] = h[s]}
<1>1. \A s \in SUBSET U : IsFiniteSet(s) /\ Cardinality(s) \in Nat
  BY FS_Subset, FS_CardinalityType
<1>2. \A s \in SUBSET U : g[s] = SumStep(g, f, s) /\ h[s] = SumStep(h, f2, s)
  BY DEF IsSum
<1>3. 0 \in T
  BY <1>1, <1>2, FS_EmptySet DEF SumStep
<1>4. ASSUME NEW n \in Nat, n \in T PROVE n + 1 \in T
  <2> SUFFICES ASSUME NEW s \in SUBSET U, Cardinality(s) = n + 1 PROVE g[s] = h[s]
    OBVIOUS
  <2> DEFINE c == PickFrom(s)
  <2>1. s # {} /\ c \in s
    BY <1>1, FS_EmptySet, PickFromIn
  <2>2. Cardinality(s \ {c}) = n
    <3>1. IsFiniteSet(s)
      BY <1>1
    <3> HIDE DEF c
    <3> QED
      BY <2>1, <3>1, OneLess
  <2>3. g[s \ {c}] = h[s \ {c}]
    BY <1>4, <2>2
  <2>4. f[c] = f2[c]
    BY <2>1
  <2> QED
    BY <1>2, <2>1, <2>3, <2>4 DEF SumStep
<1>5. Cardinality(U) \in T
  <2> HIDE DEF T
  <2> QED
    BY <1>1, <1>3, <1>4, NatSetInduction
<1> QED
  BY <1>5

\* The same where only the domains differ.
LEMMA SumRestricted ==
  ASSUME NEW f, NEW g, NEW h, NEW S, NEW U, U \subseteq S, IsFiniteSet(U),
         IsSum(g, f, SUBSET S), IsSum(h, f, SUBSET U)
  PROVE  g[U] = h[U]
<1>1. U \subseteq U /\ \A x \in U : f[x] = f[x]
  OBVIOUS
<1> QED
  BY <1>1, SumAgree

\* The fold of a set is a number, and any of its elements might have been the
\* one taken first.
AnyFirst(g, f, s) ==
  g[s] \in Nat /\ \A y \in s : g[s] = f[y] + g[s \ {y}]

\* From the proper subsets of a set to the set.
LEMMA AnyFirstStep ==
  ASSUME NEW f, NEW g, NEW s, g[s] = SumStep(g, f, s), s # {},
         \A x \in s : f[x] \in Nat,
         \A t \in SUBSET s : t # s => AnyFirst(g, f, t)
  PROVE  AnyFirst(g, f, s)
<1>1. PICK c \in s : g[s] = f[c] + g[s \ {c}]
  BY PickFromIn DEF SumStep
<1>2. ASSUME NEW y \in s
      PROVE  AnyFirst(g, f, s \ {y}) /\ f[y] \in Nat /\ g[s \ {y}] \in Nat
  <2>1. s \ {y} # s /\ s \ {y} \in SUBSET s
    OBVIOUS
  <2> QED
    BY <2>1 DEF AnyFirst
<1>3. ASSUME NEW y \in s PROVE g[s] = f[y] + g[s \ {y}]
  <2>1. CASE y = c
    BY <1>1, <2>1
  <2>2. CASE y # c
    <3> DEFINE r == (s \ {c}) \ {y}
    <3>1. /\ r = (s \ {y}) \ {c} /\ y \in s \ {c} /\ c \in s \ {y}
          /\ r \in SUBSET s /\ r # s
      BY <2>2
    <3>2. g[s \ {c}] = f[y] + g[r]
      BY <1>2, <3>1 DEF AnyFirst
    <3>4. g[s \ {y}] = f[c] + g[r]
      BY <1>2, <3>1 DEF AnyFirst
    <3>3. g[r] \in Nat /\ f[y] \in Nat /\ f[c] \in Nat
      BY <1>2, <3>1 DEF AnyFirst
    <3> HIDE DEF r
    <3> QED
      BY <1>1, <3>2, <3>3, <3>4
  <2> QED
    BY <2>1, <2>2
<1>4. g[s] \in Nat
  <2>1. f[c] + g[s \ {c}] \in Nat
    BY <1>2
  <2> QED
    BY <1>1, <2>1, Zenon
<1> QED
  BY <1>3, <1>4 DEF AnyFirst

\* The order in which the fold takes the elements makes no difference.
LEMMA SumAny ==
  ASSUME NEW f, NEW g, NEW S, IsFiniteSet(S), IsSum(g, f, SUBSET S),
         \A x \in S : f[x] \in Nat
  PROVE  \A s \in SUBSET S : AnyFirst(g, f, s)
<1> DEFINE T == {n \in Nat : \A s \in SUBSET S :
                               Cardinality(s) <= n => AnyFirst(g, f, s)}
<1>1. \A s \in SUBSET S : IsFiniteSet(s) /\ Cardinality(s) \in Nat
  BY FS_Subset, FS_CardinalityType
<1>2. \A s \in SUBSET S : g[s] = SumStep(g, f, s)
  BY DEF IsSum
<1>3. 0 \in T
  <2>1. AnyFirst(g, f, {})
    <3>1. g[{}] = SumStep(g, f, {})
      BY <1>2
    <3>2. g[{}] = 0
      BY <3>1 DEF SumStep
    <3> QED
      BY <3>2 DEF AnyFirst
  <2>2. \A s \in SUBSET S : Cardinality(s) <= 0 => s = {}
    BY <1>1, FS_EmptySet
  <2> QED
    BY <2>1, <2>2
<1>4. ASSUME NEW n \in Nat, n \in T PROVE n + 1 \in T
  <2>1. \A t \in SUBSET S : Cardinality(t) <= n => AnyFirst(g, f, t)
    BY <1>4
  <2> HIDE DEF T
  <2>2. ASSUME NEW s \in SUBSET S, Cardinality(s) = n + 1 PROVE AnyFirst(g, f, s)
    <3>1. s # {}
      <4>1. Cardinality({}) = 0 /\ n + 1 # 0
        BY FS_EmptySet
      <4> QED
        BY <2>2, <4>1, Zenon
    <3>2. ASSUME NEW t \in SUBSET s, t # s PROVE AnyFirst(g, f, t)
      <4>1. Cardinality(t) <= n /\ t \in SUBSET S
        BY <1>1, <2>2, <3>2, FS_Subset
      <4> QED
        BY <2>1, <4>1
    <3> QED
      BY <1>2, <3>1, <3>2, AnyFirstStep
  <2>3. \A s \in SUBSET S : Cardinality(s) <= n + 1 => AnyFirst(g, f, s)
    BY <1>1, <2>1, <2>2
  <2> QED
    BY <2>3 DEF T
<1>5. ASSUME NEW s \in SUBSET S PROVE AnyFirst(g, f, s)
  <2>1. Cardinality(s) \in T
    <3> HIDE DEF T
    <3> QED
      BY <1>1, <1>3, <1>4, NatSetInduction
  <2> QED
    BY <1>1, <2>1
<1> QED
  BY <1>5

\* The sum over nothing.
LEMMA SumEmpty ==
  ASSUME NEW f
  PROVE  SumFunctionOnSet(f, {}) = 0
<1>1. PICK g : IsSum(g, f, SUBSET {}) /\ SumFunctionOnSet(f, {}) = g[{}]
  BY FS_EmptySet, SumIs
<1> QED
  BY <1>1 DEF IsSum, SumStep

\* A sum of natural numbers is one.
LEMMA SumNat ==
  ASSUME NEW f, NEW S, IsFiniteSet(S), \A x \in S : f[x] \in Nat
  PROVE  SumFunctionOnSet(f, S) \in Nat
<1>1. PICK g : IsSum(g, f, SUBSET S) /\ SumFunctionOnSet(f, S) = g[S]
  BY SumIs
<1>2. S \in SUBSET S
  OBVIOUS
<1> QED
  BY <1>1, <1>2, SumAny DEF AnyFirst

\* A sum depends on the values in its set only.
LEMMA SumSame ==
  ASSUME NEW f, NEW f2, NEW S, IsFiniteSet(S), \A x \in S : f[x] = f2[x]
  PROVE  SumFunctionOnSet(f, S) = SumFunctionOnSet(f2, S)
<1>1. PICK g : IsSum(g, f, SUBSET S) /\ SumFunctionOnSet(f, S) = g[S]
  BY SumIs
<1>2. PICK h : IsSum(h, f2, SUBSET S) /\ SumFunctionOnSet(f2, S) = h[S]
  BY SumIs
<1> QED
  BY <1>1, <1>2, SumAgree

\* One element of a sum, and the rest.
LEMMA SumOneMore ==
  ASSUME NEW f, NEW S, IsFiniteSet(S), \A x \in S : f[x] \in Nat, NEW y \in S
  PROVE  SumFunctionOnSet(f, S) = f[y] + SumFunctionOnSet(f, S \ {y})
<1>1. PICK g : IsSum(g, f, SUBSET S) /\ SumFunctionOnSet(f, S) = g[S]
  BY SumIs
<1>2. IsFiniteSet(S \ {y})
  BY FS_Subset
<1>3. PICK h : /\ IsSum(h, f, SUBSET (S \ {y}))
               /\ SumFunctionOnSet(f, S \ {y}) = h[S \ {y}]
  BY <1>2, SumIs
<1>4. g[S \ {y}] = h[S \ {y}]
  <2> DEFINE U == S \ {y}
  <2>1. U \subseteq S /\ IsFiniteSet(U) /\ IsSum(h, f, SUBSET U)
    BY <1>2, <1>3
  <2> HIDE DEF U
  <2>2. g[U] = h[U]
    BY <1>1, <2>1, SumRestricted
  <2> QED
    BY <2>2 DEF U
<1>5. g[S] = f[y] + g[S \ {y}]
  <2>1. S \in SUBSET S
    OBVIOUS
  <2> QED
    BY <1>1, <2>1, SumAny DEF AnyFirst
<1> QED
  BY <1>1, <1>3, <1>4, <1>5

-----------------------------------------------------------------------------
\* Positions in the ring.

\* The next position after slot x in the array.
After(x) == IF x + 1 = MaxWriteOps THEN 0 ELSE x + 1

\* The wrap of an offset by one place (in_offs and out_offs in add_entry).
LEMMA WrapSuccessor ==
  ASSUME NEW x \in Index
  PROVE  (x + 1) % MaxWriteOps = After(x) /\ After(x) \in Index
BY MaxWriteOpsAssumption DEF Index, After

\* The wrap of a walk that starts at a slot and makes less than a lap.
LEMMA WrapWalk ==
  ASSUME NEW x \in Index, NEW k \in Index
  PROVE  (x + k) % MaxWriteOps
           = IF x + k < MaxWriteOps THEN x + k ELSE x + k - MaxWriteOps
BY MaxWriteOpsAssumption DEF Index

\* However far a walk goes, it is in the array.
LEMMA SlotInIndex ==
  ASSUME NEW P, NEW b \in RingsOver(P), NEW k \in Nat
  PROVE  Slot(b, k) \in Index
BY MaxWriteOpsAssumption DEF Slot, RingsOver, Index

\* bytes_so_far starts at 0 and grows by the size of the entry passed.
LEMMA BytesSoFarStep ==
  ASSUME NEW P, NEW b \in RingsOver(P), NEW k \in Nat
  PROVE  /\ BytesSoFar(b, 0) = 0
         /\ BytesSoFar(b, k) \in Nat
         /\ b.entry[Slot(b, k)].size \in Nat
         /\ BytesSoFar(b, k + 1) = BytesSoFar(b, k) + b.entry[Slot(b, k)].size
<1> DEFINE size(i) == b.entry[Slot(b, i)].size
           F(n) == [i \in 0 .. n - 1 |-> size(i)]
<1>1. \A i \in Nat : size(i) \in Nat
  BY SlotInIndex DEF RingsOver, EntriesOver
<1> HIDE DEF size
<1>2. \A n \in Nat : IsFiniteSet(0 .. n - 1) /\ \A i \in 0 .. n - 1 : F(n)[i] = size(i)
  BY FS_Interval
<1>3. \A n \in Nat : BytesSoFar(b, n) = SumFunctionOnSet(F(n), 0 .. n - 1)
  BY DEF BytesSoFar, SumFunction, size
<1>4. BytesSoFar(b, 0) = 0
  <2>1. 0 .. 0 - 1 = {}
    OBVIOUS
  <2> QED
    BY <1>3, <2>1, SumEmpty
<1>5. BytesSoFar(b, k) \in Nat
  <2>1. IsFiniteSet(0 .. k - 1) /\ \A i \in 0 .. k - 1 : F(k)[i] \in Nat
    BY <1>1, <1>2
  <2>2. BytesSoFar(b, k) = SumFunctionOnSet(F(k), 0 .. k - 1)
    BY <1>3
  <2> HIDE DEF F
  <2> QED
    BY <2>1, <2>2, SumNat
<1>6. BytesSoFar(b, k + 1) = size(k) + SumFunctionOnSet(F(k + 1), 0 .. k - 1)
  <2>1. IsFiniteSet(0 .. k) /\ k \in 0 .. k /\ (0 .. k) \ {k} = 0 .. k - 1
    BY FS_Interval
  <2>2. \A i \in 0 .. k : F(k + 1)[i] = size(i) /\ size(i) \in Nat
    BY <1>1
  <2>3. BytesSoFar(b, k + 1) = SumFunctionOnSet(F(k + 1), 0 .. k)
    BY <1>3
  <2> HIDE DEF F
  <2> QED
    BY <2>1, <2>2, <2>3, SumOneMore
<1>7. SumFunctionOnSet(F(k + 1), 0 .. k - 1) = SumFunctionOnSet(F(k), 0 .. k - 1)
  <2>1. \A i \in 0 .. k - 1 : F(k + 1)[i] = F(k)[i]
    OBVIOUS
  <2>2. IsFiniteSet(0 .. k - 1)
    BY <1>2
  <2> HIDE DEF F
  <2> QED
    BY <2>1, <2>2, SumSame
<1>8. size(k) \in Nat /\ BytesSoFar(b, k + 1) = BytesSoFar(b, k) + size(k)
  <2> HIDE DEF F
  <2>1. SumFunctionOnSet(F(k), 0 .. k - 1) = BytesSoFar(b, k) /\ size(k) \in Nat
    BY <1>1, <1>3
  <2> QED
    BY <1>5, <1>6, <1>7, <2>1
<1> QED
  BY <1>4, <1>5, <1>8 DEF size

\* The search stops inside the first entry whose end lies beyond the offset.
LEMMA FindStopsInside ==
  ASSUME NEW P, NEW b \in RingsOver(P), NEW pos \in Nat,
         FindEntryOffsetForFpos(b, pos).found
  PROVE  \E k \in 0 .. Count(b) - 1 :
           /\ FindEntryOffsetForFpos(b, pos).index = Slot(b, k)
           /\ FindEntryOffsetForFpos(b, pos).offset = pos - BytesSoFar(b, k)
           /\ BytesSoFar(b, k) <= pos
           /\ pos < BytesSoFar(b, k) + b.entry[Slot(b, k)].size
<1> DEFINE hits == {k \in 0 .. Count(b) - 1 : pos < BytesSoFar(b, k + 1)}
           hit  == FindEntryOffsetForFpos(b, pos)
<1>1. Count(b) \in Nat
  BY MaxWriteOpsAssumption DEF Count, RingsOver, Index
<1>2. hits # {}
  BY DEF FindEntryOffsetForFpos, NotFound
<1> DEFINE k == Min(hits)
<1>3. hits \subseteq Nat
  BY <1>1
<1>4. k \in hits /\ \A j \in hits : k <= j
  <2> HIDE DEF hits
  <2> QED
    BY <1>2, <1>3, MinIsLeast
<1>5. hit.index = Slot(b, k) /\ hit.offset = pos - BytesSoFar(b, k)
  BY <1>2 DEF FindEntryOffsetForFpos
<1>6. k \in Nat /\ k \in 0 .. Count(b) - 1 /\ pos < BytesSoFar(b, k + 1)
  BY <1>1, <1>4
<1> HIDE DEF k
<1>7. BytesSoFar(b, k) <= pos
  <2>1. CASE k = 0
    BY <2>1, BytesSoFarStep
  <2>2. CASE k # 0
    <3>1. k - 1 \in 0 .. Count(b) - 1 /\ k - 1 \notin hits /\ (k - 1) + 1 = k
      BY <1>1, <1>4, <1>6, <2>2
    <3>2. ~ (pos < BytesSoFar(b, k))
      BY <3>1
    <3> QED
      BY <1>6, <3>2, BytesSoFarStep
  <2> QED
    BY <2>1, <2>2
<1> QED
  BY <1>5, <1>6, <1>7, BytesSoFarStep
-----------------------------------------------------------------------------
\* The two halves of add_entry.

\* Both keep the ring a ring.
LEMMA HalvesType ==
  ASSUME NEW P, NEW b \in RingsOver(P)
  PROVE  /\ \A e \in EntriesOver(P) : StoreEntry(b, e) \in RingsOver(P)
         /\ AdvanceOut(b) \in RingsOver(P)
         /\ Overwritten(b) \in P \cup {NULL}
<1>1. /\ b.entry \in [Index -> EntriesOver(P)]
      /\ b.in_offs \in Index /\ b.out_offs \in Index /\ b.full \in BOOLEAN
  BY DEF RingsOver
<1>2. /\ (b.in_offs + 1) % MaxWriteOps \in Index
      /\ (b.out_offs + 1) % MaxWriteOps \in Index
  BY <1>1, WrapSuccessor
<1>3. ASSUME NEW e \in EntriesOver(P) PROVE StoreEntry(b, e) \in RingsOver(P)
  BY <1>1, <1>2 DEF StoreEntry, RingsOver
<1>4. AdvanceOut(b) \in RingsOver(P)
  BY <1>1, <1>2 DEF AdvanceOut, RingsOver
<1>5. Overwritten(b) \in P \cup {NULL}
  BY <1>1 DEF Overwritten, EntriesOver
<1> QED
  BY <1>3, <1>4, <1>5

\* The offsets tell the slots that hold a pointer: all of a full ring, those
\* in front of in_offs otherwise.
RingShape(b) ==
  IF b.full
  THEN b.in_offs = b.out_offs /\ \A i \in Index : b.entry[i].buffptr # NULL
  ELSE /\ b.out_offs = 0
       /\ \A i \in Index : b.entry[i].buffptr # NULL <=> i < b.in_offs

\* A ring after init has no pointer in it.
LEMMA EmptyRingShape == RingShape(InitBuffer) /\ StoredPointers(InitBuffer) = {}
                        /\ PointersDiffer(InitBuffer)
BY DEF RingShape, InitBuffer, EmptyEntry, StoredPointers, PointersDiffer, Index

\* add_entry writes over the slot whose pointer it returns.
LEMMA OverwrittenIsAtIn ==
  ASSUME NEW P, NEW b \in RingsOver(P), RingShape(b)
  PROVE  Overwritten(b) = b.entry[b.in_offs].buffptr
BY DEF RingsOver, RingShape, Overwritten, Index

\* The first half puts a new pointer in the place of the one returned.
LEMMA StoreSwapsPointers ==
  ASSUME NEW P, NEW b \in RingsOver(P), RingShape(b), PointersDiffer(b),
         NEW e, e.buffptr # NULL, e.buffptr \notin StoredPointers(b)
  PROVE  /\ StoredPointers(StoreEntry(b, e))
              = (StoredPointers(b) \ {Overwritten(b)}) \cup {e.buffptr}
         /\ PointersDiffer(StoreEntry(b, e))
<1> DEFINE in == b.in_offs
           c == StoreEntry(b, e)
<1>1. /\ in \in Index
      /\ \A i \in Index : c.entry[i] = IF i = in THEN e ELSE b.entry[i]
  BY DEF RingsOver, StoreEntry
<1>2. Overwritten(b) = b.entry[in].buffptr
  BY OverwrittenIsAtIn
<1>3. \A i \in Index : b.entry[i].buffptr # e.buffptr
  BY DEF StoredPointers
<1>4. \A i \in Index : b.entry[i].buffptr = b.entry[in].buffptr
                          => i = in \/ b.entry[i].buffptr = NULL
  BY <1>1 DEF PointersDiffer
<1>5. ASSUME NEW x
      PROVE  x \in StoredPointers(c)
               <=> x \in (StoredPointers(b) \ {b.entry[in].buffptr}) \cup {e.buffptr}
  <2>1. ASSUME x \in StoredPointers(c)
        PROVE  x \in (StoredPointers(b) \ {b.entry[in].buffptr}) \cup {e.buffptr}
    <3>1. PICK i \in Index : x = c.entry[i].buffptr /\ x # NULL
      BY <2>1 DEF StoredPointers
    <3> HIDE DEF c
    <3>2. CASE i = in
      BY <1>1, <3>1, <3>2
    <3>3. CASE i # in
      <4>1. x = b.entry[i].buffptr /\ x # b.entry[in].buffptr
        BY <1>1, <1>4, <3>1, <3>3
      <4> QED
        BY <3>1, <4>1 DEF StoredPointers
    <3> QED
      BY <3>2, <3>3
  <2>2. ASSUME x \in (StoredPointers(b) \ {b.entry[in].buffptr}) \cup {e.buffptr}
        PROVE  x \in StoredPointers(c)
    <3> HIDE DEF c
    <3>1. CASE x = e.buffptr
      <4>1. c.entry[in].buffptr = x /\ x # NULL
        BY <1>1, <3>1
      <4> QED
        BY <1>1, <4>1 DEF StoredPointers
    <3>2. CASE x # e.buffptr
      <4>1. PICK i \in Index : x = b.entry[i].buffptr /\ x # NULL
                               /\ x # b.entry[in].buffptr
        BY <2>2, <3>2 DEF StoredPointers
      <4>2. c.entry[i].buffptr = x
        BY <1>1, <4>1
      <4> QED
        BY <4>1, <4>2 DEF StoredPointers
    <3> QED
      BY <3>1, <3>2
  <2> QED
    BY <2>1, <2>2
<1>6. PointersDiffer(c)
  <2> HIDE DEF c
  <2> QED
    BY <1>1, <1>3 DEF PointersDiffer
<1> QED
  BY <1>2, <1>5, <1>6

\* The second half looks at the offsets only.
LEMMA AdvanceKeepsEntries ==
  ASSUME NEW b
  PROVE  /\ AdvanceOut(b).entry = b.entry
         /\ StoredPointers(AdvanceOut(b)) = StoredPointers(b)
         /\ PointersDiffer(AdvanceOut(b)) <=> PointersDiffer(b)
BY DEF AdvanceOut, StoredPointers, PointersDiffer

\* Together they keep the offsets right.
LEMMA AddKeepsShape ==
  ASSUME NEW P, NEW b \in RingsOver(P), RingShape(b), NEW e, e.buffptr # NULL
  PROVE  RingShape(AdvanceOut(StoreEntry(b, e)))
<1> DEFINE c == AdvanceOut(StoreEntry(b, e))
           in == b.in_offs
           out == b.out_offs
<1>1. /\ b.entry \in [Index -> EntriesOver(P)]
      /\ in \in Index /\ out \in Index /\ b.full \in BOOLEAN
  BY DEF RingsOver
<1>2. /\ (in + 1) % MaxWriteOps = After(in)
      /\ (out + 1) % MaxWriteOps = After(out)
  BY <1>1, WrapSuccessor
<1>3. /\ c.in_offs = After(in)
      /\ c.out_offs = IF b.full THEN After(out) ELSE out
      /\ c.full <=> c.in_offs = c.out_offs
      /\ \A i \in Index : c.entry[i] = IF i = in THEN e ELSE b.entry[i]
  BY <1>1, <1>2 DEF AdvanceOut, StoreEntry
<1> HIDE DEF c
<1>4. ASSUME b.full PROVE RingShape(c)
  BY <1>1, <1>3, <1>4 DEF RingShape
<1>5. ASSUME ~b.full PROVE RingShape(c)
  <2>1. out = 0 /\ \A i \in Index : b.entry[i].buffptr # NULL <=> i < in
    BY <1>5 DEF RingShape
  <2>2. c.out_offs = 0
    BY <1>3, <1>5, <2>1
  <2>3. CASE in + 1 = MaxWriteOps
    <3>1. c.in_offs = 0 /\ c.full
      BY <1>3, <2>2, <2>3 DEF After
    <3>2. \A i \in Index : i = in \/ i < in
      BY <1>1, <2>3, MaxWriteOpsAssumption DEF Index
    <3> QED
      BY <1>3, <2>1, <2>2, <3>1, <3>2 DEF RingShape
  <2>4. CASE in + 1 # MaxWriteOps
    <3>1. c.in_offs = in + 1 /\ ~c.full
      <4>1. in \in Nat /\ After(in) = in + 1
        BY <1>1, <2>4 DEF After, Index
      <4> QED
        BY <1>3, <2>2, <4>1
    <3>2. \A i \in Index : i < in + 1 <=> i = in \/ i < in
      BY <1>1 DEF Index
    <3> QED
      BY <1>3, <2>1, <2>2, <3>1, <3>2 DEF RingShape
  <2> QED
    BY <2>3, <2>4
<1> QED
  BY <1>4, <1>5 DEF c

\* The valid entries hold a pointer each.
LEMMA ValidHoldPointers ==
  ASSUME NEW P, NEW b \in RingsOver(P), RingShape(b), NEW k \in 0 .. Count(b) - 1
  PROVE  /\ Slot(b, k) \in Index
         /\ b.entry[Slot(b, k)].buffptr \in StoredPointers(b)
<1>1. /\ b.in_offs \in Index /\ b.out_offs \in Index /\ b.full \in BOOLEAN
      /\ Count(b) \in Nat /\ Count(b) <= MaxWriteOps
  BY MaxWriteOpsAssumption DEF RingsOver, Count, Index
<1>2. k \in Nat /\ k \in Index
  BY <1>1, MaxWriteOpsAssumption DEF Index
<1>3. Slot(b, k) \in Index
  BY <1>2, SlotInIndex
<1>4. b.entry[Slot(b, k)].buffptr # NULL
  <2>1. CASE b.full
    BY <1>3, <2>1 DEF RingShape
  <2>2. CASE ~b.full
    <3>1. b.out_offs = 0 /\ k < b.in_offs
      BY <1>1, <2>2 DEF RingShape, Count, Index
    <3>2. Slot(b, k) = k
      <4>1. b.out_offs + k < MaxWriteOps /\ b.out_offs + k = k
        BY <1>1, <1>2, <3>1, MaxWriteOpsAssumption DEF Index
      <4> QED
        BY <1>1, <1>2, <4>1, WrapWalk DEF Slot
    <3> QED
      BY <1>2, <2>2, <3>1, <3>2 DEF RingShape
  <2> QED
    BY <2>1, <2>2
<1> QED
  BY <1>3, <1>4 DEF StoredPointers
-----------------------------------------------------------------------------
\* Sequences laid end to end.

\* The first n sequences of s, laid end to end one after the other, as
\* FlattenSeq does it.
IsFlatten(f, s, n) ==
  f = [i \in 1 .. n |-> IF i = 1 THEN s[i] ELSE f[i - 1] \o s[i]]

\* There is such a function.
LEMMA FlattenExists ==
  ASSUME NEW s, NEW n \in Nat
  PROVE  \E f : IsFlatten(f, s, n)
<1> DEFINE T == {m \in Nat : \E f : IsFlatten(f, s, m)}
<1>1. 0 \in T
  <2> DEFINE g == [i \in 1 .. 0 |-> s[i]]
  <2>1. IsFlatten(g, s, 0)
    BY DEF IsFlatten
  <2> HIDE DEF g
  <2> QED
    BY <2>1
<1>2. ASSUME NEW m \in Nat, m \in T PROVE m + 1 \in T
  <2>1. PICK f : IsFlatten(f, s, m)
    BY <1>2
  <2> DEFINE g == [i \in 1 .. m + 1 |-> IF i = 1 THEN s[i] ELSE f[i - 1] \o s[i]]
  <2>2. ASSUME NEW i \in 1 .. m PROVE f[i] = g[i]
    <3>1. f[i] = IF i = 1 THEN s[i] ELSE f[i - 1] \o s[i]
      BY <2>1 DEF IsFlatten
    <3>2. i \in 1 .. m + 1
      OBVIOUS
    <3> QED
      BY <3>1, <3>2
  <2>3. \A i \in 1 .. m + 1 : i = 1 \/ i - 1 \in 1 .. m
    OBVIOUS
  <2>4. IsFlatten(g, s, m + 1)
    BY <2>2, <2>3 DEF IsFlatten
  <2> HIDE DEF g
  <2> QED
    BY <2>4
<1> HIDE DEF T
<1>3. n \in T
  BY <1>1, <1>2, NatSetInduction
<1> QED
  BY <1>3 DEF T

\* Two of them.
LEMMA Concatenated ==
  ASSUME NEW S, NEW s \in Seq(S), NEW t \in Seq(S)
  PROVE  /\ s \o t \in Seq(S) /\ Len(s \o t) = Len(s) + Len(t)
         /\ \A i \in 1 .. Len(s) : (s \o t)[i] = s[i]
         /\ \A j \in 1 .. Len(t) : (s \o t)[Len(s) + j] = t[j]
<1> DEFINE m == Len(s)
           n == Len(t)
<1>1. m \in Nat /\ n \in Nat
  OBVIOUS
<1>2. \A i \in 1 .. m + n : (s \o t)[i] = IF i <= m THEN s[i] ELSE t[i - m]
  OBVIOUS
<1>3. ASSUME NEW j \in 1 .. n PROVE (s \o t)[m + j] = t[j]
  <2>1. m + j \in 1 .. m + n /\ ~(m + j <= m) /\ (m + j) - m = j
    BY <1>1
  <2> QED
    BY <1>2, <2>1
<1>4. ASSUME NEW i \in 1 .. m PROVE (s \o t)[i] = s[i]
  <2>1. i \in 1 .. m + n /\ i <= m
    BY <1>1
  <2> QED
    BY <1>2, <2>1
<1>5. s \o t \in Seq(S) /\ Len(s \o t) = m + n
  OBVIOUS
<1> QED
  BY <1>3, <1>4, <1>5

\* pos says how many bytes lie in front of each sequence of s and, at the end,
\* how many there are.
Places(pos, s) ==
  /\ \A k \in 0 .. Len(s) : pos[k] \in Nat
  /\ pos[0] = 0
  /\ \A k \in 1 .. Len(s) : pos[k] = pos[k - 1] + Len(s[k])

\* all has the bytes of each sequence of s in their places.
LaidOut(all, s, pos) ==
  \A k \in 1 .. Len(s) : \A j \in 1 .. Len(s[k]) : all[pos[k - 1] + j] = s[k][j]

\* Laid end to end, each sequence is in its place.
LEMMA FlattenPlaces ==
  ASSUME NEW S, NEW s \in Seq(Seq(S)), NEW pos, Places(pos, s)
  PROVE  /\ FlattenSeq(s) \in Seq(S)
         /\ Len(FlattenSeq(s)) = pos[Len(s)]
         /\ LaidOut(FlattenSeq(s), s, pos)
<1> DEFINE n == Len(s)
<1>1. n \in Nat /\ \A k \in 1 .. n : s[k] \in Seq(S) /\ Len(s[k]) \in Nat
  OBVIOUS
<1>2. CASE n = 0
  BY <1>2 DEF FlattenSeq, Places, LaidOut
<1>3. CASE n # 0
  <2> DEFINE G == CHOOSE f : IsFlatten(f, s, n)
  <2>1. FlattenSeq(s) = G[n]
    BY <1>3 DEF FlattenSeq, IsFlatten
  <2>2. IsFlatten(G, s, n)
    BY <1>1, FlattenExists
  <2> DEFINE Good(m) ==
               /\ G[m] \in Seq(S) /\ Len(G[m]) = pos[m]
               /\ \A k \in 1 .. m : pos[k] <= pos[m]
               /\ \A k \in 1 .. m : \A j \in 1 .. Len(s[k]) :
                    G[m][pos[k - 1] + j] = s[k][j]
             T == {m \in Nat : m + 1 \in 1 .. n => Good(m + 1)}
  <2> HIDE DEF n, G
  <2>3. /\ pos[0] = 0 /\ \A k \in 0 .. n : pos[k] \in Nat
        /\ \A k \in 1 .. n : pos[k] = pos[k - 1] + Len(s[k])
    BY DEF n, Places
  <2>4. \A i \in 1 .. n : G[i] = IF i = 1 THEN s[i] ELSE G[i - 1] \o s[i]
    BY <2>2 DEF IsFlatten
  <2>5. 0 \in T
    <3> SUFFICES ASSUME 1 \in 1 .. n PROVE Good(1)
      OBVIOUS
    <3>1. G[1] = s[1] /\ s[1] \in Seq(S) /\ pos[1] = Len(s[1]) /\ pos[1] \in Nat
      BY <1>1, <2>3, <2>4
    <3>2. \A k \in 1 .. 1 : k = 1
      OBVIOUS
    <3> QED
      BY <2>3, <3>1, <3>2
  <2>6. ASSUME NEW m \in Nat, m \in T PROVE m + 1 \in T
    <3> DEFINE l == m + 1
    <3> SUFFICES ASSUME l + 1 \in 1 .. n PROVE Good(l + 1)
      OBVIOUS
    <3>1. l \in 1 .. n /\ l \in Nat /\ l + 1 # 1 /\ (l + 1) - 1 = l
      BY <1>1
    <3>2. Good(l)
      BY <2>6, <3>1
    <3> HIDE DEF l
    <3> DEFINE new == s[l + 1]
    <3>3. G[l + 1] = G[l] \o new
      BY <2>4, <3>1
    <3>4. new \in Seq(S) /\ Len(new) \in Nat /\ pos[l + 1] = pos[l] + Len(new)
          /\ pos[l] \in Nat
      BY <1>1, <2>3, <3>1
    <3>5. G[l] \in Seq(S) /\ Len(G[l]) = pos[l]
      BY <3>2
    <3>6. \A k \in 1 .. l : pos[k] <= pos[l]
      BY <3>2
    <3>7. \A k \in 1 .. l : \A j \in 1 .. Len(s[k]) : G[l][pos[k - 1] + j] = s[k][j]
      BY <3>2
    <3> HIDE DEF new
    <3>8. /\ G[l + 1] \in Seq(S) /\ Len(G[l + 1]) = pos[l + 1]
          /\ \A i \in 1 .. pos[l] : G[l + 1][i] = G[l][i]
          /\ \A j \in 1 .. Len(new) : G[l + 1][pos[l] + j] = new[j]
      <4>1. G[l + 1] \in Seq(S) /\ Len(G[l + 1]) = pos[l + 1]
        BY <3>3, <3>4, <3>5, Concatenated
      <4>2. \A i \in 1 .. Len(G[l]) : G[l + 1][i] = G[l][i]
        BY <3>3, <3>4, <3>5, Concatenated
      <4>3. \A j \in 1 .. Len(new) : G[l + 1][Len(G[l]) + j] = new[j]
        <5>1. ASSUME NEW u \in Seq(S), NEW v \in Seq(S), NEW j \in 1 .. Len(v)
              PROVE  (u \o v)[Len(u) + j] = v[j]
          BY Concatenated
        <5> QED
          BY <3>3, <3>4, <3>5, <5>1
      <4> QED
        BY <3>5, <4>1, <4>2, <4>3
    <3>9. ASSUME NEW k \in 1 .. l + 1 PROVE k = l + 1 \/ k \in 1 .. l
      BY <3>1
    <3>10. ASSUME NEW k \in 1 .. l + 1 PROVE pos[k] <= pos[l + 1]
      <4>1. CASE k = l + 1
        BY <3>4, <4>1
      <4>2. CASE k \in 1 .. l
        <5>1. pos[k] <= pos[l] /\ pos[k] \in Nat
          <6>1. k \in 0 .. n
            BY <1>1, <3>1, <4>2
          <6> QED
            BY <2>3, <3>6, <4>2, <6>1
        <5> QED
          BY <3>4, <5>1
      <4> QED
        BY <3>9, <4>1, <4>2
    <3>11. ASSUME NEW k \in 1 .. l + 1, NEW j \in 1 .. Len(s[k])
           PROVE  G[l + 1][pos[k - 1] + j] = s[k][j]
      <4>1. CASE k = l + 1
        BY <3>1, <3>8, <4>1 DEF new
      <4>2. CASE k \in 1 .. l
        <5>1. k \in 1 .. n /\ k - 1 \in 0 .. n /\ k \in 0 .. n
          BY <1>1, <3>1, <4>2
        <5>2. /\ pos[k - 1] \in Nat /\ Len(s[k]) \in Nat /\ pos[k] <= pos[l]
              /\ pos[k] = pos[k - 1] + Len(s[k])
          BY <1>1, <2>3, <3>6, <4>2, <5>1
        <5>3. pos[k - 1] + j \in 1 .. pos[l]
          <6> DEFINE x == pos[k - 1]
                     y == pos[l]
                     z == Len(s[k])
          <6>1. x \in Nat /\ y \in Nat /\ z \in Nat /\ x + z <= y /\ j \in 1 .. z
            BY <3>4, <5>2
          <6> HIDE DEF x, y, z
          <6>2. x + j \in 1 .. y
            BY <6>1
          <6> QED
            BY <6>2 DEF x, y
        <5> QED
          BY <3>7, <3>8, <4>2, <5>3
      <4> QED
        BY <3>9, <4>1, <4>2
    <3> QED
      BY <3>8, <3>10, <3>11
  <2>7. Good(n)
    <3>1. n - 1 \in T
      <4> HIDE DEF T
      <4>1. n - 1 \in Nat
        BY <1>1, <1>3
      <4> QED
        BY <2>5, <2>6, <4>1, NatSetInduction
    <3> QED
      BY <1>1, <1>3, <3>1
  <2> QED
    BY <2>1, <2>7 DEF n, LaidOut
<1> QED
  BY <1>2, <1>3
-----------------------------------------------------------------------------
\* The valid entries, and the bytes in them.

\* How many there are.
LEMMA CountType ==
  ASSUME NEW P, NEW b \in RingsOver(P)
  PROVE  /\ Count(b) \in Nat /\ Count(b) <= MaxWriteOps
         /\ Count(b) = MaxWriteOps <=> b.full
<1>1. b.in_offs \in 0 .. MaxWriteOps - 1 /\ b.full \in BOOLEAN
  BY DEF RingsOver, Index
<1>2. MaxWriteOps \in Nat \ {0}
  BY MaxWriteOpsAssumption
<1>3. CASE b.full
  BY <1>2, <1>3 DEF Count
<1>4. CASE ~b.full
  BY <1>1, <1>2, <1>4 DEF Count
<1> QED
  BY <1>1, <1>3, <1>4

\* add_entry drops the oldest entry of a full ring, and appends the new one.
LEMMA AddToWindow ==
  ASSUME NEW P, NEW b \in RingsOver(P), RingShape(b), NEW e \in EntriesOver(P)
  PROVE  LET c == AddEntry(b, e)
             n == Count(c) - 1
         IN  /\ n \in Index
             /\ n = IF b.full THEN MaxWriteOps - 1 ELSE Count(b)
             /\ \A k \in 0 .. n - 1 :
                  c.entry[Slot(c, k)] = b.entry[Slot(b, IF b.full THEN k + 1 ELSE k)]
             /\ c.entry[Slot(c, n)] = e
<1> DEFINE c   == AddEntry(b, e)
           n   == Count(c) - 1
           in  == b.in_offs
           out == b.out_offs
<1>1. /\ b.entry \in [Index -> EntriesOver(P)]
      /\ in \in Index /\ out \in Index /\ b.full \in BOOLEAN
  BY DEF RingsOver
<1>2. MaxWriteOps \in Nat \ {0} /\ Index = 0 .. MaxWriteOps - 1
  BY MaxWriteOpsAssumption DEF Index
<1>3. c \in RingsOver(P)
  BY HalvesType DEF AddEntry
<1>4. /\ c.in_offs = After(in)
      /\ c.out_offs = IF b.full THEN After(out) ELSE out
      /\ c.full <=> c.in_offs = c.out_offs
      /\ \A i \in Index : c.entry[i] = IF i = in THEN e ELSE b.entry[i]
  <2>1. /\ (in + 1) % MaxWriteOps = After(in)
        /\ (out + 1) % MaxWriteOps = After(out)
    BY <1>1, WrapSuccessor
  <2> QED
    BY <1>1, <2>1 DEF AddEntry, AdvanceOut, StoreEntry
<1>5. c.out_offs \in Index
  BY <1>3 DEF RingsOver
<1>6. \A k \in Index : /\ Slot(c, k) = IF c.out_offs + k < MaxWriteOps
                                       THEN c.out_offs + k
                                       ELSE c.out_offs + k - MaxWriteOps
                       /\ Slot(b, k) = IF out + k < MaxWriteOps
                                       THEN out + k ELSE out + k - MaxWriteOps
  BY <1>1, <1>5, WrapWalk DEF Slot
<1> HIDE DEF c
<1>7. ASSUME b.full
      PROVE  /\ n = MaxWriteOps - 1
             /\ \A k \in 0 .. n - 1 : c.entry[Slot(c, k)] = b.entry[Slot(b, k + 1)]
             /\ c.entry[Slot(c, n)] = e
  <2>1. in = out /\ c.full /\ c.out_offs = After(out)
    BY <1>4, <1>7 DEF RingShape
  <2>2. n = MaxWriteOps - 1
    BY <1>2, <2>1 DEF Count
  <2>3. ASSUME NEW k \in 0 .. n - 1
        PROVE  c.entry[Slot(c, k)] = b.entry[Slot(b, k + 1)]
    <3>1. k \in Index /\ k + 1 \in Index
      BY <1>2, <2>2
    <3> DEFINE l == k + 1
    <3>2. l \in Index /\ l # 0 /\ k = l - 1
      BY <1>2, <3>1
    <3> HIDE DEF l
    <3>3. Slot(b, l) = IF out + l < MaxWriteOps THEN out + l ELSE out + l - MaxWriteOps
      BY <1>6, <3>2
    <3>4. Slot(c, k) = IF After(out) + k < MaxWriteOps THEN After(out) + k
                       ELSE After(out) + k - MaxWriteOps
      BY <1>6, <2>1, <3>1
    <3>5. Slot(c, k) = Slot(b, k + 1)
      <4>1. Slot(c, k) = Slot(b, l)
        BY <1>1, <1>2, <3>2, <3>3, <3>4 DEF After
      <4> QED
        BY <4>1 DEF l
    <3>6. Slot(b, k + 1) \in Index /\ Slot(b, k + 1) # in
      <4>1. Slot(b, l) \in Index /\ Slot(b, l) # out
        BY <1>1, <1>2, <3>2, <3>3
      <4> QED
        BY <2>1, <4>1 DEF l
    <3> QED
      BY <1>4, <3>5, <3>6
  <2>4. c.entry[Slot(c, n)] = e
    <3>1. n \in Index
      BY <1>2, <2>2
    <3>2. Slot(c, n) = in
      BY <1>1, <1>2, <1>6, <2>1, <2>2, <3>1 DEF After
    <3> QED
      BY <1>1, <1>4, <3>2
  <2> QED
    BY <2>2, <2>3, <2>4
<1>8. ASSUME ~b.full
      PROVE  /\ n = Count(b) /\ n \in Index
             /\ \A k \in 0 .. n - 1 : c.entry[Slot(c, k)] = b.entry[Slot(b, k)]
             /\ c.entry[Slot(c, n)] = e
  <2>1. out = 0 /\ c.out_offs = 0 /\ Count(b) = in
    BY <1>4, <1>8 DEF RingShape, Count
  <2>2. n = in
    <3>1. CASE in + 1 = MaxWriteOps
      <4>1. c.in_offs = 0 /\ c.full
        BY <1>4, <2>1, <3>1 DEF After
      <4> QED
        BY <1>1, <1>2, <3>1, <4>1 DEF Count
    <3>2. CASE in + 1 # MaxWriteOps
      <4>1. c.in_offs = in + 1 /\ in \in Nat
        BY <1>1, <1>2, <1>4, <3>2 DEF After
      <4>2. ~c.full
        BY <1>4, <2>1, <4>1
      <4> QED
        BY <4>1, <4>2 DEF Count
    <3> QED
      BY <3>1, <3>2
  <2>3. \A k \in 0 .. n : k \in Index /\ Slot(c, k) = k /\ Slot(b, k) = k
    <3>1. ASSUME NEW k \in 0 .. n PROVE k \in Index /\ k < MaxWriteOps /\ 0 + k = k
      BY <1>1, <1>2, <2>2
    <3> QED
      BY <1>6, <2>1, <3>1
  <2>4. ASSUME NEW k \in 0 .. n - 1 PROVE c.entry[Slot(c, k)] = b.entry[Slot(b, k)]
    <3>1. k \in 0 .. n /\ k # in
      BY <1>1, <1>2, <2>2
    <3> QED
      BY <1>4, <2>3, <3>1
  <2>5. n \in 0 .. n
    BY <1>1, <1>2, <2>2
  <2> QED
    BY <1>1, <1>4, <2>1, <2>2, <2>3, <2>4, <2>5
<1>9. CASE b.full
  <2>1. n \in Index
    BY <1>2, <1>7, <1>9
  <2> QED
    BY <1>7, <1>9, <2>1 DEF c
<1>10. CASE ~b.full
  BY <1>8, <1>10 DEF c
<1> QED
  BY <1>9, <1>10

\* The search finds nothing only behind the last byte.
LEMMA SearchFails ==
  ASSUME NEW P, NEW b \in RingsOver(P), NEW pos \in Nat,
         ~FindEntryOffsetForFpos(b, pos).found
  PROVE  BytesSoFar(b, Count(b)) <= pos
<1>1. Count(b) \in Nat
  BY CountType
<1>2. CASE Count(b) = 0
  BY <1>2, BytesSoFarStep
<1>3. CASE Count(b) # 0
  <2> DEFINE k == Count(b) - 1
  <2>1. k \in 0 .. Count(b) - 1 /\ k + 1 = Count(b)
    BY <1>1, <1>3
  <2>2. {j \in 0 .. Count(b) - 1 : pos < BytesSoFar(b, j + 1)} = {}
    BY DEF FindEntryOffsetForFpos
  <2>3. ~(pos < BytesSoFar(b, k + 1))
    BY <2>1, <2>2
  <2>4. BytesSoFar(b, k + 1) \in Nat
    BY <1>1, <2>1, BytesSoFarStep
  <2> QED
    BY <2>1, <2>3, <2>4
<1> QED
  BY <1>2, <1>3

\* One lap passes every slot once.
LEMMA LapIsAllSlots ==
  ASSUME NEW P, NEW b \in RingsOver(P), NEW f,
         \A i \in Index : f[i] = b.entry[i].size
  PROVE  SumFunctionOnSet(f, Index) = BytesSoFar(b, MaxWriteOps)
<1> DEFINE Passed(k) == {Slot(b, j) : j \in 0 .. k - 1}
           T == {k \in Nat : k <= MaxWriteOps
                               => SumFunctionOnSet(f, Passed(k)) = BytesSoFar(b, k)}
<1>1. MaxWriteOps \in Nat \ {0} /\ b.out_offs \in Index /\ Index = 0 .. MaxWriteOps - 1
  BY MaxWriteOpsAssumption DEF RingsOver, Index
<1>2. IsFiniteSet(Index)
  BY <1>1, FS_Interval
<1>3. \A k \in Index : Slot(b, k) = IF b.out_offs + k < MaxWriteOps
                                    THEN b.out_offs + k
                                    ELSE b.out_offs + k - MaxWriteOps
  BY <1>1, WrapWalk DEF Slot
<1>4. 0 \in T
  <2>1. Passed(0) = {}
    OBVIOUS
  <2> QED
    BY <2>1, SumEmpty, BytesSoFarStep
<1>5. ASSUME NEW k \in Nat, k \in T PROVE k + 1 \in T
  <2> SUFFICES ASSUME k + 1 <= MaxWriteOps
               PROVE  SumFunctionOnSet(f, Passed(k + 1)) = BytesSoFar(b, k + 1)
    OBVIOUS
  <2> DEFINE y == Slot(b, k)
             S == Passed(k + 1)
  <2>1. k \in Index
    BY <1>1
  <2>2. y \in Index /\ y \in S
    <3>1. k \in 0 .. (k + 1) - 1
      OBVIOUS
    <3> QED
      BY <2>1, <3>1, SlotInIndex
  <2>3. S \subseteq Index
    <3>1. \A j \in 0 .. (k + 1) - 1 : Slot(b, j) \in Index
      BY SlotInIndex
    <3> QED
      BY <3>1
  <2>4. S \ {y} = Passed(k)
    <3>1. \A j \in 0 .. k - 1 : Slot(b, j) # y
      BY <1>1, <1>3, <2>1
    <3>2. 0 .. (k + 1) - 1 = (0 .. k - 1) \cup {k}
      OBVIOUS
    <3> QED
      BY <3>1, <3>2
  <2>5. IsFiniteSet(S) /\ \A x \in S : f[x] \in Nat
    <3>1. \A x \in Index : f[x] \in Nat
      BY DEF RingsOver, EntriesOver
    <3> HIDE DEF S
    <3> QED
      BY <1>2, <2>3, <3>1, FS_Subset
  <2>6. SumFunctionOnSet(f, S) = f[y] + SumFunctionOnSet(f, S \ {y})
    <3> HIDE DEF S, y
    <3> QED
      BY <2>2, <2>5, SumOneMore
  <2>7. SumFunctionOnSet(f, S \ {y}) = BytesSoFar(b, k)
    <3>1. k <= MaxWriteOps
      BY <1>1
    <3>2. SumFunctionOnSet(f, Passed(k)) = BytesSoFar(b, k)
      BY <1>5, <3>1
    <3> HIDE DEF S, y, Passed
    <3> QED
      BY <2>4, <3>2
  <2>8. f[y] = b.entry[y].size
    BY <2>2
  <2> HIDE DEF S, Passed
  <2>9. /\ BytesSoFar(b, k + 1) = BytesSoFar(b, k) + b.entry[y].size
        /\ BytesSoFar(b, k) \in Nat /\ b.entry[y].size \in Nat
    BY BytesSoFarStep
  <2> HIDE DEF y
  <2>10. SumFunctionOnSet(f, S) = BytesSoFar(b, k + 1)
    BY <2>6, <2>7, <2>8, <2>9
  <2> QED
    BY <2>10 DEF S
<1>6. MaxWriteOps \in T
  <2> HIDE DEF T
  <2> QED
    BY <1>1, <1>4, <1>5, NatSetInduction
<1>7. Passed(MaxWriteOps) = Index
  <2>1. Passed(MaxWriteOps) \subseteq Index
    <3>1. \A j \in 0 .. MaxWriteOps - 1 : Slot(b, j) \in Index
      BY SlotInIndex
    <3> QED
      BY <3>1
  <2>2. ASSUME NEW i \in Index PROVE i \in Passed(MaxWriteOps)
    <3> DEFINE j == IF i >= b.out_offs THEN i - b.out_offs
                    ELSE i - b.out_offs + MaxWriteOps
    <3>1. j \in Index
      BY <1>1
    <3>2. Slot(b, j) = i
      BY <1>1, <1>3, <3>1
    <3> HIDE DEF j
    <3> QED
      BY <1>1, <3>1, <3>2
  <2> QED
    BY <2>1, <2>2
<1> HIDE DEF Passed
<1>8. SumFunctionOnSet(f, Passed(MaxWriteOps)) = BytesSoFar(b, MaxWriteOps)
  BY <1>1, <1>6
<1> QED
  BY <1>7, <1>8

\* Slots that are not valid hold no bytes: a lap passes those of the window.
LEMMA LapIsWindow ==
  ASSUME NEW P, NEW b \in RingsOver(P), RingShape(b),
         \A i \in Index : b.entry[i].buffptr = NULL => b.entry[i].size = 0
  PROVE  BytesSoFar(b, MaxWriteOps) = BytesSoFar(b, Count(b))
<1> DEFINE n == Count(b)
           T == {k \in Nat : n + k <= MaxWriteOps
                               => BytesSoFar(b, n + k) = BytesSoFar(b, n)}
<1>1. n \in Nat /\ n <= MaxWriteOps /\ (n = MaxWriteOps <=> b.full)
  BY CountType
<1>2. MaxWriteOps \in Nat \ {0} /\ b.out_offs \in Index /\ Index = 0 .. MaxWriteOps - 1
  BY MaxWriteOpsAssumption DEF RingsOver, Index
<1> HIDE DEF n
<1>3. 0 \in T
  BY <1>1
<1>4. ASSUME NEW k \in Nat, k \in T PROVE k + 1 \in T
  <2> SUFFICES ASSUME n + (k + 1) <= MaxWriteOps
               PROVE  BytesSoFar(b, n + (k + 1)) = BytesSoFar(b, n)
    OBVIOUS
  <2> DEFINE l == n + k
  <2>1. l \in Nat /\ l \in Index /\ l < MaxWriteOps /\ n <= l /\ n + (k + 1) = l + 1
    BY <1>1, <1>2
  <2>2. BytesSoFar(b, l) = BytesSoFar(b, n)
    <3>1. n + k <= MaxWriteOps
      BY <1>1, <1>2, <2>1
    <3> QED
      BY <1>4, <3>1
  <2> HIDE DEF l
  <2>3. ~b.full /\ b.out_offs = 0 /\ n = b.in_offs
    BY <1>1, <1>2, <2>1 DEF RingShape, Count, n
  <2>4. Slot(b, l) = l
    <3>1. b.out_offs + l = l
      BY <2>1, <2>3
    <3> QED
      BY <1>2, <2>1, <3>1, WrapWalk DEF Slot
  <2>5. b.entry[l].buffptr = NULL
    <3>1. ~(l < b.in_offs)
      BY <1>1, <2>1, <2>3
    <3> QED
      BY <2>1, <2>3, <3>1 DEF RingShape
  <2>6. b.entry[l].size = 0
    BY <2>1, <2>5
  <2>7. /\ BytesSoFar(b, l + 1) = BytesSoFar(b, l) + b.entry[Slot(b, l)].size
        /\ BytesSoFar(b, l) \in Nat
    BY <2>1, BytesSoFarStep
  <2> QED
    BY <2>1, <2>2, <2>4, <2>6, <2>7
<1>5. MaxWriteOps - n \in T
  <2>1. MaxWriteOps - n \in Nat
    BY <1>1, <1>2
  <2> HIDE DEF T
  <2> QED
    BY <1>3, <1>4, <2>1, NatSetInduction
<1>6. n + (MaxWriteOps - n) = MaxWriteOps /\ MaxWriteOps <= MaxWriteOps
  BY <1>1, <1>2
<1>7. BytesSoFar(b, MaxWriteOps) = BytesSoFar(b, n)
  BY <1>5, <1>6
<1> QED
  BY <1>7 DEF n
-----------------------------------------------------------------------------
\* t is s with x behind it; the same without the first element of s.
Grown(t, s, x) ==
  /\ t = [k \in 1 .. Len(s) + 1 |-> t[k]]
  /\ t[Len(s) + 1] = x /\ \A k \in 1 .. Len(s) : t[k] = s[k]

Shifted(t, s, x) ==
  /\ t = [k \in 1 .. Len(s) |-> t[k]]
  /\ t[Len(s)] = x /\ \A k \in 1 .. Len(s) - 1 : t[k] = s[k + 1]

\* What Append returns, position by position.
LEMMA AppendIs ==
  ASSUME NEW S, NEW s \in Seq(S), NEW x \in S, NEW t, Grown(t, s, x)
  PROVE  t = Append(s, x)
<1> DEFINE n == Len(s)
           a == Append(s, x)
<1>1. /\ t = [k \in 1 .. n + 1 |-> t[k]] /\ t[n + 1] = x
      /\ \A k \in 1 .. n : t[k] = s[k]
  BY DEF Grown
<1>2. /\ n \in Nat /\ a \in Seq(S) /\ Len(a) = n + 1 /\ a[n + 1] = x
      /\ \A k \in 1 .. n : a[k] = s[k]
  OBVIOUS
<1> HIDE DEF n, a
<1>3. a = [k \in 1 .. n + 1 |-> a[k]]
  BY <1>2
<1>4. ASSUME NEW k \in 1 .. n + 1 PROVE t[k] = a[k]
  <2>1. k = n + 1 \/ k \in 1 .. n
    BY <1>2
  <2> QED
    BY <1>1, <1>2, <2>1
<1>5. t = a
  BY <1>1, <1>3, <1>4
<1> QED
  BY <1>5 DEF a

\* The same after the first element has gone.
LEMMA TailAppendIs ==
  ASSUME NEW S, NEW s \in Seq(S), NEW x \in S, NEW t, Shifted(t, s, x), s # <<>>
  PROVE  t = Append(Tail(s), x)
<1> DEFINE r == Tail(s)
           n == Len(s) - 1
<1>1. /\ r \in Seq(S) /\ Len(r) = n /\ n \in Nat /\ Len(s) = n + 1
      /\ \A k \in 1 .. n : r[k] = s[k + 1]
  OBVIOUS
<1>2. /\ t = [k \in 1 .. n + 1 |-> t[k]] /\ t[n + 1] = x
      /\ \A k \in 1 .. n : t[k] = s[k + 1]
  BY <1>1 DEF Shifted
<1> HIDE DEF r, n
<1>3. Grown(t, r, x)
  BY <1>1, <1>2 DEF Grown
<1>4. t = Append(r, x)
  BY <1>1, <1>3, AppendIs
<1> QED
  BY <1>4 DEF r
\* Two windows on sequences that agree position by position.
LEMMA SubSeqSame ==
  ASSUME NEW S, NEW s \in Seq(S), NEW t \in Seq(S), NEW a \in Nat, NEW b \in Nat,
         NEW d \in Nat, a + d <= Len(s), b + d <= Len(t),
         \A j \in 1 .. d : s[a + j] = t[b + j],
         NEW a1, a1 = a + 1, NEW a2, a2 = a + d, NEW b1, b1 = b + 1, NEW b2, b2 = b + d
  PROVE  SubSeq(s, a1, a2) = SubSeq(t, b1, b2)
<1> DEFINE u == SubSeq(s, a + 1, a + d)
           v == SubSeq(t, b + 1, b + d)
<1>1. /\ u \in Seq(S) /\ Len(u) = d /\ \A j \in 1 .. d : u[j] = s[a + j]
      /\ v \in Seq(S) /\ Len(v) = d /\ \A j \in 1 .. d : v[j] = t[b + j]
  OBVIOUS
<1> HIDE DEF u, v
<1>2. u = [j \in 1 .. d |-> u[j]] /\ v = [j \in 1 .. d |-> v[j]]
  BY <1>1
<1>3. \A j \in 1 .. d : u[j] = v[j]
  BY <1>1
<1>4. u = v
  BY <1>2, <1>3
<1> QED
  BY <1>4 DEF u, v
\* bytes_so_far never shrinks.
LEMMA BytesSoFarGrows ==
  ASSUME NEW P, NEW b \in RingsOver(P), NEW n \in Nat
  PROVE  \A k \in 0 .. n : BytesSoFar(b, k) <= BytesSoFar(b, n)
<1> DEFINE T == {m \in Nat : \A k \in 0 .. m : BytesSoFar(b, k) <= BytesSoFar(b, m)}
<1>1. 0 \in T
  BY BytesSoFarStep
<1>2. ASSUME NEW m \in Nat, m \in T PROVE m + 1 \in T
  <2>1. /\ BytesSoFar(b, m + 1) = BytesSoFar(b, m) + b.entry[Slot(b, m)].size
        /\ BytesSoFar(b, m) \in Nat /\ b.entry[Slot(b, m)].size \in Nat
    BY BytesSoFarStep
  <2>2. ASSUME NEW k \in 0 .. m + 1 PROVE BytesSoFar(b, k) <= BytesSoFar(b, m + 1)
    <3>1. k \in Nat /\ BytesSoFar(b, k) \in Nat
      BY BytesSoFarStep
    <3>2. CASE k = m + 1
      BY <2>1, <3>1, <3>2
    <3>3. CASE k # m + 1
      <4>1. k \in 0 .. m
        BY <3>3
      <4>2. BytesSoFar(b, k) <= BytesSoFar(b, m)
        BY <1>2, <4>1
      <4> QED
        BY <2>1, <3>1, <4>2
    <3> QED
      BY <3>2, <3>3
  <2> QED
    BY <2>2
<1>3. n \in T
  <2> HIDE DEF T
  <2> QED
    BY <1>1, <1>2, NatSetInduction
<1> QED
  BY <1>3
=============================================================================
