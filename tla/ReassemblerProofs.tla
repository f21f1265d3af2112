-------------------------- MODULE ReassemblerProofs --------------------------
(***************************************************************************)
(* Proofs about module Reassembler: rebuilt files, watermarks and the      *)
(* budget of waiting chunks, for every number and content of segments,     *)
(* every budget, batch size and number of restarts.                        *)
(***************************************************************************)
EXTENDS Reassembler, TLAPS, SequenceTheorems, FiniteSetTheorems, WellFoundedInduction

Chunks == UNION {Range(Source[k]) : k \in Segments}
Bufs   == [open : BOOLEAN, file : BOOLEAN, next : Nat, pend : SUBSET Nat, held : Nat]
Ends   == {k \in Segments : sent[k] = Size(k)}      \* wholly published

\* A buffer: what waits lies beyond the watermark and inside the segment, and
\* pending_bytes counts at least all of it.
BufOK(k, b) ==
  /\ b \in Bufs
  /\ b.file => b.open
  /\ \A off \in b.pend : b.next < off /\ off < Size(k)
  /\ Cardinality(b.pend) <= b.held

SenderOK ==
  /\ sent \in [Segments -> Nat] /\ \A k \in Segments : sent[k] <= Size(k)
  /\ sealed \subseteq Segments
  /\ answer = <<>> \/ \E k \in Segments, present \in BOOLEAN :
                        answer = <<k, present>> /\ sent[k] < Size(k)
  /\ seals \in Seq(Ends)

\* A chunk on its way, or in hand, was published.
FramesOK ==
  /\ \A f \in net : /\ f.key \in Segments /\ f.off \in Nat /\ f.n \in Nat \ {0}
                    /\ f.off + f.n <= sent[f.key]
  /\ \/ batch = NoBatch
     \/ /\ batch \in [key : Segments, off : Nat, left : Nat \ {0}]
        /\ batch.off + batch.left <= sent[batch.key]

RefillOK ==
  \/ refill = NoRefill
  \/ refill \in [pc : {"query", "verify", "remove"}, key : Ends, from : Nat, attempt : Nat]

CacheOK == cache \in Seq(Chunks) /\ Len(cache) <= CacheBudget /\ IsInjective(cache)

\* The buffers by themselves, and what the files have to do with them.
BufsAre(s) ==
  /\ s \in [Segments -> Bufs]
  /\ \A k \in Segments : BufOK(k, s[k]) /\ (s[k].open \/ s[k] = NoBuf)

BufsOK == BufsAre(segs)

\* What is in a file, unless the segment failed, and where its watermark is.
FilesOK ==
  /\ files \in [Segments -> Seq(Chunks)]
  /\ failed \subseteq Segments
  /\ \A k \in Segments \ failed :
       /\ Len(files[k]) <= Size(k) /\ segs[k].next <= Size(k)
       /\ files[k] = SubSeq(Source[k], 1, Len(files[k]))
       /\ segs[k].file => segs[k].next = Len(files[k])

BudgetOK == PendingTotal(segs) <= PendingBudget

IInv ==
  /\ SenderOK /\ FramesOK /\ RefillOK /\ CacheOK /\ BufsOK /\ FilesOK /\ BudgetOK
  /\ faults \in 0 .. MaxFaults /\ restarts \in 0 .. MaxRestarts
-----------------------------------------------------------------------------
(* Induction, with the set of what has the property in place of the        *)
(* property.                                                               *)

LEMMA Least ==
  ASSUME NEW S \in SUBSET Nat, S # {}
  PROVE  \E x \in S : \A y \in S : x <= y
<1>1. PICK x \in S : \A y \in S : ~ (<<y, x>> \in OpToRel(<, Nat))
  BY NatLessThanWellFounded, WFMin
<1>2. \A y \in S : ~ (y < x)
  BY <1>1 DEF OpToRel
<1>3. \A y \in S : x <= y
  BY <1>2
<1> QED BY <1>3

LEMMA Induction ==
  ASSUME NEW S \in SUBSET Nat, 0 \in S, \A m \in Nat : m \in S => m + 1 \in S
  PROVE  \A m \in Nat : m \in S
<1> SUFFICES ASSUME Nat \ S # {} PROVE FALSE
  OBVIOUS
<1>1. PICK m \in Nat \ S : \A k \in Nat \ S : m <= k
  BY Least
<1>2. m - 1 \in Nat /\ ~ (m <= m - 1)
  BY <1>1
<1>3. m - 1 \in S
  BY <1>1, <1>2
<1>4. (m - 1) + 1 \in S
  BY <1>2, <1>3
<1> QED BY <1>4

\* The element that sums and folds take next.
OneOf(T) == CHOOSE x \in T : TRUE

LEMMA TakeOne ==
  ASSUME NEW T \in SUBSET Segments, T # {}
  PROVE  /\ OneOf(T) \in T /\ T \ {OneOf(T)} \in SUBSET Segments
         /\ IsFiniteSet(T) /\ Cardinality(T) \in Nat /\ Cardinality(T) # 0
         /\ Cardinality(T \ {OneOf(T)}) = Cardinality(T) - 1
<1>1. OneOf(T) \in T
  BY DEF OneOf
<1>2. IsFiniteSet(T)
  BY ReassemblerAssumption, FS_Subset
<1>3. Cardinality(T) \in Nat /\ Cardinality(T) # 0
  BY <1>2, FS_CardinalityType, FS_EmptySet
<1> QED BY <1>1, <1>2, <1>3, FS_RemoveElement

LEMMA SubsetInduction ==
  ASSUME NEW S \in SUBSET (SUBSET Segments), {} \in S,
         \A T \in SUBSET Segments : T # {} /\ T \ {OneOf(T)} \in S => T \in S
  PROVE  \A T \in SUBSET Segments : T \in S
<1> DEFINE M == {m \in Nat : \A T \in SUBSET Segments : Cardinality(T) = m => T \in S}
<1>1. 0 \in M
  <2>1. \A T \in SUBSET Segments : Cardinality(T) = 0 => T = {}
    BY TakeOne
  <2> QED BY <2>1
<1>2. ASSUME NEW m \in Nat, m \in M PROVE m + 1 \in M
  <2> SUFFICES ASSUME NEW T \in SUBSET Segments, Cardinality(T) = m + 1 PROVE T \in S
    OBVIOUS
  <2>1. T # {}
    BY FS_EmptySet
  <2>2. T \ {OneOf(T)} \in SUBSET Segments /\ Cardinality(T \ {OneOf(T)}) = m
    BY <2>1, TakeOne
  <2>3. T \ {OneOf(T)} \in S
    BY <1>2, <2>2
  <2> QED BY <2>1, <2>3
<1>3. \A m \in Nat : m \in M
  <2>1. M \in SUBSET Nat
    OBVIOUS
  <2> HIDE DEF M
  <2> QED BY <1>1, <1>2, <2>1, Induction
<1> SUFFICES ASSUME NEW T \in SUBSET Segments PROVE T \in S
  OBVIOUS
<1>4. Cardinality(T) \in Nat
  BY ReassemblerAssumption, FS_Subset, FS_CardinalityType
<1> QED BY <1>3, <1>4

-----------------------------------------------------------------------------
(* Sums over all segments.                                                 *)

Counts == [Segments -> Nat]

Adds(f, g) ==
  g = [T \in SUBSET DOMAIN f |-> IF T = {} THEN 0 ELSE f[OneOf(T)] + g[T \ {OneOf(T)}]]

Sums(f) == CHOOSE g : Adds(f, g)

LEMMA SumIs ==
  ASSUME NEW f \in Counts PROVE SumFunction(f) = Sums(f)[Segments]
<1>1. DOMAIN f = Segments
  BY DEF Counts
<1>2. SumFunction(f) = Sums(f)[DOMAIN f]
  BY DEF SumFunction, SumFunctionOnSet, FoldFunctionOnSet, MapThenFoldSet, Sums, Adds, OneOf
<1> QED BY <1>1, <1>2

LEMMA SumsStep ==
  ASSUME NEW f \in Counts, NEW T \in SUBSET Segments
  PROVE  Sums(f)[T] = IF T = {} THEN 0 ELSE f[OneOf(T)] + Sums(f)[T \ {OneOf(T)}]
<1> DEFINE step(h, U) == IF U = {} THEN 0 ELSE f[OneOf(U)] + h[U \ {OneOf(U)}]
           upto(h, m) == \A U \in SUBSET Segments : Cardinality(U) <= m => h[U] = step(h, U)
           S == {m \in Nat : \E h : h = [U \in SUBSET Segments |-> h[U]] /\ upto(h, m)}
<1>0. DOMAIN f = Segments
  BY DEF Counts
<1>1. 0 \in S
  <2> DEFINE h == [U \in SUBSET Segments |-> 0]
  <2>1. h = [U \in SUBSET Segments |-> h[U]]
    OBVIOUS
  <2>2. ASSUME NEW U \in SUBSET Segments, Cardinality(U) <= 0 PROVE U = {}
    <3> SUFFICES ASSUME U # {} PROVE FALSE
      OBVIOUS
    <3>1. Cardinality(U) \in Nat /\ Cardinality(U) # 0
      BY TakeOne
    <3> QED BY <2>2, <3>1
  <2>3. upto(h, 0)
    BY <2>2
  <2> HIDE DEF h
  <2> QED BY <2>1, <2>3
<1>2. ASSUME NEW m \in Nat, m \in S PROVE m + 1 \in S
  <2>1. PICK h : upto(h, m)
    BY <1>2
  <2> DEFINE g == [U \in SUBSET Segments |-> step(h, U)]
  <2>2. g = [U \in SUBSET Segments |-> g[U]]
    OBVIOUS
  <2>3. ASSUME NEW U \in SUBSET Segments, Cardinality(U) <= m + 1 PROVE g[U] = step(g, U)
    <3>1. CASE U = {}
      BY <3>1
    <3>2. CASE U # {}
      <4>1. U \ {OneOf(U)} \in SUBSET Segments /\ Cardinality(U \ {OneOf(U)}) <= m
        BY <2>3, <3>2, TakeOne
      <4>2. h[U \ {OneOf(U)}] = step(h, U \ {OneOf(U)})
        BY <2>1, <4>1
      <4>3. g[U \ {OneOf(U)}] = step(h, U \ {OneOf(U)})
        BY <4>1
      <4>4. g[U] = f[OneOf(U)] + h[U \ {OneOf(U)}]
        BY <3>2
      <4> QED BY <3>2, <4>2, <4>3, <4>4
    <3> QED BY <3>1, <3>2
  <2> HIDE DEF g
  <2>4. upto(g, m + 1)
    BY <2>3
  <2> HIDE DEF upto
  <2> QED BY <2>2, <2>4
<1>3. Cardinality(Segments) \in Nat
  BY ReassemblerAssumption, FS_CardinalityType
<1>4. Cardinality(Segments) \in S
  <2>1. S \in SUBSET Nat
    OBVIOUS
  <2> HIDE DEF S
  <2> QED BY <1>1, <1>2, <1>3, <2>1, Induction
<1>5. PICK h : h = [U \in SUBSET Segments |-> h[U]] /\ upto(h, Cardinality(Segments))
  BY <1>4
<1>6. \A U \in SUBSET Segments : Cardinality(U) <= Cardinality(Segments)
  BY ReassemblerAssumption, FS_Subset
<1>7. Adds(f, h)
  <2>1. \A U \in SUBSET Segments : h[U] = step(h, U)
    BY <1>5, <1>6
  <2> QED BY <1>0, <1>5, <2>1 DEF Adds
<1>8. Adds(f, Sums(f))
  <2> HIDE DEF step, upto, S
  <2> QED BY <1>7 DEF Sums
<1>9. Sums(f) = [U \in SUBSET Segments |-> step(Sums(f), U)]
  BY <1>0, <1>8 DEF Adds
<1> QED BY <1>9

LEMMA SumsNat ==
  ASSUME NEW f \in Counts
  PROVE  \A T \in SUBSET Segments : Sums(f)[T] \in Nat
<1> DEFINE S == {T \in SUBSET Segments : Sums(f)[T] \in Nat}
<1>1. {} \in S
  <2>1. Sums(f)[{}] = 0
    BY SumsStep
  <2> QED BY <2>1
<1>2. ASSUME NEW T \in SUBSET Segments, T # {}, T \ {OneOf(T)} \in S PROVE T \in S
  <2>1. Sums(f)[T \ {OneOf(T)}] \in Nat
    BY <1>2
  <2>2. f[OneOf(T)] \in Nat
    BY <1>2, TakeOne DEF Counts
  <2>3. Sums(f)[T] = f[OneOf(T)] + Sums(f)[T \ {OneOf(T)}]
    BY <1>2, SumsStep
  <2> QED BY <2>1, <2>2, <2>3
<1>3. \A T \in SUBSET Segments : T \in S
  <2>1. S \in SUBSET (SUBSET Segments)
    OBVIOUS
  <2> HIDE DEF S
  <2> QED BY <1>1, <1>2, <2>1, SubsetInduction
<1> QED BY <1>3

LEMMA SumsMonotone ==
  ASSUME NEW f \in Counts, NEW g \in Counts, \A k \in Segments : f[k] <= g[k]
  PROVE  SumFunction(f) <= SumFunction(g)
<1> DEFINE S == {T \in SUBSET Segments : Sums(f)[T] <= Sums(g)[T]}
<1>1. {} \in S
  <2>1. Sums(f)[{}] = 0 /\ Sums(g)[{}] = 0
    BY SumsStep
  <2> QED BY <2>1
<1>2. ASSUME NEW T \in SUBSET Segments, T # {}, T \ {OneOf(T)} \in S PROVE T \in S
  <2> DEFINE x == OneOf(T)
             U == T \ {OneOf(T)}
  <2>1. Sums(f)[U] <= Sums(g)[U]
    BY <1>2
  <2>2. x \in Segments /\ U \in SUBSET Segments
    BY <1>2, TakeOne
  <2>3. /\ f[x] \in Nat /\ g[x] \in Nat /\ f[x] <= g[x]
        /\ Sums(f)[U] \in Nat /\ Sums(g)[U] \in Nat
    BY <2>2, SumsNat DEF Counts
  <2>4. Sums(f)[T] = f[x] + Sums(f)[U] /\ Sums(g)[T] = g[x] + Sums(g)[U]
    BY <1>2, SumsStep
  <2> HIDE DEF x, U
  <2>5. Sums(f)[T] <= Sums(g)[T]
    BY <2>1, <2>3, <2>4
  <2> QED BY <2>5
<1>3. \A T \in SUBSET Segments : T \in S
  <2>1. S \in SUBSET (SUBSET Segments)
    OBVIOUS
  <2> HIDE DEF S
  <2> QED BY <1>1, <1>2, <2>1, SubsetInduction
<1> QED BY <1>3, SumIs

LEMMA SumsChange ==
  ASSUME NEW f \in Counts, NEW g \in Counts, NEW k \in Segments,
         \A j \in Segments \ {k} : g[j] = f[j]
  PROVE  /\ SumFunction(f) \in Nat /\ SumFunction(g) \in Nat
         /\ SumFunction(g) + f[k] = SumFunction(f) + g[k]
<1> DEFINE S == {T \in SUBSET Segments :
                   Sums(g)[T] = Sums(f)[T] + (IF k \in T THEN g[k] - f[k] ELSE 0)}
<1>1. {} \in S
  <2>1. Sums(g)[{}] = 0 /\ Sums(f)[{}] = 0
    BY SumsStep
  <2> QED BY <2>1
<1>2. ASSUME NEW T \in SUBSET Segments, T # {}, T \ {OneOf(T)} \in S PROVE T \in S
  <2> DEFINE x == OneOf(T)
             U == T \ {OneOf(T)}
  <2>1. Sums(g)[U] = Sums(f)[U] + (IF k \in U THEN g[k] - f[k] ELSE 0)
    BY <1>2
  <2>2. x \in T /\ x \in Segments /\ U \in SUBSET Segments /\ U = T \ {x}
    BY <1>2, TakeOne
  <2>3. /\ f[x] \in Nat /\ g[x] \in Nat /\ f[k] \in Nat /\ g[k] \in Nat
        /\ Sums(f)[U] \in Nat /\ Sums(g)[U] \in Nat
    BY <2>2, SumsNat DEF Counts
  <2>4. Sums(f)[T] = f[x] + Sums(f)[U] /\ Sums(g)[T] = g[x] + Sums(g)[U]
    BY <1>2, SumsStep
  <2> HIDE DEF x, U
  <2>5. CASE x = k
    <3>1. k \in T /\ k \notin U
      BY <2>2, <2>5
    <3>2. Sums(g)[U] = Sums(f)[U]
      BY <2>1, <2>3, <3>1
    <3>3. Sums(g)[T] = Sums(f)[T] + (g[k] - f[k])
      BY <2>3, <2>4, <2>5, <3>2
    <3> QED BY <3>1, <3>3
  <2>6. CASE x # k
    <3>1. k \in T <=> k \in U
      BY <2>2, <2>6
    <3>2. g[x] = f[x]
      BY <2>2, <2>6
    <3>3. CASE k \in U
      <4>1. Sums(g)[T] = Sums(f)[T] + (g[k] - f[k])
        BY <2>1, <2>3, <2>4, <3>2, <3>3
      <4> QED BY <3>1, <3>3, <4>1
    <3>4. CASE k \notin U
      <4>1. Sums(g)[T] = Sums(f)[T] + 0
        BY <2>1, <2>3, <2>4, <3>2, <3>4
      <4> QED BY <3>1, <3>4, <4>1
    <3> QED BY <3>3, <3>4
  <2> QED BY <2>5, <2>6
<1>3. \A T \in SUBSET Segments : T \in S
  <2>1. S \in SUBSET (SUBSET Segments)
    OBVIOUS
  <2> HIDE DEF S
  <2> QED BY <1>1, <1>2, <2>1, SubsetInduction
<1>4. Sums(g)[Segments] = Sums(f)[Segments] + (g[k] - f[k])
  BY <1>3
<1>5. /\ Sums(g)[Segments] \in Nat /\ Sums(f)[Segments] \in Nat
      /\ f[k] \in Nat /\ g[k] \in Nat
  BY SumsNat DEF Counts
<1> QED BY <1>4, <1>5, SumIs

LEMMA SumsZero ==
  ASSUME NEW f \in Counts, \A k \in Segments : f[k] = 0
  PROVE  SumFunction(f) = 0
<1> DEFINE S == {T \in SUBSET Segments : Sums(f)[T] = 0}
<1>1. {} \in S
  BY SumsStep
<1>2. ASSUME NEW T \in SUBSET Segments, T # {}, T \ {OneOf(T)} \in S PROVE T \in S
  <2>1. Sums(f)[T \ {OneOf(T)}] = 0 /\ f[OneOf(T)] = 0
    BY <1>2, TakeOne
  <2> QED BY <1>2, <2>1, SumsStep
<1>3. \A T \in SUBSET Segments : T \in S
  <2>1. S \in SUBSET (SUBSET Segments)
    OBVIOUS
  <2> HIDE DEF S
  <2> QED BY <1>1, <1>2, <2>1, SubsetInduction
<1> QED BY <1>3, SumIs

-----------------------------------------------------------------------------
(* One buffer.                                                             *)

LEMMA Given ==
  /\ PendingBudget \in Nat /\ CacheBudget \in Nat /\ MaxFaults \in Nat /\ MaxRestarts \in Nat
  /\ \A k \in Segments : Source[k] \in Seq(Chunks) /\ Size(k) \in Nat
<1> SUFFICES ASSUME NEW k \in Segments PROVE Source[k] \in Seq(Chunks) /\ Size(k) \in Nat
  BY ReassemblerAssumption
<1>1. Range(Source[k]) \subseteq Chunks
  BY DEF Chunks
<1>2. Source[k] \in Seq(Range(Source[k]))
  BY ReassemblerAssumption
<1>3. Source[k] \in Seq(Chunks)
  <2>1. Source[k] \in [1 .. Len(Source[k]) -> Chunks] /\ Len(Source[k]) \in Nat
    BY <1>1, <1>2, LenProperties
  <2> QED BY <2>1
<1> QED BY <1>3, LenProperties DEF Size

LEMMA MinIs ==
  ASSUME NEW S \in SUBSET Nat, S # {}
  PROVE  Min(S) \in S /\ \A x \in S : Min(S) <= x
BY Least DEF Min

\* The run ends: waiting chunks are too few to fill n .. n + Cardinality(pend).
LEMMA RunEndIs ==
  ASSUME NEW pend \in SUBSET Nat, IsFiniteSet(pend), NEW n \in Nat
  PROVE  /\ RunEnd(pend, n) \in Nat /\ n <= RunEnd(pend, n) /\ RunEnd(pend, n) \notin pend
         /\ \A m \in n .. RunEnd(pend, n) - 1 : m \in pend
<1> DEFINE c == Cardinality(pend)
           S == {m \in n .. n + c : m \notin pend}
<1>1. c \in Nat
  BY FS_CardinalityType
<1>2. S \in SUBSET Nat
  BY <1>1
<1>3. S # {}
  <2> SUFFICES ASSUME n .. n + c \in SUBSET pend PROVE FALSE
    OBVIOUS
  <2>1. Cardinality(n .. n + c) <= c
    BY FS_Subset
  <2>2. Cardinality(n .. n + c) = c + 1
    BY <1>1, FS_Interval
  <2> QED BY <1>1, <2>1, <2>2
<1>4. RunEnd(pend, n) = Min(S)
  BY DEF RunEnd
<1>5. Min(S) \in S /\ \A x \in S : Min(S) <= x
  BY <1>2, <1>3, MinIs
<1> HIDE DEF S
<1>6. Min(S) \in Nat /\ n <= Min(S) /\ Min(S) <= n + c /\ Min(S) \notin pend
  BY <1>1, <1>5 DEF S
<1>7. ASSUME NEW m \in n .. Min(S) - 1 PROVE m \in pend
  <2>1. m \in n .. n + c /\ ~ (Min(S) <= m)
    BY <1>1, <1>6
  <2> QED BY <1>5, <2>1 DEF S
<1> QED BY <1>4, <1>6, <1>7

LEMMA BufFacts ==
  ASSUME NEW k \in Segments, NEW b, BufOK(k, b)
  PROVE  /\ b \in Bufs /\ b.open \in BOOLEAN /\ b.next \in Nat /\ b.pend \in SUBSET Nat
         /\ b.held \in Nat /\ IsFiniteSet(b.pend) /\ Cardinality(b.pend) \in Nat
         /\ Cardinality(b.pend) <= b.held /\ b.file \in BOOLEAN
         /\ \A off \in b.pend : b.next < off /\ off < Size(k)
<1>1. /\ b \in Bufs /\ b.open \in BOOLEAN /\ b.next \in Nat /\ b.pend \in SUBSET Nat
      /\ b.held \in Nat /\ b.file \in BOOLEAN
  BY DEF BufOK, Bufs
<1>2. \A off \in b.pend : off <= Size(k)
  BY <1>1, Given DEF BufOK
<1>3. IsFiniteSet(b.pend)
  BY <1>1, <1>2, Given, FS_BoundedSetOfNaturals
<1> QED BY <1>1, <1>3, FS_CardinalityType DEF BufOK

\* What place does to one buffer.
LEMMA PlacedIs ==
  ASSUME NEW k \in Segments, NEW b, BufOK(k, b), NEW off \in Nat, off < Size(k)
  PROVE  /\ BufOK(k, Placed(b, off))
         /\ Placed(b, off).open = b.open /\ Placed(b, off).file = b.file
         /\ off = b.next => Placed(b, off).next <= Size(k)
         /\ Placed(b, off).held <= b.held + 1
         /\ b.next <= Placed(b, off).next
         /\ off # b.next => Placed(b, off).next = b.next
         /\ \A o \in b.pend \ Placed(b, off).pend : o < Placed(b, off).next
         /\ b.pend # Placed(b, off).pend /\ off = b.next => Placed(b, off).held <= b.held
<1>0. /\ b \in Bufs /\ b.next \in Nat /\ b.pend \in SUBSET Nat /\ b.held \in Nat
      /\ IsFiniteSet(b.pend) /\ Cardinality(b.pend) \in Nat /\ Cardinality(b.pend) <= b.held
      /\ (b.file => b.open) /\ Size(k) \in Nat
      /\ \A o \in b.pend : b.next < o /\ o < Size(k)
  BY BufFacts, Given DEF BufOK
<1>1. CASE off < b.next
  <2>1. Placed(b, off) = b
    BY <1>1 DEF Placed
  <2>2. b.held <= b.held + 1 /\ b.next <= b.next /\ off # b.next
    BY <1>0, <1>1
  <2> QED BY <2>1, <2>2
<1>2. CASE off > b.next
  <2> DEFINE p == Waiting(b, off)
  <2>1. Placed(b, off) = p
    BY <1>0, <1>2 DEF Placed
  <2>2. /\ p \in Bufs /\ p.open = b.open /\ p.file = b.file /\ p.next = b.next
        /\ p.pend = b.pend \cup {off} /\ p.held = b.held + 1
    <3>1. b.pend \cup {off} \in SUBSET Nat /\ b.held + 1 \in Nat
      BY <1>0
    <3>2. p = [b EXCEPT !.pend = b.pend \cup {off}, !.held = b.held + 1]
      BY DEF Waiting
    <3> HIDE DEF p
    <3> QED BY <1>0, <3>1, <3>2 DEF Bufs
  <2>3. Cardinality(p.pend) <= p.held
    <3>1. Cardinality(b.pend \cup {off}) \in {Cardinality(b.pend), Cardinality(b.pend) + 1}
      BY <1>0, FS_AddElement
    <3> QED BY <1>0, <2>2, <3>1
  <2>4. \A o \in p.pend : p.next < o /\ o < Size(k)
    BY <1>0, <1>2, <2>2
  <2> HIDE DEF p
  <2>5. BufOK(k, p)
    BY <1>0, <2>2, <2>3, <2>4 DEF BufOK
  <2>6. p.held <= b.held + 1 /\ b.next <= p.next /\ off # b.next /\ b.pend \ p.pend = {}
    BY <1>0, <1>2, <2>2
  <2> QED BY <2>1, <2>2, <2>5, <2>6
<1>3. CASE off = b.next
  <2> DEFINE end == RunEnd(b.pend, off + 1)
             p == [b EXCEPT !.next = end, !.pend = @ \ (off .. end - 1),
                            !.held = @ - (end - off - 1)]
  <2>1. Placed(b, off) = p
    BY <1>0, <1>3 DEF Placed
  <2>2. /\ end \in Nat /\ off + 1 <= end /\ end \notin b.pend
        /\ \A m \in off + 1 .. end - 1 : m \in b.pend
    BY <1>0, RunEndIs
  <2> HIDE DEF end
  <2>3. end <= Size(k)
    <3>1. CASE end = off + 1
      BY <1>0, <3>1
    <3>2. CASE end # off + 1
      <4>1. end - 1 \in off + 1 .. end - 1
        BY <2>2, <3>2
      <4>2. end - 1 < Size(k)
        BY <1>0, <2>2, <4>1
      <4> QED BY <1>0, <2>2, <4>2
    <3> QED BY <3>1, <3>2
  <2>4. Cardinality(b.pend \ (off .. end - 1)) = Cardinality(b.pend) - (end - off - 1)
    <3>1. b.pend \cap (off .. end - 1) = off + 1 .. end - 1
      <4>1. \A o \in b.pend : o # off
        <5> SUFFICES ASSUME NEW o \in b.pend PROVE o # off
          OBVIOUS
        <5>1. b.next < o /\ o \in Nat
          BY <1>0
        <5> QED BY <1>0, <1>3, <5>1
      <4>2. \A o \in off .. end - 1 : o = off \/ o \in off + 1 .. end - 1
        BY <2>2
      <4>3. \A o \in off + 1 .. end - 1 : o \in off .. end - 1
        BY <2>2
      <4> QED BY <2>2, <4>1, <4>2, <4>3
    <3>2. Cardinality(off + 1 .. end - 1) = end - off - 1
      <4>1. off + 1 \in Int /\ end - 1 \in Int
        BY <2>2
      <4>2. Cardinality(off + 1 .. end - 1)
              = IF off + 1 > end - 1 THEN 0 ELSE (end - 1) - (off + 1) + 1
        BY <4>1, FS_Interval
      <4>3. CASE end = off + 1
        BY <2>2, <4>2, <4>3
      <4>4. CASE end # off + 1
        <5>1. ~ (off + 1 > end - 1) /\ (end - 1) - (off + 1) + 1 = end - off - 1
          BY <2>2, <4>4
        <5> QED BY <4>2, <5>1
      <4> QED BY <4>3, <4>4
    <3>3. Cardinality(b.pend \ (off .. end - 1))
            = Cardinality(b.pend) - Cardinality(b.pend \cap (off .. end - 1))
      BY <1>0, FS_Difference
    <3> QED BY <3>1, <3>2, <3>3
  <2>5. Cardinality(b.pend \ (off .. end - 1)) \in Nat
    BY <1>0, FS_Difference, FS_CardinalityType
  <2>6. b.held - (end - off - 1) \in Nat
        /\ Cardinality(b.pend \ (off .. end - 1)) <= b.held - (end - off - 1)
    BY <1>0, <2>2, <2>4, <2>5
  <2>7. /\ p \in Bufs /\ p.open = b.open /\ p.file = b.file /\ p.next = end
        /\ p.pend = b.pend \ (off .. end - 1) /\ p.held = b.held - (end - off - 1)
    BY <1>0, <2>2, <2>6 DEF Bufs
  <2> HIDE DEF p
  <2>8. ASSUME NEW o \in p.pend PROVE p.next < o /\ o < Size(k)
    <3>1. o \in Nat /\ o > off /\ o \notin off .. end - 1 /\ o # end /\ o < Size(k)
      BY <1>0, <1>3, <2>2, <2>7
    <3> QED BY <2>2, <2>7, <3>1
  <2>9. BufOK(k, p)
    BY <1>0, <2>6, <2>7, <2>8 DEF BufOK
  <2>10. ASSUME NEW o \in b.pend \ p.pend PROVE o < p.next
    BY <2>2, <2>7
  <2>11. p.held <= b.held /\ p.held <= b.held + 1 /\ b.next <= p.next
    BY <1>0, <1>3, <2>2, <2>7
  <2> QED BY <1>3, <2>1, <2>3, <2>7, <2>9, <2>10, <2>11
<1> QED BY <1>0, <1>1, <1>2, <1>3

\* The buffer a chunk is placed in, whatever SegmentBuf::open could do.
LEMMA OpenedIs ==
  ASSUME BufsOK, FilesOK, NEW k \in Segments, NEW b \in {Opened(k)} \cup Misopened(k)
  PROVE  /\ BufOK(k, b) /\ b.open
         /\ b.pend = segs[k].pend /\ b.held = segs[k].held
         /\ files[k] \in Seq(Chunks) /\ Len(files[k]) \in Nat
         /\ k \notin failed => b.next <= Size(k)
         /\ k \notin failed /\ b.file /\ b = Opened(k) => b.next = Len(files[k])
<1>1. /\ files[k] \in Seq(Chunks) /\ Len(files[k]) \in Nat
      /\ k \notin failed => Len(files[k]) <= Size(k)
  BY LenProperties DEF FilesOK
<1>2. CASE segs[k].open
  BY <1>1, <1>2 DEF Opened, Misopened, BufsOK, BufsAre, FilesOK
<1>3. CASE ~ segs[k].open
  <2>1. segs[k].pend = {} /\ segs[k].held = 0
    BY <1>3 DEF BufsOK, BufsAre, NoBuf
  <2>2. PICK file \in BOOLEAN, n \in {0, Len(files[k])} :
          b = Fresh(file, n) /\ (b = Opened(k) => n = Len(files[k]))
    <3>1. CASE b = Opened(k)
      BY <1>3, <3>1 DEF Opened
    <3>2. CASE b # Opened(k)
      BY <1>3, <3>2 DEF Misopened
    <3> QED BY <3>1, <3>2
  <2>3. /\ b.open /\ b.file = file /\ b.pend = {} /\ b.held = 0 /\ b.next = n
        /\ b \in Bufs
    BY <1>1, <2>2 DEF Fresh, Bufs
  <2>4. BufOK(k, b)
    BY <2>3, FS_EmptySet DEF BufOK
  <2>5. k \notin failed => n <= Size(k)
    BY <1>1, <2>2, Given
  <2> QED BY <1>1, <2>1, <2>2, <2>3, <2>4, <2>5
<1> QED BY <1>2, <1>3

-----------------------------------------------------------------------------
(* The budget.                                                             *)

Held(s) == [k \in Segments |-> s[k].held]

LEMMA HeldIs ==
  ASSUME NEW s, BufsAre(s)
  PROVE  /\ Held(s) \in Counts /\ PendingTotal(s) = SumFunction(Held(s))
         /\ \A k \in Segments : Held(s)[k] = s[k].held
<1>1. \A k \in Segments : s[k].held \in Nat
  BY BufFacts DEF BufsAre
<1> QED BY <1>1 DEF Held, Counts, PendingTotal

\* Another count of one buffer makes that much of a difference to the total.
LEMMA TotalChange ==
  ASSUME NEW s, NEW t, BufsAre(s), BufsAre(t), NEW k \in Segments,
         \A j \in Segments \ {k} : t[j] = s[j]
  PROVE  /\ PendingTotal(s) \in Nat /\ PendingTotal(t) \in Nat
         /\ PendingTotal(t) + s[k].held = PendingTotal(s) + t[k].held
<1>1. \A j \in Segments \ {k} : Held(t)[j] = Held(s)[j]
  BY DEF Held
<1> QED BY <1>1, HeldIs, SumsChange

LEMMA EvictedIs ==
  ASSUME NEW s, BufsAre(s), NEW v \in Segments, s[v].pend # {}
  PROVE  /\ BufsAre(Evicted(s, v))
         /\ \A k \in Segments : /\ Evicted(s, v)[k].open = s[k].open
                                /\ Evicted(s, v)[k].file = s[k].file
                                /\ Evicted(s, v)[k].next = s[k].next
         /\ PendingTotal(s) \in Nat /\ PendingTotal(Evicted(s, v)) + 1 = PendingTotal(s)
<1> DEFINE b == s[v]
           x == Min(b.pend)
           c == [b EXCEPT !.pend = @ \ {x}, !.held = @ - 1]
           t == Evicted(s, v)
<1>1. /\ b \in Bufs /\ b.pend \in SUBSET Nat /\ b.held \in Nat /\ IsFiniteSet(b.pend)
      /\ Cardinality(b.pend) \in Nat /\ Cardinality(b.pend) <= b.held /\ (b.file => b.open)
      /\ \A off \in b.pend : b.next < off /\ off < Size(v)
  BY BufFacts DEF BufsAre, BufOK
<1>2. t = [s EXCEPT ![v] = c]
  BY DEF Evicted, BufsAre
<1>3. x \in b.pend
  BY <1>1, MinIs
<1> HIDE DEF x
<1>4. /\ Cardinality(b.pend \ {x}) = Cardinality(b.pend) - 1 /\ Cardinality(b.pend \ {x}) \in Nat
  BY <1>1, <1>3, FS_RemoveElement, FS_CardinalityType
<1>5. b.held - 1 \in Nat /\ Cardinality(b.pend \ {x}) <= b.held - 1
  BY <1>1, <1>4
<1>6. /\ c \in Bufs /\ c.open = b.open /\ c.file = b.file /\ c.next = b.next
      /\ c.pend = b.pend \ {x} /\ c.held = b.held - 1
  BY <1>1, <1>5 DEF Bufs
<1> HIDE DEF c
<1>7. BufOK(v, c)
  BY <1>1, <1>5, <1>6 DEF BufOK
<1>8. s[v].open
  BY DEF BufsAre, NoBuf
<1>9. /\ t \in [Segments -> Bufs] /\ t[v] = c /\ \A k \in Segments \ {v} : t[k] = s[k]
  BY <1>2, <1>6 DEF BufsAre
<1> HIDE DEF t
<1>10. BufsAre(t)
  BY <1>6, <1>7, <1>8, <1>9 DEF BufsAre
<1>11. /\ PendingTotal(s) \in Nat /\ PendingTotal(t) \in Nat
       /\ PendingTotal(t) + b.held = PendingTotal(s) + c.held
  BY <1>9, <1>10, TotalChange
<1>12. PendingTotal(t) + 1 = PendingTotal(s)
  BY <1>1, <1>6, <1>11
<1> QED BY <1>6, <1>9, <1>10, <1>11, <1>12 DEF t

\* One chunk more than fits is made good by one eviction.
LEMMA EnforceBudgetIs ==
  ASSUME NEW s, BufsAre(s), PendingTotal(s) <= PendingBudget + 1, EnforceBudget(s)
  PROVE  /\ BufsAre(segs') /\ PendingTotal(segs') <= PendingBudget
         /\ \A k \in Segments : segs'[k].file = s[k].file /\ segs'[k].next = s[k].next
         /\ segs' = s \/ PendingTotal(segs') = PendingBudget
<1>1. CASE PendingTotal(s) <= PendingBudget
  BY <1>1 DEF EnforceBudget
<1>2. CASE ~ (PendingTotal(s) <= PendingBudget)
  <2>1. PICK v \in Victims(s) : segs' = Evicted(s, v)
    BY <1>2 DEF EnforceBudget
  <2>2. v \in Segments /\ s[v].pend # {}
    BY DEF Victims
  <2>3. /\ BufsAre(segs')
        /\ \A k \in Segments : segs'[k].file = s[k].file /\ segs'[k].next = s[k].next
        /\ PendingTotal(s) \in Nat /\ PendingTotal(segs') + 1 = PendingTotal(s)
    BY <2>1, <2>2, EvictedIs
  <2>4. PendingTotal(segs') \in Nat
    <3>1. Segments # {}
      BY <2>2
    <3> QED BY <2>2, <2>3, TotalChange
  <2>5. PendingTotal(segs') = PendingBudget
    BY <1>2, <2>3, <2>4, Given
  <2> QED BY <2>3, <2>5, Given
<1> QED BY <1>1, <1>2

-----------------------------------------------------------------------------
(* A chunk is placed.                                                      *)

\* What is written at the end of a prefix of the source makes a longer prefix.
LEMMA WrittenIs ==
  ASSUME NEW k \in Segments, NEW off \in Nat, NEW n \in Nat, off + n <= Size(k)
  PROVE  /\ SubSeq(Source[k], off + 1, off + n) \in Seq(Chunks)
         /\ Len(SubSeq(Source[k], off + 1, off + n)) = n
         /\ SubSeq(Source[k], 1, off) \o SubSeq(Source[k], off + 1, off + n)
              = SubSeq(Source[k], 1, off + n)
<1>1. Source[k] \in Seq(Chunks) /\ Size(k) \in Nat /\ Size(k) = Len(Source[k])
  BY Given DEF Size
<1>2. \A i \in off + 1 .. off + n : Source[k][i] \in Chunks
  <2> SUFFICES ASSUME NEW i \in off + 1 .. off + n PROVE Source[k][i] \in Chunks
    OBVIOUS
  <2>1. i \in 1 .. Len(Source[k])
    BY <1>1
  <2> QED BY <1>1, <2>1, ElementOfSeq
<1>3. /\ SubSeq(Source[k], off + 1, off + n) \in Seq(Chunks)
      /\ Len(SubSeq(Source[k], off + 1, off + n))
           = IF off + 1 <= off + n THEN (off + n) - (off + 1) + 1 ELSE 0
  <2>1. off + 1 \in Int /\ off + n \in Int
    OBVIOUS
  <2> QED BY <1>2, <2>1, SubSeqProperties
<1>4. Len(SubSeq(Source[k], off + 1, off + n)) = n
  <2>1. CASE n = 0
    BY <1>3, <2>1
  <2>2. CASE n # 0
    BY <1>3, <2>2
  <2> QED BY <2>1, <2>2
<1>5. 1 \in 1 .. Len(Source[k]) + 1 /\ off \in 1 - 1 .. Len(Source[k])
      /\ off + n \in off .. Len(Source[k])
  BY <1>1
<1>6. SubSeq(Source[k], 1, off) \o SubSeq(Source[k], off + 1, off + n)
        = SubSeq(Source[k], 1, off + n)
  BY <1>1, <1>5, ConcatAdjacentSubSeq
<1> QED BY <1>3, <1>4, <1>6

\* place_raw, in the words of the invariant.
LEMMA PlaceRawIs ==
  ASSUME BufsOK, FilesOK, BudgetOK, faults \in 0 .. MaxFaults,
         NEW k \in Segments, NEW off \in Nat, off < Size(k), PlaceRaw(k, off)
  PROVE  /\ BufsOK' /\ FilesOK' /\ BudgetOK' /\ faults' \in 0 .. MaxFaults
         /\ \A j \in Segments : \A o \in segs[j].pend \ segs'[j].pend :
              \/ o < Len(files'[j]) \/ j \in failed' \/ ~ segs'[j].file
              \/ PendingTotal(segs') = PendingBudget
<1>0. PICK b \in {Opened(k)} \cup Misopened(k), ok \in BOOLEAN :
        LET p == Placed(b, off)
            n == p.next - b.next
            opens == IF b = Opened(k) THEN 0 ELSE 1
        IN /\ ok \/ (b.file /\ n > 0)
           /\ faults' = faults + opens + (IF ok THEN 0 ELSE 1)
           /\ faults' <= MaxFaults
           /\ files' = IF ok /\ b.file
                       THEN [files EXCEPT ![k] = @ \o SubSeq(Source[k], off + 1, off + n)]
                       ELSE files
           /\ failed' = IF ok /\ (b = Opened(k) \/ ~ b.file) THEN failed ELSE failed \cup {k}
           /\ EnforceBudget([segs EXCEPT ![k] = p])
  BY DEF PlaceRaw
<1> DEFINE p == Placed(b, off)
           n == p.next - b.next
           s == [segs EXCEPT ![k] = p]
           run == SubSeq(Source[k], off + 1, off + n)
<1>1. /\ BufOK(k, b) /\ b.open /\ b.pend = segs[k].pend /\ b.held = segs[k].held
      /\ files[k] \in Seq(Chunks) /\ Len(files[k]) \in Nat
      /\ k \notin failed => b.next <= Size(k)
      /\ k \notin failed /\ b.file /\ b = Opened(k) => b.next = Len(files[k])
  BY OpenedIs
<1>2. /\ BufOK(k, p) /\ p.open = b.open /\ p.file = b.file
      /\ p.held <= b.held + 1 /\ b.next <= p.next
      /\ off # b.next => p.next = b.next
      /\ off = b.next => p.next <= Size(k)
      /\ \A o \in b.pend \ p.pend : o < p.next
  BY <1>1, PlacedIs
<1>3. /\ files' = IF ok /\ b.file THEN [files EXCEPT ![k] = @ \o run] ELSE files
      /\ failed' = IF ok /\ (b = Opened(k) \/ ~ b.file) THEN failed ELSE failed \cup {k}
      /\ EnforceBudget(s)
  BY <1>0
<1>a. faults' \in 0 .. MaxFaults
  <2>1. /\ faults' = faults + (IF b = Opened(k) THEN 0 ELSE 1) + (IF ok THEN 0 ELSE 1)
        /\ faults' <= MaxFaults
    BY <1>0
  <2> QED BY <2>1, Given
<1>4. /\ b \in Bufs /\ b.next \in Nat /\ b.held \in Nat /\ p \in Bufs /\ p.next \in Nat
      /\ p.held \in Nat /\ b.file \in BOOLEAN /\ Size(k) \in Nat
  BY <1>1, <1>2, BufFacts, Given
<1> HIDE DEF p
<1>5. n \in Nat /\ p.next = b.next + n
  BY <1>2, <1>4
<1>6. n = 0 \/ off = b.next
  BY <1>2, <1>4
<1>7. BufsAre(s) /\ s[k] = p /\ \A j \in Segments \ {k} : s[j] = segs[j]
  BY <1>1, <1>2, <1>4 DEF BufsOK, BufsAre
<1> HIDE DEF s
<1>8. PendingTotal(s) <= PendingBudget + 1
  <2>1. /\ PendingTotal(segs) \in Nat /\ PendingTotal(s) \in Nat
        /\ PendingTotal(s) + segs[k].held = PendingTotal(segs) + s[k].held
    BY <1>7, TotalChange DEF BufsOK
  <2>2. PendingTotal(segs) <= PendingBudget /\ PendingBudget \in Nat
    BY Given DEF BudgetOK
  <2>3. s[k].held = p.held /\ segs[k].held = b.held
    BY <1>1, <1>7
  <2> QED BY <1>2, <1>4, <2>1, <2>2, <2>3
<1>9. /\ BufsAre(segs') /\ PendingTotal(segs') <= PendingBudget
      /\ \A j \in Segments : segs'[j].file = s[j].file /\ segs'[j].next = s[j].next
      /\ segs' = s \/ PendingTotal(segs') = PendingBudget
  BY <1>3, <1>7, <1>8, EnforceBudgetIs
<1>10. /\ segs'[k].file = b.file /\ segs'[k].next = p.next
       /\ \A j \in Segments \ {k} : segs'[j].file = segs[j].file /\ segs'[j].next = segs[j].next
  BY <1>2, <1>7, <1>9
\* the file in hand
<1>11. run \in Seq(Chunks) /\ Len(run) = n
  <2>1. CASE n = 0
    <3>1. off + n <= Size(k)
      BY <1>4, <2>1
    <3> QED BY <1>5, <3>1, WrittenIs
  <2>2. CASE off = b.next
    <3>1. off + n <= Size(k)
      BY <1>2, <1>4, <1>5, <2>2
    <3> QED BY <1>5, <3>1, WrittenIs
  <2> QED BY <1>6, <2>1, <2>2
<1>12. n = 0 => run = <<>>
  BY <1>11, EmptySeq
<1> HIDE DEF n
<1>13. files[k] \o run \in Seq(Chunks) /\ Len(files[k] \o run) = Len(files[k]) + n
  BY <1>1, <1>11, ConcatProperties
<1>14. /\ files' \in [Segments -> Seq(Chunks)]
       /\ files'[k] = IF ok /\ b.file THEN files[k] \o run ELSE files[k]
       /\ \A j \in Segments \ {k} : files'[j] = files[j]
  BY <1>3, <1>13 DEF FilesOK
<1>15. failed' \subseteq Segments /\ failed \subseteq failed' /\ failed' \subseteq failed \cup {k}
  BY <1>3 DEF FilesOK
<1>16. ASSUME k \notin failed'
       PROVE  /\ files'[k] = SubSeq(Source[k], 1, Len(files'[k]))
              /\ Len(files'[k]) <= Size(k) /\ p.next <= Size(k)
              /\ b.file => p.next = Len(files'[k])
  <2>1. k \notin failed /\ ok /\ (b.file => b = Opened(k))
    BY <1>3, <1>15, <1>16
  <2>2. /\ files[k] = SubSeq(Source[k], 1, Len(files[k])) /\ Len(files[k]) <= Size(k)
        /\ b.next <= Size(k) /\ (b.file => b.next = Len(files[k]))
    BY <1>1, <2>1 DEF FilesOK
  <2>3. p.next <= Size(k)
    BY <1>2, <2>2
  <2>4. CASE n = 0 \/ ~ b.file
    <3>1. files'[k] = files[k]
      BY <1>1, <1>12, <1>14, <2>4, ConcatEmptySeq
    <3>2. b.file => p.next = b.next
      BY <1>4, <1>5, <2>4
    <3> QED BY <2>2, <2>3, <3>1, <3>2
  <2>5. CASE n # 0 /\ b.file
    <3>1. off = b.next
      BY <1>6, <2>5
    <3>2. files'[k] = SubSeq(Source[k], 1, off) \o run
      BY <1>14, <2>1, <2>2, <2>5, <3>1
    <3>3. SubSeq(Source[k], 1, off) \o run = SubSeq(Source[k], 1, off + n)
      BY <1>4, <1>5, <2>3, <3>1, WrittenIs DEF run
    <3>4. Len(files'[k]) = off + n
      BY <1>13, <1>14, <2>1, <2>2, <2>5, <3>1
    <3> QED BY <1>5, <2>3, <3>1, <3>2, <3>3, <3>4
  <2> QED BY <2>4, <2>5
<1>18. FilesOK'
  BY <1>10, <1>14, <1>15, <1>16 DEF FilesOK, Size
<1>19. ASSUME NEW j \in Segments, NEW o \in segs[j].pend \ segs'[j].pend
       PROVE  \/ o < Len(files'[j]) \/ j \in failed' \/ ~ segs'[j].file
              \/ PendingTotal(segs') = PendingBudget
  <2> SUFFICES ASSUME segs' = s, j \notin failed', segs'[j].file PROVE o < Len(files'[j])
    BY <1>9
  <2>1. j = k
    BY <1>7
  <2>2. o \in b.pend \ p.pend
    BY <1>1, <1>7, <2>1
  <2> QED BY <1>2, <1>10, <1>16, <2>1, <2>2
<1> QED BY <1>9, <1>18, <1>19, <1>a DEF BufsOK, BudgetOK

-----------------------------------------------------------------------------
(* The cache, the frames and the seals.                                    *)

LEMMA CacheInsertIs ==
  ASSUME CacheOK, NEW c \in Chunks
  PROVE  /\ CacheInsert(c) \in Seq(Chunks) /\ Len(CacheInsert(c)) <= CacheBudget
         /\ IsInjective(CacheInsert(c))
<1>0. /\ cache \in Seq(Chunks) /\ Len(cache) \in Nat /\ DOMAIN cache = 1 .. Len(cache)
      /\ Len(cache) <= CacheBudget /\ CacheBudget \in Nat /\ IsInjective(cache)
  BY LenProperties, Given DEF CacheOK
<1>1. CASE c \in Range(cache)
  BY <1>0, <1>1 DEF CacheInsert
<1>2. CASE c \notin Range(cache)
  <2> DEFINE q == Append(cache, c)
  <2>1. /\ q \in Seq(Chunks) /\ Len(q) = Len(cache) + 1
        /\ \A i \in 1 .. Len(cache) : q[i] = cache[i]
        /\ q[Len(cache) + 1] = c
    BY <1>0, AppendProperties
  <2>2. DOMAIN q = 1 .. Len(cache) + 1
    BY <2>1, LenProperties
  <2> HIDE DEF q
  <2>3. \A i \in 1 .. Len(cache) : cache[i] # c
    BY <1>0, <1>2 DEF Range
  <2>4. ASSUME NEW i \in 1 .. Len(cache) + 1, NEW j \in 1 .. Len(cache) + 1, q[i] = q[j]
        PROVE  i = j
    <3>1. CASE i \in 1 .. Len(cache) /\ j \in 1 .. Len(cache)
      BY <1>0, <2>1, <2>4, <3>1 DEF IsInjective
    <3>2. CASE i = Len(cache) + 1 /\ j \in 1 .. Len(cache)
      BY <2>1, <2>3, <2>4, <3>2
    <3>3. CASE j = Len(cache) + 1 /\ i \in 1 .. Len(cache)
      BY <2>1, <2>3, <2>4, <3>3
    <3>4. CASE i = Len(cache) + 1 /\ j = Len(cache) + 1
      BY <3>4
    <3>5. \A h \in 1 .. Len(cache) + 1 : h = Len(cache) + 1 \/ h \in 1 .. Len(cache)
      BY <1>0
    <3> QED BY <3>1, <3>2, <3>3, <3>4, <3>5
  <2>5. IsInjective(q)
    BY <2>2, <2>4 DEF IsInjective
  <2>6. CASE Len(q) > CacheBudget
    <3>1. CacheInsert(c) = Tail(q)
      BY <1>2, <2>6 DEF CacheInsert, q
    <3>2. q # <<>>
      BY <1>0, <2>1, EmptySeq
    <3>3. /\ Tail(q) \in Seq(Chunks) /\ Len(Tail(q)) = Len(q) - 1
          /\ \A i \in 1 .. Len(Tail(q)) : Tail(q)[i] = q[i + 1]
      BY <2>1, <3>2, HeadTailProperties
    <3>4. DOMAIN Tail(q) = 1 .. Len(cache) /\ Len(Tail(q)) = Len(cache)
      BY <1>0, <2>1, <3>3, LenProperties
    <3>5. ASSUME NEW i \in 1 .. Len(cache), NEW j \in 1 .. Len(cache), Tail(q)[i] = Tail(q)[j]
          PROVE  i = j
      <4>1. i + 1 \in 1 .. Len(cache) + 1 /\ j + 1 \in 1 .. Len(cache) + 1
        BY <1>0
      <4>2. q[i + 1] = q[j + 1]
        BY <3>3, <3>4, <3>5
      <4>3. i + 1 = j + 1
        BY <2>4, <4>1, <4>2
      <4> QED BY <4>3
    <3>6. IsInjective(Tail(q))
      BY <3>4, <3>5 DEF IsInjective
    <3> QED BY <1>0, <3>1, <3>3, <3>4, <3>6
  <2>7. CASE ~ (Len(q) > CacheBudget)
    <3>1. CacheInsert(c) = q
      BY <1>2, <2>7 DEF CacheInsert, q
    <3> QED BY <1>0, <2>1, <2>5, <2>7, <3>1
  <2> QED BY <2>6, <2>7
<1> QED BY <1>1, <1>2

\* A frame on its way carries chunks of its segment.
LEMMA FrameIs ==
  ASSUME SenderOK, FramesOK, NEW f \in net
  PROVE  f.key \in Segments /\ f.off \in Nat /\ f.off < Size(f.key)
         /\ Source[f.key][f.off + 1] \in Chunks
<1>1. /\ f.key \in Segments /\ f.off \in Nat /\ f.n \in Nat \ {0}
      /\ f.off + f.n <= sent[f.key] /\ sent[f.key] \in Nat /\ sent[f.key] <= Size(f.key)
  BY DEF SenderOK, FramesOK
<1>2. Size(f.key) \in Nat /\ Source[f.key] \in Seq(Chunks)
  BY <1>1, Given
<1>3. f.off < Size(f.key)
  BY <1>1, <1>2
<1>4. f.off + 1 \in 1 .. Len(Source[f.key])
  BY <1>1, <1>2, <1>3 DEF Size
<1> QED BY <1>1, <1>2, <1>3, <1>4, ElementOfSeq

LEMMA EndsKept ==
  ASSUME SenderOK, RefillOK, sent' = sent
  PROVE  /\ Ends' = Ends
         /\ UNCHANGED <<sealed, answer, seals>> => SenderOK'
         /\ UNCHANGED refill => RefillOK'
<1>1. Ends' = Ends
  BY DEF Ends, Size
<1>2. UNCHANGED <<sealed, answer, seals>> => SenderOK'
  BY <1>1 DEF SenderOK, Size
<1>3. UNCHANGED refill => RefillOK'
  BY <1>1 DEF RefillOK
<1> QED BY <1>1, <1>2, <1>3

\* Further chunks are published.
LEMMA SentGrows ==
  ASSUME SenderOK, FramesOK, RefillOK,
         NEW k \in Segments, NEW kind, NEW n \in Nat \ {0}, sent[k] + n <= Size(k),
         sent' = [sent EXCEPT ![k] = @ + n], net' = net \cup {Frame(kind, k, sent[k], n)},
         UNCHANGED <<sealed, seals, batch, refill>>, answer' = <<>>
  PROVE  SenderOK' /\ FramesOK' /\ RefillOK'
<1>1. sent \in [Segments -> Nat] /\ \A j \in Segments : sent[j] <= Size(j) /\ Size(j) \in Nat
  BY Given DEF SenderOK
<1>2. /\ sent' \in [Segments -> Nat] /\ sent'[k] = sent[k] + n
      /\ \A j \in Segments \ {k} : sent'[j] = sent[j]
  BY <1>1
<1>3. \A j \in Segments : sent[j] <= sent'[j] /\ sent'[j] <= Size(j)
  BY <1>1, <1>2
<1>4. Ends \subseteq Ends'
  <2> SUFFICES ASSUME NEW j \in Ends PROVE sent'[j] = Size(j)
    BY DEF Ends, Size
  <2>1. j \in Segments /\ sent[j] = Size(j)
    BY DEF Ends
  <2> QED BY <1>1, <1>2, <1>3, <2>1
<1>5. seals' \in Seq(Ends')
  <2>1. seals \in [1 .. Len(seals) -> Ends] /\ Len(seals) \in Nat
    BY LenProperties DEF SenderOK
  <2>2. seals \in [1 .. Len(seals) -> Ends']
    BY <1>4, <2>1
  <2> QED BY <2>1, <2>2
<1>6. SenderOK'
  BY <1>2, <1>3, <1>5 DEF SenderOK, Size
<1>7. RefillOK'
  BY <1>4 DEF RefillOK
<1>8. ASSUME NEW f \in net'
      PROVE  /\ f.key \in Segments /\ f.off \in Nat /\ f.n \in Nat \ {0}
             /\ f.off + f.n <= sent'[f.key]
  <2>1. CASE f \in net
    <3>1. /\ f.key \in Segments /\ f.off \in Nat /\ f.n \in Nat \ {0}
          /\ f.off + f.n <= sent[f.key]
      BY <2>1 DEF FramesOK
    <3> QED BY <1>1, <1>2, <1>3, <3>1
  <2>2. CASE f = Frame(kind, k, sent[k], n)
    <3>1. f.key = k /\ f.off = sent[k] /\ f.n = n
      BY <2>2 DEF Frame
    <3> QED BY <1>1, <1>2, <3>1
  <2> QED BY <2>1, <2>2
<1>9. \/ batch' = NoBatch
      \/ /\ batch' \in [key : Segments, off : Nat, left : Nat \ {0}]
         /\ batch'.off + batch'.left <= sent'[batch'.key]
  <2>1. CASE batch = NoBatch
    BY <2>1
  <2>2. CASE batch # NoBatch
    <3>1. /\ batch \in [key : Segments, off : Nat, left : Nat \ {0}]
          /\ batch.off + batch.left <= sent[batch.key]
      BY <2>2 DEF FramesOK
    <3>2. batch.key \in Segments /\ batch.off + batch.left \in Nat
      BY <3>1
    <3> QED BY <1>1, <1>2, <1>3, <3>1, <3>2
  <2> QED BY <2>1, <2>2
<1> QED BY <1>6, <1>7, <1>8, <1>9 DEF FramesOK

\* Frames arrive or are lost.
LEMMA FramesFewer ==
  ASSUME FramesOK, net' \subseteq net, UNCHANGED <<sent, batch>>
  PROVE  FramesOK'
BY DEF FramesOK

\* Buffers and files are left alone.
LEMMA StoreSame ==
  ASSUME BufsOK, FilesOK, BudgetOK, UNCHANGED <<segs, files, failed>>
  PROVE  BufsOK' /\ FilesOK' /\ BudgetOK'
BY DEF BufsOK, FilesOK, BudgetOK, PendingTotal, Size

LEMMA NoBufOK ==
  ASSUME NEW k \in Segments
  PROVE  /\ BufOK(k, NoBuf) /\ NoBuf \in Bufs /\ NoBuf.open = FALSE /\ NoBuf.file = FALSE
         /\ NoBuf.next = 0 /\ NoBuf.pend = {} /\ NoBuf.held = 0
BY Given, FS_EmptySet DEF BufOK, Bufs, NoBuf

-----------------------------------------------------------------------------
(* The steps.                                                              *)

\* The action of PendingKept.
Kept ==
  \A k \in Segments : \A off \in segs[k].pend \ segs'[k].pend :
    \/ off < Len(files'[k]) \/ k \in failed' \/ ~ segs'[k].file
    \/ PendingTotal(segs') = PendingBudget

LEMMA TypeFollows == IInv => TypeOK
<1> SUFFICES ASSUME IInv PROVE TypeOK
  OBVIOUS
<1>1. \A f \in net : f.key \in Segments /\ f.off + f.n <= sent[f.key]
  BY DEF IInv, FramesOK
<1>2. ASSUME NEW k \in Segments
      PROVE  segs[k].next \in Nat /\ segs[k].held \in Nat
  <2>1. BufOK(k, segs[k])
    BY DEF IInv, BufsOK, BufsAre
  <2> QED BY <2>1, BufFacts
<1>3. refill.pc \in {"idle", "query", "verify", "remove"}
  BY DEF IInv, RefillOK, NoRefill
<1> QED BY <1>1, <1>2, <1>3 DEF IInv, SenderOK, CacheOK, FilesOK, TypeOK

LEMMA InitHolds == Init => IInv
<1> SUFFICES ASSUME Init PROVE IInv
  OBVIOUS
<1>1. SenderOK
  <2>1. sent \in [Segments -> Nat] /\ \A k \in Segments : sent[k] <= Size(k)
    BY Given DEF Init
  <2>2. seals \in Seq(Ends)
    BY EmptySeq DEF Init
  <2> QED BY <2>1, <2>2 DEF Init, SenderOK
<1>2. FramesOK /\ RefillOK
  BY DEF Init, FramesOK, RefillOK
<1>3. CacheOK
  <2>1. <<>> \in Seq(Chunks) /\ Len(<<>>) = 0 /\ DOMAIN <<>> = {}
    BY EmptySeq
  <2>2. Len(cache) <= CacheBudget
    BY <2>1, Given DEF Init
  <2> QED BY <2>1, <2>2 DEF Init, CacheOK, IsInjective
<1>4. BufsOK
  BY NoBufOK DEF Init, BufsOK, BufsAre
<1>5. FilesOK
  <2>1. <<>> \in Seq(Chunks) /\ Len(<<>>) = 0
    BY EmptySeq
  <2>2. ASSUME NEW k \in Segments
        PROVE  /\ files[k] = <<>> /\ Len(files[k]) <= Size(k)
               /\ ~ segs[k].file /\ segs[k].next <= Size(k)
    <3>1. files[k] = <<>> /\ segs[k] = NoBuf
      BY DEF Init
    <3>2. Size(k) \in Nat /\ NoBuf.file = FALSE /\ NoBuf.next = 0
      BY Given, NoBufOK
    <3> QED BY <2>1, <3>1, <3>2
  <2>3. \A k \in Segments : SubSeq(Source[k], 1, 0) = <<>>
    BY SubSeqEmpty
  <2> QED BY <2>1, <2>2, <2>3 DEF Init, FilesOK
<1>6. BudgetOK
  <2>1. \A k \in Segments : Held(segs)[k] = 0
    BY NoBufOK DEF Init, Held
  <2>2. PendingTotal(segs) = 0
    BY <1>4, <2>1, HeldIs, SumsZero DEF BufsOK
  <2> QED BY <2>2, Given DEF BudgetOK
<1>7. faults \in 0 .. MaxFaults /\ restarts \in 0 .. MaxRestarts
  BY Given DEF Init
<1> QED BY <1>1, <1>2, <1>3, <1>4, <1>5, <1>6, <1>7 DEF IInv

LEMMA NextHolds == IInv /\ [Next]_vars => IInv' /\ Kept
<1> SUFFICES ASSUME IInv, [Next]_vars PROVE IInv' /\ Kept
  OBVIOUS
<1> USE DEF senderVars, faultVars
<1>0. /\ SenderOK /\ FramesOK /\ RefillOK /\ CacheOK /\ BufsOK /\ FilesOK /\ BudgetOK
      /\ faults \in 0 .. MaxFaults /\ restarts \in 0 .. MaxRestarts
  BY DEF IInv
\* What is left alone stays as it is.
<1>a. UNCHANGED <<sent, sealed, answer, seals>> => SenderOK'
  BY <1>0, EndsKept
<1>b. UNCHANGED <<sent, refill>> => RefillOK'
  BY <1>0, EndsKept
<1>c. net' \subseteq net /\ UNCHANGED <<sent, batch>> => FramesOK'
  BY <1>0, FramesFewer
<1>d. UNCHANGED cache => CacheOK'
  BY <1>0 DEF CacheOK
<1>e. UNCHANGED <<segs, files, faultVars>> =>
        BufsOK' /\ FilesOK' /\ BudgetOK' /\ Kept /\ faults' \in 0 .. MaxFaults
  BY <1>0, StoreSame DEF Kept
<1>f. UNCHANGED restarts => restarts' \in 0 .. MaxRestarts
  BY <1>0
<1>g. ASSUME NEW k \in Segments, NEW off \in Nat, off < Size(k), PlaceRaw(k, off)
      PROVE  BufsOK' /\ FilesOK' /\ BudgetOK' /\ Kept /\ faults' \in 0 .. MaxFaults
  BY <1>0, <1>g, PlaceRawIs DEF Kept
<1>1. CASE \E f \in net : OnDataFrame(f)
  <2>1. PICK f \in net : OnDataFrame(f)
    BY <1>1
  <2>2. BufsOK' /\ FilesOK' /\ BudgetOK' /\ Kept /\ faults' \in 0 .. MaxFaults
    BY <1>0, <1>g, <2>1, FrameIs DEF OnDataFrame
  <2>3. CacheOK'
    BY <1>0, <2>1, FrameIs, CacheInsertIs DEF OnDataFrame, CacheOK
  <2> QED BY <1>a, <1>b, <1>c, <1>f, <2>1, <2>2, <2>3 DEF OnDataFrame, IInv
<1>2. CASE \E f \in net : OnRefFrame(f)
  <2>1. PICK f \in net : OnRefFrame(f)
    BY <1>2
  <2>2. BufsOK' /\ FilesOK' /\ BudgetOK' /\ Kept /\ faults' \in 0 .. MaxFaults
    BY <1>0, <1>g, <2>1, FrameIs DEF OnRefFrame
  <2> QED BY <1>a, <1>b, <1>c, <1>d, <1>f, <2>1, <2>2 DEF OnRefFrame, IInv
<1>3. CASE \E f \in net : OnRefMiss(f)
  <2>1. PICK f \in net : OnRefMiss(f)
    BY <1>3
  <2> QED BY <1>a, <1>b, <1>c, <1>d, <1>e, <1>f, <2>1 DEF OnRefMiss, IInv
<1>4. CASE \E f \in net : OnBatchFrame(f)
  <2>1. PICK f \in net : OnBatchFrame(f)
    BY <1>4
  <2>2. /\ f.key \in Segments /\ f.off \in Nat /\ f.n \in Nat \ {0}
        /\ f.off + f.n <= sent[f.key]
    BY <1>0 DEF FramesOK
  <2>3. FramesOK'
    BY <1>0, <2>1, <2>2 DEF OnBatchFrame, FramesOK
  <2> QED BY <1>a, <1>b, <1>d, <1>e, <1>f, <2>1, <2>3 DEF OnBatchFrame, IInv
<1>5. CASE BatchEntry
  <2>1. /\ batch \in [key : Segments, off : Nat, left : Nat \ {0}]
        /\ batch.off + batch.left <= sent[batch.key]
    BY <1>0, <1>5 DEF BatchEntry, Unlocked, FramesOK
  <2>2. /\ batch.key \in Segments /\ batch.off \in Nat /\ batch.left \in Nat \ {0}
        /\ sent[batch.key] \in Nat /\ sent[batch.key] <= Size(batch.key)
        /\ Size(batch.key) \in Nat
    BY <1>0, <2>1, Given DEF SenderOK
  <2>3. batch.off < Size(batch.key)
    BY <2>1, <2>2
  <2>4. BufsOK' /\ FilesOK' /\ BudgetOK' /\ Kept /\ faults' \in 0 .. MaxFaults
    BY <1>5, <1>g, <2>2, <2>3 DEF BatchEntry
  <2>5. FramesOK'
    <3>1. CASE batch.left = 1
      BY <1>0, <1>5, <3>1 DEF BatchEntry, FramesOK
    <3>2. CASE batch.left # 1
      <4>1. batch' = [batch EXCEPT !.off = @ + 1, !.left = @ - 1]
        BY <1>5, <3>2 DEF BatchEntry
      <4>2. batch.off + 1 \in Nat /\ batch.left - 1 \in Nat \ {0}
        BY <2>2, <3>2
      <4>3. /\ batch' \in [key : Segments, off : Nat, left : Nat \ {0}]
            /\ batch'.key = batch.key
            /\ batch'.off = batch.off + 1 /\ batch'.left = batch.left - 1
        BY <2>1, <4>1, <4>2
      <4>4. batch'.off + batch'.left <= sent[batch'.key]
        BY <2>1, <2>2, <4>3
      <4> QED BY <1>0, <1>5, <4>3, <4>4 DEF BatchEntry, FramesOK
    <3> QED BY <3>1, <3>2
  <2> QED BY <1>5, <1>a, <1>b, <1>d, <1>f, <2>4, <2>5 DEF BatchEntry, IInv
<1>6. CASE OnSealFrame
  <2>1. Head(seals) \in Ends /\ Tail(seals) \in Seq(Ends)
    BY <1>0, <1>6, HeadTailProperties DEF OnSealFrame, SenderOK
  <2>2. SenderOK'
    BY <1>0, <1>6, <2>1 DEF OnSealFrame, SenderOK, Ends, Size
  <2>3. segs[Head(seals)].next \in Nat
    BY <1>0, <2>1, BufFacts DEF BufsOK, BufsAre, Ends
  <2>4. RefillOK'
    <3>1. Ends' = Ends
      BY <1>6 DEF OnSealFrame, Ends, Size
    <3> QED BY <1>6, <2>1, <2>3, <3>1 DEF OnSealFrame, RefillOK
  <2> QED BY <1>6, <1>c, <1>d, <1>e, <1>f, <2>2, <2>4 DEF OnSealFrame, IInv
<1>7. CASE GapQuery
  <2>1. refill \in [pc : {"query", "verify", "remove"}, key : Ends, from : Nat, attempt : Nat]
    BY <1>0, <1>7 DEF GapQuery, RefillOK, NoRefill
  <2>2. Ends' = Ends
    BY <1>7 DEF GapQuery, Ends, Size
  <2>3. RefillOK'
    BY <1>7, <2>1, <2>2 DEF GapQuery, RefillOK
  <2>4. ASSUME NEW f \in Resent(refill.key, refill.from)
        PROVE  /\ f.key \in Segments /\ f.off \in Nat /\ f.n \in Nat \ {0}
               /\ f.off + f.n <= sent[f.key]
    <3>1. /\ refill.key \in Segments /\ sent[refill.key] = Size(refill.key)
          /\ refill.from \in Nat /\ Size(refill.key) \in Nat
      BY <2>1, Given DEF Ends
    <3>2. PICK off \in refill.from .. Size(refill.key) - 1 : f = Frame("data", refill.key, off, 1)
      BY DEF Resent
    <3>3. f.key = refill.key /\ f.off = off /\ f.n = 1
      BY <3>2 DEF Frame
    <3> QED BY <3>1, <3>3
  <2>5. net' \subseteq net \cup Resent(refill.key, refill.from)
    BY <1>7 DEF GapQuery
  <2>6. FramesOK'
    BY <1>0, <1>7, <2>4, <2>5 DEF GapQuery, FramesOK
  <2> QED BY <1>7, <1>a, <1>d, <1>e, <1>f, <2>3, <2>6 DEF GapQuery, IInv
<1>8. CASE RefillComplete \/ RefillRetry
  <2>1. refill \in [pc : {"query", "verify", "remove"}, key : Ends, from : Nat, attempt : Nat]
    BY <1>0, <1>8 DEF RefillComplete, RefillRetry, RefillOK, NoRefill
  <2>2. Ends' = Ends
    BY <1>8 DEF RefillComplete, RefillRetry, Ends, Size
  <2>3. RefillOK'
    <3>1. refill.attempt + 1 \in Nat
      BY <2>1
    <3>2. \/ refill' = [refill EXCEPT !.pc = "remove"]
          \/ refill' = [refill EXCEPT !.pc = "query", !.attempt = @ + 1]
      BY <1>8 DEF RefillComplete, RefillRetry
    <3>3. refill' \in [pc : {"query", "verify", "remove"}, key : Ends, from : Nat, attempt : Nat]
      BY <2>1, <3>1, <3>2
    <3> QED BY <2>2, <3>3 DEF RefillOK
  <2> QED BY <1>8, <1>a, <1>c, <1>d, <1>e, <1>f, <2>3 DEF RefillComplete, RefillRetry, IInv
<1>9. CASE RefillRemove
  <2>1. refill.key \in Segments
    BY <1>0, <1>9 DEF RefillRemove, RefillOK, NoRefill, Ends
  <2>2. /\ segs' \in [Segments -> Bufs] /\ segs'[refill.key] = NoBuf
        /\ \A j \in Segments \ {refill.key} : segs'[j] = segs[j]
    BY <1>0, <1>9, <2>1, NoBufOK DEF RefillRemove, BufsOK, BufsAre
  <2>3. BufsAre(segs')
    BY <1>0, <2>2, NoBufOK DEF BufsOK, BufsAre
  <2>4. BudgetOK'
    <3>1. /\ PendingTotal(segs) \in Nat /\ PendingTotal(segs') \in Nat
          /\ PendingTotal(segs') + segs[refill.key].held = PendingTotal(segs) + 0
      <4>1. BufsAre(segs) /\ segs'[refill.key].held = 0
        BY <1>0, <2>1, <2>2, NoBufOK DEF BufsOK
      <4>2. /\ PendingTotal(segs) \in Nat /\ PendingTotal(segs') \in Nat
            /\ PendingTotal(segs') + segs[refill.key].held
                 = PendingTotal(segs) + segs'[refill.key].held
        BY <2>1, <2>2, <2>3, <4>1, TotalChange
      <4> QED BY <4>1, <4>2
    <3>2. segs[refill.key].held \in Nat
      BY <1>0, <2>1, BufFacts DEF BufsOK, BufsAre
    <3>3. PendingTotal(segs) <= PendingBudget
      BY <1>0 DEF BudgetOK
    <3>4. PendingTotal(segs') <= PendingBudget
      BY <3>1, <3>2, <3>3, Given
    <3> QED BY <3>4 DEF BudgetOK
  <2>5. FilesOK'
    <3>1. /\ UNCHANGED <<files, failed>>
          /\ \A j \in Segments : \/ segs'[j] = segs[j]
                                 \/ ~ segs'[j].file /\ segs'[j].next = 0
      BY <1>9, <2>2, NoBufOK DEF RefillRemove
    <3> QED BY <1>0, <3>1, Given DEF FilesOK, Size
  <2>6. Kept
    BY <2>2, NoBufOK DEF Kept
  <2>7. RefillOK'
    BY <1>9 DEF RefillRemove, RefillOK
  <2> QED BY <1>9, <1>a, <1>c, <1>d, <1>f, <2>3, <2>4, <2>5, <2>6, <2>7
          DEF RefillRemove, BufsOK, IInv
<1>10. CASE \E k \in Segments : AnswerExists(k)
  <2>1. PICK k \in Segments : AnswerExists(k)
    BY <1>10
  <2>2. SenderOK'
    <3>1. Ends' = Ends
      BY <2>1 DEF AnswerExists, Ends, Size
    <3>2. (Source[k][sent[k] + 1] \in Range(cache)) \in BOOLEAN
      OBVIOUS
    <3>3. \E j \in Segments, present \in BOOLEAN :
            answer' = <<j, present>> /\ sent'[j] < Size(j)
      BY <2>1, <3>2 DEF AnswerExists
    <3> QED BY <1>0, <2>1, <3>1, <3>3 DEF AnswerExists, SenderOK, Size
  <2> QED BY <1>b, <1>c, <1>d, <1>e, <1>f, <2>1, <2>2 DEF AnswerExists, IInv
<1>11. CASE \E k \in Segments : PublishSeal(k)
  <2>1. PICK k \in Segments : PublishSeal(k)
    BY <1>11
  <2>2. SenderOK'
    <3>1. Ends' = Ends
      BY <2>1 DEF PublishSeal, Ends, Size
    <3>2. k \in Ends
      BY <2>1 DEF PublishSeal, Ends
    <3>3. seals' \in Seq(Ends)
      BY <1>0, <2>1, <3>2, AppendProperties DEF PublishSeal, SenderOK
    <3> QED BY <1>0, <2>1, <3>1, <3>3 DEF PublishSeal, SenderOK, Size
  <2> QED BY <1>b, <1>c, <1>d, <1>e, <1>f, <2>1, <2>2 DEF PublishSeal, IInv
<1>12. CASE Publish
  <2>1. PICK k \in Segments, present \in BOOLEAN : answer = <<k, present>> /\ sent[k] < Size(k)
    BY <1>0, <1>12 DEF Publish, SenderOK
  <2>2. answer[1] = k /\ sent[k] \in Nat /\ Size(k) \in Nat
    BY <1>0, <2>1, Given DEF SenderOK
  <2>3. sent[k] + 1 <= Size(k) /\ 1 \in Nat \ {0}
    BY <2>1, <2>2
  <2>4. SenderOK' /\ FramesOK' /\ RefillOK'
    BY <1>0, <1>12, <2>2, <2>3, SentGrows DEF Publish
  <2> QED BY <1>12, <1>d, <1>e, <1>f, <2>4 DEF Publish, IInv
<1>13. CASE \E k \in Segments, n \in BatchSizes : PublishBatch(k, n)
  <2>1. PICK k \in Segments, n \in BatchSizes : PublishBatch(k, n)
    BY <1>13
  <2>2. n \in Nat \ {0}
    BY ReassemblerAssumption
  <2>3. SenderOK' /\ FramesOK' /\ RefillOK'
    BY <1>0, <2>1, <2>2, SentGrows DEF PublishBatch
  <2> QED BY <1>d, <1>e, <1>f, <2>1, <2>3 DEF PublishBatch, IInv
<1>14. CASE \E f \in net : LoseFrame(f)
  <2>1. PICK f \in net : LoseFrame(f)
    BY <1>14
  <2> QED BY <1>a, <1>b, <1>c, <1>d, <1>e, <1>f, <2>1 DEF LoseFrame, IInv
<1>15. CASE Restart
  <2>1. BufsAre(segs') /\ \A k \in Segments : segs'[k] = NoBuf
    BY <1>15, NoBufOK DEF Restart, BufsAre
  <2>2. BudgetOK'
    <3>1. \A k \in Segments : Held(segs')[k] = 0
      BY <2>1, NoBufOK DEF Held
    <3>2. PendingTotal(segs') = 0
      BY <2>1, <3>1, HeldIs, SumsZero
    <3> QED BY <3>2, Given DEF BudgetOK
  <2>3. FilesOK' /\ faults' \in 0 .. MaxFaults
    <3>1. /\ UNCHANGED <<files, failed>>
          /\ \A k \in Segments : ~ segs'[k].file /\ segs'[k].next = 0
      BY <1>15, <2>1, NoBufOK DEF Restart
    <3>2. FilesOK'
      BY <1>0, <3>1, Given DEF FilesOK, Size
    <3> QED BY <1>0, <1>15, <3>2 DEF Restart
  <2>4. Kept
    BY <2>1, NoBufOK DEF Kept
  <2>5. SenderOK' /\ RefillOK'
    <3>1. Ends' = Ends /\ seals' \in Seq(Ends)
      BY <1>15, EmptySeq DEF Restart, Ends, Size
    <3> QED BY <1>0, <1>15, <3>1 DEF Restart, SenderOK, RefillOK, Size
  <2>6. FramesOK'
    BY <1>0, <1>15 DEF Restart, FramesOK
  <2>7. CacheOK'
    <3>1. <<>> \in Seq(Chunks) /\ Len(<<>>) = 0 /\ DOMAIN <<>> = {}
      BY EmptySeq
    <3>2. Len(cache') <= CacheBudget
      BY <1>15, <3>1, Given DEF Restart
    <3> QED BY <1>15, <3>1, <3>2 DEF Restart, CacheOK, IsInjective
  <2>8. restarts' \in 0 .. MaxRestarts
    BY <1>0, <1>15, Given DEF Restart
  <2> QED BY <2>1, <2>2, <2>3, <2>4, <2>5, <2>6, <2>7, <2>8 DEF BufsOK, IInv
<1>16. CASE UNCHANGED vars
  BY <1>16, <1>a, <1>b, <1>c, <1>d, <1>e, <1>f DEF vars, IInv
<1> QED BY <1>1, <1>2, <1>3, <1>4, <1>5, <1>6, <1>7, <1>8, <1>9, <1>10, <1>11, <1>12,
           <1>13, <1>14, <1>15, <1>16 DEF Next, RefillStep

LEMMA IInvKept == Spec => []IInv
<1> QED BY InitHolds, NextHolds, PTL DEF Spec

-----------------------------------------------------------------------------
(* The theorems.                                                           *)

\* Reassembler.TypeOK: frames on their way and rebuilt files stay within what
\* was published, and the blind cache within its budget, each chunk once.
THEOREM SpecTypeOK == Spec => []TypeOK
<1> QED BY IInvKept, TypeFollows, PTL

\* Reassembler.FilesArePrefixes: place_raw writes only what comes next, however
\* frames are lost, reordered and sent again, buffers are given up and the
\* receiver is restarted.
THEOREM RebuiltFilesArePrefixes == Spec => []FilesArePrefixes
<1>1. ASSUME IInv PROVE FilesArePrefixes
  <2> SUFFICES ASSUME NEW k \in Segments \ failed PROVE IsPrefix(files[k], Source[k])
    BY DEF FilesArePrefixes
  <2>1. /\ files[k] \in Seq(Chunks) /\ Len(files[k]) <= Len(Source[k])
        /\ files[k] = SubSeq(Source[k], 1, Len(files[k]))
    BY <1>1 DEF IInv, FilesOK, Size
  <2>2. SubSeq(files[k], 1, Len(files[k])) = files[k]
    BY <2>1, SubSeqFull
  <2> QED BY <2>1, <2>2 DEF IsPrefix
<1> QED BY <1>1, IInvKept, PTL

\* Reassembler.WatermarkIsFileSize: SegmentBuf::open after a restart, or after
\* the buffer was given up, continues where the file ends.
THEOREM WatermarkIsSize == Spec => []WatermarkIsFileSize
<1>1. IInv => WatermarkIsFileSize
  BY DEF IInv, FilesOK, WatermarkIsFileSize
<1> QED BY <1>1, IInvKept, PTL

\* Reassembler.PendingAhead: SegmentBuf::place leaves no waiting chunk at or
\* below the watermark.
THEOREM PendingLiesAhead == Spec => []PendingAhead
<1>1. ASSUME IInv PROVE PendingAhead
  <2> SUFFICES ASSUME NEW k \in Segments, NEW off \in segs[k].pend PROVE off > segs[k].next
    BY DEF PendingAhead
  <2>1. BufOK(k, segs[k])
    BY <1>1 DEF IInv, BufsOK, BufsAre
  <2>2. segs[k].next < off /\ segs[k].next \in Nat /\ off \in Nat
    BY <2>1, BufFacts
  <2> QED BY <2>2
<1> QED BY <1>1, IInvKept, PTL

\* Reassembler.PendingBounded: pending_total counts at least what waits, a chunk
\* that came twice twice, so enforce_pending_budget bounds what really waits.
THEOREM PendingIsBounded == Spec => []PendingBounded
<1>1. ASSUME IInv PROVE PendingBounded
  <2> DEFINE f == [k \in Segments |-> Cardinality(segs[k].pend)]
  <2>1. \A k \in Segments : Cardinality(segs[k].pend) \in Nat
                            /\ Cardinality(segs[k].pend) <= segs[k].held
    BY <1>1, BufFacts DEF IInv, BufsOK, BufsAre
  <2>2. Held(segs) \in Counts /\ PendingTotal(segs) = SumFunction(Held(segs))
    BY <1>1, HeldIs DEF IInv, BufsOK
  <2>3. f \in Counts /\ \A k \in Segments : f[k] <= Held(segs)[k]
    BY <2>1 DEF Counts, Held
  <2> HIDE DEF f
  <2>4. SumFunction(f) <= PendingTotal(segs) /\ SumFunction(f) \in Nat /\ PendingTotal(segs) \in Nat
    BY <2>2, <2>3, SumsMonotone, SumIs, SumsNat
  <2>5. PendingTotal(segs) <= PendingBudget
    BY <1>1 DEF IInv, BudgetOK
  <2>6. SumFunction(f) <= PendingBudget
    BY <2>4, <2>5, Given
  <2> QED BY <2>6 DEF PendingBounded, f
<1> QED BY <1>1, IInvKept, PTL

\* Reassembler.PendingKept: place takes a chunk out of pending only to write it,
\* enforce_pending_budget only where the budget is used up.
THEOREM PendingIsKept == Spec => PendingKept
<1>1. IInv /\ [Next]_vars =>
        [\A k \in Segments : \A off \in segs[k].pend \ segs'[k].pend :
           \/ off < Len(files'[k])
           \/ k \in failed'
           \/ ~ segs'[k].file
           \/ PendingTotal(segs') = PendingBudget]_vars
  BY NextHolds DEF Kept
<1> QED BY <1>1, IInvKept, PTL DEF Spec, PendingKept

=============================================================================
