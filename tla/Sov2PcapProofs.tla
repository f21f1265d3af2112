--------------------------- MODULE Sov2PcapProofs ---------------------------
(***************************************************************************)
(* Proofs about module Sov2Pcap: what the output files hold after any      *)
(* number of runs on a directory that grows, rotates and evicts, for every *)
(* filter, number of segments and length.                                  *)
(***************************************************************************)
EXTENDS Sov2Pcap, TLAPS, SequenceTheorems, FiniteSetTheorems, WellFoundedInduction

Cells == SegNos \X (1 .. MaxRecords)
Outs  == SegNos \cup {Common}

(***************************************************************************)
(* The file in hand: its records are at most those of the segment, and     *)
(* output and buffer together are the packets given to the writer so far.  *)
(***************************************************************************)
InHand ==
  /\ pc \in {"create", "write"} => records <= size[Current]
  /\ pc \in {"idle", "list", "next", "create", "ok", "failed"} => put = 0 /\ buffered = <<>>
  /\ pc = "write" =>
       /\ put <= Len(Pending)
       /\ outputs[OutputPath(Current)] \o buffered = SubSeq(Pending, 1, put)
  /\ pc \in {"idle", "list", "ok", "failed"} => todo = <<>>

Beginning(s, t) == \E u \in Seq(Cells) : s \o u = t

\* OutputsArePrefixes, with the rest of the packets named.
WholeOrCut ==
  \A o \in Outs :
    \E n \in SegNos : (o # Common => n = o) /\ Beginning(outputs[o], Packets(n, size[n]))

(***************************************************************************)
(* What is promised about single segments.  A promise is only ever made    *)
(* about a sealed one, whose size no longer changes.                       *)
(***************************************************************************)
Promised == finished \cup due

Promises ==
  /\ \A n \in Promised : Sealed(n)
  /\ pc \in {"create", "write"} /\ Current \in Promised => records = size[Current]
  /\ finished # {} => form # "output"
  /\ \A n \in finished :
       outputs[n] = Packets(n, size[n]) \/ (pc = "write" /\ Current = n)
  /\ pc = "list" => due = {}
  /\ pc \in {"next", "create", "write", "ok"} /\ ~ unnoticed /\ form # "output" =>
       \A n \in due : n \in Range(todo) \/ outputs[n] = Packets(n, size[n])
-----------------------------------------------------------------------------
(* Induction, with the set of the numbers that have the property in place  *)
(* of the property.                                                        *)

LEMMA Least ==
  ASSUME NEW S \in SUBSET Nat, S # {}
  PROVE  \E x \in S : \A y \in S : x <= y
<1>1. PICK x \in S : \A y \in S : ~ (<<y, x>> \in OpToRel(<, Nat))
  BY NatLessThanWellFounded, WFMin
<1>2. \A y \in S : ~ (y < x)
  BY <1>1 DEF OpToRel
<1>3. \A y \in S : x <= y
  BY <1>2
<1> QED BY <1>3

LEMMA Induction ==
  ASSUME NEW S \in SUBSET Nat, 0 \in S, \A m \in Nat : m \in S => m + 1 \in S
  PROVE  \A m \in Nat : m \in S
<1> SUFFICES ASSUME Nat \ S # {} PROVE FALSE
  OBVIOUS
<1>1. PICK m \in Nat \ S : \A k \in Nat \ S : m <= k
  BY Least
<1>2. m - 1 \in Nat /\ ~ (m <= m - 1)
  BY <1>1
<1>3. m - 1 \in S
  BY <1>1, <1>2
<1>4. (m - 1) + 1 \in S
  BY <1>2, <1>3
<1> QED BY <1>4

\* Max of an initial part of the numbers.
LEMMA MaxIs ==
  ASSUME NEW N \in Nat, NEW S \in SUBSET (0 .. N), S # {}
  PROVE  Max(S) \in S /\ \A x \in S : x <= Max(S)
<1> DEFINE T == {N - x : x \in S}
<1>1. T \in SUBSET Nat /\ T # {}
  <2>1. \A x \in S : N - x \in Nat
    OBVIOUS
  <2> QED BY <2>1
<1>2. PICK t \in T : \A u \in T : t <= u
  BY <1>1, Least
<1>3. PICK m \in S : t = N - m
  BY <1>2
<1>4. \A x \in S : N - m <= N - x
  BY <1>2, <1>3
<1>5. \A x \in S : m >= x
  BY <1>4
<1>6. \E x \in S : \A y \in S : x >= y
  BY <1>5
<1>7. Max(S) \in S /\ \A y \in S : Max(S) >= y
  BY <1>6 DEF Max
<1> QED BY <1>7

-----------------------------------------------------------------------------
(* The packets of a segment.                                               *)

LEMMA Numbers ==
  /\ MaxRecords \in Nat /\ MaxSegNo \in Nat /\ SegNos \subseteq Nat /\ 0 \in SegNos
  /\ Common \notin SegNos /\ Common \in Outs /\ SegNos \subseteq Outs
BY Sov2PcapAssumption DEF SegNos, Common, Outs

\* One more record, in the sequence of the packets so far.
More(s, n, i) == IF Passes(i) THEN Append(s, <<n, i>>) ELSE s

LEMMA MoreType ==
  ASSUME NEW n \in SegNos, NEW i \in 1 .. MaxRecords, NEW s \in Seq(Cells)
  PROVE  /\ More(s, n, i) \in Seq(Cells)
         /\ Len(More(s, n, i)) <= Len(s) + 1
         /\ \E u \in Seq(Cells) : s \o u = More(s, n, i)
<1>1. <<n, i>> \in Cells /\ Len(s) \in Nat
  BY LenProperties DEF Cells
<1>2. CASE Passes(i)
  <2>1. <<<<n, i>>>> \in Seq(Cells)
    BY <1>1
  <2>2. Append(s, <<n, i>>) = s \o <<<<n, i>>>>
    BY <1>1, AppendIsConcat
  <2>3. Append(s, <<n, i>>) \in Seq(Cells) /\ Len(Append(s, <<n, i>>)) = Len(s) + 1
    BY <1>1, AppendProperties
  <2>4. More(s, n, i) = Append(s, <<n, i>>)
    BY <1>2 DEF More
  <2>5. \E u \in Seq(Cells) : s \o u = Append(s, <<n, i>>)
    BY <2>1, <2>2
  <2>6. Len(Append(s, <<n, i>>)) <= Len(s) + 1
    BY <1>1, <2>3
  <2> QED BY <2>3, <2>4, <2>5, <2>6
<1>3. CASE ~ Passes(i)
  <2>1. <<>> \in Seq(Cells) /\ s \o <<>> = s
    BY EmptySeq, ConcatEmptySeq
  <2>2. More(s, n, i) = s
    BY <1>3 DEF More
  <2>3. \E u \in Seq(Cells) : s \o u = s
    BY <2>1
  <2>4. Len(s) <= Len(s) + 1
    BY <1>1
  <2> QED BY <2>2, <2>3, <2>4
<1> QED BY <1>2, <1>3

\* The loop: what it has after i records.
Loop(g, n) ==
  g = [i \in 0 .. MaxRecords |-> IF i = 0 THEN <<>> ELSE More(g[i - 1], n, i)]

LEMMA LoopExists ==
  ASSUME NEW n \in SegNos
  PROVE  \E g : Loop(g, n)
<1> DEFINE upto(g, m) == \A i \in 0 .. m : g[i] = IF i = 0 THEN <<>> ELSE More(g[i - 1], n, i)
           S == {m \in Nat : m <= MaxRecords => \E g : g = [i \in 0 .. m |-> g[i]] /\ upto(g, m)}
<1>1. 0 \in S
  <2> DEFINE g == [i \in 0 .. 0 |-> <<>>]
  <2>1. g = [i \in 0 .. 0 |-> g[i]] /\ upto(g, 0)
    OBVIOUS
  <2> HIDE DEF g
  <2> QED BY <2>1
<1>2. ASSUME NEW m \in Nat, m \in S PROVE m + 1 \in S
  <2> SUFFICES ASSUME m + 1 <= MaxRecords
               PROVE  \E g : g = [i \in 0 .. m + 1 |-> g[i]] /\ upto(g, m + 1)
    OBVIOUS
  <2>1. m <= MaxRecords
    BY Numbers
  <2>2. PICK h : upto(h, m)
    BY <1>2, <2>1
  <2> DEFINE g == [i \in 0 .. m + 1 |-> IF i = m + 1 THEN More(h[m], n, m + 1) ELSE h[i]]
  <2>3. g = [i \in 0 .. m + 1 |-> g[i]]
    OBVIOUS
  <2>4. ASSUME NEW i \in 0 .. m + 1
        PROVE  g[i] = IF i = 0 THEN <<>> ELSE More(g[i - 1], n, i)
    <3>1. CASE i = m + 1
      <4>1. m \in 0 .. m + 1 /\ m # m + 1 /\ i # 0 /\ i - 1 = m
        BY <3>1
      <4>2. g[m] = h[m]
        BY <4>1
      <4> QED BY <3>1, <4>1, <4>2
    <3>2. CASE i # m + 1
      <4>1. i \in 0 .. m /\ g[i] = h[i]
        BY <3>2
      <4>2. CASE i = 0
        BY <2>2, <4>1, <4>2
      <4>3. CASE i # 0
        <5>1. i - 1 \in 0 .. m + 1 /\ i - 1 # m + 1
          BY <3>2, <4>3
        <5>2. g[i - 1] = h[i - 1]
          BY <5>1
        <5> QED BY <2>2, <4>1, <4>3, <5>2
      <4> QED BY <4>2, <4>3
    <3> QED BY <3>1, <3>2
  <2> HIDE DEF g
  <2> QED BY <2>3, <2>4
<1>3. MaxRecords \in S
  <2>1. S \in SUBSET Nat
    OBVIOUS
  <2> HIDE DEF S
  <2> QED BY <1>1, <1>2, <2>1, Induction, Numbers
<1>4. PICK g : g = [i \in 0 .. MaxRecords |-> g[i]] /\ upto(g, MaxRecords)
  BY <1>3, Numbers
<1>5. Loop(g, n)
  BY <1>4 DEF Loop
<1> QED BY <1>5

LEMMA PacketsStep ==
  ASSUME NEW n \in SegNos
  PROVE  /\ Packets(n, 0) = <<>>
         /\ \A i \in 1 .. MaxRecords : Packets(n, i) = More(Packets(n, i - 1), n, i)
<1> DEFINE g == CHOOSE h : Loop(h, n)
<1>1. Loop(g, n)
  BY LoopExists
<1>2. \A c : Packets(n, c) = g[c]
  BY DEF Packets, Loop, More
<1> HIDE DEF g
<1>3. g[0] = <<>> /\ \A i \in 1 .. MaxRecords : g[i] = More(g[i - 1], n, i)
  BY <1>1, Numbers DEF Loop
<1> QED BY <1>2, <1>3

LEMMA PacketsType ==
  ASSUME NEW n \in SegNos, NEW c \in 0 .. MaxRecords
  PROVE  Packets(n, c) \in Seq(Cells) /\ Len(Packets(n, c)) <= c
<1> DEFINE S == {m \in Nat : m <= MaxRecords =>
                    Packets(n, m) \in Seq(Cells) /\ Len(Packets(n, m)) <= m}
<1>1. 0 \in S
  <2>1. Packets(n, 0) = <<>>
    BY PacketsStep
  <2>2. <<>> \in Seq(Cells) /\ Len(<<>>) = 0
    BY EmptySeq
  <2>3. Packets(n, 0) \in Seq(Cells) /\ Len(Packets(n, 0)) = 0
    BY <2>1, <2>2
  <2>4. Len(Packets(n, 0)) <= 0
    BY <2>3
  <2> QED BY <2>3, <2>4
<1>2. ASSUME NEW m \in Nat, m \in S PROVE m + 1 \in S
  <2> SUFFICES ASSUME m + 1 <= MaxRecords
               PROVE  Packets(n, m + 1) \in Seq(Cells) /\ Len(Packets(n, m + 1)) <= m + 1
    OBVIOUS
  <2>1. m <= MaxRecords /\ m + 1 \in 1 .. MaxRecords /\ (m + 1) - 1 = m
    BY Numbers
  <2>2. Packets(n, m) \in Seq(Cells) /\ Len(Packets(n, m)) <= m
    BY <1>2, <2>1
  <2>3. Packets(n, m + 1) = More(Packets(n, m), n, m + 1)
    BY <2>1, PacketsStep
  <2>4. Len(Packets(n, m)) \in Nat /\ Len(Packets(n, m + 1)) \in Nat
    BY <2>1, <2>2, <2>3, MoreType, LenProperties
  <2> QED BY <2>1, <2>2, <2>3, <2>4, MoreType
<1>3. c \in S
  <2>1. S \in SUBSET Nat /\ c \in Nat
    BY Numbers
  <2> HIDE DEF S
  <2> QED BY <1>1, <1>2, <2>1, Induction
<1> QED BY <1>3, Numbers

LEMMA Joined ==
  ASSUME NEW s \in Seq(Cells), NEW t \in Seq(Cells)
  PROVE  s \o t \in Seq(Cells) /\ Len(s \o t) = Len(s) + Len(t)
BY ConcatProperties

LEMMA Associative ==
  ASSUME NEW s \in Seq(Cells), NEW t \in Seq(Cells), NEW u \in Seq(Cells)
  PROVE  (s \o t) \o u = s \o (t \o u)
BY ConcatAssociative

LEMMA BeginningSelf ==
  ASSUME NEW s \in Seq(Cells)
  PROVE  Beginning(s, s) /\ Beginning(<<>>, s)
<1>1. <<>> \in Seq(Cells) /\ s \o <<>> = s /\ <<>> \o s = s
  BY EmptySeq, ConcatEmptySeq
<1> QED BY <1>1 DEF Beginning

LEMMA BeginningConcat ==
  ASSUME NEW s \in Seq(Cells), NEW t \in Seq(Cells), NEW e \in Seq(Cells), Beginning(s, t)
  PROVE  Beginning(s, t \o e)
<1>1. PICK u \in Seq(Cells) : s \o u = t
  BY DEF Beginning
<1>2. u \o e \in Seq(Cells)
  BY Joined
<1>3. (s \o u) \o e = s \o (u \o e)
  BY Associative
<1> QED BY <1>1, <1>2, <1>3 DEF Beginning

LEMMA BeginningTransitive ==
  ASSUME NEW s \in Seq(Cells), NEW t \in Seq(Cells), NEW u \in Seq(Cells),
         Beginning(s, t), Beginning(t, u)
  PROVE  Beginning(s, u)
<1>1. PICK e \in Seq(Cells) : t \o e = u
  BY DEF Beginning
<1> QED BY <1>1, BeginningConcat

\* A segment that has grown has the packets it had, and perhaps more.
LEMMA PacketsGrow ==
  ASSUME NEW n \in SegNos, NEW c \in 0 .. MaxRecords, NEW d \in c .. MaxRecords
  PROVE  Beginning(Packets(n, c), Packets(n, d))
<1> DEFINE S == {m \in Nat : c + m <= MaxRecords =>
                    Beginning(Packets(n, c), Packets(n, c + m))}
<1>1. 0 \in S
  <2>1. Beginning(Packets(n, c), Packets(n, c))
    BY PacketsType, BeginningSelf
  <2>2. c + 0 = c
    BY Numbers
  <2> QED BY <2>1, <2>2
<1>2. ASSUME NEW m \in Nat, m \in S PROVE m + 1 \in S
  <2> SUFFICES ASSUME c + (m + 1) <= MaxRecords
               PROVE  Beginning(Packets(n, c), Packets(n, c + (m + 1)))
    OBVIOUS
  <2>1. /\ c + m \in 0 .. MaxRecords /\ c + (m + 1) \in 1 .. MaxRecords
        /\ (c + (m + 1)) - 1 = c + m
    BY Numbers
  <2>2. Beginning(Packets(n, c), Packets(n, c + m))
    BY <1>2, <2>1
  <2>3. /\ Packets(n, c) \in Seq(Cells) /\ Packets(n, c + m) \in Seq(Cells)
    BY <2>1, PacketsType
  <2>4. Packets(n, c + (m + 1)) = More(Packets(n, c + m), n, c + (m + 1))
    BY <2>1, PacketsStep
  <2>5. PICK u \in Seq(Cells) : Packets(n, c + m) \o u = Packets(n, c + (m + 1))
    <3>1. \E u \in Seq(Cells) :
             Packets(n, c + m) \o u = More(Packets(n, c + m), n, c + (m + 1))
      BY <2>1, <2>3, MoreType
    <3> QED BY <3>1, <2>4
  <2> QED BY <2>2, <2>3, <2>5, BeginningConcat
<1>3. d - c \in S
  <2>1. S \in SUBSET Nat /\ d - c \in Nat
    BY Numbers
  <2> HIDE DEF S
  <2> QED BY <1>1, <1>2, <2>1, Induction
<1>4. c + (d - c) = d /\ d <= MaxRecords
  BY Numbers
<1> QED BY <1>3, <1>4

LEMMA PacketsKept ==
  ASSUME filter' = filter
  PROVE  \A n, c : Packets(n, c)' = Packets(n, c)
BY DEF Packets, Passes

-----------------------------------------------------------------------------
(* The types.                                                              *)

LEMMA CurrentIs ==
  ASSUME TypeOK, todo # <<>>
  PROVE  /\ Current \in SegNos /\ Tail(todo) \in Seq(SegNos)
         /\ OutputPath(Current) \in Outs
         /\ Pending \in Seq(Cells) /\ Len(Pending) \in 0 .. records
<1>1. Current \in SegNos /\ Tail(todo) \in Seq(SegNos)
  BY HeadTailProperties DEF TypeOK, Current
<1>2. OutputPath(Current) \in Outs
  BY <1>1 DEF OutputPath, Outs
<1>3. Pending \in Seq(Cells) /\ Len(Pending) <= records
  BY <1>1, PacketsType DEF TypeOK, Pending
<1>4. Len(Pending) \in Nat /\ records \in Nat
  BY <1>3, LenProperties, Numbers DEF TypeOK
<1> QED BY <1>1, <1>2, <1>3, <1>4

LEMMA PartOf ==
  ASSUME NEW s \in Seq(Cells), NEW k \in 0 .. Len(s)
  PROVE  SubSeq(s, 1, k) \in Seq(Cells)
BY SubSeqProperties

LEMMA AscendingType ==
  ASSUME NEW S \in SUBSET SegNos, NEW s \in Ascending(S)
  PROVE  s \in Seq(SegNos) /\ Range(s) = S
<1>1. IsFiniteSet(SegNos)
  BY Numbers, FS_Interval DEF SegNos
<1>2. Cardinality(S) \in Nat
  BY <1>1, FS_Subset, FS_CardinalityType
<1>3. s \in [1 .. Cardinality(S) -> SegNos] /\ Range(s) = S
  BY DEF Ascending
<1> QED BY <1>2, <1>3

LEMMA TypeInit == Init => TypeOK
<1> SUFFICES ASSUME Init PROVE TypeOK
  OBVIOUS
<1>1. 0 \in 0 .. MaxRecords
  BY Numbers
<1>2. size \in [SegNos -> 0 .. MaxRecords]
  BY <1>1 DEF Init
<1>3. outputs \in [SegNos \cup {Common} -> Seq(SegNos \X (1 .. MaxRecords))]
  BY EmptySeq DEF Init
<1>4. todo \in Seq(SegNos) /\ buffered \in Seq(SegNos \X (1 .. MaxRecords))
  BY EmptySeq DEF Init
<1> QED BY <1>1, <1>2, <1>3, <1>4 DEF Init, TypeOK

LEMMA EndType ==
  ASSUME TypeOK, NEW how \in {"ok", "failed"}, End(how)
  PROVE  /\ pc' \in {"ok", "failed"} /\ began' \subseteq SegNos /\ todo' \in Seq(SegNos)
         /\ records' \in 0 .. MaxRecords /\ put' \in 0 .. MaxRecords
         /\ buffered' \in Seq(SegNos \X (1 .. MaxRecords))
BY Numbers, EmptySeq DEF End

LEMMA FlushPartType ==
  ASSUME TypeOK, todo # <<>>, NEW most \in Int, most <= Len(buffered), FlushPart(most)
  PROVE  outputs' \in [SegNos \cup {Common} -> Seq(SegNos \X (1 .. MaxRecords))]
<1>1. Len(buffered) \in Nat /\ buffered \in Seq(Cells)
  BY LenProperties DEF TypeOK, Cells
<1>2. PICK k \in 0 .. most :
        outputs' = [outputs EXCEPT ![OutputPath(Current)] = @ \o SubSeq(buffered, 1, k)]
  BY DEF FlushPart
<1>3. k \in 0 .. Len(buffered)
  BY <1>1
<1>4. SubSeq(buffered, 1, k) \in Seq(Cells)
  BY <1>1, <1>3, PartOf
<1>5. outputs[OutputPath(Current)] \in Seq(Cells)
  BY CurrentIs DEF TypeOK, Cells, Outs
<1>6. outputs[OutputPath(Current)] \o SubSeq(buffered, 1, k) \in Seq(Cells)
  BY <1>4, <1>5, Joined
<1> QED BY <1>2, <1>6, CurrentIs DEF TypeOK, Cells

LEMMA TypeNext == TypeOK /\ [Next]_vars => TypeOK'
<1> SUFFICES ASSUME TypeOK, [Next]_vars PROVE TypeOK'
  OBVIOUS
<1> USE DEF dirVars, optVars, runVars
<1>1. CASE Rotate
  <2>1. segs' \subseteq allocated' /\ allocated' \subseteq SegNos
    BY <1>1 DEF Rotate, Store!Allocate, TypeOK
  <2> QED BY <1>1, <2>1 DEF Rotate, TypeOK
<1>2. CASE Evict
  <2>1. segs' \subseteq allocated' /\ allocated' \subseteq SegNos
    BY <1>2 DEF Evict, Store!Discard, TypeOK
  <2> QED BY <1>2, <2>1 DEF Evict, TypeOK
<1>3. CASE Grow
  <2>1. Max(allocated) \in SegNos
    BY <1>3, MaxIs, Numbers DEF Grow, TypeOK, SegNos
  <2>2. size[Max(allocated)] + 1 \in 0 .. MaxRecords
    <3>1. size[Max(allocated)] \in 0 .. MaxRecords
      BY <2>1 DEF TypeOK
    <3>2. size[Max(allocated)] < MaxRecords
      BY <1>3 DEF Grow
    <3> QED BY <3>1, <3>2, Numbers
  <2>3. size' \in [SegNos -> 0 .. MaxRecords]
    BY <1>3, <2>1, <2>2 DEF Grow, TypeOK
  <2> QED BY <1>3, <2>3 DEF Grow, TypeOK
<1>4. CASE InvokeDir
  BY <1>4 DEF InvokeDir, TypeOK
<1>5. CASE List
  <2>1. \E S \in SUBSET SegNos : todo' \in Ascending(S)
    BY <1>5 DEF List, TypeOK
  <2>2. todo' \in Seq(SegNos)
    BY <2>1, AscendingType
  <2>3. due' \subseteq SegNos
    BY <1>5 DEF List, TypeOK
  <2> QED BY <1>5, <2>2, <2>3 DEF List, TypeOK
<1>6. CASE InvokeFile
  <2>1. todo' \in Seq(SegNos)
    BY <1>6 DEF InvokeFile
  <2> QED BY <1>6, <2>1 DEF InvokeFile, TypeOK
<1>7. CASE Read
  <2>1. records' \in 0 .. MaxRecords
    BY <1>7, CurrentIs DEF Read, TypeOK
  <2> QED BY <1>7, <2>1 DEF Read, TypeOK
<1>8. CASE FailsEarly
  BY <1>8, EndType DEF FailsEarly, TypeOK
<1>9. CASE Create
  <2>1. outputs' \in [SegNos \cup {Common} -> Seq(SegNos \X (1 .. MaxRecords))]
    BY <1>9, EmptySeq DEF Create, TypeOK
  <2> QED BY <1>9, <2>1 DEF Create, TypeOK
<1>10. CASE WritePacket
  <2>1. todo # <<>> /\ put \in Nat
    BY <1>10, Numbers DEF WritePacket, TypeOK
  <2>2. put + 1 \in 1 .. Len(Pending) /\ put + 1 \in 0 .. MaxRecords
    <3>1. Len(Pending) \in 0 .. records /\ records \in 0 .. MaxRecords
      BY <2>1, CurrentIs DEF TypeOK
    <3>2. put < Len(Pending)
      BY <1>10 DEF WritePacket
    <3> QED BY <2>1, <3>1, <3>2, Numbers
  <2>3. Pending[put + 1] \in Cells
    BY <2>1, <2>2, CurrentIs
  <2>4. buffered' \in Seq(SegNos \X (1 .. MaxRecords))
    BY <1>10, <2>3, AppendProperties DEF WritePacket, TypeOK, Cells
  <2> QED BY <1>10, <2>2, <2>4 DEF WritePacket, TypeOK
<1>11. CASE Spill
  <2>1. todo # <<>>
    BY <1>11 DEF Spill, TypeOK
  <2>2. outputs[OutputPath(Current)] \o buffered \in Seq(Cells)
    BY <2>1, CurrentIs, Joined DEF TypeOK, Cells, Outs
  <2>3. outputs' \in [SegNos \cup {Common} -> Seq(SegNos \X (1 .. MaxRecords))]
    BY <1>11, <2>2, <2>1, CurrentIs DEF Spill, TypeOK, Cells
  <2>4. buffered' \in Seq(SegNos \X (1 .. MaxRecords))
    BY <1>11, EmptySeq DEF Spill
  <2> QED BY <1>11, <2>3, <2>4 DEF Spill, TypeOK
<1>12. CASE Close
  <2>1. todo # <<>>
    BY <1>12 DEF Close, TypeOK
  <2>2. outputs[OutputPath(Current)] \o buffered \in Seq(Cells)
    BY <2>1, CurrentIs, Joined DEF TypeOK, Cells, Outs
  <2>3. outputs' \in [SegNos \cup {Common} -> Seq(SegNos \X (1 .. MaxRecords))]
    BY <1>12, <2>2, <2>1, CurrentIs DEF Close, TypeOK, Cells
  <2>4. NextFile /\ finished' \subseteq SegNos
    BY <1>12, <2>1, CurrentIs DEF Close, TypeOK
  <2>5. todo' \in Seq(SegNos) /\ buffered' \in Seq(SegNos \X (1 .. MaxRecords))
    BY <2>1, <2>4, CurrentIs, EmptySeq DEF NextFile
  <2> QED BY <1>12, <2>3, <2>4, <2>5, Numbers DEF Close, NextFile, TypeOK
<1>13. CASE CloseFails
  <2>1. todo # <<>> /\ Len(buffered) \in Nat
    BY <1>13, LenProperties DEF CloseFails, TypeOK
  <2>2. outputs' \in [SegNos \cup {Common} -> Seq(SegNos \X (1 .. MaxRecords))]
    <3>1. Len(buffered) - 1 \in Int /\ Len(buffered) - 1 <= Len(buffered)
      BY <2>1
    <3> QED BY <1>13, <2>1, <3>1, FlushPartType DEF CloseFails
  <2>3. NextFile /\ finished' \subseteq SegNos
    BY <1>13 DEF CloseFails, TypeOK
  <2>4. todo' \in Seq(SegNos) /\ buffered' \in Seq(SegNos \X (1 .. MaxRecords))
    BY <2>1, <2>3, CurrentIs, EmptySeq DEF NextFile
  <2>5. /\ pc' = "next" /\ began' = began /\ unnoticed' = TRUE
        /\ records' \in 0 .. MaxRecords /\ put' \in 0 .. MaxRecords
    BY <1>13, <2>3, Numbers DEF CloseFails, NextFile
  <2>6. UNCHANGED <<dirVars, optVars, due>>
    BY <1>13 DEF CloseFails
  <2> QED BY <2>2, <2>3, <2>4, <2>5, <2>6 DEF TypeOK
<1>14. CASE WriteCutShort
  <2>1. todo # <<>> /\ Len(buffered) \in Nat
    BY <1>14, LenProperties DEF WriteCutShort, TypeOK
  <2>2. outputs' \in [SegNos \cup {Common} -> Seq(SegNos \X (1 .. MaxRecords))]
    <3>1. Len(buffered) \in Int /\ Len(buffered) <= Len(buffered)
      BY <2>1
    <3> QED BY <1>14, <2>1, <3>1, FlushPartType DEF WriteCutShort
  <2>3. End("failed") /\ finished' \subseteq SegNos
    BY <1>14 DEF WriteCutShort, TypeOK
  <2> QED BY <1>14, <2>2, <2>3, EndType DEF WriteCutShort, TypeOK
<1>15. CASE Done
  BY <1>15, EndType DEF Done, TypeOK
<1>16. CASE UNCHANGED vars
  BY <1>16 DEF vars, TypeOK
<1> QED BY <1>1, <1>2, <1>3, <1>4, <1>5, <1>6, <1>7, <1>8, <1>9, <1>10, <1>11, <1>12,
           <1>13, <1>14, <1>15, <1>16 DEF Next

\* Sov2Pcap.TypeOK: the files of the directory, the names yet to be converted,
\* the decoded records and the outputs of sov2pcap.rs have their types, and a
\* file that is being made has a name at the head of the list.
THEOREM SpecTypeOK == Spec => []TypeOK
<1> QED BY TypeInit, TypeNext, PTL DEF Spec

-----------------------------------------------------------------------------
(* The file in hand.                                                       *)

LEMMA TakeOneMore ==
  ASSUME NEW s \in Seq(Cells), NEW k \in Nat, k < Len(s)
  PROVE  Append(SubSeq(s, 1, k), s[k + 1]) = SubSeq(s, 1, k + 1)
<1>1. Len(s) \in Nat /\ k + 1 \in 1 .. Len(s) /\ 1 \in 1 .. Len(s) /\ (k + 1) - 1 = k
  BY LenProperties
<1>2. SubSeq(s, 1, k + 1) = SubSeq(s, 1, k) \o <<s[k + 1]>>
  BY <1>1, SubSeqRecursiveSecond
<1>3. k \in 0 .. Len(s)
  BY <1>1
<1>4. s[k + 1] \in Cells /\ SubSeq(s, 1, k) \in Seq(Cells)
  BY <1>1, <1>3, PartOf, ElementOfSeq
<1> QED BY <1>2, <1>4, AppendIsConcat

LEMMA AppendJoined ==
  ASSUME NEW s \in Seq(Cells), NEW t \in Seq(Cells), NEW c \in Cells
  PROVE  s \o Append(t, c) = Append(s \o t, c)
<1>1. s \o t \in Seq(Cells)
  BY Joined
<1>2. <<c>> \in Seq(Cells)
  OBVIOUS
<1>3. Append(t, c) = t \o <<c>> /\ Append(s \o t, c) = (s \o t) \o <<c>>
  BY <1>1, AppendIsConcat
<1>4. (s \o t) \o <<c>> = s \o (t \o <<c>>)
  BY <1>2, Associative
<1> QED BY <1>3, <1>4

\* What the buffer and the numbers say of a file in hand, for any output.
LEMMA InHandFacts ==
  ASSUME TypeOK, InHand, pc = "write"
  PROVE  /\ todo # <<>> /\ Current \in SegNos /\ OutputPath(Current) \in Outs
         /\ records \in 0 .. MaxRecords /\ size[Current] \in records .. MaxRecords
         /\ put \in 0 .. Len(Pending) /\ Pending \in Seq(Cells)
         /\ outputs[OutputPath(Current)] \in Seq(Cells) /\ buffered \in Seq(Cells)
         /\ outputs[OutputPath(Current)] \o buffered = SubSeq(Pending, 1, put)
<1>1. todo # <<>>
  BY DEF TypeOK
<1>2. /\ Current \in SegNos /\ OutputPath(Current) \in Outs
      /\ Pending \in Seq(Cells) /\ Len(Pending) \in Nat
  BY <1>1, CurrentIs, LenProperties
<1>3. outputs[OutputPath(Current)] \in Seq(Cells) /\ buffered \in Seq(Cells)
  BY <1>2 DEF TypeOK, Cells, Outs
<1>4. /\ put <= Len(Pending) /\ put \in Nat /\ records \in 0 .. MaxRecords
      /\ records <= size[Current] /\ size[Current] \in 0 .. MaxRecords
  BY <1>2, Numbers DEF InHand, TypeOK
<1>5. size[Current] \in records .. MaxRecords /\ put \in 0 .. Len(Pending)
  BY <1>2, <1>4, Numbers
<1> QED BY <1>1, <1>2, <1>3, <1>4, <1>5 DEF InHand

\* The directory's steps leave the file in hand alone.
LEMMA InHandSame ==
  ASSUME TypeOK, InHand, UNCHANGED <<optVars, pc, todo, records, put, buffered, outputs>>,
         \A n \in SegNos : size[n] <= size'[n], TypeOK'
  PROVE  InHand'
<1> USE DEF optVars
<1>1. Current' = Current /\ OutputPath(Current)' = OutputPath(Current)
  BY DEF Current, OutputPath
<1>2. Pending' = Pending
  BY <1>1, PacketsKept DEF Pending, Current
<1>3. ASSUME pc \in {"create", "write"} PROVE records' <= size'[Current]
  <2>1. Current \in SegNos /\ records \in Nat /\ size[Current] \in Nat /\ size'[Current] \in Nat
    <3>1. Current \in SegNos
      BY <1>3, CurrentIs DEF TypeOK
    <3>2. size \in [SegNos -> 0 .. MaxRecords] /\ size' \in [SegNos -> 0 .. MaxRecords]
      BY DEF TypeOK
    <3>3. records \in 0 .. MaxRecords
      BY DEF TypeOK
    <3>4. 0 .. MaxRecords \subseteq Nat
      BY Numbers
    <3> QED BY <3>1, <3>2, <3>3, <3>4
  <2>2. records <= size[Current] /\ size[Current] <= size'[Current]
    BY <1>3, <2>1 DEF InHand
  <2> QED BY <2>1, <2>2
<1> QED BY <1>1, <1>2, <1>3 DEF InHand

\* No file is in hand afterwards.
LEMMA NotInHand ==
  ASSUME pc' \in {"list", "next", "ok", "failed"}, put' = 0, buffered' = <<>>,
         pc' # "next" => todo' = <<>>
  PROVE  InHand'
BY DEF InHand

LEMMA InHandInit == Init => InHand
BY DEF Init, InHand

LEMMA InHandNext == TypeOK /\ TypeOK' /\ InHand /\ [Next]_vars => InHand'
<1> SUFFICES ASSUME TypeOK, TypeOK', InHand, [Next]_vars PROVE InHand'
  OBVIOUS
<1> USE DEF dirVars, optVars, runVars
<1>0. ASSUME size' = size PROVE \A n \in SegNos : size[n] <= size'[n]
  BY <1>0, Numbers DEF TypeOK
<1>1. CASE Rotate
  BY <1>1, <1>0, InHandSame DEF Rotate
<1>2. CASE Evict
  BY <1>2, <1>0, InHandSame DEF Evict
<1>3. CASE Grow
  <2>1. ASSUME NEW n \in SegNos PROVE size[n] <= size'[n]
    <3>1. size[n] \in Nat
      BY Numbers DEF TypeOK
    <3>2. size'[n] = IF n = Max(allocated) THEN size[n] + 1 ELSE size[n]
      BY <1>3 DEF Grow, TypeOK
    <3> QED BY <3>1, <3>2
  <2> QED BY <1>3, <2>1, InHandSame DEF Grow
<1>4. CASE InvokeDir
  BY <1>4, NotInHand DEF InvokeDir, AtPrompt, InHand
<1>5. CASE List
  BY <1>5, NotInHand DEF List, InHand
<1>6. CASE InvokeFile
  BY <1>6, NotInHand DEF InvokeFile, AtPrompt, InHand
<1>7. CASE Read
  <2>1. Current' = Current /\ records' = size'[Current] /\ records' \in Nat
    BY <1>7, Numbers DEF Read, Current, TypeOK
  <2>2. put' = 0 /\ buffered' = <<>> /\ pc' = "create"
    BY <1>7 DEF Read, InHand
  <2>3. records' <= size'[Current]
    BY <2>1
  <2> QED BY <2>1, <2>2, <2>3 DEF InHand
<1>8. CASE FailsEarly
  BY <1>8, NotInHand DEF FailsEarly, End
<1>9. CASE Create
  <2>1. Current' = Current /\ OutputPath(Current)' = OutputPath(Current)
    BY <1>9 DEF Create, Current, OutputPath
  <2>2. Pending' = Pending
    BY <1>9, <2>1, PacketsKept DEF Create, Pending, Current
  <2>3. /\ todo # <<>> /\ put' = 0 /\ buffered' = <<>> /\ pc' = "write"
        /\ records' <= size'[Current]
    BY <1>9 DEF Create, InHand, TypeOK
  <2>4. outputs'[OutputPath(Current)] = <<>>
    BY <1>9, <2>3, CurrentIs DEF Create, TypeOK, Outs
  <2>5. <<>> \o <<>> = SubSeq(Pending, 1, 0)
    BY EmptySeq, ConcatEmptySeq, SubSeqEmpty
  <2>6. 0 <= Len(Pending)
    BY <2>3, CurrentIs
  <2> QED BY <2>1, <2>2, <2>3, <2>4, <2>5, <2>6 DEF InHand
<1>10. CASE WritePacket
  <2>1. /\ Current' = Current /\ OutputPath(Current)' = OutputPath(Current)
        /\ pc = "write" /\ pc' = "write" /\ records' <= size'[Current]
    BY <1>10 DEF WritePacket, Current, OutputPath, InHand
  <2>2. Pending' = Pending
    BY <1>10, <2>1, PacketsKept DEF WritePacket, Pending, Current
  <2> DEFINE out == outputs[OutputPath(Current)]
  <2>3. /\ out \in Seq(Cells) /\ buffered \in Seq(Cells) /\ Pending \in Seq(Cells)
        /\ out \o buffered = SubSeq(Pending, 1, put) /\ put \in Nat
    BY <2>1, InHandFacts, LenProperties
  <2>4. put < Len(Pending) /\ put' = put + 1 /\ buffered' = Append(buffered, Pending[put + 1])
    BY <1>10 DEF WritePacket
  <2> HIDE DEF out
  <2>5. Pending[put + 1] \in Cells
    <3>1. put + 1 \in 1 .. Len(Pending)
      BY <2>3, <2>4, LenProperties
    <3> QED BY <2>3, <3>1, ElementOfSeq
  <2>6. out \o Append(buffered, Pending[put + 1]) = Append(out \o buffered, Pending[put + 1])
    BY <2>3, <2>5, AppendJoined
  <2>7. out \o buffered' = SubSeq(Pending, 1, put')
    BY <2>3, <2>4, <2>6, TakeOneMore
  <2>8. put' <= Len(Pending)
    BY <2>3, <2>4, LenProperties
  <2>9. outputs'[OutputPath(Current)] = out
    BY <1>10 DEF WritePacket, out
  <2> QED BY <2>1, <2>2, <2>7, <2>8, <2>9 DEF InHand
<1>11. CASE Spill
  <2>1. /\ Current' = Current /\ OutputPath(Current)' = OutputPath(Current) /\ put' = put
        /\ pc = "write" /\ pc' = "write" /\ records' <= size'[Current] /\ buffered' = <<>>
    BY <1>11 DEF Spill, Current, OutputPath, InHand
  <2>2. Pending' = Pending
    BY <1>11, <2>1, PacketsKept DEF Spill, Pending, Current
  <2>3. outputs'[OutputPath(Current)] = outputs[OutputPath(Current)] \o buffered
    BY <1>11, <2>1, InHandFacts DEF Spill, TypeOK, Outs
  <2>4. outputs'[OutputPath(Current)] \o <<>> = outputs'[OutputPath(Current)]
    BY <2>1, <2>3, InHandFacts, Joined, ConcatEmptySeq
  <2>5. outputs'[OutputPath(Current)] \o <<>> = SubSeq(Pending, 1, put)
    BY <2>1, <2>3, <2>4, InHandFacts
  <2>6. put <= Len(Pending)
    BY <2>1 DEF InHand
  <2> QED BY <2>1, <2>2, <2>5, <2>6 DEF InHand
<1>12. CASE Close
  BY <1>12, NotInHand DEF Close, NextFile
<1>13. CASE CloseFails
  BY <1>13, NotInHand DEF CloseFails, NextFile
<1>14. CASE WriteCutShort
  BY <1>14, NotInHand DEF WriteCutShort, End
<1>15. CASE Done
  BY <1>15, NotInHand DEF Done, End
<1>16. CASE UNCHANGED vars
  BY <1>16, <1>0, InHandSame DEF vars
<1> QED BY <1>1, <1>2, <1>3, <1>4, <1>5, <1>6, <1>7, <1>8, <1>9, <1>10, <1>11, <1>12,
           <1>13, <1>14, <1>15, <1>16 DEF Next

-----------------------------------------------------------------------------
(* What every output holds.                                                *)

LEMMA GrowKeeps ==
  ASSUME TypeOK, Grow
  PROVE  /\ \A n \in SegNos : size[n] <= size'[n]
         /\ \A n \in SegNos : Sealed(n) => size'[n] = size[n]
<1>1. Max(allocated) \in allocated /\ \A a \in allocated : a <= Max(allocated)
  BY MaxIs, Numbers DEF Grow, TypeOK, SegNos
<1> SUFFICES ASSUME NEW n \in SegNos
             PROVE  size[n] <= size'[n] /\ (Sealed(n) => size'[n] = size[n])
  OBVIOUS
<1>2. size[n] \in Nat /\ size[Max(allocated)] \in Nat
  <2>1. Max(allocated) \in SegNos
    BY <1>1 DEF TypeOK
  <2>2. \A k \in 0 .. MaxRecords : k \in Nat
    BY Numbers
  <2>3. size \in [SegNos -> 0 .. MaxRecords]
    BY DEF TypeOK
  <2> QED BY <2>1, <2>2, <2>3
<1>3. size'[n] = IF n = Max(allocated) THEN size[n] + 1 ELSE size[n]
  BY DEF Grow, TypeOK
<1>4. size[n] <= size'[n]
  BY <1>2, <1>3
<1>5. ASSUME Sealed(n) PROVE n # Max(allocated)
  <2>1. PICK m \in allocated : n < m
    BY <1>5 DEF Sealed
  <2>2. m <= Max(allocated) /\ m \in Int /\ Max(allocated) \in Int /\ n \in Int
    <3>1. m \in SegNos /\ Max(allocated) \in SegNos /\ n \in SegNos
      BY <1>1 DEF TypeOK
    <3>2. SegNos \subseteq Int
      BY Numbers
    <3> QED BY <1>1, <3>1, <3>2
  <2> QED BY <2>1, <2>2
<1> QED BY <1>3, <1>4, <1>5

\* Outputs that are left alone stay beginnings of segments that only grow.
LEMMA WholeOrCutSame ==
  ASSUME TypeOK, TypeOK', WholeOrCut, outputs' = outputs, filter' = filter,
         \A n \in SegNos : size[n] <= size'[n]
  PROVE  WholeOrCut'
<1> SUFFICES ASSUME NEW o \in Outs
             PROVE  \E n \in SegNos : /\ o # Common => n = o
                                      /\ Beginning(outputs[o], Packets(n, size'[n]))
  BY PacketsKept DEF WholeOrCut
<1>1. PICK n \in SegNos : (o # Common => n = o) /\ Beginning(outputs[o], Packets(n, size[n]))
  BY DEF WholeOrCut
<1>2. size[n] \in 0 .. MaxRecords /\ size'[n] \in size[n] .. MaxRecords
  <2>1. size[n] \in 0 .. MaxRecords /\ size'[n] \in 0 .. MaxRecords /\ size[n] <= size'[n]
    BY DEF TypeOK
  <2> QED BY <2>1, Numbers
<1>3. Beginning(Packets(n, size[n]), Packets(n, size'[n]))
  BY <1>2, PacketsGrow
<1>4. size'[n] \in 0 .. MaxRecords
  BY <1>2, Numbers
<1>5. /\ outputs[o] \in Seq(Cells)
      /\ Packets(n, size[n]) \in Seq(Cells) /\ Packets(n, size'[n]) \in Seq(Cells)
  BY <1>2, <1>4, PacketsType DEF TypeOK, Cells, Outs
<1> QED BY <1>1, <1>3, <1>5, BeginningTransitive

\* An output that is written is of the segment in hand.
LEMMA WholeOrCutPut ==
  ASSUME TypeOK, WholeOrCut, todo # <<>>, NEW e,
         outputs' = [outputs EXCEPT ![OutputPath(Current)] = e],
         Beginning(e, Packets(Current, size[Current])),
         filter' = filter, size' = size
  PROVE  WholeOrCut'
<1> SUFFICES ASSUME NEW o \in Outs
             PROVE  \E n \in SegNos : /\ o # Common => n = o
                                      /\ Beginning(outputs'[o], Packets(n, size[n]))
  BY PacketsKept DEF WholeOrCut
<1>1. Current \in SegNos /\ OutputPath(Current) \in Outs
  BY CurrentIs
<1>2. CASE o = OutputPath(Current)
  <2>1. outputs'[o] = e
    BY <1>2 DEF TypeOK, Outs
  <2>2. o # Common => Current = o
    BY <1>2 DEF OutputPath
  <2> QED BY <1>1, <2>1, <2>2
<1>3. CASE o # OutputPath(Current)
  <2>1. outputs'[o] = outputs[o]
    BY <1>3 DEF TypeOK, Outs
  <2> QED BY <2>1 DEF WholeOrCut
<1> QED BY <1>2, <1>3

LEMMA Parted ==
  ASSUME NEW s \in Seq(Cells), NEW k \in 0 .. Len(s)
  PROVE  /\ SubSeq(s, 1, k) \in Seq(Cells) /\ SubSeq(s, k + 1, Len(s)) \in Seq(Cells)
         /\ SubSeq(s, 1, k) \o SubSeq(s, k + 1, Len(s)) = s
<1>1. Len(s) \in Nat
  BY LenProperties
<1>2. SubSeq(s, k + 1, Len(s)) \in Seq(Cells)
  <2>1. \A i \in k + 1 .. Len(s) : s[i] \in Cells
    BY <1>1, ElementOfSeq
  <2>2. k + 1 \in Int /\ Len(s) \in Int
    BY <1>1
  <2> QED BY <2>1, <2>2, SubSeqProperties
<1>3. 1 \in 1 .. Len(s) + 1 /\ k \in 1 - 1 .. Len(s) /\ Len(s) \in k .. Len(s)
  BY <1>1
<1>4. SubSeq(s, 1, k) \o SubSeq(s, k + 1, Len(s)) = SubSeq(s, 1, Len(s))
  BY <1>3, ConcatAdjacentSubSeq
<1> QED BY <1>2, <1>4, PartOf, SubSeqFull

\* However much of the buffer reaches the disk, the output stays a beginning.
LEMMA FlushedIsBeginning ==
  ASSUME TypeOK, InHand, pc = "write", NEW k \in 0 .. Len(buffered)
  PROVE  Beginning(outputs[OutputPath(Current)] \o SubSeq(buffered, 1, k),
                   Packets(Current, size[Current]))
<1> DEFINE out   == outputs[OutputPath(Current)]
           first == SubSeq(buffered, 1, k)
           rest  == SubSeq(buffered, k + 1, Len(buffered))
           left  == SubSeq(Pending, put + 1, Len(Pending))
<1>1. /\ out \in Seq(Cells) /\ buffered \in Seq(Cells) /\ Pending \in Seq(Cells)
      /\ out \o buffered = SubSeq(Pending, 1, put) /\ put \in 0 .. Len(Pending)
  BY InHandFacts
<1>2. first \in Seq(Cells) /\ rest \in Seq(Cells) /\ first \o rest = buffered
  BY <1>1, Parted
<1>3. left \in Seq(Cells) /\ SubSeq(Pending, 1, put) \o left = Pending
  BY <1>1, Parted
<1> HIDE DEF out, first, rest, left
<1>4. (out \o first) \o rest = SubSeq(Pending, 1, put)
  BY <1>1, <1>2, Associative
<1>5. out \o first \in Seq(Cells) /\ SubSeq(Pending, 1, put) \in Seq(Cells)
  BY <1>1, <1>2, Joined, PartOf
<1>6. Beginning(out \o first, SubSeq(Pending, 1, put))
  BY <1>2, <1>4 DEF Beginning
<1>7. Beginning(SubSeq(Pending, 1, put), Pending)
  BY <1>3 DEF Beginning
<1>8. Beginning(out \o first, Pending)
  BY <1>1, <1>5, <1>6, <1>7, BeginningTransitive
<1>9. /\ Current \in SegNos /\ records \in 0 .. MaxRecords
      /\ size[Current] \in records .. MaxRecords /\ size[Current] \in 0 .. MaxRecords
  BY InHandFacts DEF TypeOK
<1>10. Beginning(Pending, Packets(Current, size[Current]))
  BY <1>9, PacketsGrow DEF Pending
<1>11. Packets(Current, size[Current]) \in Seq(Cells)
  BY <1>9, PacketsType
<1>12. Beginning(out \o first, Packets(Current, size[Current]))
  BY <1>1, <1>5, <1>8, <1>10, <1>11, BeginningTransitive
<1> QED BY <1>12 DEF out, first

LEMMA WholeOrCutInit == Init => WholeOrCut
<1> SUFFICES ASSUME Init, NEW o \in Outs
             PROVE  \E n \in SegNos : /\ o # Common => n = o
                                      /\ Beginning(outputs[o], Packets(n, size[n]))
  BY DEF WholeOrCut
<1>1. PICK n \in SegNos : o # Common => n = o
  BY Numbers DEF Outs
<1>2. outputs[o] = <<>> /\ size[n] \in 0 .. MaxRecords
  BY Numbers DEF Init, Outs
<1> QED BY <1>1, <1>2, PacketsType, BeginningSelf

LEMMA WholeOrCutNext ==
  TypeOK /\ TypeOK' /\ InHand /\ WholeOrCut /\ [Next]_vars => WholeOrCut'
<1> SUFFICES ASSUME TypeOK, TypeOK', InHand, WholeOrCut, [Next]_vars PROVE WholeOrCut'
  OBVIOUS
<1> USE DEF dirVars, optVars, runVars
<1>0. ASSUME size' = size PROVE \A n \in SegNos : size[n] <= size'[n]
  BY <1>0, Numbers DEF TypeOK
<1>1. CASE \/ Rotate \/ Evict \/ InvokeDir \/ List \/ InvokeFile \/ Read
           \/ FailsEarly \/ WritePacket \/ Done \/ UNCHANGED vars
  <2>1. UNCHANGED <<outputs, filter, size>>
    BY <1>1 DEF Rotate, Evict, InvokeDir, List, InvokeFile, Read, FailsEarly, WritePacket,
                Done, vars
  <2> QED BY <2>1, <1>0, WholeOrCutSame
<1>2. CASE Grow
  BY <1>2, GrowKeeps, WholeOrCutSame DEF Grow
<1>3. CASE Create
  <2>1. todo # <<>> /\ filter' = filter /\ size' = size
        /\ outputs' = [outputs EXCEPT ![OutputPath(Current)] = <<>>]
    BY <1>3 DEF Create, TypeOK
  <2>2. size[Current] \in 0 .. MaxRecords /\ Current \in SegNos
    BY <2>1, CurrentIs DEF TypeOK
  <2>3. Beginning(<<>>, Packets(Current, size[Current]))
    BY <2>2, PacketsType, BeginningSelf
  <2> QED BY <2>1, <2>3, WholeOrCutPut
<1>4. CASE Spill \/ Close
  <2>1. /\ pc = "write" /\ filter' = filter /\ size' = size
        /\ outputs' = [outputs EXCEPT ![OutputPath(Current)] = @ \o buffered]
    BY <1>4 DEF Spill, Close
  <2>2. /\ Len(buffered) \in 0 .. Len(buffered) /\ SubSeq(buffered, 1, Len(buffered)) = buffered
        /\ todo # <<>>
    BY <2>1, InHandFacts, LenProperties, SubSeqFull
  <2>3. Beginning(outputs[OutputPath(Current)] \o buffered, Packets(Current, size[Current]))
    BY <2>1, <2>2, FlushedIsBeginning
  <2> QED BY <2>1, <2>2, <2>3, WholeOrCutPut
<1>5. CASE CloseFails \/ WriteCutShort
  <2>1. pc = "write" /\ filter' = filter /\ size' = size
    BY <1>5 DEF CloseFails, WriteCutShort
  <2>2. Len(buffered) \in Nat /\ todo # <<>>
    BY <2>1, InHandFacts, LenProperties
  <2>3. PICK k \in 0 .. Len(buffered) :
          outputs' = [outputs EXCEPT ![OutputPath(Current)] = @ \o SubSeq(buffered, 1, k)]
    <3>1. FlushPart(Len(buffered)) \/ FlushPart(Len(buffered) - 1)
      BY <1>5 DEF CloseFails, WriteCutShort
    <3>2. 0 .. Len(buffered) - 1 \subseteq 0 .. Len(buffered)
      BY <2>2
    <3> QED BY <3>1, <3>2 DEF FlushPart
  <2> QED BY <2>1, <2>2, <2>3, FlushedIsBeginning, WholeOrCutPut
<1> QED BY <1>1, <1>2, <1>3, <1>4, <1>5 DEF Next

-----------------------------------------------------------------------------
(* What is promised about single segments.                                 *)

\* -o apart, making one output leaves those of the other segments alone.
LEMMA OthersKept ==
  ASSUME TypeOK, todo # <<>>, form # "output", NEW e,
         outputs' = [outputs EXCEPT ![OutputPath(Current)] = e],
         NEW n \in SegNos, n # Current
  PROVE  outputs'[n] = outputs[n]
<1>1. OutputPath(Current) # n
  BY DEF OutputPath
<1> QED BY <1>1, Numbers DEF TypeOK, Outs

LEMMA InTodo ==
  ASSUME TypeOK, todo # <<>>
  PROVE  /\ Current \in Range(todo)
         /\ \A n \in Range(todo) : n = Current \/ n \in Range(Tail(todo))
<1>1. Len(todo) \in Nat /\ Len(todo) >= 1 /\ DOMAIN todo = 1 .. Len(todo) /\ todo[1] = Head(todo)
  BY LenProperties, EmptySeq DEF TypeOK
<1>2. Current \in Range(todo)
  BY <1>1 DEF Current, Range
<1>3. ASSUME NEW n \in Range(todo), n # Current PROVE n \in Range(Tail(todo))
  <2>1. PICK i \in 1 .. Len(todo) : n = todo[i]
    BY <1>1 DEF Range
  <2>2. i # 1
    BY <1>1, <1>3, <2>1 DEF Current
  <2>3. /\ Tail(todo) \in Seq(SegNos) /\ Len(Tail(todo)) = Len(todo) - 1
        /\ \A j \in 1 .. Len(Tail(todo)) : Tail(todo)[j] = todo[j + 1]
    BY HeadTailProperties DEF TypeOK
  <2>4. i - 1 \in 1 .. Len(Tail(todo)) /\ (i - 1) + 1 = i
    BY <1>1, <2>2, <2>3
  <2>5. Tail(todo)[i - 1] = n
    BY <2>1, <2>3, <2>4
  <2>6. i - 1 \in DOMAIN Tail(todo)
    BY <2>3, <2>4, LenProperties
  <2> QED BY <2>5, <2>6 DEF Range
<1> QED BY <1>2, <1>3

LEMMA PromisedType ==
  ASSUME TypeOK PROVE finished \subseteq SegNos /\ due \subseteq SegNos /\ Promised \subseteq SegNos
BY DEF TypeOK, Promised

\* Steps of the directory.  A new number seals what was open, and what is
\* sealed has its size.
LEMMA PromisesQuiet ==
  ASSUME TypeOK, Promises, UNCHANGED <<optVars, pc, todo, records, outputs, due, unnoticed, finished>>,
         allocated \subseteq allocated',
         \A n \in SegNos : Sealed(n) => size'[n] = size[n]
  PROVE  Promises'
<1> USE DEF optVars
<1>1. Promised' = Promised /\ Current' = Current
  BY DEF Promised, Current
<1>2. \A n \in Promised : Sealed(n) /\ Sealed(n)'
  BY DEF Promises, Sealed
<1>3. \A n \in Promised : size'[n] = size[n] /\ Packets(n, size[n])' = Packets(n, size[n])
  BY <1>2, PromisedType, PacketsKept
<1>4. Current \in Promised => size'[Current] = size[Current]
  BY <1>3
<1>5. \A n \in finished \cup due : Packets(n, size[n])' = Packets(n, size[n])
  BY <1>3 DEF Promised
<1> QED BY <1>1, <1>2, <1>4, <1>5 DEF Promises

LEMMA PromisesInit == Init => Promises
BY DEF Init, Promises, Promised

LEMMA PromisesNext ==
  TypeOK /\ TypeOK' /\ InHand /\ Promises /\ [Next]_vars => Promises'
<1> SUFFICES ASSUME TypeOK, TypeOK', InHand, Promises, [Next]_vars PROVE Promises'
  OBVIOUS
<1> USE DEF dirVars, optVars, runVars
<1>0. ASSUME size' = size, filter' = filter
      PROVE  \A n : Packets(n, size[n])' = Packets(n, size[n])
  BY <1>0, PacketsKept
<1>1. CASE Rotate
  BY <1>1, PromisesQuiet DEF Rotate, Store!Allocate
<1>2. CASE Evict
  BY <1>2, PromisesQuiet DEF Evict, Store!Discard
<1>3. CASE Grow
  BY <1>3, GrowKeeps, PromisesQuiet DEF Grow
<1>4. CASE InvokeDir
  BY <1>4, <1>0 DEF InvokeDir, AtPrompt, Promises, Promised, Sealed
<1>5. CASE List
  <2>1. PICK S \in SUBSET SegNos : todo' \in Ascending(S) /\ began \cap segs \subseteq S
    BY <1>5 DEF List, TypeOK
  <2>2. due' \subseteq Range(todo') /\ \A n \in due' : Sealed(n)'
    BY <1>5, <2>1, AscendingType DEF List, Sealed
  <2> QED BY <1>5, <1>0, <2>2 DEF List, Promises, Promised, Sealed
<1>6. CASE InvokeFile
  BY <1>6, <1>0 DEF InvokeFile, AtPrompt, Promises, Promised, Sealed
<1>7. CASE Read
  BY <1>7, <1>0 DEF Read, Promises, Promised, Sealed, Current
<1>8. CASE FailsEarly
  BY <1>8, <1>0 DEF FailsEarly, End, Promises, Promised, Sealed
<1>9. CASE Create
  <2>1. todo # <<>> /\ outputs' = [outputs EXCEPT ![OutputPath(Current)] = <<>>]
    BY <1>9 DEF Create, TypeOK
  <2>2. \A n \in SegNos : form # "output" /\ n # Current => outputs'[n] = outputs[n]
    BY <2>1, OthersKept
  <2>3. Current' = Current /\ Promised' = Promised /\ \A n : Sealed(n)' = Sealed(n)
    BY <1>9 DEF Create, Current, Promised, Sealed
  <2>4. \A n \in finished :
          outputs'[n] = Packets(n, size[n])' \/ (pc' = "write" /\ Current' = n)
    BY <1>9, <1>0, <2>2, <2>3, PromisedType DEF Create, Promises
  <2>5. ~ unnoticed /\ form # "output" =>
          \A n \in due : n \in Range(todo) \/ outputs'[n] = Packets(n, size[n])'
    BY <1>9, <1>0, <2>1, <2>2, PromisedType, InTodo DEF Create, Promises
  <2> QED BY <1>9, <2>3, <2>4, <2>5 DEF Create, Promises
<1>10. CASE WritePacket
  <2>1. Current' = Current /\ Promised' = Promised /\ \A n : Sealed(n)' = Sealed(n)
    BY <1>10 DEF WritePacket, Current, Promised, Sealed
  <2> QED BY <1>10, <1>0, <2>1 DEF WritePacket, Promises
<1>11. CASE Spill
  <2>1. todo # <<>> /\ outputs' = [outputs EXCEPT ![OutputPath(Current)] = @ \o buffered]
    BY <1>11 DEF Spill, TypeOK
  <2>2. \A n \in SegNos : form # "output" /\ n # Current => outputs'[n] = outputs[n]
    BY <2>1, OthersKept
  <2>3. Current' = Current /\ Promised' = Promised /\ \A n : Sealed(n)' = Sealed(n)
    BY <1>11 DEF Spill, Current, Promised, Sealed
  <2>4. \A n \in finished :
          outputs'[n] = Packets(n, size[n])' \/ (pc' = "write" /\ Current' = n)
    BY <1>11, <1>0, <2>2, <2>3, PromisedType DEF Spill, Promises
  <2>5. ~ unnoticed /\ form # "output" =>
          \A n \in due : n \in Range(todo) \/ outputs'[n] = Packets(n, size[n])'
    BY <1>11, <1>0, <2>1, <2>2, PromisedType, InTodo DEF Spill, Promises
  <2> QED BY <1>11, <2>3, <2>4, <2>5 DEF Spill, Promises
<1>12. CASE Close
  <2>1. /\ todo # <<>> /\ outputs' = [outputs EXCEPT ![OutputPath(Current)] = @ \o buffered]
        /\ pc = "write" /\ pc' = "next" /\ todo' = Tail(todo) /\ put = Len(Pending)
    BY <1>12 DEF Close, NextFile, TypeOK
  <2>2. \A n \in SegNos : form # "output" /\ n # Current => outputs'[n] = outputs[n]
    BY <2>1, OthersKept
  <2>3. /\ UNCHANGED <<due, unnoticed, form>> /\ \A n : Sealed(n)' = Sealed(n)
        /\ \A n : Packets(n, size[n])' = Packets(n, size[n])
    BY <1>12, <1>0 DEF Close, Sealed
  <2>4. finished' \subseteq finished \cup {Current}
    BY <1>12 DEF Close
  <2>5. Current \in finished' => /\ form # "output" /\ Sealed(Current)
                                 /\ records = size[Current]
    BY <1>12, <2>1 DEF Close, Promises, Promised
  <2>6. form # "output" => outputs'[Current] = Packets(Current, records)
    <3>1. outputs[OutputPath(Current)] \o buffered = Pending
      BY <2>1, InHandFacts, SubSeqFull
    <3>2. form # "output" => OutputPath(Current) = Current
      BY DEF OutputPath
    <3> QED BY <2>1, <3>1, <3>2, InHandFacts DEF TypeOK, Outs, Pending
  <2>7. \A n \in finished' : outputs'[n] = Packets(n, size[n])'
    <3> SUFFICES ASSUME NEW n \in finished' PROVE outputs'[n] = Packets(n, size[n])
      BY <2>3
    <3>1. CASE n = Current
      BY <2>5, <2>6, <3>1
    <3>2. CASE n # Current
      BY <2>2, <2>4, <3>2, PromisedType DEF Promises
    <3> QED BY <3>1, <3>2
  <2>8. ~ unnoticed /\ form # "output" =>
          \A n \in due : n \in Range(Tail(todo)) \/ outputs'[n] = Packets(n, size[n])'
    <3> SUFFICES ASSUME ~ unnoticed, form # "output", NEW n \in due, n \notin Range(Tail(todo))
                 PROVE  outputs'[n] = Packets(n, size[n])
      BY <2>3
    <3>1. CASE n = Current
      <4>1. records = size[Current]
        BY <2>1, <3>1 DEF Promises, Promised
      <4> QED BY <2>6, <3>1, <4>1
    <3>2. CASE n # Current
      <4>1. n \notin Range(todo)
        BY <2>1, <3>2, InTodo
      <4>2. outputs[n] = Packets(n, size[n])
        BY <2>1, <4>1 DEF Promises
      <4> QED BY <2>2, <3>2, <4>2, PromisedType
    <3> QED BY <3>1, <3>2
  <2>9. \A n \in Promised' : Sealed(n)'
    BY <2>3, <2>4, <2>5 DEF Promised, Promises
  <2>10. finished' # {} => form' # "output"
    BY <2>3, <2>4, <2>5 DEF Promises
  <2> QED BY <2>1, <2>3, <2>7, <2>8, <2>9, <2>10 DEF Promises
<1>13. CASE CloseFails \/ WriteCutShort
  <2>1. /\ todo # <<>> /\ pc = "write" /\ finished' = finished \ {Current}
        /\ UNCHANGED <<due, form, filter, size, allocated>>
        /\ pc' = "failed" \/ (pc' = "next" /\ unnoticed')
    BY <1>13 DEF CloseFails, WriteCutShort, NextFile, End, TypeOK
  <2>2. \E e : outputs' = [outputs EXCEPT ![OutputPath(Current)] = e]
    BY <1>13 DEF CloseFails, WriteCutShort, FlushPart
  <2>3. \A n \in SegNos : form # "output" /\ n # Current => outputs'[n] = outputs[n]
    BY <2>1, <2>2, OthersKept
  <2>4. \A n \in finished' : outputs'[n] = Packets(n, size[n])'
    BY <1>0, <2>1, <2>3, PromisedType DEF Promises
  <2>5. \A n \in Promised' : Sealed(n)'
    BY <2>1 DEF Promised, Promises, Sealed
  <2>6. finished' # {} => form' # "output"
    BY <2>1 DEF Promises
  <2> QED BY <2>1, <2>4, <2>5, <2>6 DEF Promises
<1>15. CASE Done
  <2>1. todo = <<>> /\ todo' = <<>> /\ pc = "next" /\ pc' = "ok"
    BY <1>15 DEF Done, End
  <2>2. UNCHANGED <<due, form, filter, size, allocated, outputs, unnoticed, finished>>
    BY <1>15 DEF Done
  <2> QED BY <1>0, <2>1, <2>2 DEF Promises, Promised, Sealed
<1>16. CASE UNCHANGED vars
  BY <1>16, PromisesQuiet DEF vars
<1> QED BY <1>1, <1>2, <1>3, <1>4, <1>5, <1>6, <1>7, <1>8, <1>9, <1>10, <1>11, <1>12,
           <1>13, <1>15, <1>16 DEF Next

-----------------------------------------------------------------------------
IInv == TypeOK /\ InHand /\ WholeOrCut /\ Promises

LEMMA IInvKept == Spec => []IInv
<1>1. Init => IInv
  BY TypeInit, InHandInit, WholeOrCutInit, PromisesInit DEF IInv
<1>2. IInv /\ [Next]_vars => IInv'
  BY TypeNext, InHandNext, WholeOrCutNext, PromisesNext DEF IInv
<1> QED BY <1>1, <1>2, PTL DEF Spec

LEMMA BeginningIsPrefix ==
  ASSUME NEW s \in Seq(Cells), NEW t \in Seq(Cells), Beginning(s, t)
  PROVE  IsPrefix(s, t)
<1>1. PICK u \in Seq(Cells) : s \o u = t
  BY DEF Beginning
<1>2. Len(s) \in Nat /\ Len(u) \in Nat /\ Len(t) = Len(s) + Len(u)
  BY <1>1, LenProperties, ConcatProperties
<1>3. SubSeq(s, 1, Len(s)) = SubSeq(t, 1, Len(s))
  <2>1. CASE Len(s) = 0
    BY <2>1, SubSeqEmpty
  <2>2. CASE Len(s) # 0
    BY <1>1, <1>2, <2>2, SubSeqOfConcat1
  <2> QED BY <2>1, <2>2
<1> QED BY <1>2, <1>3 DEF IsPrefix

\* Sov2Pcap.OutputsArePrefixes: whatever convert_file leaves behind when it is
\* killed, refused or overtaken by the probe, an output is a beginning of the
\* packets of one segment, the one it is named after if it is.
THEOREM OutputsBegin == Spec => []OutputsArePrefixes
<1>1. ASSUME TypeOK, WholeOrCut PROVE OutputsArePrefixes
  <2>1. DOMAIN outputs = Outs
    BY <1>1 DEF TypeOK, Outs
  <2> SUFFICES ASSUME NEW o \in Outs
               PROVE  \E n \in SegNos : /\ o # Common => n = o
                                        /\ IsPrefix(outputs[o], Packets(n, size[n]))
    BY <2>1 DEF OutputsArePrefixes
  <2>2. PICK n \in SegNos : (o # Common => n = o) /\ Beginning(outputs[o], Packets(n, size[n]))
    BY <1>1 DEF WholeOrCut
  <2>3. outputs[o] \in Seq(Cells) /\ size[n] \in 0 .. MaxRecords
    BY <1>1 DEF TypeOK, Outs, Cells
  <2> QED BY <2>2, <2>3, PacketsType, BeginningIsPrefix
<1> QED BY <1>1, IInvKept, PTL DEF IInv

\* Sov2Pcap.FinishedOutputsSurvive: an output that was once complete is only
\* given up by File::create when the segment is read again, whole, first.
THEOREM FinishedSurvive == Spec => []FinishedOutputsSurvive
<1>1. Promises => FinishedOutputsSurvive
  BY DEF Promises, FinishedOutputsSurvive
<1> QED BY <1>1, IInvKept, PTL DEF IInv

\* Sov2Pcap.OkMeansAllConverted: where main returns Ok, each sealed segment
\* that was in the directory all through read_dir has its whole output.
THEOREM OkMeansAll == Spec => []OkMeansAllConverted
<1>1. ASSUME InHand, Promises PROVE OkMeansAllConverted
  <2>1. pc = "ok" => todo = <<>>
    BY <1>1 DEF InHand
  <2>2. Range(<<>>) = {}
    BY EmptySeq DEF Range
  <2> QED BY <1>1, <2>1, <2>2 DEF Promises, OkMeansAllConverted
<1> QED BY <1>1, IInvKept, PTL DEF IInv

=============================================================================
