---------------------------- MODULE ProbeProofs ----------------------------
(***************************************************************************)
(* Proofs about module Probe, for every capacity, watermark, threshold and *)
(* set of readings, and any number of frames.                              *)
(***************************************************************************)
EXTENDS Probe, SequenceTheorems, FiniteSetTheorems, TLAPS

-----------------------------------------------------------------------------
LEMMA HeadTail ==
  ASSUME NEW S, NEW s \in Seq(S), s # <<>>
  PROVE  /\ Head(s) \in S
         /\ Tail(s) \in Seq(S)
         /\ Len(Tail(s)) = Len(s) - 1
         /\ \A i \in DOMAIN Tail(s) : i + 1 \in DOMAIN s /\ Tail(s)[i] = s[i + 1]
         /\ 1 \in DOMAIN s /\ Head(s) = s[1]
OBVIOUS

LEMMA Appended ==
  ASSUME NEW S, NEW s \in Seq(S), NEW x \in S
  PROVE  /\ Append(s, x) \in Seq(S)
         /\ Len(Append(s, x)) = Len(s) + 1
         /\ \A i \in DOMAIN Append(s, x) :
              \/ i \in DOMAIN s /\ Append(s, x)[i] = s[i]
              \/ i = Len(s) + 1 /\ Append(s, x)[i] = x
OBVIOUS

LEMMA InitType == Init => TypeOK
<1> SUFFICES ASSUME Init PROVE TypeOK
  OBVIOUS
<1>1. /\ seen \in 0 .. MaxFrames /\ wr_fill \in 0 .. QueueCapacity /\ late \in Nat
      /\ 0 <= RingCapacity /\ 0 <= QueueCapacity
  BY ProbeAssumption DEF Init
<1>2. /\ ring = <<>> /\ queue = <<>> /\ wal = <<>>
      /\ ring \in Seq(Frames) /\ Len(ring) = 0
  BY DEF Init
<1>3. lost \in [Places -> SUBSET Frames]
  BY DEF Init
<1> QED BY <1>1, <1>2, <1>3 DEF Init, TypeOK, NoRecord

LEMMA KernelType ==
  ASSUME TypeOK, Kernel
  PROVE  TypeOK'
<1> USE ProbeAssumption
<1>1. seen < MaxFrames => seen + 1 \in Frames /\ seen + 1 \in 0 .. MaxFrames
  BY DEF TypeOK, Frames
<1>2. CASE RingSubmit
  <2>1. /\ Append(ring, seen + 1) \in Seq(Frames)
        /\ Len(Append(ring, seen + 1)) = Len(ring) + 1
        /\ Append(ring, seen + 1) # <<>>
    <3>1. ring \in Seq(Frames) /\ seen + 1 \in Frames
      BY <1>1, <1>2 DEF RingSubmit, TypeOK
    <3> QED BY <3>1, AppendProperties
  <2>2. Len(ring) + 1 <= RingCapacity
    BY <1>2 DEF RingSubmit, TypeOK
  <2> QED BY <1>1, <1>2, <2>1, <2>2 DEF RingSubmit, TypeOK, writerVars, samplerVars
<1>3. CASE RingDiscard \/ RingFull
  <2>1. lost' \in [Places -> SUBSET Frames]
    BY <1>1, <1>3 DEF RingDiscard, RingFull, GiveUp, TypeOK
  <2> QED BY <1>1, <1>3, <2>1 DEF RingDiscard, RingFull, TypeOK, writerVars, samplerVars
<1> QED BY <1>2, <1>3 DEF Kernel

LEMMA CaptureType ==
  ASSUME TypeOK, CaptureStep \/ CapturePollError
  PROVE  TypeOK'
<1> USE ProbeAssumption DEF TypeOK, kernelVars, writerVars, samplerVars
<1>1. CASE CapturePoll \/ CapturePollError \/ CaptureNext \/ CapturePass \/ SliceRecord
  <2>1. CASE CapturePoll
    BY <2>1 DEF CapturePoll
  <2>2. CASE CapturePollError
    BY <2>2 DEF CapturePollError
  <2>3. CASE CaptureNext
    BY <2>3 DEF CaptureNext
  <2>4. CASE CapturePass
    BY <2>4 DEF CapturePass
  <2>5. CASE SliceRecord
    BY <2>5 DEF SliceRecord
  <2> QED BY <1>1, <2>1, <2>2, <2>3, <2>4, <2>5
<1>2. CASE CaptureDrop \/ SliceReject \/ CaptureSend
  <2>1. /\ Head(ring) \in Frames
        /\ Tail(ring) \in Seq(Frames) /\ Len(Tail(ring)) <= RingCapacity
    BY <1>2, HeadTail DEF CaptureDrop, SliceReject, CaptureSend
  <2>2. CASE CaptureDrop
    BY <2>1, <2>2 DEF CaptureDrop, GiveUp
  <2>4. CASE SliceReject
    BY <2>1, <2>4 DEF SliceReject, GiveUp
  <2>3. CASE CaptureSend
    <3>1. /\ Append(queue, Head(ring)) \in Seq(Frames)
          /\ Len(Append(queue, Head(ring))) <= QueueCapacity
      BY <2>1, <2>3, Appended DEF CaptureSend
    <3> QED BY <2>1, <2>3, <3>1 DEF CaptureSend
  <2> QED BY <1>2, <2>2, <2>3, <2>4
<1> QED BY <1>1, <1>2 DEF CaptureStep

LEMMA WriterType ==
  ASSUME TypeOK, WriterStep \/ WriterFail
  PROVE  TypeOK'
<1> USE ProbeAssumption DEF TypeOK, kernelVars, writerVars, samplerVars
<1>1. CASE WriterOpen \/ CheckLen \/ WriterTimeout \/ WriterDisconnected
           \/ HandleAccept \/ MaybeRotate
  <2>1. CASE WriterOpen \/ CheckLen
    BY <2>1 DEF WriterOpen, CheckLen
  <2>2. CASE WriterTimeout \/ WriterDisconnected
    BY <2>2 DEF WriterTimeout, WriterDisconnected
  <2>3. CASE HandleAccept \/ MaybeRotate
    BY <2>3 DEF HandleAccept, MaybeRotate
  <2> QED BY <1>1, <2>1, <2>2, <2>3
<1>2. CASE CheckStore
  <2>1. /\ degraded' \in BOOLEAN /\ late' \in Nat
        /\ wr_pc' \in {"panicked", "recv"}
        /\ cap_pc' \in {cap_pc, "exited"} /\ smp_pc' \in {smp_pc, "exited"}
    <3>1. CASE QueueCapacity = 0
      BY <1>2, <3>1 DEF CheckStore
    <3>2. CASE QueueCapacity # 0
      <4>1. \/ SetDegraded(TRUE) \/ SetDegraded(FALSE) \/ UNCHANGED <<degraded, late>>
        BY <1>2, <3>2 DEF CheckStore
      <4>2. degraded' \in BOOLEAN /\ late' \in Nat
        <5>1. CASE SetDegraded(TRUE)
          BY <5>1 DEF SetDegraded
        <5>2. CASE SetDegraded(FALSE)
          BY <5>2 DEF SetDegraded
        <5>3. CASE UNCHANGED <<degraded, late>>
          BY <5>3
        <5> QED BY <4>1, <5>1, <5>2, <5>3
      <4> QED BY <1>2, <3>2, <4>2 DEF CheckStore
    <3> QED BY <3>1, <3>2
  <2> QED BY <1>2, <2>1 DEF CheckStore
<1>3. CASE WriterRecv
  <2>1. /\ Head(queue) \in Frames
        /\ Tail(queue) \in Seq(Frames) /\ Len(Tail(queue)) <= QueueCapacity
    BY <1>3, HeadTail DEF WriterRecv
  <2>2. Head(queue) # NoRecord
    BY <2>1 DEF Frames, NoRecord
  <2> QED BY <1>3, <2>1, <2>2 DEF WriterRecv
<1>4. CASE HandleDrop
  BY <1>4 DEF HandleDrop, GiveUp
<1>5. CASE WriteRecord
  <2>1. Append(wal, wr_rec) \in Seq(Frames)
    BY <1>5, Appended DEF WriteRecord
  <2> QED BY <1>5, <2>1 DEF WriteRecord
<1>6. CASE WriterFail
  BY <1>6 DEF WriterFail, GiveUp
<1> QED BY <1>1, <1>2, <1>3, <1>4, <1>5, <1>6 DEF WriterStep

LEMMA SamplerType ==
  ASSUME TypeOK, SamplerStep
  PROVE  TypeOK'
<1> USE DEF TypeOK, SetDegraded, kernelVars, writerVars
<1>1. CASE SampleRss
  BY <1>1 DEF SampleRss
<1>2. CASE SampleLoad
  BY <1>2 DEF SampleLoad
<1>3. CASE SamplerRecover
  BY <1>3 DEF SamplerRecover
<1> QED BY <1>1, <1>2, <1>3 DEF SamplerStep

LEMMA NextType == TypeOK /\ [Next]_vars => TypeOK'
<1> SUFFICES ASSUME TypeOK, [Next]_vars PROVE TypeOK'
  OBVIOUS
<1>1. CASE UNCHANGED vars
  BY <1>1 DEF vars, TypeOK
<1> QED BY <1>1, KernelType, CaptureType, WriterType, SamplerType DEF Next

\* The channel and the kernel ring never hold more than they may, every thread
\* is where its code has a step, and a record is held exactly while handled.
THEOREM TypeCorrect == Spec => []TypeOK
BY InitType, NextType, PTL DEF Spec

-----------------------------------------------------------------------------
(***************************************************************************)
(* LateIntakeBounded: a capture thread that has passed its check is the    *)
(* one frame that may still come; counted together they are at most one.   *)
(***************************************************************************)
PassedCheck == cap_pc \in {"slice", "send"}

LateInv ==
  degraded => late + (IF PassedCheck THEN 1 ELSE 0) <= 1

LEMMA NextLate ==
  ASSUME TypeOK, LateInv, ~ degraded => late = 0, [Next]_vars
  PROVE  LateInv' /\ (~ degraded => late = 0)'
<1> USE DEF LateInv, PassedCheck, TypeOK, kernelVars, writerVars, samplerVars
<1>1. CASE UNCHANGED vars
  BY <1>1 DEF vars
<1>2. CASE Kernel
  BY <1>2 DEF Kernel, RingSubmit, RingDiscard, RingFull
<1>3. CASE CaptureStep \/ CapturePollError
  BY <1>3 DEF CaptureStep, CapturePollError, CapturePoll, CaptureNext, CaptureDrop,
              CapturePass, SliceReject, SliceRecord, CaptureSend
<1>4. CASE WriterStep \/ WriterFail
  BY <1>4 DEF WriterStep, WriterFail, WriterOpen, CheckLen, CheckStore, WriterRecv,
              WriterTimeout, WriterDisconnected, HandleDrop, HandleAccept, WriteRecord,
              MaybeRotate, SetDegraded
<1>5. CASE SamplerStep
  BY <1>5 DEF SamplerStep, SampleRss, SampleLoad, SamplerRecover, SetDegraded
<1> QED BY <1>1, <1>2, <1>3, <1>4, <1>5 DEF Next

\* Whatever the three threads do with the flag: after it is set, at most one
\* more frame reaches the channel before it is cleared.
THEOREM LateIntakeIsBounded == Spec => []LateIntakeBounded
<1> DEFINE Inv == TypeOK /\ LateInv /\ (~ degraded => late = 0)
<1>1. Init => Inv
  BY InitType DEF Init, LateInv, PassedCheck
<1>2. Inv /\ [Next]_vars => Inv'
  BY NextType, NextLate
<1>3. Inv => LateIntakeBounded
  BY DEF LateInv, LateIntakeBounded, TypeOK, PassedCheck
<1> QED BY <1>1, <1>2, <1>3, PTL DEF Spec

-----------------------------------------------------------------------------
(***************************************************************************)
(* WalInOrder: the frames in the log, the writer's hand, the channel and   *)
(* the kernel ring follow one another in the order of their numbers.       *)
(***************************************************************************)
Below(s, t)   == \A i \in DOMAIN s, j \in DOMAIN t : s[i] < t[j]
AllBelow(s, x) == \A i \in DOMAIN s : s[i] < x
AllAbove(s, x) == \A i \in DOMAIN s : x < s[i]

OrderInv ==
  /\ Increasing(wal) /\ Increasing(queue) /\ Increasing(ring)
  /\ Below(wal, queue) /\ Below(wal, ring) /\ Below(queue, ring)
  /\ wr_rec # NoRecord =>
       /\ AllBelow(wal, wr_rec) /\ AllAbove(queue, wr_rec) /\ AllAbove(ring, wr_rec)
       /\ wr_rec <= seen
  /\ AllBelow(wal, seen + 1) /\ AllBelow(queue, seen + 1) /\ AllBelow(ring, seen + 1)

LEMMA IncreasingAppend ==
  ASSUME NEW s \in Seq(Nat), NEW x \in Nat, Increasing(s), AllBelow(s, x)
  PROVE  Increasing(Append(s, x))
BY DEF Increasing, AllBelow

LEMMA TakenHead ==
  ASSUME NEW s \in Seq(Nat), s # <<>>, Increasing(s)
  PROVE  /\ Increasing(Tail(s))
         /\ AllAbove(Tail(s), Head(s))
         /\ Head(s) \in Nat
         /\ \A x \in Nat : AllBelow(s, x) => AllBelow(Tail(s), x) /\ Head(s) < x
         /\ \A x \in Nat : AllAbove(s, x) => AllAbove(Tail(s), x) /\ x < Head(s)
         /\ \A t \in Seq(Nat) : Below(t, s) => Below(t, Tail(s)) /\ AllBelow(t, Head(s))
         /\ \A t \in Seq(Nat) : Below(s, t) => Below(Tail(s), t) /\ AllAbove(t, Head(s))
<1>1. /\ Head(s) \in Nat /\ Tail(s) \in Seq(Nat)
      /\ \A i \in DOMAIN Tail(s) : i + 1 \in DOMAIN s /\ Tail(s)[i] = s[i + 1]
      /\ 1 \in DOMAIN s /\ Head(s) = s[1]
  BY HeadTail
<1>2. Increasing(Tail(s))
  BY <1>1 DEF Increasing
<1>3. AllAbove(Tail(s), Head(s))
  BY <1>1 DEF Increasing, AllAbove
<1>4. \A x \in Nat : AllBelow(s, x) => AllBelow(Tail(s), x) /\ Head(s) < x
  BY <1>1 DEF AllBelow
<1>5. \A x \in Nat : AllAbove(s, x) => AllAbove(Tail(s), x) /\ x < Head(s)
  BY <1>1 DEF AllAbove
<1>6. \A t \in Seq(Nat) : Below(t, s) => Below(t, Tail(s)) /\ AllBelow(t, Head(s))
  BY <1>1 DEF Below, AllBelow
<1>7. \A t \in Seq(Nat) : Below(s, t) => Below(Tail(s), t) /\ AllAbove(t, Head(s))
  BY <1>1 DEF Below, AllAbove
<1> QED BY <1>1, <1>2, <1>3, <1>4, <1>5, <1>6, <1>7

LEMMA BelowAppend ==
  ASSUME NEW s \in Seq(Nat), NEW t \in Seq(Nat), NEW x \in Nat, Below(s, t)
  PROVE  /\ AllBelow(s, x) => Below(s, Append(t, x))
         /\ AllAbove(t, x) => Below(Append(s, x), t)
<1>1. \A i \in DOMAIN Append(s, x) : \/ i \in DOMAIN s /\ Append(s, x)[i] = s[i]
                                     \/ Append(s, x)[i] = x
  BY Appended
<1>2. \A i \in DOMAIN Append(t, x) : \/ i \in DOMAIN t /\ Append(t, x)[i] = t[i]
                                     \/ Append(t, x)[i] = x
  BY Appended
<1> QED BY <1>1, <1>2 DEF Below, AllBelow, AllAbove

LEMMA BoundAppend ==
  ASSUME NEW s \in Seq(Nat), NEW x \in Nat, NEW y \in Nat
  PROVE  /\ AllBelow(s, y) /\ x < y => AllBelow(Append(s, x), y)
         /\ AllAbove(s, y) /\ y < x => AllAbove(Append(s, x), y)
<1>1. \A i \in DOMAIN Append(s, x) : \/ i \in DOMAIN s /\ Append(s, x)[i] = s[i]
                                     \/ Append(s, x)[i] = x
  BY Appended
<1> QED BY <1>1 DEF AllBelow, AllAbove

LEMMA InitOrder == Init => OrderInv
BY DEF Init, OrderInv, Increasing, Below, AllBelow, AllAbove, NoRecord

LEMMA NextOrder ==
  ASSUME TypeOK, TypeOK', OrderInv, [Next]_vars
  PROVE  OrderInv'
<1>1. /\ wal \in Seq(Nat) /\ queue \in Seq(Nat) /\ ring \in Seq(Nat)
      /\ seen \in Nat /\ wr_rec \in Nat /\ seen + 1 \in Nat
  <2>1. Frames \subseteq Nat
    BY ProbeAssumption DEF Frames
  <2>2. ASSUME NEW s \in Seq(Frames) PROVE s \in Seq(Nat)
    BY <2>1, SeqMonotonic
  <2>3. seen \in Nat /\ wr_rec \in Nat
    BY <2>1, ProbeAssumption DEF TypeOK, NoRecord
  <2> QED BY <2>2, <2>3 DEF TypeOK
<1>2. CASE UNCHANGED <<seen, ring, queue, wr_rec, wal>>
  BY <1>2 DEF OrderInv
<1>3. CASE RingSubmit
  <2>1. /\ seen' = seen + 1 /\ ring' = Append(ring, seen + 1)
        /\ UNCHANGED <<queue, wal, wr_rec>>
    BY <1>3 DEF RingSubmit, writerVars
  <2>2. /\ Increasing(ring')
        /\ Below(wal, ring') /\ Below(queue, ring')
    BY <1>1, <2>1, IncreasingAppend, BelowAppend DEF OrderInv
  <2>3. /\ wr_rec # NoRecord => AllAbove(ring', wr_rec) /\ wr_rec <= seen'
    <3>1. wr_rec # NoRecord => wr_rec < seen + 1 /\ wr_rec <= seen + 1
      BY <1>1 DEF OrderInv
    <3> QED BY <1>1, <2>1, <3>1, BoundAppend DEF OrderInv
  <2>4. /\ AllBelow(wal, seen' + 1) /\ AllBelow(queue, seen' + 1)
    <3>1. \A s \in Seq(Nat) : AllBelow(s, seen + 1) => AllBelow(s, seen + 2)
      BY <1>1 DEF AllBelow
    <3>2. seen' + 1 = seen + 2
      BY <1>1, <2>1
    <3> QED BY <1>1, <3>1, <3>2 DEF OrderInv
  <2>5. AllBelow(ring', seen' + 1)
    <3>1. AllBelow(ring, seen + 2) /\ seen + 1 < seen + 2 /\ seen + 2 \in Nat
      BY <1>1 DEF AllBelow, OrderInv
    <3>2. seen' + 1 = seen + 2
      BY <1>1, <2>1
    <3> QED BY <1>1, <2>1, <3>1, <3>2, BoundAppend
  <2> QED BY <2>1, <2>2, <2>3, <2>4, <2>5 DEF OrderInv
<1>4. CASE RingDiscard \/ RingFull
  <2>1. seen' = seen + 1 /\ UNCHANGED <<ring, queue, wal, wr_rec>>
    BY <1>4 DEF RingDiscard, RingFull, writerVars
  <2>2. \A s \in Seq(Nat) : AllBelow(s, seen + 1) => AllBelow(s, seen' + 1)
    BY <1>1, <2>1 DEF AllBelow
  <2>3. wr_rec # NoRecord => wr_rec <= seen'
    BY <1>1, <2>1 DEF OrderInv
  <2> QED BY <1>1, <2>1, <2>2, <2>3 DEF OrderInv
<1>5. CASE CaptureDrop \/ SliceReject
  <2>1. ring # <<>> /\ ring' = Tail(ring) /\ UNCHANGED <<seen, queue, wal, wr_rec>>
    BY <1>5 DEF CaptureDrop, SliceReject, writerVars, TypeOK
  <2> QED BY <1>1, <2>1, TakenHead DEF OrderInv
<1>6. CASE CaptureSend
  <2>1. /\ ring # <<>> /\ ring' = Tail(ring) /\ queue' = Append(queue, Head(ring))
        /\ UNCHANGED <<seen, wal, wr_rec>>
    BY <1>6 DEF CaptureSend, writerVars, TypeOK
  <2>2. /\ Increasing(ring') /\ AllAbove(ring', Head(ring)) /\ Head(ring) \in Nat
        /\ ring' \in Seq(Nat)
        /\ Below(wal, ring') /\ AllBelow(wal, Head(ring))
        /\ Below(queue, ring') /\ AllBelow(queue, Head(ring))
        /\ AllBelow(ring', seen + 1) /\ Head(ring) < seen + 1
        /\ wr_rec # NoRecord => AllAbove(ring', wr_rec) /\ wr_rec < Head(ring)
    <3>1. Tail(ring) \in Seq(Nat)
      BY <1>1, <2>1
    <3> QED BY <1>1, <2>1, <3>1, TakenHead DEF OrderInv
  <2>3. Increasing(queue') /\ Below(wal, queue') /\ Below(queue', ring')
    BY <1>1, <2>1, <2>2, IncreasingAppend, BelowAppend DEF OrderInv
  <2>4. AllBelow(queue', seen + 1) /\ (wr_rec # NoRecord => AllAbove(queue', wr_rec))
    BY <1>1, <2>1, <2>2, BoundAppend DEF OrderInv
  <2> QED BY <2>1, <2>2, <2>3, <2>4 DEF OrderInv
<1>7. CASE WriterRecv
  <2>1. /\ queue # <<>> /\ queue' = Tail(queue) /\ wr_rec' = Head(queue)
        /\ UNCHANGED <<seen, ring, wal>>
    BY <1>7 DEF WriterRecv, kernelVars
  <2>2. /\ Increasing(queue') /\ Below(wal, queue') /\ Below(queue', ring)
        /\ AllBelow(queue', seen + 1)
        /\ AllBelow(wal, wr_rec') /\ AllAbove(queue', wr_rec') /\ AllAbove(ring, wr_rec')
        /\ wr_rec' < seen + 1 /\ wr_rec' \in Nat
    BY <1>1, <2>1, TakenHead DEF OrderInv
  <2>3. wr_rec' <= seen
    BY <1>1, <2>2
  <2> QED BY <2>1, <2>2, <2>3 DEF OrderInv
<1>8. CASE HandleDrop \/ WriterFail
  <2>1. wr_rec' = NoRecord /\ UNCHANGED <<seen, ring, queue, wal>>
    BY <1>8 DEF HandleDrop, WriterFail, kernelVars
  <2> QED BY <2>1 DEF OrderInv
<1>9. CASE WriteRecord
  <2>1. /\ wr_rec # NoRecord /\ wr_rec' = NoRecord /\ wal' = Append(wal, wr_rec)
        /\ UNCHANGED <<seen, ring, queue>>
    BY <1>9 DEF WriteRecord, kernelVars, TypeOK
  <2>2. Increasing(wal') /\ Below(wal', queue) /\ Below(wal', ring)
    BY <1>1, <2>1, IncreasingAppend, BelowAppend DEF OrderInv
  <2>3. AllBelow(wal', seen + 1)
    <3>1. wr_rec < seen + 1
      BY <1>1, <2>1 DEF OrderInv
    <3> QED BY <1>1, <2>1, <3>1, BoundAppend DEF OrderInv
  <2> QED BY <2>1, <2>2, <2>3 DEF OrderInv
<1>10. \/ RingSubmit \/ RingDiscard \/ RingFull \/ CaptureDrop \/ SliceReject \/ CaptureSend
       \/ WriterRecv \/ HandleDrop \/ WriterFail \/ WriteRecord
       \/ UNCHANGED <<seen, ring, queue, wr_rec, wal>>
  BY DEF Next, Kernel, CaptureStep, CapturePoll, CaptureNext, CapturePass, SliceRecord,
         CapturePollError, WriterStep, WriterOpen, CheckLen, CheckStore, WriterTimeout,
         WriterDisconnected, HandleAccept, MaybeRotate, SamplerStep, SampleRss,
         SampleLoad, SamplerRecover, kernelVars, writerVars, samplerVars, vars
<1> QED BY <1>2, <1>3, <1>4, <1>5, <1>6, <1>7, <1>8, <1>9, <1>10

\* For every capacity and any number of frames, the log neither repeats nor
\* reorders a frame.
THEOREM WalStaysInOrder == Spec => []WalInOrder
<1> DEFINE Inv == TypeOK /\ OrderInv
<1>1. Init => Inv
  BY InitType, InitOrder
<1>2. Inv /\ [Next]_vars => Inv'
  BY NextType, NextOrder
<1>3. Inv => WalInOrder
  BY DEF OrderInv, WalInOrder
<1> QED BY <1>1, <1>2, <1>3, PTL DEF Spec

-----------------------------------------------------------------------------
(***************************************************************************)
(* That Probe keeps account of every frame and implements LossyFifo.       *)
(*                                                                         *)
(* Both rest on Flow: whatever the threads do, a step shows one new frame  *)
(* to the pipeline, gives up one frame that is in it, hands its oldest to  *)
(* the log, or moves frames inside the pipeline without changing their     *)
(* sequence.                                                               *)
(***************************************************************************)

\* A sequence and its first element.
LEMMA Cons ==
  ASSUME NEW S, NEW t \in Seq(S), NEW x \in S
  PROVE  /\ <<x>> \o t \in Seq(S) /\ <<x>> \o t # <<>>
         /\ Head(<<x>> \o t) = x /\ Tail(<<x>> \o t) = t
<1>1. <<x>> \in Seq(S) /\ Len(<<x>>) = 1 /\ <<x>>[1] = x
  OBVIOUS
<1>2. /\ <<x>> \o t \in Seq(S)
      /\ Len(<<x>> \o t) = Len(t) + 1
      /\ \A i \in 1 .. Len(t) + 1 : (<<x>> \o t)[i] = IF i <= 1 THEN x ELSE t[i - 1]
  BY <1>1, ConcatProperties
<1>3. <<x>> \o t # <<>>
  BY <1>2
<1>4. Head(<<x>> \o t) = x
  BY <1>2, <1>3, HeadTail
<1>5. Tail(<<x>> \o t) = t
  <2> DEFINE u == Tail(<<x>> \o t)
  <2>1. u \in Seq(S) /\ Len(u) = Len(t)
        /\ \A i \in DOMAIN u : u[i] = (<<x>> \o t)[i + 1]
    BY <1>2, <1>3, HeadTail
  <2>2. \A i \in 1 .. Len(u) : u[i] = t[i]
    BY <1>2, <2>1
  <2> QED BY <2>1, <2>2, SeqEqual
<1> QED BY <1>2, <1>3, <1>4, <1>5

LEMMA Uncons ==
  ASSUME NEW S, NEW s \in Seq(S), s # <<>>
  PROVE  Head(s) \in S /\ Tail(s) \in Seq(S) /\ s = <<Head(s)>> \o Tail(s)
<1>1. Head(s) \in S /\ Tail(s) \in Seq(S) /\ Len(Tail(s)) = Len(s) - 1
      /\ \A i \in DOMAIN Tail(s) : Tail(s)[i] = s[i + 1]
      /\ Head(s) = s[1]
  BY HeadTail
<1>2. <<Head(s)>> \in Seq(S) /\ Len(<<Head(s)>>) = 1 /\ <<Head(s)>>[1] = Head(s)
  BY <1>1
<1>3. /\ <<Head(s)>> \o Tail(s) \in Seq(S)
      /\ Len(<<Head(s)>> \o Tail(s)) = 1 + Len(Tail(s))
      /\ \A i \in 1 .. 1 + Len(Tail(s)) : (<<Head(s)>> \o Tail(s))[i] =
            IF i <= 1 THEN Head(s) ELSE Tail(s)[i - 1]
  BY <1>1, <1>2, ConcatProperties
<1>4. \A i \in 1 .. Len(s) : s[i] = (<<Head(s)>> \o Tail(s))[i]
  <2> SUFFICES ASSUME NEW i \in 1 .. Len(s) PROVE s[i] = (<<Head(s)>> \o Tail(s))[i]
    OBVIOUS
  <2>1. CASE i = 1
    BY <1>1, <1>3, <2>1
  <2>2. CASE i # 1
    <3>1. i - 1 \in DOMAIN Tail(s) /\ Tail(s)[i - 1] = s[i]
      BY <1>1, <2>2
    <3> QED BY <1>1, <1>3, <2>2, <3>1
  <2> QED BY <2>1, <2>2
<1> QED BY <1>1, <1>3, <1>4, SeqEqual

\* What Without leaves out.
LEMMA WithoutIs ==
  ASSUME NEW S, NEW s \in Seq(S), NEW k \in DOMAIN s
  PROVE  /\ Fifo!Without(s, k) \in Seq(S)
         /\ Len(Fifo!Without(s, k)) = Len(s) - 1
         /\ \A i \in 1 .. Len(s) - 1 :
              Fifo!Without(s, k)[i] = IF i < k THEN s[i] ELSE s[i + 1]
<1> DEFINE a == SubSeq(s, 1, k - 1)
           b == SubSeq(s, k + 1, Len(s))
<1>1. k \in 1 .. Len(s) /\ Len(s) \in Nat
  BY LenProperties
<1>2. a \in Seq(S) /\ Len(a) = k - 1 /\ \A i \in 1 .. k - 1 : a[i] = s[i]
  <2>1. \A i \in 1 .. k - 1 : s[i] \in S
    BY <1>1
  <2>2. /\ a \in Seq(S) /\ Len(a) = IF 1 <= k - 1 THEN (k - 1) - 1 + 1 ELSE 0
        /\ \A i \in 1 .. (k - 1) - 1 + 1 : a[i] = s[1 + i - 1]
    BY <1>1, <2>1, SubSeqProperties
  <2> QED BY <1>1, <2>2
<1>3. /\ b \in Seq(S) /\ Len(b) = Len(s) - k
      /\ \A i \in 1 .. Len(s) - k : b[i] = s[k + i]
  <2>1. \A i \in k + 1 .. Len(s) : s[i] \in S
    BY <1>1
  <2>2. /\ b \in Seq(S)
        /\ Len(b) = IF k + 1 <= Len(s) THEN Len(s) - (k + 1) + 1 ELSE 0
        /\ \A i \in 1 .. Len(s) - (k + 1) + 1 : b[i] = s[(k + 1) + i - 1]
    BY <1>1, <2>1, SubSeqProperties
  <2> QED BY <1>1, <2>2
<1>4. Fifo!Without(s, k) = a \o b
  BY DEF Fifo!Without
<1> HIDE DEF a, b
<1>5. /\ a \o b \in Seq(S)
      /\ Len(a \o b) = Len(a) + Len(b)
      /\ \A i \in 1 .. Len(a) + Len(b) :
           (a \o b)[i] = IF i <= Len(a) THEN a[i] ELSE b[i - Len(a)]
  BY <1>2, <1>3, ConcatProperties
<1>6. /\ Len(a \o b) = Len(s) - 1
      /\ \A i \in 1 .. Len(s) - 1 :
           (a \o b)[i] = IF i <= k - 1 THEN a[i] ELSE b[i - (k - 1)]
  <2>1. Len(a) + Len(b) = Len(s) - 1 /\ Len(a) = k - 1
    BY <1>1, <1>2, <1>3
  <2> QED BY <1>5, <2>1
<1>7. ASSUME NEW i \in 1 .. Len(s) - 1
      PROVE  (a \o b)[i] = IF i < k THEN s[i] ELSE s[i + 1]
  <2>1. i \in Int /\ k \in Int /\ Len(s) \in Int /\ 1 <= i /\ i <= Len(s) - 1
    BY <1>1
  <2>2. CASE i < k
    <3>1. i \in 1 .. k - 1 /\ i <= k - 1
      BY <2>1, <2>2
    <3> QED BY <1>2, <1>6, <2>2, <3>1
  <2>3. CASE ~ (i < k)
    <3>1. ~ (i <= k - 1) /\ i - (k - 1) \in 1 .. Len(s) - k /\ k + (i - (k - 1)) = i + 1
      BY <2>1, <2>3
    <3>2. b[i - (k - 1)] = s[i + 1]
      BY <1>3, <3>1
    <3> QED BY <1>6, <2>3, <3>1, <3>2
  <2> QED BY <2>2, <2>3
<1> QED BY <1>4, <1>5, <1>6, <1>7

\* To lose the first frame of the second half.
LEMMA WithoutMiddle ==
  ASSUME NEW S, NEW s \in Seq(S), NEW t \in Seq(S), t # <<>>
  PROVE  /\ Len(s) + 1 \in DOMAIN (s \o t)
         /\ (s \o t)[Len(s) + 1] = Head(t)
         /\ Fifo!Without(s \o t, Len(s) + 1) = s \o Tail(t)
<1> DEFINE k == Len(s) + 1
<1>1. /\ s \o t \in Seq(S) /\ Len(s \o t) = Len(s) + Len(t)
      /\ \A i \in 1 .. Len(s) + Len(t) :
           (s \o t)[i] = IF i <= Len(s) THEN s[i] ELSE t[i - Len(s)]
  BY ConcatProperties
<1>2. /\ Tail(t) \in Seq(S) /\ Len(Tail(t)) = Len(t) - 1 /\ Head(t) = t[1]
      /\ \A i \in DOMAIN Tail(t) : Tail(t)[i] = t[i + 1]
  BY HeadTail
<1>3. Len(s) \in Nat /\ Len(t) \in Nat \ {0}
  BY EmptySeq
<1>4. k \in DOMAIN (s \o t) /\ (s \o t)[k] = Head(t)
  BY <1>1, <1>2, <1>3
<1>5. /\ s \o Tail(t) \in Seq(S) /\ Len(s \o Tail(t)) = Len(s) + Len(t) - 1
      /\ \A i \in 1 .. Len(s) + Len(t) - 1 :
           (s \o Tail(t))[i] = IF i <= Len(s) THEN s[i] ELSE Tail(t)[i - Len(s)]
  BY <1>2, <1>3, ConcatProperties
<1>6. /\ Fifo!Without(s \o t, k) \in Seq(S)
      /\ Len(Fifo!Without(s \o t, k)) = Len(s) + Len(t) - 1
      /\ \A i \in 1 .. Len(s) + Len(t) - 1 :
           Fifo!Without(s \o t, k)[i] = IF i < k THEN (s \o t)[i] ELSE (s \o t)[i + 1]
  <2> DEFINE u == s \o t
  <2>1. u \in Seq(S) /\ k \in DOMAIN u /\ Len(u) - 1 = Len(s) + Len(t) - 1
    BY <1>1, <1>4
  <2> HIDE DEF u, k
  <2>2. /\ Fifo!Without(u, k) \in Seq(S)
        /\ Len(Fifo!Without(u, k)) = Len(u) - 1
        /\ \A i \in 1 .. Len(u) - 1 :
             Fifo!Without(u, k)[i] = IF i < k THEN u[i] ELSE u[i + 1]
    BY <2>1, WithoutIs
  <2> QED BY <2>1, <2>2 DEF u
<1>7. ASSUME NEW i \in 1 .. Len(s) + Len(t) - 1
      PROVE  Fifo!Without(s \o t, k)[i] = (s \o Tail(t))[i]
  <2>1. CASE i <= Len(s)
    BY <1>1, <1>3, <1>5, <1>6, <2>1
  <2>2. CASE i > Len(s)
    <3>1. Fifo!Without(s \o t, k)[i] = t[i + 1 - Len(s)]
      BY <1>1, <1>3, <1>6, <2>2
    <3>2. i - Len(s) \in DOMAIN Tail(t) /\ Tail(t)[i - Len(s)] = t[(i - Len(s)) + 1]
      BY <1>2, <1>3, <2>2
    <3> QED BY <1>3, <1>5, <2>2, <3>1, <3>2
  <2> QED BY <1>3, <2>1, <2>2
<1> QED BY <1>4, <1>5, <1>6, <1>7, SeqEqual

-----------------------------------------------------------------------------
\* The kinds of steps, as the pipeline sees them.
NewFrame ==
  /\ seen' = seen + 1 /\ seen + 1 \in Frames
  /\ \/ InFlight' = Append(InFlight, seen + 1) /\ UNCHANGED lost
     \/ /\ UNCHANGED InFlight
        /\ \E p \in Places : GiveUp(p, seen + 1)
  /\ UNCHANGED wal

LoseOne ==
  /\ \E k \in DOMAIN InFlight, p \in Places :
       InFlight' = Fifo!Without(InFlight, k) /\ GiveUp(p, InFlight[k])
  /\ UNCHANGED <<seen, wal>>

LogOne ==
  /\ InFlight # <<>>
  /\ InFlight' = Tail(InFlight)
  /\ wal' = Append(wal, Head(InFlight))
  /\ UNCHANGED <<seen, lost>>

Nothing == UNCHANGED <<seen, InFlight, wal, lost>>

LEMMA InFlightType ==
  ASSUME TypeOK
  PROVE  /\ Hand \in Seq(Frames) /\ queue \in Seq(Frames) /\ ring \in Seq(Frames)
         /\ Hand \o queue \in Seq(Frames)
         /\ InFlight \in Seq(Frames)
<1>1. Hand \in Seq(Frames) /\ queue \in Seq(Frames) /\ ring \in Seq(Frames)
  <2>1. CASE wr_rec = NoRecord
    BY <2>1 DEF TypeOK, Hand
  <2>2. CASE wr_rec # NoRecord
    <3>1. wr_rec \in Frames /\ Hand = <<wr_rec>>
      BY <2>2 DEF TypeOK, Hand
    <3> QED BY <3>1 DEF TypeOK
  <2> QED BY <2>1, <2>2
<1> QED BY <1>1, ConcatProperties DEF InFlight

\* The frame in the writer's hand is the first of all.
LEMMA HandFirst ==
  ASSUME TypeOK, wr_rec # NoRecord
  PROVE  /\ InFlight # <<>> /\ Head(InFlight) = wr_rec
         /\ Tail(InFlight) = (<<>> \o queue) \o ring
         /\ 1 \in DOMAIN InFlight /\ InFlight[1] = wr_rec
         /\ Fifo!Without(InFlight, 1) = Tail(InFlight)
<1>1. /\ wr_rec \in Frames /\ Hand = <<wr_rec>>
      /\ queue \in Seq(Frames) /\ ring \in Seq(Frames) /\ queue \o ring \in Seq(Frames)
      /\ Hand \in Seq(Frames) /\ InFlight \in Seq(Frames)
  BY InFlightType, ConcatProperties DEF TypeOK, Hand
<1>2. InFlight = <<wr_rec>> \o (queue \o ring)
  BY <1>1, ConcatAssociative DEF InFlight
<1>3. InFlight # <<>> /\ Head(InFlight) = wr_rec /\ Tail(InFlight) = queue \o ring
  BY <1>1, <1>2, Cons
<1>4. <<>> \o queue = queue
  BY <1>1, ConcatEmptySeq
<1>5. /\ Len(<<>>) + 1 \in DOMAIN (<<>> \o InFlight)
      /\ (<<>> \o InFlight)[Len(<<>>) + 1] = Head(InFlight)
      /\ Fifo!Without(<<>> \o InFlight, Len(<<>>) + 1) = <<>> \o Tail(InFlight)
  <2>1. <<>> \in Seq(Frames)
    BY EmptySeq
  <2> QED BY <1>1, <1>3, <2>1, WithoutMiddle
<1>6. /\ <<>> \o InFlight = InFlight /\ Len(<<>>) + 1 = 1
      /\ <<>> \o Tail(InFlight) = Tail(InFlight)
  <2>1. Tail(InFlight) \in Seq(Frames)
    BY <1>1, <1>3
  <2> QED BY <1>1, <2>1, ConcatEmptySeq
<1> QED BY <1>3, <1>4, <1>5, <1>6

LEMMA Flow ==
  ASSUME TypeOK, [Next]_vars
  PROVE  NewFrame \/ LoseOne \/ LogOne \/ Nothing
<1>1. /\ Hand \in Seq(Frames) /\ queue \in Seq(Frames) /\ ring \in Seq(Frames)
      /\ Hand \o queue \in Seq(Frames) /\ InFlight \in Seq(Frames)
      /\ InFlight = (Hand \o queue) \o ring
  BY InFlightType DEF InFlight
<1>2. InFlight' = (Hand' \o queue') \o ring'
  BY DEF InFlight
<1>3. UNCHANGED wr_rec => UNCHANGED Hand
  BY DEF Hand
<1>4. CASE UNCHANGED <<seen, ring, queue, wr_rec, wal, lost>>
  BY <1>4, <1>2, <1>3, <1>1 DEF Nothing
<1>5. CASE RingSubmit
  <2>1. /\ seen' = seen + 1 /\ seen + 1 \in Frames /\ ring' = Append(ring, seen + 1)
        /\ UNCHANGED <<queue, wal, wr_rec, lost>>
    BY <1>5, ProbeAssumption DEF RingSubmit, writerVars, TypeOK, Frames
  <2>2. /\ Append(ring, seen + 1) = ring \o <<seen + 1>>
        /\ Append(InFlight, seen + 1) = InFlight \o <<seen + 1>>
        /\ <<seen + 1>> \in Seq(Frames)
    BY <1>1, <2>1, AppendIsConcat
  <2>3. (Hand \o queue) \o (ring \o <<seen + 1>>) = InFlight \o <<seen + 1>>
    BY <1>1, <2>2, ConcatAssociative
  <2>4. InFlight' = Append(InFlight, seen + 1)
    BY <1>2, <1>3, <2>1, <2>2, <2>3
  <2> QED BY <2>1, <2>4 DEF NewFrame
<1>6. CASE RingDiscard \/ RingFull
  <2>1. /\ seen' = seen + 1 /\ seen + 1 \in Frames
        /\ \E p \in Places : GiveUp(p, seen + 1)
        /\ UNCHANGED <<ring, queue, wal, wr_rec>>
    BY <1>6, ProbeAssumption DEF RingDiscard, RingFull, writerVars, TypeOK, Frames, Places
  <2> QED BY <1>1, <1>2, <1>3, <2>1 DEF NewFrame
<1>7. CASE CaptureDrop \/ SliceReject
  <2>1. /\ ring # <<>> /\ ring' = Tail(ring) /\ UNCHANGED <<seen, queue, wal, wr_rec>>
        /\ \E p \in Places : GiveUp(p, Head(ring))
    BY <1>7 DEF CaptureDrop, SliceReject, writerVars, TypeOK, Places
  <2> DEFINE k == Len(Hand \o queue) + 1
  <2>2. /\ k \in DOMAIN InFlight /\ InFlight[k] = Head(ring)
        /\ Fifo!Without(InFlight, k) = (Hand \o queue) \o Tail(ring)
    BY <1>1, <2>1, WithoutMiddle
  <2>3. InFlight' = Fifo!Without(InFlight, k)
    BY <1>2, <1>3, <2>1, <2>2
  <2> HIDE DEF k
  <2> QED BY <2>1, <2>2, <2>3 DEF LoseOne
<1>8. CASE CaptureSend
  <2> DEFINE h == Head(ring)
  <2>1. /\ ring # <<>> /\ ring' = Tail(ring) /\ queue' = Append(queue, h)
        /\ UNCHANGED <<seen, wal, wr_rec, lost>>
    BY <1>8 DEF CaptureSend, writerVars, TypeOK
  <2>2. h \in Frames /\ Tail(ring) \in Seq(Frames) /\ ring = <<h>> \o Tail(ring)
    BY <1>1, <2>1, Uncons
  <2> HIDE DEF h
  <2>3. Append(queue, h) = queue \o <<h>> /\ <<h>> \in Seq(Frames)
    BY <1>1, <2>2, AppendIsConcat
  <2>4. Hand \o (queue \o <<h>>) = (Hand \o queue) \o <<h>>
    BY <1>1, <2>3, ConcatAssociative
  <2>5. ((Hand \o queue) \o <<h>>) \o Tail(ring) = (Hand \o queue) \o (<<h>> \o Tail(ring))
    BY <1>1, <2>2, <2>3, ConcatAssociative
  <2>6. InFlight' = InFlight
    BY <1>1, <1>2, <1>3, <2>1, <2>2, <2>3, <2>4, <2>5
  <2> QED BY <2>1, <2>6 DEF Nothing
<1>9. CASE WriterRecv
  <2> DEFINE h == Head(queue)
  <2>1. /\ queue # <<>> /\ queue' = Tail(queue) /\ wr_rec' = h /\ wr_rec = NoRecord
        /\ UNCHANGED <<seen, ring, wal, lost>>
    BY <1>9 DEF WriterRecv, kernelVars, TypeOK
  <2>2. h \in Frames /\ Tail(queue) \in Seq(Frames) /\ queue = <<h>> \o Tail(queue)
    BY <1>1, <2>1, Uncons
  <2> HIDE DEF h
  <2>3. h # NoRecord /\ Hand = <<>> /\ Hand' = <<h>>
    BY <2>1, <2>2, ProbeAssumption DEF Hand, Frames, NoRecord
  <2>4. Hand \o queue = queue
    BY <1>1, <2>3, ConcatEmptySeq
  <2>5. InFlight' = InFlight
    BY <1>1, <1>2, <2>1, <2>2, <2>3, <2>4
  <2> QED BY <2>1, <2>5 DEF Nothing
<1>10. ASSUME wr_rec # NoRecord, wr_rec' = NoRecord, UNCHANGED <<seen, ring, queue>>
       PROVE  InFlight' = Tail(InFlight)
  <2>1. Hand' = <<>>
    BY <1>10 DEF Hand
  <2> QED BY <1>2, <1>10, <2>1, HandFirst
<1>11. CASE HandleDrop
  <2>1. /\ wr_rec # NoRecord /\ wr_rec' = NoRecord /\ GiveUp("writer", wr_rec)
        /\ UNCHANGED <<seen, ring, queue, wal>>
    BY <1>11 DEF HandleDrop, kernelVars, TypeOK
  <2>2. /\ InFlight' = Fifo!Without(InFlight, 1)
        /\ 1 \in DOMAIN InFlight /\ InFlight[1] = wr_rec
    BY <1>10, <2>1, HandFirst
  <2>3. "writer" \in Places
    BY DEF Places
  <2> QED BY <2>1, <2>2, <2>3 DEF LoseOne
<1>12. CASE WriterFail
  <2>1. wr_rec' = NoRecord /\ UNCHANGED <<seen, ring, queue, wal>>
    BY <1>12 DEF WriterFail, kernelVars
  <2>2. CASE wr_rec = NoRecord
    <3>1. UNCHANGED <<lost, wr_rec>>
      BY <1>12, <2>1, <2>2 DEF WriterFail
    <3> QED BY <1>4, <2>1, <3>1
  <2>3. CASE wr_rec # NoRecord
    <3>1. GiveUp("failed_writer", wr_rec) /\ "failed_writer" \in Places
      BY <1>12, <2>3 DEF WriterFail, Places
    <3>2. /\ InFlight' = Fifo!Without(InFlight, 1)
          /\ 1 \in DOMAIN InFlight /\ InFlight[1] = wr_rec
      BY <1>10, <2>1, <2>3, HandFirst
    <3> QED BY <2>1, <3>1, <3>2 DEF LoseOne
  <2> QED BY <2>2, <2>3
<1>13. CASE WriteRecord
  <2>1. /\ wr_rec # NoRecord /\ wr_rec' = NoRecord /\ wal' = Append(wal, wr_rec)
        /\ UNCHANGED <<seen, ring, queue, lost>>
    BY <1>13 DEF WriteRecord, kernelVars, TypeOK
  <2> QED BY <1>10, <2>1, HandFirst DEF LogOne
<1>14. \/ RingSubmit \/ RingDiscard \/ RingFull \/ CaptureDrop \/ SliceReject \/ CaptureSend
       \/ WriterRecv \/ HandleDrop \/ WriterFail \/ WriteRecord
       \/ UNCHANGED <<seen, ring, queue, wr_rec, wal, lost>>
  BY DEF Next, Kernel, CaptureStep, CapturePoll, CaptureNext, CapturePass, SliceRecord,
         CapturePollError, WriterStep, WriterOpen, CheckLen, CheckStore, WriterTimeout,
         WriterDisconnected, HandleAccept, MaybeRotate, SamplerStep, SampleRss,
         SampleLoad, SamplerRecover, kernelVars, writerVars, samplerVars, vars
<1> QED BY <1>4, <1>5, <1>6, <1>7, <1>8, <1>9, <1>11, <1>12, <1>13, <1>14

LEMMA NextFifo ==
  ASSUME TypeOK, [Next]_vars
  PROVE  [Fifo!Next]_(Fifo!fifoVars)
<1>1. CASE NewFrame
  BY <1>1 DEF NewFrame, Fifo!Next, Fifo!Appear
<1>2. CASE LoseOne
  BY <1>2 DEF LoseOne, Fifo!Next, Fifo!Lose
<1>3. CASE LogOne
  BY <1>3 DEF LogOne, Fifo!Next, Fifo!Emit
<1>4. CASE Nothing
  BY <1>4 DEF Nothing, Fifo!fifoVars
<1> QED BY <1>1, <1>2, <1>3, <1>4, Flow

LEMMA InitFifo == Init => Fifo!Init
<1> SUFFICES ASSUME Init PROVE Fifo!Init
  OBVIOUS
<1>1. seen = 0 /\ wal = <<>> /\ Hand = <<>> /\ queue = <<>> /\ ring = <<>>
  BY DEF Init, Hand
<1>2. <<>> \in Seq(Frames)
  BY EmptySeq
<1>3. InFlight = <<>>
  BY <1>1, <1>2, ConcatEmptySeq DEF InFlight
<1> QED BY <1>1, <1>3 DEF Fifo!Init

\* The three threads, the ring and the channel together are a lossy queue: the
\* log is a subsequence of the traffic, frame by frame, for every capacity.
THEOREM ProbeImplementsFifo == Spec => ImplementsLossyFifo
<1>1. Init => TypeOK /\ Fifo!Init
  BY InitType, InitFifo
<1>2. TypeOK /\ [Next]_vars => TypeOK' /\ [Fifo!Next]_(Fifo!fifoVars)
  BY NextType, NextFifo
<1> QED BY <1>1, <1>2, PTL DEF Spec, ImplementsLossyFifo, Fifo!Spec

-----------------------------------------------------------------------------
(***************************************************************************)
(* Conservation.  Its counts are all 0 or 1: the log and the pipeline are  *)
(* increasing and the one lies below the other (FlowOrdered), so that no   *)
(* frame is in either twice or in both.  AccountInv says the rest without  *)
(* counting: every frame seen is held or given up, never both, and given   *)
(* up in one place.                                                        *)
(***************************************************************************)
FlowOrdered ==
  /\ Increasing(wal) /\ Increasing(InFlight) /\ Below(wal, InFlight)
  /\ \A i \in DOMAIN wal : wal[i] <= seen
  /\ \A i \in DOMAIN InFlight : InFlight[i] <= seen

Held == SetOf(wal) \cup SetOf(InFlight)

AccountInv ==
  /\ \A f \in 1 .. seen : f \in Held \/ \E p \in Places : f \in lost[p]
  /\ \A p \in Places : lost[p] \subseteq 1 .. seen /\ lost[p] \cap Held = {}
  /\ \A p, q \in Places : p # q => lost[p] \cap lost[q] = {}

LEMMA ConcatParts ==
  ASSUME NEW s \in Seq(Nat), NEW t \in Seq(Nat)
  PROVE  /\ s \o t \in Seq(Nat)
         /\ \A i \in DOMAIN (s \o t) :
              \/ i \in DOMAIN s /\ (s \o t)[i] = s[i]
              \/ i - Len(s) \in DOMAIN t /\ (s \o t)[i] = t[i - Len(s)]
                 /\ \A j \in DOMAIN s : j < i
BY ConcatProperties, LenProperties

LEMMA IncreasingConcat ==
  ASSUME NEW s \in Seq(Nat), NEW t \in Seq(Nat), NEW w \in Seq(Nat), NEW x \in Nat
  PROVE  /\ Increasing(s) /\ Increasing(t) /\ Below(s, t) => Increasing(s \o t)
         /\ Below(w, s) /\ Below(w, t) => Below(w, s \o t)
         /\ Below(s, w) /\ Below(t, w) => Below(s \o t, w)
         /\ AllBelow(s, x) /\ AllBelow(t, x) => AllBelow(s \o t, x)
<1> DEFINE u == s \o t
<1>1. /\ u \in Seq(Nat)
      /\ \A i \in DOMAIN u :
           \/ i \in DOMAIN s /\ u[i] = s[i]
           \/ i - Len(s) \in DOMAIN t /\ u[i] = t[i - Len(s)]
              /\ \A j \in DOMAIN s : j < i
  BY ConcatParts
<1>2. /\ DOMAIN u \subseteq Nat /\ DOMAIN s \subseteq Nat /\ DOMAIN t \subseteq Nat
      /\ Len(s) \in Nat
  BY <1>1, LenProperties
<1> HIDE DEF u
<1>3. ASSUME Increasing(s), Increasing(t), Below(s, t) PROVE Increasing(u)
  <2> SUFFICES ASSUME NEW i \in DOMAIN u, NEW j \in DOMAIN u, i < j PROVE u[i] < u[j]
    BY DEF Increasing
  <2>1. CASE i \in DOMAIN s /\ u[i] = s[i] /\ j \in DOMAIN s /\ u[j] = s[j]
    BY <1>3, <2>1 DEF Increasing
  <2>2. CASE i \in DOMAIN s /\ u[i] = s[i] /\ j - Len(s) \in DOMAIN t /\ u[j] = t[j - Len(s)]
    BY <1>3, <2>2 DEF Below
  <2>3. CASE /\ i - Len(s) \in DOMAIN t /\ u[i] = t[i - Len(s)]
             /\ j - Len(s) \in DOMAIN t /\ u[j] = t[j - Len(s)]
    <3>1. i - Len(s) < j - Len(s)
      BY <1>2
    <3> QED BY <1>3, <2>3, <3>1 DEF Increasing
  <2>4. CASE j \in DOMAIN s /\ \A k \in DOMAIN s : k < i
    BY <1>2, <2>4
  <2> QED BY <1>1, <2>1, <2>2, <2>3, <2>4
<1>4. Below(w, s) /\ Below(w, t) => Below(w, u)
  BY <1>1 DEF Below
<1>5. Below(s, w) /\ Below(t, w) => Below(u, w)
  BY <1>1 DEF Below
<1>6. AllBelow(s, x) /\ AllBelow(t, x) => AllBelow(u, x)
  BY <1>1 DEF AllBelow
<1> QED BY <1>3, <1>4, <1>5, <1>6 DEF u

LEMMA FlowIsOrdered ==
  ASSUME TypeOK, OrderInv
  PROVE  FlowOrdered
<1>1. /\ wal \in Seq(Nat) /\ Hand \in Seq(Nat) /\ queue \in Seq(Nat) /\ ring \in Seq(Nat)
      /\ seen \in Nat /\ seen + 1 \in Nat
  <2>1. Frames \subseteq Nat
    BY ProbeAssumption DEF Frames
  <2>2. ASSUME NEW s \in Seq(Frames) PROVE s \in Seq(Nat)
    BY <2>1, SeqMonotonic
  <2>3. seen \in Nat
    BY ProbeAssumption DEF TypeOK
  <2> QED BY <2>2, <2>3, InFlightType DEF TypeOK
<1>2. /\ Increasing(Hand) /\ Below(wal, Hand) /\ Below(Hand, queue) /\ Below(Hand, ring)
      /\ AllBelow(Hand, seen + 1)
  <2>1. CASE wr_rec = NoRecord
    BY <2>1 DEF Hand, Increasing, Below, AllBelow
  <2>2. CASE wr_rec # NoRecord
    <3>1. Hand = <<wr_rec>> /\ wr_rec \in Nat /\ wr_rec < seen + 1
      BY <1>1, <2>2, ProbeAssumption DEF Hand, OrderInv, TypeOK, Frames
    <3>2. DOMAIN Hand = {1} /\ Hand[1] = wr_rec
      BY <3>1
    <3>3. AllBelow(wal, wr_rec) /\ AllAbove(queue, wr_rec) /\ AllAbove(ring, wr_rec)
      BY <2>2 DEF OrderInv
    <3>4. Increasing(Hand)
      BY <3>2 DEF Increasing
    <3> QED BY <3>1, <3>2, <3>3, <3>4 DEF Below, AllBelow, AllAbove
  <2> QED BY <2>1, <2>2
<1>3. /\ Hand \o queue \in Seq(Nat) /\ Increasing(Hand \o queue)
      /\ Below(wal, Hand \o queue) /\ Below(Hand \o queue, ring)
      /\ AllBelow(Hand \o queue, seen + 1)
  BY <1>1, <1>2, IncreasingConcat, ConcatProperties DEF OrderInv
<1>4. /\ InFlight \in Seq(Nat) /\ Increasing(InFlight) /\ Below(wal, InFlight)
      /\ AllBelow(InFlight, seen + 1)
  BY <1>1, <1>3, IncreasingConcat, ConcatProperties DEF OrderInv, InFlight
<1>5. ASSUME NEW s \in Seq(Nat), AllBelow(s, seen + 1)
      PROVE  \A i \in DOMAIN s : s[i] <= seen
  <2> SUFFICES ASSUME NEW i \in DOMAIN s PROVE s[i] <= seen
    OBVIOUS
  <2>1. s[i] \in Nat /\ s[i] < seen + 1
    BY <1>5 DEF AllBelow
  <2> QED BY <1>1, <2>1
<1> QED BY <1>1, <1>4, <1>5 DEF FlowOrdered, OrderInv

\* What the pipeline holds after one frame of it is gone.
LEMMA SetOfWithout ==
  ASSUME NEW s \in Seq(Nat), Increasing(s), NEW k \in DOMAIN s
  PROVE  SetOf(Fifo!Without(s, k)) = SetOf(s) \ {s[k]}
<1> DEFINE u == Fifo!Without(s, k)
<1>1. /\ u \in Seq(Nat) /\ Len(u) = Len(s) - 1
      /\ \A i \in 1 .. Len(s) - 1 : u[i] = IF i < k THEN s[i] ELSE s[i + 1]
  BY WithoutIs
<1>2. /\ DOMAIN s = 1 .. Len(s) /\ DOMAIN u = 1 .. Len(s) - 1
      /\ Len(s) \in Nat /\ k \in 1 .. Len(s) /\ \A i \in DOMAIN s : s[i] \in Nat
  BY <1>1, LenProperties
<1> HIDE DEF u
<1>3. ASSUME NEW i \in DOMAIN s, i # k PROVE s[i] # s[k]
  <2>1. i < k \/ k < i
    BY <1>2, <1>3
  <2>2. s[i] < s[k] \/ s[k] < s[i]
    BY <2>1 DEF Increasing
  <2> QED BY <1>2, <2>2
<1>4. ASSUME NEW i \in DOMAIN u PROVE u[i] \in SetOf(s) \ {s[k]}
  <2>1. CASE i < k
    <3>1. u[i] = s[i] /\ i \in DOMAIN s /\ i # k
      BY <1>1, <1>2, <2>1
    <3> QED BY <1>3, <3>1 DEF SetOf
  <2>2. CASE ~ (i < k)
    <3>1. u[i] = s[i + 1] /\ i + 1 \in DOMAIN s /\ i + 1 # k
      BY <1>1, <1>2, <2>2
    <3> QED BY <1>3, <3>1 DEF SetOf
  <2> QED BY <2>1, <2>2
<1>5. ASSUME NEW i \in DOMAIN s, i # k PROVE s[i] \in SetOf(u)
  <2>1. CASE i < k
    <3>1. i \in DOMAIN u /\ u[i] = s[i]
      BY <1>1, <1>2, <2>1
    <3> QED BY <3>1 DEF SetOf
  <2>2. CASE ~ (i < k)
    <3>1. i - 1 \in 1 .. Len(s) - 1 /\ ~ (i - 1 < k) /\ (i - 1) + 1 = i
      BY <1>2, <1>5, <2>2
    <3>2. i - 1 \in DOMAIN u /\ u[i - 1] = s[i]
      BY <1>1, <1>2, <3>1
    <3> QED BY <3>2 DEF SetOf
  <2> QED BY <2>1, <2>2
<1> QED BY <1>4, <1>5 DEF SetOf, u

LEMMA SetOfAppend ==
  ASSUME NEW S, NEW s \in Seq(S), NEW x \in S
  PROVE  SetOf(Append(s, x)) = SetOf(s) \cup {x}
<1>1. /\ Append(s, x) \in Seq(S) /\ Len(Append(s, x)) = Len(s) + 1
      /\ \A i \in 1 .. Len(s) : Append(s, x)[i] = s[i]
      /\ Append(s, x)[Len(s) + 1] = x
  BY AppendProperties
<1>2. DOMAIN Append(s, x) = 1 .. Len(s) + 1 /\ DOMAIN s = 1 .. Len(s) /\ Len(s) \in Nat
  BY <1>1, LenProperties
<1> QED BY <1>1, <1>2 DEF SetOf

LEMMA SetOfHead ==
  ASSUME NEW S, NEW s \in Seq(S), s # <<>>
  PROVE  SetOf(s) = {Head(s)} \cup SetOf(Tail(s))
<1>1. /\ DOMAIN s = 1 .. Len(s) /\ Len(s) \in Nat \ {0} /\ Head(s) = s[1]
      /\ DOMAIN Tail(s) = 1 .. Len(s) - 1
      /\ \A i \in DOMAIN Tail(s) : Tail(s)[i] = s[i + 1]
  BY HeadTail, LenProperties, EmptySeq
<1>2. ASSUME NEW i \in DOMAIN s, i # 1 PROVE s[i] \in SetOf(Tail(s))
  <2>1. i - 1 \in DOMAIN Tail(s) /\ Tail(s)[i - 1] = s[i]
    BY <1>1, <1>2
  <2> QED BY <2>1 DEF SetOf
<1>3. ASSUME NEW i \in DOMAIN Tail(s) PROVE Tail(s)[i] \in SetOf(s)
  <2>1. i + 1 \in DOMAIN s
    BY <1>1
  <2> QED BY <1>1, <2>1 DEF SetOf
<1> QED BY <1>1, <1>2, <1>3 DEF SetOf

LEMMA NextAccount ==
  ASSUME TypeOK, FlowOrdered, AccountInv, [Next]_vars
  PROVE  AccountInv'
<1>1. /\ InFlight \in Seq(Frames) /\ wal \in Seq(Frames) /\ Frames \subseteq Nat
      /\ InFlight \in Seq(Nat) /\ seen \in Nat
      /\ lost \in [Places -> SUBSET Frames]
  <2>1. Frames \subseteq Nat
    BY ProbeAssumption DEF Frames
  <2>2. InFlight \in Seq(Frames) /\ wal \in Seq(Frames)
    BY InFlightType DEF TypeOK
  <2>3. InFlight \in Seq(Nat)
    BY <2>1, <2>2, SeqMonotonic
  <2>4. seen \in Nat /\ lost \in [Places -> SUBSET Frames]
    BY ProbeAssumption DEF TypeOK
  <2> QED BY <2>1, <2>2, <2>3, <2>4
<1>2. Held \subseteq 1 .. seen
  <2>1. ASSUME NEW s \in Seq(Frames), \A i \in DOMAIN s : s[i] <= seen, NEW i \in DOMAIN s
        PROVE  s[i] \in 1 .. seen
    <3>1. s[i] \in Frames /\ s[i] <= seen
      BY <2>1
    <3> QED BY <1>1, <3>1 DEF Frames
  <2> QED BY <1>1, <2>1 DEF FlowOrdered, Held, SetOf
<1>3. SUFFICES ASSUME NewFrame \/ LoseOne \/ LogOne \/ Nothing PROVE AccountInv'
  BY Flow
<1>4. CASE NewFrame
  <2>1. /\ seen' = seen + 1 /\ 1 .. seen' = (1 .. seen) \cup {seen + 1}
        /\ seen + 1 \notin 1 .. seen /\ seen + 1 \in Frames /\ UNCHANGED wal
    BY <1>1, <1>4 DEF NewFrame
  <2>2. CASE InFlight' = Append(InFlight, seen + 1) /\ UNCHANGED lost
    <3>1. SetOf(InFlight)' = SetOf(InFlight) \cup {seen + 1}
      <4>1. SetOf(Append(InFlight, seen + 1)) = SetOf(InFlight) \cup {seen + 1}
        BY <1>1, <2>1, SetOfAppend
      <4> QED BY <2>2, <4>1 DEF SetOf
    <3>2. Held' = Held \cup {seen + 1}
      BY <2>1, <3>1 DEF Held, SetOf
    <3> QED BY <2>1, <2>2, <3>2 DEF AccountInv
  <2>3. ASSUME UNCHANGED InFlight, NEW place \in Places, GiveUp(place, seen + 1)
        PROVE  AccountInv'
    <3>1. Held' = Held
      BY <2>1, <2>3 DEF Held, SetOf
    <3>2. \A p \in Places : lost'[p] = IF p = place THEN lost[p] \cup {seen + 1} ELSE lost[p]
      BY <1>1, <2>3 DEF GiveUp
    <3>3. place \in Places
      BY <2>3
    <3>4. seen + 1 \notin Held /\ \A p \in Places : seen + 1 \notin lost[p]
      BY <1>2, <2>1 DEF AccountInv
    <3> DEFINE n == seen + 1
    <3> HIDE DEF n
    <3>5. /\ 1 .. seen' = (1 .. seen) \cup {n} /\ n \notin Held
          /\ \A p \in Places : n \notin lost[p]
          /\ \A p \in Places : lost'[p] = IF p = place THEN lost[p] \cup {n} ELSE lost[p]
      BY <2>1, <3>2, <3>4 DEF n
    <3>6. \A g \in 1 .. seen' : g \in Held' \/ \E p \in Places : g \in lost'[p]
      <4> SUFFICES ASSUME NEW g \in 1 .. seen', g \notin Held'
                   PROVE  \E p \in Places : g \in lost'[p]
        OBVIOUS
      <4>1. CASE g = n
        BY <3>3, <3>5, <4>1
      <4>2. CASE g # n
        <5>1. PICK p \in Places : g \in lost[p]
          BY <3>1, <3>5, <4>2 DEF AccountInv
        <5> QED BY <3>5, <5>1
      <4> QED BY <4>1, <4>2
    <3>7. \A p \in Places : lost'[p] \subseteq 1 .. seen' /\ lost'[p] \cap Held' = {}
      <4> SUFFICES ASSUME NEW p \in Places
                   PROVE  lost'[p] \subseteq 1 .. seen' /\ lost'[p] \cap Held' = {}
        OBVIOUS
      <4>1. lost[p] \subseteq 1 .. seen /\ lost[p] \cap Held = {}
        BY DEF AccountInv
      <4> QED BY <3>1, <3>5, <4>1
    <3>8. \A p, q \in Places : p # q => lost'[p] \cap lost'[q] = {}
      <4> SUFFICES ASSUME NEW p \in Places, NEW q \in Places, p # q
                   PROVE  lost'[p] \cap lost'[q] = {}
        OBVIOUS
      <4>1. lost[p] \cap lost[q] = {} /\ n \notin lost[p] /\ n \notin lost[q]
        BY <3>5 DEF AccountInv
      <4> QED BY <3>5, <4>1
    <3> QED BY <3>6, <3>7, <3>8 DEF AccountInv
  <2> QED BY <1>4, <2>2, <2>3 DEF NewFrame
<1>5. CASE LoseOne
  <2>1. PICK k \in DOMAIN InFlight, p \in Places :
          InFlight' = Fifo!Without(InFlight, k) /\ GiveUp(p, InFlight[k])
    BY <1>5 DEF LoseOne
  <2> DEFINE f == InFlight[k]
  <2>2. /\ UNCHANGED <<seen, wal>> /\ f \in SetOf(InFlight) /\ f \in 1 .. seen
    BY <1>2, <1>5 DEF LoseOne, SetOf, Held
  <2>3. SetOf(InFlight)' = SetOf(InFlight) \ {f}
    BY <1>1, <2>1, SetOfWithout DEF FlowOrdered, SetOf
  <2>4. f \notin SetOf(wal)
    <3>1. ASSUME NEW i \in DOMAIN wal, wal[i] = f PROVE FALSE
      <4>1. wal[i] < f
        BY DEF FlowOrdered, Below
      <4>2. f \in Nat
        BY <1>1, <2>2
      <4> QED BY <3>1, <4>1, <4>2
    <3> QED BY <3>1 DEF SetOf
  <2>5. Held' = Held \ {f}
    BY <2>2, <2>3, <2>4 DEF Held, SetOf
  <2>6. \A q \in Places : lost'[q] = IF q = p THEN lost[q] \cup {f} ELSE lost[q]
    BY <1>1, <2>1 DEF GiveUp
  <2>7. f \in Held
    BY <2>2 DEF Held
  <2> HIDE DEF f
  <2>8. \A g \in 1 .. seen : g \in Held' \/ \E q \in Places : g \in lost'[q]
    BY <2>5, <2>6 DEF AccountInv
  <2>9. \A q \in Places : lost'[q] \subseteq 1 .. seen /\ lost'[q] \cap Held' = {}
    BY <2>2, <2>5, <2>6 DEF AccountInv
  <2>10. \A q, r \in Places : q # r => lost'[q] \cap lost'[r] = {}
    <3> SUFFICES ASSUME NEW q \in Places, NEW r \in Places, q # r
                 PROVE  lost'[q] \cap lost'[r] = {}
      OBVIOUS
    <3>1. lost[q] \cap lost[r] = {} /\ f \notin lost[q] /\ f \notin lost[r]
      BY <2>7 DEF AccountInv
    <3> QED BY <2>6, <3>1
  <2> QED BY <2>2, <2>8, <2>9, <2>10 DEF AccountInv
<1>6. CASE LogOne
  <2>1. Head(InFlight) \in Frames
    BY <1>1, <1>6, HeadTail DEF LogOne
  <2>2. SetOf(wal)' = SetOf(wal) \cup {Head(InFlight)}
    <3>1. SetOf(Append(wal, Head(InFlight))) = SetOf(wal) \cup {Head(InFlight)}
      BY <1>1, <2>1, SetOfAppend
    <3>2. wal' = Append(wal, Head(InFlight))
      BY <1>6 DEF LogOne
    <3>3. SetOf(wal)' = SetOf(Append(wal, Head(InFlight)))
      BY <3>2
    <3> QED BY <3>1, <3>3
  <2>3. SetOf(InFlight) = {Head(InFlight)} \cup SetOf(InFlight)'
    <3>1. SetOf(InFlight) = {Head(InFlight)} \cup SetOf(Tail(InFlight))
      BY <1>1, <1>6, SetOfHead DEF LogOne
    <3>2. InFlight' = Tail(InFlight)
      BY <1>6 DEF LogOne
    <3>3. SetOf(InFlight)' = SetOf(Tail(InFlight))
      BY <3>2
    <3> QED BY <3>1, <3>3
  <2>4. Held' = Held
    BY <2>2, <2>3 DEF Held
  <2> QED BY <1>6, <2>4 DEF LogOne, AccountInv
<1>7. CASE Nothing
  BY <1>7 DEF Nothing, AccountInv, Held, SetOf
<1> QED BY <1>3, <1>4, <1>5, <1>6, <1>7

LEMMA InitAccount == Init => AccountInv
BY DEF Init, AccountInv

\* An increasing sequence holds a number once or not at all.
LEMMA CountInSequence ==
  ASSUME NEW s \in Seq(Nat), Increasing(s), NEW f
  PROVE  Cardinality({i \in DOMAIN s : s[i] = f}) = IF f \in SetOf(s) THEN 1 ELSE 0
<1> DEFINE I == {i \in DOMAIN s : s[i] = f}
<1>1. CASE f \in SetOf(s)
  <2>1. PICK k \in DOMAIN s : s[k] = f
    BY <1>1 DEF SetOf
  <2>2. ASSUME NEW i \in DOMAIN s, s[i] = f PROVE i = k
    <3>1. i \in Nat /\ k \in Nat /\ s[i] \in Nat
      BY <2>1, LenProperties
    <3>2. ~ (s[i] < s[k]) /\ ~ (s[k] < s[i])
      BY <2>1, <2>2, <3>1
    <3> QED BY <3>1, <3>2 DEF Increasing
  <2>3. I = {k}
    BY <2>1, <2>2
  <2> QED BY <1>1, <2>3, FS_Singleton
<1>2. CASE f \notin SetOf(s)
  <2>1. I = {}
    BY <1>2 DEF SetOf
  <2> QED BY <1>2, <2>1, FS_EmptySet
<1> QED BY <1>1, <1>2

LEMMA AccountFollows ==
  ASSUME TypeOK, FlowOrdered, AccountInv
  PROVE  Conservation
<1>1. /\ wal \in Seq(Nat) /\ InFlight \in Seq(Nat) /\ seen \in Nat
  <2>1. Frames \subseteq Nat
    BY ProbeAssumption DEF Frames
  <2>2. InFlight \in Seq(Frames) /\ wal \in Seq(Frames)
    BY InFlightType DEF TypeOK
  <2>3. seen \in Nat
    BY ProbeAssumption DEF TypeOK
  <2>4. wal \in Seq(Nat)
    BY <2>1, <2>2, SeqMonotonic
  <2>5. InFlight \in Seq(Nat)
    BY <2>1, <2>2, SeqMonotonic
  <2> QED BY <2>3, <2>4, <2>5
<1>2. ASSUME NEW f \in 1 .. seen
      PROVE  1 = Cardinality({i \in DOMAIN wal : wal[i] = f})
               + Cardinality({i \in DOMAIN InFlight : InFlight[i] = f})
               + Cardinality({p \in Places : f \in lost[p]})
  <2> DEFINE P == {p \in Places : f \in lost[p]}
  <2>1. /\ Cardinality({i \in DOMAIN wal : wal[i] = f}) = IF f \in SetOf(wal) THEN 1 ELSE 0
        /\ Cardinality({i \in DOMAIN InFlight : InFlight[i] = f}) =
              IF f \in SetOf(InFlight) THEN 1 ELSE 0
    BY <1>1, CountInSequence DEF FlowOrdered
  <2>2. ~ (f \in SetOf(wal) /\ f \in SetOf(InFlight))
    <3>1. ASSUME NEW i \in DOMAIN wal, NEW j \in DOMAIN InFlight, wal[i] = InFlight[j]
          PROVE  FALSE
      <4>1. wal[i] < InFlight[j] /\ wal[i] \in Nat
        BY <1>1 DEF FlowOrdered, Below
      <4> QED BY <3>1, <4>1
    <3> QED BY <3>1 DEF SetOf
  <2>3. CASE f \in Held
    <3>1. P = {}
      BY <2>3 DEF AccountInv
    <3>2. Cardinality(P) = 0
      BY <3>1, FS_EmptySet
    <3> QED BY <2>1, <2>2, <2>3, <3>2 DEF Held
  <2>4. CASE f \notin Held
    <3>1. PICK p \in Places : f \in lost[p]
      BY <2>4 DEF AccountInv
    <3>2. P = {p}
      BY <3>1 DEF AccountInv
    <3>3. Cardinality(P) = 1
      BY <3>2, FS_Singleton
    <3> QED BY <2>1, <2>4, <3>3 DEF Held
  <2> QED BY <2>3, <2>4
<1>3. ASSUME NEW f \in Held \cup UNION {lost[p] : p \in Places} PROVE f <= seen
  <2>1. ASSUME NEW p \in Places, f \in lost[p] PROVE f <= seen
    <3>1. f \in 1 .. seen
      BY <2>1 DEF AccountInv
    <3> QED BY <3>1, <1>1
  <2> QED BY <1>3, <2>1 DEF Held, SetOf, FlowOrdered
<1> QED BY <1>2, <1>3 DEF Conservation, Held

\* For every capacity, any number of frames and every interleaving: a frame
\* that passed the filter is written, in flight, or given up in one place.
THEOREM FramesAreConserved == Spec => []Conservation
<1> DEFINE Inv == TypeOK /\ OrderInv /\ AccountInv
<1>1. Init => Inv
  BY InitType, InitOrder, InitAccount
<1>2. Inv /\ [Next]_vars => Inv'
  BY NextType, NextOrder, FlowIsOrdered, NextAccount
<1>3. Inv => Conservation
  BY FlowIsOrdered, AccountFollows
<1> QED BY <1>1, <1>2, <1>3, PTL DEF Spec

-----------------------------------------------------------------------------
(***************************************************************************)
(* Who ends degradation.  Two threads clear the flag; these are the only   *)
(* moments at which they do, and what each of them knows then.             *)
(***************************************************************************)
HotClears ==
  /\ wr_pc = "store" /\ QueueCapacity # 0
  /\ HotVerdict(wr_fill, QueueCapacity, Watermark) = "clear"

SamplerClears == smp_pc = "recover" /\ Receded

\* What the sampler's local variable stands for, from reading to reading.
SampledInv ==
  /\ smp_pc = "load" => should_recover = (RssVerdict(rss, RssLimit) = "low")
  /\ smp_pc = "recover" => should_recover = Receded

LEMMA NextSampled ==
  ASSUME SampledInv, [Next]_vars
  PROVE  SampledInv'
<1>1. CASE UNCHANGED samplerVars
  BY <1>1 DEF SampledInv, samplerVars, Receded
<1>2. CASE SampleRss
  BY <1>2 DEF SampledInv, SampleRss
<1>3. CASE SampleLoad
  <2>1. PICK r \in LoadReadings \cup {Unread} :
          /\ load' = r
          /\ should_recover' = (should_recover /\ LoadVerdict(r, LoadLimit) = "low")
    BY <1>3 DEF SampleLoad
  <2>2. /\ smp_pc = "load" /\ smp_pc' = "recover" /\ rss' = rss
        /\ should_recover = (RssVerdict(rss, RssLimit) = "low")
    BY <1>3 DEF SampleLoad, SampledInv
  <2>3. Receded' = (RssVerdict(rss, RssLimit) = "low" /\ LoadVerdict(r, LoadLimit) = "low")
    BY <2>1, <2>2 DEF Receded
  <2>4. should_recover' = Receded'
    BY <2>1, <2>2, <2>3
  <2> QED BY <2>2, <2>4 DEF SampledInv
<1>4. CASE SamplerRecover
  BY <1>4 DEF SampledInv, SamplerRecover
<1>5. CASE CheckStore /\ QueueCapacity = 0
  BY <1>5 DEF SampledInv, CheckStore
<1>6. CASE CheckStore /\ QueueCapacity # 0
  <2>1. UNCHANGED samplerVars
    BY <1>6 DEF CheckStore, samplerVars
  <2> QED BY <1>1, <2>1
<1>7. \/ UNCHANGED samplerVars \/ SamplerStep \/ CheckStore
  BY DEF Next, Kernel, RingSubmit, RingDiscard, RingFull, CaptureStep, CapturePoll, CapturePollError,
         CaptureNext, CaptureDrop, CapturePass, SliceReject, SliceRecord, CaptureSend,
         WriterStep, WriterFail, WriterOpen, CheckLen, WriterRecv, WriterTimeout,
         WriterDisconnected, HandleDrop, HandleAccept, WriteRecord, MaybeRotate,
         vars, samplerVars
<1> QED BY <1>1, <1>2, <1>3, <1>4, <1>5, <1>6, <1>7 DEF SamplerStep

LEMMA WhoClears ==
  ASSUME TypeOK, SampledInv, [Next]_vars, degraded, ~ degraded'
  PROVE  HotClears \/ (SamplerClears /\ Receded')
<1>1. CASE CheckStore
  <2>1. QueueCapacity # 0 /\ wr_pc = "store"
    BY <1>1 DEF CheckStore
  <2>2. CASE HotVerdict(wr_fill, QueueCapacity, Watermark) = "clear"
    BY <2>1, <2>2 DEF HotClears
  <2>3. CASE HotVerdict(wr_fill, QueueCapacity, Watermark) # "clear"
    <3> DEFINE v == HotVerdict(wr_fill, QueueCapacity, Watermark)
    <3>1. v = "set" => SetDegraded(TRUE)
      BY <1>1, <2>1 DEF CheckStore
    <3>2. v \notin {"set", "clear"} => UNCHANGED <<degraded, late>>
      BY <1>1, <2>1 DEF CheckStore
    <3> HIDE DEF v
    <3>3. v = "set" \/ v \notin {"set", "clear"}
      BY <2>3 DEF v
    <3>4. SetDegraded(TRUE) => degraded'
      BY DEF SetDegraded
    <3> QED BY <3>1, <3>2, <3>3, <3>4
  <2> QED BY <2>2, <2>3
<1>2. CASE SamplerRecover
  <2>1. smp_pc = "recover" /\ should_recover /\ UNCHANGED <<rss, load>>
    BY <1>2 DEF SamplerRecover, SetDegraded
  <2> QED BY <2>1 DEF SampledInv, SamplerClears, Receded
<1>3. CASE SampleRss \/ SampleLoad
  BY <1>3 DEF SampleRss, SampleLoad, SetDegraded
<1>4. CheckStore \/ SamplerStep
  BY DEF Next, Kernel, RingSubmit, RingDiscard, RingFull, CaptureStep, CapturePoll, CapturePollError,
         CaptureNext, CaptureDrop, CapturePass, SliceReject, SliceRecord, CaptureSend,
         WriterStep, WriterFail, WriterOpen, CheckLen, WriterRecv, WriterTimeout,
         WriterDisconnected, HandleDrop, HandleAccept, WriteRecord, MaybeRotate, vars
<1> QED BY <1>1, <1>2, <1>3, <1>4 DEF SamplerStep

LEMMA InitSampled == Init => SampledInv
BY DEF Init, SampledInv

\* Degradation ends in two ways only: the writer has seen a fill below half the
\* watermark, or the sampler has seen RSS and load both below their bands.
THEOREM DegradationEnds ==
  Spec => [][degraded /\ ~ degraded' => HotClears \/ SamplerClears]_vars
<1>1. Init => TypeOK /\ SampledInv
  BY InitType, InitSampled
<1>2. TypeOK /\ SampledInv /\ [Next]_vars => TypeOK' /\ SampledInv'
  BY NextType, NextSampled
<1>3. TypeOK /\ SampledInv /\ [Next]_vars
        => [degraded /\ ~ degraded' => HotClears \/ SamplerClears]_vars
  BY WhoClears
<1> QED BY <1>1, <1>2, <1>3, PTL DEF Spec

SamplerSets ==
  \/ smp_pc = "rss" /\ RssVerdict(rss', RssLimit) = "high"
  \/ smp_pc = "load" /\ LoadVerdict(load', LoadLimit) = "high"

LEMMA WhoSets ==
  ASSUME TypeOK, [Next]_vars, ~ degraded, degraded'
  PROVE  Crowded \/ SamplerSets
<1>1. CASE CheckStore
  <2>1. QueueCapacity # 0 /\ wr_pc = "store"
    BY <1>1 DEF CheckStore
  <2>2. CASE HotVerdict(wr_fill, QueueCapacity, Watermark) = "set"
    BY <2>1, <2>2 DEF Crowded
  <2>3. CASE HotVerdict(wr_fill, QueueCapacity, Watermark) # "set"
    <3> DEFINE v == HotVerdict(wr_fill, QueueCapacity, Watermark)
    <3>1. v = "clear" => SetDegraded(FALSE)
      BY <1>1, <2>1 DEF CheckStore
    <3>2. v \notin {"set", "clear"} => UNCHANGED <<degraded, late>>
      BY <1>1, <2>1 DEF CheckStore
    <3> HIDE DEF v
    <3>3. v = "clear" \/ v \notin {"set", "clear"}
      BY <2>3 DEF v
    <3>4. SetDegraded(FALSE) => ~ degraded'
      BY DEF SetDegraded
    <3> QED BY <3>1, <3>2, <3>3, <3>4
  <2> QED BY <2>2, <2>3
<1>2. CASE SampleRss
  BY <1>2 DEF SampleRss, SetDegraded, SamplerSets
<1>3. CASE SampleLoad
  BY <1>3 DEF SampleLoad, SetDegraded, SamplerSets
<1>4. CASE SamplerRecover
  BY <1>4 DEF SamplerRecover, SetDegraded
<1>5. CheckStore \/ SamplerStep
  BY DEF Next, Kernel, RingSubmit, RingDiscard, RingFull, CaptureStep, CapturePoll, CapturePollError,
         CaptureNext, CaptureDrop, CapturePass, SliceReject, SliceRecord, CaptureSend,
         WriterStep, WriterFail, WriterOpen, CheckLen, WriterRecv, WriterTimeout,
         WriterDisconnected, HandleDrop, HandleAccept, WriteRecord, MaybeRotate, vars
<1> QED BY <1>1, <1>2, <1>3, <1>4, <1>5 DEF SamplerStep

\* For every traffic, without a bound on it: the flag rises only by a writer that
\* has read a fill at the watermark, or by a sampler whose reading is above its
\* limit. Where RSS and load have receded, it is the channel alone.
THEOREM DegradationBegins ==
  Spec => [][~ degraded /\ degraded' => Crowded \/ SamplerSets]_vars
<1>1. TypeOK /\ [Next]_vars => [~ degraded /\ degraded' => Crowded \/ SamplerSets]_vars
  BY WhoSets
<1> QED BY <1>1, TypeCorrect, PTL DEF Spec

\* The first way of DegradationEnds is what RecoveryNeedsBoth leaves out: an
\* empty channel is below half of every watermark but 0 and 1, and of those no
\* fill is.
LEMMA HotVerdictAtTheEdges ==
  ASSUME NEW fill \in Nat, NEW capacity \in Nat \ {0}, NEW watermark \in 0 .. 100
  PROVE  /\ watermark >= 2 => HotVerdict(0, capacity, watermark) = "clear"
         /\ watermark <= 1 => HotVerdict(fill, capacity, watermark) # "clear"
         /\ watermark = 0 => HotVerdict(fill, capacity, watermark) = "set"
<1>1. FillPct(0, capacity) = 0
  BY DEF FillPct
<1>2. FillPct(fill, capacity) >= 0
  <2>1. fill * 100 \in Nat
    OBVIOUS
  <2> QED BY <2>1 DEF FillPct
<1>3. watermark >= 2 => 0 < watermark /\ 0 < watermark \div 2
  OBVIOUS
<1>4. watermark <= 1 => watermark \div 2 = 0
  OBVIOUS
<1>5. FillPct(fill, capacity) \in Int
  BY DEF FillPct
<1> QED BY <1>1, <1>2, <1>3, <1>4, <1>5 DEF HotVerdict

\* With a watermark of 0 or 1 the hot path never ends degradation, and what
\* README says holds: it takes both readings below their bands.
THEOREM RecoveryWithoutHotPath ==
  ASSUME Watermark <= 1
  PROVE  Spec => RecoveryNeedsBoth
<1>1. Init => TypeOK /\ SampledInv
  BY InitType, InitSampled
<1>2. TypeOK /\ SampledInv /\ [Next]_vars => TypeOK' /\ SampledInv'
  BY NextType, NextSampled
<1>3. TypeOK => ~ HotClears
  <2> SUFFICES ASSUME TypeOK, HotClears PROVE FALSE
    OBVIOUS
  <2>1. wr_fill \in Nat /\ QueueCapacity \in Nat \ {0} /\ Watermark \in 0 .. 100
    BY ProbeAssumption DEF TypeOK, HotClears
  <2> QED BY <2>1, HotVerdictAtTheEdges DEF HotClears
<1>4. TypeOK /\ SampledInv /\ [Next]_vars => [degraded /\ ~ degraded' => Receded']_vars
  BY <1>3, WhoClears
<1> QED BY <1>1, <1>2, <1>4, PTL DEF Spec, RecoveryNeedsBoth

-----------------------------------------------------------------------------
(***************************************************************************)
(* The bands of the sampler.  The product of the load limit is taken on    *)
(* eight bits: up to 31 the band is the 80 % it is meant to be, above it   *)
(* lies at 25 or below.                                                    *)
(***************************************************************************)
LEMMA LoadBandWraps ==
  ASSUME NEW limit \in 0 .. 255
  PROVE  /\ limit <= 31 => LoadBand(limit) = (limit * 8) \div 10
         /\ limit >= 32 => LoadBand(limit) + 25 <= (limit * 8) \div 10
<1>1. CASE limit <= 31
  BY <1>1 DEF LoadBand
<1>2. CASE limit >= 32
  BY <1>2 DEF LoadBand
<1> QED BY <1>1, <1>2

\* A service whose load limit is at most 31 recovers at 80 % of its limits and
\* below, as the comment has it; every larger limit, the default of 85 among
\* them, has its band at least 25 points lower (LoadBandWraps).
THEOREM RecoveryBelow80 ==
  ASSUME LoadLimit <= 31
  PROVE  Spec => []RecoversBelow80
<1>1. Init => TypeOK /\ SampledInv
  BY InitType, InitSampled
<1>2. TypeOK /\ SampledInv /\ [Next]_vars => TypeOK' /\ SampledInv'
  BY NextType, NextSampled
<1>3. TypeOK /\ SampledInv => RecoversBelow80
  <2> SUFFICES ASSUME TypeOK, SampledInv, smp_pc = "recover",
                      rss * 10 <= RssLimit * 8, load * 10 <= LoadLimit * 8
               PROVE  should_recover
    BY DEF RecoversBelow80
  <2>1. /\ rss \in Nat \cup {Unread} /\ load \in Nat \cup {Unread}
        /\ RssLimit \in Nat /\ LoadLimit \in 0 .. 31
    BY ProbeAssumption DEF TypeOK
  <2>2. RssVerdict(rss, RssLimit) = "low"
    <3>1. rss \in Int /\ rss <= (RssLimit * 8) \div 10 /\ rss <= RssLimit
      BY <2>1 DEF Unread
    <3> QED BY <2>1, <3>1 DEF RssVerdict, RssBand, Verdict
  <2>3. LoadVerdict(load, LoadLimit) = "low"
    <3>1. /\ load \in Int /\ load <= (LoadLimit * 8) \div 10 /\ load <= LoadLimit
          /\ load <= 255
      BY <2>1 DEF Unread
    <3>2. LoadBand(LoadLimit) = (LoadLimit * 8) \div 10
      BY <2>1, LoadBandWraps
    <3> QED BY <2>1, <3>1, <3>2 DEF LoadVerdict, LoadPct, Verdict
  <2> QED BY <2>2, <2>3 DEF SampledInv, Receded
<1> QED BY <1>1, <1>2, <1>3, PTL DEF Spec

-----------------------------------------------------------------------------
\* A channel without room, which validate accepts: the writer divides by zero in
\* its first turn or fails before it, and no frame ever reaches the log.
THEOREM NothingWithoutChannel ==
  ASSUME QueueCapacity = 0
  PROVE  Spec => [](wal = <<>> /\ wr_pc \in {"open", "check", "store", "failed", "panicked"})
<1> DEFINE Idle == wal = <<>> /\ wr_pc \in {"open", "check", "store", "failed", "panicked"}
<1>1. Init => Idle
  BY DEF Init
<1>2. Idle /\ [Next]_vars => Idle'
  <2> SUFFICES ASSUME Idle, [Next]_vars PROVE Idle'
    OBVIOUS
  <2>1. CASE Kernel \/ CaptureStep \/ CapturePollError \/ SamplerStep \/ UNCHANGED vars
    BY <2>1 DEF Kernel, RingSubmit, RingDiscard, RingFull, CaptureStep, CapturePoll, CapturePollError,
                CaptureNext, CaptureDrop, CapturePass, SliceReject, SliceRecord, CaptureSend,
                SamplerStep, SampleRss, SampleLoad, SamplerRecover, vars, writerVars
  <2>2. CASE WriterStep \/ WriterFail
    BY <2>2 DEF WriterStep, WriterFail, WriterOpen, CheckLen, CheckStore, WriterRecv,
                WriterTimeout, WriterDisconnected, HandleDrop, HandleAccept, WriteRecord,
                MaybeRotate
  <2> QED BY <2>1, <2>2 DEF Next
<1> QED BY <1>1, <1>2, PTL DEF Spec

\* The writer has ended with an error, the channel is full, the capture thread
\* waits in send.
Stuck == wr_pc = "failed" /\ cap_pc = "send" /\ Len(queue) = QueueCapacity

\* From there no thread, reading or frame brings the probe back: main's Receiver
\* keeps the channel connected, so that the capture thread waits for ever.
THEOREM StuckForEver == Spec => [](Stuck => []Stuck)
<1>1. TypeOK /\ Stuck /\ [Next]_vars => Stuck'
  <2> SUFFICES ASSUME TypeOK, Stuck, [Next]_vars PROVE Stuck'
    OBVIOUS
  <2>1. CASE Kernel \/ SamplerStep \/ UNCHANGED vars
    BY <2>1 DEF Kernel, RingSubmit, RingDiscard, RingFull, SamplerStep, SampleRss, SampleLoad,
                SamplerRecover, vars, writerVars, Stuck
  <2>2. CASE CaptureStep \/ CapturePollError
    BY <2>2, ProbeAssumption
    DEF CaptureStep, CapturePoll, CapturePollError, CaptureNext, CaptureDrop, CapturePass,
        SliceReject, SliceRecord, CaptureSend, Stuck
  <2>3. CASE WriterStep \/ WriterFail
    BY <2>3 DEF WriterStep, WriterFail, WriterOpen, CheckLen, CheckStore, WriterRecv,
                WriterTimeout, WriterDisconnected, HandleDrop, HandleAccept, WriteRecord,
                MaybeRotate, Stuck
  <2> QED BY <2>1, <2>2, <2>3 DEF Next
<1> QED BY <1>1, TypeCorrect, PTL DEF Spec

=============================================================================
