------------------------- MODULE CapturePathProofs -------------------------
(***************************************************************************)
(* Proofs about module CapturePath: what a reader of the log or of a pcap  *)
(* file can tell of a frame, for every length, limit and set of ports.     *)
(***************************************************************************)
EXTENDS CapturePath, TLAPS

\* MAX_COPY leaves room for slice_bytes behind every header, and one byte more.
CopyCoversSlice == \A f \in Frames : Headers(f) + SliceBytes < MaxCopy

(***************************************************************************)
(* What each stage has made of the frame.  It ties the two lengths of the  *)
(* record to the copy, and the copy to the wire: the properties compare    *)
(* lengths that were cut at different stages.                              *)
(***************************************************************************)
PathInv ==
  /\ stage \in {"wire", "passed", "copied", "rejected", "record", "packet"}
  /\ frame \in Frames
  /\ stage \in {"copied", "record", "packet"} =>
       /\ Selected(frame)
       /\ copied = Min({WireLen(frame), MaxCopy})
  /\ stage \in {"record", "packet"} =>
       /\ copied >= Headers(frame)
       /\ rec.src = frame.src /\ rec.dst = frame.dst
       /\ rec.orig = copied - Headers(frame)
       /\ rec.truncated = Cut(rec.orig)
       /\ rec.payload_len = IF Cut(rec.orig) THEN SliceBytes ELSE rec.orig
  /\ stage = "packet" =>
       /\ pcap.incl = Link + Ip + L4Len(frame) + rec.payload_len
       /\ pcap.orig = PcapOrig(rec, L4Len(frame))

LEMMA MinOfTwo ==
  ASSUME NEW a \in Nat, NEW b \in Nat
  PROVE  Min({a, b}) = IF a <= b THEN a ELSE b
<1>1. CASE a <= b
  <2>1. \A x \in {a, b} : (\A y \in {a, b} : x <= y) <=> x = a
    BY <1>1
  <2> QED BY <1>1, <2>1 DEF Min
<1>2. CASE ~ (a <= b)
  <2>1. \A x \in {a, b} : (\A y \in {a, b} : x <= y) <=> x = b
    BY <1>2
  <2> QED BY <1>2, <2>1 DEF Min
<1> QED BY <1>1, <1>2

LEMMA MaxWithZero ==
  ASSUME NEW a \in Int
  PROVE  Max({0, a}) \in Nat
<1>1. CASE a > 0
  <2>1. \A x \in {0, a} : (\A y \in {0, a} : x >= y) <=> x = a
    BY <1>1
  <2> QED BY <1>1, <2>1 DEF Max
<1>2. CASE ~ (a > 0)
  <2>1. \A x \in {0, a} : (\A y \in {0, a} : x >= y) <=> x = 0
    BY <1>2
  <2> QED BY <2>1 DEF Max
<1> QED BY <1>1, <1>2

\* The lengths of a frame.
LEMMA FrameLengths ==
  ASSUME NEW f \in Frames
  PROVE  /\ L4Len(f) \in Nat /\ Headers(f) \in Nat /\ f.payload \in Nat
         /\ Padding(f) \in Nat
         /\ WireLen(f) = Headers(f) + f.payload + Padding(f)
<1>1. f.options \in Nat /\ f.payload \in Nat
  <2>1. f.options \in Options /\ f.payload \in 0 .. MaxPayload
    BY DEF Frames
  <2>2. Options \subseteq Nat /\ MaxPayload \in Nat
    BY CapturePathAssumption
  <2>3. f.options \in Nat
    BY <2>1, <2>2
  <2>4. f.payload \in Nat
    BY <2>1, <2>2
  <2> QED BY <2>3, <2>4
<1>2. {Link, Ip, Tcp, Udp} \subseteq Nat /\ MinFrame \in Nat
  BY CapturePathAssumption
<1>3. L4Len(f) \in Nat /\ Headers(f) \in Nat
  BY <1>1, <1>2 DEF L4Len, Headers
<1>4. Padding(f) \in Nat
  <2> DEFINE a == MinFrame - Headers(f) - f.payload
  <2>1. a \in Int
    BY <1>1, <1>2, <1>3
  <2> HIDE DEF a
  <2>2. Max({0, a}) \in Nat
    BY <2>1, MaxWithZero
  <2> QED BY <2>2 DEF Padding, a
<1> QED BY <1>1, <1>3, <1>4 DEF WireLen

LEMMA InitPath == Init => PathInv
BY DEF Init, PathInv

LEMMA NextPath ==
  ASSUME PathInv, [Next]_vars
  PROVE  PathInv'
<1>1. CASE ClassifyPass \/ ClassifyDiscard \/ SliceReject
  BY <1>1 DEF PathInv, ClassifyPass, ClassifyDiscard, SliceReject
<1>2. CASE ClassifyCopy
  BY <1>2 DEF PathInv, ClassifyCopy
<1>3. CASE SliceRecord
  BY <1>3 DEF PathInv, SliceRecord
<1>4. CASE Convert
  BY <1>4 DEF PathInv, Convert
<1>5. CASE UNCHANGED vars
  BY <1>5 DEF PathInv, vars
<1> QED BY <1>1, <1>2, <1>3, <1>4, <1>5 DEF Next

\* At every stage the lengths agree with those of the stage before.
THEOREM PathIsKept == Spec => []PathInv
BY InitPath, NextPath, PTL DEF Spec

-----------------------------------------------------------------------------
\* Of a watched conversation both directions are recorded, whatever the ports.
THEOREM BothDirectionsRecorded == Spec => []BothDirections
<1>1. ASSUME PathInv PROVE BothDirections
  <2> SUFFICES ASSUME stage \in {"record", "packet"}
               PROVE  Selected(Reply(frame)) /\ {rec.src, rec.dst} \cap CapturePorts # {}
    BY DEF BothDirections
  <2>1. /\ Selected(frame) /\ frame \in Frames
        /\ rec.src = frame.src /\ rec.dst = frame.dst
    BY <1>1 DEF PathInv
  <2>2. /\ Reply(frame).ether = frame.ether /\ Reply(frame).l4 = frame.l4
        /\ Reply(frame).linear = frame.linear
        /\ Reply(frame).src = frame.dst /\ Reply(frame).dst = frame.src
    BY <2>1 DEF Reply, Frames
  <2> QED BY <2>1, <2>2 DEF Selected, Whitelisted, IsL4
<1> QED BY <1>1, PathIsKept, PTL

\* If the kernel's limit leaves more than slice_bytes behind the headers, a
\* record says truthfully whether its payload was cut, by either limit.
THEOREM TruncationIsVisible ==
  ASSUME CopyCoversSlice
  PROVE  Spec => []TruncationVisible
<1>1. ASSUME PathInv PROVE TruncationVisible
  <2> SUFFICES ASSUME stage = "record"
               PROVE  rec.truncated <=> rec.payload_len < frame.payload + Padding(frame)
    BY DEF TruncationVisible
  <2> DEFINE h == Headers(frame)
             p == frame.payload + Padding(frame)
             app == rec.orig
  <2>1. /\ frame \in Frames
        /\ copied = Min({WireLen(frame), MaxCopy}) /\ copied >= h
        /\ app = copied - h
        /\ rec.truncated = Cut(app)
        /\ rec.payload_len = IF Cut(app) THEN SliceBytes ELSE app
    BY <1>1 DEF PathInv
  <2>2. h \in Nat /\ p \in Nat /\ WireLen(frame) = h + p
    BY <2>1, FrameLengths
  <2>3. MaxCopy \in Nat /\ SliceBytes \in Nat /\ h + SliceBytes < MaxCopy
    BY <2>1, CapturePathAssumption DEF CopyCoversSlice
  <2>4. copied = IF h + p <= MaxCopy THEN h + p ELSE MaxCopy
    BY <2>1, <2>2, <2>3, MinOfTwo
  <2> HIDE DEF h, p, app
  <2>5. rec.truncated <=> app > SliceBytes
    BY <2>1 DEF Cut
  <2>6. rec.payload_len = IF app > SliceBytes THEN SliceBytes ELSE app
    BY <2>1 DEF Cut
  <2>7. CASE h + p <= MaxCopy
    <3>1. app = p
      BY <2>1, <2>2, <2>4, <2>7
    <3> QED BY <2>2, <2>3, <2>5, <2>6, <3>1 DEF p
  <2>8. CASE ~ (h + p <= MaxCopy)
    <3>1. app = MaxCopy - h /\ app > SliceBytes /\ SliceBytes < p
      BY <2>1, <2>2, <2>3, <2>4, <2>8
    <3> QED BY <2>2, <2>3, <2>5, <2>6, <3>1 DEF p
  <2> QED BY <2>7, <2>8
<1> QED BY <1>1, PathIsKept, PTL

\* A packet of the pcap file shows a cut exactly when the record says so, for
\* every combination of the two limits.
THEOREM PcapTellsTruncation == Spec => []PcapShowsTruncation
<1>1. ASSUME PathInv PROVE PcapShowsTruncation
  <2> SUFFICES ASSUME stage = "packet"
               PROVE  /\ rec.truncated <=> pcap.orig > pcap.incl
                      /\ pcap.incl <= pcap.orig
    BY DEF PcapShowsTruncation
  <2> DEFINE app == rec.orig
             k == Link + Ip + L4Len(frame)
  <2>1. /\ frame \in Frames
        /\ copied = Min({WireLen(frame), MaxCopy}) /\ copied >= Headers(frame)
        /\ app = copied - Headers(frame)
        /\ rec.truncated = Cut(app)
        /\ rec.payload_len = IF Cut(app) THEN SliceBytes ELSE app
        /\ pcap.incl = k + rec.payload_len
        /\ pcap.orig = k + app
    BY <1>1 DEF PathInv, PcapOrig
  <2>2. /\ Headers(frame) \in Nat /\ L4Len(frame) \in Nat /\ WireLen(frame) \in Nat
    BY <2>1, FrameLengths
  <2>3. MaxCopy \in Nat /\ SliceBytes \in Nat /\ k \in Nat
    BY <2>2, CapturePathAssumption
  <2>4. copied \in Nat
    BY <2>1, <2>2, <2>3, MinOfTwo
  <2>5. app \in Nat
    BY <2>1, <2>2, <2>4
  <2> HIDE DEF app, k
  <2>6. rec.truncated <=> app > SliceBytes
    BY <2>1 DEF Cut
  <2>7. CASE app > SliceBytes
    <3>1. pcap.incl = k + SliceBytes /\ pcap.orig = k + app
      BY <2>1, <2>7 DEF Cut
    <3>2. pcap.orig > pcap.incl
      BY <2>3, <2>5, <2>7, <3>1
    <3>3. pcap.incl <= pcap.orig
      BY <2>3, <2>5, <2>7, <3>1
    <3> QED BY <2>6, <2>7, <3>2, <3>3
  <2>8. CASE ~ (app > SliceBytes)
    <3>1. pcap.incl = k + app /\ pcap.orig = k + app /\ k + app \in Nat
      BY <2>1, <2>3, <2>5, <2>8 DEF Cut
    <3>2. ~ (pcap.orig > pcap.incl) /\ pcap.incl <= pcap.orig
      BY <3>1
    <3> QED BY <2>6, <2>8, <3>2
  <2> QED BY <2>7, <2>8
<1> QED BY <1>1, PathIsKept, PTL

=============================================================================
