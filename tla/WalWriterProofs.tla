-------------------------- MODULE WalWriterProofs --------------------------
(***************************************************************************)
(* Proofs about module WalWriter: what the segment files hold after any    *)
(* sequence of short writes, write errors, kills and restarts, for every   *)
(* size of the buffer, the segments and the records.                       *)
(***************************************************************************)
EXTENDS WalWriter, TLAPS, SequenceTheorems, FiniteSetTheorems

Cells == Records \X Nat

(***************************************************************************)
(* Where the thread stands: which steps have a record in hand or cells in  *)
(* the buffer, and how many segments are still to come for the records     *)
(* received.  The last gives the bound on the numbers.                     *)
(***************************************************************************)
Pending ==
  IF pc \in {"open", "flush"} THEN IF cur = None THEN 1 ELSE 2
  ELSE IF pc \in {"append", "direct", "rotate"} THEN 1 ELSE 0

Where ==
  /\ pc \in {"append", "direct"} => cur # None
  /\ pc \in {"idle", "rotate", "final_flush", "stopped", "failed", "down"} => cur = None
  /\ cur # None => cur = received
  /\ pc \in {"open", "stopped", "failed", "down"} => buf = <<>>
  /\ seg_no = 0 => pc \in {"open", "failed", "down"}
  /\ pc = "down" => restarts < MaxRestarts
  /\ seg_no + Pending <= 2 * received + restarts + 1

TypeInv == TypeOK /\ Where

\* TypeOK in parts that a step disturbs separately.
ControlOK ==
  /\ pc \in {"open", "idle", "append", "direct", "rotate", "flush", "final_flush",
             "stopped", "failed", "down"}
  /\ received \in 0 .. Len(RecSizes)
  /\ cur \in Records \cup {None}
  /\ written \in Nat
  /\ due \in BOOLEAN
  /\ restarts \in 0 .. MaxRestarts

BufferOK ==
  /\ buf \in Seq(Cells)
  /\ pc # "direct" => Len(buf) <= BufCapacity

NumbersOK ==
  /\ seg_no \in 0 .. MaxSegNo + 1
  /\ live \subseteq 0 .. Open
  /\ cut \subseteq 0 .. Open

FilesOK ==
  /\ disk \in [SegNos -> Seq(Cells)]
  /\ accepted \in [SegNos -> Seq(Cells)]

(***************************************************************************)
(* What the files hold.  While no kill and no error has cut the open       *)
(* segment short, file and buffer together are what was accepted for it.   *)
(***************************************************************************)
Beginning(s, t) == \E u \in Seq(Cells) : s \o u = t

Content ==
  /\ \A s \in SegNos \ live : disk[s] = <<>>
  /\ \A s \in SegNos : s >= seg_no => accepted[s] = <<>>
  /\ seg_no > 0 => Open \in live
  /\ \A s \in live : Beginning(disk[s], accepted[s])
  /\ \A s \in live \ cut : s # Open => disk[s] = accepted[s]
  /\ seg_no > 0 /\ Open \notin cut => disk[Open] \o buf = accepted[Open]
  /\ seg_no > 0 /\ Open \in cut => pc \in {"open", "failed", "down"}

\* The newest record that has been accepted for a segment, or an upper bound.
Newer == IF cur # None /\ pc # "direct" THEN received - 1 ELSE received

Order ==
  /\ \A s \in SegNos : \A i \in DOMAIN accepted[s] : accepted[s][i][1] <= Newer
  /\ \A s, t \in SegNos : s < t =>
       \A i \in DOMAIN accepted[s], j \in DOMAIN accepted[t] :
         accepted[s][i][1] < accepted[t][j][1]

OneRecord(s) == \A i \in DOMAIN s : s[i][1] = s[1][1]

Sizes ==
  /\ \A s \in SegNos : Len(accepted[s]) <= SegmentSize \/ OneRecord(accepted[s])
  /\ pc \in {"idle", "append", "rotate"} => Len(accepted[Open]) = written
  /\ pc = "direct" => Len(accepted[Open]) = written + RecSizes[cur]
  /\ pc = "append" => written + RecSizes[cur] <= SegmentSize \/ accepted[Open] = <<>>

-----------------------------------------------------------------------------
(* Constants and helpers.                                                  *)

LEMMA Numbers ==
  /\ Len(RecSizes) \in Nat /\ Records \subseteq Nat \ {0} /\ MaxSegNo \in Nat
  /\ BufCapacity \in Nat \ {0} /\ SegmentSize \in Nat \ {0}
  /\ MaxSegments \in Nat \ {0} /\ MaxRestarts \in Nat
  /\ \A r \in Records : RecSizes[r] \in Nat \ {0}
<1>1. /\ RecSizes \in Seq(Nat \ {0}) /\ MaxRestarts \in Nat
      /\ BufCapacity \in Nat \ {0} /\ SegmentSize \in Nat \ {0} /\ MaxSegments \in Nat \ {0}
  BY WalWriterAssumption
<1>2. Len(RecSizes) \in Nat /\ RecSizes \in [1 .. Len(RecSizes) -> Nat \ {0}]
  BY <1>1, LenProperties
<1>3. \A r \in Records : RecSizes[r] \in Nat \ {0}
  BY <1>2 DEF Records
<1> QED BY <1>1, <1>2, <1>3 DEF Records, MaxSegNo

LEMMA EncodedIs ==
  ASSUME NEW r \in Records
  PROVE  /\ Encoded(r) \in Seq(Cells) /\ Len(Encoded(r)) = RecSizes[r]
         /\ \A i \in DOMAIN Encoded(r) : Encoded(r)[i][1] = r
<1>1. RecSizes[r] \in Nat
  BY Numbers
<1>2. Encoded(r) \in [1 .. RecSizes[r] -> Cells]
  BY <1>1 DEF Encoded, Cells
<1>3. Encoded(r) \in Seq(Cells)
  BY <1>1, <1>2, SeqDef
<1>4. DOMAIN Encoded(r) = 1 .. RecSizes[r]
  BY <1>2
<1>5. Len(Encoded(r)) = RecSizes[r]
  BY <1>1, <1>3, <1>4, LenProperties
<1>6. \A i \in DOMAIN Encoded(r) : Encoded(r)[i][1] = r
  BY <1>4 DEF Encoded
<1> QED BY <1>3, <1>5, <1>6

\* Unlink-Oldest leaves the newest file.
LEMMA NewestIs ==
  ASSUME NEW n \in Nat, NEW S \in SUBSET (0 .. n), n \in S
  PROVE  Newest(S) \subseteq S /\ n \in Newest(S)
<1>1. \A t \in S : t \in 0 .. n /\ ~ (t > n)
  OBVIOUS
<1>2. Cardinality({t \in S : t > n}) < MaxSegments
  <2>1. {t \in S : t > n} = {}
    BY <1>1
  <2>2. Cardinality({}) = 0
    BY FS_EmptySet
  <2>3. 0 < MaxSegments
    BY Numbers
  <2> QED BY <2>1, <2>2, <2>3
<1> QED BY <1>2 DEF Newest

\* The two parts of the buffer when n of its cells have gone out.
LEMMA BufferParts ==
  ASSUME buf \in Seq(Cells), NEW n \in 0 .. Len(buf)
  PROVE  /\ SubSeq(buf, 1, n) \in Seq(Cells)
         /\ SubSeq(buf, n + 1, Len(buf)) \in Seq(Cells)
         /\ Len(SubSeq(buf, n + 1, Len(buf))) = Len(buf) - n
         /\ SubSeq(buf, 1, n) \o SubSeq(buf, n + 1, Len(buf)) = buf
<1>1. Len(buf) \in Nat /\ \A i \in 1 .. Len(buf) : buf[i] \in Cells
  BY LenProperties, ElementOfSeq
<1>2. SubSeq(buf, 1, n) \in Seq(Cells)
  <2>1. \A i \in 1 .. n : buf[i] \in Cells
    BY <1>1
  <2> QED BY <1>1, <2>1, SubSeqProperties
<1>3. /\ SubSeq(buf, n + 1, Len(buf)) \in Seq(Cells)
      /\ Len(SubSeq(buf, n + 1, Len(buf))) = Len(buf) - n
  <2>1. \A i \in n + 1 .. Len(buf) : buf[i] \in Cells
    BY <1>1
  <2>2. /\ SubSeq(buf, n + 1, Len(buf)) \in Seq(Cells)
        /\ Len(SubSeq(buf, n + 1, Len(buf))) =
              IF n + 1 <= Len(buf) THEN Len(buf) - (n + 1) + 1 ELSE 0
    BY <1>1, <2>1, SubSeqProperties
  <2> QED BY <1>1, <2>2
<1>4. SubSeq(buf, 1, n) \o SubSeq(buf, n + 1, Len(buf)) = SubSeq(buf, 1, Len(buf))
  <2>1. /\ 1 \in 1 .. Len(buf) + 1 /\ n \in 1 - 1 .. Len(buf) /\ Len(buf) \in n .. Len(buf)
    BY <1>1
  <2> QED BY <2>1, ConcatAdjacentSubSeq
<1> QED BY <1>2, <1>3, <1>4, SubSeqFull

LEMMA SpillIs ==
  ASSUME TypeOK, NEW n \in 0 .. Len(buf)
  PROVE  /\ Spill(n) \in [SegNos -> Seq(Cells)]
         /\ \A s \in SegNos : Spill(n)[s] = IF s = Open THEN disk[s] \o SubSeq(buf, 1, n)
                                            ELSE disk[s]
<1>1. buf \in Seq(Cells) /\ disk \in [SegNos -> Seq(Cells)]
  BY DEF TypeOK, Cells
<1>2. SubSeq(buf, 1, n) \in Seq(Cells)
  BY <1>1, BufferParts
<1>3. \A s \in SegNos : disk[s] \in Seq(Cells) /\ disk[s] \o SubSeq(buf, 1, n) \in Seq(Cells)
  BY <1>1, <1>2, ConcatProperties
<1> QED BY <1>3 DEF Spill

LEMMA OnlyIs ==
  ASSUME NEW S, NEW contents \in [SegNos -> Seq(Cells)]
  PROVE  /\ Only(S, contents) \in [SegNos -> Seq(Cells)]
         /\ \A s \in SegNos : Only(S, contents)[s] = IF s \in S THEN contents[s] ELSE <<>>
<1>1. <<>> \in Seq(Cells)
  BY EmptySeq
<1> QED BY <1>1 DEF Only

LEMMA BeginningIsPrefix ==
  ASSUME NEW s \in Seq(Cells), NEW t \in Seq(Cells), Beginning(s, t)
  PROVE  IsPrefix(s, t)
<1>1. PICK u \in Seq(Cells) : s \o u = t
  BY DEF Beginning
<1>2. Len(s) \in Nat /\ Len(u) \in Nat /\ Len(t) = Len(s) + Len(u)
  BY <1>1, LenProperties, ConcatProperties
<1>3. SubSeq(s, 1, Len(s)) = SubSeq(t, 1, Len(s))
  <2>1. CASE Len(s) = 0
    BY <2>1, SubSeqEmpty
  <2>2. CASE Len(s) # 0
    BY <1>1, <1>2, <2>2, SubSeqOfConcat1
  <2> QED BY <2>1, <2>2
<1> QED BY <1>2, <1>3 DEF IsPrefix

-----------------------------------------------------------------------------
(* Types, and where the thread stands.                                     *)

LEMMA TypeParts == TypeOK <=> ControlOK /\ BufferOK /\ NumbersOK /\ FilesOK
BY DEF TypeOK, ControlOK, BufferOK, NumbersOK, FilesOK, Cells

LEMMA InitType == Init => TypeInv
<1> SUFFICES ASSUME Init PROVE TypeInv
  OBVIOUS
<1>1. <<>> \in Seq(Cells) /\ Len(<<>>) = 0
  BY EmptySeq
<1>2. ControlOK
  <2>1. Len(RecSizes) \in Nat /\ MaxRestarts \in Nat
    BY Numbers
  <2>2. received \in 0 .. Len(RecSizes) /\ restarts \in 0 .. MaxRestarts
    BY <2>1 DEF Init
  <2>3. cur \in Records \cup {None} /\ written \in Nat /\ due \in BOOLEAN
    BY DEF Init
  <2> QED BY <2>2, <2>3 DEF Init, ControlOK
<1>3. BufferOK
  BY <1>1, Numbers DEF Init, BufferOK
<1>4. NumbersOK
  BY Numbers DEF Init, NumbersOK
<1>5. FilesOK
  BY <1>1 DEF Init, FilesOK
<1>6. Where
  BY DEF Init, Where, Pending, None
<1> QED BY <1>2, <1>3, <1>4, <1>5, <1>6, TypeParts DEF TypeInv

\* The files after an opening: those of a set that has the new one in it.
LEMMA OpenedFiles ==
  ASSUME TypeInv, pc = "open"
  PROVE  /\ seg_no \in 0 .. MaxSegNo
         /\ live \cup {seg_no} \in SUBSET (0 .. seg_no)
         /\ Newest(live \cup {seg_no}) \subseteq live \cup {seg_no}
         /\ seg_no \in Newest(live \cup {seg_no})
<1>1. seg_no \in Nat /\ live \subseteq 0 .. seg_no - 1
  BY Numbers DEF TypeInv, TypeOK, Open
<1>2. seg_no \in 0 .. MaxSegNo
  <2>1. seg_no + 1 <= 2 * received + restarts + 1
    <3>1. Pending \in {1, 2}
      BY DEF TypeInv, Pending
    <3>2. seg_no + Pending <= 2 * received + restarts + 1
      BY DEF TypeInv, Where
    <3>3. received \in Nat /\ restarts \in Nat
      BY Numbers DEF TypeInv, TypeOK
    <3> QED BY <1>1, <3>1, <3>2, <3>3
  <2>2. received \in 0 .. Len(RecSizes) /\ restarts \in 0 .. MaxRestarts
    BY DEF TypeInv, TypeOK
  <2> QED BY <1>1, <2>1, <2>2, Numbers DEF MaxSegNo
<1>3. live \cup {seg_no} \in SUBSET (0 .. seg_no)
  BY <1>1
<1> QED BY <1>1, <1>2, <1>3, NewestIs

LEMMA NextType ==
  ASSUME TypeInv, [Next]_vars
  PROVE  TypeInv'
<1>1. /\ seg_no \in Nat /\ received \in Nat /\ restarts \in Nat /\ written \in Nat
      /\ buf \in Seq(Cells) /\ Len(buf) \in Nat
      /\ disk \in [SegNos -> Seq(Cells)] /\ accepted \in [SegNos -> Seq(Cells)]
      /\ live \subseteq 0 .. Open /\ cut \subseteq 0 .. Open
  <2>1. buf \in Seq(Cells) /\ disk \in [SegNos -> Seq(Cells)] /\ accepted \in [SegNos -> Seq(Cells)]
    BY DEF TypeInv, TypeOK, Cells
  <2> QED BY <2>1, Numbers, LenProperties DEF TypeInv, TypeOK
<1>2. <<>> \in Seq(Cells) /\ Len(<<>>) = 0 /\ 0 <= BufCapacity
  BY EmptySeq, Numbers
<1>3. ControlOK /\ BufferOK /\ NumbersOK /\ FilesOK /\ Where
  BY TypeParts DEF TypeInv
<1>4. SUFFICES ControlOK' /\ BufferOK' /\ NumbersOK' /\ FilesOK' /\ Where'
  BY TypeParts DEF TypeInv, TypeOK, ControlOK, BufferOK, NumbersOK, FilesOK, Cells
\* The steps that touch neither the buffer nor the files.
<1>5. ASSUME UNCHANGED <<buf, seg_no, live, disk, accepted, cut>>, pc # "direct" \/ buf = <<>>
      PROVE  BufferOK' /\ NumbersOK' /\ FilesOK'
  <2>1. BufferOK'
    BY <1>2, <1>3, <1>5 DEF BufferOK
  <2> QED BY <1>3, <1>5, <2>1 DEF NumbersOK, FilesOK, Open
<1>6. CASE ReceiveDegraded
  <2>1. ControlOK'
    BY <1>3, <1>6, Numbers DEF ControlOK, ReceiveDegraded
  <2>2. Where'
    BY <1>1, <1>3, <1>6 DEF Where, Pending, ReceiveDegraded
  <2> QED BY <1>5, <1>6, <2>1, <2>2 DEF ReceiveDegraded
<1>7. CASE Receive
  <2>1. received + 1 \in Records /\ received + 1 # None /\ cur = None /\ seg_no # 0
    BY <1>1, <1>3, <1>7, Numbers DEF Where, Receive, Records, None
  <2>2. ControlOK'
    BY <1>3, <1>7, <2>1, Numbers DEF ControlOK, Receive
  <2>3. Where'
    BY <1>1, <1>3, <1>7, <2>1 DEF Where, Pending, Receive
  <2> QED BY <1>5, <1>7, <2>2, <2>3 DEF Receive
<1>8. CASE Disconnected \/ FlushDone \/ MaybeRotate
  <2>1. ControlOK'
    BY <1>3, <1>8 DEF ControlOK, Disconnected, FlushDone, MaybeRotate
  <2>2. Where'
    BY <1>1, <1>3, <1>8 DEF Where, Pending, Disconnected, FlushDone, MaybeRotate, None
  <2> QED BY <1>5, <1>8, <2>1, <2>2 DEF Disconnected, FlushDone, MaybeRotate
<1>9. CASE DirectDone
  <2>1. cur \in Records /\ written + RecSizes[cur] \in Nat
    BY <1>1, <1>3, <1>9, Numbers DEF Where, ControlOK, DirectDone
  <2>2. ControlOK'
    BY <1>3, <1>9, <2>1 DEF ControlOK, DirectDone
  <2>3. Where'
    BY <1>1, <1>3, <1>9 DEF Where, Pending, DirectDone, None
  <2> QED BY <1>5, <1>9, <2>2, <2>3 DEF DirectDone
<1>10. CASE Tick \/ UNCHANGED vars
  <2>1. ControlOK' /\ Where' /\ BufferOK' /\ NumbersOK' /\ FilesOK'
    BY <1>3, <1>10
       DEF ControlOK, BufferOK, NumbersOK, FilesOK, Where, Pending, Tick, vars, Open
  <2> QED BY <2>1
<1>11. CASE Restart
  <2>1. restarts + 1 \in 0 .. MaxRestarts
    BY <1>1, <1>3, <1>11, Numbers DEF Where, Restart
  <2>2. ControlOK'
    BY <1>3, <1>11, <2>1 DEF ControlOK, Restart
  <2>3. Where'
    BY <1>1, <1>3, <1>11 DEF Where, Pending, Restart
  <2> QED BY <1>5, <1>11, <2>2, <2>3 DEF Restart
\* The steps that give a record to the buffer.
<1>12. CASE AppendBuffered \/ AppendDirect
  <2>1. cur \in Records /\ Open \in SegNos /\ seg_no # 0
    <3>1. cur # None /\ seg_no # 0
      BY <1>3, <1>12 DEF Where, AppendBuffered, AppendDirect
    <3> QED BY <1>1, <1>3, <3>1, Numbers DEF ControlOK, NumbersOK, Open, SegNos
  <2>2. Encoded(cur) \in Seq(Cells) /\ Len(Encoded(cur)) = RecSizes[cur]
    BY <2>1, EncodedIs
  <2>3. /\ buf \o Encoded(cur) \in Seq(Cells)
        /\ Len(buf \o Encoded(cur)) = Len(buf) + RecSizes[cur]
    <3>1. Len(buf \o Encoded(cur)) = Len(buf) + Len(Encoded(cur))
      BY <1>1, <2>2, ConcatProperties
    <3> QED BY <1>1, <2>2, <3>1, ConcatProperties
  <2>4. FilesOK'
    <3>1. accepted[Open] \o Encoded(cur) \in Seq(Cells)
      BY <1>1, <2>1, <2>2, ConcatProperties
    <3> QED BY <1>1, <1>12, <3>1 DEF FilesOK, AppendBuffered, AppendDirect
  <2>5. written + RecSizes[cur] \in Nat
    BY <1>1, <2>1, Numbers
  <2>6. NumbersOK'
    BY <1>3, <1>12 DEF NumbersOK, AppendBuffered, AppendDirect, Open
  <2>7. CASE AppendBuffered
    <3>1. ControlOK' /\ BufferOK'
      BY <1>3, <2>3, <2>5, <2>7 DEF ControlOK, BufferOK, AppendBuffered
    <3>2. Where'
      BY <1>1, <1>3, <2>1, <2>7 DEF Where, Pending, AppendBuffered, None
    <3> QED BY <2>4, <2>6, <3>1, <3>2
  <2>8. CASE AppendDirect
    <3>1. ControlOK' /\ BufferOK'
      BY <1>3, <2>2, <2>8 DEF ControlOK, BufferOK, AppendDirect
    <3>2. Where'
      BY <1>1, <1>3, <2>1, <2>8 DEF Where, Pending, AppendDirect
    <3> QED BY <2>4, <2>6, <3>1, <3>2
  <2> QED BY <1>12, <2>7, <2>8
\* The steps that write to the open file.
<1>13. CASE WriteSome
  <2>1. PICK n \in 1 .. Len(buf) : disk' = Spill(n) /\ buf' = SubSeq(buf, n + 1, Len(buf))
    BY <1>13 DEF WriteSome
  <2>2. n \in 0 .. Len(buf) /\ Len(buf) - n <= Len(buf) /\ buf # <<>>
    BY <1>1, <1>2, <2>1
  <2>3. disk' \in [SegNos -> Seq(Cells)]
    BY <2>1, <2>2, SpillIs DEF TypeInv
  <2>4. buf' \in Seq(Cells) /\ Len(buf') = Len(buf) - n
    BY <1>1, <2>1, <2>2, BufferParts
  <2>5. BufferOK'
    <3>1. UNCHANGED pc
      BY <1>13 DEF WriteSome
    <3>2. Len(buf) <= BufCapacity => Len(buf') <= BufCapacity
      BY <1>1, <2>2, <2>4, Numbers
    <3> QED BY <1>3, <2>4, <3>1, <3>2 DEF BufferOK
  <2>6. ControlOK' /\ NumbersOK' /\ FilesOK'
    BY <1>3, <1>13, <2>3 DEF ControlOK, NumbersOK, FilesOK, WriteSome, Open
  <2>7. Where'
    BY <1>1, <1>3, <1>13, <2>2 DEF Where, Pending, WriteSome, Flushing, Spilling
  <2> QED BY <2>5, <2>6, <2>7
<1>14. CASE WriteFails
  <2>1. PICK n \in 0 .. Len(buf) : disk' = Spill(n)
    BY <1>14 DEF WriteFails
  <2>2. disk' \in [SegNos -> Seq(Cells)]
    BY <2>1, SpillIs DEF TypeInv
  <2>3. Open \in 0 .. Open
    BY <1>1, <1>3, <1>14 DEF Where, WriteFails, Flushing, Spilling, Open
  <2>4. ControlOK' /\ FilesOK'
    BY <1>3, <1>14, <2>2 DEF ControlOK, FilesOK, WriteFails
  <2>5. BufferOK'
    BY <1>2, <1>14 DEF BufferOK, WriteFails
  <2>6. NumbersOK'
    BY <1>3, <1>14, <2>3 DEF NumbersOK, WriteFails, Open
  <2>7. Where'
    BY <1>1, <1>3, <1>14 DEF Where, Pending, WriteFails
  <2> QED BY <2>4, <2>5, <2>6, <2>7
\* The steps that open a segment.
<1>15. CASE OpenSegment \/ OpenFails
  <2>1. /\ seg_no \in 0 .. MaxSegNo
        /\ live \cup {seg_no} \in SUBSET (0 .. seg_no)
        /\ Newest(live \cup {seg_no}) \subseteq live \cup {seg_no}
    BY <1>15, OpenedFiles DEF OpenSegment, OpenFails
  <2>2. FilesOK'
    <3>1. PICK n \in 0 .. Len(buf) : disk' = Only(live', Spill(n))
      BY <1>15 DEF OpenSegment, OpenFails
    <3>2. Spill(n) \in [SegNos -> Seq(Cells)]
      BY SpillIs DEF TypeInv
    <3>3. disk' \in [SegNos -> Seq(Cells)]
      BY <3>1, <3>2, OnlyIs
    <3> QED BY <1>1, <1>15, <3>3 DEF FilesOK, OpenSegment, OpenFails
  <2>3. NumbersOK' /\ seg_no' <= seg_no + 1
    <3>1. /\ \/ UNCHANGED <<seg_no, live>>
             \/ seg_no' = seg_no + 1 /\ live' \subseteq live \cup {seg_no}
          /\ cut' = cut
      BY <1>15, <2>1 DEF OpenSegment, OpenFails
    <3>2. CASE UNCHANGED <<seg_no, live>>
      BY <1>1, <1>3, <3>1, <3>2 DEF NumbersOK, Open
    <3>3. CASE seg_no' = seg_no + 1 /\ live' \subseteq live \cup {seg_no}
      <4>1. Open' = seg_no /\ seg_no' \in 0 .. MaxSegNo + 1 /\ seg_no' <= seg_no + 1
        BY <1>1, <2>1, <3>3, Numbers DEF Open
      <4>2. cut' \subseteq 0 .. seg_no
        BY <1>1, <3>1 DEF Open
      <4>3. live' \subseteq 0 .. seg_no
        BY <2>1, <3>3
      <4> QED BY <4>1, <4>2, <4>3 DEF NumbersOK
    <3> QED BY <3>1, <3>2, <3>3
  <2>4. ControlOK'
    <3>1. /\ UNCHANGED <<received, restarts>> /\ cur' \in {cur, None}
          /\ pc' \in {"idle", "append", "failed"}
          /\ written' \in {written, 0} /\ due' \in {due, FALSE}
      BY <1>15 DEF OpenSegment, OpenFails
    <3>2. cur' \in Records \cup {None} /\ written' \in Nat
      BY <1>3, <3>1 DEF ControlOK
    <3>3. due' \in BOOLEAN
      BY <1>3, <3>1 DEF ControlOK
    <3> QED BY <1>3, <3>1, <3>2, <3>3 DEF ControlOK
  <2>5. BufferOK'
    BY <1>2, <1>15 DEF BufferOK, OpenSegment, OpenFails
  <2>6. CASE OpenSegment
    <3>1. Where'
      BY <1>1, <1>3, <2>6 DEF Where, Pending, OpenSegment
    <3> QED BY <2>2, <2>3, <2>4, <2>5, <3>1
  <2>7. CASE OpenFails
    <3>1. pc = "open" /\ pc' = "failed" /\ cur' = None /\ buf' = <<>>
          /\ UNCHANGED <<received, restarts>>
      BY <2>7 DEF OpenFails
    <3>2. seg_no + 1 <= 2 * received + restarts + 1
      BY <1>1, <1>3, <3>1 DEF Where, Pending
    <3>3. seg_no' \in Nat
      BY <2>3, Numbers DEF NumbersOK
    <3>4. seg_no' + 0 <= 2 * received + restarts + 1
      <4>1. seg_no \in Nat /\ received \in Nat /\ restarts \in Nat
        BY <1>1
      <4>2. seg_no' <= seg_no + 1
        BY <2>3
      <4> DEFINE n == seg_no'
      <4>3. n \in Nat /\ n <= seg_no + 1
        BY <3>3, <4>2
      <4> HIDE DEF n
      <4>4. n + 0 <= 2 * received + restarts + 1
        BY <3>2, <4>1, <4>3
      <4> QED BY <4>4 DEF n
    <3>5. Where'
      BY <3>1, <3>4 DEF Where, Pending
    <3> QED BY <2>2, <2>3, <2>4, <2>5, <3>5
  <2> QED BY <1>15, <2>6, <2>7
<1>16. CASE Crash
  <2>1. NumbersOK'
    <3>1. seg_no # 0 => Open \in 0 .. Open
      BY <1>1 DEF Open
    <3> QED BY <1>3, <1>16, <3>1 DEF NumbersOK, Crash, Open
  <2>2. ControlOK' /\ FilesOK'
    BY <1>3, <1>16 DEF ControlOK, FilesOK, Crash
  <2>3. BufferOK'
    BY <1>2, <1>16 DEF BufferOK, Crash
  <2>4. Where'
    BY <1>1, <1>3, <1>16 DEF Where, Pending, Crash
  <2> QED BY <2>1, <2>2, <2>3, <2>4
<1> QED BY <1>6, <1>7, <1>8, <1>9, <1>10, <1>11, <1>12, <1>13, <1>14, <1>15, <1>16
        DEF Next, WriterStep

\* Every reachable state is well typed and the numbers stay in their range.
THEOREM TypeCorrect == Spec => []TypeOK
<1>1. Spec => []TypeInv
  BY InitType, NextType, PTL DEF Spec
<1>2. TypeInv => TypeOK
  BY DEF TypeInv
<1> QED BY <1>1, <1>2, PTL

-----------------------------------------------------------------------------
(* What the files hold.                                                    *)

LEMMA Joined ==
  ASSUME NEW s \in Seq(Cells), NEW t \in Seq(Cells)
  PROVE  s \o t \in Seq(Cells)
BY ConcatProperties

LEMMA Associative ==
  ASSUME NEW s \in Seq(Cells), NEW t \in Seq(Cells), NEW u \in Seq(Cells)
  PROVE  (s \o t) \o u = s \o (t \o u)
BY ConcatAssociative

LEMMA BeginningSelf ==
  ASSUME NEW s \in Seq(Cells)
  PROVE  Beginning(s, s)
<1>1. <<>> \in Seq(Cells) /\ s \o <<>> = s
  BY EmptySeq, ConcatEmptySeq
<1> QED BY <1>1 DEF Beginning

LEMMA BeginningConcat ==
  ASSUME NEW s \in Seq(Cells), NEW t \in Seq(Cells), NEW e \in Seq(Cells), Beginning(s, t)
  PROVE  Beginning(s, t \o e)
<1>1. PICK u \in Seq(Cells) : s \o u = t
  BY DEF Beginning
<1>2. u \o e \in Seq(Cells)
  BY Joined
<1>3. (s \o u) \o e = s \o (u \o e)
  BY Associative
<1> QED BY <1>1, <1>2, <1>3 DEF Beginning

\* Nothing goes out of an empty buffer.
LEMMA NoSpill ==
  ASSUME TypeOK, buf = <<>>, NEW n \in 0 .. Len(buf)
  PROVE  Spill(n) = disk
<1>1. disk \in [SegNos -> Seq(Cells)]
  BY DEF TypeOK, Cells
<1>2. n = 0
  BY EmptySeq
<1>3. SubSeq(buf, 1, n) = <<>>
  BY <1>2, SubSeqEmpty
<1>4. \A s \in SegNos : Spill(n)[s] = disk[s]
  <2> SUFFICES ASSUME NEW s \in SegNos PROVE Spill(n)[s] = disk[s]
    OBVIOUS
  <2>1. disk[s] \o <<>> = disk[s]
    BY <1>1, ConcatEmptySeq
  <2> QED BY <1>3, <2>1, SpillIs
<1> QED BY <1>1, <1>4, SpillIs

LEMMA Facts ==
  ASSUME TypeInv
  PROVE  /\ seg_no \in Nat /\ buf \in Seq(Cells)
         /\ disk \in [SegNos -> Seq(Cells)] /\ accepted \in [SegNos -> Seq(Cells)]
         /\ live \subseteq 0 .. Open /\ cut \subseteq 0 .. Open
         /\ live \subseteq SegNos
         /\ seg_no > 0 => Open \in SegNos
<1>1. seg_no \in 0 .. MaxSegNo + 1 /\ live \subseteq 0 .. Open /\ cut \subseteq 0 .. Open
  BY DEF TypeInv, TypeOK
<1>2. buf \in Seq(Cells) /\ disk \in [SegNos -> Seq(Cells)] /\ accepted \in [SegNos -> Seq(Cells)]
  BY DEF TypeInv, TypeOK, Cells
<1>3. Open <= MaxSegNo /\ seg_no \in Nat /\ (seg_no > 0 => Open \in Nat)
  BY <1>1, Numbers DEF Open
<1>4. 0 .. Open \subseteq SegNos
  BY <1>1, <1>3, Numbers DEF Open, SegNos
<1> QED BY <1>1, <1>2, <1>3, <1>4, Numbers DEF Open, SegNos

LEMMA InitContent == Init => Content
BY Numbers DEF Init, Content

\* A new, empty file; the one before is whole, since the buffer is empty, or was
\* cut short before this.
LEMMA OpenedContent ==
  ASSUME TypeInv, Content, pc = "open",
         seg_no' = seg_no + 1, live' \subseteq live \cup {seg_no}, seg_no \in live',
         disk' = Only(live', disk), buf' = <<>>, UNCHANGED <<accepted, cut>>
  PROVE  Content'
<1>1. /\ seg_no \in 0 .. MaxSegNo /\ buf = <<>> /\ seg_no \in SegNos /\ seg_no \in Nat
      /\ Open' = seg_no
  BY OpenedFiles, Numbers DEF TypeInv, Where, SegNos, Open
<1>2. /\ disk \in [SegNos -> Seq(Cells)] /\ accepted \in [SegNos -> Seq(Cells)]
      /\ \A s \in live \cup cut : s \in Nat /\ s < seg_no
      /\ live \subseteq SegNos
  BY Facts DEF Open
<1>3. seg_no \notin live /\ seg_no \notin cut
  BY <1>1, <1>2
<1>4. \A s \in SegNos : disk'[s] = IF s \in live' THEN disk[s] ELSE <<>>
  BY <1>2, OnlyIs
<1>5. disk[seg_no] = <<>> /\ accepted[seg_no] = <<>> /\ disk'[seg_no] = <<>>
  BY <1>1, <1>3, <1>4 DEF Content
<1>6. \A s \in SegNos \ live' : disk'[s] = <<>>
  BY <1>4
<1>7. \A s \in SegNos : s >= seg_no' => accepted'[s] = <<>>
  BY <1>1 DEF Content, SegNos
<1>8. \A s \in live' : Beginning(disk'[s], accepted'[s])
  <2> SUFFICES ASSUME NEW s \in live' PROVE Beginning(disk'[s], accepted'[s])
    OBVIOUS
  <2>1. CASE s = seg_no
    <3>1. Beginning(<<>>, <<>>)
      BY EmptySeq, BeginningSelf
    <3> QED BY <1>5, <2>1, <3>1
  <2>2. CASE s \in live
    <3>1. disk'[s] = disk[s]
      BY <1>2, <1>4, <2>2
    <3> QED BY <2>2, <3>1 DEF Content
  <2> QED BY <2>1, <2>2
<1>9. \A s \in live' \ cut' : s # Open' => disk'[s] = accepted'[s]
  <2> SUFFICES ASSUME NEW s \in live', s \notin cut, s # seg_no PROVE disk'[s] = accepted[s]
    BY <1>1
  <2>1. s \in live /\ s \in SegNos /\ disk'[s] = disk[s]
    BY <1>2, <1>4
  <2>2. CASE s # Open
    BY <2>1, <2>2 DEF Content
  <2>3. CASE s = Open
    <3>1. seg_no > 0
      BY <1>1, <1>2, <2>1, <2>3 DEF Open
    <3>2. disk[s] \o <<>> = accepted[s]
      BY <1>1, <2>3, <3>1 DEF Content
    <3>3. disk[s] \o <<>> = disk[s]
      BY <1>2, <2>1, ConcatEmptySeq
    <3> QED BY <2>1, <3>2, <3>3
  <2> QED BY <2>2, <2>3
<1>10. disk'[Open'] \o buf' = accepted'[Open']
  <2>1. <<>> \o <<>> = <<>>
    BY EmptySeq, ConcatEmptySeq
  <2> QED BY <1>1, <1>5, <2>1
<1>11. Open' \in live' /\ Open' \notin cut'
  BY <1>1, <1>3
<1> QED BY <1>6, <1>7, <1>8, <1>9, <1>10, <1>11 DEF Content

LEMMA NextContent ==
  ASSUME TypeInv, Content, [Next]_vars
  PROVE  Content'
<1>1. /\ seg_no \in Nat /\ buf \in Seq(Cells) /\ live \subseteq SegNos
      /\ disk \in [SegNos -> Seq(Cells)] /\ accepted \in [SegNos -> Seq(Cells)]
      /\ seg_no > 0 => Open \in SegNos
  BY Facts
<1>2. <<>> \in Seq(Cells)
  BY EmptySeq
\* While the thread is in the loop, nothing has cut the open segment short.
<1>3. ASSUME pc \notin {"open", "failed", "down"}
      PROVE  /\ seg_no > 0 /\ Open \in live /\ Open \notin cut /\ Open \in SegNos
             /\ disk[Open] \o buf = accepted[Open]
  BY <1>1, <1>3 DEF TypeInv, Where, Content
<1>4. ASSUME UNCHANGED <<buf, seg_no, live, disk, accepted, cut>>,
             pc \notin {"open", "failed", "down"} \/ pc' \in {"open", "failed", "down"}
      PROVE  Content'
  BY <1>3, <1>4 DEF Content, Open
<1>5. CASE ReceiveDegraded \/ Receive \/ Disconnected \/ DirectDone \/ FlushDone \/ MaybeRotate
  BY <1>4, <1>5 DEF ReceiveDegraded, Receive, Disconnected, DirectDone, FlushDone, MaybeRotate
<1>6. CASE Tick \/ Restart \/ UNCHANGED vars
  BY <1>6 DEF Tick, Restart, vars, Content, Open
<1>7. CASE AppendBuffered \/ AppendDirect
  <2> DEFINE e == Encoded(cur)
  <2>1. cur \in Records /\ pc \notin {"open", "failed", "down"}
    BY <1>7 DEF TypeInv, TypeOK, Where, AppendBuffered, AppendDirect
  <2>2. e \in Seq(Cells)
    BY <2>1, EncodedIs
  <2> HIDE DEF e
  <2>3. /\ UNCHANGED <<seg_no, live, disk, cut>>
        /\ accepted' = [accepted EXCEPT ![Open] = @ \o e]
        /\ pc' \in {"rotate", "direct"}
    BY <1>7 DEF AppendBuffered, AppendDirect, e
  <2>4. buf' = buf \o e
    <3>1. CASE AppendBuffered
      BY <3>1 DEF AppendBuffered, e
    <3>2. CASE AppendDirect
      <4>1. buf = <<>> /\ buf' = e /\ <<>> \o e = e
        BY <2>2, <3>2, ConcatEmptySeq DEF AppendDirect, e
      <4> QED BY <4>1
    <3> QED BY <1>7, <3>1, <3>2
  <2>5. /\ accepted'[Open] = accepted[Open] \o e
        /\ \A s \in SegNos : s # Open => accepted'[s] = accepted[s]
    BY <1>1, <1>3, <2>1, <2>3
  <2>6. disk[Open] \o buf' = accepted'[Open]
    <3>1. disk[Open] \in Seq(Cells)
      BY <1>1, <1>3, <2>1
    <3>2. (disk[Open] \o buf) \o e = disk[Open] \o (buf \o e)
      BY <1>1, <2>2, <3>1, Associative
    <3> QED BY <1>3, <2>1, <2>4, <2>5, <3>2
  <2>7. \A s \in live : Beginning(disk[s], accepted'[s])
    <3> SUFFICES ASSUME NEW s \in live PROVE Beginning(disk[s], accepted'[s])
      OBVIOUS
    <3>1. Beginning(disk[s], accepted[s])
      BY DEF Content
    <3>2. CASE s = Open
      BY <1>1, <2>2, <2>5, <3>1, <3>2, BeginningConcat
    <3>3. CASE s # Open
      BY <1>1, <2>5, <3>1, <3>3
    <3> QED BY <3>2, <3>3
  <2>8. \A s \in SegNos : s >= seg_no => accepted'[s] = <<>>
    BY <1>1, <2>5 DEF Content, Open, SegNos
  <2>9. \A s \in live \ cut : s # Open => disk[s] = accepted'[s]
    BY <1>1, <2>5 DEF Content
  <2> QED BY <1>3, <2>1, <2>3, <2>6, <2>7, <2>8, <2>9 DEF Content, Open
<1>8. CASE WriteSome \/ WriteFails
  <2>1. PICK n \in 0 .. Len(buf) :
          /\ disk' = Spill(n)
          /\ \/ WriteSome /\ buf' = SubSeq(buf, n + 1, Len(buf))
             \/ WriteFails
    BY <1>8 DEF WriteSome, WriteFails
  <2> DEFINE a == SubSeq(buf, 1, n)
             b == SubSeq(buf, n + 1, Len(buf))
  <2>2. a \in Seq(Cells) /\ b \in Seq(Cells) /\ a \o b = buf
    BY <1>1, BufferParts
  <2>3. pc \notin {"open", "failed", "down"}
    BY <1>8 DEF WriteSome, WriteFails, Flushing, Spilling
  <2>4. \A s \in SegNos : disk'[s] = IF s = Open THEN disk[s] \o a ELSE disk[s]
    BY <2>1, SpillIs DEF TypeInv
  <2> HIDE DEF a, b
  <2>5. disk'[Open] \o b = accepted[Open] /\ Beginning(disk'[Open], accepted[Open])
    <3>1. disk'[Open] = disk[Open] \o a
      BY <1>3, <2>3, <2>4
    <3>2. disk[Open] \in Seq(Cells) /\ a \in Seq(Cells) /\ b \in Seq(Cells)
      BY <1>1, <1>3, <2>2, <2>3
    <3>3. (disk[Open] \o a) \o b = disk[Open] \o (a \o b)
      BY <3>2, Associative
    <3>4. disk'[Open] \o b = accepted[Open]
      BY <1>3, <2>2, <2>3, <3>1, <3>3
    <3> QED BY <2>2, <3>4 DEF Beginning
  <2>6. UNCHANGED <<seg_no, live, accepted>> /\ Open' = Open
    BY <1>8 DEF WriteSome, WriteFails, Open
  <2>7. /\ \A s \in SegNos \ live : disk'[s] = <<>>
        /\ \A s \in live : Beginning(disk'[s], accepted[s])
        /\ \A s \in live \ cut : s # Open => disk'[s] = accepted[s]
    BY <1>1, <1>3, <2>3, <2>4, <2>5 DEF Content
  <2>8. CASE WriteSome /\ buf' = SubSeq(buf, n + 1, Len(buf))
    <3>1. cut' = cut /\ pc' = pc /\ buf' = b
      BY <2>8 DEF WriteSome, b
    <3> QED BY <1>3, <2>3, <2>5, <2>6, <2>7, <3>1 DEF Content
  <2>9. CASE WriteFails
    <3>1. cut' = cut \cup {Open} /\ pc' = "failed"
      BY <2>9 DEF WriteFails
    <3> QED BY <2>6, <2>7, <3>1 DEF Content
  <2> QED BY <2>1, <2>8, <2>9
<1>9. CASE OpenSegment \/ OpenFails
  <2>1. pc = "open" /\ buf = <<>> /\ UNCHANGED <<accepted, cut>> /\ buf' = <<>>
    BY <1>9 DEF TypeInv, Where, OpenSegment, OpenFails
  <2>2. disk' = Only(live', disk)
    <3>1. PICK n \in 0 .. Len(buf) : disk' = Only(live', Spill(n))
      BY <1>9 DEF OpenSegment, OpenFails
    <3> QED BY <2>1, <3>1, NoSpill DEF TypeInv
  <2>3. /\ Newest(live \cup {seg_no}) \subseteq live \cup {seg_no}
        /\ seg_no \in Newest(live \cup {seg_no})
    BY <2>1, OpenedFiles
  <2>4. CASE /\ seg_no' = seg_no + 1
             /\ live' \in {live \cup {seg_no}, Newest(live \cup {seg_no})}
    BY <2>1, <2>2, <2>3, <2>4, OpenedContent
  <2>5. CASE UNCHANGED <<seg_no, live>> /\ OpenFails
    <3>1. \A s \in SegNos : disk'[s] = IF s \in live THEN disk[s] ELSE <<>>
      BY <1>1, <2>2, <2>5, OnlyIs
    <3>2. \A s \in SegNos : disk'[s] = disk[s]
      BY <3>1 DEF Content
    <3>3. disk' \in [SegNos -> Seq(Cells)]
      BY <1>1, <2>2, OnlyIs
    <3>4. disk' = disk
      BY <1>1, <3>2, <3>3
    <3>5. pc' = "failed"
      BY <2>5 DEF OpenFails
    <3> QED BY <2>1, <2>5, <3>4, <3>5 DEF Content, Open
  <2> QED BY <1>9, <2>4, <2>5 DEF OpenSegment, OpenFails
<1>10. CASE Crash
  BY <1>10 DEF Crash, Content, Open
<1> QED BY <1>5, <1>6, <1>7, <1>8, <1>9, <1>10 DEF Next, WriterStep

LEMMA ContentKept == Spec => [](TypeInv /\ Content)
<1>1. Init => TypeInv /\ Content
  BY InitType, InitContent
<1>2. TypeInv /\ Content /\ [Next]_vars => (TypeInv /\ Content)'
  BY NextType, NextContent
<1> QED BY <1>1, <1>2, PTL DEF Spec

\* Whatever write failed or was split, and wherever the process was killed: a
\* segment on disk is the beginning of what was accepted for it.
THEOREM PrefixesKept == Spec => []SegmentsArePrefixes
<1>1. ASSUME TypeInv, Content PROVE SegmentsArePrefixes
  <2> SUFFICES ASSUME NEW s \in live PROVE IsPrefix(disk[s], accepted[s])
    BY DEF SegmentsArePrefixes
  <2>1. disk[s] \in Seq(Cells) /\ accepted[s] \in Seq(Cells)
    BY <1>1, Facts
  <2> QED BY <1>1, <2>1, BeginningIsPrefix DEF Content
<1> QED BY <1>1, ContentKept, PTL

\* A rotation, and an orderly end, leave nothing of a segment in the buffer.
THEOREM SealedIsComplete == Spec => []SealedComplete
<1>1. ASSUME TypeInv, Content PROVE SealedComplete
  <2>1. ASSUME pc = "stopped" PROVE disk[Open] = accepted[Open]
    <3>1. buf = <<>> /\ seg_no # 0
      BY <1>1, <2>1 DEF TypeInv, Where
    <3>2. seg_no > 0 /\ Open \in SegNos /\ disk[Open] \in Seq(Cells)
      BY <1>1, <3>1, Facts
    <3>3. disk[Open] \o <<>> = accepted[Open]
      BY <1>1, <2>1, <3>1, <3>2 DEF Content
    <3> QED BY <3>2, <3>3, ConcatEmptySeq
  <2> QED BY <1>1, <2>1 DEF SealedComplete, Content
<1> QED BY <1>1, ContentKept, PTL

\* No step changes what a segment file holds but at the end of the newest one.
THEOREM FilesOnlyGrow == Spec => AppendOnly
<1>1. ASSUME TypeInv, [Next]_vars
      PROVE  [\A s \in live \cap live' :
                /\ IsPrefix(disk[s], disk'[s])
                /\ disk'[s] # disk[s] => s = Open]_vars
  <2>1. /\ seg_no \in Nat /\ buf \in Seq(Cells) /\ live \subseteq SegNos
        /\ disk \in [SegNos -> Seq(Cells)]
    BY <1>1, Facts
  <2>2. ASSUME NEW s \in live PROVE IsPrefix(disk[s], disk[s])
    BY <2>1, BeginningSelf, BeginningIsPrefix
  <2>3. CASE disk' = disk
    BY <2>2, <2>3
  <2>4. CASE WriteSome \/ WriteFails
    <3>1. PICK n \in 0 .. Len(buf) : disk' = Spill(n)
      BY <2>4 DEF WriteSome, WriteFails
    <3> DEFINE a == SubSeq(buf, 1, n)
    <3>2. a \in Seq(Cells)
      BY <2>1, BufferParts
    <3>3. \A s \in SegNos : disk'[s] = IF s = Open THEN disk[s] \o a ELSE disk[s]
      BY <1>1, <3>1, SpillIs DEF TypeInv
    <3> HIDE DEF a
    <3>4. ASSUME NEW s \in live
          PROVE  IsPrefix(disk[s], disk'[s]) /\ (disk'[s] # disk[s] => s = Open)
      <4>1. s \in SegNos /\ disk[s] \in Seq(Cells) /\ disk[s] \o a \in Seq(Cells)
        BY <2>1, <3>2, Joined
      <4>2. Beginning(disk[s], disk[s] \o a)
        BY <3>2 DEF Beginning
      <4>3. IsPrefix(disk[s], disk[s] \o a)
        BY <4>1, <4>2, BeginningIsPrefix
      <4> QED BY <2>2, <3>3, <4>1, <4>3
    <3> QED BY <3>4
  <2>5. CASE OpenSegment \/ OpenFails
    <3>1. pc = "open" /\ buf = <<>>
      BY <1>1, <2>5 DEF TypeInv, Where, OpenSegment, OpenFails
    <3>2. PICK n \in 0 .. Len(buf) : disk' = Only(live', Spill(n))
      BY <2>5 DEF OpenSegment, OpenFails
    <3>3. disk' = Only(live', disk)
      BY <1>1, <3>1, <3>2, NoSpill DEF TypeInv
    <3>4. \A s \in SegNos : disk'[s] = IF s \in live' THEN disk[s] ELSE <<>>
      BY <2>1, <3>3, OnlyIs
    <3> QED BY <2>1, <2>2, <3>4
  <2> QED BY <1>1, <2>3, <2>4, <2>5
          DEF Next, WriterStep, vars, ReceiveDegraded, Receive, Disconnected, DirectDone,
              FlushDone, MaybeRotate, Tick, Restart, Crash, AppendBuffered, AppendDirect
<1> QED BY <1>1, ContentKept, PTL DEF Spec, AppendOnly

-----------------------------------------------------------------------------
(* The order of the records, and the size of a segment.                    *)

\* Giving a record to the open segment.
LEMMA Given ==
  ASSUME TypeInv, Content, AppendBuffered \/ AppendDirect
  PROVE  /\ cur \in Records /\ cur = received /\ received \in Nat
         /\ Open \in SegNos /\ Open \in Nat /\ Open' = Open
         /\ Encoded(cur) \in Seq(Cells) /\ accepted[Open] \in Seq(Cells)
         /\ accepted'[Open] = accepted[Open] \o Encoded(cur)
         /\ \A s \in SegNos : s # Open => accepted'[s] = accepted[s]
         /\ \A s \in SegNos : s > Open => accepted[s] = <<>>
<1>1. /\ seg_no \in Nat /\ accepted \in [SegNos -> Seq(Cells)]
      /\ seg_no > 0 => Open \in SegNos
  BY Facts
<1>2. cur \in Records /\ cur = received /\ seg_no # 0 /\ received \in Nat
  BY Numbers DEF TypeInv, TypeOK, Where, AppendBuffered, AppendDirect
<1>3. Open \in SegNos /\ Open \in Nat /\ Open' = Open
  BY <1>1, <1>2 DEF Open, AppendBuffered, AppendDirect
<1>4. accepted' = [accepted EXCEPT ![Open] = @ \o Encoded(cur)]
  BY DEF AppendBuffered, AppendDirect
<1>5. \A s \in SegNos : s > Open => accepted[s] = <<>>
  BY <1>1 DEF Content, Open, SegNos
<1> QED BY <1>1, <1>2, <1>3, <1>4, <1>5, EncodedIs

LEMMA InitOrder == Init => Order
BY DEF Init, Order

\* A new record is newer than all that were accepted, and goes to the newest
\* segment.
LEMMA NextOrder ==
  ASSUME TypeInv, Content, Order, [Next]_vars
  PROVE  Order'
<1>1. /\ received \in Nat /\ accepted \in [SegNos -> Seq(Cells)]
      /\ \A s \in SegNos : \A i \in DOMAIN accepted[s] : accepted[s][i][1] \in Nat
  <2>1. received \in Nat /\ accepted \in [SegNos -> Seq(Cells)]
    BY Facts, Numbers DEF TypeInv, TypeOK
  <2>2. ASSUME NEW s \in SegNos, NEW i \in DOMAIN accepted[s]
        PROVE  accepted[s][i][1] \in Nat
    <3>1. accepted[s] \in Seq(Cells) /\ i \in 1 .. Len(accepted[s])
      BY <2>1, LenProperties
    <3>2. accepted[s][i] \in Cells
      BY <3>1, ElementOfSeq
    <3> QED BY <3>2, Numbers DEF Cells
  <2> QED BY <2>1, <2>2
<1>2. ASSUME accepted' = accepted, Newer' \in Nat \cup {-1}, Newer <= Newer'
      PROVE  Order'
  <2>1. Newer \in Int
    BY <1>1 DEF Newer
  <2> DEFINE m == Newer'
  <2>2. m \in Int /\ Newer <= m
    BY <1>2
  <2> HIDE DEF m
  <2>3. \A s \in SegNos : \A i \in DOMAIN accepted[s] : accepted[s][i][1] <= m
    BY <1>1, <2>1, <2>2 DEF Order
  <2> QED BY <1>2, <2>3 DEF Order, m
<1>3. CASE AppendBuffered \/ AppendDirect
  <2> DEFINE e == Encoded(cur)
  <2>1. /\ cur = received /\ Open \in Nat
        /\ Open \in SegNos /\ accepted[Open] \in Seq(Cells) /\ e \in Seq(Cells)
        /\ accepted'[Open] = accepted[Open] \o e
        /\ \A s \in SegNos : s # Open => accepted'[s] = accepted[s]
        /\ \A s \in SegNos : s > Open => accepted[s] = <<>>
    BY <1>3, Given
  <2>2. \A i \in DOMAIN e : e[i][1] = received
    BY <1>3, <2>1, Given, EncodedIs
  <2> HIDE DEF e
  <2>3. Newer = received - 1 /\ Newer' = received
    BY <1>3 DEF Newer, TypeInv, Where, AppendBuffered, AppendDirect, None
  <2>4. \A s \in SegNos : \A i \in DOMAIN accepted[s] : accepted[s][i][1] < received
    BY <1>1, <2>3 DEF Order
  <2>5. \A i \in DOMAIN accepted'[Open] :
           \/ i \in DOMAIN accepted[Open] /\ accepted'[Open][i] = accepted[Open][i]
           \/ accepted'[Open][i][1] = received
    <3> SUFFICES ASSUME NEW i \in DOMAIN (accepted[Open] \o e)
                 PROVE  \/ /\ i \in DOMAIN accepted[Open]
                           /\ (accepted[Open] \o e)[i] = accepted[Open][i]
                        \/ (accepted[Open] \o e)[i][1] = received
      BY <2>1
    <3>1. Len(accepted[Open]) \in Nat /\ Len(e) \in Nat
          /\ DOMAIN accepted[Open] = 1 .. Len(accepted[Open]) /\ DOMAIN e = 1 .. Len(e)
      BY <2>1, LenProperties
    <3>2. /\ accepted[Open] \o e \in Seq(Cells)
          /\ Len(accepted[Open] \o e) = Len(accepted[Open]) + Len(e)
          /\ \A k \in 1 .. Len(accepted[Open]) + Len(e) : (accepted[Open] \o e)[k] =
                IF k <= Len(accepted[Open]) THEN accepted[Open][k]
                ELSE e[k - Len(accepted[Open])]
      BY <2>1, ConcatProperties
    <3>3. i \in 1 .. Len(accepted[Open]) + Len(e)
      BY <3>2, LenProperties
    <3>4. CASE i <= Len(accepted[Open])
      BY <3>1, <3>2, <3>3, <3>4
    <3>5. CASE ~ (i <= Len(accepted[Open]))
      <4>1. i - Len(accepted[Open]) \in DOMAIN e
        BY <3>1, <3>3, <3>5
      <4> QED BY <2>2, <3>2, <3>3, <3>5, <4>1
    <3> QED BY <3>4, <3>5
  <2>6. ASSUME NEW s \in SegNos, NEW i \in DOMAIN accepted'[s]
        PROVE  accepted'[s][i][1] <= received
    <3>1. \A n \in Nat : n < received => n <= received
      BY <1>1
    <3>2. CASE s # Open
      <4>1. i \in DOMAIN accepted[s] /\ accepted'[s] = accepted[s]
        BY <2>1, <2>6, <3>2
      <4> QED BY <1>1, <2>4, <3>1, <4>1
    <3>3. CASE s = Open
      <4>1. CASE i \in DOMAIN accepted[s] /\ accepted'[s][i] = accepted[s][i]
        BY <1>1, <2>4, <3>1, <4>1
      <4>2. CASE accepted'[s][i][1] = received
        BY <1>1, <4>2
      <4> QED BY <2>5, <2>6, <3>3, <4>1, <4>2
    <3> QED BY <3>2, <3>3
  <2>7. ASSUME NEW s \in SegNos, NEW t \in SegNos, s < t,
               NEW i \in DOMAIN accepted'[s], NEW j \in DOMAIN accepted'[t]
        PROVE  accepted'[s][i][1] < accepted'[t][j][1]
    <3>1. s \in Nat /\ t \in Nat
      BY Numbers DEF SegNos
    <3>2. CASE t > Open
      BY <2>1, <2>7, <3>1, <3>2
    <3>3. CASE ~ (t > Open)
      <4>1. s # Open /\ accepted'[s] = accepted[s]
        BY <2>1, <2>7, <3>1, <3>3
      <4>2. CASE t # Open
        BY <2>1, <2>7, <4>1, <4>2 DEF Order
      <4>3. CASE t = Open
        BY <2>4, <2>5, <2>7, <4>1, <4>3 DEF Order
      <4> QED BY <4>2, <4>3
    <3> QED BY <3>2, <3>3
  <2> QED BY <2>3, <2>6, <2>7 DEF Order
<1>4. CASE Receive
  <2>1. accepted' = accepted /\ cur = None /\ cur' = received + 1 /\ received' = received + 1
        /\ pc' # "direct"
    BY <1>4 DEF TypeInv, Where, Receive
  <2>2. Newer = received /\ Newer' = received
    BY <1>1, <2>1 DEF Newer, None
  <2> QED BY <1>1, <1>2, <2>1, <2>2
<1>5. CASE ReceiveDegraded
  <2>1. accepted' = accepted /\ cur = None /\ cur' = None /\ received' = received + 1
    BY <1>5 DEF TypeInv, Where, ReceiveDegraded
  <2>2. Newer = received /\ Newer' = received + 1
    BY <2>1 DEF Newer
  <2> QED BY <1>1, <1>2, <2>1, <2>2
<1>6. CASE DirectDone
  <2>1. accepted' = accepted /\ pc = "direct" /\ cur' = None /\ received' = received
    BY <1>6 DEF DirectDone
  <2>2. Newer = received /\ Newer' = received
    BY <2>1 DEF Newer
  <2> QED BY <1>1, <1>2, <2>1, <2>2
<1>7. CASE OpenFails \/ WriteFails \/ Crash
  <2>1. accepted' = accepted /\ cur' = None /\ received' = received
    BY <1>7 DEF OpenFails, WriteFails, Crash
  <2>2. Newer <= received /\ Newer' = received
    BY <1>1, <2>1 DEF Newer
  <2> QED BY <1>1, <1>2, <2>1, <2>2
<1>8. CASE \/ OpenSegment \/ WriteSome \/ FlushDone \/ MaybeRotate
           \/ Disconnected \/ Tick \/ Restart \/ UNCHANGED vars
  <2>1. accepted' = accepted /\ cur' = cur /\ received' = received
        /\ (pc' = "direct" <=> pc = "direct")
    BY <1>8 DEF OpenSegment, WriteSome, FlushDone, MaybeRotate, Disconnected, Tick, Restart, vars
  <2>2. Newer' = Newer
    BY <2>1 DEF Newer
  <2>3. Newer \in Nat \cup {-1}
    BY <1>1 DEF Newer
  <2> QED BY <1>2, <2>1, <2>2, <2>3
<1> QED BY <1>3, <1>4, <1>5, <1>6, <1>7, <1>8 DEF Next, WriterStep

\* Reading the segments by their numbers gives the records in the order in
\* which they arrived, and no record is in two of them.
THEOREM OrderIsKept == Spec => []RecordsInOrder
<1>1. ASSUME TypeInv, Content, Order PROVE RecordsInOrder
  <2> SUFFICES ASSUME NEW s \in live, NEW t \in live, s < t,
                      NEW i \in DOMAIN disk[s], NEW j \in DOMAIN disk[t]
               PROVE  disk[s][i][1] < disk[t][j][1]
    BY DEF RecordsInOrder
  <2>1. ASSUME NEW r \in live, NEW k \in DOMAIN disk[r]
        PROVE  r \in SegNos /\ k \in DOMAIN accepted[r] /\ disk[r][k] = accepted[r][k]
    <3>1. r \in SegNos /\ disk[r] \in Seq(Cells) /\ accepted[r] \in Seq(Cells)
      BY <1>1, Facts
    <3>2. PICK u \in Seq(Cells) : disk[r] \o u = accepted[r]
      BY <1>1 DEF Content, Beginning
    <3>3. /\ Len(disk[r]) \in Nat /\ Len(u) \in Nat
          /\ DOMAIN disk[r] = 1 .. Len(disk[r])
          /\ DOMAIN accepted[r] = 1 .. Len(accepted[r])
      BY <3>1, LenProperties
    <3>4. /\ Len(disk[r] \o u) = Len(disk[r]) + Len(u)
          /\ \A m \in 1 .. Len(disk[r]) + Len(u) :
                (disk[r] \o u)[m] = IF m <= Len(disk[r]) THEN disk[r][m]
                                    ELSE u[m - Len(disk[r])]
      BY <3>1, ConcatProperties
    <3> QED BY <2>1, <3>1, <3>2, <3>3, <3>4
  <2>2. /\ s \in SegNos /\ i \in DOMAIN accepted[s] /\ disk[s][i] = accepted[s][i]
        /\ t \in SegNos /\ j \in DOMAIN accepted[t] /\ disk[t][j] = accepted[t][j]
    BY <2>1
  <2> QED BY <1>1, <2>2 DEF Order
<1>2. Init => TypeInv /\ Content /\ Order
  BY InitType, InitContent, InitOrder
<1>3. TypeInv /\ Content /\ Order /\ [Next]_vars => (TypeInv /\ Content /\ Order)'
  BY NextType, NextContent, NextOrder
<1> QED BY <1>1, <1>2, <1>3, PTL DEF Spec

LEMMA InitSizes == Init => Sizes
BY EmptySeq, Numbers DEF Init, Sizes, OneRecord

LEMMA NextSizes ==
  ASSUME TypeInv, Content, Sizes, [Next]_vars
  PROVE  Sizes'
<1>1. /\ seg_no \in Nat /\ accepted \in [SegNos -> Seq(Cells)] /\ written \in Nat
      /\ seg_no > 0 => Open \in SegNos
  BY Facts DEF TypeInv, TypeOK
<1>2. Len(<<>>) = 0
  BY EmptySeq
<1>3. CASE AppendBuffered \/ AppendDirect
  <2> DEFINE e == Encoded(cur)
  <2>1. /\ cur \in Records /\ Open \in SegNos /\ Open' = Open
        /\ accepted[Open] \in Seq(Cells) /\ e \in Seq(Cells)
        /\ accepted'[Open] = accepted[Open] \o e
        /\ \A s \in SegNos : s # Open => accepted'[s] = accepted[s]
    BY <1>3, Given
  <2>2. /\ Len(e) = RecSizes[cur] /\ RecSizes[cur] \in Nat
        /\ \A i \in DOMAIN e : e[i][1] = cur
    BY <2>1, EncodedIs, Numbers
  <2> HIDE DEF e
  <2>3. Len(accepted'[Open]) = Len(accepted[Open]) + RecSizes[cur]
    <3>1. Len(accepted[Open] \o e) = Len(accepted[Open]) + Len(e)
      BY <2>1, ConcatProperties
    <3> QED BY <2>1, <2>2, <3>1
  <2>4. Len(accepted[Open]) = written
    BY <1>3 DEF Sizes, AppendBuffered, AppendDirect
  <2>5. Len(accepted'[Open]) <= SegmentSize \/ OneRecord(accepted'[Open])
    <3>1. CASE written + RecSizes[cur] <= SegmentSize
      BY <2>3, <2>4, <3>1
    <3>2. CASE accepted[Open] = <<>>
      <4>1. accepted'[Open] = e
        BY <2>1, <3>2, ConcatEmptySeq
      <4>2. DOMAIN e = 1 .. Len(e) /\ 1 \in DOMAIN e
        BY <2>1, <2>2, LenProperties, Numbers
      <4>3. OneRecord(e)
        BY <2>2, <4>2 DEF OneRecord
      <4> QED BY <4>1, <4>3
    <3> QED BY <1>3, <3>1, <3>2 DEF Sizes, AppendBuffered, AppendDirect
  <2>6. \A s \in SegNos : Len(accepted'[s]) <= SegmentSize \/ OneRecord(accepted'[s])
    BY <2>1, <2>5 DEF Sizes
  <2>7. CASE AppendBuffered
    <3>1. pc' = "rotate" /\ written' = written + RecSizes[cur]
      BY <2>7 DEF AppendBuffered
    <3> QED BY <2>1, <2>3, <2>4, <2>6, <3>1 DEF Sizes
  <2>8. CASE AppendDirect
    <3>1. pc' = "direct" /\ written' = written /\ cur' = cur
      BY <2>8 DEF AppendDirect
    <3> QED BY <2>1, <2>3, <2>4, <2>6, <3>1 DEF Sizes
  <2> QED BY <1>3, <2>7, <2>8
<1>4. CASE Receive
  <2>1. /\ UNCHANGED <<accepted, written>> /\ Open' = Open /\ pc = "idle"
        /\ pc' = IF written + RecSizes[cur'] > SegmentSize THEN "flush" ELSE "append"
    BY <1>4 DEF Receive, Open
  <2>2. written + RecSizes[cur'] \in Nat
    <3>1. cur' = received + 1 /\ received + 1 \in Records
      BY <1>4, Numbers DEF Receive, Records, TypeInv, TypeOK
    <3> QED BY <1>1, <3>1, Numbers
  <2>3. pc' = "append" => written + RecSizes[cur'] <= SegmentSize
    BY <2>1, <2>2, Numbers
  <2> QED BY <2>1, <2>3 DEF Sizes
<1>5. CASE OpenSegment
  <2>1. /\ UNCHANGED accepted /\ Open' = seg_no /\ pc' \in {"idle", "append"} /\ written' = 0
    BY <1>1, <1>5 DEF OpenSegment, Open
  <2>2. accepted[seg_no] = <<>>
    BY <1>1, <1>5, OpenedFiles, Numbers DEF Content, SegNos, OpenSegment
  <2> QED BY <1>2, <2>1, <2>2 DEF Sizes
<1>6. CASE DirectDone
  <2>1. /\ UNCHANGED accepted /\ Open' = Open /\ pc' = "rotate" /\ pc = "direct"
        /\ written' = written + RecSizes[cur]
    BY <1>6 DEF DirectDone, Open
  <2> QED BY <2>1 DEF Sizes
<1>7. CASE \/ ReceiveDegraded \/ MaybeRotate \/ WriteSome \/ Tick \/ UNCHANGED vars
  <2>1. /\ UNCHANGED <<accepted, written>> /\ Open' = Open
        /\ \/ pc' = pc /\ cur' = cur
           \/ pc \in {"idle", "rotate"} /\ pc' \in {"rotate", "idle", "flush"}
    BY <1>7 DEF ReceiveDegraded, MaybeRotate, WriteSome, Tick, vars, Open
  <2> QED BY <2>1 DEF Sizes
<1>8. CASE \/ OpenFails \/ WriteFails \/ FlushDone \/ Disconnected \/ Crash \/ Restart
  <2>1. UNCHANGED accepted /\ pc' \in {"failed", "open", "stopped", "final_flush", "down"}
    BY <1>8 DEF OpenFails, WriteFails, FlushDone, Disconnected, Crash, Restart
  <2> QED BY <2>1 DEF Sizes
<1> QED BY <1>3, <1>4, <1>5, <1>6, <1>7, <1>8 DEF Next, WriterStep

\* A segment grows past segment_size only for one record that is larger.
THEOREM SizeIsKept == Spec => []SegmentBounded
<1>1. ASSUME TypeInv, Sizes PROVE SegmentBounded
  <2>1. live \subseteq SegNos
    BY <1>1, Facts
  <2> QED BY <1>1, <2>1 DEF SegmentBounded, Sizes, OneRecord
<1>2. Init => TypeInv /\ Content /\ Sizes
  BY InitType, InitContent, InitSizes
<1>3. TypeInv /\ Content /\ Sizes /\ [Next]_vars => (TypeInv /\ Content /\ Sizes)'
  BY NextType, NextContent, NextSizes
<1> QED BY <1>1, <1>2, <1>3, PTL DEF Spec

=============================================================================
