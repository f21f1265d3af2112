----------------------------- MODULE WalWriter -----------------------------
(***************************************************************************)
(* wal/writer.rs: the writer thread between the channel and the segment    *)
(* files.  Records go through a BufWriter and reach the file in as many    *)
(* write calls as the system makes of a flush; the process may be killed,  *)
(* or a write may fail, between any two of them.                           *)
(*                                                                         *)
(* A record is a run of cells <<record, part>>; sizes are in cells.        *)
(* Rotator::next_segment is one step here, which never misreads the        *)
(* directory (module Rotator shows that it then gives fresh numbers and    *)
(* keeps the newest max_segments files).                                   *)
(***************************************************************************)
EXTENDS Integers, Sequences, FiniteSets, SequencesExt

CONSTANTS
  RecSizes,       \* sizes of the records that will arrive, in order
  BufCapacity,    \* capacity of BufWriter (8 KiB in std)
  SegmentSize,    \* segment_size
  MaxSegments,    \* max_segments
  MaxRestarts     \* bound: so many times the process is started again

ASSUME WalWriterAssumption ==
  /\ RecSizes \in Seq(Nat \ {0})
  /\ BufCapacity \in Nat \ {0}
  /\ SegmentSize \in Nat \ {0}         \* Config::validate
  /\ MaxSegments \in Nat \ {0}
  /\ MaxRestarts \in Nat

VARIABLES
  pc,         \* where the writer thread stands
  received,   \* records taken from the channel
  cur,        \* the record in hand, or None
  written,    \* WalWriter.written: bytes accepted for the open segment
  due,        \* Instant::now() >= next_rotate
  buf,        \* cells accepted and not yet in the file
  seg_no,     \* the next segment number; seg_no - 1 is open
  live,       \* numbers of the segment files
  disk,       \* their contents
  accepted,   \* history: cells accepted for each segment
  cut,        \* history: segments a kill or an error ended
  restarts

vars == <<pc, received, cur, written, due, buf, seg_no, live, disk, accepted, cut, restarts>>

None == 0
Records == 1 .. Len(RecSizes)

\* A record rotates at most twice: before it for size, after it for time.
MaxSegNo == 2 * Len(RecSizes) + MaxRestarts
SegNos == 0 .. MaxSegNo
Open == seg_no - 1

\* WalRecord::encode, as far as the writer sees it.
Encoded(r) == [k \in 1 .. RecSizes[r] |-> <<r, k>>]

\* What Unlink-Oldest leaves.
Newest(S) == {s \in S : Cardinality({t \in S : t > s}) < MaxSegments}

Init ==
  /\ pc = "open"
  /\ received = 0 /\ cur = None /\ written = 0 /\ due = FALSE
  /\ buf = <<>>
  /\ seg_no = 0 /\ live = {}
  /\ disk = [s \in SegNos |-> <<>>]
  /\ accepted = [s \in SegNos |-> <<>>]
  /\ cut = {}
  /\ restarts = 0

-----------------------------------------------------------------------------
\* What the segment files hold once n cells of the buffer have gone out, and
\* what remains of them when only the files S are left.
Spill(n) ==
  [s \in SegNos |-> IF s = Open THEN disk[s] \o SubSeq(buf, 1, n) ELSE disk[s]]
Only(S, contents) == [s \in SegNos |-> IF s \in S THEN contents[s] ELSE <<>>]

\* Faulty variant: the file that is open is truncated and used again.
OpenSegmentOverwrites ==
  /\ pc = "open"
  /\ seg_no' = IF seg_no = 0 THEN 1 ELSE seg_no
  /\ live' = Newest(live \cup {seg_no' - 1})
  /\ disk' = [disk EXCEPT ![seg_no' - 1] = <<>>]
  /\ buf' = <<>> /\ written' = 0 /\ due' = FALSE
  /\ pc' = IF cur = None THEN "idle" ELSE "append"
  /\ UNCHANGED <<received, cur, accepted, cut, restarts>>

\* Faulty variant: rotates again as long as the record does not fit.
OpenSegmentUntilItFits ==
  /\ pc = "open"
  /\ seg_no < MaxSegNo
  /\ seg_no' = seg_no + 1
  /\ live' = Newest(live \cup {seg_no})
  /\ disk' = Only(live', disk)
  /\ buf' = <<>> /\ written' = 0 /\ due' = FALSE
  /\ pc' = IF cur = None THEN "idle" ELSE IF RecSizes[cur] > SegmentSize THEN "flush" ELSE "append"
  /\ UNCHANGED <<received, cur, accepted, cut, restarts>>

\* open_segment, at the start of run, before a record that does not fit, and
\* in maybe_rotate.  The BufWriter it replaces is dropped: that writes what is
\* left in it and ignores errors.
OpenSegment ==
  /\ pc = "open"
  /\ seg_no' = seg_no + 1
  /\ live' = Newest(live \cup {seg_no})
  /\ \E n \in 0 .. Len(buf) : disk' = Only(live', Spill(n))
  /\ buf' = <<>> /\ written' = 0 /\ due' = FALSE
  /\ pc' = IF cur = None THEN "idle" ELSE "append"
  /\ UNCHANGED <<received, cur, accepted, cut, restarts>>

\* It fails: before the new file is made, after it, or after the eviction.
OpenFails ==
  /\ pc = "open"
  /\ \/ UNCHANGED <<seg_no, live>>
     \/ /\ seg_no' = seg_no + 1
        /\ live' \in {live \cup {seg_no}, Newest(live \cup {seg_no})}
  /\ \E n \in 0 .. Len(buf) : disk' = Only(live', Spill(n))
  /\ buf' = <<>> /\ cur' = None
  /\ pc' = "failed"
  /\ UNCHANGED <<received, written, due, accepted, cut, restarts>>

\* recv_timeout gives a record; degraded, handle_record drops it ...
ReceiveDegraded ==
  /\ pc = "idle"
  /\ received < Len(RecSizes)
  /\ received' = received + 1
  /\ pc' = "rotate"
  /\ UNCHANGED <<cur, written, due, buf, seg_no, live, disk, accepted, cut, restarts>>

\* Faulty variant: compares what is written without the record.
ReceiveChecksWritten ==
  /\ pc = "idle"
  /\ received < Len(RecSizes)
  /\ received' = received + 1
  /\ cur' = received + 1
  /\ pc' = IF written > SegmentSize THEN "flush" ELSE "append"
  /\ UNCHANGED <<written, due, buf, seg_no, live, disk, accepted, cut, restarts>>

\* Faulty variant: opens the next segment without a flush.
ReceiveSkipsFlush ==
  /\ pc = "idle"
  /\ received < Len(RecSizes)
  /\ received' = received + 1
  /\ cur' = received + 1
  /\ pc' = IF written + RecSizes[cur'] > SegmentSize THEN "open" ELSE "append"
  /\ UNCHANGED <<written, due, buf, seg_no, live, disk, accepted, cut, restarts>>

\* ... and otherwise it goes to a new segment if it does not fit in this one.
Receive ==
  /\ pc = "idle"
  /\ received < Len(RecSizes)
  /\ received' = received + 1
  /\ cur' = received + 1
  /\ pc' = IF written + RecSizes[cur'] > SegmentSize THEN "flush" ELSE "append"
  /\ UNCHANGED <<written, due, buf, seg_no, live, disk, accepted, cut, restarts>>

\* When recv_timeout gives nothing, `continue` goes back past maybe_rotate: no
\* variable changes, so the model has no action for it.

\* The channel is closed and empty: the last flush.
Disconnected ==
  /\ pc = "idle"
  /\ pc' = "final_flush"
  /\ UNCHANGED <<received, cur, written, due, buf, seg_no, live, disk, accepted, cut, restarts>>

\* Faulty variant: does not look for room.
AppendBufferedAlways ==
  /\ pc = "append"
  /\ RecSizes[cur] < BufCapacity
  /\ buf' = buf \o Encoded(cur)
  /\ accepted' = [accepted EXCEPT ![Open] = @ \o Encoded(cur)]
  /\ written' = written + RecSizes[cur]
  /\ cur' = None
  /\ pc' = "rotate"
  /\ UNCHANGED <<received, due, seg_no, live, disk, cut, restarts>>

\* BufWriter::write_all with room: the record is copied.
AppendBuffered ==
  /\ pc = "append"
  /\ RecSizes[cur] < BufCapacity
  /\ Len(buf) + RecSizes[cur] <= BufCapacity
  /\ buf' = buf \o Encoded(cur)
  /\ accepted' = [accepted EXCEPT ![Open] = @ \o Encoded(cur)]
  /\ written' = written + RecSizes[cur]
  /\ cur' = None
  /\ pc' = "rotate"
  /\ UNCHANGED <<received, due, seg_no, live, disk, cut, restarts>>

\* A record as large as the buffer is written straight to the file.
AppendDirect ==
  /\ pc = "append"
  /\ RecSizes[cur] >= BufCapacity
  /\ buf = <<>>
  /\ buf' = Encoded(cur)
  /\ accepted' = [accepted EXCEPT ![Open] = @ \o Encoded(cur)]
  /\ pc' = "direct"
  /\ UNCHANGED <<received, cur, written, due, seg_no, live, disk, cut, restarts>>

DirectDone ==
  /\ pc = "direct"
  /\ buf = <<>>
  /\ written' = written + RecSizes[cur]
  /\ cur' = None
  /\ pc' = "rotate"
  /\ UNCHANGED <<received, due, buf, seg_no, live, disk, accepted, cut, restarts>>

\* Without room the buffer is emptied first.
Spilling ==
  /\ pc = "append"
  /\ buf # <<>>
  /\ Len(buf) + RecSizes[cur] > BufCapacity \/ RecSizes[cur] >= BufCapacity

Flushing == pc \in {"flush", "final_flush", "direct"} \/ Spilling

\* Faulty variant: after a short write the whole buffer is written again.
WriteSomeRepeats ==
  /\ Flushing
  /\ Len(disk[Open]) < 2 * SegmentSize
  /\ \E n \in 1 .. Len(buf) :
       /\ disk' = Spill(n)
       /\ buf' = IF n = Len(buf) THEN <<>> ELSE buf
  /\ UNCHANGED <<pc, received, cur, written, due, seg_no, live, accepted, cut, restarts>>

\* One write call; the system may take any number of the cells.
WriteSome ==
  /\ Flushing
  /\ \E n \in 1 .. Len(buf) :
       /\ disk' = Spill(n)
       /\ buf' = SubSeq(buf, n + 1, Len(buf))
  /\ UNCHANGED <<pc, received, cur, written, due, seg_no, live, accepted, cut, restarts>>

\* The buffer is empty: flush returns.
FlushDone ==
  /\ pc \in {"flush", "final_flush"}
  /\ buf = <<>>
  /\ pc' = IF pc = "flush" THEN "open" ELSE "stopped"
  /\ UNCHANGED <<received, cur, written, due, buf, seg_no, live, disk, accepted, cut, restarts>>

\* maybe_rotate.
MaybeRotate ==
  /\ pc = "rotate"
  /\ pc' = IF due /\ written > 0 THEN "flush" ELSE "idle"
  /\ UNCHANGED <<received, cur, written, due, buf, seg_no, live, disk, accepted, cut, restarts>>

\* Faulty variant: after a failed write the record goes to a new segment.
WriteFailsRetries ==
  /\ Flushing
  /\ \E n \in 0 .. Len(buf) : disk' = Spill(n)
  /\ buf' = <<>>
  /\ pc' = "open"
  /\ cut' = cut \cup {Open}
  /\ seg_no < MaxSegNo
  /\ UNCHANGED <<received, cur, written, due, seg_no, live, accepted, restarts>>

\* A write fails: run returns the error, the thread ends, and dropping the
\* BufWriter tries once more to write what it holds.
WriteFails ==
  /\ Flushing
  /\ \E n \in 0 .. Len(buf) : disk' = Spill(n)
  /\ buf' = <<>> /\ cur' = None
  /\ pc' = "failed"
  /\ cut' = cut \cup {Open}
  /\ UNCHANGED <<received, written, due, seg_no, live, accepted, restarts>>

\* The interval passes.
Tick ==
  /\ pc \notin {"down", "failed", "stopped"}
  /\ ~ due
  /\ due' = TRUE
  /\ UNCHANGED <<pc, received, cur, written, buf, seg_no, live, disk, accepted, cut, restarts>>

\* The process is killed; what is buffered is lost.
Crash ==
  /\ pc # "down"
  /\ restarts < MaxRestarts
  /\ pc' = "down"
  /\ cur' = None /\ buf' = <<>> /\ written' = 0 /\ due' = FALSE
  /\ cut' = IF seg_no = 0 THEN cut ELSE cut \cup {Open}
  /\ UNCHANGED <<received, seg_no, live, disk, accepted, restarts>>

Restart ==
  /\ pc = "down"
  /\ restarts' = restarts + 1
  /\ pc' = "open"
  /\ UNCHANGED <<received, cur, written, due, buf, seg_no, live, disk, accepted, cut>>

WriterStep ==
  \/ OpenSegment
  \/ AppendBuffered \/ AppendDirect \/ DirectDone
  \/ WriteSome \/ FlushDone
  \/ MaybeRotate

Next ==
  \/ WriterStep
  \/ OpenFails \/ WriteFails
  \/ ReceiveDegraded \/ Receive \/ Disconnected
  \/ Tick
  \/ Crash \/ Restart

Spec == Init /\ [][Next]_vars

\* The thread runs on while it has something to do, and time passes; records
\* are never promised.
FairSpec == Spec /\ WF_vars(WriterStep) /\ WF_vars(Tick)

-----------------------------------------------------------------------------
TypeOK ==
  /\ pc \in {"open", "idle", "append", "direct", "rotate", "flush", "final_flush",
             "stopped", "failed", "down"}
  /\ received \in 0 .. Len(RecSizes)
  /\ cur \in Records \cup {None}
  /\ written \in Nat
  /\ due \in BOOLEAN
  /\ buf \in Seq(Records \X Nat)
  /\ pc # "direct" => Len(buf) <= BufCapacity
  /\ seg_no \in 0 .. MaxSegNo + 1
  /\ live \subseteq 0 .. Open
  /\ disk \in [SegNos -> Seq(Records \X Nat)]
  /\ accepted \in [SegNos -> Seq(Records \X Nat)]
  /\ cut \subseteq 0 .. Open
  /\ restarts \in 0 .. MaxRestarts

\* Whatever is cut short, a segment on disk holds the beginning of what was
\* accepted for it, with nothing missing in between: decode_stream then finds
\* every record up to the torn one.
SegmentsArePrefixes == \A s \in live : IsPrefix(disk[s], accepted[s])

\* A segment that a rotation ended is complete, and so is the last one after an
\* orderly end: no rotation leaves the tail of a segment in the buffer.
SealedComplete ==
  /\ \A s \in live \ cut : s # Open => disk[s] = accepted[s]
  /\ pc = "stopped" => disk[Open] = accepted[Open]

\* A record lies in one segment, and the segments are in the order of their
\* numbers: reading them one by one gives the records in order.
RecordsInOrder ==
  \A s, t \in live : s < t =>
    \A i \in DOMAIN disk[s], j \in DOMAIN disk[t] : disk[s][i][1] < disk[t][j][1]

\* A segment outgrows segment_size only for a single record that is larger.
SegmentBounded ==
  \A s \in live : \/ Len(accepted[s]) <= SegmentSize
                  \/ \A i \in DOMAIN accepted[s] : accepted[s][i][1] = accepted[s][1][1]

\* Segments only grow at their end, and only the newest one does.
AppendOnly ==
  [][\A s \in live \cap live' :
       /\ IsPrefix(disk[s], disk'[s])
       /\ disk'[s] # disk[s] => s = Open]_vars

\* Once begun, a flush and the rotation it is for come to an end.
RotationCompletes == pc = "flush" ~> pc \in {"idle", "append", "failed", "down"}

-----------------------------------------------------------------------------
(* What the documents say and the code does not do.                        *)

\* "rotates by size and by time": a segment with data is ended when its
\* interval has passed.
TimedRotation ==
  due /\ written > 0 /\ pc = "idle" ~> written = 0 \/ pc \in {"failed", "stopped", "down"}

=============================================================================
