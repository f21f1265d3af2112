------------------------------- MODULE Probe -------------------------------
(***************************************************************************)
(* The running probe: main.rs starts a capture thread                      *)
(* (capture/mod.rs, consume), a writer thread (wal/writer.rs, run) and a   *)
(* sampler thread (guard/breaker.rs, run_background_sampler).  Frames go   *)
(* from the kernel ring buffer through a bounded channel to the log; the   *)
(* three threads share one flag, degraded, which the writer and the        *)
(* sampler set and clear and the capture thread and the writer read.       *)
(* Every load, store, send and receive of the shared state is a step.      *)
(*                                                                         *)
(* Frames are numbered in the order in which the kernel filter passes      *)
(* them.  Segments, buffering and crashes are in module WalWriter, the     *)
(* contents of a frame in module CapturePath.                              *)
(***************************************************************************)
EXTENDS Breaker, Sequences, FiniteSets

CONSTANTS
  QueueCapacity,    \* queue_capacity
  Watermark,        \* queue_high_watermark, in per cent
  RssLimit,         \* ram_limit_mb, in the unit of RssReadings
  LoadLimit,        \* host_cpu_limit_pct
  RssReadings,      \* what statm may say
  LoadReadings,     \* what loadavg may say, in per cent of the cores
  RingCapacity,     \* frames the kernel ring buffer holds at most
  MaxFrames         \* bound: so many frames appear

ASSUME ProbeAssumption ==
  /\ QueueCapacity \in Nat          \* Config::validate does not look at it
  /\ Watermark \in 0 .. 100
  /\ RssLimit \in Nat
  /\ LoadLimit \in 0 .. 255
  /\ RssReadings \subseteq Nat
  /\ LoadReadings \subseteq Nat
  /\ RingCapacity \in Nat \ {0}
  /\ MaxFrames \in Nat

VARIABLES
  seen,            \* frames that passed the kernel filter
  ring,            \* kernel ring buffer; its head is held by the capture thread
                   \* while cap_pc is "item", "slice" or "send"
  cap_pc,          \* where the capture thread stands
  queue,           \* the crossbeam channel
  wr_pc,           \* where the writer thread stands
  wr_fill,         \* rx.len() as hot_path_check read it
  wr_rec,          \* the record the writer holds, or NoRecord
  degraded,        \* the shared flag
  smp_pc,          \* where the sampler stands
  rss, load,       \* its last readings
  should_recover,  \* its local variable
  wal,             \* history: frames handed to the log, in order
  lost,            \* history: frames given up, by the place where it happened
  late             \* history: frames queued since degraded was last set

kernelVars  == <<seen, ring>>
samplerVars == <<smp_pc, rss, load, should_recover>>
writerVars  == <<wr_pc, wr_fill, wr_rec>>
vars == <<seen, ring, cap_pc, queue, wr_pc, wr_fill, wr_rec, degraded, smp_pc, rss, load,
          should_recover, wal, lost, late>>

NoRecord == 0
Places == {"ring_full", "discard", "capture", "slicer", "writer", "failed_writer"}
GiveUp(place, frame) == lost' = [lost EXCEPT ![place] = @ \cup {frame}]

SetDegraded(value) ==
  /\ degraded' = value
  /\ late' = IF value THEN late ELSE 0

Init ==
  /\ seen = 0 /\ ring = <<>> /\ queue = <<>>
  /\ cap_pc = "poll"
  /\ wr_pc = "open" /\ wr_fill = 0 /\ wr_rec = NoRecord
  /\ degraded = FALSE
  /\ smp_pc = "rss" /\ rss = Unread /\ load = Unread /\ should_recover = TRUE
  /\ wal = <<>>
  /\ lost = [p \in Places |-> {}]
  /\ late = 0

-----------------------------------------------------------------------------
(* Kernel: capture.bpf.c reserves a slot for a whitelisted frame, fills it *)
(* and submits it ...                                                      *)

RingSubmit ==
  /\ seen < MaxFrames
  /\ Len(ring) < RingCapacity
  /\ seen' = seen + 1
  /\ ring' = Append(ring, seen + 1)
  /\ UNCHANGED <<cap_pc, queue, writerVars, degraded, samplerVars, wal, lost, late>>

\* ... gives it back where the frame cannot be copied ...
RingDiscard ==
  /\ seen < MaxFrames
  /\ seen' = seen + 1
  /\ GiveUp("discard", seen + 1)
  /\ UNCHANGED <<ring, cap_pc, queue, writerVars, degraded, samplerVars, wal, late>>

\* ... and gets none where there is no room: the frame passes unrecorded. Frames
\* differ in size, and a discarded slot takes room until the reader passes it, so
\* that this may happen whatever number of frames is in the ring.
RingFull ==
  /\ seen < MaxFrames
  /\ seen' = seen + 1
  /\ GiveUp("ring_full", seen + 1)
  /\ UNCHANGED <<ring, cap_pc, queue, writerVars, degraded, samplerVars, wal, late>>

-----------------------------------------------------------------------------
(* Capture thread.  ring.next() lends the oldest item; its slot is given   *)
(* back when the loop body ends.                                           *)

CapturePoll ==
  /\ cap_pc = "poll"
  /\ ring # <<>>
  /\ cap_pc' = "next"
  /\ UNCHANGED <<kernelVars, queue, writerVars, degraded, samplerVars, wal, lost, late>>

\* poll returned an error: consume ends and drops the only Sender.
CapturePollError ==
  /\ cap_pc = "poll"
  /\ cap_pc' = "exited"
  /\ UNCHANGED <<kernelVars, queue, writerVars, degraded, samplerVars, wal, lost, late>>

CaptureNext ==
  /\ cap_pc = "next"
  /\ cap_pc' = IF ring = <<>> THEN "poll" ELSE "item"
  /\ UNCHANGED <<kernelVars, queue, writerVars, degraded, samplerVars, wal, lost, late>>

CaptureDrop ==
  /\ cap_pc = "item"
  /\ degraded
  /\ GiveUp("capture", Head(ring))
  /\ ring' = Tail(ring)
  /\ cap_pc' = "next"
  /\ UNCHANGED <<seen, queue, writerVars, degraded, samplerVars, wal, late>>

\* Faulty variant: the flag is not looked at.
CapturePassAlways ==
  /\ cap_pc = "item"
  /\ cap_pc' = "slice"
  /\ UNCHANGED <<kernelVars, queue, writerVars, degraded, samplerVars, wal, lost, late>>

CapturePass ==
  /\ cap_pc = "item"
  /\ ~ degraded
  /\ cap_pc' = "slice"
  /\ UNCHANGED <<kernelVars, queue, writerVars, degraded, samplerVars, wal, lost, late>>

\* Slicer::process: not a TCP or UDP frame over IPv4 after all ...
SliceReject ==
  /\ cap_pc = "slice"
  /\ GiveUp("slicer", Head(ring))
  /\ ring' = Tail(ring)
  /\ cap_pc' = "next"
  /\ UNCHANGED <<seen, queue, writerVars, degraded, samplerVars, wal, late>>

\* ... or a record, whose DEGRADED bit is a second load of the flag.
SliceRecord ==
  /\ cap_pc = "slice"
  /\ cap_pc' = "send"
  /\ UNCHANGED <<kernelVars, queue, writerVars, degraded, samplerVars, wal, lost, late>>

\* Faulty variant: does not wait for a free place.
CaptureSendUnbounded ==
  /\ cap_pc = "send"
  /\ queue' = Append(queue, Head(ring))
  /\ ring' = Tail(ring)
  /\ cap_pc' = "next"
  /\ late' = IF degraded THEN late + 1 ELSE late
  /\ UNCHANGED <<seen, writerVars, degraded, samplerVars, wal, lost>>

\* Faulty variant: the item is not given back to the ring.
CaptureSendKeepsItem ==
  /\ cap_pc = "send"
  /\ Len(queue) < QueueCapacity
  /\ queue' = Append(queue, Head(ring))
  /\ cap_pc' = "next"
  /\ late' = IF degraded THEN late + 1 ELSE late
  /\ UNCHANGED <<kernelVars, writerVars, degraded, samplerVars, wal, lost>>

\* tx.send blocks while the channel is full.  It cannot fail: main keeps a
\* Receiver, so the channel is never disconnected on this side.
CaptureSend ==
  /\ cap_pc = "send"
  /\ Len(queue) < QueueCapacity
  /\ queue' = Append(queue, Head(ring))
  /\ ring' = Tail(ring)
  /\ cap_pc' = "next"
  /\ late' = IF degraded THEN late + 1 ELSE late
  /\ UNCHANGED <<seen, writerVars, degraded, samplerVars, wal, lost>>

-----------------------------------------------------------------------------
(* Writer thread: WalWriter::run.                                          *)

WriterOpen ==
  /\ wr_pc = "open"
  /\ wr_pc' = "check"
  /\ UNCHANGED <<kernelVars, cap_pc, queue, wr_fill, wr_rec, degraded, samplerVars, wal, lost, late>>

\* hot_path_check reads the fill ...
CheckLen ==
  /\ wr_pc = "check"
  /\ wr_fill' = Len(queue)
  /\ wr_pc' = "store"
  /\ UNCHANGED <<kernelVars, cap_pc, queue, wr_rec, degraded, samplerVars, wal, lost, late>>

\* ... and then sets or clears the flag, whoever set it and why.  A capacity
\* of 0 makes it divide by zero, and the release profile aborts the process.
CheckStore ==
  /\ wr_pc = "store"
  /\ IF QueueCapacity = 0
     THEN /\ wr_pc' = "panicked" /\ cap_pc' = "exited" /\ smp_pc' = "exited"
          /\ UNCHANGED <<degraded, late>>
     ELSE /\ wr_pc' = "recv"
          /\ CASE HotVerdict(wr_fill, QueueCapacity, Watermark) = "set"   -> SetDegraded(TRUE)
               [] HotVerdict(wr_fill, QueueCapacity, Watermark) = "clear" -> SetDegraded(FALSE)
               [] OTHER -> UNCHANGED <<degraded, late>>
          /\ UNCHANGED <<cap_pc, smp_pc>>
  /\ wr_fill' = 0
  /\ UNCHANGED <<kernelVars, queue, wr_rec, rss, load, should_recover, wal, lost>>

\* Faulty variant: a degraded writer leaves the channel alone.
WriterRecvUnlessDegraded ==
  /\ wr_pc = "recv"
  /\ queue # <<>>
  /\ ~ degraded
  /\ wr_rec' = Head(queue)
  /\ queue' = Tail(queue)
  /\ wr_pc' = "handle"
  /\ UNCHANGED <<kernelVars, cap_pc, wr_fill, degraded, samplerVars, wal, lost, late>>

WriterRecv ==
  /\ wr_pc = "recv"
  /\ queue # <<>>
  /\ wr_rec' = Head(queue)
  /\ queue' = Tail(queue)
  /\ wr_pc' = "handle"
  /\ UNCHANGED <<kernelVars, cap_pc, wr_fill, degraded, samplerVars, wal, lost, late>>

\* recv_timeout found nothing for 200 ms: straight back to the check.
WriterTimeout ==
  /\ wr_pc = "recv"
  /\ queue = <<>>
  /\ cap_pc # "exited"
  /\ wr_pc' = "check"
  /\ UNCHANGED <<kernelVars, cap_pc, queue, wr_fill, wr_rec, degraded, samplerVars, wal, lost, late>>

\* Faulty variant: a disconnected channel is taken for a timeout.
WriterDisconnectedContinues ==
  /\ wr_pc = "recv"
  /\ queue = <<>>
  /\ cap_pc = "exited"
  /\ wr_pc' = "check"
  /\ UNCHANGED <<kernelVars, cap_pc, queue, wr_fill, wr_rec, degraded, samplerVars, wal, lost, late>>

\* The Sender is gone and the channel is drained: flush and return.
WriterDisconnected ==
  /\ wr_pc = "recv"
  /\ queue = <<>>
  /\ cap_pc = "exited"
  /\ wr_pc' = "stopped"
  /\ UNCHANGED <<kernelVars, cap_pc, queue, wr_fill, wr_rec, degraded, samplerVars, wal, lost, late>>

\* Faulty variant: the dropped record is forgotten.
HandleDropUncounted ==
  /\ wr_pc = "handle"
  /\ degraded
  /\ wr_rec' = NoRecord
  /\ wr_pc' = "rotate"
  /\ UNCHANGED <<kernelVars, cap_pc, queue, wr_fill, degraded, samplerVars, wal, lost, late>>

\* handle_record: a record taken from the channel while degraded is dropped.
HandleDrop ==
  /\ wr_pc = "handle"
  /\ degraded
  /\ GiveUp("writer", wr_rec)
  /\ wr_rec' = NoRecord
  /\ wr_pc' = "rotate"
  /\ UNCHANGED <<kernelVars, cap_pc, queue, wr_fill, degraded, samplerVars, wal, late>>

HandleAccept ==
  /\ wr_pc = "handle"
  /\ ~ degraded
  /\ wr_pc' = "write"
  /\ UNCHANGED <<kernelVars, cap_pc, queue, wr_fill, wr_rec, degraded, samplerVars, wal, lost, late>>

WriteRecord ==
  /\ wr_pc = "write"
  /\ wal' = Append(wal, wr_rec)
  /\ wr_rec' = NoRecord
  /\ wr_pc' = "rotate"
  /\ UNCHANGED <<kernelVars, cap_pc, queue, wr_fill, degraded, samplerVars, lost, late>>

MaybeRotate ==
  /\ wr_pc = "rotate"
  /\ wr_pc' = "check"
  /\ UNCHANGED <<kernelVars, cap_pc, queue, wr_fill, wr_rec, degraded, samplerVars, wal, lost, late>>

\* An I/O error ends run; main.rs logs it and nothing restarts the thread.
WriterFail ==
  /\ wr_pc \in {"open", "write", "rotate"}
  /\ IF wr_rec = NoRecord THEN UNCHANGED lost ELSE GiveUp("failed_writer", wr_rec)
  /\ wr_rec' = NoRecord
  /\ wr_pc' = "failed"
  /\ UNCHANGED <<kernelVars, cap_pc, queue, wr_fill, degraded, samplerVars, wal, late>>

-----------------------------------------------------------------------------
(* Sampler thread; readings are taken afresh in every round.               *)

SampleRss ==
  /\ smp_pc = "rss"
  /\ \E r \in RssReadings \cup {Unread} :
       /\ rss' = r
       /\ should_recover' = (RssVerdict(r, RssLimit) = "low")
       /\ SetDegraded(degraded \/ RssVerdict(r, RssLimit) = "high")
  /\ smp_pc' = "load"
  /\ UNCHANGED <<kernelVars, cap_pc, queue, writerVars, load, wal, lost>>

SampleLoad ==
  /\ smp_pc = "load"
  /\ \E r \in LoadReadings \cup {Unread} :
       /\ load' = r
       /\ should_recover' = (should_recover /\ LoadVerdict(r, LoadLimit) = "low")
       /\ SetDegraded(degraded \/ LoadVerdict(r, LoadLimit) = "high")
  /\ smp_pc' = "recover"
  /\ UNCHANGED <<kernelVars, cap_pc, queue, writerVars, rss, wal, lost>>

\* Faulty variant: the first release, which left recovery to the hot path.
SamplerOnlySets ==
  /\ smp_pc = "recover"
  /\ smp_pc' = "rss"
  /\ UNCHANGED <<kernelVars, cap_pc, queue, writerVars, degraded, rss, load, should_recover,
                 wal, lost, late>>

SamplerRecover ==
  /\ smp_pc = "recover"
  /\ SetDegraded(degraded /\ ~ should_recover)
  /\ smp_pc' = "rss"
  /\ UNCHANGED <<kernelVars, cap_pc, queue, writerVars, rss, load, should_recover, wal, lost>>

-----------------------------------------------------------------------------
Kernel == RingSubmit \/ RingDiscard \/ RingFull

CaptureStep ==
  \/ CapturePoll \/ CaptureNext
  \/ CaptureDrop \/ CapturePass
  \/ SliceReject \/ SliceRecord
  \/ CaptureSend

WriterStep ==
  \/ WriterOpen
  \/ CheckLen \/ CheckStore
  \/ WriterRecv \/ WriterTimeout \/ WriterDisconnected
  \/ HandleDrop \/ HandleAccept
  \/ WriteRecord \/ MaybeRotate

SamplerStep == SampleRss \/ SampleLoad \/ SamplerRecover

Next ==
  \/ Kernel
  \/ CaptureStep \/ CapturePollError
  \/ WriterStep \/ WriterFail
  \/ SamplerStep

Spec == Init /\ [][Next]_vars

\* The operating system keeps running every thread that can run; frames,
\* errors and readings are never promised.
FairSpec ==
  /\ Spec
  /\ WF_vars(CaptureStep)
  /\ WF_vars(WriterStep)
  /\ WF_vars(SamplerStep)

-----------------------------------------------------------------------------
Frames == 1 .. MaxFrames

TypeOK ==
  /\ seen \in 0 .. MaxFrames
  /\ ring \in Seq(Frames) /\ Len(ring) <= RingCapacity
  /\ queue \in Seq(Frames) /\ Len(queue) <= QueueCapacity
  /\ wal \in Seq(Frames)
  /\ cap_pc \in {"poll", "next", "item", "slice", "send", "exited"}
  /\ cap_pc \in {"item", "slice", "send"} => ring # <<>>
  /\ wr_pc \in {"open", "check", "store", "recv", "handle", "write", "rotate",
                "stopped", "failed", "panicked"}
  /\ wr_fill \in 0 .. QueueCapacity
  /\ wr_rec \in Frames \cup {NoRecord}
  /\ wr_rec # NoRecord <=> wr_pc \in {"handle", "write"}
  /\ degraded \in BOOLEAN /\ should_recover \in BOOLEAN
  /\ smp_pc \in {"rss", "load", "recover", "exited"}
  /\ rss \in RssReadings \cup {Unread}
  /\ load \in LoadReadings \cup {Unread}
  /\ lost \in [Places -> SUBSET Frames]
  /\ late \in Nat

Hand == IF wr_rec = NoRecord THEN <<>> ELSE <<wr_rec>>
InFlight == Hand \o queue \o ring
SetOf(s) == {s[i] : i \in DOMAIN s}

\* Every frame that passed the filter is in exactly one place: written, in
\* flight, or given up at exactly one of the points where frames are given up.
Conservation ==
  /\ \A f \in 1 .. seen :
       1 = Cardinality({i \in DOMAIN wal : wal[i] = f})
         + Cardinality({i \in DOMAIN InFlight : InFlight[i] = f})
         + Cardinality({p \in Places : f \in lost[p]})
  /\ \A f \in SetOf(wal) \cup SetOf(InFlight) \cup UNION {lost[p] : p \in Places} : f <= seen

\* However the threads interleave, the log is a subsequence of the traffic.
Fifo == INSTANCE LossyFifo WITH seen <- seen, pending <- InFlight, output <- wal
ImplementsLossyFifo == Fifo!Spec

\* The capture thread checks the flag once and queues later: of the frames that
\* come after degraded is set, at most one still reaches the channel.
LateIntakeBounded == degraded => late <= 1

Increasing(s) == \A i, j \in DOMAIN s : i < j => s[i] < s[j]

\* The log never repeats nor reorders a frame.
WalInOrder == Increasing(wal)

\* A frame inside the probe does not stay there while both threads live: it
\* is written or dropped, even when degraded never ends.
EveryFrameSettles ==
  \A f \in Frames :
    f \in SetOf(InFlight) ~> \/ f \notin SetOf(InFlight)
                             \/ wr_pc = "failed" \/ cap_pc = "exited"

\* When the capture thread ends, the writer drains the channel and ends too.
WriterFollowsCapture == cap_pc = "exited" ~> wr_pc \in {"stopped", "failed"}

Receded == RssVerdict(rss, RssLimit) = "low" /\ LoadVerdict(load, LoadLimit) = "low"

\* hot_path_check is about to set the flag: it has read a fill at the watermark.
Crowded == /\ wr_pc = "store" /\ QueueCapacity # 0
           /\ HotVerdict(wr_fill, QueueCapacity, Watermark) = "set"

\* "Auto-recovery": degradation ends when RSS and load have receded and stay so
\* and the writer finds the channel at its watermark no more, whatever else has
\* become of the writer. Low RSS and load alone do not end it: under traffic that
\* keeps filling the channel hot_path_check sets the flag again and again.
EventualRecovery == <>[](Receded /\ ~ Crowded) => <>[](~ degraded)

-----------------------------------------------------------------------------
(* What the documents say and the code does not do.                        *)

\* README: RSS and load both below their bands clear degradation.
RecoveryNeedsBoth == [][degraded /\ ~ degraded' => Receded']_vars

\* "the hysteresis band is ~80% of the trigger": at 80% or less, recover.
RecoversBelow80 ==
  smp_pc = "recover" /\ rss * 10 <= RssLimit * 8 /\ load * 10 <= LoadLimit * 8
    => should_recover

\* "downstream closed, exit": with the writer gone, a send makes the capture
\* thread end.
CaptureFollowsWriter == wr_pc = "failed" /\ cap_pc = "send" ~> cap_pc = "exited"

=============================================================================
