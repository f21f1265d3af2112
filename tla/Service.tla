------------------------------ MODULE Service ------------------------------
(***************************************************************************)
(* The service around the log: systemd starts main.rs, which makes the     *)
(* WalWriter and its thread first and only then loads and attaches the     *)
(* eBPF program (capture/mod.rs, load_and_attach).  An error there ends    *)
(* the process and systemd starts it again (Restart=on-failure), so that   *)
(* a service that cannot attach still makes a segment, and may evict one,  *)
(* in every attempt.                                                       *)
(*                                                                         *)
(* The writer thread and the directory are those of Rotator; each of its   *)
(* actions is taken here by the process or the thread that takes it.       *)
(***************************************************************************)
EXTENDS Rotator

CONSTANT MaxInterfaces       \* bound: so many names --interface may list

ASSUME ServiceAssumption == MaxInterfaces \in Nat \ {0}

VARIABLES
  interfaces,  \* how many names --interface lists; 1 .. interfaces are the links
  up,          \* those of them that exist
  main,        \* where the main thread stands, or how the process ended
  next,        \* the link load_and_attach comes to next
  capture,     \* the capture thread: not made yet, consuming, ended
  had,         \* history: segments there when a capture thread last existed,
               \* none of them once the directory has been misread
  starts       \* history: starts of the process since then, up to Kept

mainVars    == <<main, next, capture>>
costVars    == <<had, starts>>
serviceVars == <<vars, interfaces, up, mainVars, costVars>>

\* So many of the newest segments survive a rotation, whatever was converted.
Kept == MaxSegments - MaxOthers

Alive == main \notin {"stopped", "exited"}

-----------------------------------------------------------------------------
ServiceInit ==
  /\ Init
  /\ interfaces \in 1 .. MaxInterfaces
  /\ up \in SUBSET (1 .. interfaces)
  /\ main = "stopped" /\ next = 1 /\ capture = "none"
  /\ had = segs /\ starts = 0

\* Of a directory that was misread no segment is promised.
Promised(numbers) == IF astray' THEN {} ELSE numbers

\* The process ends, and its threads with it.
EndProcess(how) ==
  /\ main' = how /\ next' = 1 /\ capture' = "none"
  /\ IF pc = "down" THEN UNCHANGED vars ELSE Crash
  /\ IF capture = "none" THEN UNCHANGED costVars ELSE had' = Promised(segs) /\ starts' = 0
  /\ UNCHANGED <<interfaces, up>>

Launch ==
  /\ main' = "setup"
  /\ starts' = IF starts < Kept THEN starts + 1 ELSE starts
  /\ UNCHANGED <<vars, interfaces, up, next, capture, had>>

\* The first start, or one after a stop, is the operator's.
OperatorStarts == main = "stopped" /\ Launch

\* RestartSec after a failure, systemd tries again.
Restart == main = "exited" /\ Launch

\* Arguments, file, validate, the directory, Rotator::new: an error in any of
\* them returns from main before there is a writer.
SetupFails ==
  /\ main = "setup"
  /\ EndProcess("exited")

\* WalWriter::new, then its thread is spawned.
NewWriter ==
  /\ main = "setup"
  /\ Start
  /\ main' = "load"
  /\ had' = Promised(had)
  /\ UNCHANGED <<interfaces, up, next, capture, starts>>

\* load_and_attach: the object and the port whitelist ...
LoadBpf ==
  /\ main = "load"
  /\ main' = "attach"
  /\ UNCHANGED <<vars, interfaces, up, next, capture, costVars>>

\* ... which the kernel may reject, as it does a 257th port.
LoadFails ==
  /\ main = "load"
  /\ EndProcess("exited")

\* aya loads a program once: a second load returns AlreadyLoaded.
CanLoad == next = 1

\* For each name of the list: load the program, attach it to both directions.
AttachInterface ==
  /\ main = "attach"
  /\ next <= interfaces
  /\ CanLoad
  /\ next \in up
  /\ next' = next + 1
  /\ UNCHANGED <<vars, interfaces, up, main, capture, costVars>>

\* Faulty variant: the error is logged, as the threads' errors are.
AttachFailsLogged ==
  /\ main = "attach"
  /\ next <= interfaces
  /\ ~ CanLoad \/ next \notin up
  /\ main' = "running"
  /\ UNCHANGED <<vars, interfaces, up, next, capture, costVars>>

\* An error of any of the calls returns from main; the writer's first segment
\* may be there already, or half made.
AttachFails ==
  /\ main = "attach"
  /\ next <= interfaces
  /\ ~ CanLoad \/ next \notin up
  /\ EndProcess("exited")

\* Faulty variant: frames are consumed as soon as one link is attached.
SpawnCaptureEarly ==
  /\ main = "attach"
  /\ next > 1
  /\ capture' = "consuming"
  /\ UNCHANGED <<vars, interfaces, up, main, next, costVars>>

\* The capture thread is spawned; main goes on to its heartbeat, for ever.
SpawnCapture ==
  /\ main = "attach"
  /\ next > interfaces
  /\ main' = "running"
  /\ capture' = "consuming"
  /\ UNCHANGED <<vars, interfaces, up, next, costVars>>

\* A poll error ends the capture thread; main only logs it and runs on.
CaptureEnds ==
  /\ capture = "consuming"
  /\ capture' = "ended"
  /\ UNCHANGED <<vars, interfaces, up, main, next, costVars>>

\* The writer's first act is to open a segment ...
OpenFirst ==
  /\ pc = "started"
  /\ CreateSegment
  /\ UNCHANGED <<interfaces, up, mainVars, costVars>>

\* Faulty variant: the interval is looked at in an idle turn of the loop, too.
RotateWhenIdle ==
  /\ pc = "writing"
  /\ CreateSegment
  /\ UNCHANGED <<interfaces, up, mainVars, costVars>>

\* ... and it rotates only after a record, of which there is none before the
\* capture thread; what that one queued is still written after its end.
RotateOnRecord ==
  /\ pc = "writing"
  /\ capture # "none"
  /\ CreateSegment
  /\ UNCHANGED <<interfaces, up, mainVars, costVars>>

WriterGoesOn ==
  /\ RotatorStep
  /\ had' = Promised(had)
  /\ UNCHANGED <<interfaces, up, mainVars, starts>>

WriterFails ==
  /\ IoError
  /\ UNCHANGED <<interfaces, up, mainVars, costVars>>

\* A signal or an abort: a failure to systemd.
Kill == Alive /\ EndProcess("exited")

\* systemctl stop: the signal ends the process; nothing in it handles it.
Stop == Alive /\ EndProcess("stopped")

\* A link appears or goes away.
LinkChanges ==
  /\ \E i \in 1 .. interfaces : up' = IF i \in up THEN up \ {i} ELSE up \cup {i}
  /\ UNCHANGED <<vars, interfaces, mainVars, costVars>>

OperatorConverts ==
  /\ ConvertSegment
  /\ UNCHANGED <<interfaces, up, mainVars, costVars>>

MainStep == NewWriter \/ LoadBpf \/ AttachInterface \/ AttachFails \/ SpawnCapture

Disturbance == SetupFails \/ LoadFails \/ Kill \/ Stop

ServiceNext ==
  \/ OperatorStarts \/ Restart
  \/ MainStep
  \/ Disturbance
  \/ CaptureEnds
  \/ OpenFirst \/ RotateOnRecord \/ WriterGoesOn \/ WriterFails
  \/ LinkChanges
  \/ OperatorConverts

ServiceSpec == ServiceInit /\ [][ServiceNext]_serviceVars

\* systemd restarts after every failure, the main thread and the writer inside
\* open_segment do not block; links, records and stops are never promised.
FairServiceSpec ==
  /\ ServiceSpec
  /\ WF_serviceVars(Restart)
  /\ WF_serviceVars(MainStep)
  /\ WF_serviceVars(WriterGoesOn)

-----------------------------------------------------------------------------
ServiceTypeOK ==
  /\ interfaces \in 1 .. MaxInterfaces
  /\ up \subseteq 1 .. interfaces
  /\ main \in {"stopped", "exited", "setup", "load", "attach", "running"}
  /\ next \in 1 .. interfaces + 1
  /\ capture \in {"none", "consuming", "ended"}
  /\ capture # "none" => main = "running"
  /\ main \in {"stopped", "exited", "setup"} <=> pc = "down"
  /\ had \subseteq allocated /\ (astray => had = {})
  /\ starts \in 0 .. Kept

\* A start that never comes to capture costs at most one recorded segment:
\* after k such starts, failed at any point and with kills, I/O errors and
\* conversions in between, the Kept - k newest segments that the last capture
\* left are still on disk, unless the directory was misread since.
FailedStartsCostOneEach ==
  capture = "none" =>
    \A n \in had :
      Cardinality({m \in had : m >= n}) <= Kept - starts => n \in segs

\* A service with one interface comes to capture once the link is there for
\* good and nothing else ends it, however many starts failed before.
AttachesInTheEnd ==
  /\ interfaces = 1
  /\ <>[](1 \in up)
  /\ <>[][~ Disturbance]_serviceVars
  => <>[](main = "stopped" \/ capture # "none")

=============================================================================
