------------------------------ MODULE Rotator ------------------------------
(***************************************************************************)
(* wal/rotate.rs: numbered WAL segments in a RAM-disk directory.           *)
(*                                                                         *)
(* WalWriter::open_segment calls Rotator::next_segment and then opens the  *)
(* path it got.  Each system call of the two is a step of its own here, so *)
(* that a crash, a restart (systemd Restart=on-failure), an I/O error or   *)
(* an operator running sov2pcap can fall between any two of them.          *)
(*                                                                         *)
(* Data kept: segment numbers, the two ledger cursors, and how many files  *)
(* with other names that begin with "segment_" lie beside the segments:    *)
(* segment_0007.wal.pcap is the default output of sov2pcap for a segment.  *)
(* existing_count counts them; seg_path never names them.                  *)
(*                                                                         *)
(* Reads of the directory whose errors the code passes over go wrong here  *)
(* too.  Then the process is astray: it works with numbers that are not    *)
(* the directory's, until one of its starts reads them right.              *)
(***************************************************************************)
EXTENDS Integers, FiniteSets, FiniteSetsExt

CONSTANTS
  MaxSegments,   \* max_segments: the budget of files
  MaxSegNo,      \* bound: the model allocates no number above it
  MaxOthers,     \* bound: so many such other files
  MaxMisreads,   \* bound: so many reads that go wrong and matter
  InitSegNos     \* numbers a directory may already hold when the probe starts

ASSUME RotatorAssumption ==
  /\ MaxSegments \in Nat \ {0}          \* Config::validate, Rotator::new
  /\ MaxSegNo \in Nat
  /\ MaxOthers \in Nat
  /\ MaxMisreads \in Nat
  /\ InitSegNos \subseteq 0 .. MaxSegNo

VARIABLES
  segs,        \* disk: numbers n with a file segment_<n>.wal
  others,      \* disk: how many other files have a name that begins with segment_
  ledger,      \* disk: the file "ledger"
  pc,          \* where the writer thread stands in next_segment / open_segment
  seg_no,      \* Rotator.seg_no: the next number to give out
  min_no,      \* Rotator.min_no: the next number to unlink
  no,          \* the number next_segment is allocating, then the open segment
  pending,     \* the ledger line persist_ledger is about to write
  allocated,   \* history: every number a file was created for since the numbers
               \* were last right
  astray,      \* history: the process works with numbers it has misread
  undercounted,\* history: the last count that ended enforce_budget was short
  misreads     \* history: reads that went wrong and mattered

diskVars == <<segs, others, ledger>>
historyVars == <<allocated, astray, undercounted, misreads>>
vars == <<segs, others, ledger, pc, seg_no, min_no, no, pending, historyVars>>

\* States of the ledger file; "torn" has fewer than two fields: the file was
\* truncated and its line is not (completely) written yet.
Absent       == [state |-> "absent", write |-> 0, read |-> 0]
Torn         == [state |-> "torn", write |-> 0, read |-> 0]
Line(w, r)   == [state |-> "line", write |-> w, read |-> r]
NoPending    == [write |-> 0, read |-> 0, next |-> "none"]

\* Steps inside open_segment, at each of which an I/O call may fail.
Busy == {"started", "writing", "budget", "evicted", "persist", "write_ledger", "reopen"}

\* Faulty variant: the file just created is not counted.
FileCountBeforeCreate == Cardinality(segs) + others - 1

\* The files whose name starts with "segment_", which existing_count counts.
FileCount == Cardinality(segs) + others

\* Faulty variant: min_no moves only when it named a file.
NextMinIfUnlinked == IF min_no \in segs THEN min_no + 1 ELSE min_no

\* Counting past MaxSegNo + 1 can unlink nothing more, so min_no stops there.
NextMin == IF min_no <= MaxSegNo THEN min_no + 1 ELSE min_no

\* Faulty variant: the number of files instead of the largest number.
ScanNextByCount(names) == Cardinality(names)

\* scan_existing, first result: one above the largest number it saw.
ScanNext(names) == IF names = {} THEN 0 ELSE Max(names) + 1

\* Faulty variant: an "infinite" minimum for an empty directory.
ScanMinOfEmpty(names) == IF names = {} THEN MaxSegNo + 2 ELSE Min(names)

\* scan_existing, second result: the smallest number it saw.
ScanMin(names) == IF names = {} THEN 0 ELSE Min(names)

\* A scan that missed something, and not only what makes no difference.
ScanIsWrong(names) ==
  \/ ScanNext(names) # ScanNext(segs)
  \/ ScanMin(names) # ScanMin(segs)

\* The read cursor on disk is beyond every segment, as a process may leave it
\* that has gone astray.
CursorAhead == ledger.state = "line" /\ \A s \in segs : s < ledger.read

CountMisread(wrong) ==
  /\ misreads' = IF wrong THEN misreads + 1 ELSE misreads
  /\ misreads' <= MaxMisreads

-----------------------------------------------------------------------------
\* A first boot, or a directory left by an earlier run or filled by genwal.
Init ==
  /\ segs \in SUBSET InitSegNos
  /\ allocated = segs
  /\ others = 0
  /\ ledger = Absent
  /\ pc = "down"
  /\ seg_no = 0 /\ min_no = 0 /\ no = 0
  /\ pending = NoPending
  /\ astray = FALSE /\ undercounted = FALSE /\ misreads = 0

\* Rotator::new: resume above the largest number seen. A read_dir that fails and
\* an entry that fails are passed over, so that any of the names may be missed.
Start ==
  /\ pc = "down"
  /\ pc' = "started"
  /\ \E names \in SUBSET segs :
       /\ seg_no' = ScanNext(names)
       /\ min_no' = ScanMin(names)
       /\ astray' = (ScanIsWrong(names) \/ CursorAhead)
       /\ CountMisread(ScanIsWrong(names))
  /\ allocated' = IF astray /\ ~ astray' THEN segs ELSE allocated
  /\ UNCHANGED <<segs, others, ledger, no, pending, undercounted>>

\* next_segment up to the open: the number is taken and create_new makes the
\* file; if the file is there already the call fails (see IoError).
CreateSegment ==
  /\ pc \in {"started", "writing"}
  /\ seg_no <= MaxSegNo
  /\ seg_no \notin segs
  /\ no' = seg_no
  /\ seg_no' = seg_no + 1
  /\ segs' = segs \cup {seg_no}
  /\ allocated' = allocated \cup {seg_no}
  /\ undercounted' = FALSE
  /\ pc' = "budget"
  /\ UNCHANGED <<others, ledger, min_no, pending, astray, misreads>>

\* enforce_budget: the loop ends when existing_count finds the directory within
\* its budget. It counts what it can read: nothing when read_dir fails, and no
\* entry that fails.
BudgetMet ==
  /\ pc = "budget"
  /\ \E count \in 0 .. FileCount :
       /\ count <= MaxSegments
       /\ undercounted' = (FileCount > MaxSegments)
       /\ CountMisread(undercounted')
  /\ pc' = "persist"
  /\ UNCHANGED <<segs, others, ledger, seg_no, min_no, no, pending, allocated, astray>>

\* Otherwise it unlinks segment min_no, if there is such a file ...
EvictOldest ==
  /\ pc = "budget"
  /\ FileCount > MaxSegments
  /\ segs' = segs \ {min_no}
  /\ min_no' = NextMin
  /\ pc' = "evicted"
  /\ UNCHANGED <<others, ledger, seg_no, no, pending, historyVars>>

\* ... which exists() denies when it cannot look: the file is passed over for as
\* long as the process lives.
EvictMissed ==
  /\ pc = "budget"
  /\ FileCount > MaxSegments
  /\ min_no \in segs
  /\ min_no' = NextMin
  /\ astray' = TRUE
  /\ CountMisread(TRUE)
  /\ pc' = "evicted"
  /\ UNCHANGED <<segs, others, ledger, seg_no, no, pending, allocated, undercounted>>

\* persist_ledger opens the file with truncate(true) and writes the line w r;
\* afterwards the caller goes on at next.
TruncateLedger(w, r, next) ==
  /\ ledger' = Torn
  /\ pending' = [write |-> w, read |-> r, next |-> next]
  /\ pc' = "write_ledger"
  /\ UNCHANGED <<segs, others, seg_no, min_no, no, historyVars>>

\* A file without two fields yields the write cursor, as does one that cannot be
\* read.
KeptCursors == {no} \cup {r \in {ledger.read} : ledger.state = "line"}

PersistAfterEvict ==
  /\ pc = "evicted"
  /\ TruncateLedger(seg_no, min_no, "budget")

\* Faulty variant: the write cursor is already the next number.
PersistNextNo ==
  /\ pc = "persist"
  /\ \E read \in KeptCursors : TruncateLedger(seg_no, read, "reopen")

\* With no read cursor given, the one in the file is kept.
PersistAllocation ==
  /\ pc = "persist"
  /\ \E read \in KeptCursors : TruncateLedger(no, read, "reopen")

WriteLedger ==
  /\ pc = "write_ledger"
  /\ ledger' = Line(pending.write, pending.read)
  /\ pc' = pending.next
  /\ pending' = NoPending
  /\ UNCHANGED <<segs, others, seg_no, min_no, no, historyVars>>

\* open_segment opens the returned path with create(true).append(true).
ReopenSegment ==
  /\ pc = "reopen"
  /\ segs' = segs \cup {no}
  /\ pc' = "writing"
  /\ UNCHANGED <<others, ledger, seg_no, min_no, no, pending, historyVars>>

\* The calls of next_segment and open_segment that change the disk end in `?`:
\* an error ends WalWriter::run, the writer thread logs it and is gone while the
\* process lives on (main.rs). So does create_new where the number is taken. The
\* reads (scan_existing, exists, existing_count, the ledger) do not fail so; what
\* they miss is part of the actions above.
IoError ==
  /\ pc \in Busy
  /\ pc' = "failed"
  /\ UNCHANGED <<segs, others, ledger, seg_no, min_no, no, pending, historyVars>>

\* The process ends (kill, abort, stop); what is in memory is gone.
Crash ==
  /\ pc # "down"
  /\ pc' = "down"
  /\ seg_no' = 0 /\ min_no' = 0 /\ no' = 0
  /\ pending' = NoPending
  /\ undercounted' = FALSE
  /\ UNCHANGED <<segs, others, ledger, allocated, astray, misreads>>

\* Another file appears: sov2pcap -i <dir>/segment_<n>.wal without -o writes
\* <input>.pcap, an operator copies a segment to segment_<n>.wal.1.
ConvertSegment ==
  /\ segs # {}
  /\ others < MaxOthers
  /\ others' = others + 1
  /\ UNCHANGED <<segs, ledger, pc, seg_no, min_no, no, pending, historyVars>>

RotatorStep ==
  \/ BudgetMet
  \/ EvictOldest
  \/ EvictMissed
  \/ PersistAfterEvict
  \/ PersistAllocation
  \/ WriteLedger
  \/ ReopenSegment

Next ==
  \/ Start
  \/ CreateSegment
  \/ RotatorStep
  \/ IoError
  \/ Crash
  \/ ConvertSegment

Spec == Init /\ [][Next]_vars

\* A thread inside open_segment keeps running: nothing in it blocks.
FairSpec == Spec /\ WF_vars(RotatorStep)

-----------------------------------------------------------------------------
HistoryOK ==
  /\ astray \in BOOLEAN /\ undercounted \in BOOLEAN
  /\ misreads \in 0 .. MaxMisreads

TypeOK ==
  /\ segs \subseteq allocated
  /\ allocated \subseteq 0 .. MaxSegNo
  /\ others \in 0 .. MaxOthers
  /\ ledger \in [state : {"absent", "torn", "line"},
                 write : 0 .. MaxSegNo + 1, read : 0 .. MaxSegNo + 1]
  /\ pc \in Busy \cup {"down", "failed"}
  /\ seg_no \in 0 .. MaxSegNo + 1
  /\ min_no \in 0 .. MaxSegNo + 1
  /\ no \in 0 .. MaxSegNo
  /\ HistoryOK
  /\ pending \in [write : 0 .. MaxSegNo + 1, read : 0 .. MaxSegNo + 1,
                  next : {"none", "budget", "reopen"}]

\* Once next_segment has enforced the budget, and for as long as its segment is
\* written, the directory holds at most max_segments segments, whatever number
\* of segments an earlier run, a crash or another max_segments left behind. It
\* may hold more only while the process works with misread numbers, or until the
\* next rotation when a failed read made the count short.
BudgetHolds ==
  /\ \/ pc \in {"persist", "reopen", "writing"}
     \/ pc = "write_ledger" /\ pending.next = "reopen"
  /\ ~ astray /\ ~ undercounted
  => Cardinality(segs) <= MaxSegments

\* The newest segment ever created is still on disk, after any crash too: it
\* is what scan_existing resumes from, and it is where the writer writes. Only a
\* process that has misread the directory may unlink it.
NewestOnDisk ==
  ~ astray =>
    /\ allocated # {} => \E m \in segs : \A a \in allocated : a <= m
    /\ pc \in {"persist", "reopen", "writing"} => \A a \in allocated : a <= no

\* While a segment is written, the ledger is whole and names it as the write
\* cursor, whatever was misread; and it does not claim that a later segment was
\* read, unless the directory was misread.
LedgerCurrent ==
  pc = "writing" => /\ ledger.state = "line"
                    /\ ledger.write = no
                    /\ astray \/ ledger.read <= no

\* The detailed rotator, with its crashes between any two system calls, gives
\* its consumer the abstract log: names only grow, the oldest goes first, and
\* MaxSegments - MaxOthers of the newest segments stay; all of it again from the
\* first start on that reads the directory right.
Store == INSTANCE SegmentStore WITH Keep <- MaxSegments - MaxOthers
ImplementsStore == Store!Spec

\* enforce_budget terminates: with gaps in the numbers, with files it cannot
\* name, from any directory it may find, unless that directory was misread.
RotationCompletes == pc = "budget" ~> astray \/ pc \in {"writing", "failed", "down"}

=============================================================================
