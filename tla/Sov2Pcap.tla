------------------------------ MODULE Sov2Pcap ------------------------------
(***************************************************************************)
(* bin/sov2pcap.rs on a directory that the probe still writes to.  The     *)
(* converter lists the segments, and then reads, decodes and writes them   *)
(* one by one, while the newest segment grows and the oldest is evicted.   *)
(* It may be run again and again, and each run replaces what the one       *)
(* before has left.                                                        *)
(*                                                                         *)
(* The directory is module SegmentStore, which Rotator implements.  A      *)
(* record is a number: the i-th record of its segment; decoding is module  *)
(* WalCodec, the packet made of a record is in module CapturePath.         *)
(***************************************************************************)
EXTENDS Integers, Sequences, FiniteSets, FiniteSetsExt, SequencesExt

CONSTANTS
  Keep,        \* so many of the newest segments are never given up
  Matching,    \* the records, by their place in a segment, that have the port
               \* of --filter-port
  MaxSegNo,    \* bound: the highest number of a segment
  MaxRecords   \* bound: records in a segment

ASSUME Sov2PcapAssumption ==
  /\ Keep \in Nat \ {0}
  /\ Matching \subseteq Nat
  /\ MaxSegNo \in Nat
  /\ MaxRecords \in Nat

VARIABLES
  segs,        \* disk: the segments
  allocated,   \* every number ever given out
  size,        \* complete records in each segment
  form,        \* how the output is named: "out_dir" (-O), "output" (-o), "beside"
  filter,      \* whether --filter-port is given
  pc,          \* where main stands
  began,       \* the segments when read_dir began
  todo,        \* files yet to convert, the current one first
  records,     \* decode_stream of the current one: so many records
  put,         \* so many of its packets were given to the PcapWriter
  buffered,    \* the packets in its BufWriter
  outputs,     \* disk: the packets of each output file
  due,         \* history: segments, sealed already, that this run has listed
  unnoticed,   \* history: this run has lost packets without an error
  finished     \* history: sealed segments that were wholly converted, and whose
               \* output was not cut short since by a kill or a failing write

dirVars == <<segs, allocated, size>>
optVars == <<form, filter>>
runVars == <<began, todo, records, put, buffered>>
vars == <<dirVars, optVars, pc, runVars, outputs, due, unnoticed, finished>>

SegNos == 0 .. MaxSegNo
Common == MaxSegNo + 1            \* the one output that -o names
Forms  == {"out_dir", "output", "beside"}

\* The probe here never misreads its directory.
Store == INSTANCE SegmentStore WITH astray <- FALSE

Passes(i) == filter => i \in Matching

\* The packets of the first `count` records of segment n: the loop over the
\* decoded records, which passes over those that the filter does not match.
Packets(n, count) ==
  LET upto[i \in 0 .. MaxRecords] ==
        IF i = 0 THEN <<>>
        ELSE IF Passes(i) THEN Append(upto[i - 1], <<n, i>>) ELSE upto[i - 1]
  IN  upto[count]

\* The names in the order of their numbers.
Ascending(S) ==
  {s \in [1 .. Cardinality(S) -> S] :
     Range(s) = S /\ \A i, j \in DOMAIN s : i < j => s[i] < s[j]}

\* output_path: the file's stem in -O, the -o file, or <input>.pcap.
OutputPath(n) == IF form = "output" THEN Common ELSE n

AtPrompt == {"idle", "ok", "failed"}

Current == Head(todo)
Sealed(n) == \E m \in allocated : n < m

-----------------------------------------------------------------------------
Init ==
  /\ segs = {} /\ allocated = {}
  /\ size = [n \in SegNos |-> 0]
  /\ form \in Forms /\ filter \in BOOLEAN
  /\ pc = "idle"
  /\ began = {} /\ todo = <<>> /\ records = 0 /\ put = 0 /\ buffered = <<>>
  /\ outputs = [o \in SegNos \cup {Common} |-> <<>>]
  /\ due = {} /\ unnoticed = FALSE /\ finished = {}

-----------------------------------------------------------------------------
(* The probe: rotation and eviction as SegmentStore allows them.           *)

Rotate ==
  /\ \E n \in SegNos : allocated' = allocated \cup {n}
  /\ Store!Allocate
  /\ UNCHANGED <<size, optVars, pc, runVars, outputs, due, unnoticed, finished>>

Evict ==
  /\ segs # {}
  /\ segs' = segs \ {Min(segs)}
  /\ Store!Discard
  /\ UNCHANGED <<size, optVars, pc, runVars, outputs, due, unnoticed, finished>>

\* A further record of the open segment becomes visible.
Grow ==
  /\ allocated # {}
  /\ size[Max(allocated)] < MaxRecords
  /\ size' = [size EXCEPT ![Max(allocated)] = @ + 1]
  /\ UNCHANGED <<segs, allocated, optVars, pc, runVars, outputs, due, unnoticed, finished>>

-----------------------------------------------------------------------------
(* The converter.                                                          *)

\* -d: read_dir is opened ...
InvokeDir ==
  /\ pc \in AtPrompt
  /\ pc' = "list"
  /\ due' = {}
  /\ began' = segs
  /\ unnoticed' = FALSE
  /\ UNCHANGED <<dirVars, optVars, todo, records, put, buffered, outputs, finished>>

\* Faulty variant: every name is listed, the -o file's in the directory too.
ListAllNames ==
  /\ pc = "list"
  /\ todo' \in Ascending(segs \cup {Common})
  /\ due' = {n \in began \cap segs : Sealed(n)}
  /\ pc' = "next"
  /\ began' = {}
  /\ UNCHANGED <<dirVars, optVars, records, put, buffered, outputs, unnoticed, finished>>

\* ... and read to its end: what was there all the time is listed, what came or
\* went meanwhile may be.  The names are sorted.
List ==
  /\ pc = "list"
  /\ \E extra \in SUBSET ((began \cup segs) \ (began \cap segs)) :
       todo' \in Ascending((began \cap segs) \cup extra)
  /\ due' = {n \in began \cap segs : Sealed(n)}
  /\ pc' = "next"
  /\ began' = {}
  /\ UNCHANGED <<dirVars, optVars, records, put, buffered, outputs, unnoticed, finished>>

\* -i: one file, which need not be there.
InvokeFile ==
  /\ pc \in AtPrompt
  /\ \E n \in SegNos : todo' = <<n>>
  /\ due' = {}
  /\ unnoticed' = FALSE
  /\ pc' = "next"
  /\ UNCHANGED <<dirVars, optVars, began, records, put, buffered, outputs, finished>>

\* main returns, or the process is killed.
End(how) ==
  /\ pc' = how
  /\ began' = {} /\ todo' = <<>> /\ records' = 0 /\ put' = 0 /\ buffered' = <<>>

\* Faulty variant: a file that is gone is passed over.
ReadSkipping ==
  /\ pc = "next" /\ todo # <<>>
  /\ IF Current \in segs
     THEN records' = size[Current] /\ pc' = "create" /\ UNCHANGED todo
     ELSE todo' = Tail(todo) /\ UNCHANGED <<pc, records>>
  /\ UNCHANGED <<dirVars, optVars, began, put, buffered, outputs, due, unnoticed, finished>>

\* fs::read, as much as is there at this moment.
Read ==
  /\ pc = "next" /\ todo # <<>>
  /\ Current \in segs
  /\ records' = size[Current]
  /\ pc' = "create"
  /\ UNCHANGED <<dirVars, optVars, began, todo, put, buffered, outputs, due, unnoticed, finished>>

\* Faulty variant: the output is created before the input is read.
FailsAfterCreate ==
  /\ pc \in {"list", "next", "create"}
  /\ IF pc = "next" /\ todo # <<>>
     THEN outputs' = [outputs EXCEPT ![OutputPath(Current)] = <<>>]
     ELSE UNCHANGED outputs
  /\ End("failed")
  /\ UNCHANGED <<dirVars, optVars, due, unnoticed, finished>>

\* A call before the output exists fails: read_dir, create_dir_all, the read of
\* a segment that was evicted since the listing, the creation.  `?` leaves main,
\* and with it every file still to convert.  A kill there does the same.
FailsEarly ==
  /\ pc \in {"list", "next", "create"}
  /\ End("failed")
  /\ UNCHANGED <<dirVars, optVars, outputs, due, unnoticed, finished>>

\* Faulty variant: an output that is there is added to.
CreateAppending ==
  /\ pc = "create"
  /\ pc' = "write"
  /\ UNCHANGED <<dirVars, optVars, runVars, outputs, due, unnoticed, finished>>

\* File::create truncates what an earlier run, or an earlier file under -o, left.
Create ==
  /\ pc = "create"
  /\ outputs' = [outputs EXCEPT ![OutputPath(Current)] = <<>>]
  /\ pc' = "write"
  /\ UNCHANGED <<dirVars, optVars, runVars, due, unnoticed, finished>>

Pending == Packets(Current, records)

\* write_packet, for a record that the filter passes.
WritePacket ==
  /\ pc = "write"
  /\ put < Len(Pending)
  /\ buffered' = Append(buffered, Pending[put + 1])
  /\ put' = put + 1
  /\ UNCHANGED <<dirVars, optVars, pc, began, todo, records, outputs, due, unnoticed, finished>>

\* A full BufWriter empties itself.
Spill ==
  /\ pc = "write" /\ buffered # <<>>
  /\ outputs' = [outputs EXCEPT ![OutputPath(Current)] = @ \o buffered]
  /\ buffered' = <<>>
  /\ UNCHANGED <<dirVars, optVars, pc, began, todo, records, put, due, unnoticed, finished>>

NextFile ==
  /\ pc' = "next"
  /\ todo' = Tail(todo)
  /\ records' = 0 /\ put' = 0 /\ buffered' = <<>>
  /\ UNCHANGED began

\* drop(writer) flushes; then the line "<input> -> <output> (n packets)".
Close ==
  /\ pc = "write"
  /\ put = Len(Pending)
  /\ outputs' = [outputs EXCEPT ![OutputPath(Current)] = @ \o buffered]
  /\ finished' = IF form # "output" /\ Sealed(Current) /\ records = size[Current]
                 THEN finished \cup {Current} ELSE finished
  /\ NextFile
  /\ UNCHANGED <<dirVars, optVars, due, unnoticed>>

\* So many packets of the buffer reach the disk, and the others do not.
FlushPart(most) ==
  \E k \in 0 .. most :
    outputs' = [outputs EXCEPT ![OutputPath(Current)] = @ \o SubSeq(buffered, 1, k)]

\* drop ignores the error of its flush: the same line is printed.
CloseFails ==
  /\ pc = "write"
  /\ put = Len(Pending)
  /\ FlushPart(Len(buffered) - 1)
  /\ unnoticed' = TRUE
  /\ finished' = finished \ {Current}
  /\ NextFile
  /\ UNCHANGED <<dirVars, optVars, due>>

\* An error of write_packet, after which the BufWriter is dropped and tries to
\* flush once more, or a kill: the process ends with the file half made.
WriteCutShort ==
  /\ pc = "write"
  /\ FlushPart(Len(buffered))
  /\ finished' = finished \ {Current}
  /\ End("failed")
  /\ UNCHANGED <<dirVars, optVars, due, unnoticed>>

\* All files are converted: main returns Ok.
Done ==
  /\ pc = "next" /\ todo = <<>>
  /\ End("ok")
  /\ UNCHANGED <<dirVars, optVars, outputs, due, unnoticed, finished>>

Next ==
  \/ Rotate \/ Evict \/ Grow
  \/ InvokeDir \/ List \/ InvokeFile
  \/ Read \/ FailsEarly
  \/ Create
  \/ WritePacket \/ Spill
  \/ Close \/ CloseFails \/ WriteCutShort
  \/ Done

Spec == Init /\ [][Next]_vars

-----------------------------------------------------------------------------
TypeOK ==
  /\ segs \subseteq allocated /\ allocated \subseteq SegNos
  /\ size \in [SegNos -> 0 .. MaxRecords]
  /\ form \in Forms /\ filter \in BOOLEAN
  /\ pc \in {"idle", "list", "next", "create", "write", "ok", "failed"}
  /\ began \subseteq SegNos
  /\ todo \in Seq(SegNos)
  /\ pc \in {"create", "write"} => todo # <<>>
  /\ records \in 0 .. MaxRecords
  /\ put \in 0 .. MaxRecords
  /\ buffered \in Seq(SegNos \X (1 .. MaxRecords))
  /\ outputs \in [SegNos \cup {Common} -> Seq(SegNos \X (1 .. MaxRecords))]
  /\ due \subseteq SegNos /\ finished \subseteq SegNos
  /\ unnoticed \in BOOLEAN

\* Whatever is evicted, appended, killed or refused meanwhile, and however often
\* the converter ran before, each output holds a prefix of the packets of one
\* segment, of the one it is named after if it is.
OutputsArePrefixes ==
  \A o \in DOMAIN outputs :
    \E n \in SegNos : /\ o # Common => n = o
                      /\ IsPrefix(outputs[o], Packets(n, size[n]))

\* The complete output of a sealed segment stays complete, through later runs
\* that fail because the segment, which may be the only other copy, is gone.
FinishedOutputsSurvive ==
  \A n \in finished :
    \/ outputs[n] = Packets(n, size[n])
    \/ pc = "write" /\ Current = n          \* just being made anew

\* A run that returns Ok has converted every sealed segment that it listed,
\* also those that were evicted while it ran.  Only a flush that failed
\* unnoticed is excepted, and -o, which leaves the last file's packets only.
OkMeansAllConverted ==
  pc = "ok" /\ ~ unnoticed /\ form # "output" =>
    \A n \in due : outputs[n] = Packets(n, size[n])

=============================================================================
