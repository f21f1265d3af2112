# sovProbe in TLA+

Specifications of sovProbe, an out-of-band network probe in Rust and eBPF, with
the TLC configurations that check them on small instances and TLAPS proofs of
their main safety properties. Paths are relative to the repository
(`src/sov-probe/...`); `PROJECT.json` maps every definition to the lines it
stands for.

## The system

```
kernel: bpf/capture.bpf.c -- ring buffer (1 MB) --> capture thread (capture/mod.rs)
                                                     |  parse/slicer.rs cuts payloads
                                                     v
                                        bounded crossbeam channel
                                                     |
                                                     v
        sampler thread --- degraded flag --- writer thread (wal/writer.rs)
        (guard/breaker.rs)                           |  wal/header.rs encodes
                                                     v  wal/rotate.rs names and evicts
                                  /dev/shm/.../segment_NNNN.wal, ledger
                                                     |
                             sov2pcap, slimSync (not in this repository), and the
                             receiver of the end-to-end tests (e2e-tools)
```

| Component | State | Operations | What makes it correct |
|---|---|---|---|
| Kernel filter (`capture.bpf.c`) | port map, ring buffer | classify a frame: pass, copy, or discard when the ring is full | both directions of a watched conversation are taken; a frame is never held up |
| Capture thread (`capture/mod.rs`) | the ring item it holds | poll, take, drop when degraded, slice, send | order and count of the frames; little passes once degraded |
| Slicer (`parse/slicer.rs`) | none | frame to record, payload cut | a reader can tell a cut payload |
| Circuit breaker (`guard/breaker.rs`) | one shared flag | writer: set and clear by queue fill; sampler: set and clear by RSS and load | recovers when it should, and only then |
| Writer (`wal/writer.rs`) | buffer, bytes of the open segment, rotation time | receive, append, flush, rotate, end | segments are prefixes, complete when rotated, in order |
| Rotator (`wal/rotate.rs`) | next and oldest number; directory and ledger on disk | scan, create, evict, persist | budget; the newest stays; names grow; the loop ends |
| Record codec (`wal/header.rs`) | none | encode, decode one, decode a stream | damage is found; decoding can be resumed |
| `sov2pcap` | list of inputs, `BufWriter`, output files | list a directory that changes, decode, filter, write packets | outputs are prefixes of a segment; Ok means all of it; lengths agree with the record |
| `main.rs`, `load_and_attach`, systemd | threads, channel, counters; links attached so far | writer first, then load and attach, then capture; heartbeat; restart after a failure | a failed start costs little; it comes to capture in the end; what ends when one thread ends |
| Config, metrics | parameters; counters | parse and validate; render | validated values suffice |
| Receiver (`e2e-tools/.../sub_save_test.rs`) | segments being rebuilt, cache of blind chunks | chunks, batches, seals, gap queries | the rebuilt file is the sent one |

What is hard here. Three threads share a flag that two of them write for
different reasons and two of them read before they act. Frames are given up at
six different places. A process that systemd restarts resumes from what a kill
left on disk, between any two system calls, and makes a segment, and may evict one,
before it knows whether it can capture at all. A converter reads a directory that is
written and evicted meanwhile. Writes are split by the system, and errors of some reads are
passed over as if there had been nothing to read.
Widths wrap (`u8`), and two length limits do not know of each other. The list
under `hazards` in `PROJECT.json` names each of these at its line.

## Modules

| Module | Models | Abstract or detailed |
|---|---|---|
| `SegmentStore` | what the directory promises its consumer: a bounded log whose names only grow and which only loses its oldest segment | abstract |
| `Rotator` | `wal/rotate.rs` and the reopening in `open_segment`, one system call a step | implements `SegmentStore` |
| `RotatorProofs` | proofs about `Rotator` | |
| `Service` | `main.rs` from its arguments to the heartbeat, `load_and_attach`, systemd's restarts, around the writer thread | extends `Rotator`, implements it |
| `ServiceProofs` | proofs about `Service` | |
| `LossyFifo` | what a fail-open probe promises: it may lose frames, never invents, repeats or reorders one | abstract |
| `Breaker` | the decisions of `guard/breaker.rs`, with their widths | operators |
| `Probe` | the kernel ring, the capture, writer and sampler threads and what they share | implements `LossyFifo`, extends `Breaker` |
| `ProbeProofs` | proofs about `Probe`: types, late intake, order, the account of every frame, the refinement of `LossyFifo`, the end of degradation | |
| `Sov2Pcap` | `bin/sov2pcap.rs`, run again and again on a live directory | its directory is `SegmentStore` |
| `Sov2PcapProofs` | proofs about `Sov2Pcap` | |
| `WalWriter` | `wal/writer.rs` with `BufWriter`, short writes, write errors, kills and restarts | detailed |
| `WalWriterProofs` | proofs about `WalWriter` | |
| `WalCodec` | `wal/header.rs`, and a segment that is torn or corrupted | operators and a small machine |
| `WalCodecProofs` | proofs about `WalCodec` | |
| `CapturePath` | the lengths of one frame through kernel, slicer, record and pcap | detailed |
| `CapturePathProofs` | proofs about `CapturePath` | |
| `Reassembler` | the receiver, `sub_save_test.rs`: segment buffers, blind-chunk cache, batches, seals, gap queries, restarts, over a network that loses, reorders and repeats | detailed |
| `ReassemblerProofs` | proofs about `Reassembler` | |
| `MCWalWriter`, `MCWalCodec`, `MCReassembler` | values for sequences that a `.cfg` cannot write | |

Operators named `...Always`, `...Early` and the like, each under a comment "Faulty
variant", are not part of any specification. Each is a plausible mistake in the
definition that follows it, kept to show that a property notices it
(`mutants` in `PROJECT.json`).

### How state and actions correspond to the code

**Rotator.** `segs`, `others` and `ledger` are the directory; `seg_no` and `min_no`
are the fields of `Rotator`; `pc` is where the writer thread stands between the
system calls of `next_segment`, `enforce_budget`, `persist_ledger` and
`open_segment`. `CreateSegment` is `create_new`; `BudgetMet` and `EvictOldest` are
the exit and the body of the loop; `TruncateLedger` and `WriteLedger` are the two
halves of `persist_ledger`, because `truncate(true)` empties the file before it is
written. `IoError` stands for every `?`, `Crash` and `Start` for a kill and a
restart. `others` counts the files that `existing_count` counts and `seg_path` never names;
`ConvertSegment` adds one, such as the default output `segment_N.wal.pcap` of
`sov2pcap -i segment_N.wal`, or a copy made by hand.

The reads do not end in `?`. `scan_existing` passes over a `read_dir` or an entry that fails
(`rotate.rs:45-46`), so `Start` may see any subset of the names; `existing_count` counts
nothing then, or less (`rotate.rs:144-147`), so `BudgetMet` may end the loop over budget;
`exists` is false when it cannot look (`rotate.rs:99`), so `EvictMissed` passes a segment over;
a ledger that cannot be read gives the write cursor (`KeptCursors`). `astray` says that the
process works with numbers it has misread, until a start that reads the directory right;
`undercounted` that the last count was short. What the properties promise, they promise where
neither holds; what a process astray may do is under the divergences below. `CursorAhead`
is the one thing it leaves behind: a read cursor above every segment keeps the next
process astray too. `allocated`, `astray`, `undercounted` and `misreads` are history.

**Service.** `main` is where the main thread stands, or how the process ended, `next` the
link that the loop of `load_and_attach` comes to, `capture` the capture thread. The
writer's variables and steps are those of `Rotator`, each taken by whoever takes it:
`NewWriter` is `WalWriter::new` and the spawn (`Start`), `OpenFirst` the `open_segment` at the
top of `run`, `RotateOnRecord` the `maybe_rotate` that needs a record and so a capture
thread. `SetupFails`, `LoadFails` and `AttachFails` are the `?`s of `main`; each ends the
process and the writer thread wherever it stands (`Crash`). `CanLoad` is aya's: the program
is loaded once for each name of the list, and the second load is an error. `Restart` is
`Restart=on-failure`; `Stop` is not restarted. `CaptureEnds` and `WriterFails` leave the process
running. `had` and `starts` are history; `had` is given up when the directory is misread.

**Sov2Pcap.** `segs`, `allocated` and `size` are the directory, which `Rotate`, `Evict` and `Grow`
change at any moment as `SegmentStore` allows to a probe that never misreads it. `InvokeDir` and `List` are the opening and the
reading of the directory: a name that was there all the time is listed, one that came or
went may be. `Read` takes what is there at its moment; `FailsEarly` is each `?` before the
output exists. `Create` truncates; `WritePacket` and `Spill` fill and empty the `BufWriter`;
`Close` and `CloseFails` are the `drop` that does not report the error of its flush;
`WriteCutShort` is an error of `write_packet` or a kill. `outputs` is what is on disk. A `Spill` at
any moment stands for a full buffer, whatever the packets' sizes. `due`, `unnoticed` and
`finished` are history.

**Probe.** One action for every load, store, send and receive of shared state:
`CheckLen` and `CheckStore` are the two halves of `hot_path_check`; `CaptureDrop` and
`CapturePass` are the flag read in `consume`; `HandleDrop` and `HandleAccept` are
the one in `handle_record`. The item the capture thread holds stays the head of
`ring` until the loop body ends, as aya gives the slot back then. `CaptureSend` has
the guard `Len(queue) < QueueCapacity` and no failing variant, since `main` keeps a
`Receiver`. The kernel gives a frame up in two ways: `RingFull`, whatever number of frames
waits, since they differ in size and a slot that was given back takes room until the reader has
passed it, and `RingDiscard`, where the copy fails after the slot was reserved
(`capture.bpf.c:98-99`). `WriterFail` is any error that ends `run`. `wal`, `lost` and `late` are
history: what was written, what was given up and where, and how many frames were
queued since the flag was last set.

**WalWriter.** `buf` is the content of `BufWriter`, `disk` that of the files, and
`written` the field. A record is a run of cells, so that a prefix of a record is
visible on disk. `AppendBuffered`, `AppendDirect` and `Spilling` are the three ways
of `BufWriter::write_all`; `WriteSome` is one `write` call, which may take any
number of cells. `WriteFails` includes the attempt to write once more when the
`BufWriter` is dropped. `Rotator::next_segment` is a single step here, which reads the directory
right; `Rotator` is its detail. `accepted` and `cut` are history.

**WalCodec.** A buffer is a sequence of cells, one for each header field the
decoder tells apart and one for each payload byte. The CRC is the sequence it
covers, that is, it is assumed free of collisions; the single-bit errors that
CRC-32 detects for certain and the longer ones it detects with high probability
are treated alike.

**CapturePath.** One frame goes from the wire to a packet of a pcap file; ports
and lengths are kept, contents are not. `Padding` is Ethernet's, which a frame has on its way in
only.

**Reassembler.** `segs` is the map of `SegmentBuf`s (`next` is `next_expected`, `pend` the
offsets in `pending`, `held` the counter `pending_bytes`), `cache` the queue
`blind_order`, `files` the output directory. Each handler is a step, because it runs
under the mutex; a batch takes one step for each entry, with the mutex held (`batch`)
and the other handlers shut out. `refill_segment` is `GapQuery`, `RefillComplete`,
`RefillRetry` and `RefillRemove`; polls that find nothing and are not the last of their
round are stutters. A chunk is one unit, so offsets, sizes and budgets count chunks, and
a blind id is the content. `PlaceRaw` may fail to write, since `write_bytes` ignores the
result. It opens the buffer where there is none: `Opened` is `SegmentBuf::open` where its calls
succeed, `Misopened` where an error is swallowed (`sub_save_test.rs:85-91`), and then the watermark is
0 over whatever the file holds, with no file to write to or with one that is appended to. A
failing `write_all` leaves nothing in the model; a part of it would make no difference, since a
segment in `failed` is promised nothing about its file. Sender and network are external: the sender asks EXISTS before a single chunk,
sends a reference or the data, or a batch, then the seal, and sends again what a gap
query asks for; frames are a set from which any may be taken or lost. `failed` is history: the
segments whose file got less than, or other than, what came next.

## Runs

| Run | Result | What it shows |
|---|---|---|
| `service_restarts` | pass, 684,140 states | the directory's budget, newest segment and ledger, its refinement of `SegmentStore` and the end of every rotation, under starts that fail anywhere and as far as the directory is read right; what a failed start costs; that the service captures in the end |
| `probe_threads` | pass, 363,177 states | conservation of frames, late intake, order, refinement of `LossyFifo`; every frame settles, the writer follows the capture thread, recovery when the channel is no longer found at its watermark |
| `walwriter_restarts` | pass, 161,373 states | prefix, completeness, order and size of segments, append-only files, end of every flush |
| `walcodec_damage` | pass, 18,789 states | exactly the intact records are decoded; decoding in parts |
| `capturepath_lengths` | pass, 17,784 states | both directions, visible truncation, pcap lengths |
| `reassembler_restarts` | pass, 862,597 states | rebuilt files are prefixes and watermark and file agree, unless an error was swallowed over them; waiting chunks are ahead, bounded and kept, every refill ends |
| `sov2pcap_live` | pass, 1,540,833 states | each output is a prefix of one segment's packets, a finished one survives, Ok means that all listed was converted |
| `rotator_foreign_files` | counterexample | with `max_segments` files it cannot name, a rotation unlinks every segment it can, and a later one does not end |
| `probe_slow_path` | counterexample | the hot path clears what the sampler has set |
| `probe_load_band` | counterexample | the load band of the default limit wraps to 16 % |
| `probe_dead_writer` | counterexample | after the writer's end the capture thread waits for ever |
| `walwriter_idle_tail` | counterexample | no timed rotation without traffic |

Each counterexample refutes a sentence of the documentation or of a comment; the
sentence is quoted under `findings`.

### Bounds

- `service_restarts`: a budget of three segments and one other file leave
  `Kept` = 2 segments that survive for certain, so that the first and the second failed
  start differ, and the third is past the bound of the property. Initial directories are
  all subsets of {0, 2, 3}: empty, with a gap, full; crashes in the middle of an eviction add
  those over budget. Numbers up to 4 leave one rotation after the fullest and five from
  the empty one. Lists of one and of two interfaces: the second one is where loading
  again matters. Crashes, errors, stops and links that come and go are not bounded. One read
  goes wrong at most (`MaxMisreads`): the scan, the count, or `exists`, at any moment, and with what
  follows until a start reads the directory right; the theorems are about any number.
- `rotator_foreign_files`: a budget of two and two other files. No read goes wrong, so that
  the counterexample is about those files alone. It takes two rotations. The first unlinks
  every segment, the one it has just made included, finds two files left and ends;
  `open_segment` makes its file again (`writer.rs:65-76`), whose number `min_no` has passed. The
  second unlinks its own segment too, and with that file and the two others the count stays at
  three, whatever `min_no` comes to.
- `probe_threads`: two slots in the channel give the queue an empty, a middle and a
  full state, so all three verdicts of `hot_path_check` occur (0 %, 50 %, 100 %
  against 80 and 40). With one slot in the ring, three frames fill channel and ring, and
  one waits in `send` or finds the ring full. The readings of 9 and 11 against a limit
  of 10 fall into the band and above it; the load of 90 is above its limit of 85, and
  an unread value counts as low. A writer that finds the channel full in every turn sets the
  flag in every turn; with three frames that ends, and `EventualRecovery` says so where it does
  (`Crowded`). How degradation begins and ends under endless traffic is proved (`DegradationBegins`,
  `DegradationEnds`).
- `sov2pcap_live`: three segments, of which one is kept for certain, so that up to two are
  evicted under the converter; three records, of which the filter passes the first and the
  third, so that a buffer can be empty, spilled in between or left with one packet. The
  number of runs, kills and failures is not bounded.
- `walwriter_restarts`: a buffer of 3 and a segment of 4 cells with records of 1, 2,
  3, 5 and 2: two records that share the buffer, one as large as the buffer, one
  larger than a segment, one after it. Two restarts.
- `walcodec_damage`: two records, payloads of at most one byte whose value could be
  a length; one tear at any place, or one cell changed by one, or one CRC spoilt.
- `capturepath_lengths`: payloads up to 12 cells with `SliceBytes` 5 and `MaxCopy` 14
  lie below, at and above both limits, with and without options; an incoming frame is padded
  to 9, which is one to four cells more than its headers. As in the source,
  where 4608 is more than 4096 and all headers, the kernel's limit leaves more than
  `SliceBytes`; the property does not hold for other values (see below).
- `reassembler_restarts`: segments of three and two chunks, one chunk common to both. Two
  waiting chunks fill the budget, so a hole can be closed with two chunks behind it, and
  chunks of both segments compete for eviction; the cache holds one chunk, so each new
  one evicts. Two rounds of gap queries (`MAX_RETRIES` is 4), batches of two, one
  error of the file system (`MaxFaults`: a refused write, a failed open or a failed metadata), one
  restart; losses and repeats are not bounded.

`CHECK_DEADLOCK FALSE` is set where the system really stops: a writer whose
capture thread is gone, a damaged segment, a frame at the end of its path, a receiver
whose sender has sent everything.

### Fairness

`Rotator` and `Service` assume weak fairness of the steps inside `open_segment`: they are
straight-line code whose calls return. `Service` adds `Restart`, because the unit has
`Restart=on-failure` and `RestartSec`, and the steps of `main` up to the heartbeat; links,
records and stops are never promised, and `AttachesInTheEnd` carries the conditions that the
link is there for good and nothing else ends the process. `Sov2Pcap` is checked for safety
only. `Probe` assumes it of each of the three
threads, which the operating system schedules whenever they can run; frames,
readings, poll errors and write errors are never promised, and `EventualRecovery`
carries the conditions that the readings stay low and that the writer finds the channel at
its watermark no more: neither alone ends a degradation, since `hot_path_check` sets the flag
again each time (`breaker.rs:35-45`). `WalWriter` assumes it of the
steps the writer takes once it has a record or a flush at hand, and of time
(`Tick`); the arrival of records is not promised. `Reassembler` assumes it of the entries of a
batch, which run under the mutex, and of `refill_segment`, whose query and polls have
timeouts; that the sender answers, or that anything arrives, is not promised. Strong fairness is not used.

## Proofs

TLAPS checks the following for every value of the constants that satisfies the
named assumptions of the modules.

| Theorem | Statement |
|---|---|
| `RotatorProofs!TypeCorrect` | `Spec => []TypeOK` |
| `RotatorProofs!BudgetAlwaysHolds` | `Spec => []BudgetHolds` |
| `RotatorProofs!NewestStaysOnDisk` | `Spec => []NewestOnDisk` |
| `RotatorProofs!LedgerStaysCurrent` | `Spec => []LedgerCurrent` |
| `RotatorProofs!RotatorImplementsStore` | `Spec => ImplementsStore` |
| `ProbeProofs!TypeCorrect` | `Spec => []TypeOK` |
| `ProbeProofs!LateIntakeIsBounded` | `Spec => []LateIntakeBounded` |
| `ProbeProofs!WalStaysInOrder` | `Spec => []WalInOrder` |
| `ProbeProofs!ProbeImplementsFifo` | `Spec => ImplementsLossyFifo` |
| `ProbeProofs!FramesAreConserved` | `Spec => []Conservation` |
| `ProbeProofs!DegradationBegins` | the flag is set only by a writer that saw a fill at the watermark, or by a sampler with a reading at its limit |
| `ProbeProofs!DegradationEnds` | the flag is cleared only by a writer that saw a fill below half the watermark, or by a sampler with both readings below their bands |
| `ProbeProofs!RecoveryWithoutHotPath` | `Spec => RecoveryNeedsBoth` with `Watermark <= 1` |
| `ProbeProofs!RecoveryBelow80` | `Spec => []RecoversBelow80` with `LoadLimit <= 31` |
| `ProbeProofs!NothingWithoutChannel` | with `QueueCapacity = 0` nothing is ever written |
| `ProbeProofs!StuckForEver` | `Spec => [](Stuck => []Stuck)`: a failed writer behind a full channel |
| `ServiceProofs!ServiceIsRotator` | `ServiceSpec => Spec` of `Rotator` |
| `ServiceProofs!ServiceKeepsRotatorsPromises` | budget, newest segment, ledger and `ImplementsStore` for `ServiceSpec` |
| `ServiceProofs!ServiceTypeCorrect` | `ServiceSpec => []ServiceTypeOK` |
| `ServiceProofs!FailedStartsCostLittle` | `ServiceSpec => []FailedStartsCostOneEach` |
| `ServiceProofs!TwoInterfacesNeverCapture` | with `interfaces >= 2` there is never a capture thread |
| `WalWriterProofs!TypeCorrect` | `Spec => []TypeOK` |
| `WalWriterProofs!PrefixesKept` | `Spec => []SegmentsArePrefixes` |
| `WalWriterProofs!SealedIsComplete` | `Spec => []SealedComplete` |
| `WalWriterProofs!FilesOnlyGrow` | `Spec => AppendOnly` |
| `WalWriterProofs!OrderIsKept` | `Spec => []RecordsInOrder` |
| `WalWriterProofs!SizeIsKept` | `Spec => []SegmentBounded` |
| `CapturePathProofs!PathIsKept` | `Spec => []PathInv` |
| `CapturePathProofs!BothDirectionsRecorded` | `Spec => []BothDirections` |
| `CapturePathProofs!TruncationIsVisible` | `Spec => []TruncationVisible` |
| `CapturePathProofs!PcapTellsTruncation` | `Spec => []PcapShowsTruncation` |
| `Sov2PcapProofs!SpecTypeOK` | `Spec => []TypeOK` |
| `Sov2PcapProofs!OutputsBegin` | `Spec => []OutputsArePrefixes` |
| `Sov2PcapProofs!FinishedSurvive` | `Spec => []FinishedOutputsSurvive` |
| `Sov2PcapProofs!OkMeansAll` | `Spec => []OkMeansAllConverted` |
| `ReassemblerProofs!SpecTypeOK` | `Spec => []TypeOK` |
| `ReassemblerProofs!RebuiltFilesArePrefixes` | `Spec => []FilesArePrefixes` |
| `ReassemblerProofs!WatermarkIsSize` | `Spec => []WatermarkIsFileSize` |
| `ReassemblerProofs!PendingLiesAhead` | `Spec => []PendingAhead` |
| `ReassemblerProofs!PendingIsBounded` | `Spec => []PendingBounded` |
| `ReassemblerProofs!PendingIsKept` | `Spec => PendingKept` |
| `WalCodecProofs!TornAndCorruptRefused` | `Spec => []NoSilentBadRecord` |
| `WalCodecProofs!PartsDecodeAsWhole` | `Spec => []Resumable` |

The four theorems about `Rotator` after the first, and `ServiceKeepsRotatorsPromises`,
`ServiceTypeCorrect` and `FailedStartsCostLittle`, assume `MaxOthers < MaxSegments`, that is, fewer
other files among the segments than the budget has room for. Without it a full
directory can hold one segment only, and eviction reaches the newest one or, as
`rotator_foreign_files` shows, never ends. And they are about a directory that is read right:
`BudgetHolds`, `NewestOnDisk`, the read cursor of `LedgerCurrent` and the refinement promise nothing
while the process is `astray`, and `BudgetHolds` nothing after a short count (`undercounted`).

*Rotator.* `BudgetHolds` and `NewestOnDisk` are not inductive: `enforce_budget` unlinks by
number and never looks whether the number is the oldest. `SafeInv` adds what makes it
so, in `NumbersInv`, which is about a process that is not astray. While the thread is inside
`open_segment`, `min_no` is at most every number on disk (`MinIsOldest`), the next number is above
every number given out (`NextIsFresh`), and the segment just created is on disk and the newest
(`OpenIsNewest`); the newest of all is never missing (`NewestKept`), also while the
process is down. With fewer other files than the budget, a
directory over budget holds two segments, so the oldest is not the newest.
`LedgerInv` follows the ledger's line from the truncation to the write, astray or not. `TypeInv` adds to
`TypeOK` where the thread stands when it has allocated. The refinement then goes
step by step: `CreateSegment` is `Allocate`, `EvictOldest` is `Discard` or a stutter, a step of a
process astray is `Misread`, the `Start` that reads the directory right again is `Recover`, and
the other steps stutter.

*Probe.* For `LateIntakeBounded`, `LateInv` counts the frame with which the capture thread
has already passed its check together with those queued: at most one. For
`WalInOrder`, `OrderInv` orders the whole pipeline: the log, the writer's hand, the
channel and the ring are each increasing, each lies below the next, and all lie at
or below `seen`.

For `ImplementsLossyFifo`, `Flow` reduces every step of every thread to one of four kinds: a
new frame enters the pipeline or is given up at the full ring, one frame of the pipeline
is given up, its oldest frame goes to the log, or the pipeline stays the same sequence
(`Hand \o queue \o ring`) while a frame changes places in it. Each kind is a step of `LossyFifo`.
For `Conservation`, `AccountInv` says without counting that every frame seen is held or given
up, never both and at one place only; with the order of the pipeline, every count in
`Conservation` is 0 or 1.

Two sentences of the documentation are refuted by runs at the shipped values; the theorems say
at which values they hold. `SampledInv` is what the sampler's local variable stands for between
its readings, and `WhoClears` goes through every step that can clear the flag: it is the writer
on a low fill, or the sampler with both readings low; `WhoSets` does the same for the steps
that can set it. The writer's way exists for every
watermark from 2 on (`HotVerdictAtTheEdges`: an empty channel clears), so `RecoveryNeedsBoth` holds
for 0 and 1 only. The load band is the 80 % of the comment up to a limit of 31, and
from 32 on at least 25 points lower (`LoadBandWraps`); so `RecoversBelow80` holds up to 31.
`StuckForEver` is what lies behind the counterexample `probe_dead_writer`: there is no step out.

*Service.* `StepOfRotator` maps every step of the service to a step of `Rotator` or a
stutter, so `Rotator`'s theorems carry over. `FailedStartsCostOneEach` needs `CostInv`: between
captures, `had` lies below every number given out since (`HadIsUpper`), and at most as many
numbers are given out as starts are counted (`SinceBounded`), because without a record the
writer opens one segment and no more. A rotation keeps the `Kept` newest segments, so what
it evicts of `had` is at most the oldest for each start. A misread directory empties `had`.

*WalWriter.* `Where` says at which steps a record is in hand and the buffer is empty, and how
many segments are still to come for the records received; the last bounds the numbers. The
buffer is empty whenever a segment is opened, so the `drop` of the old `BufWriter` writes
nothing. `Content` then says that file and buffer together are what was accepted for the open
segment unless a kill or an error has cut it short, and that the thread is outside its loop if
one has; the other segments are whole or cut. `Order` compares what was accepted, segment by
segment, with the newest record (`Newer`); that every higher number is still empty, which
`Content` says, makes a new record last. `Sizes` relates `written` to the open segment and says
that `append` has room or an empty segment.

*CapturePath.* `PathInv` ties the lengths in the record to those of the copy, and the copy to the
wire. `TruncationIsVisible` assumes `CopyCoversSlice`, that the copy has room for all headers and
more than a slice; in the source 4608 stands against 4096 and the headers. Without it the theorem
is false, as it is for a `slice_bytes` above `MAX_COPY` (see below).

`TwoInterfacesNeverCapture` rests on `SecondFails`: `next` never passes 2, since the program cannot be
loaded twice, and the capture thread is spawned only past the last link.

*Sov2Pcap.* `IInv` has four parts. `InHand`: while a segment is being converted, the file on
disk followed by the buffer is what the packets of the records read so far are, whatever has
been spilled when. `WholeOrCut`: every output is a beginning of the packets of one segment.
`Promises`: only sealed segments are promised anything, so their size is final; what is
finished is on disk in full unless a later run is just writing it again, and what is due in this
run is on disk in full or still on the list. `Packets` is a recursive function; that a beginning of the records
gives a beginning of the packets is proved by induction, and that a live segment only grows
keeps every earlier output a beginning.

*Reassembler.* `IInv` relates the buffers to the sender and to the files. Chunks on their way
and in the cache are the sender's (`FramesOK`, `CacheOK`); what waits lies beyond the watermark and
inside the segment, and the counter is at least the number of chunks that wait (`BufsOK`); the
file is a beginning of the source where the segment has not failed, and ends at the watermark where
the buffer has it open (`FilesOK`; `OpenedIs` covers every outcome of opening); the counters add up
to the budget at most (`BudgetOK`), for which `Sum` over a set that grows or changes in
one place is computed by induction over subsets. `NextHolds` goes handler by handler, each
described once by a lemma about its operators (`PlacedIs`, `HeldIs`, `EvictedIs`, `RunEndIs`).

*WalCodec.* `IInv` says that the segment is the encoded records, cut somewhere or not, with at
most one cell changed, the one after the intact ones (`AsWritten`). `CrcOfDetermines` is the
assumption about the CRC made exact: two records of one CRC agree in every cell but the
CRC's own. `DecodesIntact`,
`RefusesTorn` and `RefusesCorrupt` say what `try_decode` makes of a whole record, of a cut one and of one
with a changed cell, also where the changed cell is the length and the decoder looks at cells of the
next record. `decode_stream` is a recursive function; `StreamStep` is its turn, and by induction
it returns the intact records and stops where the damage begins. `PartsDecodeAsWhole` needs no
invariant: decoding in two parts gives the same for every sequence of cells.

*Induction.* The library's induction theorems take an operator as parameter, which the provers
cannot instantiate. `Least`, `Induction`, `Backwards` and `SubsetInduction` state the same with a
set in place of the operator, from the well-foundedness of `<` on `Nat`: a set of numbers that
has 0 and is closed under successor has all. That a recursive function exists at all, which
a `CHOOSE` alone does not say, is proved by approximations up to each number (`LoopExists`,
`EndsExist`).

*Only model-checked.* The liveness properties, since fairness and `ENABLED` are out of the
prover's reach: `RotationCompletes` of `Service` and of `WalWriter`, `AttachesInTheEnd`, `EveryFrameSettles`,
`WriterFollowsCapture`, `EventualRecovery` and `RefillEnds`. Every other property of a passing
run is stated by a theorem. That each property is worth its theorem, and each hypothesis met,
is what the runs and their mutants show.

## Divergences that have no run of their own

Met while modelling, each plain from the code:

- `scan_existing` passes over a `read_dir` or an entry that fails (`rotate.rs:45-46`), and
  `Rotator::new` takes what is left for the directory. The next number may then be taken, and
  `create_new` ends the writer; or numbers start again below those that are there, against
  "only growing, globally unique" (`rotate.rs:62`), and eviction starts at 0 with them, so that it comes
  to the newest segments before the older ones. When `read_dir` fails at a start over segments 5, 6 and
  7 with `max_segments` 3, the first rotation unlinks the segment it has just made
  (`open_segment` makes it again), and the fourth never ends. `exists` (`rotate.rs:99`) and
  `existing_count` (`:144-147`) pass over errors too: a segment is never evicted by that process, or
  the budget is exceeded until the next rotation. The properties of the directory leave such a
  process out until a start reads the directory right; that the ledger is whole and names the
  open segment holds for it too.
- After a host reboot the RAM disk is empty and `scan_existing` (`rotate.rs:59`)
  starts at 0: names are not "globally unique" (`README.md:10`) across reboots.
- A missing or torn ledger makes `persist_ledger` (`rotate.rs:119-131`) store the write
  cursor as the read cursor, above segments nobody read (`rotate.rs:109`).
- `hot_path_check` sees the queue only once per record, so it can fill up, and then
  `send` blocks (`capture/mod.rs:109`), while line 59 speaks of dropping at once.
- The writer drops records that were queued before degradation (`writer.rs:107`);
  `README.md:155` says "only new frames are dropped".
- What the capture thread drops is counted in `breaker.dropped`, which nothing
  reads; the heartbeat (`main.rs:139`) logs the writer's counter.
- `validate` (`config.rs:69`) accepts `queue_capacity = 0`, which `hot_path_check`
  divides by (`breaker.rs:36`). `Probe` has the state `panicked` for it, and
  `NothingWithoutChannel` says that nothing is then ever written.
- A record larger than `segment_size` is written whole (`writer.rs:119`), so usage can
  exceed `max_segments × segment_size` (`rotate.rs:16`). `SegmentBounded` states what holds.
- The original length is that of the copy (`slicer.rs:40`), at most `MAX_COPY`;
  `README.md:97` calls it "on-wire". It also counts the padding of a short frame: the slicer
  takes all that follows the headers (`slicer.rs:88`, `packet.payload`; etherparse 0.13 does
  not look at the IP total length), so an empty ACK that comes in as 60 bytes is recorded
  with six bytes of payload. With `slice_bytes` above `MAX_COPY`, which
  `validate` allows, a cut payload is not even marked as cut.
- With no `--capture-ports` the port map is empty and every frame is passed, none copied
  (`capture.bpf.c:81`); `sov-probe/README.md:43` and `capture.bpf.c:76` say full capture.
- `pending_bytes` counts an offset again that already waits (`sub_save_test.rs:128`), as it
  does when a gap is sent again; the comment (line 58) calls it the bytes held. From then on
  the budget is reached early, in the end with every chunk that arrives out of order.
- EXISTS may be answered "true", the chunk evicted, and the reference dropped
  (`sub_save_test.rs:272`); line 221 says that eviction never affects correctness.
- A refused write moves the watermark (`sub_save_test.rs:109-113`), so the file is no longer
  the source's bytes (line 26) and later chunks land at wrong places. The properties of
  `Reassembler` except those about waiting chunks and refills leave such a segment out.
- `SegmentBuf::open` passes over errors (`sub_save_test.rs:85-91`). Where the file cannot be opened
  (`file` is `None`), chunks are taken from offset 0 and dropped (line 108) while the watermark moves,
  so the segment seems complete and its file is not; that can happen once file
  descriptors run out, since fully received segments keep their buffer (lines 422-441). Where only
  `metadata` fails, the watermark is 0 over a file that has content, and chunks
  sent again are appended a second time. `FilesArePrefixes` holds in the first case (nothing wrong is
  written), `WatermarkIsFileSize` leaves both out.
- A seal that overtakes every chunk of its segment (`sub_save_test.rs:431`), or finds the
  first one missing (line 422), starts no gap query, and nothing asks later.

- aya loads a program once, and `load_and_attach` loads it for each name
  (`capture/mod.rs:49`), so two names in `--interface` never attach, and the service fails and
  is restarted for ever (`TwoInterfacesNeverCapture`); `main.rs:17` and `config.rs` speak of several.
- The shipped unit (`deploy/sovprobe.service:9`) passes only `--config`, while `--interface` is
  required (`main.rs:18`): the process ends before it does anything. `interfaces` of the file
  is always overwritten, and the check for an empty list cannot fail, since splitting ""
  gives one empty name.
- When the capture or the writer thread ends, the process runs on (`main.rs:118-132`), so
  that systemd never restarts it. `AttachesInTheEnd` is about the way there only.
- The DEGRADED bit of a record is a second load of the flag (`capture/mod.rs:108`) and may
  disagree with the decision to take the frame.
- `written_records` (`writer.rs:126`) counts records that are only in the buffer.
- The metrics `captured`, `degraded` and `slicer_dropped` are never counted up.
- A watermark of 0 or 1 has a lower bound of 0 (`breaker.rs:42`), below which no fill lies:
  the hot path sets the flag and never clears it (`HotVerdictAtTheEdges`).
- `-d` of sov2pcap gives up the whole batch when one listed segment has been evicted
  (`sov2pcap.rs:54`); line 19 promises all of the directory.
- `-d` with `-o` writes every segment to one file, each over the one before
  (`sov2pcap.rs:94`): the last one's packets remain. `OkMeansAllConverted` excepts it.
- The error of the last flush is lost in `drop` (`sov2pcap.rs:81`), and the line with the
  number of packets is printed all the same. `OkMeansAllConverted` excepts it.

## What is not modelled

- The receiver's statistics, and the record count it logs with a seal.
- In `WalWriter` and `Sov2Pcap`, a rotator that misreads its directory (`Rotator` has it).
- Config parsing, the metrics server, `build.rs`, generators, publishers,
  deployment files and VM scripts: input and output without state of their own.
- `mark_read`, `shutdown`, `min_no` (dead code) and `min_existing_no`; the second half of
  `check_writable`, which leaves nothing behind. That it fails is `SetupFails`.
- Header fields that are only carried along; the bytes of synthesised headers.
- slimSync and SovVault, which are not in this repository.

## Plan

1. `Rotator`, `SegmentStore`, their proofs. Done.
2. `Breaker`, `Probe`, `LossyFifo`, first proofs. Done.
3. `WalWriter`, `WalCodec`, `CapturePath`, model-checked. Done.
4. `Reassembler`, model-checked. Done.
5. `Service` with its proofs; `Sov2Pcap`, model-checked. Done.
6. `Conservation` and `ImplementsLossyFifo` for `Probe`, proved. Done.
7. The invariants of `WalWriter` and `CapturePath`, proved. Done.
8. The invariants of `Sov2Pcap`, `Reassembler` and `WalCodec`, proved; the values at which the
   refuted sentences about recovery hold, proved. Done.
9. What remains is liveness, which stays with TLC, and sharper statements where a theorem
   rests on an assumption: the least budget with which the directory keeps its promises
   beside foreign files, and what `TruncationVisible` becomes for a `slice_bytes` above `MAX_COPY`.
