---------------------------- MODULE Reassembler ----------------------------
(***************************************************************************)
(* The receiver of the end-to-end tests, sub_save_test.rs: it rebuilds     *)
(* segments from chunks that a network loses, reorders and, after a gap    *)
(* query, delivers again.  Five tasks share one Reassembler under a mutex: *)
(* single chunks, batches of chunks, seals with the healing of gaps, the   *)
(* EXISTS queries, and statistics (left out).                              *)
(*                                                                         *)
(* The sender (slimSync) and the network are external.  A chunk is one     *)
(* unit long: the offset of a chunk is its index, next_expected, sizes and *)
(* budgets count chunks, and the sender cuts a segment the same way each   *)
(* time.  A blind id is the chunk's content.  Frames that do not decode or *)
(* decrypt change nothing but a counter; here they are lost frames.        *)
(***************************************************************************)
EXTENDS Naturals, FiniteSetsExt, SequencesExt

CONSTANTS
  Segments,         \* the (dev_id, segment_seq) pairs in use
  Source,           \* the chunks of each segment, by content
  CacheBudget,      \* BLIND_CACHE_BUDGET
  PendingBudget,    \* PENDING_BUDGET
  MaxRetries,       \* MAX_RETRIES
  BatchSizes,       \* bound: entries of a batch
  MaxFaults,        \* bound: errors of the file system
  MaxRestarts       \* bound: restarts of the receiver

ASSUME ReassemblerAssumption ==
  /\ IsFiniteSet(Segments)
  /\ DOMAIN Source = Segments
  /\ \A k \in Segments : Source[k] \in Seq(Range(Source[k]))
  /\ CacheBudget \in Nat /\ PendingBudget \in Nat
  /\ MaxRetries \in Nat \ {0} /\ BatchSizes \subseteq Nat \ {0}
  /\ MaxFaults \in Nat /\ MaxRestarts \in Nat

VARIABLES
  sent,      \* sender: chunks of each segment it has published
  sealed,    \* sender: segments whose seal it has published
  answer,    \* sender: <<segment, "was its next chunk present?">>, or <<>>
  net,       \* frames on their way
  seals,     \* seals waiting for the seal task, in order
  files,     \* the rebuilt segments on disk
  segs,      \* Reassembler.segments
  cache,     \* Reassembler.blind_order; its elements are the keys of blind_cache
  batch,     \* what is left of the batch whose handler holds the mutex
  refill,    \* where refill_segment stands
  failed,    \* history: segments with a failed write, or appended to from offset 0
  faults,    \* errors of SegmentBuf::open and write_all so far
  restarts

senderVars == <<sent, sealed, answer>>
faultVars  == <<failed, faults>>
vars == <<sent, sealed, answer, net, seals, files, segs, cache, batch, refill, failed,
          faults, restarts>>

Size(k)  == Len(Source[k])
NoBuf    == [open |-> FALSE, file |-> FALSE, next |-> 0, pend |-> {}, held |-> 0]
NoBatch  == [left |-> 0]
NoRefill == [pc |-> "idle"]

\* No handler holds the mutex.
Unlocked == batch = NoBatch

-----------------------------------------------------------------------------
(* SegmentBuf.  pend are the offsets in pending, held is pending_bytes,    *)
(* file says whether file is Some.                                         *)

Fresh(file, next) ==
  [open |-> TRUE, file |-> file, next |-> next, pend |-> {}, held |-> 0]

\* Faulty variant: the size of a file that is there is not looked at.
OpenedFresh(k) == IF segs[k].open THEN segs[k] ELSE Fresh(TRUE, 0)

\* SegmentBuf::open, unless the segment has a buffer: a file that is there is
\* taken for a whole prefix.
Opened(k) == IF segs[k].open THEN segs[k] ELSE Fresh(TRUE, Len(files[k]))

\* Errors of open end in ok() and unwrap_or(0): there is no file, or there is one
\* whose size could not be read, and the watermark is 0 either way.
Misopened(k) == IF segs[k].open THEN {} ELSE {Fresh(FALSE, 0), Fresh(TRUE, 0)} \ {Opened(k)}

\* Faulty variant: one chunk is taken back instead of all that follow.
RunEndOne(pend, n) == IF n \in pend THEN n + 1 ELSE n

\* The end of the run of waiting chunks that starts at n.
RunEnd(pend, n) == Min({m \in n .. n + Cardinality(pend) : m \notin pend})

\* An offset that is already waiting replaces its chunk, and is counted again.
Waiting(b, off) == [b EXCEPT !.pend = @ \cup {off}, !.held = @ + 1]

\* Faulty variant: all that waits is forgotten when the watermark moves.
PlacedForgetting(b, off) ==
  IF off < b.next THEN b
  ELSE IF off > b.next THEN Waiting(b, off)
  ELSE [b EXCEPT !.next = RunEnd(b.pend, off + 1), !.pend = {}, !.held = 0]

\* Faulty variant: a chunk below the watermark is written again.
PlacedRepeated(b, off) ==
  IF off > b.next THEN Waiting(b, off)
  ELSE IF off < b.next THEN [b EXCEPT !.next = @ + 1]
  ELSE LET end == RunEnd(b.pend, off + 1)
       IN [b EXCEPT !.next = end, !.pend = @ \ (off .. end - 1), !.held = @ - (end - off - 1)]

\* A chunk below the watermark is dropped, one above it waits, one at it is
\* written with the waiting chunks that follow it.
Placed(b, off) ==
  IF off < b.next THEN b
  ELSE IF off > b.next THEN Waiting(b, off)
  ELSE LET end == RunEnd(b.pend, off + 1)
       IN [b EXCEPT !.next = end, !.pend = @ \ (off .. end - 1), !.held = @ - (end - off - 1)]

PendingTotal(s) == SumFunction([k \in Segments |-> s[k].held])

\* min_by_key over a HashMap: ties are broken by its order, which is arbitrary.
Victims(s) ==
  LET waiting == {k \in Segments : s[k].pend # {}}
  IN {v \in waiting : \A k \in waiting : Min(s[v].pend) <= Min(s[k].pend)}

Evicted(s, v) == [s EXCEPT ![v].pend = @ \ {Min(@)}, ![v].held = @ - 1]

\* Faulty variant: only the buffer that grew is looked at.
EnforceBudgetLocal(s) ==
  IF \A k \in Segments : s[k].held <= PendingBudget THEN segs' = s
  ELSE \E v \in Victims(s) : segs' = Evicted(s, v)

\* Called after each chunk, so with chunks of one unit the loop runs once at most.
EnforceBudget(s) ==
  IF PendingTotal(s) <= PendingBudget THEN segs' = s
  ELSE \E v \in Victims(s) : segs' = Evicted(s, v)

\* place_raw.  Without a file nothing is written, and an error of write_all is
\* ignored (~ ok): the watermark moves past what is not there.
PlaceRaw(k, off) ==
  \E b \in {Opened(k)} \cup Misopened(k), ok \in BOOLEAN :
    LET p == Placed(b, off)
        n == p.next - b.next      \* the chunk and those that waited behind it
        opens == IF b = Opened(k) THEN 0 ELSE 1
    IN /\ ok \/ (b.file /\ n > 0)
       /\ faults' = faults + opens + (IF ok THEN 0 ELSE 1)
       /\ faults' <= MaxFaults
       /\ files' = IF ok /\ b.file
                   THEN [files EXCEPT ![k] = @ \o SubSeq(Source[k], off + 1, off + n)]
                   ELSE files
       /\ failed' = IF ok /\ (b = Opened(k) \/ ~ b.file) THEN failed ELSE failed \cup {k}
       /\ EnforceBudget([segs EXCEPT ![k] = p])

-----------------------------------------------------------------------------
(* The frames.                                                             *)

Frame(kind, k, off, n) == [kind |-> kind, key |-> k, off |-> off, n |-> n]

\* Faulty variant: nothing is evicted.
CacheInsertUnbounded(c) == IF c \in Range(cache) THEN cache ELSE Append(cache, c)

\* cache_insert, and the eviction of the oldest.
CacheInsert(c) ==
  IF c \in Range(cache) THEN cache
  ELSE LET q == Append(cache, c) IN IF Len(q) > CacheBudget THEN Tail(q) ELSE q

OnDataFrame(f) ==
  /\ Unlocked
  /\ f \in net /\ f.kind = "data"
  /\ net' = net \ {f}
  /\ cache' = CacheInsert(Source[f.key][f.off + 1])
  /\ PlaceRaw(f.key, f.off)
  /\ UNCHANGED <<senderVars, seals, batch, refill, restarts>>

\* A reference is replaced by the cached chunk ...
OnRefFrame(f) ==
  /\ Unlocked
  /\ f \in net /\ f.kind = "ref"
  /\ Source[f.key][f.off + 1] \in Range(cache)
  /\ net' = net \ {f}
  /\ PlaceRaw(f.key, f.off)
  /\ UNCHANGED <<senderVars, seals, cache, batch, refill, restarts>>

\* ... or dropped (cache_miss), also when EXISTS was answered "true" for it.
OnRefMiss(f) ==
  /\ Unlocked
  /\ f \in net /\ f.kind = "ref"
  /\ Source[f.key][f.off + 1] \notin Range(cache)
  /\ net' = net \ {f}
  /\ UNCHANGED <<senderVars, seals, files, segs, cache, batch, refill, faultVars, restarts>>

\* A batch is placed entry by entry, and its chunks are not cached.
OnBatchFrame(f) ==
  /\ Unlocked
  /\ f \in net /\ f.kind = "batch"
  /\ net' = net \ {f}
  /\ batch' = [key |-> f.key, off |-> f.off, left |-> f.n]
  /\ UNCHANGED <<senderVars, seals, files, segs, cache, refill, faultVars, restarts>>

BatchEntry ==
  /\ ~ Unlocked
  /\ batch' = IF batch.left = 1 THEN NoBatch
              ELSE [batch EXCEPT !.off = @ + 1, !.left = @ - 1]
  /\ PlaceRaw(batch.key, batch.off)
  /\ UNCHANGED <<senderVars, net, seals, cache, refill, restarts>>

-----------------------------------------------------------------------------
(* Seals, and the healing of gaps.  The seal task handles one seal, with   *)
(* its refill, at a time.                                                  *)

OnSealFrame ==
  /\ Unlocked
  /\ refill = NoRefill
  /\ seals # <<>>
  /\ LET k == Head(seals)
         b == segs[k]
     IN refill' = IF b.open /\ 0 < b.next /\ b.next < Size(k)
                  THEN [pc |-> "query", key |-> k, from |-> b.next, attempt |-> 1]
                  ELSE NoRefill
  /\ seals' = Tail(seals)
  /\ UNCHANGED <<senderVars, net, files, segs, cache, batch, faultVars, restarts>>

\* The gap query.  The sender sends again what it was asked for, or not ("gone",
\* or the query is lost); its answer may be lost too.
Resent(k, from) == {Frame("data", k, off, 1) : off \in from .. Size(k) - 1}

GapQuery ==
  /\ refill.pc = "query"
  /\ \/ /\ net' = net \cup Resent(refill.key, refill.from)
        /\ refill' = [refill EXCEPT !.pc = "verify"]
     \/ /\ net' = net
        /\ \E pc \in {"verify", "remove"} : refill' = [refill EXCEPT !.pc = pc]
  /\ UNCHANGED <<senderVars, seals, files, segs, cache, batch, faultVars, restarts>>

Complete(k) == segs[k].open => segs[k].next >= Size(k)

\* A poll that sees the segment complete; one that does not and has polls left
\* in its round changes nothing.
RefillComplete ==
  /\ Unlocked
  /\ refill.pc = "verify" /\ Complete(refill.key)
  /\ refill' = [refill EXCEPT !.pc = "remove"]
  /\ UNCHANGED <<senderVars, net, seals, files, segs, cache, batch, faultVars, restarts>>

\* Faulty variant: asks until the segment is complete.
RefillRetryForever ==
  /\ Unlocked
  /\ refill.pc = "verify" /\ ~ Complete(refill.key)
  /\ refill' = [refill EXCEPT !.pc = "query"]
  /\ UNCHANGED <<senderVars, net, seals, files, segs, cache, batch, faultVars, restarts>>

\* The last poll of a round.
RefillRetry ==
  /\ Unlocked
  /\ refill.pc = "verify" /\ ~ Complete(refill.key)
  /\ refill' = IF refill.attempt < MaxRetries
               THEN [refill EXCEPT !.pc = "query", !.attempt = @ + 1]
               ELSE [refill EXCEPT !.pc = "remove"]
  /\ UNCHANGED <<senderVars, net, seals, files, segs, cache, batch, faultVars, restarts>>

\* The buffer is given up, with what is waiting in it.
RefillRemove ==
  /\ Unlocked
  /\ refill.pc = "remove"
  /\ segs' = [segs EXCEPT ![refill.key] = NoBuf]
  /\ refill' = NoRefill
  /\ UNCHANGED <<senderVars, net, seals, files, cache, batch, faultVars, restarts>>

-----------------------------------------------------------------------------
(* The sender, the network and restarts.                                   *)

\* has_blind, asked for the next chunk of k.
AnswerExists(k) ==
  /\ Unlocked
  /\ answer = <<>> /\ sent[k] < Size(k)
  /\ answer' = <<k, Source[k][sent[k] + 1] \in Range(cache)>>
  /\ UNCHANGED <<sent, sealed, net, seals, files, segs, cache, batch, refill, faultVars, restarts>>

\* A chunk that is present is sent as a reference.
Publish ==
  /\ answer # <<>>
  /\ LET k == answer[1]
         kind == IF answer[2] THEN "ref" ELSE "data"
     IN /\ net' = net \cup {Frame(kind, k, sent[k], 1)}
        /\ sent' = [sent EXCEPT ![k] = @ + 1]
  /\ answer' = <<>>
  /\ UNCHANGED <<sealed, seals, files, segs, cache, batch, refill, faultVars, restarts>>

PublishBatch(k, n) ==
  /\ answer = <<>> /\ sent[k] + n <= Size(k)
  /\ net' = net \cup {Frame("batch", k, sent[k], n)}
  /\ sent' = [sent EXCEPT ![k] = @ + n]
  /\ UNCHANGED <<sealed, answer, seals, files, segs, cache, batch, refill, faultVars, restarts>>

\* Seals have a topic of their own: they overtake chunks, and may be lost.
PublishSeal(k) ==
  /\ sent[k] = Size(k) /\ k \notin sealed
  /\ sealed' = sealed \cup {k}
  /\ seals' \in {seals, Append(seals, k)}
  /\ UNCHANGED <<sent, answer, net, files, segs, cache, batch, refill, faultVars, restarts>>

LoseFrame(f) ==
  /\ f \in net
  /\ net' = net \ {f}
  /\ UNCHANGED <<senderVars, seals, files, segs, cache, batch, refill, faultVars, restarts>>

\* The receiver ends, between two writes, and starts again on the same directory.
Restart ==
  /\ restarts < MaxRestarts
  /\ restarts' = restarts + 1
  /\ segs' = [k \in Segments |-> NoBuf]
  /\ cache' = <<>> /\ seals' = <<>>
  /\ batch' = NoBatch /\ refill' = NoRefill
  /\ UNCHANGED <<senderVars, net, files, faultVars>>

Init ==
  /\ sent = [k \in Segments |-> 0] /\ sealed = {} /\ answer = <<>>
  /\ net = {} /\ seals = <<>>
  /\ files = [k \in Segments |-> <<>>]
  /\ segs = [k \in Segments |-> NoBuf]
  /\ cache = <<>>
  /\ batch = NoBatch /\ refill = NoRefill
  /\ failed = {} /\ faults = 0 /\ restarts = 0

RefillStep == GapQuery \/ RefillComplete \/ RefillRetry \/ RefillRemove

Next ==
  \/ \E f \in net : OnDataFrame(f)
  \/ \E f \in net : OnRefFrame(f)
  \/ \E f \in net : OnRefMiss(f)
  \/ \E f \in net : OnBatchFrame(f)
  \/ BatchEntry
  \/ OnSealFrame
  \/ RefillStep
  \/ \E k \in Segments : AnswerExists(k) \/ PublishSeal(k)
  \/ Publish
  \/ \E k \in Segments, n \in BatchSizes : PublishBatch(k, n)
  \/ \E f \in net : LoseFrame(f)
  \/ Restart

Spec == Init /\ [][Next]_vars

\* A handler gives the mutex back, and the timeouts of refill_segment expire.
FairSpec == Spec /\ WF_vars(BatchEntry) /\ WF_vars(RefillStep)

-----------------------------------------------------------------------------
TypeOK ==
  /\ sent \in [Segments -> Nat] /\ \A k \in Segments : sent[k] <= Size(k)
  /\ sealed \subseteq Segments /\ failed \subseteq Segments
  /\ \A f \in net : f.key \in Segments /\ f.off + f.n <= sent[f.key]
  /\ \A k \in Segments \ failed : Len(files[k]) <= Size(k) /\ segs[k].next <= Size(k)
  /\ \A k \in Segments : segs[k].next \in Nat /\ segs[k].held \in Nat
  /\ Len(cache) <= CacheBudget /\ IsInjective(cache)
  /\ refill.pc \in {"idle", "query", "verify", "remove"}
  /\ faults \in 0 .. MaxFaults /\ restarts \in 0 .. MaxRestarts

\* With frames lost, reordered, sent again and evicted, buffers given up, files
\* that could not be opened and the receiver restarted, a rebuilt file is at all
\* times a prefix of its source, unless the disk refused a write or the size of
\* what was there could not be read.
FilesArePrefixes == \A k \in Segments \ failed : IsPrefix(files[k], Source[k])

\* "Bytes written without a gap (= the size of the file)": the watermark that
\* places chunks and starts gap queries is what a restart would find, for a
\* buffer whose file could be opened.
WatermarkIsFileSize ==
  \A k \in Segments \ failed : segs[k].file => segs[k].next = Len(files[k])

\* Every waiting chunk lies beyond the watermark. A chunk at or below it would
\* stay the first entry of pending and keep place from writing what follows.
PendingAhead == \A k \in Segments : \A off \in segs[k].pend : off > segs[k].next

\* What really waits, over all segments, stays within the budget, although the
\* code looks only at its own count of it.
PendingBounded ==
  SumFunction([k \in Segments |-> Cardinality(segs[k].pend)]) <= PendingBudget

\* A chunk once received leaves the waiting set only into the file, for the
\* budget, or with its whole buffer, unless the buffer has no file.
PendingKept ==
  [][\A k \in Segments : \A off \in segs[k].pend \ segs'[k].pend :
        \/ off < Len(files'[k])
        \/ k \in failed'
        \/ ~ segs'[k].file
        \/ PendingTotal(segs') = PendingBudget]_vars

\* refill_segment gives the seal task back, whatever the sender answers, so
\* the seals of other segments are handled.
RefillEnds == refill # NoRefill ~> refill = NoRefill

=============================================================================
