--------------------------- MODULE RotatorProofs ---------------------------
(***************************************************************************)
(* Proofs about module Rotator, for every budget, every initial directory  *)
(* and every bound. The safety results need MaxOthers < MaxSegments: the   *)
(* run rotator_foreign_files shows that they fail without it.              *)
(***************************************************************************)
EXTENDS Rotator, FiniteSetTheorems, WellFoundedInduction, TLAPS

-----------------------------------------------------------------------------
\* A nonempty set of naturals has a least element.
LEMMA MinExists ==
  ASSUME NEW S, S \subseteq Nat, S # {}
  PROVE  \E m \in S : \A x \in S : m <= x
<1>1. \E m \in S : \A x \in S : ~ (<<x, m>> \in OpToRel(<, Nat))
  BY WFMin, NatLessThanWellFounded
<1>2. PICK m \in S : \A x \in S : ~ (<<x, m>> \in OpToRel(<, Nat))
  BY <1>1
<1>3. ASSUME NEW x \in S PROVE m <= x
  <2>1. ~ (x < m)
    BY <1>2 DEF OpToRel
  <2> QED BY <2>1
<1> QED BY <1>2, <1>3

\* A nonempty bounded set of naturals has a greatest element.
LEMMA MaxExists ==
  ASSUME NEW N \in Nat, NEW S, S \subseteq 0 .. N, S # {}
  PROVE  \E m \in S : \A x \in S : x <= m
<1> DEFINE T == {N - x : x \in S}
<1>1. T \subseteq Nat /\ T # {}
  OBVIOUS
<1>2. PICK t \in T : \A u \in T : t <= u
  BY <1>1, MinExists
<1>3. PICK m \in S : t = N - m
  BY <1>2
<1>4. ASSUME NEW x \in S PROVE x <= m
  <2>1. N - m <= N - x
    BY <1>2, <1>3
  <2> QED BY <2>1
<1> QED BY <1>4

\* What scan_existing computes from a directory.
LEMMA MaxOf ==
  ASSUME NEW N \in Nat, NEW S, S \subseteq 0 .. N, S # {}
  PROVE  /\ Max(S) \in S
         /\ \A x \in S : x <= Max(S)
<1>1. \E m \in S : \A x \in S : m >= x
  <2>1. PICK m \in S : \A x \in S : x <= m
    BY MaxExists
  <2> QED BY <2>1
<1>2. /\ Max(S) \in S
      /\ \A x \in S : Max(S) >= x
  BY <1>1 DEF Max
<1> QED BY <1>2

LEMMA MinOf ==
  ASSUME NEW S, S \subseteq Nat, S # {}
  PROVE  /\ Min(S) \in S
         /\ \A x \in S : Min(S) <= x
BY MinExists DEF Min

-----------------------------------------------------------------------------
\* The pcs at which next_segment has created its file, number no.
AfterCreate == {"budget", "evicted", "persist", "write_ledger", "reopen", "writing"}

\* TypeOK is not inductive: ReopenSegment makes the file numbered no, and
\* WriteLedger goes on at pending.next.
TypeInv ==
  /\ TypeOK
  /\ pc \in AfterCreate => no \in allocated
  /\ pc = "write_ledger" => pending.next # "none"

\* A directory read as if it held only the given names.
LEMMA ScanType ==
  ASSUME NEW names, names \subseteq 0 .. MaxSegNo
  PROVE  /\ ScanNext(names) \in 0 .. MaxSegNo + 1
         /\ ScanMin(names) \in 0 .. MaxSegNo + 1
         /\ \A s \in names : ScanMin(names) <= s /\ s < ScanNext(names)
         /\ ScanMin(names) <= ScanNext(names)
<1>1. CASE names = {}
  BY <1>1, RotatorAssumption DEF ScanNext, ScanMin
<1>2. CASE names # {}
  <2>1. names \subseteq Nat /\ MaxSegNo \in Nat
    BY RotatorAssumption
  <2>2. Max(names) \in names /\ \A x \in names : x <= Max(names)
    BY <1>2, <2>1, MaxOf
  <2>3. Min(names) \in names /\ \A x \in names : Min(names) <= x
    BY <1>2, <2>1, MinOf
  <2>4. ScanNext(names) = Max(names) + 1 /\ ScanMin(names) = Min(names)
    BY <1>2 DEF ScanNext, ScanMin
  <2>5. Max(names) \in 0 .. MaxSegNo /\ Min(names) \in 0 .. MaxSegNo
    BY <2>1, <2>2, <2>3
  <2>6. ASSUME NEW s \in names PROVE Min(names) <= s /\ s < Max(names) + 1
    BY <2>1, <2>2, <2>3, <2>5
  <2> QED BY <2>1, <2>2, <2>4, <2>5, <2>6
<1> QED BY <1>1, <1>2

\* Shared by the two persist actions.
LEMMA TruncateType ==
  ASSUME TypeInv,
         pc \in AfterCreate,
         NEW w \in 0 .. MaxSegNo + 1, NEW r \in 0 .. MaxSegNo + 1,
         NEW next \in {"budget", "reopen"},
         TruncateLedger(w, r, next), HistoryOK'
  PROVE  TypeInv'
BY RotatorAssumption DEF TypeInv, TypeOK, TruncateLedger, Torn, AfterCreate, Busy, historyVars

LEMMA InitType == Init => TypeInv
<1> SUFFICES ASSUME Init PROVE TypeInv
  OBVIOUS
<1>1. astray = FALSE /\ undercounted = FALSE
  BY DEF Init
<1>2. astray \in BOOLEAN /\ undercounted \in BOOLEAN
  BY <1>1
<1>3. misreads \in 0 .. MaxMisreads
  BY RotatorAssumption DEF Init
<1>4. HistoryOK
  BY <1>2, <1>3 DEF HistoryOK
<1> QED
  BY <1>4, RotatorAssumption DEF Init, TypeInv, TypeOK, Absent, NoPending, AfterCreate, Busy

LEMMA CountType ==
  ASSUME TypeOK, NEW wrong \in BOOLEAN, CountMisread(wrong)
  PROVE  misreads' \in 0 .. MaxMisreads
BY RotatorAssumption DEF TypeOK, HistoryOK, CountMisread

\* The history of what was misread.
LEMMA NextHistory ==
  ASSUME TypeOK, [Next]_vars
  PROVE  HistoryOK'
<1>1. CASE Start
  <2>1. PICK names \in SUBSET segs : /\ astray' = (ScanIsWrong(names) \/ CursorAhead)
                                     /\ CountMisread(ScanIsWrong(names))
    BY <1>1 DEF Start
  <2>2. ScanIsWrong(names) \in BOOLEAN /\ astray' \in BOOLEAN
    BY <2>1 DEF ScanIsWrong, CursorAhead
  <2>3. misreads' \in 0 .. MaxMisreads
    BY <2>1, <2>2, CountType
  <2> QED BY <1>1, <2>2, <2>3 DEF Start, TypeOK, HistoryOK
<1>2. CASE BudgetMet
  <2>1. undercounted' \in BOOLEAN /\ CountMisread(undercounted')
    BY <1>2 DEF BudgetMet
  <2>2. misreads' \in 0 .. MaxMisreads
    BY <2>1, CountType
  <2> QED BY <1>2, <2>1, <2>2 DEF BudgetMet, TypeOK, HistoryOK
<1>3. CASE EvictMissed
  <2>1. misreads' \in 0 .. MaxMisreads
    BY <1>3, CountType DEF EvictMissed
  <2> QED BY <1>3, <2>1 DEF EvictMissed, TypeOK, HistoryOK
<1>4. CASE CreateSegment \/ Crash
  BY <1>4 DEF CreateSegment, Crash, TypeOK, HistoryOK
<1>5. CASE EvictOldest \/ PersistAfterEvict \/ PersistAllocation \/ WriteLedger \/ ReopenSegment
           \/ IoError \/ ConvertSegment \/ UNCHANGED vars
  BY <1>5 DEF EvictOldest, PersistAfterEvict, PersistAllocation, TruncateLedger, WriteLedger,
              ReopenSegment, IoError, ConvertSegment, vars, historyVars, TypeOK, HistoryOK
<1> QED BY <1>1, <1>2, <1>3, <1>4, <1>5 DEF Next, RotatorStep

LEMMA NextType == TypeInv /\ [Next]_vars => TypeInv'
<1> SUFFICES ASSUME TypeInv, [Next]_vars PROVE TypeInv'
  OBVIOUS
<1> USE RotatorAssumption
<1>0. HistoryOK'
  BY NextHistory DEF TypeInv
<1>1. CASE Start
  <2>1. PICK names \in SUBSET segs : /\ seg_no' = ScanNext(names)
                                     /\ min_no' = ScanMin(names)
    BY <1>1 DEF Start
  <2>2. names \subseteq 0 .. MaxSegNo
    BY DEF TypeInv, TypeOK
  <2>3. seg_no' \in 0 .. MaxSegNo + 1 /\ min_no' \in 0 .. MaxSegNo + 1
    BY <2>1, <2>2, ScanType
  <2>4. segs' = segs /\ segs' \subseteq allocated' /\ allocated' \subseteq 0 .. MaxSegNo
    BY <1>1 DEF Start, TypeInv, TypeOK
  <2>5. pc' = "started" /\ UNCHANGED <<others, ledger, no, pending>>
    BY <1>1 DEF Start
  <2> QED BY <1>0, <2>3, <2>4, <2>5 DEF TypeInv, TypeOK, AfterCreate, Busy
<1>2. CASE CreateSegment
  BY <1>0, <1>2 DEF TypeInv, TypeOK, CreateSegment, AfterCreate, Busy
<1>3. CASE BudgetMet
  BY <1>0, <1>3 DEF TypeInv, TypeOK, BudgetMet, AfterCreate, Busy
<1>4. CASE EvictOldest
  BY <1>0, <1>4 DEF TypeInv, TypeOK, EvictOldest, NextMin, AfterCreate, Busy, historyVars
<1>5. CASE EvictMissed
  BY <1>0, <1>5 DEF TypeInv, TypeOK, EvictMissed, NextMin, AfterCreate, Busy
<1>6. CASE PersistAfterEvict
  BY <1>0, <1>6, TruncateType DEF TypeInv, TypeOK, PersistAfterEvict, AfterCreate
<1>7. CASE PersistAllocation
  <2>1. PICK read \in KeptCursors : TruncateLedger(no, read, "reopen")
    BY <1>7 DEF PersistAllocation
  <2>2. no \in 0 .. MaxSegNo + 1 /\ read \in 0 .. MaxSegNo + 1
    BY DEF TypeInv, TypeOK, KeptCursors
  <2>3. pc \in AfterCreate
    BY <1>7 DEF PersistAllocation, AfterCreate
  <2> QED BY <1>0, <2>1, <2>2, <2>3, TruncateType
<1>8. CASE WriteLedger
  BY <1>0, <1>8 DEF TypeInv, TypeOK, WriteLedger, Line, NoPending, AfterCreate, Busy, historyVars
<1>9. CASE ReopenSegment
  BY <1>0, <1>9 DEF TypeInv, TypeOK, ReopenSegment, AfterCreate, Busy, historyVars
<1>10. CASE IoError
  BY <1>0, <1>10 DEF TypeInv, TypeOK, IoError, AfterCreate, Busy, historyVars
<1>11. CASE Crash
  BY <1>0, <1>11 DEF TypeInv, TypeOK, Crash, NoPending, AfterCreate, Busy
<1>12. CASE ConvertSegment
  BY <1>0, <1>12 DEF TypeInv, TypeOK, ConvertSegment, AfterCreate, Busy, historyVars
<1>13. CASE UNCHANGED vars
  BY <1>0, <1>13 DEF TypeInv, TypeOK, vars, AfterCreate, Busy, historyVars
<1> QED BY <1>1, <1>2, <1>3, <1>4, <1>5, <1>6, <1>7, <1>8, <1>9, <1>10, <1>11, <1>12, <1>13
        DEF Next, RotatorStep

\* Every reachable state of the rotator has its types: seg_no and min_no never
\* run past the bound, and every file on disk has a number that was given out.
THEOREM TypeCorrect == Spec => []TypeOK
<1>1. TypeInv => TypeOK
  BY DEF TypeInv
<1> QED BY InitType, NextType, <1>1, PTL DEF Spec

-----------------------------------------------------------------------------
(***************************************************************************)
(* The safety invariant.  enforce_budget unlinks by number and never looks *)
(* whether the number is the oldest, so the argument is: while the thread  *)
(* is inside open_segment, min_no is below every file and the new file is  *)
(* above every number ever given out; as long as MaxOthers < MaxSegments,  *)
(* a directory over its budget holds two segments, and min_no is below the *)
(* newest of them.  All of this is about numbers that were read right      *)
(* (NumbersInv): a process that is astray keeps none of it, and the first  *)
(* start that reads the directory right restores it (StartNumbers).        *)
(***************************************************************************)
NewestKept == allocated # {} => \E m \in segs : \A a \in allocated : a <= m

NextIsFresh == pc \in Busy => \A a \in allocated : a < seg_no

MinIsOldest ==
  pc \in Busy => /\ min_no <= seg_no
                 /\ \A s \in segs : min_no <= s

OpenIsNewest ==
  pc \in AfterCreate => /\ no \in segs
                        /\ \A a \in allocated : a <= no

\* The read cursor, on disk or about to be written.
ReadWithin ==
  /\ pc \in {"reopen", "writing"} => ledger.read <= no
  /\ pc = "write_ledger" => pending.read <= no
  /\ ledger.state = "line" => \E a \in allocated : ledger.read <= a

NumbersInv ==
  /\ NewestKept
  /\ NextIsFresh
  /\ MinIsOldest
  /\ OpenIsNewest
  /\ ReadWithin

\* The ledger's line, on disk or about to be written, for an open segment.
LedgerInv ==
  /\ pc \in {"reopen", "writing"} => ledger.state = "line" /\ ledger.write = no
  /\ pc = "write_ledger" /\ pending.next = "reopen" => pending.write = no

SafeInv ==
  /\ TypeInv
  /\ LedgerInv
  /\ BudgetHolds
  /\ ~ astray => NumbersInv

LEMMA Finiteness ==
  ASSUME TypeInv
  PROVE  /\ IsFiniteSet(segs) /\ IsFiniteSet(allocated)
         /\ Cardinality(segs) \in Nat /\ others \in Nat
<1>1. IsFiniteSet(0 .. MaxSegNo)
  BY RotatorAssumption, FS_Interval
<1>2. segs \subseteq 0 .. MaxSegNo /\ allocated \subseteq 0 .. MaxSegNo
  BY DEF TypeInv, TypeOK
<1>3. IsFiniteSet(segs) /\ IsFiniteSet(allocated)
  BY <1>1, <1>2, FS_Subset
<1>4. others \in Nat
  BY RotatorAssumption DEF TypeInv, TypeOK
<1> QED BY <1>3, <1>4, FS_CardinalityType

\* Over its budget the directory holds a segment besides any given one.
LEMMA AnotherSegment ==
  ASSUME MaxOthers < MaxSegments, TypeInv, FileCount > MaxSegments,
         NEW n \in segs
  PROVE  \E s \in segs : s # n
<1>1. SUFFICES ASSUME segs = {n} PROVE FALSE
  OBVIOUS
<1>2. Cardinality(segs) = 1
  BY <1>1, FS_Singleton
<1>3. others \in 0 .. MaxOthers
  BY DEF TypeInv, TypeOK
<1> QED BY <1>2, <1>3, RotatorAssumption DEF FileCount

\* Of the segments on disk one is the newest.
LEMMA NewestOfAll ==
  ASSUME segs \subseteq 0 .. MaxSegNo
  PROVE  segs # {} => \E m \in segs : \A x \in segs : x <= m
BY MaxExists, RotatorAssumption

LEMMA InitSafe == Init => SafeInv
<1> SUFFICES ASSUME Init PROVE SafeInv
  OBVIOUS
<1>1. TypeInv
  BY InitType
<1>2. NewestKept
  <2>1. segs \subseteq 0 .. MaxSegNo /\ allocated = segs
    BY RotatorAssumption DEF Init
  <2> QED BY <2>1, NewestOfAll DEF NewestKept
<1>3. NextIsFresh /\ MinIsOldest /\ OpenIsNewest /\ ReadWithin /\ BudgetHolds /\ LedgerInv
  BY DEF Init, NextIsFresh, MinIsOldest, OpenIsNewest, ReadWithin, BudgetHolds, LedgerInv,
         AfterCreate, Busy, Absent
<1> QED BY <1>1, <1>2, <1>3 DEF SafeInv, NumbersInv

-----------------------------------------------------------------------------
(* The numbers, action by action, for a process that is not astray.        *)

\* A start that reads the directory right has the numbers right, whatever the
\* process before it did with them.
LEMMA StartNumbers ==
  ASSUME SafeInv, Start, ~ astray'
  PROVE  NumbersInv'
<1>1. PICK names \in SUBSET segs : /\ seg_no' = ScanNext(names)
                                   /\ min_no' = ScanMin(names)
                                   /\ astray' = (ScanIsWrong(names) \/ CursorAhead)
  BY DEF Start
<1>2. /\ seg_no' = ScanNext(segs) /\ min_no' = ScanMin(segs)
      /\ ~ CursorAhead
  BY <1>1 DEF ScanIsWrong
<1>3. segs \subseteq 0 .. MaxSegNo /\ MaxSegNo \in Nat
  BY RotatorAssumption DEF SafeInv, TypeInv, TypeOK
<1>4. /\ seg_no' \in 0 .. MaxSegNo + 1 /\ min_no' \in 0 .. MaxSegNo + 1
      /\ \A s \in segs : min_no' <= s /\ s < seg_no'
      /\ min_no' <= seg_no'
  BY <1>2, <1>3, ScanType
<1>5. /\ segs' = segs /\ ledger' = ledger /\ pc' = "started"
      /\ allocated' = IF astray THEN segs ELSE allocated
  BY DEF Start
<1>6. allocated' \subseteq 0 .. MaxSegNo
  BY <1>3, <1>5 DEF SafeInv, TypeInv, TypeOK
<1>7. NewestKept'
  <2>1. CASE astray
    BY <2>1, <1>3, <1>5, NewestOfAll DEF NewestKept
  <2>2. CASE ~ astray
    BY <2>2, <1>5 DEF NewestKept, SafeInv, NumbersInv
  <2> QED BY <2>1, <2>2
<1>8. NextIsFresh'
  <2> SUFFICES ASSUME NEW a \in allocated' PROVE a < seg_no'
    BY DEF NextIsFresh
  <2>1. PICK m \in segs : a <= m
    BY <1>5, <1>7 DEF NewestKept
  <2>2. m < seg_no' /\ m \in 0 .. MaxSegNo /\ a \in 0 .. MaxSegNo
    BY <1>3, <1>4, <1>6, <2>1
  <2> QED BY <2>1, <2>2, <1>3, <1>4
<1>9. MinIsOldest'
  BY <1>4, <1>5 DEF MinIsOldest
<1>10. OpenIsNewest'
  BY <1>5 DEF OpenIsNewest, AfterCreate
<1>11. ReadWithin'
  <2>1. ASSUME ledger.state = "line" PROVE \E a \in allocated' : ledger.read <= a
    <3>1. PICK s \in segs : ~ (s < ledger.read)
      BY <1>2, <2>1 DEF CursorAhead
    <3>2. s \in Nat /\ ledger.read \in Nat
      BY <1>3 DEF SafeInv, TypeInv, TypeOK
    <3>3. s \in allocated'
      BY <1>5 DEF SafeInv, TypeInv, TypeOK
    <3> QED BY <3>1, <3>2, <3>3
  <2> QED BY <1>5, <2>1 DEF ReadWithin
<1> QED BY <1>7, <1>8, <1>9, <1>10, <1>11 DEF NumbersInv

LEMMA CreateNumbers ==
  ASSUME TypeInv, NumbersInv, CreateSegment
  PROVE  NumbersInv'
<1> USE RotatorAssumption
<1>1. \A a \in allocated : a < seg_no
  BY DEF NumbersInv, NextIsFresh, CreateSegment, Busy
<1>2. /\ seg_no \in Nat /\ min_no \in Nat
      /\ segs \subseteq allocated /\ allocated \subseteq Nat
  BY DEF TypeInv, TypeOK
<1>3. NextIsFresh' /\ NewestKept' /\ OpenIsNewest'
  BY <1>1, <1>2 DEF CreateSegment, NextIsFresh, NewestKept, OpenIsNewest, AfterCreate
<1>4. MinIsOldest'
  BY <1>2 DEF NumbersInv, CreateSegment, MinIsOldest, Busy
<1>5. ReadWithin'
  BY DEF NumbersInv, CreateSegment, ReadWithin
<1> QED BY <1>3, <1>4, <1>5 DEF NumbersInv

\* The heart of the argument: min_no is not the newest segment.
LEMMA EvictNumbers ==
  ASSUME MaxOthers < MaxSegments, TypeInv, NumbersInv, EvictOldest
  PROVE  NumbersInv'
<1> USE RotatorAssumption
<1>1. /\ no \in segs /\ \A a \in allocated : a <= no
      /\ \A s \in segs : min_no <= s
      /\ \A a \in allocated : a < seg_no
  BY DEF NumbersInv, EvictOldest, OpenIsNewest, MinIsOldest, NextIsFresh, AfterCreate, Busy
<1>2. /\ segs \subseteq allocated /\ allocated \subseteq 0 .. MaxSegNo
      /\ min_no \in 0 .. MaxSegNo + 1 /\ seg_no \in 0 .. MaxSegNo + 1
      /\ MaxSegNo \in Nat
  BY DEF TypeInv, TypeOK
<1>3. PICK s \in segs : s # no
  BY <1>1, AnotherSegment DEF EvictOldest
<1>4. min_no < no
  BY <1>1, <1>2, <1>3
<1>5. no \in segs' /\ allocated' = allocated
  BY <1>1, <1>2, <1>4 DEF EvictOldest, historyVars
<1>6. min_no' = min_no + 1
  BY <1>1, <1>2, <1>4 DEF EvictOldest, NextMin
<1>7. NewestKept' /\ OpenIsNewest'
  BY <1>1, <1>5 DEF EvictOldest, NewestKept, OpenIsNewest
<1>8. MinIsOldest'
  <2>1. min_no + 1 <= seg_no
    BY <1>1, <1>2, <1>4
  <2>2. ASSUME NEW x \in segs' PROVE min_no + 1 <= x
    <3>1. x \in segs /\ x # min_no
      BY <2>2 DEF EvictOldest
    <3> QED BY <3>1, <1>1, <1>2
  <2> QED BY <1>6, <2>1, <2>2 DEF EvictOldest, MinIsOldest
<1>9. NextIsFresh' /\ ReadWithin'
  BY <1>5 DEF NumbersInv, EvictOldest, NextIsFresh, ReadWithin, Busy
<1> QED BY <1>7, <1>8, <1>9 DEF NumbersInv

\* The three ledger steps and ReopenSegment leave the set of files alone.
LEMMA LedgerNumbers ==
  ASSUME TypeInv, NumbersInv,
         PersistAfterEvict \/ PersistAllocation \/ WriteLedger \/ ReopenSegment
  PROVE  NumbersInv'
<1> USE RotatorAssumption
<1>1. /\ no \in segs /\ \A a \in allocated : a <= no
      /\ min_no <= no
      /\ \A a \in allocated : a < seg_no
  BY DEF NumbersInv, PersistAfterEvict, PersistAllocation, WriteLedger, ReopenSegment,
         OpenIsNewest, MinIsOldest, NextIsFresh, AfterCreate, Busy
<1>2. pc = "write_ledger" => pending.next \in {"budget", "reopen"}
  BY DEF TypeInv, TypeOK
<1>3. /\ pc \in AfterCreate /\ pc' \in AfterCreate /\ pc \in Busy
      /\ segs' = segs
      /\ UNCHANGED <<seg_no, min_no, no, allocated>>
  BY <1>1, <1>2 DEF PersistAfterEvict, PersistAllocation, TruncateLedger, WriteLedger,
                    ReopenSegment, AfterCreate, Busy, historyVars
<1>4. (NewestKept /\ NextIsFresh /\ MinIsOldest /\ OpenIsNewest)'
  BY <1>1, <1>3 DEF NumbersInv, NewestKept, NextIsFresh, MinIsOldest, OpenIsNewest
<1>5. ReadWithin'
  <2>1. CASE PersistAfterEvict
    BY <2>1, <1>1 DEF PersistAfterEvict, TruncateLedger, ReadWithin, Torn
  <2>2. CASE PersistAllocation
    <3>1. PICK read \in KeptCursors : TruncateLedger(no, read, "reopen")
      BY <2>2 DEF PersistAllocation
    <3>2. no \in Nat /\ ledger.read \in Nat /\ allocated \subseteq Nat
      BY DEF TypeInv, TypeOK
    <3>3. read <= no
      <4>1. CASE ledger.state = "line"
        BY <1>1, <3>2, <4>1 DEF NumbersInv, ReadWithin, KeptCursors
      <4>2. CASE ledger.state # "line"
        BY <3>2, <4>2 DEF KeptCursors
      <4> QED BY <4>1, <4>2
    <3> QED BY <3>1, <3>3 DEF TruncateLedger, ReadWithin, Torn
  <2>3. CASE WriteLedger
    <3>1. no \in allocated
      BY <1>3 DEF TypeInv
    <3>2. pending.read <= no
      BY <2>3 DEF NumbersInv, ReadWithin, WriteLedger
    <3> QED BY <2>3, <1>2, <1>3, <3>1, <3>2 DEF WriteLedger, ReadWithin, Line
  <2>4. CASE ReopenSegment
    BY <2>4, <1>3 DEF NumbersInv, ReopenSegment, ReadWithin
  <2> QED BY <2>1, <2>2, <2>3, <2>4
<1> QED BY <1>4, <1>5 DEF NumbersInv

\* Steps that change neither files nor numbers.
LEMMA OtherNumbers ==
  ASSUME NumbersInv, BudgetMet \/ IoError \/ Crash \/ ConvertSegment \/ UNCHANGED vars
  PROVE  NumbersInv'
<1>1. CASE BudgetMet
  BY <1>1 DEF NumbersInv, BudgetMet, NewestKept, NextIsFresh, MinIsOldest, OpenIsNewest,
              ReadWithin, AfterCreate, Busy
<1>2. CASE IoError
  BY <1>2 DEF NumbersInv, IoError, NewestKept, NextIsFresh, MinIsOldest, OpenIsNewest,
              ReadWithin, AfterCreate, Busy, historyVars
<1>3. CASE Crash
  BY <1>3 DEF NumbersInv, Crash, NewestKept, NextIsFresh, MinIsOldest, OpenIsNewest,
              ReadWithin, AfterCreate, Busy
<1>4. CASE ConvertSegment
  BY <1>4 DEF NumbersInv, ConvertSegment, NewestKept, NextIsFresh, MinIsOldest, OpenIsNewest,
              ReadWithin, historyVars
<1>5. CASE UNCHANGED vars
  BY <1>5 DEF NumbersInv, vars, NewestKept, NextIsFresh, MinIsOldest, OpenIsNewest,
              ReadWithin, historyVars
<1> QED BY <1>1, <1>2, <1>3, <1>4, <1>5

\* Only a start ends it that a process is astray.
LEMMA AstrayStays ==
  ASSUME [Next]_vars, ~ Start, astray
  PROVE  astray'
BY DEF Next, RotatorStep, CreateSegment, BudgetMet, EvictOldest, EvictMissed, PersistAfterEvict,
       PersistAllocation, TruncateLedger, WriteLedger, ReopenSegment, IoError, Crash,
       ConvertSegment, vars, historyVars

LEMMA NextNumbers ==
  ASSUME MaxOthers < MaxSegments, SafeInv, [Next]_vars, ~ astray'
  PROVE  NumbersInv'
<1>1. CASE Start
  BY <1>1, StartNumbers
<1>2. CASE ~ Start
  <2>1. NumbersInv /\ TypeInv
    BY <1>2, AstrayStays DEF SafeInv
  <2>2. ~ EvictMissed
    BY DEF EvictMissed
  <2> QED BY <1>2, <2>1, <2>2, CreateNumbers, EvictNumbers, LedgerNumbers, OtherNumbers
          DEF Next, RotatorStep
<1> QED BY <1>1, <1>2

-----------------------------------------------------------------------------
(* The budget and the ledger's line.                                       *)

LEMMA NextLedger ==
  ASSUME TypeInv, LedgerInv, [Next]_vars
  PROVE  LedgerInv'
<1>0. pc = "write_ledger" => pending.next \in {"budget", "reopen"}
  BY DEF TypeInv, TypeOK
<1>1. CASE Start \/ CreateSegment \/ BudgetMet \/ EvictOldest \/ EvictMissed \/ IoError \/ Crash
  BY <1>1 DEF Start, CreateSegment, BudgetMet, EvictOldest, EvictMissed, IoError, Crash, LedgerInv
<1>2. CASE PersistAfterEvict \/ PersistAllocation
  BY <1>2 DEF PersistAfterEvict, PersistAllocation, TruncateLedger, LedgerInv
<1>3. CASE WriteLedger
  BY <1>0, <1>3 DEF WriteLedger, LedgerInv, Line, NoPending
<1>4. CASE ReopenSegment \/ ConvertSegment \/ UNCHANGED vars
  BY <1>4 DEF ReopenSegment, ConvertSegment, vars, LedgerInv
<1> QED BY <1>1, <1>2, <1>3, <1>4 DEF Next, RotatorStep

LEMMA NextBudget ==
  ASSUME SafeInv, [Next]_vars
  PROVE  BudgetHolds'
<1>0. /\ pc = "write_ledger" => pending.next \in {"budget", "reopen"}
      /\ pc \in AfterCreate /\ ~ astray => no \in segs
  BY DEF SafeInv, TypeInv, TypeOK, NumbersInv, OpenIsNewest
<1>1. CASE Start \/ CreateSegment \/ EvictOldest \/ EvictMissed \/ IoError \/ Crash
  BY <1>1 DEF Start, CreateSegment, EvictOldest, EvictMissed, IoError, Crash, BudgetHolds
<1>2. CASE BudgetMet
  <2>1. /\ undercounted' = (FileCount > MaxSegments)
        /\ segs' = segs
    BY <1>2 DEF BudgetMet
  <2>2. Cardinality(segs) \in Nat /\ others \in Nat
    BY Finiteness DEF SafeInv
  <2>3. ASSUME ~ undercounted' PROVE Cardinality(segs) <= MaxSegments
    <3>1. ~ (FileCount > MaxSegments)
      BY <2>1, <2>3
    <3> QED BY <2>2, <3>1, RotatorAssumption DEF FileCount
  <2> QED BY <2>1, <2>3 DEF BudgetHolds
<1>3. CASE PersistAfterEvict \/ PersistAllocation
  BY <1>3 DEF SafeInv, PersistAfterEvict, PersistAllocation, TruncateLedger, BudgetHolds,
              historyVars
<1>4. CASE WriteLedger
  BY <1>0, <1>4 DEF SafeInv, WriteLedger, BudgetHolds, historyVars
<1>5. CASE ReopenSegment
  <2>1. ~ astray => segs' = segs
    BY <1>0, <1>5 DEF ReopenSegment, AfterCreate
  <2> QED BY <1>5, <2>1 DEF SafeInv, ReopenSegment, BudgetHolds, historyVars
<1>6. CASE ConvertSegment \/ UNCHANGED vars
  BY <1>6 DEF SafeInv, ConvertSegment, vars, BudgetHolds, historyVars
<1> QED BY <1>1, <1>2, <1>3, <1>4, <1>5, <1>6 DEF Next, RotatorStep

LEMMA NextSafe ==
  ASSUME MaxOthers < MaxSegments
  PROVE  SafeInv /\ [Next]_vars => SafeInv'
<1> SUFFICES ASSUME SafeInv, [Next]_vars PROVE SafeInv'
  OBVIOUS
<1>1. TypeInv' /\ LedgerInv' /\ BudgetHolds'
  BY NextType, NextLedger, NextBudget DEF SafeInv
<1>2. ~ astray' => NumbersInv'
  BY NextNumbers
<1> QED BY <1>1, <1>2 DEF SafeInv

LEMMA AlwaysSafe ==
  ASSUME MaxOthers < MaxSegments
  PROVE  Spec => []SafeInv
BY InitSafe, NextSafe, PTL DEF Spec

\* For every max_segments, every directory found at the start and every history
\* of crashes and errors: once the budget is enforced, at most MaxSegments
\* segments are on disk for as long as the new one is written, unless that count
\* was short or the process works with misread numbers.
THEOREM BudgetAlwaysHolds ==
  ASSUME MaxOthers < MaxSegments
  PROVE  Spec => []BudgetHolds
<1>1. SafeInv => BudgetHolds
  BY DEF SafeInv
<1> QED BY AlwaysSafe, <1>1, PTL

\* Eviction never takes the newest segment, at no step of any rotation of a
\* process that has not misread the directory.
THEOREM NewestStaysOnDisk ==
  ASSUME MaxOthers < MaxSegments
  PROVE  Spec => []NewestOnDisk
<1>1. SafeInv => NewestOnDisk
  BY DEF SafeInv, NumbersInv, NewestKept, OpenIsNewest, NewestOnDisk, AfterCreate
<1> QED BY AlwaysSafe, <1>1, PTL

\* The ledger names the segment being written, also when numbers were misread;
\* its read cursor is within what was given out when they were not.
THEOREM LedgerStaysCurrent ==
  ASSUME MaxOthers < MaxSegments
  PROVE  Spec => []LedgerCurrent
<1>1. SafeInv => LedgerCurrent
  BY DEF SafeInv, LedgerInv, NumbersInv, ReadWithin, LedgerCurrent
<1> QED BY AlwaysSafe, <1>1, PTL

-----------------------------------------------------------------------------
\* Every step of the rotator is a step of the abstract store or a stutter.
LEMMA StepSimulation ==
  ASSUME SafeInv, [Next]_vars
  PROVE  [Store!Next]_Store!storeVars
<1> USE RotatorAssumption
<1>1. CASE astray'
  BY <1>1 DEF Store!Next, Store!Misread
<1>2. CASE ~ astray' /\ astray
  <2>1. Start
    BY <1>2, AstrayStays
  <2> QED BY <1>2, <2>1 DEF Start, Store!Next, Store!Recover
<1>3. CASE ~ astray' /\ ~ astray
  <2>0. NumbersInv /\ TypeInv /\ UNCHANGED astray
    <3>1. astray \in BOOLEAN /\ astray' \in BOOLEAN
      BY NextType DEF SafeInv, TypeInv, TypeOK, HistoryOK
    <3> QED BY <1>3, <3>1 DEF SafeInv
  <2>1. CASE CreateSegment
    <3>1. /\ seg_no \notin allocated
          /\ \A a \in allocated : a < seg_no
      BY <2>0, <2>1 DEF TypeInv, TypeOK, NumbersInv, NextIsFresh, CreateSegment, Busy
    <3> QED BY <1>3, <2>0, <2>1, <3>1 DEF CreateSegment, Store!Next, Store!Allocate
  <2>2. CASE EvictOldest
    <3>1. CASE min_no \in segs
      <4>1. Cardinality(segs) \in Nat /\ others \in 0 .. MaxOthers
        BY Finiteness DEF SafeInv, TypeInv, TypeOK
      <4>2. Cardinality(segs) > MaxSegments - MaxOthers
        BY <2>2, <4>1 DEF EvictOldest, FileCount
      <4>3. \A s \in segs : min_no <= s
        BY <2>0, <2>2 DEF NumbersInv, EvictOldest, MinIsOldest, Busy
      <4>4. Store!Cardinality(segs) = Cardinality(segs)
        BY DEF Cardinality, Store!Cardinality
      <4>5. Store!Discard
        BY <1>3, <2>0, <2>2, <3>1, <4>2, <4>3, <4>4
        DEF EvictOldest, Store!Discard, historyVars
      <4> QED BY <4>5 DEF Store!Next
    <3>2. CASE min_no \notin segs
      BY <2>2, <3>2 DEF EvictOldest, Store!storeVars, historyVars
    <3> QED BY <3>1, <3>2
  <2>3. CASE ReopenSegment
    <3>1. no \in segs
      BY <2>0, <2>3 DEF NumbersInv, OpenIsNewest, ReopenSegment, AfterCreate
    <3> QED BY <2>3, <3>1 DEF ReopenSegment, Store!storeVars, historyVars
  <2>4. CASE Start
    BY <1>3, <2>0, <2>4 DEF Start, Store!storeVars
  <2>5. CASE EvictMissed
    BY <1>3, <2>5 DEF EvictMissed
  <2>6. CASE BudgetMet \/ PersistAfterEvict \/ PersistAllocation \/ WriteLedger
             \/ IoError \/ Crash \/ ConvertSegment \/ UNCHANGED vars
    BY <2>6 DEF BudgetMet, PersistAfterEvict, PersistAllocation, TruncateLedger,
                WriteLedger, IoError, Crash, ConvertSegment, vars, Store!storeVars, historyVars
  <2> QED BY <2>1, <2>2, <2>3, <2>4, <2>5, <2>6 DEF Next, RotatorStep
<1> QED BY <1>1, <1>2, <1>3

\* The rotator implements the abstract segment store: fresh numbers only, oldest
\* first, and the MaxSegments - MaxOthers newest segments stay, from every start
\* that reads the directory right until a read goes wrong.
THEOREM RotatorImplementsStore ==
  ASSUME MaxOthers < MaxSegments
  PROVE  Spec => ImplementsStore
<1>1. Init => Store!Init
  <2> SUFFICES ASSUME Init PROVE Store!Init
    OBVIOUS
  <2>1. segs \subseteq Nat
    BY RotatorAssumption DEF Init
  <2> QED BY <2>1 DEF Init, Store!Init
<1>2. SafeInv /\ [Next]_vars => [Store!Next]_Store!storeVars
  BY StepSimulation
<1> QED BY <1>1, <1>2, AlwaysSafe, PTL DEF Spec, ImplementsStore, Store!Spec

=============================================================================
