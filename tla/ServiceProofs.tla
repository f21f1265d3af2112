--------------------------- MODULE ServiceProofs ---------------------------
(***************************************************************************)
(* Proofs about module Service: what Rotator guarantees, it guarantees     *)
(* under systemd's restarts, and a failed start costs one segment.         *)
(***************************************************************************)
EXTENDS Service, RotatorProofs

-----------------------------------------------------------------------------
\* To the directory and the writer every step of the service is a step of the
\* rotator or none.
LEMMA StepOfRotator == [ServiceNext]_serviceVars => [Next]_vars
<1> SUFFICES ASSUME [ServiceNext]_serviceVars PROVE [Next]_vars
  OBVIOUS
<1>1. ASSUME NEW how, EndProcess(how) PROVE [Next]_vars
  BY <1>1 DEF EndProcess, Next
<1>2. CASE OperatorStarts \/ Restart
  BY <1>2 DEF OperatorStarts, Restart, Launch
<1>3. CASE MainStep
  BY <1>1, <1>3 DEF MainStep, NewWriter, LoadBpf, AttachInterface, AttachFails, SpawnCapture, Next
<1>4. CASE Disturbance
  BY <1>1, <1>4 DEF Disturbance, SetupFails, LoadFails, Kill, Stop
<1>5. CASE CaptureEnds \/ LinkChanges
  BY <1>5 DEF CaptureEnds, LinkChanges
<1>6. CASE OpenFirst \/ RotateOnRecord \/ WriterGoesOn \/ WriterFails \/ OperatorConverts
  BY <1>6 DEF OpenFirst, RotateOnRecord, WriterGoesOn, WriterFails, OperatorConverts, Next
<1>7. CASE UNCHANGED serviceVars
  BY <1>7 DEF serviceVars
<1> QED BY <1>2, <1>3, <1>4, <1>5, <1>6, <1>7 DEF ServiceNext

\* Every behaviour of the service is one of the rotator, so that the theorems
\* about Rotator hold of a service under any sequence of starts and failures.
THEOREM ServiceIsRotator == ServiceSpec => Spec
<1>1. ServiceInit => Init
  BY DEF ServiceInit
<1> QED BY <1>1, StepOfRotator, PTL DEF ServiceSpec, Spec

\* The budget, the newest segment and the ledger, through every restart; each as
\* far as it holds of a process that may misread the directory.
COROLLARY ServiceKeepsRotatorsPromises ==
  ASSUME MaxOthers < MaxSegments
  PROVE  ServiceSpec => [](BudgetHolds /\ NewestOnDisk /\ LedgerCurrent) /\ ImplementsStore
BY ServiceIsRotator, BudgetAlwaysHolds, NewestStaysOnDisk, LedgerStaysCurrent,
   RotatorImplementsStore, PTL

-----------------------------------------------------------------------------
LEMMA KeptIsNat ==
  ASSUME MaxOthers < MaxSegments
  PROVE  Kept \in Nat \ {0}
BY RotatorAssumption DEF Kept

\* The end of the process, by whatever action.
LEMMA EndType ==
  ASSUME MaxOthers < MaxSegments, TypeInv, ServiceTypeOK,
         NEW how \in {"stopped", "exited"}, EndProcess(how)
  PROVE  ServiceTypeOK'
<1>1. pc' = "down" /\ UNCHANGED <<segs, allocated, astray>>
  BY DEF EndProcess, Crash, vars, historyVars
<1>2. segs \subseteq allocated /\ had \subseteq allocated /\ starts \in 0 .. Kept
  BY DEF TypeInv, TypeOK, ServiceTypeOK
<1>3. Kept \in Nat
  BY KeptIsNat
<1>4. (had' = had /\ starts' = starts) \/ (had' = Promised(segs) /\ starts' = 0)
  BY DEF EndProcess, costVars
<1>5. had' \subseteq allocated' /\ starts' \in 0 .. Kept /\ (astray' => had' = {})
  BY <1>1, <1>2, <1>3, <1>4 DEF Promised, ServiceTypeOK
<1> QED BY <1>1, <1>5, ServiceAssumption DEF EndProcess, ServiceTypeOK

LEMMA PromiseStays ==
  ASSUME ServiceTypeOK, UNCHANGED <<astray, had>>
  PROVE  astray' => had' = {}
BY DEF ServiceTypeOK

LEMMA NextServiceType ==
  ASSUME MaxOthers < MaxSegments, TypeInv, ServiceTypeOK, [ServiceNext]_serviceVars
  PROVE  ServiceTypeOK'
<1> USE ServiceAssumption DEF ServiceTypeOK
<1>1. CASE OperatorStarts \/ Restart
  <2>1. Kept \in Nat /\ starts' \in 0 .. Kept
    BY <1>1, KeptIsNat DEF OperatorStarts, Restart, Launch
  <2>2. UNCHANGED <<allocated, pc, astray>>
    BY <1>1 DEF OperatorStarts, Restart, Launch, vars, historyVars
  <2> QED BY <1>1, <2>1, <2>2 DEF OperatorStarts, Restart, Launch
<1>2. CASE NewWriter
  <2>1. segs \subseteq allocated
    BY DEF TypeInv, TypeOK
  <2>2. had' \subseteq allocated' /\ (astray' => had' = {})
    BY <1>2, <2>1 DEF NewWriter, Start, Promised
  <2> QED BY <1>2, <2>2 DEF NewWriter, Start
<1>3. CASE LoadBpf \/ AttachInterface \/ SpawnCapture
  <2>1. UNCHANGED <<allocated, astray, pc, had, starts, interfaces, up>>
    BY <1>3 DEF LoadBpf, AttachInterface, SpawnCapture, costVars, historyVars, vars
  <2>2. next' \in 1 .. interfaces + 1
    BY <1>3 DEF LoadBpf, AttachInterface, SpawnCapture
  <2> QED BY <1>3, <2>1, <2>2 DEF LoadBpf, AttachInterface, SpawnCapture
<1>4. CASE AttachFails \/ Disturbance
  BY <1>4, EndType DEF AttachFails, Disturbance, SetupFails, LoadFails, Kill, Stop
<1>5. CASE CaptureEnds \/ LinkChanges
  <2>1. UNCHANGED <<astray, had>>
    BY <1>5 DEF CaptureEnds, LinkChanges, costVars, historyVars, vars
  <2>2. astray' => had' = {}
    BY <2>1, PromiseStays
  <2> QED BY <1>5, <2>2 DEF CaptureEnds, LinkChanges, mainVars, costVars, historyVars, vars
<1>6. CASE OpenFirst \/ RotateOnRecord
  <2>1. UNCHANGED <<astray, had>>
    BY <1>6 DEF OpenFirst, RotateOnRecord, CreateSegment, costVars
  <2>2. astray' => had' = {}
    BY <2>1, PromiseStays
  <2> QED BY <1>6, <2>2 DEF OpenFirst, RotateOnRecord, CreateSegment, mainVars, costVars
<1>7. CASE WriterGoesOn
  <2>1. UNCHANGED <<allocated, interfaces, up, main, next, capture, starts>>
    BY <1>7 DEF WriterGoesOn, RotatorStep, BudgetMet, EvictOldest, EvictMissed,
                PersistAfterEvict, PersistAllocation, TruncateLedger, WriteLedger,
                ReopenSegment, mainVars, historyVars
  <2>2. pending.next \in {"none", "budget", "reopen"}
    BY DEF TypeInv, TypeOK
  <2>3. pc # "down" /\ pc' # "down"
    BY <1>7, <2>2 DEF WriterGoesOn, RotatorStep, BudgetMet, EvictOldest, EvictMissed,
                PersistAfterEvict, PersistAllocation, TruncateLedger, WriteLedger, ReopenSegment
  <2>4. had' \subseteq allocated' /\ (astray' => had' = {})
    BY <1>7, <2>1 DEF WriterGoesOn, Promised
  <2> QED BY <2>1, <2>3, <2>4
<1>8. CASE WriterFails \/ OperatorConverts
  <2>1. UNCHANGED <<astray, had>>
    BY <1>8 DEF WriterFails, IoError, OperatorConverts, ConvertSegment, costVars, historyVars
  <2>2. astray' => had' = {}
    BY <2>1, PromiseStays
  <2> QED BY <1>8, <2>2 DEF WriterFails, IoError, OperatorConverts, ConvertSegment, Busy,
                            mainVars, costVars, historyVars
<1>9. CASE UNCHANGED serviceVars
  BY <1>9 DEF serviceVars, mainVars, costVars, historyVars, vars
<1> QED BY <1>1, <1>2, <1>3, <1>4, <1>5, <1>6, <1>7, <1>8, <1>9 DEF ServiceNext, MainStep

LEMMA InitServiceType ==
  ASSUME MaxOthers < MaxSegments, ServiceInit
  PROVE  ServiceTypeOK
BY KeptIsNat, ServiceAssumption DEF ServiceInit, Init, ServiceTypeOK

\* The service has its types; above all, a capture thread exists only while main
\* runs, and a writer only after main has made one.
THEOREM ServiceTypeCorrect ==
  ASSUME MaxOthers < MaxSegments
  PROVE  ServiceSpec => []ServiceTypeOK
<1>1. ServiceInit => TypeInv /\ ServiceTypeOK
  BY InitServiceType, InitType DEF ServiceInit
<1>2. TypeInv /\ ServiceTypeOK /\ [ServiceNext]_serviceVars => TypeInv' /\ ServiceTypeOK'
  BY NextType, NextServiceType, StepOfRotator
<1> QED BY <1>1, <1>2, PTL DEF ServiceSpec

-----------------------------------------------------------------------------
(***************************************************************************)
(* Why a failed start costs one segment at most.  The Kept newest of all   *)
(* numbers ever given out are on disk (NewestAreKept), because eviction    *)
(* takes the oldest and only from more than Kept.  What was given out      *)
(* since the last capture lies above what that one left (HadIsUpper), and  *)
(* it is at most one number for each start, because a writer without       *)
(* records opens its first segment and rotates no more (SinceBounded).     *)
(* Once the directory has been misread, nothing is promised (had is empty) *)
(* until a capture thread has been there again.                            *)
(***************************************************************************)
EvictedAreOldest == \A a \in allocated \ segs : \A s \in segs : a < s

From(n) == {m \in allocated : m >= n}

NewestAreKept == \A n \in allocated : Cardinality(From(n)) <= Kept => n \in segs

\* Numbers given out since the last capture thread.
Since == {a \in allocated : \A h \in had : h < a}

HadIsUpper == \A h \in had : \A a \in allocated : h <= a => a \in had \cup Since

\* A start whose writer has still to open its segment.
Unopened == main = "setup" \/ pc = "started"

SinceBounded ==
  capture = "none" /\ starts < Kept =>
    /\ Cardinality(Since) <= starts
    /\ Unopened => Cardinality(Since) < starts

DirInv ==
  /\ SafeInv
  /\ ~ astray => EvictedAreOldest /\ NewestAreKept

CostInv ==
  /\ DirInv
  /\ ServiceTypeOK
  /\ had # {} => HadIsUpper /\ SinceBounded

LEMMA SubsetCard ==
  ASSUME NEW S, NEW T, IsFiniteSet(T), S \subseteq T
  PROVE  /\ IsFiniteSet(S)
         /\ Cardinality(S) \in Nat /\ Cardinality(T) \in Nat
         /\ Cardinality(S) <= Cardinality(T)
BY FS_Subset, FS_CardinalityType

LEMMA AllocatedFinite ==
  ASSUME TypeOK
  PROVE  allocated \subseteq Nat /\ segs \subseteq allocated /\ IsFiniteSet(allocated)
<1>1. IsFiniteSet(0 .. MaxSegNo)
  BY RotatorAssumption, FS_Interval
<1>2. allocated \subseteq 0 .. MaxSegNo /\ segs \subseteq allocated
  BY DEF TypeOK
<1>3. 0 .. MaxSegNo \subseteq Nat
  BY RotatorAssumption
<1> QED BY <1>1, <1>2, <1>3, SubsetCard

\* The directory's part of the invariant holds in every step of the rotator.
LEMMA NextDir ==
  ASSUME MaxOthers < MaxSegments, DirInv, [Next]_vars
  PROVE  DirInv'
<1>1. SafeInv'
  BY NextSafe DEF DirInv
<1>2. /\ allocated \subseteq Nat /\ segs \subseteq allocated /\ IsFiniteSet(allocated)
      /\ \A n : From(n) \subseteq allocated /\ IsFiniteSet(From(n))
      /\ Kept \in Nat
  <2>1. allocated \subseteq Nat /\ segs \subseteq allocated /\ IsFiniteSet(allocated)
    BY AllocatedFinite DEF DirInv, SafeInv, TypeInv
  <2>2. ASSUME NEW n PROVE From(n) \subseteq allocated /\ IsFiniteSet(From(n))
    BY <2>1, FS_Subset DEF From
  <2> QED BY <2>1, <2>2, KeptIsNat
<1>3. CASE Store!Allocate
  <2>0. EvictedAreOldest /\ NewestAreKept
    BY <1>3 DEF Store!Allocate, DirInv
  <2>1. PICK n \in allocated' \ allocated : /\ \A a \in allocated : a < n
                                           /\ allocated' = allocated \cup {n}
                                           /\ segs' = segs \cup {n}
    BY <1>3 DEF Store!Allocate
  <2>2. EvictedAreOldest'
    BY <1>2, <2>0, <2>1 DEF EvictedAreOldest
  <2>3. ASSUME NEW k \in allocated', Cardinality(From(k)') <= Kept
        PROVE  k \in segs'
    <3>1. CASE k = n
      BY <2>1, <3>1
    <3>2. CASE k \in allocated
      <4>1. From(k) \subseteq From(k)' /\ From(k)' = From(k) \cup {n}
        BY <2>1, <1>2, <3>2 DEF From
      <4>2. IsFiniteSet(From(k)')
        BY <4>1, <1>2, FS_AddElement
      <4>3. Cardinality(From(k)) <= Kept
        BY <4>1, <4>2, <2>3, <1>2, SubsetCard
      <4> QED BY <4>3, <3>2, <2>0, <2>1 DEF NewestAreKept
    <3> QED BY <2>1, <3>1, <3>2
  <2> QED BY <1>1, <2>2, <2>3 DEF DirInv, NewestAreKept
<1>4. CASE Store!Discard
  <2>0. EvictedAreOldest /\ NewestAreKept
    BY <1>4 DEF Store!Discard, DirInv
  <2>1. Store!Cardinality(segs) = Cardinality(segs)
    BY DEF Cardinality, Store!Cardinality
  <2>2. PICK n \in segs : /\ \A s \in segs : n <= s
                          /\ segs' = segs \ {n}
                          /\ allocated' = allocated
                          /\ Cardinality(segs) > Kept
    BY <1>4, <2>1 DEF Store!Discard, Kept
  <2>3. EvictedAreOldest'
    BY <1>2, <2>0, <2>2 DEF EvictedAreOldest
  <2>4. ASSUME NEW k \in allocated, Cardinality(From(k)) <= Kept
        PROVE  k \in segs'
    <3>1. k \in segs
      BY <2>0, <2>4 DEF NewestAreKept
    <3>2. ASSUME k = n PROVE FALSE
      <4>1. segs \subseteq From(k)
        BY <1>2, <2>2, <3>2 DEF From
      <4>2. /\ Cardinality(segs) \in Nat /\ Cardinality(From(k)) \in Nat
            /\ Cardinality(segs) <= Cardinality(From(k))
        BY <4>1, <1>2, SubsetCard
      <4>3. Cardinality(segs) > Kept /\ Kept \in Nat
        BY <1>2, <2>2
      <4> QED BY <4>2, <4>3, <2>4
    <3> QED BY <3>1, <3>2, <2>2
  <2>5. NewestAreKept'
    BY <2>4, <2>2 DEF NewestAreKept, From
  <2> QED BY <1>1, <2>3, <2>5 DEF DirInv
<1>5. CASE Store!Misread
  BY <1>1, <1>5 DEF Store!Misread, DirInv
<1>6. CASE Store!Recover
  <2>1. allocated' = segs /\ segs' = segs
    BY <1>6 DEF Store!Recover
  <2>2. EvictedAreOldest' /\ NewestAreKept'
    BY <2>1 DEF EvictedAreOldest, NewestAreKept
  <2> QED BY <1>1, <2>2 DEF DirInv
<1>7. CASE UNCHANGED <<segs, allocated, astray>>
  BY <1>1, <1>7 DEF DirInv, EvictedAreOldest, NewestAreKept, From
<1> QED BY <1>3, <1>4, <1>5, <1>6, <1>7, StepSimulation DEF DirInv, Store!Next, Store!storeVars

\* No number was given out since a capture thread that is there now.
LEMMA InitCost ==
  ASSUME MaxOthers < MaxSegments, ServiceInit
  PROVE  CostInv
<1>1. SafeInv /\ ServiceTypeOK
  BY InitSafe, InitServiceType DEF ServiceInit
<1>2. allocated = segs /\ had = segs /\ starts = 0 /\ ~ Unopened
  BY DEF ServiceInit, Init, Unopened
<1>3. allocated \subseteq Nat
  BY <1>1, AllocatedFinite DEF SafeInv, TypeInv
<1>4. EvictedAreOldest /\ NewestAreKept /\ HadIsUpper
  BY <1>2 DEF EvictedAreOldest, NewestAreKept, HadIsUpper
<1>5. Since = {}
  <2>1. ASSUME NEW a \in allocated, \A h \in had : h < a PROVE FALSE
    <3>1. a < a /\ a \in Nat
      BY <1>2, <1>3, <2>1
    <3> QED BY <3>1
  <2> QED BY <2>1 DEF Since
<1>6. SinceBounded
  BY <1>2, <1>5, FS_EmptySet DEF SinceBounded
<1> QED BY <1>1, <1>4, <1>6 DEF CostInv, DirInv

\* A step that gives out no number, counts no start and leaves the capture
\* thread as it is.
LEMMA QuietCost ==
  ASSUME HadIsUpper, SinceBounded,
         UNCHANGED <<allocated, had, starts>>,
         capture' = "none" => capture = "none" /\ (Unopened' => Unopened)
  PROVE  HadIsUpper' /\ SinceBounded'
<1>1. Since' = Since
  BY DEF Since
<1>2. HadIsUpper'
  BY <1>1 DEF HadIsUpper
<1>3. SinceBounded'
  <2>1. Kept' = Kept
    BY DEF Kept
  <2> QED BY <1>1, <2>1 DEF SinceBounded
<1> QED BY <1>2, <1>3

\* The end of the process: if capture had begun, everything is counted anew.
LEMMA EndCost ==
  ASSUME CostInv, ServiceTypeOK', DirInv', had' # {},
         NEW how, EndProcess(how), how \notin {"setup", "running"}
  PROVE  HadIsUpper' /\ SinceBounded'
<1>0. ~ astray' /\ UNCHANGED astray
  BY DEF ServiceTypeOK, EndProcess, Crash, vars, historyVars
<1>1. UNCHANGED <<segs, allocated>> /\ ~ Unopened'
  BY DEF EndProcess, Crash, vars, historyVars, Unopened
<1>2. CASE capture = "none"
  <2>1. UNCHANGED <<had, starts>>
    BY <1>2 DEF EndProcess, costVars
  <2> QED BY <1>1, <1>2, <2>1, QuietCost DEF CostInv
<1>3. CASE capture # "none"
  <2>1. had' = segs /\ starts' = 0
    BY <1>0, <1>3 DEF EndProcess, Promised
  <2>2. allocated \subseteq Nat /\ segs \subseteq allocated
    BY AllocatedFinite DEF CostInv, DirInv, SafeInv, TypeInv
  <2>3. HadIsUpper'
    <3>1. ASSUME NEW h \in segs, NEW a \in allocated, h <= a PROVE a \in segs
      <4>1. CASE a \notin segs
        <5>1. a < h /\ a \in Nat /\ h \in Nat
          BY <1>0, <2>2, <4>1 DEF CostInv, DirInv, EvictedAreOldest
        <5> QED BY <5>1, <3>1
      <4> QED BY <4>1
    <3> QED BY <1>1, <2>1, <3>1 DEF HadIsUpper
  <2>4. Since' = {}
    <3>1. ASSUME NEW a \in allocated, \A h \in segs : h < a PROVE FALSE
      <4>1. PICK m \in segs : a <= m
        BY <1>0, <3>1 DEF CostInv, DirInv, SafeInv, NumbersInv, NewestKept
      <4>2. m < a /\ a \in Nat /\ m \in Nat
        BY <2>2, <3>1, <4>1
      <4> QED BY <4>1, <4>2
    <3> QED BY <1>1, <2>1, <3>1 DEF Since
  <2>5. SinceBounded'
    BY <1>1, <2>1, <2>4, FS_EmptySet DEF SinceBounded
  <2> QED BY <2>3, <2>5
<1> QED BY <1>2, <1>3

\* A segment that is opened has a number above all: one more since.
LEMMA CreateSince ==
  ASSUME CostInv, CreateSegment, UNCHANGED had, had # {}
  PROVE  /\ HadIsUpper'
         /\ Cardinality(Since') <= Cardinality(Since) + 1
         /\ Cardinality(Since) \in Nat /\ Cardinality(Since') \in Nat
<1>1. /\ allocated' = allocated \cup {seg_no}
      /\ \A a \in allocated : a < seg_no
      /\ had \subseteq allocated
  BY DEF CreateSegment, CostInv, DirInv, SafeInv, NumbersInv, NextIsFresh, Busy, ServiceTypeOK
<1>2. Since' = Since \cup {seg_no}
  BY <1>1 DEF Since
<1>3. IsFiniteSet(Since)
  BY AllocatedFinite, SubsetCard DEF Since, CostInv, DirInv, SafeInv, TypeInv
<1>4. HadIsUpper'
  BY <1>1, <1>2 DEF HadIsUpper, CostInv
<1>5. IsFiniteSet(Since') /\ Cardinality(Since') \in {Cardinality(Since), Cardinality(Since) + 1}
  BY <1>2, <1>3, FS_AddElement
<1> QED BY <1>3, <1>4, <1>5, FS_CardinalityType

LEMMA NextCost ==
  ASSUME MaxOthers < MaxSegments, CostInv, [ServiceNext]_serviceVars
  PROVE  CostInv'
<1>1. DirInv' /\ ServiceTypeOK'
  BY NextDir, StepOfRotator, NextServiceType DEF CostInv, DirInv, SafeInv
<1>2. SUFFICES ASSUME had' # {} PROVE HadIsUpper' /\ SinceBounded'
  BY <1>1 DEF CostInv
<1>3. CASE AttachFails \/ Disturbance
  BY <1>1, <1>2, <1>3, EndCost DEF AttachFails, Disturbance, SetupFails, LoadFails, Kill, Stop
<1>4. CASE ~ (AttachFails \/ Disturbance)
  <2>1. had' = had
    <3>1. had' \in {had, Promised(had)}
      BY <1>4 DEF ServiceNext, OperatorStarts, Restart, Launch, MainStep, NewWriter, LoadBpf,
                  AttachInterface, SpawnCapture, CaptureEnds, OpenFirst, RotateOnRecord,
                  WriterGoesOn, WriterFails, LinkChanges, OperatorConverts, serviceVars, costVars
    <3> QED BY <1>2, <3>1 DEF Promised
  <2>2. HadIsUpper /\ SinceBounded /\ ~ astray /\ had # {}
    BY <1>2, <2>1 DEF CostInv, ServiceTypeOK
  <2>3. CASE OperatorStarts \/ Restart
    <3>1. main \in {"stopped", "exited"} /\ main' = "setup"
          /\ UNCHANGED <<segs, allocated, pc, had, capture>>
          /\ starts' = IF starts < Kept THEN starts + 1 ELSE starts
      BY <2>3 DEF OperatorStarts, Restart, Launch, vars, historyVars
    <3>2. ~ Unopened /\ capture = "none" /\ starts \in Nat /\ Kept \in Nat
      BY <3>1, KeptIsNat DEF CostInv, ServiceTypeOK, Unopened
    <3>3. Since' = Since /\ HadIsUpper'
      BY <2>2, <3>1 DEF Since, HadIsUpper
    <3>4. Cardinality(Since) \in Nat
      BY AllocatedFinite, SubsetCard DEF Since, CostInv, DirInv, SafeInv, TypeInv
    <3>5. SinceBounded'
      BY <2>2, <3>1, <3>2, <3>3, <3>4 DEF SinceBounded, Kept
    <3> QED BY <3>3, <3>5
  <2>4. CASE OpenFirst
    <3>1. /\ CreateSegment /\ Unopened
          /\ UNCHANGED <<main, capture, had, starts>>
      BY <2>4 DEF OpenFirst, mainVars, costVars, Unopened
    <3>2. ~ Unopened'
      BY <2>4, <3>1 DEF OpenFirst, CreateSegment, Unopened, CostInv, ServiceTypeOK
    <3>3. starts \in Nat /\ Kept \in Nat
      BY KeptIsNat DEF CostInv, ServiceTypeOK
    <3> QED BY <2>2, <3>1, <3>2, <3>3, CreateSince DEF SinceBounded, Kept
  <2>5. CASE RotateOnRecord
    <3>1. CreateSegment /\ UNCHANGED had /\ capture' # "none"
      BY <2>5 DEF RotateOnRecord, mainVars, costVars
    <3> QED BY <2>2, <3>1, CreateSince DEF SinceBounded
  <2>6. CASE NewWriter
    <3>1. UNCHANGED <<allocated, starts, capture>> /\ (Unopened' => Unopened)
      BY <2>2, <2>6 DEF NewWriter, Start, Unopened
    <3> QED BY <2>1, <2>2, <3>1, QuietCost
  <2>7. CASE LoadBpf \/ AttachInterface \/ SpawnCapture
    BY <2>2, <2>7, QuietCost
    DEF LoadBpf, AttachInterface, SpawnCapture, costVars, vars, historyVars, Unopened
  <2>8. CASE CaptureEnds \/ LinkChanges \/ UNCHANGED serviceVars
    BY <2>2, <2>8, QuietCost
    DEF CaptureEnds, LinkChanges, serviceVars, mainVars, costVars, vars, historyVars, Unopened
  <2>9. CASE WriterGoesOn
    <3>1. UNCHANGED <<allocated, main, capture, starts>>
      BY <2>9 DEF WriterGoesOn, RotatorStep, BudgetMet, EvictOldest, EvictMissed,
                  PersistAfterEvict, PersistAllocation, TruncateLedger, WriteLedger,
                  ReopenSegment, mainVars, historyVars
    <3>2. pending.next \in {"none", "budget", "reopen"}
      BY DEF CostInv, DirInv, SafeInv, TypeInv, TypeOK
    <3>3. pc' # "started"
      BY <2>9, <3>2 DEF WriterGoesOn, RotatorStep, BudgetMet, EvictOldest, EvictMissed,
                  PersistAfterEvict, PersistAllocation, TruncateLedger, WriteLedger, ReopenSegment
    <3> QED BY <2>1, <2>2, <3>1, <3>3, QuietCost DEF Unopened
  <2>10. CASE WriterFails \/ OperatorConverts
    BY <2>2, <2>10, QuietCost
    DEF WriterFails, IoError, OperatorConverts, ConvertSegment, mainVars, costVars, historyVars,
        Unopened
  <2> QED BY <1>4, <2>3, <2>4, <2>5, <2>6, <2>7, <2>8, <2>9, <2>10 DEF ServiceNext, MainStep
<1> QED BY <1>3, <1>4

\* With k starts since the last capture, the k newest numbers at most are
\* theirs; the other Kept - k of the newest are the last capture's.
LEMMA CostFollows ==
  ASSUME MaxOthers < MaxSegments, CostInv
  PROVE  FailedStartsCostOneEach
<1> SUFFICES ASSUME capture = "none", NEW n \in had,
                    Cardinality({m \in had : m >= n}) <= Kept - starts
             PROVE  n \in segs
  BY DEF FailedStartsCostOneEach
<1> DEFINE Ours == {m \in had : m >= n}
<1>1. /\ allocated \subseteq Nat /\ IsFiniteSet(allocated)
      /\ had \subseteq allocated /\ n \in allocated
      /\ starts \in Nat /\ Kept \in Nat
  BY AllocatedFinite, KeptIsNat DEF CostInv, DirInv, SafeInv, TypeInv, ServiceTypeOK
<1>2. /\ IsFiniteSet(Ours) /\ Cardinality(Ours) \in Nat
      /\ IsFiniteSet(Since) /\ Cardinality(Since) \in Nat
  <2>1. Ours \subseteq allocated /\ Since \subseteq allocated
    BY <1>1 DEF Since
  <2> QED BY <1>1, <2>1, SubsetCard
<1>3. Cardinality(Ours) # 0
  <2>1. n \in Ours
    BY <1>1
  <2> QED BY <1>2, <2>1, FS_EmptySet
<1>4. Cardinality(Since) <= starts
  <2>1. Cardinality(Ours) <= Kept - starts
    OBVIOUS
  <2>2. starts < Kept
    BY <1>1, <1>2, <1>3, <2>1
  <2> QED BY <2>2 DEF CostInv, SinceBounded
<1>5. From(n) \subseteq Ours \cup Since
  BY <1>1 DEF From, CostInv, HadIsUpper
<1>6. /\ IsFiniteSet(Ours \cup Since)
      /\ Cardinality(Ours \cup Since) =
           Cardinality(Ours) + Cardinality(Since) - Cardinality(Ours \cap Since)
      /\ Cardinality(Ours \cap Since) \in Nat
  <2>1. Ours \cap Since \subseteq Ours
    OBVIOUS
  <2> QED BY <1>2, <2>1, FS_Union, SubsetCard
<1>7. Cardinality(From(n)) <= Kept
  <2>1. /\ Cardinality(From(n)) <= Cardinality(Ours \cup Since)
        /\ Cardinality(From(n)) \in Nat /\ Cardinality(Ours \cup Since) \in Nat
    BY <1>5, <1>6, SubsetCard
  <2>2. Cardinality(Ours) <= Kept - starts
    OBVIOUS
  <2> HIDE DEF Ours
  <2> QED BY <1>1, <1>2, <1>4, <1>6, <2>1, <2>2
<1>8. ~ astray
  BY DEF CostInv, ServiceTypeOK
<1> QED BY <1>1, <1>7, <1>8 DEF CostInv, DirInv, NewestAreKept

\* For every budget and any sequence of failed starts, kills, I/O errors and
\* conversions: a start that never comes to capture costs the consumer at most
\* one segment of what the last capture left, unless the directory was misread
\* since.
THEOREM FailedStartsCostLittle ==
  ASSUME MaxOthers < MaxSegments
  PROVE  ServiceSpec => []FailedStartsCostOneEach
<1>1. ServiceInit => CostInv
  BY InitCost
<1>2. CostInv /\ [ServiceNext]_serviceVars => CostInv'
  BY NextCost
<1>3. CostInv => FailedStartsCostOneEach
  BY CostFollows
<1> QED BY <1>1, <1>2, <1>3, PTL DEF ServiceSpec

-----------------------------------------------------------------------------
(***************************************************************************)
(* Several interfaces.  The second name of the list is where a program is  *)
(* loaded that is loaded already, so that main never gets past it.         *)
(***************************************************************************)
SecondFails ==
  /\ interfaces \in Nat
  /\ next \in {1, 2}
  /\ capture = "none" /\ main # "running"

\* A service that is given two interfaces or more never captures, through all
\* its restarts, whatever links there are.
THEOREM TwoInterfacesNeverCapture ==
  ServiceSpec => [](interfaces >= 2 => capture = "none" /\ main # "running")
<1> DEFINE Inv == interfaces \in Nat /\ (interfaces >= 2 => SecondFails)
<1>1. ServiceInit => Inv
  BY ServiceAssumption DEF ServiceInit, SecondFails
<1>2. Inv /\ [ServiceNext]_serviceVars => Inv'
  <2> SUFFICES ASSUME Inv, [ServiceNext]_serviceVars PROVE Inv'
    OBVIOUS
  <2>1. UNCHANGED interfaces
    BY DEF ServiceNext, OperatorStarts, Restart, Launch, MainStep, NewWriter, LoadBpf,
           AttachInterface, AttachFails, SpawnCapture, Disturbance, SetupFails, LoadFails,
           Kill, Stop, EndProcess, CaptureEnds, OpenFirst, RotateOnRecord, WriterGoesOn,
           WriterFails, LinkChanges, OperatorConverts, serviceVars
  <2> SUFFICES ASSUME interfaces >= 2, SecondFails PROVE SecondFails'
    BY <2>1
  <2>2. CASE AttachInterface
    BY <2>1, <2>2 DEF AttachInterface, CanLoad, SecondFails
  <2>3. CASE SpawnCapture
    BY <2>3 DEF SpawnCapture, SecondFails
  <2>4. CASE AttachFails \/ Disturbance
    BY <2>1, <2>4
    DEF AttachFails, Disturbance, SetupFails, LoadFails, Kill, Stop, EndProcess, SecondFails
  <2>5. CASE OperatorStarts \/ Restart \/ NewWriter \/ LoadBpf
    BY <2>1, <2>5 DEF OperatorStarts, Restart, Launch, NewWriter, LoadBpf, SecondFails
  <2>6. CASE CaptureEnds \/ LinkChanges \/ OpenFirst \/ RotateOnRecord \/ WriterGoesOn
             \/ WriterFails \/ OperatorConverts \/ UNCHANGED serviceVars
    <3>1. capture # "consuming"
      BY DEF SecondFails
    <3>2. UNCHANGED <<main, next, capture>>
      BY <2>6, <3>1 DEF CaptureEnds, LinkChanges, OpenFirst, RotateOnRecord, WriterGoesOn,
                        WriterFails, OperatorConverts, serviceVars, mainVars
    <3> QED BY <2>1, <3>2 DEF SecondFails
  <2> QED BY <2>2, <2>3, <2>4, <2>5, <2>6 DEF ServiceNext, MainStep
<1>3. Inv => (interfaces >= 2 => capture = "none" /\ main # "running")
  BY DEF SecondFails
<1> QED BY <1>1, <1>2, <1>3, PTL DEF ServiceSpec

=============================================================================
