----------------------- MODULE ExperimentBatchProofs -----------------------
(* Theorems about ExperimentBatch: type correctness, ownership that is      *)
(* durable, and an account that never carries more sandboxes than the batch *)
(* has slots, for every number of cells, runs and slots.                    *)
EXTENDS ExperimentBatch, FiniteSetTheorems, TLAPS

-----------------------------------------------------------------------------
(* Type correctness *)

\* An executing worker acts for attempts of its own run.
LEMMA ActingCell ==
  ASSUME TypeOK, Executing, NEW c \in Cell
  PROVE  /\ run \in Run
         /\ Me(c) \in Attempt
         /\ \A k \in Kind : Rec(Me(c), k) \in Record
BY DEF TypeOK, Executing, Me, Attempt, Rec, Record

\* Landing an append, or giving it up, keeps the journal's type.
LEMMA LandingType ==
  ASSUME TypeOK, NEW r \in Record, Lands(r) \/ MayLand(r)
  PROVE  journal' \subseteq Record /\ inflight' \subseteq Record
BY DEF TypeOK, Lands, MayLand

\* Sealing an attempt produces evidence of the declared shape.
LEMMA SealType ==
  ASSUME TypeOK, Executing, NEW c \in Cell,
         NEW cleanup \in Cleanup, NEW fs \in SUBSET Cell, NEW js \in SUBSET Cell,
         Seal(c, cleanup, fs, js)
  PROVE  /\ failed' \subseteq Cell
         /\ journalFailed' \subseteq Cell
         /\ evidence' \in [Attempt -> Evidence \cup {NoEvidence}]
         /\ refillFailure' \in BOOLEAN
         /\ pc' \in [Cell -> CellPhase]
<1>1. Me(c) \in Attempt
  BY ActingCell
<1>2. [outcome |-> IF c \notin fs /\ cleanup = "confirmed" THEN "completed" ELSE "failed",
       cleanup |-> cleanup,
       retained |-> Me(c) \in retained] \in Evidence
  BY DEF Evidence
<1>3. (refillFailure \/ StopsRefill(c, cleanup, js)) \in BOOLEAN
  OBVIOUS
<1>. QED
  BY <1>1, <1>2, <1>3 DEF Seal, TypeOK, Goto, CellPhase

LEMMA AdmitType ==
  ASSUME TypeOK, Admit
  PROVE  TypeOK'
<1>. USE DEF TypeOK, Phase, Admission
<1>1. CASE StartRun
  <2>1. run + 1 \in Run /\ run + 1 \in 0 .. MaxRuns
    BY <1>1, MaxRunsAssumption DEF StartRun, Run
  <2>2. Unreleased \subseteq Attempt
    BY DEF Unreleased
  <2>. QED
    BY <1>1, <2>1, <2>2 DEF StartRun, FreshProcess, durableVars, CellPhase, CreatePhase
<1>2. CASE AdmissionFails
  BY <1>2 DEF AdmissionFails, durableVars, cellVars
<1>3. CASE RecoveryEnds
  BY <1>3 DEF RecoveryEnds, durableVars, cellVars
<1>4. CASE ReconcileDestroys
  BY <1>4 DEF ReconcileDestroys, durableVars, cellVars
<1>5. CASE ReconcileEnds
  BY <1>5 DEF ReconcileEnds, durableVars, cellVars
<1>6. ASSUME NEW a \in Attempt, RecoverDestroys(a)
      PROVE  TypeOK'
  BY <1>6 DEF RecoverDestroys, workerVars, cellVars
<1>7. ASSUME NEW a \in Attempt, RecoverConfirms(a)
      PROVE  TypeOK'
  <2>1. Rec(a, "absent") \in Record
    BY DEF Rec, Record, Kind, ReleaseKind
  <2>. QED
    BY <1>7, <2>1 DEF RecoverConfirms, durableVars, workerVars, cellVars
<1>8. ASSUME NEW a \in Attempt, RecoverySettles(a)
      PROVE  TypeOK'
  <2>1. journal' \subseteq Record /\ inflight' \subseteq Record
    BY <1>8 DEF RecoverySettles, Lands, MayLand
  <2>2. todo' \subseteq Attempt /\ proc' \in Phase /\ admissionFailure' \in BOOLEAN
    BY <1>8 DEF RecoverySettles
  <2>. QED
    BY <1>8, <2>1, <2>2 DEF RecoverySettles, cellVars
<1>. QED
  BY <1>1, <1>2, <1>3, <1>4, <1>5, <1>6, <1>7, <1>8 DEF Admit

LEMMA RunCellType ==
  ASSUME TypeOK, NEW c \in Cell, RunCell(c)
  PROVE  TypeOK'
<1>1. Executing
  BY DEF RunCell, IntentSettles, IntentTimesOut, IssueCreate, RefuseCreate, HarnessGetsSession,
         HarnessGetsError, HarnessTimesOut, SuiteEnds, ConfirmCleanup, Settle, ReadForRelease,
         AbsentSettles, NotAllocatedSettles, Upload
<1>2. /\ run \in Run /\ Me(c) \in Attempt
      /\ \A k \in Kind : Rec(Me(c), k) \in Record
  BY <1>1, ActingCell
<1>3. failed \in SUBSET Cell /\ journalFailed \in SUBSET Cell
      /\ failed \cup {c} \in SUBSET Cell /\ journalFailed \cup {c} \in SUBSET Cell
  BY DEF TypeOK
<1>. USE DEF Kind, ReleaseKind
<1>4. CASE IntentSettles(c)
  <2>1. journal' \subseteq Record /\ inflight' \subseteq Record
    BY <1>2, <1>4, LandingType DEF IntentSettles
  <2>. QED
    BY <1>4, <2>1 DEF IntentSettles, AppendFailed, TypeOK, Goto, workerVars, CellPhase
<1>5. CASE IntentTimesOut(c)
  BY <1>5 DEF IntentTimesOut, AppendFailed, TypeOK, Goto, durableVars, workerVars, CellPhase
<1>6. CASE IssueCreate(c)
  BY <1>2, <1>6 DEF IssueCreate, TypeOK, Goto, Step, workerVars, CellPhase, CreatePhase
<1>7. CASE RefuseCreate(c)
  BY <1>7 DEF RefuseCreate, TypeOK, Goto, durableVars, workerVars, CellPhase
<1>8. CASE HarnessGetsSession(c)
  BY <1>8 DEF HarnessGetsSession, TypeOK, Goto, Step, durableVars, workerVars, CellPhase, CreatePhase
<1>9. CASE HarnessGetsError(c)
  BY <1>9 DEF HarnessGetsError, TypeOK, Goto, durableVars, workerVars, CellPhase
<1>10. CASE HarnessTimesOut(c)
  BY <1>10 DEF HarnessTimesOut, TypeOK, Goto, durableVars, workerVars, CellPhase
<1>11. CASE SuiteEnds(c)
  BY <1>2, <1>11 DEF SuiteEnds, MayRemove, TypeOK, Goto, workerVars, CellPhase
<1>12. CASE ConfirmCleanup(c)
  BY <1>12 DEF ConfirmCleanup, TypeOK, Goto, durableVars, workerVars, CellPhase
<1>13. CASE Settle(c)
  <2>1. CASE c \in confirmed /\ allocationRecorded(c)
    BY <1>2, <1>13, <2>1 DEF Settle, TypeOK, Goto, workerVars, CellPhase
  <2>2. CASE c \notin confirmed /\ KnownEmpty(c) /\ ~admissionFailure
    BY <1>13, <2>2 DEF Settle, TypeOK, Goto, workerVars, CellPhase
  <2>3. ASSUME NEW cleanup \in Cleanup, Seal(c, cleanup, failed, journalFailed), UNCHANGED inflight
        PROVE  TypeOK'
    BY <1>1, <1>3, <1>13, <2>3, SealType DEF Settle, TypeOK, workerVars
  <2>. QED
    BY <1>13, <2>1, <2>2, <2>3 DEF Settle, Cleanup
<1>14. CASE ReadForRelease(c)
  <2>1. ASSUME inflight' = inflight \cup {Rec(Me(c), "not-allocated")},
               Goto(c, "releasing-none"),
               UNCHANGED <<failed, journalFailed, evidence, refillFailure>>
        PROVE  TypeOK'
    BY <1>2, <1>14, <2>1 DEF ReadForRelease, TypeOK, Goto, workerVars, CellPhase
  <2>2. ASSUME NEW fs \in SUBSET Cell, NEW js \in SUBSET Cell,
               Seal(c, "not-allocated", fs, js), UNCHANGED inflight
        PROVE  TypeOK'
    BY <1>1, <1>14, <2>2, SealType DEF ReadForRelease, TypeOK, workerVars, Cleanup
  <2>. QED
    BY <1>3, <1>14, <2>1, <2>2 DEF ReadForRelease
<1>15. ASSUME NEW k \in ReleaseKind, NEW cleanup \in Cleanup, ReleaseSettles(c, k, cleanup)
       PROVE  TypeOK'
  <2>1. journal' \subseteq Record /\ inflight' \subseteq Record
    BY <1>2, <1>15, LandingType DEF ReleaseSettles
  <2>2. PICK fs \in SUBSET Cell, js \in SUBSET Cell : Seal(c, cleanup, fs, js)
    BY <1>3, <1>15 DEF ReleaseSettles
  <2>. QED
    BY <1>1, <1>15, <2>1, <2>2, SealType DEF ReleaseSettles, TypeOK, workerVars
<1>16. CASE AbsentSettles(c)
  BY <1>15, <1>16 DEF AbsentSettles, Cleanup
<1>17. CASE NotAllocatedSettles(c)
  BY <1>15, <1>17 DEF NotAllocatedSettles, Cleanup
<1>18. CASE Upload(c)
  BY <1>18 DEF Upload, TypeOK, Goto, durableVars, workerVars, CellPhase
<1>. QED
  BY <1>4, <1>5, <1>6, <1>7, <1>8, <1>9, <1>10, <1>11, <1>12, <1>13, <1>14, <1>16, <1>17, <1>18
     DEF RunCell

LEMMA WrappedCreateType ==
  ASSUME TypeOK, NEW c \in Cell, WrappedCreate(c)
  PROVE  TypeOK'
<1>1. Executing
  BY DEF WrappedCreate, CreateReturns, CreateRejects, CreateUncertain, AllocatedSettles,
         AllocatedTimesOut, UndoCreate, DiscardLate
<1>2. /\ run \in Run /\ Me(c) \in Attempt
      /\ Rec(Me(c), "allocated") \in Record
  BY <1>1, ActingCell DEF Kind
<1>. USE DEF TypeOK, Step, CreatePhase, workerVars
<1>3. CASE CreateReturns(c)
  BY <1>2, <1>3 DEF CreateReturns, AppendFailed
<1>4. CASE CreateRejects(c)
  BY <1>2, <1>4 DEF CreateRejects
<1>5. CASE CreateUncertain(c)
  BY <1>2, <1>5 DEF CreateUncertain
<1>6. CASE AllocatedSettles(c)
  <2>1. journal' \subseteq Record /\ inflight' \subseteq Record
    BY <1>2, <1>6, LandingType DEF AllocatedSettles
  <2>. QED
    BY <1>6, <2>1 DEF AllocatedSettles, AppendFailed
<1>7. CASE AllocatedTimesOut(c)
  BY <1>7 DEF AllocatedTimesOut, AppendFailed, durableVars
<1>8. CASE UndoCreate(c)
  BY <1>2, <1>8 DEF UndoCreate, MayRemove
<1>9. CASE DiscardLate(c)
  BY <1>2, <1>9 DEF DiscardLate, MayRemove
<1>. QED
  BY <1>3, <1>4, <1>5, <1>6, <1>7, <1>8, <1>9 DEF WrappedCreate

LEMMA TypeStep ==
  ASSUME TypeOK, [Next]_vars
  PROVE  TypeOK'
<1>1. CASE Admit
  BY <1>1, AdmitType
<1>2. ASSUME NEW c \in Cell, Launch(c)
      PROVE  TypeOK'
  <2>1. run \in Run /\ Rec(Me(c), "intent") \in Record
    BY <1>2, ActingCell DEF Launch, Kind
  <2>. QED
    BY <1>2, <2>1 DEF Launch, TypeOK, Goto, durableVars, workerVars, CellPhase
<1>3. ASSUME NEW c \in Cell, Deadline(c)
      PROVE  TypeOK'
  BY <1>3 DEF Deadline, TypeOK, durableVars, workerVars
<1>4. ASSUME NEW c \in Cell, RunCell(c)
      PROVE  TypeOK'
  BY <1>4, RunCellType
<1>5. ASSUME NEW c \in Cell, WrappedCreate(c)
      PROVE  TypeOK'
  BY <1>5, WrappedCreateType
<1>6. ASSUME NEW r \in inflight, OrphanSettles(r)
      PROVE  TypeOK'
  BY <1>6, LandingType DEF OrphanSettles, TypeOK, workerVars, cellVars
<1>7. ASSUME NEW a \in Attempt, VendorMaterialises(a) \/ VendorReclaims(a)
      PROVE  TypeOK'
  BY <1>7 DEF VendorMaterialises, VendorReclaims, TypeOK, workerVars, cellVars
<1>8. CASE ProcessEnds
  BY <1>8 DEF ProcessEnds, FreshProcess, TypeOK, CellPhase, CreatePhase, Phase
<1>9. CASE UNCHANGED vars
  BY <1>9 DEF vars, durableVars, workerVars, cellVars, TypeOK
<1>. QED
  BY <1>1, <1>2, <1>3, <1>4, <1>5, <1>6, <1>7, <1>8, <1>9 DEF Next, BatchEnds, Crash

LEMMA InitType == Init => TypeOK
<1>1. 0 \in 0 .. MaxRuns
  BY MaxRunsAssumption
<1>. QED
  BY <1>1 DEF Init, TypeOK, Phase, CellPhase, CreatePhase

\* Every variable keeps its declared range, whatever fails or interleaves in
\* executeExperimentBatch.
THEOREM TypeCorrect == Spec => []TypeOK
<1>1. Init => TypeOK
  BY InitType
<1>2. TypeOK /\ [Next]_vars => TypeOK'
  BY TypeStep
<1>. QED
  BY <1>1, <1>2, PTL DEF Spec

-----------------------------------------------------------------------------
(* The inductive invariant behind OwnershipIsDurable *)

Empty(a) == vendor[a] \in {"none", "gone"}
Recorded == journal \cup inflight

\* Attempts of workers that have not started yet left no trace.
FutureIsBlank ==
  \A a \in Attempt : a[1] > run =>
    Empty(a) /\ \A k \in Kind : Rec(a, k) \notin Recorded

\* A release is only issued, hence only lands, when nothing is held.
ReleasedIsEmpty ==
  \A a \in Attempt, k \in ReleaseKind : Rec(a, k) \in Recorded => Empty(a)

HeldHasIntent == \A a \in Attempt : Empty(a) \/ HasRecord(a, "intent")

\* What a cell's position says of its attempt.
BeforeCreate == {"queued", "intent", "admitted"}

QueuedIsBlank(c) == pc[c] = "queued" => \A k \in Kind : Rec(Me(c), k) \notin Recorded
EarlyIsOpen(c) ==
  pc[c] \in BeforeCreate =>
    /\ cr[c] = "idle" /\ c \notin rejected \cup confirmed
    /\ \A k \in ReleaseKind : Rec(Me(c), k) \notin Recorded
AdmittedIsDurable(c) == pc[c] = "admitted" => HasRecord(Me(c), "intent")
IdleIsEmpty(c)       == cr[c] = "idle" => Empty(Me(c))
ClearedIsEmpty(c)    == c \in rejected \cup confirmed => Empty(Me(c))
ReadingIsEmpty(c)    == pc[c] \in {"reading", "releasing-none"} => KnownEmpty(c)

CellOK(c) ==
  /\ proc \in Admission => pc[c] = "queued"
  /\ QueuedIsBlank(c) /\ EarlyIsOpen(c) /\ AdmittedIsDurable(c)
  /\ IdleIsEmpty(c) /\ ClearedIsEmpty(c) /\ ReadingIsEmpty(c)

OwnershipInv ==
  /\ TypeOK
  /\ FutureIsBlank
  /\ ReleasedIsEmpty
  /\ HeldHasIntent
  /\ proc # "idle" => \A c \in Cell : CellOK(c)

-----------------------------------------------------------------------------
(* Steps that create nothing at the vendor, and what they preserve.  new is *)
(* the set of records a step issues.                                        *)

QuietVendor == \A a \in Attempt : Empty(a) => Empty(a)'

Issues(new) ==
  /\ journal \subseteq journal'
  /\ Recorded' \subseteq Recorded \cup new

\* The new records may be issued: not for the future, releases for nothing held.
Permitted(new) ==
  \A a \in Attempt, k \in Kind : Rec(a, k) \in new =>
    ~(a[1] > run) /\ (k \in ReleaseKind => Empty(a))

LEMMA QuietStep ==
  ASSUME FutureIsBlank, ReleasedIsEmpty, HeldHasIntent,
         NEW new, QuietVendor, Issues(new), Permitted(new), run' = run
  PROVE  FutureIsBlank' /\ ReleasedIsEmpty' /\ HeldHasIntent'
<1>1. FutureIsBlank'
  BY DEF FutureIsBlank, QuietVendor, Issues, Permitted
<1>2. ReleasedIsEmpty'
  BY DEF ReleasedIsEmpty, QuietVendor, Issues, Permitted, Kind
<1>3. HeldHasIntent'
  BY DEF HeldHasIntent, HasRecord, QuietVendor, Issues
<1>. QED
  BY <1>1, <1>2, <1>3

\* A cell the step is not about.
LEMMA OtherCell ==
  ASSUME NEW d \in Cell, CellOK(d), Me(d) \in Attempt,
         NEW new, QuietVendor, Issues(new),
         \A k \in Kind : Rec(Me(d), k) \notin new,
         run' = run, proc' \in Admission => proc \in Admission,
         pc'[d] = pc[d], cr'[d] = cr[d],
         d \in rejected' => d \in rejected, d \in rejected => d \in rejected',
         d \in confirmed' => d \in confirmed
  PROVE  CellOK(d)'
<1>1. Me(d)' = Me(d)
  BY DEF Me
<1>2. Empty(Me(d)) => Empty(Me(d))'
  BY <1>1 DEF QuietVendor, Empty
<1>3. QueuedIsBlank(d)'
  BY <1>1 DEF CellOK, QueuedIsBlank, Issues
<1>4. EarlyIsOpen(d)'
  BY <1>1 DEF CellOK, EarlyIsOpen, Issues, Kind
<1>5. AdmittedIsDurable(d)'
  BY <1>1 DEF CellOK, AdmittedIsDurable, Issues, HasRecord
<1>6. IdleIsEmpty(d)' /\ ClearedIsEmpty(d)'
  BY <1>1, <1>2 DEF CellOK, IdleIsEmpty, ClearedIsEmpty
<1>7. ReadingIsEmpty(d)'
  BY DEF CellOK, ReadingIsEmpty, KnownEmpty, createStarted
<1>. QED
  BY <1>3, <1>4, <1>5, <1>6, <1>7 DEF CellOK

\* A step of the cell c that creates nothing, once c itself is known to be fine.
QuietCellStep(c, new) ==
  /\ Executing /\ UNCHANGED <<run, proc>>
  /\ QuietVendor
  /\ Issues(new)
  /\ \A d \in Cell \ {c} :
       /\ pc'[d] = pc[d] /\ cr'[d] = cr[d]
       /\ d \in rejected' <=> d \in rejected
       /\ d \in confirmed' <=> d \in confirmed

LEMMA OneCell ==
  ASSUME OwnershipInv, TypeOK', NEW c \in Cell,
         NEW new, QuietCellStep(c, new),
         \A r \in new : /\ r.attempt = Me(c)
                        /\ r.kind \in ReleaseKind => Empty(Me(c)),
         CellOK(c)'
  PROVE  OwnershipInv'
<1>1. Executing /\ run' = run /\ proc' = proc /\ QuietVendor /\ Issues(new)
  BY DEF QuietCellStep
<1>2. run \in Run /\ \A d \in Cell : Me(d) \in Attempt
  BY <1>1, ActingCell DEF OwnershipInv
<1>3. \A a \in Attempt, k \in Kind : Rec(a, k) \in new => a = Me(c) /\ (k \in ReleaseKind => Empty(a))
  BY DEF Rec
<1>4. Permitted(new)
  <2>1. ~(Me(c)[1] > run)
    BY <1>2 DEF Me, Run
  <2>. QED
    BY <1>3, <2>1 DEF Permitted
<1>5. FutureIsBlank' /\ ReleasedIsEmpty' /\ HeldHasIntent'
  BY <1>1, <1>4, QuietStep DEF OwnershipInv
<1>6. ASSUME NEW d \in Cell, d # c
      PROVE  CellOK(d)'
  <2>1. Me(d) # Me(c)
    BY <1>6 DEF Me
  <2>2. CellOK(d)
    BY <1>1 DEF OwnershipInv, Executing
  <2>3. \A k \in Kind : Rec(Me(d), k) \notin new
    BY <1>2, <1>3, <2>1
  <2>4. /\ pc'[d] = pc[d] /\ cr'[d] = cr[d]
        /\ d \in rejected' <=> d \in rejected
        /\ d \in confirmed' <=> d \in confirmed
    BY <1>6 DEF QuietCellStep
  <2>. QED
    BY <1>1, <1>2, <2>2, <2>3, <2>4, OtherCell
<1>. QED
  BY <1>5, <1>6 DEF OwnershipInv

LEMMA ActingCellOK ==
  ASSUME OwnershipInv, Executing, NEW c \in Cell
  PROVE  CellOK(c) /\ Me(c) \in Attempt /\ run \in Run /\ TypeOK
BY ActingCell DEF OwnershipInv, Executing

\* The one step that makes the vendor hold something: the intent is durable and
\* nothing was or is being released.
LEMMA IssueOwnership ==
  ASSUME OwnershipInv, NEW c \in Cell, IssueCreate(c), TypeOK'
  PROVE  OwnershipInv'
<1>1. Executing /\ run' = run /\ proc' = proc /\ Recorded' = Recorded /\ journal' = journal
  BY DEF IssueCreate, Recorded, workerVars
<1>2. CellOK(c) /\ Me(c) \in Attempt /\ run \in Run /\ TypeOK
  BY <1>1, ActingCellOK
<1>3. pc \in [Cell -> CellPhase] /\ cr \in [Cell -> CreatePhase]
      /\ vendor \in [Attempt -> {"none", "creating", "live", "gone"}]
  BY <1>2 DEF TypeOK
<1>4. /\ HasRecord(Me(c), "intent")
      /\ \A k \in ReleaseKind : Rec(Me(c), k) \notin Recorded
  BY <1>2 DEF IssueCreate, CellOK, AdmittedIsDurable, EarlyIsOpen, BeforeCreate
<1>5. \A a \in Attempt : a # Me(c) => vendor'[a] = vendor[a]
  BY <1>2, <1>3 DEF IssueCreate
<1>6. FutureIsBlank'
  <2>1. ~(Me(c)[1] > run)
    BY <1>2 DEF Me, Run
  <2>. QED
    BY <1>1, <1>5, <2>1 DEF OwnershipInv, FutureIsBlank, Empty
<1>7. ReleasedIsEmpty'
  BY <1>1, <1>4, <1>5 DEF OwnershipInv, ReleasedIsEmpty, Empty
<1>8. HeldHasIntent'
  BY <1>1, <1>4, <1>5 DEF OwnershipInv, HeldHasIntent, Empty, HasRecord
<1>9. ASSUME NEW d \in Cell, d # c
      PROVE  CellOK(d)'
  <2>1. CellOK(d) /\ Me(d) \in Attempt /\ Me(d)' = Me(d) /\ Me(d) # Me(c)
    BY <1>1, <1>9, ActingCellOK DEF Me
  <2>2. pc'[d] = pc[d] /\ cr'[d] = cr[d] /\ rejected' = rejected /\ confirmed' = confirmed
    BY <1>3, <1>9 DEF IssueCreate, Goto, Step
  <2>3. vendor'[Me(d)] = vendor[Me(d)]
    BY <1>5, <2>1
  <2>. QED
    BY <1>1, <2>1, <2>2, <2>3
       DEF CellOK, QueuedIsBlank, EarlyIsOpen, AdmittedIsDurable, IdleIsEmpty, ClearedIsEmpty,
           ReadingIsEmpty, KnownEmpty, createStarted, HasRecord, Empty
<1>10. CellOK(c)'
  <2>1. pc'[c] = "creating" /\ cr'[c] = "requested" /\ rejected' = rejected /\ confirmed' = confirmed
    BY <1>3 DEF IssueCreate, Goto, Step
  <2>2. c \notin rejected \cup confirmed
    BY <1>2 DEF IssueCreate, CellOK, EarlyIsOpen, BeforeCreate
  <2>. QED
    BY <1>1, <2>1, <2>2
       DEF CellOK, QueuedIsBlank, EarlyIsOpen, AdmittedIsDurable, IdleIsEmpty, ClearedIsEmpty,
           ReadingIsEmpty, BeforeCreate, Executing, Admission
<1>. QED
  BY <1>6, <1>7, <1>8, <1>9, <1>10 DEF OwnershipInv

LEMMA RunCellOwnership ==
  ASSUME OwnershipInv, NEW c \in Cell, RunCell(c), TypeOK'
  PROVE  OwnershipInv'
<1>1. Executing
  BY DEF RunCell, IntentSettles, IntentTimesOut, IssueCreate, RefuseCreate, HarnessGetsSession,
         HarnessGetsError, HarnessTimesOut, SuiteEnds, ConfirmCleanup, Settle, ReadForRelease,
         AbsentSettles, NotAllocatedSettles, Upload
<1>2. CellOK(c) /\ Me(c) \in Attempt /\ run \in Run /\ TypeOK
  BY <1>1, ActingCellOK
<1>3. pc \in [Cell -> CellPhase] /\ cr \in [Cell -> CreatePhase]
      /\ vendor \in [Attempt -> {"none", "creating", "live", "gone"}]
  BY <1>2 DEF TypeOK
<1>a. ASSUME QuietCellStep(c, {}), CellOK(c)'
      PROVE  OwnershipInv'
  BY <1>a, OneCell
<1>b. ASSUME NEW k \in Kind, QuietCellStep(c, {Rec(Me(c), k)}),
             k \in ReleaseKind => Empty(Me(c)), CellOK(c)'
      PROVE  OwnershipInv'
  BY <1>b, OneCell DEF Rec
<1>. USE DEF Executing, Admission, QuietCellStep, QuietVendor, Empty, Issues, Recorded,
         CellOK, QueuedIsBlank, EarlyIsOpen, AdmittedIsDurable, IdleIsEmpty, ClearedIsEmpty,
         ReadingIsEmpty, BeforeCreate, HasRecord, KnownEmpty, createStarted, Me,
         Goto, Step, durableVars, workerVars
<1>4. CASE IntentSettles(c)
  <2>1. QuietCellStep(c, {})
    BY <1>3, <1>4 DEF IntentSettles, Lands, MayLand
  <2>2. CellOK(c)'
    BY <1>2, <1>3, <1>4 DEF IntentSettles, Lands, MayLand
  <2>. QED
    BY <2>1, <2>2, <1>a
<1>5. CASE IntentTimesOut(c)
  <2>1. QuietCellStep(c, {})
    BY <1>3, <1>5 DEF IntentTimesOut
  <2>2. CellOK(c)'
    BY <1>2, <1>3, <1>5 DEF IntentTimesOut
  <2>. QED
    BY <2>1, <2>2, <1>a
<1>6. CASE IssueCreate(c)
  BY <1>2, <1>3, <1>6, IssueOwnership
<1>7. CASE RefuseCreate(c)
  <2>1. QuietCellStep(c, {})
    BY <1>3, <1>7 DEF RefuseCreate
  <2>2. CellOK(c)'
    BY <1>2, <1>3, <1>7 DEF RefuseCreate
  <2>. QED
    BY <2>1, <2>2, <1>a
<1>8. CASE HarnessGetsSession(c)
  <2>1. QuietCellStep(c, {})
    BY <1>3, <1>8 DEF HarnessGetsSession
  <2>2. CellOK(c)'
    BY <1>2, <1>3, <1>8 DEF HarnessGetsSession
  <2>. QED
    BY <2>1, <2>2, <1>a
<1>9. CASE HarnessGetsError(c)
  <2>1. QuietCellStep(c, {})
    BY <1>3, <1>9 DEF HarnessGetsError
  <2>2. CellOK(c)'
    BY <1>2, <1>3, <1>9 DEF HarnessGetsError
  <2>. QED
    BY <2>1, <2>2, <1>a
<1>10. CASE HarnessTimesOut(c)
  <2>1. QuietCellStep(c, {})
    BY <1>3, <1>10 DEF HarnessTimesOut
  <2>2. CellOK(c)'
    BY <1>2, <1>3, <1>10 DEF HarnessTimesOut
  <2>. QED
    BY <2>1, <2>2, <1>a
<1>11. CASE SuiteEnds(c)
  <2>1. QuietCellStep(c, {})
    BY <1>3, <1>11 DEF SuiteEnds, MayRemove
  <2>2. CellOK(c)'
    BY <1>2, <1>3, <1>11 DEF SuiteEnds, MayRemove
  <2>. QED
    BY <2>1, <2>2, <1>a
<1>12. CASE ConfirmCleanup(c)
  <2>1. QuietCellStep(c, {})
    BY <1>3, <1>12 DEF ConfirmCleanup, ObservedAbsent
  <2>2. CellOK(c)'
    BY <1>2, <1>3, <1>12 DEF ConfirmCleanup, ObservedAbsent
  <2>. QED
    BY <2>1, <2>2, <1>a
<1>13. CASE Settle(c)
  <2>1. CASE c \in confirmed /\ allocationRecorded(c)
    <3>1. QuietCellStep(c, {Rec(Me(c), "absent")})
      BY <1>3, <1>13, <2>1 DEF Settle
    <3>2. CellOK(c)'
      BY <1>2, <1>3, <1>13, <2>1 DEF Settle
    <3>3. Empty(Me(c))
      BY <1>2, <2>1
    <3>. QED
      BY <3>1, <3>2, <3>3, <1>b DEF Kind, ReleaseKind
  <2>2. CASE c \notin confirmed
    <3>1. QuietCellStep(c, {})
      BY <1>3, <1>13, <2>2 DEF Settle, Seal
    <3>2. CellOK(c)'
      BY <1>2, <1>3, <1>13, <2>2 DEF Settle, Seal
    <3>. QED
      BY <3>1, <3>2, <1>a
  <2>. QED
    BY <1>13, <2>1, <2>2 DEF Settle
<1>14. CASE ReadForRelease(c)
  <2>1. QuietCellStep(c, {Rec(Me(c), "not-allocated")})
    BY <1>3, <1>14 DEF ReadForRelease, Seal
  <2>2. CellOK(c)'
    BY <1>2, <1>3, <1>14 DEF ReadForRelease, Seal
  <2>3. Empty(Me(c))
    BY <1>2, <1>14 DEF ReadForRelease
  <2>. QED
    BY <2>1, <2>2, <2>3, <1>b DEF Kind, ReleaseKind
<1>15. CASE AbsentSettles(c) \/ NotAllocatedSettles(c)
  <2>1. PICK k \in ReleaseKind, cleanup \in Cleanup : ReleaseSettles(c, k, cleanup)
    BY <1>15 DEF AbsentSettles, NotAllocatedSettles, ReleaseKind, Cleanup
  <2>2. QuietCellStep(c, {})
    BY <1>1, <1>3, <2>1 DEF ReleaseSettles, Seal, Lands, MayLand
  <2>3. pc'[c] \in {"uploading", "done"} /\ cr' = cr /\ vendor' = vendor /\ run' = run /\ proc' = proc
        /\ rejected' = rejected /\ confirmed' = confirmed
    BY <1>3, <2>1 DEF ReleaseSettles, Seal
  <2>4. CellOK(c)'
    BY <1>1, <1>2, <2>3
  <2>. QED
    BY <2>2, <2>4, <1>a
<1>16. CASE Upload(c)
  <2>1. QuietCellStep(c, {})
    BY <1>3, <1>16 DEF Upload
  <2>2. CellOK(c)'
    BY <1>2, <1>3, <1>16 DEF Upload
  <2>. QED
    BY <2>1, <2>2, <1>a
<1>. QED
  BY <1>4, <1>5, <1>6, <1>7, <1>8, <1>9, <1>10, <1>11, <1>12, <1>13, <1>14, <1>15, <1>16
     DEF RunCell

LEMMA WrappedCreateOwnership ==
  ASSUME OwnershipInv, NEW c \in Cell, WrappedCreate(c), TypeOK'
  PROVE  OwnershipInv'
<1>1. Executing
  BY DEF WrappedCreate, CreateReturns, CreateRejects, CreateUncertain, AllocatedSettles,
         AllocatedTimesOut, UndoCreate, DiscardLate
<1>2. CellOK(c) /\ Me(c) \in Attempt /\ run \in Run /\ TypeOK
  BY <1>1, ActingCellOK
<1>3. pc \in [Cell -> CellPhase] /\ cr \in [Cell -> CreatePhase]
      /\ vendor \in [Attempt -> {"none", "creating", "live", "gone"}]
  BY <1>2 DEF TypeOK
<1>a. ASSUME QuietCellStep(c, {}), CellOK(c)'
      PROVE  OwnershipInv'
  BY <1>a, OneCell
<1>b. ASSUME NEW k \in Kind, QuietCellStep(c, {Rec(Me(c), k)}),
             k \in ReleaseKind => Empty(Me(c)), CellOK(c)'
      PROVE  OwnershipInv'
  BY <1>b, OneCell DEF Rec
<1>. USE DEF Executing, Admission, QuietCellStep, QuietVendor, Empty, Issues, Recorded,
         CellOK, QueuedIsBlank, EarlyIsOpen, AdmittedIsDurable, IdleIsEmpty, ClearedIsEmpty,
         ReadingIsEmpty, BeforeCreate, HasRecord, KnownEmpty, createStarted, Me,
         Goto, Step, durableVars, workerVars
<1>4. CASE CreateReturns(c)
  <2>1. QuietCellStep(c, {Rec(Me(c), "allocated")})
    BY <1>3, <1>4 DEF CreateReturns
  <2>2. CellOK(c)'
    BY <1>2, <1>3, <1>4 DEF CreateReturns
  <2>. QED
    BY <2>1, <2>2, <1>b DEF Kind, ReleaseKind
<1>5. CASE CreateRejects(c)
  <2>1. QuietCellStep(c, {})
    BY <1>3, <1>5 DEF CreateRejects
  <2>2. CellOK(c)'
    BY <1>2, <1>3, <1>5 DEF CreateRejects
  <2>. QED
    BY <2>1, <2>2, <1>a
<1>6. CASE CreateUncertain(c)
  <2>1. QuietCellStep(c, {})
    BY <1>3, <1>6 DEF CreateUncertain
  <2>2. CellOK(c)'
    BY <1>2, <1>3, <1>6 DEF CreateUncertain
  <2>. QED
    BY <2>1, <2>2, <1>a
<1>7. CASE AllocatedSettles(c)
  <2>1. QuietCellStep(c, {})
    BY <1>3, <1>7 DEF AllocatedSettles, Lands, MayLand
  <2>2. CellOK(c)'
    BY <1>2, <1>3, <1>7 DEF AllocatedSettles, Lands, MayLand
  <2>. QED
    BY <2>1, <2>2, <1>a
<1>8. CASE AllocatedTimesOut(c)
  <2>1. QuietCellStep(c, {})
    BY <1>3, <1>8 DEF AllocatedTimesOut
  <2>2. CellOK(c)'
    BY <1>2, <1>3, <1>8 DEF AllocatedTimesOut
  <2>. QED
    BY <2>1, <2>2, <1>a
<1>9. CASE UndoCreate(c)
  <2>1. QuietCellStep(c, {})
    BY <1>3, <1>9 DEF UndoCreate, MayRemove
  <2>2. CellOK(c)'
    BY <1>2, <1>3, <1>9 DEF UndoCreate, MayRemove
  <2>. QED
    BY <2>1, <2>2, <1>a
<1>10. CASE DiscardLate(c)
  <2>1. QuietCellStep(c, {})
    BY <1>3, <1>10 DEF DiscardLate, MayRemove
  <2>2. CellOK(c)'
    BY <1>2, <1>3, <1>10 DEF DiscardLate, MayRemove
  <2>. QED
    BY <2>1, <2>2, <1>a
<1>. QED
  BY <1>4, <1>5, <1>6, <1>7, <1>8, <1>9, <1>10 DEF WrappedCreate

\* Steps of admission, of the vendor and of abandoned appends: no cell moves.
LEMMA NoCell ==
  ASSUME OwnershipInv, TypeOK', NEW new,
         QuietVendor, Issues(new), Permitted(new), run' = run, UNCHANGED cellVars,
         proc' \in Admission => proc \in Admission,
         proc = "idle" => proc' = "idle",
         proc # "idle" => \A d \in Cell, k \in Kind : Rec(Me(d), k) \notin new
  PROVE  OwnershipInv'
<1>1. FutureIsBlank' /\ ReleasedIsEmpty' /\ HeldHasIntent'
  BY QuietStep DEF OwnershipInv
<1>2. ASSUME NEW d \in Cell, proc # "idle"
      PROVE  CellOK(d)'
  <2>1. CellOK(d) /\ Me(d) \in Attempt
    BY <1>2 DEF OwnershipInv, TypeOK, Me, Attempt
  <2>2. \A k \in Kind : Rec(Me(d), k) \notin new
    BY <1>2
  <2>. QED
    BY <2>1, <2>2, OtherCell DEF cellVars
<1>. QED
  BY <1>1, <1>2 DEF OwnershipInv

LEMMA NothingPermitted == Permitted({})
BY DEF Permitted

LEMMA StartOwnership ==
  ASSUME OwnershipInv, StartRun, TypeOK'
  PROVE  OwnershipInv'
<1>1. run \in Nat /\ run' = run + 1 /\ Recorded' = Recorded /\ journal' = journal /\ vendor' = vendor
  BY MaxRunsAssumption DEF OwnershipInv, TypeOK, StartRun, durableVars, Recorded
<1>2. FutureIsBlank'
  <2>1. \A a \in Attempt : a[1] > run + 1 => a[1] > run
    BY <1>1 DEF Attempt, Run
  <2>. QED
    BY <1>1, <2>1 DEF OwnershipInv, FutureIsBlank, Empty
<1>3. ReleasedIsEmpty' /\ HeldHasIntent'
  BY <1>1 DEF OwnershipInv, ReleasedIsEmpty, HeldHasIntent, Empty, HasRecord
<1>4. ASSUME NEW c \in Cell
      PROVE  CellOK(c)'
  <2>1. Me(c)' = <<run + 1, c>> /\ <<run + 1, c>> \in Attempt
    BY <1>1 DEF StartRun, Me, Attempt, Run, TypeOK, OwnershipInv
  <2>2. Empty(<<run + 1, c>>) /\ \A k \in Kind : Rec(<<run + 1, c>>, k) \notin Recorded
    BY <1>1, <2>1 DEF OwnershipInv, FutureIsBlank
  <2>3. pc'[c] = "queued" /\ cr'[c] = "idle" /\ rejected' = {} /\ confirmed' = {}
    BY DEF StartRun, FreshProcess
  <2>. QED
    BY <1>1, <2>1, <2>2, <2>3
       DEF CellOK, QueuedIsBlank, EarlyIsOpen, AdmittedIsDurable, IdleIsEmpty, ClearedIsEmpty,
           ReadingIsEmpty, Empty, Kind
<1>. QED
  BY <1>2, <1>3, <1>4 DEF OwnershipInv

LEMMA AdmitOwnership ==
  ASSUME OwnershipInv, Admit, TypeOK'
  PROVE  OwnershipInv'
<1>a. ASSUME QuietVendor, Issues({}), run' = run, UNCHANGED cellVars,
             proc' \in Admission => proc \in Admission, proc # "idle"
      PROVE  OwnershipInv'
  BY <1>a, NothingPermitted, NoCell
<1>1. CASE StartRun
  BY <1>1, StartOwnership
<1>2. CASE AdmissionFails
  BY <1>2, <1>a DEF AdmissionFails, QuietVendor, Issues, Recorded, Empty, Admission, durableVars
<1>3. CASE RecoveryEnds
  BY <1>3, <1>a DEF RecoveryEnds, QuietVendor, Issues, Recorded, Empty, Admission, durableVars
<1>4. CASE ReconcileDestroys
  BY <1>4, <1>a DEF ReconcileDestroys, QuietVendor, Issues, Recorded, Empty, Admission, durableVars
<1>5. CASE ReconcileEnds
  BY <1>5, <1>a DEF ReconcileEnds, QuietVendor, Issues, Recorded, Empty, Admission, durableVars
<1>6. ASSUME NEW a \in Attempt, RecoverDestroys(a)
      PROVE  OwnershipInv'
  <2>1. QuietVendor
    BY <1>6 DEF RecoverDestroys, QuietVendor, Empty, OwnershipInv, TypeOK
  <2>. QED
    BY <1>6, <1>a, <2>1 DEF RecoverDestroys, Issues, Recorded, Admission, workerVars
<1>7. ASSUME NEW a \in Attempt, RecoverConfirms(a)
      PROVE  OwnershipInv'
  <2>. DEFINE new == {Rec(a, "absent")}
  <2>1. proc = "recovering" /\ Empty(a) /\ Rec(a, "intent") \in Recorded
    BY <1>7 DEF RecoverConfirms, Recoverable, HasRecord, Recorded, Empty
  <2>2. ~(a[1] > run)
    BY <2>1 DEF OwnershipInv, FutureIsBlank, Kind
  <2>3. Permitted(new)
    BY <2>1, <2>2 DEF Permitted, Rec
  <2>4. \A d \in Cell : Me(d) # a
    BY <2>1 DEF OwnershipInv, CellOK, QueuedIsBlank, Admission, Kind
  <2>5. \A d \in Cell, k \in Kind : Rec(Me(d), k) \notin new
    BY <2>4 DEF Rec
  <2>6. Issues(new) /\ QuietVendor /\ run' = run /\ proc' = proc /\ UNCHANGED cellVars
    BY <1>7 DEF RecoverConfirms, Issues, Recorded, QuietVendor, Empty, durableVars, workerVars
  <2>. QED
    BY <2>1, <2>3, <2>5, <2>6, NoCell
<1>8. ASSUME NEW a \in Attempt, RecoverySettles(a)
      PROVE  OwnershipInv'
  BY <1>8, <1>a DEF RecoverySettles, Lands, MayLand, QuietVendor, Issues, Recorded, Empty, Admission
<1>. QED
  BY <1>1, <1>2, <1>3, <1>4, <1>5, <1>6, <1>7, <1>8 DEF Admit

LEMMA LaunchOwnership ==
  ASSUME OwnershipInv, NEW c \in Cell, Launch(c) \/ Deadline(c), TypeOK'
  PROVE  OwnershipInv'
<1>1. CellOK(c) /\ Me(c) \in Attempt /\ run \in Run /\ TypeOK /\ Executing
  BY ActingCellOK DEF Launch, Deadline
<1>2. pc \in [Cell -> CellPhase]
  BY <1>1 DEF TypeOK
<1>a. ASSUME NEW new \in {{}, {Rec(Me(c), "intent")}}, QuietCellStep(c, new), CellOK(c)'
      PROVE  OwnershipInv'
  BY <1>a, OneCell DEF Rec, Kind, ReleaseKind
<1>. USE DEF Executing, Admission, QuietCellStep, QuietVendor, Empty, Issues, Recorded,
         CellOK, QueuedIsBlank, EarlyIsOpen, AdmittedIsDurable, IdleIsEmpty, ClearedIsEmpty,
         ReadingIsEmpty, BeforeCreate, HasRecord, KnownEmpty, createStarted, Me,
         Goto, durableVars, workerVars
<1>3. CASE Launch(c)
  <2>1. QuietCellStep(c, {Rec(Me(c), "intent")})
    BY <1>2, <1>3 DEF Launch
  <2>2. CellOK(c)'
    BY <1>1, <1>2, <1>3 DEF Launch, Rec, ReleaseKind
  <2>. QED
    BY <2>1, <2>2, <1>a
<1>4. CASE Deadline(c)
  <2>1. QuietCellStep(c, {})
    BY <1>4 DEF Deadline
  <2>2. CellOK(c)'
    BY <1>1, <1>4 DEF Deadline
  <2>. QED
    BY <2>1, <2>2, <1>a
<1>. QED
  BY <1>3, <1>4

LEMMA OwnershipStep ==
  ASSUME OwnershipInv, [Next]_vars
  PROVE  OwnershipInv'
<1>1. TypeOK'
  BY TypeStep DEF OwnershipInv
<1>a. ASSUME QuietVendor, Issues({}), run' = run, UNCHANGED cellVars,
             proc' = proc \/ proc' = "idle"
      PROVE  OwnershipInv'
  BY <1>1, <1>a, NothingPermitted, NoCell DEF Admission
<1>2. CASE Admit
  BY <1>1, <1>2, AdmitOwnership
<1>3. ASSUME NEW c \in Cell, Launch(c) \/ Deadline(c)
      PROVE  OwnershipInv'
  BY <1>1, <1>3, LaunchOwnership
<1>4. ASSUME NEW c \in Cell, RunCell(c)
      PROVE  OwnershipInv'
  BY <1>1, <1>4, RunCellOwnership
<1>5. ASSUME NEW c \in Cell, WrappedCreate(c)
      PROVE  OwnershipInv'
  BY <1>1, <1>5, WrappedCreateOwnership
<1>6. ASSUME NEW r \in inflight, OrphanSettles(r)
      PROVE  OwnershipInv'
  BY <1>6, <1>a DEF OrphanSettles, MayLand, QuietVendor, Issues, Recorded, Empty, workerVars
<1>7. ASSUME NEW a \in Attempt, VendorMaterialises(a) \/ VendorReclaims(a)
      PROVE  OwnershipInv'
  <2>1. QuietVendor
    BY <1>7 DEF VendorMaterialises, VendorReclaims, QuietVendor, Empty, OwnershipInv, TypeOK
  <2>. QED
    BY <1>7, <1>a, <2>1 DEF VendorMaterialises, VendorReclaims, Issues, Recorded, workerVars
<1>8. CASE ProcessEnds
  <2>1. QuietVendor /\ Issues({}) /\ run' = run /\ proc' = "idle"
    BY <1>8 DEF ProcessEnds, QuietVendor, Issues, Recorded, Empty
  <2>2. FutureIsBlank' /\ ReleasedIsEmpty' /\ HeldHasIntent'
    BY <2>1, NothingPermitted, QuietStep DEF OwnershipInv
  <2>. QED
    BY <1>1, <2>1, <2>2 DEF OwnershipInv
<1>9. CASE UNCHANGED vars
  BY <1>9, <1>a DEF vars, durableVars, workerVars, QuietVendor, Issues, Recorded, Empty
<1>. QED
  BY <1>2, <1>3, <1>4, <1>5, <1>6, <1>7, <1>8, <1>9 DEF Next, BatchEnds, Crash

LEMMA InitOwnership == Init => OwnershipInv
<1>1. Init => TypeOK
  BY InitType
<1>. QED
  BY <1>1 DEF Init, OwnershipInv, FutureIsBlank, ReleasedIsEmpty, HeldHasIntent, Empty, Recorded

\* Whatever the vendor runs or may still start is covered by a durable, open
\* intent: the promise executeExperimentBatch states in its first comment, for
\* any number of cells, slots and successive workers.
THEOREM OwnershipDurable == Spec => []OwnershipIsDurable
<1>1. Init => OwnershipInv
  BY InitOwnership
<1>2. OwnershipInv /\ [Next]_vars => OwnershipInv'
  BY OwnershipStep
<1>3. OwnershipInv => OwnershipIsDurable
  <2>. SUFFICES ASSUME OwnershipInv, NEW a \in Held
                PROVE  HasRecord(a, "intent") /\ ~Released(a)
    BY DEF OwnershipIsDurable
  <2>1. a \in Attempt /\ ~Empty(a)
    BY DEF Held, Empty
  <2>. QED
    BY <2>1 DEF OwnershipInv, HeldHasIntent, ReleasedIsEmpty, Released, HasRecord, Recorded
<1>. QED
  BY <1>1, <1>2, <1>3, PTL DEF Spec

-----------------------------------------------------------------------------
(* Capacity: the inductive invariant, relative to OwnershipInv *)

\* Recovery still has every sandbox of the account ahead of it.
RecoveryKnows == proc = "recovering" => \A a \in Attempt : a \in todo \/ Empty(a)

SweptIsEmpty == proc = "sweeping" => \A a \in Attempt : Empty(a)

\* A worker that was admitted found nothing of its predecessors.
OnlyOwnHeld ==
  Executing /\ ~admissionFailure => \A a \in Attempt : a[1] # run => Empty(a)

\* A worker that was not admitted gets no cell as far as a create; a cell that
\* ended holds nothing, or refill has stopped.
CellCapacity(c) ==
  /\ admissionFailure => pc[c] \notin {"intent", "admitted"}
  /\ pc[c] = "releasing-absent" => c \in confirmed
  /\ pc[c] \in {"uploading", "done"} /\ ~refillFailure => Empty(Me(c))

CapacityInv ==
  /\ RecoveryKnows /\ SweptIsEmpty /\ OnlyOwnHeld
  /\ Executing => \A c \in Cell : CellCapacity(c)
  /\ Cardinality(Pending) <= MaxConcurrency
  /\ Cardinality(Held) <= MaxConcurrency

-----------------------------------------------------------------------------
(* Counting *)

LEMMA HeldIsFinite == IsFiniteSet(Held) /\ IsFiniteSet(Pending)
<1>1. IsFiniteSet(Attempt)
  <2>1. 1 \in Int /\ MaxRuns \in Int
    BY MaxRunsAssumption
  <2>2. IsFiniteSet(Run)
    BY <2>1, FS_Interval DEF Run
  <2>. QED
    BY <2>2, CellAssumption, FS_Product DEF Attempt
<1>2. Held \in SUBSET Attempt /\ Pending \in SUBSET Cell
  BY DEF Held, Pending
<1>. QED
  BY <1>1, <1>2, CellAssumption, FS_Subset

LEMMA Smaller ==
  ASSUME NEW S, NEW T, IsFiniteSet(S), T \subseteq S, Cardinality(S) <= MaxConcurrency
  PROVE  Cardinality(T) <= MaxConcurrency
<1>1. T \in SUBSET S
  OBVIOUS
<1>2. Cardinality(T) <= Cardinality(S) /\ IsFiniteSet(T)
  BY <1>1, FS_Subset
<1>3. Cardinality(T) \in Nat /\ Cardinality(S) \in Nat
  BY <1>2, FS_CardinalityType
<1>. QED
  BY <1>2, <1>3, MaxConcurrencyAssumption

\* Attempts of one run are as many as their cells.
LEMMA OneAttemptPerCell ==
  ASSUME NEW A, NEW C, NEW n, IsFiniteSet(C), A \subseteq {<<n, c>> : c \in C}
  PROVE  Cardinality(A) <= Cardinality(C)
<1>. DEFINE f == [a \in A |-> a[2]]
<1>1. f \in [A -> C]
  OBVIOUS
<1>2. \A a, b \in A : f[a] = f[b] => a = b
  OBVIOUS
<1>3. f \in Injection(A, C)
  BY <1>1, <1>2 DEF Injection, IsInjective
<1>. QED
  BY <1>3, FS_Injection

LEMMA QuietKeepsHeld ==
  ASSUME QuietVendor, TypeOK, TypeOK', Cardinality(Held) <= MaxConcurrency
  PROVE  Cardinality(Held)' <= MaxConcurrency
<1>1. Held' \subseteq Held
  BY DEF QuietVendor, TypeOK, Held, Empty
<1>. QED
  BY <1>1, HeldIsFinite, Smaller

\* Steps that create nothing, move no cell, and leave admission's verdict alone
\* or turn it down.
LEMMA NoCellCapacity ==
  ASSUME OwnershipInv, CapacityInv, TypeOK', QuietVendor, UNCHANGED cellVars,
         run' = run, refillFailure' = refillFailure,
         RecoveryKnows', SweptIsEmpty', OnlyOwnHeld',
         Executing' => Executing \/ proc \in Admission,
         Executing /\ Executing' => admissionFailure' = admissionFailure
  PROVE  CapacityInv'
<1>1. Cardinality(Held)' <= MaxConcurrency
  BY QuietKeepsHeld DEF OwnershipInv, CapacityInv
<1>2. Pending' = Pending
  BY DEF Pending, cellVars
<1>3. ASSUME Executing', NEW c \in Cell
      PROVE  CellCapacity(c)'
  <2>1. CASE Executing
    <3>1. Me(c) \in Attempt /\ Me(c)' = Me(c) /\ CellCapacity(c)
      BY <1>3, <2>1, ActingCellOK DEF CapacityInv, Me
    <3>. QED
      BY <1>3, <2>1, <3>1 DEF CellCapacity, QuietVendor, Empty, cellVars
  <2>2. CASE proc \in Admission
    <3>1. pc[c] = "queued"
      BY <2>2 DEF OwnershipInv, CellOK, Admission
    <3>. QED
      BY <3>1 DEF CellCapacity, cellVars
  <2>. QED
    BY <1>3, <2>1, <2>2
<1>. QED
  BY <1>1, <1>2, <1>3 DEF CapacityInv

\* A step of one cell that creates nothing.
CapacityStep(c) ==
  /\ Executing /\ UNCHANGED <<run, proc, admissionFailure>>
  /\ QuietVendor
  /\ refillFailure => refillFailure'
  /\ \A d \in Cell \ {c} : pc'[d] = pc[d] /\ (d \in confirmed <=> d \in confirmed')

LEMMA OneCellCapacity ==
  ASSUME OwnershipInv, CapacityInv, TypeOK', NEW c \in Cell, CapacityStep(c),
         CellCapacity(c)', Cardinality(Pending)' <= MaxConcurrency
  PROVE  CapacityInv'
<1>1. Cardinality(Held)' <= MaxConcurrency
  BY QuietKeepsHeld DEF OwnershipInv, CapacityInv, CapacityStep
<1>2. RecoveryKnows' /\ SweptIsEmpty' /\ OnlyOwnHeld'
  BY DEF CapacityInv, CapacityStep, RecoveryKnows, SweptIsEmpty, OnlyOwnHeld, Executing, QuietVendor
<1>3. ASSUME NEW d \in Cell, d # c
      PROVE  CellCapacity(d)'
  <2>1. Me(d) \in Attempt /\ Me(d)' = Me(d) /\ CellCapacity(d)
    BY ActingCellOK DEF CapacityInv, CapacityStep, Me
  <2>2. Empty(Me(d)) => Empty(Me(d))'
    BY <2>1 DEF CapacityStep, QuietVendor, Empty
  <2>3. pc'[d] = pc[d] /\ (d \in confirmed <=> d \in confirmed')
    BY <1>3 DEF CapacityStep
  <2>. QED
    BY <2>1, <2>2, <2>3 DEF CapacityStep, CellCapacity
<1>. QED
  BY <1>1, <1>2, <1>3 DEF CapacityInv

\* A pending cell stays so or ends: the slots in use do not grow.
LEMMA StillPending ==
  ASSUME CapacityInv, NEW c \in Cell, pc[c] \notin {"queued", "done"},
         \A d \in Cell \ {c} : pc'[d] = pc[d]
  PROVE  Cardinality(Pending)' <= MaxConcurrency
<1>1. Pending' \subseteq Pending
  BY DEF Pending
<1>. QED
  BY <1>1, HeldIsFinite, Smaller DEF CapacityInv

-----------------------------------------------------------------------------
(* The steps *)

\* The step that fills a slot: the cell is pending, and whatever else is held
\* belongs to pending cells of the same run.
LEMMA IssueCapacity ==
  ASSUME OwnershipInv, CapacityInv, NEW c \in Cell, IssueCreate(c), TypeOK'
  PROVE  CapacityInv'
<1>1. /\ Executing /\ ~refillFailure /\ ~admissionFailure
      /\ run' = run /\ proc' = proc /\ admissionFailure' = admissionFailure
      /\ refillFailure' = refillFailure /\ confirmed' = confirmed
  BY DEF IssueCreate, MayCreate, CapacityInv, CellCapacity, workerVars
<1>2. CellOK(c) /\ Me(c) \in Attempt /\ run \in Run /\ TypeOK
  BY <1>1, ActingCellOK
<1>3. /\ pc[c] = "admitted" /\ pc'[c] = "creating"
      /\ \A d \in Cell \ {c} : pc'[d] = pc[d]
      /\ \A a \in Attempt \ {Me(c)} : vendor'[a] = vendor[a]
  BY <1>2 DEF IssueCreate, Goto, TypeOK
<1>4. Pending' = Pending
  BY <1>3 DEF Pending
<1>5. ASSUME NEW d \in Cell
      PROVE  CellCapacity(d)'
  <2>1. CellCapacity(d) /\ Me(d) \in Attempt /\ Me(d)' = Me(d) /\ (d # c => Me(d) # Me(c))
    BY <1>1, ActingCellOK DEF CapacityInv, Me
  <2>. QED
    BY <1>1, <1>3, <2>1 DEF CellCapacity, Empty
<1>6. OnlyOwnHeld'
  BY <1>1, <1>3 DEF CapacityInv, OnlyOwnHeld, Executing, Me, Empty
<1>7. ASSUME NEW a \in Held'
      PROVE  a \in {<<run, d>> : d \in Pending}
  <2>1. a \in Attempt /\ ~Empty(a)'
    BY <1>7 DEF Held, Empty
  <2>2. a[1] = run
    BY <1>1, <1>6, <2>1 DEF OnlyOwnHeld, Executing
  <2>3. PICK d \in Cell : a = <<run, d>>
    BY <2>1, <2>2 DEF Attempt
  <2>4. pc[d] \notin {"queued", "done"}
    <3>1. CASE d = c
      BY <1>3, <3>1
    <3>2. CASE d # c
      <4>1. Me(d) = a /\ ~Empty(Me(d))
        BY <1>2, <1>3, <2>1, <2>3, <3>2 DEF Me, Empty
      <4>2. CellOK(d) /\ CellCapacity(d)
        BY <1>1, ActingCellOK DEF CapacityInv
      <4>. QED
        BY <1>1, <4>1, <4>2 DEF CellOK, EarlyIsOpen, BeforeCreate, IdleIsEmpty, CellCapacity
    <3>. QED
      BY <3>1, <3>2
  <2>. QED
    BY <2>3, <2>4 DEF Pending
<1>8. Cardinality(Held)' <= MaxConcurrency
  <2>1. Cardinality(Held') <= Cardinality(Pending)
    BY <1>7, HeldIsFinite, OneAttemptPerCell
  <2>2. IsFiniteSet(Held')
    <3>1. Held' \subseteq Held \cup {Me(c)}
      BY <1>3 DEF Held
    <3>2. IsFiniteSet(Held \cup {Me(c)})
      BY HeldIsFinite, FS_AddElement
    <3>. QED
      BY <3>1, <3>2, FS_Subset
  <2>3. Cardinality(Held') \in Nat /\ Cardinality(Pending) \in Nat
    BY <2>2, HeldIsFinite, FS_CardinalityType
  <2>. QED
    BY <2>1, <2>3, MaxConcurrencyAssumption DEF CapacityInv
<1>. QED
  BY <1>1, <1>4, <1>5, <1>6, <1>8
     DEF CapacityInv, RecoveryKnows, SweptIsEmpty, Executing

LEMMA RunCellCapacity ==
  ASSUME OwnershipInv, CapacityInv, NEW c \in Cell, RunCell(c), TypeOK'
  PROVE  CapacityInv'
<1>1. Executing
  BY DEF RunCell, IntentSettles, IntentTimesOut, IssueCreate, RefuseCreate, HarnessGetsSession,
         HarnessGetsError, HarnessTimesOut, SuiteEnds, ConfirmCleanup, Settle, ReadForRelease,
         AbsentSettles, NotAllocatedSettles, Upload
<1>2. CellOK(c) /\ CellCapacity(c) /\ Me(c) \in Attempt /\ run \in Run /\ TypeOK
  BY <1>1, ActingCellOK DEF CapacityInv
<1>3. /\ pc \in [Cell -> CellPhase] /\ refillFailure \in BOOLEAN
      /\ vendor \in [Attempt -> {"none", "creating", "live", "gone"}]
  BY <1>2 DEF TypeOK
<1>a. ASSUME CapacityStep(c), CellCapacity(c)', pc[c] \notin {"queued", "done"}
      PROVE  CapacityInv'
  BY <1>a, StillPending, OneCellCapacity DEF CapacityStep
<1>. USE DEF Executing, CapacityStep, CellCapacity, QuietVendor, Empty, Me, Goto, Step,
         durableVars, workerVars
<1>4. CASE IntentSettles(c)
  BY <1>2, <1>3, <1>4, <1>a DEF IntentSettles, AppendFailed
<1>5. CASE IntentTimesOut(c)
  BY <1>2, <1>3, <1>5, <1>a DEF IntentTimesOut, AppendFailed
<1>6. CASE IssueCreate(c)
  BY <1>2, <1>6, IssueCapacity
<1>7. CASE RefuseCreate(c)
  BY <1>2, <1>3, <1>7, <1>a DEF RefuseCreate
<1>8. CASE HarnessGetsSession(c)
  BY <1>2, <1>3, <1>8, <1>a DEF HarnessGetsSession
<1>9. CASE HarnessGetsError(c)
  BY <1>2, <1>3, <1>9, <1>a DEF HarnessGetsError
<1>10. CASE HarnessTimesOut(c)
  BY <1>2, <1>3, <1>10, <1>a DEF HarnessTimesOut
<1>11. CASE SuiteEnds(c)
  BY <1>2, <1>3, <1>11, <1>a DEF SuiteEnds, MayRemove
<1>12. CASE ConfirmCleanup(c)
  BY <1>2, <1>3, <1>12, <1>a DEF ConfirmCleanup
\* Sealing: refill stops, or the attempt is known to hold nothing.
<1>b. ASSUME NEW cleanup \in Cleanup, NEW fs, NEW js, Seal(c, cleanup, fs, js),
             cleanup # "unresolved" => Empty(Me(c)),
             UNCHANGED <<vendor, workerVars, confirmed>>,
             pc[c] \notin {"queued", "done"}
      PROVE  CapacityInv'
  <2>1. pc'[c] \in {"uploading", "done"} /\ (refillFailure' \/ cleanup # "unresolved")
    BY <1>3, <1>b DEF Seal, StopsRefill
  <2>2. CapacityStep(c)
    BY <1>1, <1>3, <1>b DEF Seal
  <2>3. CellCapacity(c)'
    BY <1>b, <2>1
  <2>. QED
    BY <1>a, <1>b, <2>2, <2>3
<1>c. KnownEmpty(c) => Empty(Me(c))
  BY <1>2 DEF CellOK, IdleIsEmpty, ClearedIsEmpty, KnownEmpty, createStarted
<1>13. CASE Settle(c)
  <2>1. CASE Seal(c, IF KnownEmpty(c) THEN "not-allocated" ELSE "unresolved", failed, journalFailed)
    BY <1>13, <2>1, <1>b, <1>c DEF Settle, Cleanup
  <2>2. CASE c \in confirmed /\ Goto(c, "releasing-absent") /\ UNCHANGED refillFailure
    BY <1>2, <1>3, <1>13, <2>2, <1>a DEF Settle
  <2>3. CASE Goto(c, "reading") /\ UNCHANGED refillFailure
    BY <1>2, <1>3, <1>13, <2>3, <1>a DEF Settle
  <2>. QED
    BY <1>13, <2>1, <2>2, <2>3 DEF Settle
<1>14. CASE ReadForRelease(c)
  <2>1. Empty(Me(c))
    BY <1>2, <1>14, <1>c DEF ReadForRelease, CellOK, ReadingIsEmpty
  <2>2. ASSUME NEW fs, NEW js, Seal(c, "not-allocated", fs, js)
        PROVE  CapacityInv'
    BY <1>14, <2>1, <2>2, <1>b DEF ReadForRelease, Cleanup
  <2>3. CASE Goto(c, "releasing-none") /\ UNCHANGED refillFailure
    BY <1>2, <1>3, <1>14, <2>3, <1>a DEF ReadForRelease
  <2>. QED
    BY <1>14, <2>2, <2>3 DEF ReadForRelease
<1>15. CASE AbsentSettles(c) \/ NotAllocatedSettles(c)
  <2>1. Empty(Me(c)) /\ pc[c] \notin {"queued", "done"}
    BY <1>2, <1>15, <1>c
       DEF AbsentSettles, NotAllocatedSettles, CellOK, ReadingIsEmpty, ClearedIsEmpty
  <2>2. PICK k \in ReleaseKind, cleanup \in Cleanup : ReleaseSettles(c, k, cleanup)
    BY <1>15 DEF AbsentSettles, NotAllocatedSettles, ReleaseKind, Cleanup
  <2>3. PICK fs \in {failed, failed \cup {c}}, js \in {journalFailed, journalFailed \cup {c}} :
          Seal(c, cleanup, fs, js)
    BY <2>2 DEF ReleaseSettles
  <2>. QED
    BY <2>1, <2>2, <2>3, <1>b DEF ReleaseSettles
<1>16. CASE Upload(c)
  BY <1>2, <1>3, <1>16, <1>a DEF Upload
<1>. QED
  BY <1>4, <1>5, <1>6, <1>7, <1>8, <1>9, <1>10, <1>11, <1>12, <1>13, <1>14, <1>15, <1>16
     DEF RunCell

LEMMA WrappedCreateCapacity ==
  ASSUME OwnershipInv, CapacityInv, NEW c \in Cell, WrappedCreate(c), TypeOK'
  PROVE  CapacityInv'
<1>1. Executing
  BY DEF WrappedCreate, CreateReturns, CreateRejects, CreateUncertain, AllocatedSettles,
         AllocatedTimesOut, UndoCreate, DiscardLate
<1>2. CellCapacity(c) /\ Me(c) \in Attempt /\ TypeOK
  BY <1>1, ActingCellOK DEF CapacityInv
<1>3. pc' = pc /\ confirmed' = confirmed /\ UNCHANGED workerVars
  BY DEF WrappedCreate, CreateReturns, CreateRejects, CreateUncertain, AllocatedSettles,
         AllocatedTimesOut, UndoCreate, DiscardLate, durableVars
<1>r. refillFailure => refillFailure'
  <2>1. refillFailure = TRUE \/ refillFailure = FALSE
    BY <1>2 DEF TypeOK
  <2>2. refillFailure' \in {refillFailure, TRUE}
    BY DEF WrappedCreate, CreateReturns, CreateRejects, CreateUncertain, AllocatedSettles,
           AllocatedTimesOut, UndoCreate, DiscardLate, AppendFailed
  <2>. QED
    BY <2>1, <2>2
<1>4. QuietVendor
  BY <1>2 DEF WrappedCreate, CreateReturns, CreateRejects, CreateUncertain, AllocatedSettles,
         AllocatedTimesOut, UndoCreate, DiscardLate, AppendFailed, MayRemove, QuietVendor, Empty,
         TypeOK, durableVars
<1>5. CapacityStep(c)
  BY <1>1, <1>3, <1>4, <1>r DEF CapacityStep, workerVars
<1>6. CellCapacity(c)'
  BY <1>2, <1>3, <1>4, <1>r DEF CellCapacity, QuietVendor, Empty, Me, workerVars
<1>7. Pending' = Pending
  BY <1>3 DEF Pending
<1>. QED
  BY <1>5, <1>6, <1>7, OneCellCapacity DEF CapacityInv

\* launch() takes a free slot; the startup signal changes no capacity.
LEMMA LaunchCapacity ==
  ASSUME OwnershipInv, CapacityInv, NEW c \in Cell, Launch(c) \/ Deadline(c), TypeOK'
  PROVE  CapacityInv'
<1>1. Executing /\ CellCapacity(c) /\ Me(c) \in Attempt /\ TypeOK
  BY ActingCellOK DEF Launch, Deadline, CapacityInv
<1>2. pc \in [Cell -> CellPhase]
  BY <1>1 DEF TypeOK
<1>3. CapacityStep(c) /\ CellCapacity(c)'
  <2>1. CASE Launch(c)
    BY <1>1, <1>2, <2>1
       DEF Launch, CapacityStep, CellCapacity, QuietVendor, Empty, Goto, durableVars, workerVars
  <2>2. CASE Deadline(c)
    BY <1>1, <2>2
       DEF Deadline, CapacityStep, CellCapacity, QuietVendor, Empty, Me, durableVars, workerVars
  <2>. QED
    BY <2>1, <2>2
<1>4. Cardinality(Pending)' <= MaxConcurrency
  <2>1. CASE Launch(c)
    <3>1. Pending' \subseteq Pending \cup {c}
      BY <1>2, <2>1 DEF Launch, Goto, Pending
    <3>2. /\ IsFiniteSet(Pending \cup {c})
          /\ Cardinality(Pending \cup {c}) \in {Cardinality(Pending), Cardinality(Pending) + 1}
      BY HeldIsFinite, FS_AddElement
    <3>3. Cardinality(Pending \cup {c}) <= MaxConcurrency
      <4>1. Cardinality(Pending) \in Nat /\ Cardinality(Pending) < MaxConcurrency
        BY <2>1, HeldIsFinite, FS_CardinalityType DEF Launch
      <4>. QED
        BY <3>2, <4>1, MaxConcurrencyAssumption
    <3>. QED
      BY <3>1, <3>2, <3>3, Smaller
  <2>2. CASE Deadline(c)
    BY <2>2 DEF Deadline, Pending, CapacityInv
  <2>. QED
    BY <2>1, <2>2
<1>. QED
  BY <1>3, <1>4, OneCellCapacity

\* A process begins or ends: no cell has been launched.
LEMMA FreshCapacity ==
  ASSUME OwnershipInv, CapacityInv, TypeOK', FreshProcess, vendor' = vendor, ~Executing',
         RecoveryKnows', SweptIsEmpty'
  PROVE  CapacityInv'
<1>1. Cardinality(Held)' <= MaxConcurrency
  BY DEF CapacityInv, Held
<1>2. Pending' = {}
  BY DEF FreshProcess, Pending
<1>3. Cardinality({}) = 0
  BY FS_EmptySet
<1>4. Cardinality(Pending)' <= MaxConcurrency
  BY <1>2, <1>3, MaxConcurrencyAssumption
<1>. QED
  BY <1>1, <1>4 DEF CapacityInv, OnlyOwnHeld

\* Recovery starts from every sandbox of the account and loses sight of one only
\* once it is gone.
LEMMA AdmitCapacity ==
  ASSUME OwnershipInv, CapacityInv, Admit, TypeOK'
  PROVE  CapacityInv'
<1>. USE DEF Admission, Executing, RecoveryKnows, SweptIsEmpty, OnlyOwnHeld, QuietVendor, Empty
<1>a. ASSUME QuietVendor, UNCHANGED <<cellVars, run, refillFailure>>,
             RecoveryKnows', SweptIsEmpty', OnlyOwnHeld', proc \in Admission
      PROVE  CapacityInv'
  BY <1>a, NoCellCapacity
<1>1. CASE StartRun
  <2>1. \A a \in Attempt : a \in Unreleased \/ Empty(a)
    BY DEF OwnershipInv, HeldHasIntent, ReleasedIsEmpty, Unreleased, Released, HasRecord,
           Recorded, Kind
  <2>2. vendor' = vendor /\ todo' = Unreleased /\ proc' = "recovering" /\ FreshProcess
    BY <1>1 DEF StartRun, durableVars
  <2>3. RecoveryKnows' /\ SweptIsEmpty'
    BY <2>1, <2>2
  <2>. QED
    BY <2>2, <2>3, FreshCapacity
<1>2. CASE AdmissionFails
  BY <1>2, <1>a DEF AdmissionFails, durableVars
<1>3. CASE RecoveryEnds
  BY <1>3, <1>a DEF RecoveryEnds, CapacityInv, durableVars
<1>4. CASE ReconcileDestroys
  BY <1>4, <1>a DEF ReconcileDestroys, CapacityInv, durableVars
<1>5. CASE ReconcileEnds
  BY <1>5, <1>a DEF ReconcileEnds, CapacityInv, durableVars
<1>6. ASSUME NEW a \in Attempt, RecoverDestroys(a)
      PROVE  CapacityInv'
  <2>1. QuietVendor
    BY <1>6 DEF RecoverDestroys, OwnershipInv, TypeOK
  <2>. QED
    BY <1>6, <1>a, <2>1 DEF RecoverDestroys, CapacityInv, workerVars
<1>7. ASSUME NEW a \in Attempt, RecoverConfirms(a)
      PROVE  CapacityInv'
  BY <1>7, <1>a DEF RecoverConfirms, CapacityInv, durableVars, workerVars
<1>8. ASSUME NEW a \in Attempt, RecoverySettles(a)
      PROVE  CapacityInv'
  <2>1. Empty(a)
    BY <1>8 DEF RecoverySettles, OwnershipInv, ReleasedIsEmpty, Recorded, ReleaseKind
  <2>. QED
    BY <1>8, <1>a, <2>1 DEF RecoverySettles, CapacityInv
<1>. QED
  BY <1>1, <1>2, <1>3, <1>4, <1>5, <1>6, <1>7, <1>8 DEF Admit

LEMMA CapacityStepPreserved ==
  ASSUME OwnershipInv, CapacityInv, [Next]_vars
  PROVE  CapacityInv'
<1>1. TypeOK'
  BY TypeStep DEF OwnershipInv
<1>. USE DEF Executing, RecoveryKnows, SweptIsEmpty, OnlyOwnHeld
<1>a. ASSUME QuietVendor, UNCHANGED <<workerVars, cellVars, refillFailure>>
      PROVE  CapacityInv'
  <2>1. RecoveryKnows' /\ SweptIsEmpty' /\ OnlyOwnHeld'
    BY <1>a DEF CapacityInv, QuietVendor, workerVars
  <2>. QED
    BY <1>1, <1>a, <2>1, NoCellCapacity DEF workerVars
<1>2. CASE Admit
  BY <1>1, <1>2, AdmitCapacity
<1>3. ASSUME NEW c \in Cell, Launch(c) \/ Deadline(c)
      PROVE  CapacityInv'
  BY <1>1, <1>3, LaunchCapacity
<1>4. ASSUME NEW c \in Cell, RunCell(c)
      PROVE  CapacityInv'
  BY <1>1, <1>4, RunCellCapacity
<1>5. ASSUME NEW c \in Cell, WrappedCreate(c)
      PROVE  CapacityInv'
  BY <1>1, <1>5, WrappedCreateCapacity
<1>6. ASSUME NEW r \in inflight, OrphanSettles(r)
      PROVE  CapacityInv'
  BY <1>6, <1>a DEF OrphanSettles, QuietVendor, Empty
<1>7. ASSUME NEW a \in Attempt, VendorMaterialises(a) \/ VendorReclaims(a)
      PROVE  CapacityInv'
  <2>1. QuietVendor
    BY <1>7 DEF VendorMaterialises, VendorReclaims, QuietVendor, Empty, OwnershipInv, TypeOK
  <2>. QED
    BY <1>7, <1>a, <2>1 DEF VendorMaterialises, VendorReclaims
<1>8. CASE ProcessEnds
  BY <1>1, <1>8, FreshCapacity DEF ProcessEnds
<1>9. CASE UNCHANGED vars
  BY <1>9, <1>a DEF vars, durableVars, QuietVendor, Empty
<1>. QED
  BY <1>2, <1>3, <1>4, <1>5, <1>6, <1>7, <1>8, <1>9 DEF Next, BatchEnds, Crash

LEMMA InitCapacity == Init => CapacityInv
<1>. SUFFICES ASSUME Init PROVE CapacityInv
  OBVIOUS
<1>1. Held = {} /\ Pending = {}
  BY DEF Init, Held, Pending
<1>2. Cardinality(Held) = 0 /\ Cardinality(Pending) = 0
  BY <1>1, FS_EmptySet
<1>. QED
  BY <1>2, MaxConcurrencyAssumption
     DEF Init, CapacityInv, RecoveryKnows, SweptIsEmpty, OnlyOwnHeld, Executing

\* The account never carries more sandboxes than the plan's concurrency, those
\* an abandoned create or an earlier worker may have left behind included: refill
\* stops, and admission waits, until each is known to be gone.
THEOREM CapacityNeverExceeded == Spec => []CapacityRespected
<1>1. Init => OwnershipInv /\ CapacityInv
  BY InitCapacity, InitOwnership
<1>2. OwnershipInv /\ CapacityInv /\ [Next]_vars => (OwnershipInv /\ CapacityInv)'
  BY OwnershipStep, CapacityStepPreserved
<1>3. CapacityInv => CapacityRespected
  BY DEF CapacityInv, CapacityRespected
<1>. QED
  BY <1>1, <1>2, <1>3, PTL DEF Spec
=============================================================================
