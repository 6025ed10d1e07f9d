----------------------- MODULE ExperimentBatchLedger -----------------------
(* What the journal and the sealed evidence of an attempt may say, and what *)
(* the whole account gets, for every number of cells, runs and slots: one   *)
(* create per planned cell, creates on a settled account only, the          *)
(* ownership ledger of ADR 0010, which ExperimentBatch implements, and what *)
(* a publication may rest on.                                               *)
EXTENDS ExperimentBatchProofs, ExperimentPublication

-----------------------------------------------------------------------------
(* The inductive invariant, relative to OwnershipInv *)

Issued(a, k) == Rec(a, k) \in Recorded

\* The records of an attempt come in their order, and its evidence says no more
\* than the vendor and the journal do.
AttemptOK(a) ==
  /\ vendor[a] # "none" => HasRecord(a, "intent")
  /\ \A k \in Kind \ {"intent"} : Issued(a, k) => HasRecord(a, "intent")
  /\ Issued(a, "absent") => HasRecord(a, "allocated")
  /\ Issued(a, "not-allocated") => ~Issued(a, "allocated")
  /\ evidence[a].cleanup = "confirmed" => vendor[a] = "gone"
  /\ evidence[a].cleanup = "not-allocated" => Empty(a) /\ ~Issued(a, "allocated")
  /\ evidence[a].outcome = "completed" => HasRecord(a, "absent")

\* The wrapped create's position says what it has asked for and recorded; a cell
\* taken for empty never had an allocation to record.
CellRecords(c) ==
  /\ cr[c] = "idle" <=> vendor[Me(c)] = "none"
  /\ cr[c] \in {"idle", "requested"} \/ c \in rejected => ~Issued(Me(c), "allocated")
  /\ c \in rejected => cr[c] = "failed"
  /\ allocationRecorded(c) => HasRecord(Me(c), "allocated")
  /\ c \in confirmed => vendor[Me(c)] = "gone"
  /\ pc[c] = "releasing-absent" => c \in confirmed
  /\ Issued(Me(c), "not-allocated") \/ evidence[Me(c)].cleanup = "not-allocated" => KnownEmpty(c)
  /\ evidence[Me(c)] # NoEvidence => pc[c] \in {"uploading", "done"}

FutureIsUntouched ==
  \A a \in Attempt : a[1] > run => vendor[a] = "none" /\ evidence[a] = NoEvidence

RecordsInv ==
  /\ FutureIsUntouched
  /\ \A a \in Attempt : AttemptOK(a)
  /\ proc # "idle" => \A c \in Cell : CellRecords(c)

-----------------------------------------------------------------------------
(* A step of one cell touches its own attempt only *)

CellStep(c) == Launch(c) \/ Deadline(c) \/ RunCell(c) \/ WrappedCreate(c)

SameAttempt(a) ==
  /\ vendor'[a] = vendor[a] /\ evidence'[a] = evidence[a]
  /\ \A k \in Kind : /\ Rec(a, k) \in journal' <=> Rec(a, k) \in journal
                     /\ Rec(a, k) \in inflight' <=> Rec(a, k) \in inflight

SameCell(d) ==
  /\ pc'[d] = pc[d] /\ cr'[d] = cr[d]
  /\ d \in rejected' <=> d \in rejected
  /\ d \in confirmed' <=> d \in confirmed

CellFrame(c) ==
  /\ Executing /\ UNCHANGED workerVars
  /\ \A a \in Attempt : a # Me(c) => SameAttempt(a)
  /\ \A d \in Cell : d # c => SameCell(d)

\* What Lands, MayLand and an issued append leave alone.
LEMMA OtherRecords ==
  ASSUME NEW a, NEW b, a # b, NEW j, NEW k \in Kind,
         \/ Lands(Rec(b, k)) \/ MayLand(Rec(b, k)) \/ UNCHANGED <<journal, inflight>>
         \/ journal' = journal /\ inflight' = inflight \cup {Rec(b, k)}
  PROVE  /\ Rec(a, j) \in journal' <=> Rec(a, j) \in journal
         /\ Rec(a, j) \in inflight' <=> Rec(a, j) \in inflight
<1>1. Rec(a, j) # Rec(b, k)
  BY DEF Rec
<1>. QED
  BY <1>1 DEF Lands, MayLand

LEMMA CellStepFrame ==
  ASSUME TypeOK, NEW c \in Cell, CellStep(c)
  PROVE  CellFrame(c)
<1>. USE DEF CellStep, Launch, Deadline, RunCell, IntentSettles, IntentTimesOut, IssueCreate,
         RefuseCreate, HarnessGetsSession, HarnessGetsError, HarnessTimesOut, SuiteEnds,
         ConfirmCleanup, Settle, ReadForRelease, AbsentSettles, NotAllocatedSettles, Upload,
         ReleaseSettles, WrappedCreate, CreateReturns, CreateRejects, CreateUncertain,
         AllocatedSettles, AllocatedTimesOut, UndoCreate, DiscardLate, durableVars
<1>1. Executing /\ UNCHANGED workerVars
  OBVIOUS
<1>2. \E k \in Kind :
        \/ Lands(Rec(Me(c), k)) \/ MayLand(Rec(Me(c), k)) \/ UNCHANGED <<journal, inflight>>
        \/ journal' = journal /\ inflight' = inflight \cup {Rec(Me(c), k)}
  BY DEF Kind, ReleaseKind
<1>3. \A a \in Attempt : a # Me(c) => vendor'[a] = vendor[a]
  BY DEF TypeOK, MayRemove
<1>4. \A a \in Attempt : a # Me(c) => evidence'[a] = evidence[a]
  BY DEF TypeOK, Seal
<1>5. \A d \in Cell : d # c => SameCell(d)
  BY DEF SameCell, TypeOK, Seal, Goto, Step
<1>. QED
  BY <1>1, <1>2, <1>3, <1>4, <1>5, OtherRecords DEF CellFrame, SameAttempt

-----------------------------------------------------------------------------
(* The steps *)

\* Facts of an attempt that survive any step that creates and seals nothing for
\* it: a sandbox may come up or go away, an append may land or be given up.
Calm(a) ==
  /\ evidence'[a] = evidence[a]
  /\ vendor[a] = "none" <=> vendor'[a] = "none"
  /\ vendor[a] = "gone" => vendor'[a] = "gone"
  /\ \A k \in Kind : /\ HasRecord(a, k) => HasRecord(a, k)'
                     /\ Issued(a, k)' => Issued(a, k)

LEMMA CalmKeeps ==
  ASSUME NEW a \in Attempt, AttemptOK(a), Calm(a)
  PROVE  AttemptOK(a)'
BY DEF AttemptOK, Calm, Empty, Kind, ReleaseKind

LEMMA SameIsCalm ==
  ASSUME NEW a \in Attempt, SameAttempt(a)
  PROVE  Calm(a)
BY DEF SameAttempt, Calm, HasRecord, Issued, Recorded

LEMMA CalmKeepsCell ==
  ASSUME NEW d \in Cell, Me(d) \in Attempt, Me(d)' = Me(d), Calm(Me(d)), SameCell(d),
         CellRecords(d)
  PROVE  CellRecords(d)'
BY DEF CellRecords, Calm, SameCell, allocationRecorded, KnownEmpty, createStarted, Kind, ReleaseKind

\* What a step of a cell must do for its own attempt.
LEMMA OneCellRecords ==
  ASSUME OwnershipInv, RecordsInv, NEW c \in Cell, CellStep(c),
         AttemptOK(Me(c))', CellRecords(c)'
  PROVE  RecordsInv'
<1>1. Executing /\ CellFrame(c) /\ run' = run /\ proc' = proc
  BY CellStepFrame DEF OwnershipInv, CellFrame, workerVars
<1>2. \A d \in Cell : Me(d) \in Attempt /\ Me(d)' = Me(d) /\ (d # c => Me(d) # Me(c))
  BY <1>1, ActingCellOK DEF Me
<1>3. run \in Run
  BY <1>1, ActingCellOK
<1>4. \A a \in Attempt : AttemptOK(a)'
  <2>. SUFFICES ASSUME NEW a \in Attempt, a # Me(c) PROVE AttemptOK(a)'
    BY <1>2
  <2>. QED
    BY <1>1, SameIsCalm, CalmKeeps DEF CellFrame, RecordsInv
<1>5. FutureIsUntouched'
  <2>1. ~(Me(c)[1] > run)
    BY <1>3 DEF Me, Run
  <2>. QED
    BY <1>1, <2>1 DEF RecordsInv, FutureIsUntouched, CellFrame, SameAttempt
<1>6. \A d \in Cell : CellRecords(d)'
  <2>. SUFFICES ASSUME NEW d \in Cell, d # c PROVE CellRecords(d)'
    OBVIOUS
  <2>1. Calm(Me(d)) /\ SameCell(d) /\ CellRecords(d)
    BY <1>1, <1>2, SameIsCalm DEF CellFrame, RecordsInv, Executing
  <2>. QED
    BY <1>2, <2>1, CalmKeepsCell
<1>. QED
  BY <1>4, <1>5, <1>6 DEF RecordsInv

\* What is known of an executing worker's own cell and attempt.
OwnFacts(c) ==
  /\ Executing /\ Me(c) \in Attempt /\ CellOK(c) /\ CellRecords(c) /\ AttemptOK(Me(c))
  /\ pc \in [Cell -> CellPhase] /\ cr \in [Cell -> CreatePhase]
  /\ vendor \in [Attempt -> {"none", "creating", "live", "gone"}]
  /\ evidence \in [Attempt -> Evidence \cup {NoEvidence}]
  /\ Me(c)' = Me(c)

LEMMA ActingFacts ==
  ASSUME OwnershipInv, RecordsInv, NEW c \in Cell, CellStep(c)
  PROVE  OwnFacts(c)
<1>1. Executing /\ run' = run
  BY CellStepFrame DEF OwnershipInv, CellFrame, workerVars
<1>2. CellOK(c) /\ Me(c) \in Attempt /\ TypeOK
  BY <1>1, ActingCellOK
<1>. QED
  BY <1>1, <1>2 DEF OwnFacts, RecordsInv, TypeOK, Me, Executing

\* Sealing: the evidence written is earned.
LEMMA SealRecords ==
  ASSUME NEW c \in Cell, OwnFacts(c), NEW cleanup \in Cleanup, NEW fs, NEW js,
         Seal(c, cleanup, fs, js), UNCHANGED <<vendor, cr, rejected, confirmed>>,
         \A k \in Kind : /\ HasRecord(Me(c), k) => HasRecord(Me(c), k)'
                         /\ Issued(Me(c), k)' => Issued(Me(c), k),
         cleanup = "confirmed" =>
           c \in confirmed /\ (c \in fs \/ HasRecord(Me(c), "absent")'),
         cleanup = "not-allocated" => KnownEmpty(c)
  PROVE  AttemptOK(Me(c))' /\ CellRecords(c)'
<1>. USE DEF HasRecord, Issued, Recorded, Empty
<1>1. pc'[c] \in {"uploading", "done"}
  BY DEF Seal, Goto, OwnFacts
<1>2. \/ evidence' = evidence
      \/ /\ evidence'[Me(c)].cleanup = cleanup
         /\ evidence'[Me(c)].outcome = "completed" =>
              cleanup = "confirmed" /\ HasRecord(Me(c), "absent")'
  BY DEF Seal, OwnFacts
<1>3. KnownEmpty(c) => Empty(Me(c)) /\ ~Issued(Me(c), "allocated")
  BY DEF OwnFacts, CellRecords, CellOK, IdleIsEmpty, ClearedIsEmpty, KnownEmpty, createStarted
<1>4. Kind = {"intent", "allocated", "absent", "not-allocated"}
  BY DEF Kind, ReleaseKind
<1>5. AttemptOK(Me(c))'
  <2>1. /\ evidence'[Me(c)].cleanup = "confirmed" => vendor[Me(c)] = "gone"
        /\ evidence'[Me(c)].cleanup = "not-allocated" => Empty(Me(c)) /\ ~Issued(Me(c), "allocated")'
        /\ evidence'[Me(c)].outcome = "completed" => HasRecord(Me(c), "absent")'
    BY <1>2, <1>3, <1>4 DEF OwnFacts, AttemptOK, CellRecords
  <2>. QED
    BY <1>4, <2>1 DEF OwnFacts, AttemptOK, Empty
<1>6. CellRecords(c)'
  <2>1. evidence'[Me(c)].cleanup = "not-allocated" => KnownEmpty(c)
    BY <1>2 DEF OwnFacts, CellRecords
  <2>. QED
    BY <1>1, <1>4, <2>1
       DEF OwnFacts, CellRecords, allocationRecorded, KnownEmpty, createStarted
<1>. QED
  BY <1>5, <1>6

LEMMA OwnRunCell ==
  ASSUME NEW c \in Cell, OwnFacts(c), RunCell(c)
  PROVE  AttemptOK(Me(c))' /\ CellRecords(c)'
<1>. USE DEF OwnFacts, CellOK, EarlyIsOpen, AdmittedIsDurable, IdleIsEmpty, ClearedIsEmpty,
         ReadingIsEmpty, BeforeCreate, CellRecords, AttemptOK, Empty, Issued, Recorded, HasRecord,
         allocationRecorded, KnownEmpty, createStarted, Goto, Step, durableVars,
         Kind, ReleaseKind, Rec, NoEvidence
<1>1. CASE IntentSettles(c)
  BY <1>1 DEF IntentSettles, Lands, MayLand
<1>2. CASE IntentTimesOut(c)
  BY <1>2 DEF IntentTimesOut
<1>3. CASE IssueCreate(c)
  BY <1>3 DEF IssueCreate
<1>4. CASE RefuseCreate(c)
  BY <1>4 DEF RefuseCreate
<1>5. CASE HarnessGetsSession(c)
  BY <1>5 DEF HarnessGetsSession
<1>6. CASE HarnessGetsError(c)
  BY <1>6 DEF HarnessGetsError
<1>7. CASE HarnessTimesOut(c)
  BY <1>7 DEF HarnessTimesOut
<1>8. CASE SuiteEnds(c)
  BY <1>8 DEF SuiteEnds, MayRemove
<1>9. CASE ConfirmCleanup(c)
  BY <1>9 DEF ConfirmCleanup, ObservedAbsent
<1>10. CASE Settle(c)
  <2>1. CASE /\ c \in confirmed /\ allocationRecorded(c)
             /\ inflight' = inflight \cup {Rec(Me(c), "absent")}
             /\ Goto(c, "releasing-absent") /\ UNCHANGED evidence
    BY <1>10, <2>1 DEF Settle
  <2>2. CASE Goto(c, "reading") /\ UNCHANGED <<evidence, inflight>>
    BY <1>10, <2>2 DEF Settle
  <2>3. ASSUME NEW cleanup \in Cleanup, Seal(c, cleanup, failed, journalFailed),
               cleanup # "confirmed", cleanup = "not-allocated" => KnownEmpty(c),
               UNCHANGED <<journal, inflight, vendor, cr, rejected, confirmed>>
        PROVE  AttemptOK(Me(c))' /\ CellRecords(c)'
    BY <2>3, SealRecords
  <2>. QED
    BY <1>10, <2>1, <2>2, <2>3 DEF Settle, Cleanup
<1>11. CASE ReadForRelease(c)
  <2>1. CASE Goto(c, "releasing-none") /\ UNCHANGED evidence
    BY <1>11, <2>1 DEF ReadForRelease
  <2>2. ASSUME NEW fs, NEW js, Seal(c, "not-allocated", fs, js), UNCHANGED inflight
        PROVE  AttemptOK(Me(c))' /\ CellRecords(c)'
    BY <1>11, <2>2, SealRecords DEF ReadForRelease, Cleanup
  <2>. QED
    BY <1>11, <2>1, <2>2 DEF ReadForRelease
<1>12. CASE AbsentSettles(c)
  BY <1>12, SealRecords DEF AbsentSettles, ReleaseSettles, Lands, MayLand, Cleanup
<1>13. CASE NotAllocatedSettles(c)
  BY <1>13, SealRecords DEF NotAllocatedSettles, ReleaseSettles, Lands, MayLand, Cleanup
<1>14. CASE Upload(c)
  BY <1>14 DEF Upload
<1>. QED
  BY <1>1, <1>2, <1>3, <1>4, <1>5, <1>6, <1>7, <1>8, <1>9, <1>10, <1>11, <1>12, <1>13, <1>14
     DEF RunCell

LEMMA OwnWrappedCreate ==
  ASSUME NEW c \in Cell, OwnFacts(c), WrappedCreate(c)
  PROVE  AttemptOK(Me(c))' /\ CellRecords(c)'
<1>. USE DEF OwnFacts, CellOK, EarlyIsOpen, AdmittedIsDurable, IdleIsEmpty, ClearedIsEmpty,
         ReadingIsEmpty, BeforeCreate, CellRecords, AttemptOK, Empty, Issued, Recorded, HasRecord,
         allocationRecorded, KnownEmpty, createStarted, Goto, Step, durableVars,
         Kind, ReleaseKind, Rec, NoEvidence
<1>1. CASE CreateReturns(c)
  BY <1>1 DEF CreateReturns
<1>2. CASE CreateRejects(c)
  BY <1>2 DEF CreateRejects
<1>3. CASE CreateUncertain(c)
  BY <1>3 DEF CreateUncertain
<1>4. CASE AllocatedSettles(c)
  BY <1>4 DEF AllocatedSettles, Lands, MayLand
<1>5. CASE AllocatedTimesOut(c)
  BY <1>5 DEF AllocatedTimesOut
<1>6. CASE UndoCreate(c)
  BY <1>6 DEF UndoCreate, MayRemove
<1>7. CASE DiscardLate(c)
  BY <1>7 DEF DiscardLate, MayRemove
<1>. QED
  BY <1>1, <1>2, <1>3, <1>4, <1>5, <1>6, <1>7 DEF WrappedCreate

LEMMA OwnLaunch ==
  ASSUME NEW c \in Cell, OwnFacts(c), Launch(c) \/ Deadline(c)
  PROVE  AttemptOK(Me(c))' /\ CellRecords(c)'
<1>. USE DEF OwnFacts, CellOK, EarlyIsOpen, BeforeCreate, CellRecords, AttemptOK, Empty, Issued,
         Recorded, HasRecord, allocationRecorded, KnownEmpty, createStarted, Goto, durableVars,
         Kind, ReleaseKind, Rec, NoEvidence
<1>1. CASE Launch(c)
  BY <1>1 DEF Launch
<1>2. CASE Deadline(c)
  BY <1>2 DEF Deadline
<1>. QED
  BY <1>1, <1>2

LEMMA CellStepRecords ==
  ASSUME OwnershipInv, RecordsInv, NEW c \in Cell, CellStep(c)
  PROVE  RecordsInv'
<1>1. OwnFacts(c)
  BY ActingFacts
<1>2. AttemptOK(Me(c))' /\ CellRecords(c)'
  BY <1>1, OwnRunCell, OwnWrappedCreate, OwnLaunch DEF CellStep
<1>. QED
  BY <1>2, OneCellRecords

\* Steps of admission, of the vendor and of abandoned appends: no cell moves,
\* and no attempt but one of an earlier run is issued a record.
LEMMA NoCellRecords ==
  ASSUME OwnershipInv, RecordsInv, run' = run, UNCHANGED cellVars, evidence' = evidence,
         \A a \in Attempt : vendor'[a] = vendor[a] \/ (vendor[a] # "none" /\ vendor'[a] = "gone")
                           \/ (vendor[a] = "creating" /\ vendor'[a] = "live"),
         \A a \in Attempt : AttemptOK(a) => AttemptOK(a)',
         proc' # "idle" => /\ proc # "idle"
                           /\ \A a \in Attempt : (\E d \in Cell : a = Me(d)) => Calm(a)
  PROVE  RecordsInv'
<1>1. FutureIsUntouched'
  BY DEF RecordsInv, FutureIsUntouched
<1>2. ASSUME NEW d \in Cell, proc' # "idle"
      PROVE  CellRecords(d)'
  <2>1. Me(d) \in Attempt /\ Me(d)' = Me(d) /\ CellRecords(d)
    BY <1>2 DEF RecordsInv, OwnershipInv, TypeOK, Me, Attempt
  <2>2. Calm(Me(d))
    BY <1>2, <2>1 DEF Calm, HasRecord, Issued, Recorded, Rec
  <2>3. SameCell(d)
    BY DEF SameCell, cellVars
  <2>. QED
    BY <2>1, <2>3, <2>2, CalmKeepsCell
<1>. QED
  BY <1>1, <1>2 DEF RecordsInv

LEMMA StartRecords ==
  ASSUME OwnershipInv, RecordsInv, StartRun
  PROVE  RecordsInv'
<1>1. run \in Nat /\ run' = run + 1 /\ UNCHANGED <<journal, inflight, vendor, evidence>>
  BY MaxRunsAssumption DEF OwnershipInv, TypeOK, StartRun, durableVars
<1>2. FutureIsUntouched'
  <2>1. \A a \in Attempt : a[1] > run + 1 => a[1] > run
    BY <1>1 DEF Attempt, Run
  <2>. QED
    BY <1>1, <2>1 DEF RecordsInv, FutureIsUntouched
<1>3. \A a \in Attempt : AttemptOK(a)'
  BY <1>1 DEF RecordsInv, AttemptOK, Empty, Issued, Recorded, HasRecord
<1>4. ASSUME NEW c \in Cell
      PROVE  CellRecords(c)'
  <2>1. Me(c)' = <<run + 1, c>> /\ <<run + 1, c>> \in Attempt
    BY <1>1, MaxRunsAssumption DEF StartRun, Me, Attempt, Run
  <2>2. /\ vendor[<<run + 1, c>>] = "none" /\ evidence[<<run + 1, c>>] = NoEvidence
        /\ \A k \in Kind : ~Issued(<<run + 1, c>>, k)
    BY <1>1, <2>1 DEF OwnershipInv, FutureIsBlank, RecordsInv, FutureIsUntouched, Issued
  <2>3. pc'[c] = "queued" /\ cr'[c] = "idle" /\ rejected' = {} /\ confirmed' = {}
    BY DEF StartRun, FreshProcess
  <2>4. /\ vendor'[Me(c)'] = "none" /\ evidence'[Me(c)'] = NoEvidence
        /\ ~Issued(Me(c), "allocated")' /\ ~Issued(Me(c), "not-allocated")'
    BY <1>1, <2>1, <2>2 DEF Issued, Recorded, Rec, Kind, ReleaseKind
  <2>. QED
    BY <2>3, <2>4 DEF CellRecords, allocationRecorded, NoEvidence
<1>. QED
  BY <1>2, <1>3, <1>4 DEF RecordsInv

LEMMA AdmitRecords ==
  ASSUME OwnershipInv, RecordsInv, Admit
  PROVE  RecordsInv'
<1>. USE DEF HasRecord, Issued, Recorded, Calm
<1>a. ASSUME UNCHANGED <<journal, inflight, vendor, evidence, run, cellVars>>, proc # "idle"
      PROVE  RecordsInv'
  <2>1. \A a \in Attempt : AttemptOK(a) => AttemptOK(a)'
    BY <1>a DEF AttemptOK, Empty
  <2>. QED
    BY <1>a, <2>1, NoCellRecords
<1>1. CASE StartRun
  BY <1>1, StartRecords
<1>2. CASE AdmissionFails
  BY <1>2, <1>a DEF AdmissionFails, Admission, durableVars
<1>3. CASE RecoveryEnds
  BY <1>3, <1>a DEF RecoveryEnds, durableVars
<1>4. CASE ReconcileDestroys
  BY <1>4, <1>a DEF ReconcileDestroys, durableVars
<1>5. CASE ReconcileEnds
  BY <1>5, <1>a DEF ReconcileEnds, durableVars
<1>6. ASSUME NEW m \in Attempt, RecoverDestroys(m)
      PROVE  RecordsInv'
  <2>1. /\ UNCHANGED <<journal, inflight, evidence, run, cellVars, proc>> /\ proc # "idle"
        /\ \A a \in Attempt : vendor'[a] = vendor[a] \/ (vendor[a] = "live" /\ vendor'[a] = "gone")
    BY <1>6 DEF RecoverDestroys, OwnershipInv, TypeOK, workerVars
  <2>2. \A a \in Attempt : Calm(a)
    BY <2>1
  <2>3. \A a \in Attempt : AttemptOK(a) => AttemptOK(a)'
    BY <2>2, CalmKeeps
  <2>4. \A d \in Cell : Me(d) \in Attempt
    BY <2>1 DEF OwnershipInv, TypeOK, Me, Attempt
  <2>. QED
    BY <2>1, <2>2, <2>3, <2>4, NoCellRecords
<1>7. ASSUME NEW m \in Attempt, RecoverConfirms(m)
      PROVE  RecordsInv'
  <2>1. /\ UNCHANGED <<journal, vendor, evidence, run, cellVars, proc>> /\ proc = "recovering"
        /\ inflight = {} /\ inflight' = {Rec(m, "absent")}
        /\ HasRecord(m, "intent") /\ HasRecord(m, "allocated")
    BY <1>7 DEF RecoverConfirms, Recoverable, durableVars, workerVars
  <2>2. \A d \in Cell : Me(d) # m /\ Me(d) \in Attempt
    BY <2>1 DEF OwnershipInv, TypeOK, CellOK, QueuedIsBlank, Admission, Kind, Me, Attempt
  <2>3. \A a \in Attempt : a # m => Calm(a)
    BY <2>1 DEF Rec
  <2>4. AttemptOK(m) => AttemptOK(m)'
    BY <2>1 DEF AttemptOK, Empty, Rec, Kind
  <2>5. \A a \in Attempt : AttemptOK(a) => AttemptOK(a)'
    BY <2>3, <2>4, CalmKeeps
  <2>. QED
    BY <2>1, <2>2, <2>3, <2>5, NoCellRecords
<1>8. ASSUME NEW m \in Attempt, RecoverySettles(m)
      PROVE  RecordsInv'
  <2>1. /\ UNCHANGED <<vendor, evidence, run, cellVars>> /\ proc # "idle"
        /\ \A a \in Attempt : Calm(a)
    BY <1>8 DEF RecoverySettles, Lands, MayLand
  <2>2. \A a \in Attempt : AttemptOK(a) => AttemptOK(a)'
    BY <2>1, CalmKeeps
  <2>3. \A d \in Cell : Me(d) \in Attempt
    BY <2>1 DEF OwnershipInv, TypeOK, Me, Attempt
  <2>. QED
    BY <2>1, <2>2, <2>3, NoCellRecords
<1>. QED
  BY <1>1, <1>2, <1>3, <1>4, <1>5, <1>6, <1>7, <1>8 DEF Admit

LEMMA RecordsStep ==
  ASSUME OwnershipInv, RecordsInv, [Next]_vars
  PROVE  RecordsInv'
<1>. USE DEF HasRecord, Issued, Recorded, Calm
<1>a. ASSUME evidence' = evidence, run' = run, UNCHANGED cellVars \/ proc' = "idle",
             proc' # "idle" => proc # "idle",
             \A a \in Attempt : Calm(a),
             \A a \in Attempt : vendor'[a] = vendor[a]
                               \/ (vendor[a] # "none" /\ vendor'[a] = "gone")
                               \/ (vendor[a] = "creating" /\ vendor'[a] = "live")
      PROVE  RecordsInv'
  <2>1. \A a \in Attempt : AttemptOK(a) => AttemptOK(a)'
    BY <1>a, CalmKeeps
  <2>2. proc # "idle" => \A d \in Cell : Me(d) \in Attempt
    BY DEF OwnershipInv, TypeOK, Me, Attempt
  <2>3. CASE proc' = "idle"
    BY <1>a, <2>1, <2>3 DEF RecordsInv, FutureIsUntouched
  <2>4. CASE proc' # "idle"
    BY <1>a, <2>1, <2>2, <2>4, NoCellRecords
  <2>. QED
    BY <2>3, <2>4
<1>1. CASE Admit
  BY <1>1, AdmitRecords
<1>2. ASSUME NEW c \in Cell, Launch(c) \/ Deadline(c) \/ RunCell(c) \/ WrappedCreate(c)
      PROVE  RecordsInv'
  BY <1>2, CellStepRecords DEF CellStep
<1>3. ASSUME NEW r \in inflight, OrphanSettles(r)
      PROVE  RecordsInv'
  BY <1>3, <1>a DEF OrphanSettles, MayLand, workerVars
<1>4. ASSUME NEW a \in Attempt, VendorMaterialises(a) \/ VendorReclaims(a)
      PROVE  RecordsInv'
  BY <1>4, <1>a DEF VendorMaterialises, VendorReclaims, OwnershipInv, TypeOK, workerVars
<1>5. CASE ProcessEnds
  BY <1>5, <1>a DEF ProcessEnds
<1>6. CASE UNCHANGED vars
  BY <1>6, <1>a DEF vars, durableVars, workerVars
<1>. QED
  BY <1>1, <1>2, <1>3, <1>4, <1>5, <1>6 DEF Next, BatchEnds, Crash

LEMMA InitRecords == Init => RecordsInv
BY DEF Init, RecordsInv, FutureIsUntouched, AttemptOK, Issued, Recorded, NoEvidence

LEMMA RecordsInvariant == Spec => [](OwnershipInv /\ RecordsInv)
<1>1. Init => OwnershipInv /\ RecordsInv
  BY InitOwnership, InitRecords
<1>2. OwnershipInv /\ RecordsInv /\ [Next]_vars => (OwnershipInv /\ RecordsInv)'
  BY OwnershipStep, RecordsStep
<1>. QED
  BY <1>1, <1>2, PTL DEF Spec

-----------------------------------------------------------------------------
(* The theorems *)

\* recoverAccount never meets a journal it would refuse as contradictory: an
\* allocation without an intent, an absence without an allocation, or a
\* "not-allocated" next to either, whatever crashes, times out or lands late.
THEOREM JournalConsistent == Spec => []JournalNeverContradicts
<1>1. RecordsInv => JournalNeverContradicts
  BY DEF RecordsInv, AttemptOK, JournalNeverContradicts, Issued, Recorded, HasRecord, Kind, ReleaseKind
<1>. QED
  BY <1>1, RecordsInvariant, PTL

\* The attempt.json that sealAttempt writes is never more optimistic than the
\* vendor or the journal, nor does it become so later.
THEOREM EvidenceTruthful == Spec => []EvidenceIsTruthful
<1>1. RecordsInv => EvidenceIsTruthful
  BY DEF RecordsInv, AttemptOK, EvidenceIsTruthful, Issued, Recorded, HasRecord, Held, Empty
<1>. QED
  BY <1>1, RecordsInvariant, PTL

-----------------------------------------------------------------------------
(* What a collector that lists the artifacts before it reads the journal    *)
(* relies on                                                                *)

\* Records, retained identities and sealed attempts, once written, stay.
WithdrawsNothing ==
  /\ journal \subseteq journal'
  /\ retained \subseteq retained'
  /\ \A a \in Attempt : evidence[a] # NoEvidence => evidence'[a] = evidence[a]

\* An attempt is sealed when its cell leaves the steps before the upload.
LEMMA SealsOnce ==
  ASSUME OwnershipInv, RecordsInv, NEW c \in Cell, CellStep(c), evidence[Me(c)] # NoEvidence
  PROVE  evidence'[Me(c)] = evidence[Me(c)]
<1>1. Executing /\ Me(c) \in Attempt /\ pc[c] \in {"uploading", "done"}
  BY CellStepFrame, ActingCellOK DEF OwnershipInv, CellFrame, RecordsInv, CellRecords, Executing
<1>2. evidence' = evidence
  BY <1>1 DEF CellStep, Launch, Deadline, RunCell, IntentSettles, IntentTimesOut, IssueCreate,
       RefuseCreate, HarnessGetsSession, HarnessGetsError, HarnessTimesOut, SuiteEnds,
       ConfirmCleanup, Settle, ReadForRelease, AbsentSettles, NotAllocatedSettles, Upload,
       WrappedCreate, CreateReturns, CreateRejects, CreateUncertain, AllocatedSettles,
       AllocatedTimesOut, UndoCreate, DiscardLate, durableVars
<1>. QED
  BY <1>2

LEMMA CellWithdrawsNothing ==
  ASSUME OwnershipInv, RecordsInv, NEW c \in Cell, CellStep(c)
  PROVE  WithdrawsNothing
<1>1. journal \subseteq journal' /\ retained \subseteq retained'
  BY DEF CellStep, Launch, Deadline, RunCell, IntentSettles, IntentTimesOut, IssueCreate,
       RefuseCreate, HarnessGetsSession, HarnessGetsError, HarnessTimesOut, SuiteEnds,
       ConfirmCleanup, Settle, ReadForRelease, AbsentSettles, NotAllocatedSettles, Upload,
       ReleaseSettles, WrappedCreate, CreateReturns, CreateRejects, CreateUncertain,
       AllocatedSettles, AllocatedTimesOut, UndoCreate, DiscardLate, durableVars, Lands, MayLand
<1>2. \A a \in Attempt : evidence[a] # NoEvidence => evidence'[a] = evidence[a]
  BY SealsOnce, CellStepFrame DEF OwnershipInv, CellFrame, SameAttempt
<1>. QED
  BY <1>1, <1>2 DEF WithdrawsNothing

\* A record of the journal, an allocation.json and a sealed attempt.json are
\* never withdrawn nor rewritten, whatever crashes, is retried or runs again: a
\* collection made earlier stays true of the account.
THEOREM NothingWithdrawn == Spec => [][WithdrawsNothing]_vars
<1>1. OwnershipInv /\ RecordsInv /\ [Next]_vars => [WithdrawsNothing]_vars
  <2>. SUFFICES ASSUME OwnershipInv, RecordsInv, Next PROVE WithdrawsNothing
    OBVIOUS
  <2>1. CASE Admit
    BY <2>1 DEF Admit, StartRun, AdmissionFails, RecoveryEnds, ReconcileDestroys, ReconcileEnds,
         RecoverDestroys, RecoverConfirms, RecoverySettles, Lands, MayLand, durableVars,
         WithdrawsNothing
  <2>2. ASSUME NEW c \in Cell, CellStep(c) PROVE WithdrawsNothing
    BY <2>2, CellWithdrawsNothing
  <2>3. ASSUME NEW r \in inflight, OrphanSettles(r) PROVE WithdrawsNothing
    BY <2>3 DEF OrphanSettles, MayLand, WithdrawsNothing
  <2>4. ASSUME NEW a \in Attempt, VendorMaterialises(a) \/ VendorReclaims(a)
        PROVE  WithdrawsNothing
    BY <2>4 DEF VendorMaterialises, VendorReclaims, WithdrawsNothing
  <2>5. CASE ProcessEnds
    BY <2>5 DEF ProcessEnds, WithdrawsNothing
  <2>. QED
    BY <2>1, <2>2, <2>3, <2>4, <2>5 DEF Next, CellStep, BatchEnds, Crash
<1>. QED
  BY <1>1, RecordsInvariant, PTL DEF Spec

\* A release is final: from the moment an attempt is released on the branch, no
\* sandbox of it runs or may still start, and it stays released.  Admission may
\* therefore leave released attempts alone (recoverAccount).
THEOREM ReleaseIsFinal ==
  ASSUME NEW CONSTANT a \in Attempt
  PROVE  Spec => [](Released(a) => [](Released(a) /\ a \notin Held))
<1>1. OwnershipIsDurable /\ Released(a) => a \notin Held
  BY DEF OwnershipIsDurable
<1>2. Released(a) /\ [WithdrawsNothing]_vars => Released(a)'
  BY DEF WithdrawsNothing, Released, HasRecord, vars, durableVars
<1>. QED
  BY <1>1, <1>2, OwnershipDurable, NothingWithdrawn, PTL

-----------------------------------------------------------------------------
(* The inductive invariant behind OneCreatePerPlannedCell *)

Admitted == Executing /\ ~admissionFailure

\* The snapshot taken at admission shows every earlier attempt the vendor saw.
HistoryKnows ==
  proc = "sweeping" \/ Admitted =>
    \A a \in Attempt : a[1] # run /\ vendor[a] # "none" => Rec(a, "intent") \in history

\* A cell on its way to a create is not in that snapshot.
NewCells == Executing => \A c \in Cell : pc[c] \in {"intent", "admitted"} => ~AlreadyAttempted(c)

HistoryInv == HistoryKnows /\ NewCells /\ OneCreatePerPlannedCell

-----------------------------------------------------------------------------
(* The inductive invariant behind CreatesOnlyOnSettledAccount, for a journal *)
(* whose reads do not lag                                                    *)

\* A worker hands the account on with no append of its own under way.
IdleIsQuiet == proc = "idle" => inflight = {}

RecoveryCovers ==
  proc = "recovering" => \A a \in Attempt : Issued(a, "intent") => a \in todo \/ Released(a)

PastIsReleased ==
  proc = "sweeping" \/ Admitted =>
    \A a \in Attempt : a[1] # run /\ Issued(a, "intent") => Released(a)

\* A worker that was not admitted announces nothing; a cell that ended released
\* its intent, or refill has stopped.
SettledCell(c) ==
  /\ admissionFailure => ~Issued(Me(c), "intent")
  /\ pc[c] \in {"uploading", "done"} /\ ~refillFailure /\ Issued(Me(c), "intent") =>
       Released(Me(c))

SettledInv ==
  /\ IdleIsQuiet /\ RecoveryCovers /\ PastIsReleased
  /\ Admitted => ~stray
  /\ Executing => \A c \in Cell : SettledCell(c)

-----------------------------------------------------------------------------
(* What the steps of a cell have in common *)

\* Only the create itself makes the vendor know an attempt.
LEMMA OnlyIssueStarts ==
  ASSUME OwnershipInv, RecordsInv, NEW c \in Cell, CellStep(c),
         vendor[Me(c)] = "none", vendor'[Me(c)] # "none"
  PROVE  IssueCreate(c)
<1>1. OwnFacts(c)
  BY ActingFacts
<1>2. cr[c] = "idle"
  BY <1>1 DEF OwnFacts, CellRecords
<1>. QED
  BY <1>1, <1>2
     DEF OwnFacts, CellRecords, CellStep, Launch, Deadline, RunCell, IntentSettles, IntentTimesOut,
         RefuseCreate, HarnessGetsSession, HarnessGetsError, HarnessTimesOut, SuiteEnds,
         ConfirmCleanup, Settle, ReadForRelease, AbsentSettles, NotAllocatedSettles, Upload,
         ReleaseSettles, WrappedCreate, CreateReturns, CreateRejects, CreateUncertain,
         AllocatedSettles, AllocatedTimesOut, UndoCreate, DiscardLate, durableVars, MayRemove

\* Only a launch puts a cell on its way to a create.
LEMMA OnlyLaunchStarts ==
  ASSUME TypeOK, NEW c \in Cell, CellStep(c), pc'[c] \in {"intent", "admitted"}
  PROVE  pc[c] \in {"intent", "admitted"} \/ ~AlreadyAttempted(c)
BY DEF TypeOK, CellStep, Launch, Deadline, RunCell, IntentSettles, IntentTimesOut, IssueCreate,
       RefuseCreate, HarnessGetsSession, HarnessGetsError, HarnessTimesOut, SuiteEnds,
       ConfirmCleanup, Settle, ReadForRelease, AbsentSettles, NotAllocatedSettles, Upload,
       ReleaseSettles, Seal, Goto, WrappedCreate, CreateReturns, CreateRejects, CreateUncertain,
       AllocatedSettles, AllocatedTimesOut, UndoCreate, DiscardLate, durableVars

-----------------------------------------------------------------------------
(* One create per planned cell *)

LEMMA HistoryCellStep ==
  ASSUME OwnershipInv, RecordsInv, CapacityInv, HistoryInv, NEW c \in Cell, CellStep(c)
  PROVE  HistoryInv'
<1>1. /\ CellFrame(c) /\ Executing /\ Executing'
      /\ UNCHANGED <<run, proc, history, admissionFailure>>
  BY CellStepFrame DEF OwnershipInv, CellFrame, workerVars, Executing
<1>2. Me(c) \in Attempt /\ TypeOK /\ CellCapacity(c)
  BY <1>1, ActingCellOK DEF CapacityInv
<1>3. \A d \in Cell : AlreadyAttempted(d)' <=> AlreadyAttempted(d)
  BY <1>1 DEF AlreadyAttempted
<1>4. NewCells'
  <2>. SUFFICES ASSUME NEW d \in Cell, pc'[d] \in {"intent", "admitted"}
                PROVE  ~AlreadyAttempted(d)
    BY <1>3 DEF NewCells
  <2>. QED
    BY <1>1, <1>2, OnlyLaunchStarts DEF HistoryInv, NewCells, CellFrame, SameCell
<1>5. HistoryKnows'
  <2>1. \A a \in Attempt : a[1] # run => vendor'[a] = vendor[a]
    BY <1>1 DEF CellFrame, SameAttempt, Me
  <2>. QED
    BY <1>1, <2>1 DEF HistoryInv, HistoryKnows, Admitted, Executing
\* No other attempt at the cell can have reached the vendor before.
<1>6. ASSUME vendor[Me(c)] = "none", vendor'[Me(c)] # "none",
             NEW b \in Attempt, PlanOf[b[1]] = PlanOf[run], b[2] = c, vendor[b] # "none"
      PROVE  FALSE
  <2>1. IssueCreate(c)
    BY <1>6, OnlyIssueStarts
  <2>2. pc[c] = "admitted" /\ ~AlreadyAttempted(c) /\ Admitted
    BY <1>1, <1>2, <2>1 DEF IssueCreate, HistoryInv, NewCells, CellCapacity, Admitted
  <2>3. b[1] # run
    BY <1>6 DEF Attempt, Me
  <2>4. Rec(b, "intent") \in history
    BY <1>6, <2>2, <2>3 DEF HistoryInv, HistoryKnows
  <2>. QED
    BY <1>6, <2>2, <2>4 DEF AlreadyAttempted, Rec
<1>7. OneCreatePerPlannedCell'
  <2>. SUFFICES ASSUME NEW a \in Attempt, NEW b \in Attempt,
                       PlanOf[a[1]] = PlanOf[b[1]], a[2] = b[2],
                       vendor'[a] # "none", vendor'[b] # "none", a # b
                PROVE  FALSE
    BY DEF OneCreatePerPlannedCell
  <2>1. \A e \in Attempt : e # Me(c) => vendor'[e] = vendor[e]
    BY <1>1 DEF CellFrame, SameAttempt
  <2>2. Me(c)[1] = run /\ Me(c)[2] = c
    BY DEF Me
  <2>3. vendor[a] = "none" \/ vendor[b] = "none"
    BY DEF HistoryInv, OneCreatePerPlannedCell
  <2>4. CASE a = Me(c)
    BY <1>6, <2>1, <2>2, <2>3, <2>4
  <2>5. CASE b = Me(c)
    BY <1>6, <2>1, <2>2, <2>3, <2>5
  <2>. QED
    BY <2>1, <2>3, <2>4, <2>5
<1>. QED
  BY <1>4, <1>5, <1>7 DEF HistoryInv

LEMMA HistoryStep ==
  ASSUME OwnershipInv, RecordsInv, CapacityInv, HistoryInv, [Next]_vars
  PROVE  HistoryInv'
<1>. USE DEF Admitted, Executing, Admission
<1>1. ASSUME NEW c \in Cell, Launch(c) \/ Deadline(c) \/ RunCell(c) \/ WrappedCreate(c)
      PROVE  HistoryInv'
  BY <1>1, HistoryCellStep DEF CellStep
\* A step that starts nothing at the vendor and moves no cell.
<1>a. ASSUME \A a \in Attempt : vendor'[a] # "none" => vendor[a] # "none", HistoryKnows', NewCells'
      PROVE  HistoryInv'
  BY <1>a DEF HistoryInv, OneCreatePerPlannedCell
<1>b. ASSUME \A a \in Attempt : vendor'[a] # "none" => vendor[a] # "none",
             UNCHANGED <<workerVars, pc>>
      PROVE  HistoryInv'
  <2>1. NewCells'
    BY <1>b DEF HistoryInv, NewCells, AlreadyAttempted, workerVars
  <2>2. HistoryKnows'
    BY <1>b DEF HistoryInv, HistoryKnows, workerVars
  <2>. QED
    BY <1>a, <1>b, <2>1, <2>2
<1>2. CASE StartRun
  BY <1>2, <1>a DEF StartRun, HistoryKnows, NewCells, durableVars
\* Admission leaves every cell queued.
<1>c. proc \in Admission /\ pc' = pc => NewCells'
  BY DEF NewCells, OwnershipInv, CellOK
<1>3. CASE AdmissionFails
  BY <1>3, <1>a, <1>c DEF AdmissionFails, HistoryKnows, durableVars, cellVars
<1>4. CASE RecoveryEnds
  BY <1>4, <1>a, <1>c DEF RecoveryEnds, HistoryKnows, durableVars, cellVars, RecordsInv, AttemptOK,
                           HasRecord
<1>5. CASE ReconcileDestroys
  BY <1>5, <1>a, <1>c DEF ReconcileDestroys, HistoryInv, HistoryKnows, durableVars, cellVars
<1>6. CASE ReconcileEnds
  BY <1>6, <1>a, <1>c DEF ReconcileEnds, HistoryInv, HistoryKnows, durableVars, cellVars
<1>7. ASSUME NEW a \in Attempt, RecoverDestroys(a)
      PROVE  HistoryInv'
  BY <1>7, <1>b DEF RecoverDestroys, OwnershipInv, TypeOK, cellVars
<1>8. ASSUME NEW a \in Attempt, RecoverConfirms(a)
      PROVE  HistoryInv'
  BY <1>8, <1>b DEF RecoverConfirms, durableVars, cellVars
<1>9. ASSUME NEW a \in Attempt, RecoverySettles(a), proc = "recovering"
      PROVE  HistoryInv'
  BY <1>9, <1>a, <1>c DEF RecoverySettles, HistoryKnows, cellVars
<1>10. ASSUME NEW a \in Attempt, RecoverySettles(a)
       PROVE  proc = "recovering"
  BY <1>10 DEF RecoverySettles
<1>11. ASSUME NEW r \in inflight, OrphanSettles(r)
       PROVE  HistoryInv'
  BY <1>11, <1>b DEF OrphanSettles, cellVars
<1>12. ASSUME NEW a \in Attempt, VendorMaterialises(a) \/ VendorReclaims(a)
       PROVE  HistoryInv'
  BY <1>12, <1>b DEF VendorMaterialises, VendorReclaims, OwnershipInv, TypeOK, cellVars
<1>13. CASE ProcessEnds
  BY <1>13, <1>a DEF ProcessEnds, HistoryKnows, NewCells
<1>14. CASE UNCHANGED vars
  BY <1>14, <1>b DEF vars, durableVars, cellVars
<1>. QED
  BY <1>1, <1>2, <1>3, <1>4, <1>5, <1>6, <1>7, <1>8, <1>9, <1>10, <1>11, <1>12, <1>13, <1>14
     DEF Next, Admit, BatchEnds, Crash

AccountInv == OwnershipInv /\ RecordsInv /\ CapacityInv

LEMMA AccountInvariant ==
  /\ Init => AccountInv
  /\ AccountInv /\ [Next]_vars => AccountInv'
BY InitOwnership, InitRecords, InitCapacity, OwnershipStep, RecordsStep, CapacityStepPreserved
   DEF AccountInv

\* A cell of a plan reaches the vendor at most once in the account's life: a
\* launch is refused when the history read at admission has the cell, and that
\* history has every attempt the vendor ever saw.
THEOREM CreatedOnce == Spec => []OneCreatePerPlannedCell
<1>1. Init => AccountInv /\ HistoryInv
  BY AccountInvariant
     DEF Init, HistoryInv, HistoryKnows, NewCells, OneCreatePerPlannedCell, Admitted, Executing
<1>2. AccountInv /\ HistoryInv /\ [Next]_vars => (AccountInv /\ HistoryInv)'
  BY AccountInvariant, HistoryStep DEF AccountInv
<1>3. HistoryInv => OneCreatePerPlannedCell
  BY DEF HistoryInv
<1>. QED
  BY <1>1, <1>2, <1>3, PTL DEF Spec

-----------------------------------------------------------------------------
(* Creates on a settled account only *)

LEMMA RefillStaysStopped ==
  ASSUME TypeOK, NEW c \in Cell, CellStep(c), refillFailure
  PROVE  refillFailure'
<1>1. refillFailure' \in {refillFailure, TRUE} \/ \E b : refillFailure' = (refillFailure \/ b)
  BY DEF CellStep, Launch, Deadline, RunCell, IntentSettles, IntentTimesOut, IssueCreate,
         RefuseCreate, HarnessGetsSession, HarnessGetsError, HarnessTimesOut, SuiteEnds,
         ConfirmCleanup, Settle, ReadForRelease, AbsentSettles, NotAllocatedSettles, Upload,
         ReleaseSettles, Seal, WrappedCreate, CreateReturns, CreateRejects, CreateUncertain,
         AllocatedSettles, AllocatedTimesOut, UndoCreate, DiscardLate, AppendFailed, durableVars
<1>. QED
  BY <1>1

\* What a step of a cell does to its own intent.
LEMMA OwnSettled ==
  ASSUME ~StaleReads, TypeOK, NEW c \in Cell, CellStep(c), CellOK(c), CellCapacity(c),
         SettledCell(c), Me(c)' = Me(c), admissionFailure' = admissionFailure
  PROVE  SettledCell(c)'
<1>. USE DEF SettledCell, Issued, Recorded, HasRecord, Released, Rec, ReleaseKind, Kind, Goto,
         TypeOK, CellOK, QueuedIsBlank
<1>1. CASE Launch(c)
  BY <1>1 DEF Launch, CellPhase, durableVars
<1>2. CASE Deadline(c)
  BY <1>2 DEF Deadline, durableVars
<1>3. CASE WrappedCreate(c)
  BY <1>3, RefillStaysStopped
     DEF CellStep, WrappedCreate, CreateReturns, CreateRejects, CreateUncertain,
         AllocatedSettles, AllocatedTimesOut, UndoCreate, DiscardLate, durableVars, Lands, MayLand
<1>4. CASE RunCell(c)
  <2>. USE DEF durableVars, Lands, MayLand
  <2>1. CASE IntentSettles(c)
    BY <2>1 DEF IntentSettles
  <2>2. CASE IntentTimesOut(c) \/ IssueCreate(c) \/ RefuseCreate(c) \/ HarnessGetsSession(c)
             \/ HarnessGetsError(c) \/ HarnessTimesOut(c) \/ SuiteEnds(c) \/ ConfirmCleanup(c)
    BY <2>2 DEF IntentTimesOut, IssueCreate, RefuseCreate, HarnessGetsSession, HarnessGetsError,
                HarnessTimesOut, SuiteEnds, ConfirmCleanup
  <2>3. CASE Settle(c)
    <3>1. CASE Goto(c, "releasing-absent") \/ Goto(c, "reading")
      BY <2>3, <3>1 DEF Settle
    <3>2. CASE KnownEmpty(c) /\ admissionFailure /\ UNCHANGED inflight
      BY <2>3, <3>2 DEF Settle
    <3>3. CASE ~KnownEmpty(c) /\ UNCHANGED inflight /\ refillFailure'
      BY <2>3, <3>3 DEF Settle
    <3>. QED
      BY <2>3, <3>1, <3>2, <3>3 DEF Settle, Seal, StopsRefill
  <2>4. CASE ReadForRelease(c)
    <3>1. CASE Goto(c, "releasing-none")
      BY <2>4, <3>1 DEF ReadForRelease
    <3>2. CASE ~HasRecord(Me(c), "intent") /\ UNCHANGED inflight
      BY <2>4, <3>2 DEF ReadForRelease
    <3>3. CASE refillFailure' /\ UNCHANGED inflight
      BY <2>4, <3>3 DEF ReadForRelease
    <3>. QED
      BY <2>4, <3>1, <3>2, <3>3 DEF ReadForRelease, Seal, StopsRefill
  <2>5. ASSUME NEW k \in ReleaseKind, NEW cleanup, ReleaseSettles(c, k, cleanup)
        PROVE  SettledCell(c)'
    <3>1. CASE Lands(Rec(Me(c), k))
      BY <2>5, <3>1 DEF ReleaseSettles
    <3>2. CASE MayLand(Rec(Me(c), k)) /\ refillFailure'
      BY <2>5, <3>2 DEF ReleaseSettles
    <3>. QED
      BY <2>5, <3>1, <3>2 DEF ReleaseSettles, Seal, StopsRefill
  <2>6. CASE AbsentSettles(c) \/ NotAllocatedSettles(c)
    BY <2>5, <2>6 DEF AbsentSettles, NotAllocatedSettles
  <2>7. CASE Upload(c)
    BY <2>7 DEF Upload
  <2>. QED
    BY <1>4, <2>1, <2>2, <2>3, <2>4, <2>6, <2>7 DEF RunCell
<1>. QED
  BY <1>1, <1>2, <1>3, <1>4 DEF CellStep

LEMMA SettledCellStep ==
  ASSUME ~StaleReads, OwnershipInv, RecordsInv, CapacityInv, SettledInv, NEW c \in Cell, CellStep(c)
  PROVE  SettledInv'
<1>1. /\ CellFrame(c) /\ Executing /\ Executing'
      /\ UNCHANGED <<run, proc, todo, admissionFailure, stray>>
  BY CellStepFrame DEF OwnershipInv, CellFrame, workerVars, Executing
<1>2. \A d \in Cell : /\ Me(d) \in Attempt /\ Me(d)' = Me(d) /\ (d # c => Me(d) # Me(c))
                      /\ CellOK(d) /\ SettledCell(d)
  BY <1>1, ActingCellOK DEF SettledInv, Me
<1>3. SettledCell(c)'
  BY <1>1, <1>2, OwnSettled DEF OwnershipInv, CapacityInv
<1>4. ASSUME NEW a \in Attempt, a # Me(c)
      PROVE  Issued(a, "intent")' = Issued(a, "intent") /\ Released(a)' = Released(a)
  BY <1>1, <1>4 DEF CellFrame, SameAttempt, Issued, Recorded, Released, HasRecord, Kind, ReleaseKind
<1>5. ASSUME NEW d \in Cell, d # c
      PROVE  SettledCell(d)'
  <2>1. SameAttempt(Me(d)) /\ Me(d)' = Me(d)
    BY <1>1, <1>2, <1>5 DEF CellFrame
  <2>2. /\ Issued(Me(d), "intent")' <=> Issued(Me(d), "intent")
        /\ Released(Me(d))' <=> Released(Me(d))
    BY <2>1 DEF SameAttempt, Issued, Recorded, Released, HasRecord, Rec, Kind, ReleaseKind
  <2>3. pc'[d] = pc[d] /\ (refillFailure => refillFailure')
    BY <1>1, <1>5, RefillStaysStopped DEF CellFrame, SameCell, OwnershipInv
  <2>. QED
    BY <1>1, <1>2, <2>2, <2>3 DEF SettledCell
<1>6. PastIsReleased'
  BY <1>1, <1>4 DEF SettledInv, PastIsReleased, Admitted, Executing, Me
<1>. QED
  BY <1>1, <1>3, <1>5, <1>6 DEF SettledInv, IdleIsQuiet, RecoveryCovers, Admitted, Executing

LEMMA SettledStep ==
  ASSUME ~StaleReads, OwnershipInv, RecordsInv, CapacityInv, SettledInv, [Next]_vars
  PROVE  SettledInv'
<1>. USE DEF Admitted, Executing, Admission, IdleIsQuiet, RecoveryCovers, PastIsReleased, Issued,
         Recorded, HasRecord, Released, ReleaseKind
<1>1. ASSUME NEW c \in Cell, Launch(c) \/ Deadline(c) \/ RunCell(c) \/ WrappedCreate(c)
      PROVE  SettledInv'
  BY <1>1, SettledCellStep DEF CellStep
\* A step that announces nothing and moves no cell.
<1>a. ASSUME UNCHANGED <<run, proc, todo, admissionFailure, stray, pc, refillFailure>>,
             journal \subseteq journal',
             \A a \in Attempt : Rec(a, "intent") \in Recorded' => Rec(a, "intent") \in Recorded,
             inflight = {} => inflight' = {} \/ proc # "idle"
      PROVE  SettledInv'
  <2>1. \A c \in Cell : Executing => SettledCell(c)'
    <3>. SUFFICES ASSUME NEW c \in Cell, Executing PROVE SettledCell(c)'
      OBVIOUS
    <3>1. SettledCell(c) /\ Me(c) \in Attempt /\ Me(c)' = Me(c)
      BY <1>a, ActingCellOK DEF SettledInv, Me
    <3>. QED
      BY <1>a, <3>1 DEF SettledCell, Rec
  <2>. QED
    BY <1>a, <2>1 DEF SettledInv
\* Admission leaves every cell queued, and its attempts blank.
<1>b. ASSUME proc \in Admission, pc' = pc, run' = run, NEW c \in Cell,
             \A a \in Attempt : Rec(a, "intent") \in Recorded' => Rec(a, "intent") \in Recorded
      PROVE  SettledCell(c)'
  <2>1. /\ pc[c] = "queued" /\ Rec(Me(c), "intent") \notin Recorded
        /\ Me(c) \in Attempt /\ Me(c)' = Me(c)
    BY <1>b DEF OwnershipInv, TypeOK, CellOK, QueuedIsBlank, Kind, Me, Attempt
  <2>. QED
    BY <1>b, <2>1 DEF SettledCell, Rec
<1>2. CASE StartRun
  BY <1>2 DEF StartRun, SettledInv, Unreleased, Kind, durableVars
<1>3. CASE AdmissionFails
  BY <1>3, <1>b DEF AdmissionFails, SettledInv, durableVars, cellVars
<1>4. CASE RecoveryEnds
  BY <1>4 DEF RecoveryEnds, SettledInv, durableVars
<1>5. CASE ReconcileDestroys
  BY <1>5 DEF ReconcileDestroys, SettledInv, durableVars
<1>6. CASE ReconcileEnds
  BY <1>6, <1>b DEF ReconcileEnds, SettledInv, NothingOwned, durableVars, cellVars
<1>7. ASSUME NEW a \in Attempt, RecoverDestroys(a)
      PROVE  SettledInv'
  BY <1>7, <1>a DEF RecoverDestroys, workerVars, cellVars
<1>8. ASSUME NEW a \in Attempt, RecoverConfirms(a)
      PROVE  SettledInv'
  BY <1>8, <1>a DEF RecoverConfirms, Rec, durableVars, workerVars, cellVars
<1>9. ASSUME NEW m \in Attempt, RecoverySettles(m)
      PROVE  SettledInv'
  <2>1. /\ journal \subseteq journal' /\ proc = "recovering" /\ UNCHANGED <<pc, run, stray>>
        /\ \A a \in Attempt : Rec(a, "intent") \in Recorded' => Rec(a, "intent") \in Recorded
    BY <1>9 DEF RecoverySettles, Lands, MayLand, cellVars
  <2>2. CASE Lands(Rec(m, "absent")) /\ todo' = todo \ {m} /\ UNCHANGED proc
    BY <2>1, <2>2 DEF SettledInv, Lands
  <2>3. CASE admissionFailure' = TRUE /\ proc' = "executing"
    BY <2>1, <2>3, <1>b DEF SettledInv
  <2>. QED
    BY <1>9, <2>2, <2>3 DEF RecoverySettles
<1>10. ASSUME NEW r \in inflight, OrphanSettles(r)
       PROVE  SettledInv'
  BY <1>10, <1>a DEF OrphanSettles, MayLand, workerVars, cellVars
<1>11. ASSUME NEW a \in Attempt, VendorMaterialises(a) \/ VendorReclaims(a)
       PROVE  SettledInv'
  BY <1>11, <1>a DEF VendorMaterialises, VendorReclaims, workerVars, cellVars
<1>12. CASE ProcessEnds
  BY <1>12 DEF ProcessEnds, SettledInv
<1>13. CASE UNCHANGED vars
  BY <1>13, <1>a DEF vars, durableVars, workerVars, cellVars
<1>. QED
  BY <1>1, <1>2, <1>3, <1>4, <1>5, <1>6, <1>7, <1>8, <1>9, <1>10, <1>11, <1>12, <1>13
     DEF Next, Admit, BatchEnds, Crash

LEMMA InitSettled == Init => SettledInv
BY DEF Init, SettledInv, IdleIsQuiet, RecoveryCovers, PastIsReleased, Admitted, Executing

LEMMA SettledIssue ==
  ASSUME OwnershipInv, RecordsInv, CapacityInv, SettledInv, NEW c \in Cell, IssueCreate(c)
  PROVE  /\ ~stray
         /\ \A a \in Attempt : HasRecord(a, "intent") =>
              Released(a) \/ (a[1] = run /\ a[2] \in Pending)
<1>1. Executing /\ ~refillFailure /\ pc[c] = "admitted"
  BY DEF IssueCreate, MayCreate
<1>2. Admitted
  BY <1>1 DEF CapacityInv, CellCapacity, Admitted
<1>. SUFFICES ASSUME NEW a \in Attempt, HasRecord(a, "intent"), ~Released(a)
              PROVE  a[1] = run /\ a[2] \in Pending
  BY <1>2 DEF SettledInv
<1>3. Issued(a, "intent")
  BY DEF Issued, Recorded, HasRecord
<1>4. a[1] = run
  BY <1>2, <1>3 DEF SettledInv, PastIsReleased
<1>5. PICK d \in Cell : a = Me(d)
  BY <1>4 DEF Attempt, Me
<1>6. SettledCell(d) /\ CellOK(d) /\ a[2] = d
  BY <1>1, <1>5, ActingCellOK DEF SettledInv, Me
<1>7. pc[d] \notin {"queued", "done"}
  BY <1>1, <1>3, <1>5, <1>6 DEF SettledCell, CellOK, QueuedIsBlank, Issued, Kind
<1>. QED
  BY <1>4, <1>6, <1>7 DEF Pending

\* "Unknown creates block admission": a create is issued only when the account
\* has no stray sandbox and every other durable intent is released or belongs to
\* a cell this worker still runs, provided journal.read shows every append that
\* was acknowledged.
THEOREM SettledAccount == ~StaleReads => (Spec => CreatesOnlyOnSettledAccount)
<1>. SUFFICES ASSUME ~StaleReads PROVE Spec => CreatesOnlyOnSettledAccount
  OBVIOUS
<1>1. Init => AccountInv /\ SettledInv
  BY AccountInvariant, InitSettled
<1>2. AccountInv /\ SettledInv /\ [Next]_vars => (AccountInv /\ SettledInv)'
  BY AccountInvariant, SettledStep DEF AccountInv
<1>3. AccountInv /\ SettledInv /\ [Next]_vars => [IssuesOnSettledAccount]_vars
  <2>. SUFFICES ASSUME AccountInv, SettledInv, [Next]_vars, NEW c \in Cell, proc = "executing",
                       vendor[Me(c)] = "none", vendor'[Me(c)] = "creating"
                PROVE  IssueCreate(c)
    BY SettledIssue DEF IssuesOnSettledAccount, AccountInv
  <2>1. Me(c) \in Attempt /\ TypeOK
    BY ActingCellOK DEF AccountInv, Executing
  <2>2. ASSUME NEW d \in Cell, CellStep(d)
        PROVE  IssueCreate(c)
    <3>1. CASE d = c
      BY <2>2, <3>1, OnlyIssueStarts DEF AccountInv
    <3>2. CASE d # c
      <4>1. SameAttempt(Me(c))
        BY <2>1, <2>2, <3>2, CellStepFrame DEF CellFrame, Me
      <4>. QED
        BY <4>1 DEF SameAttempt
    <3>. QED
      BY <3>1, <3>2
  <2>3. CASE Admit
    BY <2>1, <2>3
       DEF Admit, StartRun, AdmissionFails, RecoveryEnds, ReconcileDestroys, ReconcileEnds,
           RecoverDestroys, RecoverConfirms, RecoverySettles, durableVars, TypeOK
  <2>4. ~\E r \in inflight : OrphanSettles(r)
    BY DEF OrphanSettles
  <2>5. ~\E a \in Attempt : VendorMaterialises(a) \/ VendorReclaims(a)
    BY <2>1 DEF VendorMaterialises, VendorReclaims, TypeOK
  <2>6. ~ProcessEnds /\ ~UNCHANGED vars
    BY DEF ProcessEnds, vars, durableVars
  <2>. QED
    BY <2>2, <2>3, <2>4, <2>5, <2>6 DEF Next, CellStep, BatchEnds, Crash
<1>. QED
  BY <1>1, <1>2, <1>3, PTL DEF Spec, CreatesOnlyOnSettledAccount

-----------------------------------------------------------------------------
(* Refinement: the account as a ledger of ownership *)

Started == {a \in Attempt : vendor[a] # "none"}

\* What the mapping says of one attempt.
MappedSets ==
  /\ OpenAttempts = {a \in Attempt : HasRecord(a, "intent") /\ ~Released(a)}
  /\ ClosedAttempts = {a \in Attempt : Released(a)}

LEMMA Mapped == TypeOK => MappedSets
<1>. SUFFICES ASSUME TypeOK PROVE MappedSets
  OBVIOUS
<1>1. \A r \in journal : r.attempt \in Attempt /\ r = Rec(r.attempt, r.kind)
  BY DEF TypeOK, Record, Rec
<1>2. \A a, k : Rec(a, k).attempt = a /\ Rec(a, k).kind = k
  BY DEF Rec
<1>3. ClosedAttempts = {a \in Attempt : Released(a)}
  BY <1>1, <1>2 DEF ClosedAttempts, WithRecord, Released, HasRecord
<1>4. OpenAttempts = {a \in Attempt : HasRecord(a, "intent") /\ ~Released(a)}
  BY <1>1, <1>2, <1>3 DEF OpenAttempts, WithRecord, HasRecord
<1>. QED
  BY <1>3, <1>4 DEF MappedSets

\* An attempt whose ledger entry a step leaves alone.
Unmoved(a) ==
  /\ a \in Held' <=> a \in Held
  /\ a \in Started' <=> a \in Started
  /\ HasRecord(a, "intent")' <=> HasRecord(a, "intent")
  /\ Released(a)' <=> Released(a)

\* The moves of a ledger entry, as the journal and the vendor make them.
Opens(a) ==
  /\ ~HasRecord(a, "intent") /\ a \notin Started
  /\ HasRecord(a, "intent")'
  /\ ~Released(a) /\ ~Released(a)'
  /\ a \in Held' <=> a \in Held
  /\ a \in Started' <=> a \in Started

Starts(a) ==
  /\ Cardinality(Held) < MaxConcurrency
  /\ a \notin Started /\ a \in Started' /\ a \in Held'
  /\ HasRecord(a, "intent") /\ HasRecord(a, "intent")'
  /\ ~Released(a) /\ ~Released(a)'

Stops(a) ==
  /\ a \in Held /\ a \notin Held'
  /\ a \in Started' <=> a \in Started
  /\ HasRecord(a, "intent")' <=> HasRecord(a, "intent")
  /\ Released(a)' <=> Released(a)

Closes(a) ==
  /\ a \notin Held /\ a \notin Held'
  /\ a \in Started' <=> a \in Started
  /\ HasRecord(a, "intent") /\ ~Released(a) /\ Released(a)'

\* A step that moves at most one entry, and that one as above, is a step of the
\* ledger.
LEMMA EntryMoves ==
  ASSUME TypeOK, TypeOK', NEW m \in Attempt, \A a \in Attempt : a # m => Unmoved(a),
         Unmoved(m) \/ Opens(m) \/ Starts(m) \/ Stops(m) \/ Closes(m)
  PROVE  [Ledger!Next]_(Ledger!vars)
<1>1. MappedSets /\ MappedSets'
  <2>1. TypeOK' => MappedSets'
    BY Mapped, PTL
  <2>. QED
    BY <2>1, Mapped
<1>. USE DEF MappedSets, Unmoved, Started
<1>2. Held \subseteq Attempt /\ Held' \subseteq Attempt
  BY DEF Held
<1>3. CASE Unmoved(m)
  <2>1. \A a \in Attempt : Unmoved(a)
    BY <1>3
  <2>2. OpenAttempts' = OpenAttempts /\ ClosedAttempts' = ClosedAttempts
    BY <1>1, <2>1
  <2>3. Held' = Held /\ Started' = Started
    BY <1>2, <2>1
  <2>. QED
    BY <2>2, <2>3 DEF Ledger!vars
<1>4. CASE Opens(m)
  <2>1. OpenAttempts' = OpenAttempts \cup {m} /\ ClosedAttempts' = ClosedAttempts
    BY <1>1, <1>4 DEF Opens
  <2>2. Held' = Held /\ Started' = Started
    BY <1>2, <1>4 DEF Opens
  <2>3. m \notin OpenAttempts \cup ClosedAttempts \cup Started
    BY <1>1, <1>4 DEF Opens
  <2>4. Ledger!Open(m)
    BY <2>1, <2>2, <2>3 DEF Ledger!Open
  <2>. QED
    BY <2>4 DEF Ledger!Next
<1>5. CASE Starts(m)
  <2>1. OpenAttempts' = OpenAttempts /\ ClosedAttempts' = ClosedAttempts
    BY <1>1, <1>5 DEF Starts
  <2>2. Held' = Held \cup {m} /\ Started' = Started \cup {m}
    BY <1>2, <1>5 DEF Starts
  <2>3. m \in OpenAttempts \ Started /\ Cardinality(Held) < MaxConcurrency
    BY <1>1, <1>5 DEF Starts
  <2>4. Ledger!Cardinality(Held) = Cardinality(Held)
    BY DEF Ledger!Cardinality, Cardinality
  <2>5. Ledger!Start(m)
    BY <2>1, <2>2, <2>3, <2>4 DEF Ledger!Start
  <2>. QED
    BY <2>5 DEF Ledger!Next
<1>6. CASE Stops(m)
  <2>1. OpenAttempts' = OpenAttempts /\ ClosedAttempts' = ClosedAttempts
    BY <1>1, <1>6 DEF Stops
  <2>2. Held' = Held \ {m} /\ Started' = Started /\ m \in Held
    BY <1>2, <1>6 DEF Stops
  <2>3. Ledger!Stop(m)
    BY <2>1, <2>2 DEF Ledger!Stop
  <2>. QED
    BY <2>3 DEF Ledger!Next
<1>7. CASE Closes(m)
  <2>1. OpenAttempts' = OpenAttempts \ {m} /\ ClosedAttempts' = ClosedAttempts \cup {m}
    BY <1>1, <1>7 DEF Closes
  <2>2. Held' = Held /\ Started' = Started /\ m \in OpenAttempts \ Held
    BY <1>1, <1>2, <1>7 DEF Closes
  <2>3. Ledger!Close(m)
    BY <2>1, <2>2 DEF Ledger!Close
  <2>. QED
    BY <2>3 DEF Ledger!Next
<1>. QED
  BY <1>3, <1>4, <1>5, <1>6, <1>7

\* An append lands, is given up, or neither.
LEMMA LandingMoves ==
  ASSUME OwnershipInv, RecordsInv, TypeOK', NEW m \in Attempt, NEW k \in Kind, Issued(m, k),
         vendor' = vendor, journal' \in {journal, journal \cup {Rec(m, k)}}
  PROVE  [Ledger!Next]_(Ledger!vars)
<1>1. \A a \in Attempt, j \in Kind :
        HasRecord(a, j)' <=> HasRecord(a, j) \/ (journal' # journal /\ a = m /\ j = k)
  BY DEF HasRecord, Rec
<1>2. Held' = Held /\ Started' = Started
  BY DEF Held, Started
<1>3. \A a \in Attempt : a # m => Unmoved(a)
  BY <1>1, <1>2 DEF Unmoved, Released, Kind, ReleaseKind
<1>4. AttemptOK(m) /\ TypeOK
  BY DEF RecordsInv, OwnershipInv
<1>5. Unmoved(m) \/ Opens(m) \/ Closes(m)
  <2>1. CASE k = "intent"
    <3>1. HasRecord(m, "intent") \/ (m \notin Started /\ ~Released(m))
      BY <1>4 DEF AttemptOK, Issued, Recorded, Released, HasRecord, Started, Kind, ReleaseKind
    <3>. QED
      BY <1>1, <1>2, <2>1, <3>1 DEF Unmoved, Opens, Released, Kind, ReleaseKind
  <2>2. CASE k = "allocated"
    BY <1>1, <1>2, <2>2 DEF Unmoved, Released, Kind, ReleaseKind
  <2>3. CASE k \in ReleaseKind
    <3>1. HasRecord(m, "intent") /\ Empty(m)
      BY <1>4, <2>3
         DEF AttemptOK, OwnershipInv, ReleasedIsEmpty, Issued, Kind, ReleaseKind
    <3>2. m \notin Held
      BY <3>1 DEF Empty, Held
    <3>. QED
      BY <1>1, <1>2, <2>3, <3>1, <3>2 DEF Unmoved, Closes, Released, Kind, ReleaseKind
  <2>. QED
    BY <2>1, <2>2, <2>3 DEF Kind
<1>. QED
  BY <1>3, <1>4, <1>5, EntryMoves

\* The vendor moves a sandbox it knows: it comes up or goes away.
LEMMA VendorMoves ==
  ASSUME TypeOK, TypeOK', journal' = journal, NEW m \in Attempt,
         \A a \in Attempt : a # m => vendor'[a] = vendor[a],
         vendor[m] = "none" <=> vendor'[m] = "none",
         vendor[m] = "gone" => vendor'[m] = "gone"
  PROVE  [Ledger!Next]_(Ledger!vars)
<1>1. \A a, j : HasRecord(a, j)' <=> HasRecord(a, j)
  BY DEF HasRecord
<1>2. \A a \in Attempt : a # m => Unmoved(a)
  BY <1>1 DEF Unmoved, Held, Started, Released
<1>3. Unmoved(m) \/ Stops(m)
  BY <1>1 DEF Unmoved, Stops, Held, Started, Released, TypeOK
<1>. QED
  BY <1>2, <1>3, EntryMoves

\* The create: CapacityInv counts the sandbox it may start.
LEMMA IssueMoves ==
  ASSUME OwnershipInv, RecordsInv, CapacityInv, NEW c \in Cell, IssueCreate(c), TypeOK', CapacityInv'
  PROVE  [Ledger!Next]_(Ledger!vars)
<1>1. CellStep(c) /\ OwnFacts(c) /\ TypeOK
  BY ActingFacts DEF CellStep, RunCell, OwnershipInv
<1>2. /\ Me(c) \in Attempt /\ vendor[Me(c)] = "none" /\ vendor'[Me(c)] = "creating"
      /\ \A a \in Attempt : a # Me(c) => vendor'[a] = vendor[a]
      /\ journal' = journal
      /\ HasRecord(Me(c), "intent") /\ ~Released(Me(c))
  BY <1>1 DEF IssueCreate, OwnFacts, CellOK, EarlyIsOpen, BeforeCreate, AdmittedIsDurable,
              CellRecords, Released, HasRecord, Recorded
<1>3. PICK m \in Attempt : m = Me(c)
  BY <1>2
<1>4. \A a, j : HasRecord(a, j)' <=> HasRecord(a, j)
  BY <1>2 DEF HasRecord
<1>5. \A a \in Attempt : a # m => Unmoved(a)
  BY <1>2, <1>3, <1>4 DEF Unmoved, Held, Started, Released
<1>6. Cardinality(Held) < MaxConcurrency
  <2>1. Held' = Held \cup {m} /\ m \notin Held
    BY <1>2, <1>3 DEF Held
  <2>2. Cardinality(Held') = Cardinality(Held) + 1 /\ Cardinality(Held) \in Nat
    BY <2>1, HeldIsFinite, FS_AddElement, FS_CardinalityType
  <2>. QED
    BY <2>2, MaxConcurrencyAssumption DEF CapacityInv
<1>7. Starts(m)
  BY <1>2, <1>3, <1>4, <1>6 DEF Starts, Held, Started, Released
<1>. QED
  BY <1>1, <1>5, <1>7, EntryMoves

\* An append of an attempt lands, is given up, or neither; the vendor is not asked.
Lander(m) ==
  \E k \in Kind : /\ Issued(m, k) /\ vendor' = vendor
                  /\ journal' \in {journal, journal \cup {Rec(m, k)}}

\* The vendor moves a sandbox it knows, and the journal does not move.
Mover(m) ==
  /\ journal' = journal
  /\ \A a \in Attempt : a # m => vendor'[a] = vendor[a]
  /\ vendor[m] = "none" <=> vendor'[m] = "none"
  /\ vendor[m] = "gone" => vendor'[m] = "gone"

LEMMA QuietMoves ==
  ASSUME OwnershipInv, RecordsInv, TypeOK', NEW m \in Attempt, Lander(m) \/ Mover(m)
  PROVE  [Ledger!Next]_(Ledger!vars)
BY LandingMoves, VendorMoves DEF Lander, Mover, OwnershipInv

LEMMA CellMoves ==
  ASSUME OwnershipInv, RecordsInv, CapacityInv, NEW c \in Cell, CellStep(c), TypeOK', CapacityInv'
  PROVE  [Ledger!Next]_(Ledger!vars)
<1>1. OwnFacts(c) /\ TypeOK /\ CellFrame(c)
  BY ActingFacts, CellStepFrame DEF OwnershipInv
<1>2. PICK m \in Attempt : m = Me(c)
  BY <1>1 DEF OwnFacts
<1>3. CASE IssueCreate(c)
  BY <1>3, IssueMoves
<1>4. CASE \/ IntentSettles(c) \/ AllocatedSettles(c) \/ AbsentSettles(c) \/ NotAllocatedSettles(c)
  <2>1. PICK k \in Kind : /\ Rec(m, k) \in inflight
                          /\ Lands(Rec(m, k)) \/ MayLand(Rec(m, k))
                          /\ vendor' = vendor
    BY <1>2, <1>4
       DEF IntentSettles, AllocatedSettles, AbsentSettles, NotAllocatedSettles, ReleaseSettles,
           Kind, ReleaseKind
  <2>2. Lander(m)
    BY <2>1 DEF Lander, Issued, Recorded, Lands, MayLand
  <2>. QED
    BY <2>2, QuietMoves
<1>5. CASE /\ ~IssueCreate(c)
           /\ ~(IntentSettles(c) \/ AllocatedSettles(c) \/ AbsentSettles(c) \/ NotAllocatedSettles(c))
  <2>1. /\ journal' = journal
        /\ \/ vendor' = vendor \/ MayRemove(m)
           \/ cr[c] = "requested" /\ vendor' = [vendor EXCEPT ![m] = "gone"]
    BY <1>2, <1>5
       DEF CellStep, Launch, Deadline, RunCell, IntentTimesOut, RefuseCreate, HarnessGetsSession,
           HarnessGetsError, HarnessTimesOut, SuiteEnds, ConfirmCleanup, Settle, ReadForRelease,
           Upload, WrappedCreate, CreateReturns, CreateRejects, CreateUncertain, AllocatedTimesOut,
           UndoCreate, DiscardLate, durableVars
  <2>2. cr[c] = "requested" => vendor[m] # "none"
    BY <1>1, <1>2 DEF OwnFacts, CellRecords
  <2>3. \A a \in Attempt : a # m => vendor'[a] = vendor[a]
    BY <1>1, <1>2 DEF CellFrame, SameAttempt
  <2>4. Mover(m)
    BY <1>1, <2>1, <2>2, <2>3 DEF Mover, MayRemove, OwnFacts
  <2>. QED
    BY <2>4, QuietMoves
<1>. QED
  BY <1>3, <1>4, <1>5

\* The account's other steps: an admission, an abandoned append, the vendor's own
\* and the end of the process.
LEMMA AccountMoves ==
  ASSUME OwnershipInv, RecordsInv, TypeOK',
         \/ Admit \/ (\E r \in inflight : OrphanSettles(r))
         \/ (\E a \in Attempt : VendorMaterialises(a) \/ VendorReclaims(a))
         \/ ProcessEnds
  PROVE  [Ledger!Next]_(Ledger!vars)
<1>1. TypeOK
  BY DEF OwnershipInv
<1>2. ASSUME NEW r \in inflight, vendor' = vendor, journal' \in {journal, journal \cup {r}}
      PROVE  [Ledger!Next]_(Ledger!vars)
  <2>1. r.attempt \in Attempt /\ r.kind \in Kind /\ r = Rec(r.attempt, r.kind)
    BY <1>1 DEF TypeOK, Record, Rec
  <2>2. PICK m \in Attempt, k \in Kind : r = Rec(m, k)
    BY <2>1
  <2>3. Lander(m)
    BY <1>2, <2>2 DEF Lander, Issued, Recorded
  <2>. QED
    BY <2>3, QuietMoves
<1>3. ASSUME UNCHANGED <<journal, vendor>>
      PROVE  [Ledger!Next]_(Ledger!vars)
  <2>1. UNCHANGED Ledger!vars
    BY <1>3 DEF Ledger!vars, OpenAttempts, ClosedAttempts, WithRecord, Held
  <2>. QED
    BY <2>1
<1>4. ASSUME journal' = journal, NEW a \in Attempt,
             \/ VendorMaterialises(a) \/ VendorReclaims(a) \/ RecoverDestroys(a)
      PROVE  [Ledger!Next]_(Ledger!vars)
  <2>1. Mover(a)
    BY <1>1, <1>4 DEF Mover, VendorMaterialises, VendorReclaims, RecoverDestroys, TypeOK
  <2>. QED
    BY <2>1, QuietMoves
<1>5. CASE Admit
  <2>1. CASE StartRun \/ AdmissionFails \/ RecoveryEnds \/ ReconcileDestroys \/ ReconcileEnds
    BY <1>3, <2>1
       DEF StartRun, AdmissionFails, RecoveryEnds, ReconcileDestroys, ReconcileEnds, durableVars
  <2>2. ASSUME NEW a \in Attempt, RecoverDestroys(a)
        PROVE  [Ledger!Next]_(Ledger!vars)
    BY <1>4, <2>2 DEF RecoverDestroys
  <2>3. ASSUME NEW a \in Attempt, RecoverConfirms(a)
        PROVE  [Ledger!Next]_(Ledger!vars)
    BY <1>3, <2>3 DEF RecoverConfirms, durableVars
  <2>4. ASSUME NEW a \in Attempt, RecoverySettles(a)
        PROVE  [Ledger!Next]_(Ledger!vars)
    BY <1>2, <2>4 DEF RecoverySettles, Lands, MayLand
  <2>. QED
    BY <1>5, <2>1, <2>2, <2>3, <2>4 DEF Admit
<1>6. CASE \E r \in inflight : OrphanSettles(r)
  BY <1>2, <1>6 DEF OrphanSettles, MayLand
<1>7. CASE \E a \in Attempt : VendorMaterialises(a) \/ VendorReclaims(a)
  BY <1>4, <1>7 DEF VendorMaterialises, VendorReclaims
<1>8. CASE ProcessEnds
  BY <1>2, <1>3, <1>8 DEF ProcessEnds
<1>. QED
  BY <1>5, <1>6, <1>7, <1>8

\* Workers, crashes, timeouts, lost responses and lagging reads together
\* implement the ownership ledger (ImplementsLedger): a sandbox runs on an open
\* entry only, an entry is closed once its sandbox is gone and never reopened or
\* used twice, and the account never holds more sandboxes than it has room for.
THEOREM LedgerImplemented == Spec => ImplementsLedger
<1>1. Init => Ledger!Init
  <2>. SUFFICES ASSUME Init PROVE Ledger!Init
    OBVIOUS
  <2>. QED
    BY DEF Init, Ledger!Init, OpenAttempts, ClosedAttempts, WithRecord, Held
<1>2. /\ OwnershipInv /\ RecordsInv /\ CapacityInv
      /\ TypeOK' /\ CapacityInv' /\ [Next]_vars
      => [Ledger!Next]_(Ledger!vars)
  <2>. SUFFICES ASSUME OwnershipInv, RecordsInv, CapacityInv, TypeOK', CapacityInv', [Next]_vars
                PROVE  [Ledger!Next]_(Ledger!vars)
    OBVIOUS
  <2>1. CASE UNCHANGED vars
    BY <2>1 DEF vars, durableVars, Ledger!vars, OpenAttempts, ClosedAttempts, WithRecord, Held
  <2>2. CASE \E c \in Cell : CellStep(c)
    BY <2>2, CellMoves
  <2>3. CASE ~UNCHANGED vars /\ ~\E c \in Cell : CellStep(c)
    BY <2>3, AccountMoves DEF Next, CellStep, BatchEnds, Crash
  <2>. QED
    BY <2>1, <2>2, <2>3
<1>3. /\ Init => OwnershipInv /\ RecordsInv /\ CapacityInv
      /\ OwnershipInv /\ RecordsInv /\ CapacityInv /\ [Next]_vars
         => (OwnershipInv /\ RecordsInv /\ CapacityInv)'
  BY AccountInvariant DEF AccountInv
<1>4. OwnershipInv => TypeOK
  BY DEF OwnershipInv
<1>. QED
  BY <1>1, <1>2, <1>3, <1>4, PTL DEF Spec, ImplementsLedger, Ledger!Spec

-----------------------------------------------------------------------------
(* Publication *)

\* The gate that every publication and repair goes through: an attempt that
\* reached the vendor left an intent, so a readable collection holds it, and a
\* clear one holds a terminal receipt of it, which tells the truth.
LEMMA UnblockedAccounts ==
  ASSUME OwnershipInv, RecordsInv, NEW p \in Plans, NEW U \in SUBSET Sealed(p), Unblocked(p, U)
  PROVE  Accounted(p, U)
<1>. SUFFICES ASSUME NEW a \in Planned(p), vendor[a] # "none"
              PROVE  a \in U /\ a \notin Held
  BY DEF Accounted
<1>1. a \in Attempt /\ AttemptOK(a) /\ TypeOK
  BY DEF Planned, RecordsInv, OwnershipInv
<1>2. a \in U
  BY <1>1 DEF AttemptOK, Unblocked, Readable, Interrupted
<1>3. evidence[a] \in Evidence /\ evidence[a].cleanup # "unresolved"
  BY <1>1, <1>2 DEF TypeOK, Sealed, Unblocked, Clear
<1>4. evidence[a].cleanup \in {"confirmed", "not-allocated"}
  BY <1>3 DEF Evidence, Cleanup
<1>. QED
  BY <1>1, <1>2, <1>4 DEF AttemptOK, Empty, Held

\* Whatever uploads were lost and whatever worker died, a collection that passes
\* the gate of a publication or of a repair accounts for every attempt of its
\* plan that reached the vendor (PublishedIsAccountedFor).
THEOREM PublicationAccounted == Spec => []PublishedIsAccountedFor
<1>1. OwnershipInv /\ RecordsInv => PublishedIsAccountedFor
  BY UnblockedAccounts DEF PublishedIsAccountedFor
<1>. QED
  BY <1>1, RecordsInvariant, PTL
=============================================================================
