-------------------------- MODULE ExperimentBatch --------------------------
(***************************************************************************)
(* One vendor account, the workers that execute experiment batches on it   *)
(* one after the other, the durable account journal and the vendor.        *)
(*                                                                         *)
(* A worker process (a "run") is admitted (recoverAccount, then            *)
(* reconcileAccount), then executes every cell of its batch with at most   *)
(* MaxConcurrency cells pending, each cell being one asynchronous task     *)
(* (runCell) that owns a second one, the wrapped driver.create, which the  *)
(* harness may stop waiting for but never cancels.  Steps are the code     *)
(* between two awaits.  A worker may be killed at any time.                *)
(*                                                                         *)
(* Source: apps/cli/src/lib/execute-experiment.ts, account-journal.ts,     *)
(* account-reconciliation.ts and packages/harness/src/index.ts.            *)
(***************************************************************************)
EXTENDS Naturals, FiniteSets

CONSTANTS
  Cell,            \* the cells of the batch (all charged to this account)
  MaxRuns,         \* bound: worker processes over the account's lifetime
  MaxConcurrency,  \* batch.maxConcurrency
  PlanOf,          \* PlanOf[r]: the experiment plan that run r executes
  StaleReads       \* may journal.read miss a record just appended?

Run     == 1 .. MaxRuns
Attempt == Run \X Cell     \* `${cell.id}-a${workflowAttempt}-${uuid}`

ASSUME MaxRunsAssumption        == MaxRuns \in Nat
ASSUME MaxConcurrencyAssumption == MaxConcurrency \in Nat \ {0}
ASSUME CellAssumption           == IsFiniteSet(Cell)
ASSUME StaleReadsAssumption     == StaleReads \in BOOLEAN

-----------------------------------------------------------------------------
(* Journal records: "absent" and "not-allocated" are the two outcomes of   *)
(* the record kind "released" that the executor appends.                   *)
ReleaseKind == {"absent", "not-allocated"}
Kind        == {"intent", "allocated"} \cup ReleaseKind
Record      == [attempt : Attempt, kind : Kind]
Rec(a, k)   == [attempt |-> a, kind |-> k]

Cleanup  == {"confirmed", "unresolved", "not-allocated"}
Evidence == [outcome : {"completed", "failed"}, cleanup : Cleanup, retained : BOOLEAN]
NoEvidence == [outcome |-> "none", cleanup |-> "none", retained |-> FALSE]

VARIABLES
  (* durable *)
  journal,           \* records on the account's journal branch
  vendor,            \* vendor[a]: the sandbox of attempt a, as the vendor sees it
  retained,          \* attempts whose raw tree holds allocation.json
  evidence,          \* evidence[a]: the sealed attempt.json, or NoEvidence
  stray,             \* a sandbox of a path that keeps no journal (a local run)
                     \* is left on the account
  (* the worker process *)
  run,               \* the current run, 0 before the first
  proc,              \* its phase; "idle" when no worker holds the account
  todo,              \* admission: attempts left to recover
  history,           \* the journal snapshot taken at admission
  admissionFailure,
  refillFailure,
  inflight,          \* appends issued by this worker and not settled yet
  (* its cells *)
  pc,                \* pc[c]: where runCell is
  cr,                \* cr[c]: where the wrapped create is
  failed,            \* cells with failure # undefined
  journalFailed,     \* cells with journalFailed
  rejected,          \* cells with createRejectedCleanly
  confirmed,         \* cells whose cleanup receipt says confirmedAbsent
  expired            \* cells past their startup deadline

durableVars == <<journal, vendor, retained, evidence>>
workerVars  == <<run, proc, todo, history, admissionFailure, stray>>
cellVars    == <<pc, cr, failed, journalFailed, rejected, confirmed, expired>>
vars == <<durableVars, workerVars, cellVars, refillFailure, inflight>>

CellPhase == {"queued", "intent", "admitted", "creating", "working", "confirming",
              "settling", "reading", "releasing-absent", "releasing-none",
              "uploading", "done"}
CreatePhase == {"idle", "requested", "recording", "undoing", "failed",
                "session", "owned", "discarded"}
Admission   == {"recovering", "sweeping"}
Phase       == Admission \cup {"idle", "executing"}

TypeOK ==
  /\ journal \subseteq Record
  /\ vendor \in [Attempt -> {"none", "creating", "live", "gone"}]
  /\ retained \subseteq Attempt
  /\ evidence \in [Attempt -> Evidence \cup {NoEvidence}]
  /\ run \in 0 .. MaxRuns
  /\ proc \in Phase
  /\ proc # "idle" => run \in Run
  /\ todo \subseteq Attempt
  /\ history \subseteq Record
  /\ admissionFailure \in BOOLEAN
  /\ refillFailure \in BOOLEAN
  /\ inflight \subseteq Record
  /\ pc \in [Cell -> CellPhase]
  /\ cr \in [Cell -> CreatePhase]
  /\ failed \subseteq Cell
  /\ journalFailed \subseteq Cell
  /\ rejected \subseteq Cell
  /\ confirmed \subseteq Cell
  /\ expired \subseteq Cell
  /\ stray \in BOOLEAN

-----------------------------------------------------------------------------
\* The attempt a launch of this run draws for a cell.
Me(c)       == <<run, c>>
Executing   == proc = "executing"
Pending     == {c \in Cell : pc[c] \notin {"queued", "done"}}

HasRecord(a, k) == Rec(a, k) \in journal
Released(a)     == \E k \in ReleaseKind : HasRecord(a, k)
\* Sandboxes the vendor may be charging for, or may still start.
Held            == {a \in Attempt : vendor[a] \in {"creating", "live"}}

createStarted(c)      == cr[c] # "idle"
allocationRecorded(c) == cr[c] \in {"session", "owned", "discarded"}

\* Best-effort removal: the request may or may not have removed the sandbox.
MayRemove(a) ==
  \/ UNCHANGED vendor
  \/ vendor[a] = "live" /\ vendor' = [vendor EXCEPT ![a] = "gone"]

(* What may become of an append the worker stops waiting for or that       *)
(* fails: a lost response leaves the record on the branch.                 *)
Lands(r)    == journal' = journal \cup {r} /\ inflight' = inflight \ {r}
MayLand(r)  == inflight' = inflight \ {r} /\ journal' \in {journal, journal \cup {r}}

Goto(c, p)  == pc' = [pc EXCEPT ![c] = p]
Step(c, p)  == cr' = [cr EXCEPT ![c] = p]

-----------------------------------------------------------------------------
(* Vendor *)

\* An accepted create request takes effect, possibly long after its client died.
VendorMaterialises(a) ==
  /\ vendor[a] = "creating"
  /\ vendor' = [vendor EXCEPT ![a] = "live"]
  /\ UNCHANGED <<journal, retained, evidence, workerVars, cellVars, refillFailure, inflight>>

\* A sandbox ends at its lifetime, when an accepted removal completes, or when
\* the owner registry of the dying worker destroys it.
VendorReclaims(a) ==
  /\ vendor[a] = "live"
  /\ vendor' = [vendor EXCEPT ![a] = "gone"]
  /\ UNCHANGED <<journal, retained, evidence, workerVars, cellVars, refillFailure, inflight>>

-----------------------------------------------------------------------------
(* Admission *)

Init ==
  /\ journal = {} /\ retained = {} /\ inflight = {} /\ history = {} /\ todo = {}
  /\ vendor = [a \in Attempt |-> "none"]
  /\ evidence = [a \in Attempt |-> NoEvidence]
  /\ stray \in BOOLEAN
  /\ run = 0 /\ proc = "idle"
  /\ admissionFailure = FALSE /\ refillFailure = FALSE
  /\ pc = [c \in Cell |-> "queued"]
  /\ cr = [c \in Cell |-> "idle"]
  /\ failed = {} /\ journalFailed = {} /\ rejected = {} /\ confirmed = {} /\ expired = {}

\* Mutant: an intent without a durable allocation is not recovery's concern.
UnreleasedAllocations == {a \in Attempt : HasRecord(a, "allocated") /\ ~Released(a)}

\* Attempts of a journal snapshot that hold no release.
Unreleased == {a \in Attempt : (\E k \in Kind : HasRecord(a, k)) /\ ~Released(a)}

\* The local state of executeExperimentBatch and runCell when they are entered;
\* that of a process which ended is forgotten.
FreshProcess ==
  /\ history' = {} /\ admissionFailure' = FALSE /\ refillFailure' = FALSE
  /\ pc' = [c \in Cell |-> "queued"]
  /\ cr' = [c \in Cell |-> "idle"]
  /\ failed' = {} /\ journalFailed' = {} /\ rejected' = {} /\ confirmed' = {} /\ expired' = {}

\* The account queue hands the account to the next worker: fresh process
\* state, drivers opened, and recoverAccount's snapshot of the journal.
StartRun ==
  /\ proc = "idle" /\ run < MaxRuns
  /\ run' = run + 1 /\ proc' = "recovering"
  /\ todo' = Unreleased
  /\ FreshProcess
  /\ UNCHANGED <<durableVars, inflight, stray>>

\* Any throw of the admission block: an intent without a durable identity, a
\* failed append or read, a foreign or a reappearing resource, the deadline.
\* The cells still run, to leave a failed attempt each.
AdmissionFails ==
  /\ proc \in Admission
  /\ admissionFailure' = TRUE /\ proc' = "executing" /\ todo' = {}
  /\ UNCHANGED <<durableVars, run, history, stray, cellVars, refillFailure, inflight>>

\* Only an intent with a durable allocation is recovered; every other
\* unreleased attempt makes recoverAccount throw (AdmissionFails).
Recoverable(a) == a \in todo /\ HasRecord(a, "intent") /\ HasRecord(a, "allocated")

\* confirmRemoval: destroyById of the recorded reference.
RecoverDestroys(a) ==
  /\ proc = "recovering" /\ Recoverable(a)
  /\ inflight = {}
  /\ vendor[a] = "live"
  /\ vendor' = [vendor EXCEPT ![a] = "gone"]
  /\ UNCHANGED <<journal, retained, evidence, workerVars, cellVars, refillFailure, inflight>>

\* confirmRemoval returned: the vendor no longer observes the sandbox running.
RecoverConfirms(a) ==
  /\ proc = "recovering" /\ Recoverable(a)
  /\ inflight = {}
  /\ vendor[a] = "gone"
  /\ inflight' = {Rec(a, "absent")}
  /\ UNCHANGED <<durableVars, workerVars, cellVars, refillFailure>>

RecoverySettles(a) ==
  /\ proc = "recovering" /\ a \in todo
  /\ Rec(a, "absent") \in inflight
  /\ \/ /\ Lands(Rec(a, "absent"))
        /\ todo' = todo \ {a}
        /\ UNCHANGED <<proc, admissionFailure>>
     \/ /\ MayLand(Rec(a, "absent"))
        /\ admissionFailure' = TRUE /\ proc' = "executing" /\ todo' = {}
  /\ UNCHANGED <<vendor, retained, evidence, run, history, stray, cellVars, refillFailure>>

\* recoverAccount returned; then the history snapshot.
RecoveryEnds ==
  /\ proc = "recovering" /\ todo = {} /\ inflight = {}
  /\ history' = journal
  /\ proc' = "sweeping"
  /\ UNCHANGED <<durableVars, run, todo, admissionFailure, stray, cellVars, refillFailure,
                 inflight>>

\* Every owned resource the first list shows is destroyed and observed until it
\* is not running: a stray, as recovery left no sandbox of the journal.
ReconcileDestroys ==
  /\ proc = "sweeping" /\ stray
  /\ stray' = FALSE
  /\ UNCHANGED <<durableVars, run, proc, todo, history, admissionFailure, cellVars,
                 refillFailure, inflight>>

\* Mutant: the second list is not looked at.
SweptOnce == proc = "sweeping"

\* What the second list must show; otherwise reconcileAccount throws.
NothingOwned == ~stray /\ \A a \in Attempt : vendor[a] # "live"

ReconcileEnds ==
  /\ proc = "sweeping" /\ NothingOwned
  /\ proc' = "executing"
  /\ UNCHANGED <<durableVars, run, todo, history, admissionFailure, stray, cellVars,
                 refillFailure, inflight>>

-----------------------------------------------------------------------------
(* runCell up to the create *)

\* Mutant: only a cell that got a sandbox counts as attempted.
AlreadyAllocated(c) ==
  \E r \in history : /\ PlanOf[r.attempt[1]] = PlanOf[run] /\ r.attempt[2] = c
                     /\ r.kind = "allocated"

\* The plan's cell has a record in the history read at admission.
AlreadyAttempted(c) ==
  \E r \in history : PlanOf[r.attempt[1]] = PlanOf[run] /\ r.attempt[2] = c

\* launch() fills free slots; a task that cannot proceed fails at once. The
\* second disjunct also stands for inputs that differ from the frozen plan and
\* for a startup deadline that has passed already.
Launch(c) ==
  /\ Executing /\ pc[c] = "queued"
  /\ Cardinality(Pending) < MaxConcurrency
  /\ \/ /\ ~admissionFailure /\ ~refillFailure /\ ~AlreadyAttempted(c)
        /\ inflight' = inflight \cup {Rec(Me(c), "intent")}
        /\ Goto(c, "intent")
        /\ UNCHANGED failed
     \/ /\ failed' = failed \cup {c}
        /\ Goto(c, "settling")
        /\ UNCHANGED inflight
  /\ UNCHANGED <<durableVars, workerVars, cr, journalFailed, rejected, confirmed, expired,
                 refillFailure>>

\* The startup signal of a task fires.
Deadline(c) ==
  /\ Executing /\ c \notin expired
  /\ \/ pc[c] \in {"intent", "admitted", "creating"}
     \/ cr[c] \in {"requested", "recording"}
  /\ expired' = expired \cup {c}
  /\ UNCHANGED <<durableVars, workerVars, pc, cr, failed, journalFailed, rejected, confirmed,
                 refillFailure, inflight>>

\* A failed append, in the closure `append`: the task is failed, refill stops.
AppendFailed(c) ==
  /\ journalFailed' = journalFailed \cup {c}
  /\ refillFailure' = TRUE

IntentSettles(c) ==
  /\ Executing /\ pc[c] = "intent" /\ Rec(Me(c), "intent") \in inflight
  /\ \/ /\ Lands(Rec(Me(c), "intent"))
        /\ Goto(c, "admitted")
        /\ UNCHANGED <<failed, journalFailed, refillFailure>>
     \/ /\ MayLand(Rec(Me(c), "intent"))
        /\ AppendFailed(c)
        /\ failed' = failed \cup {c}
        /\ Goto(c, "settling")
  /\ UNCHANGED <<vendor, retained, evidence, workerVars, cr, rejected, confirmed, expired>>

\* withinSignal gives up on the append; the append itself goes on.
IntentTimesOut(c) ==
  /\ Executing /\ pc[c] = "intent" /\ c \in expired
  /\ AppendFailed(c)
  /\ failed' = failed \cup {c}
  /\ Goto(c, "settling")
  /\ UNCHANGED <<durableVars, workerVars, cr, rejected, confirmed, expired, inflight>>

\* The wrapped create rechecks the account and the deadline, then calls the driver.
MayCreate(c) == ~refillFailure /\ c \notin expired

IssueCreate(c) ==
  /\ Executing /\ pc[c] = "admitted" /\ MayCreate(c)
  /\ vendor' = [vendor EXCEPT ![Me(c)] = "creating"]
  /\ Step(c, "requested")
  /\ Goto(c, "creating")
  /\ UNCHANGED <<journal, retained, evidence, workerVars, failed, journalFailed, rejected,
                 confirmed, expired, refillFailure, inflight>>

\* Refused, or the harness fails before it calls the driver.
RefuseCreate(c) ==
  /\ Executing /\ pc[c] = "admitted"
  /\ failed' = failed \cup {c}
  /\ Goto(c, "settling")
  /\ UNCHANGED <<durableVars, workerVars, cr, journalFailed, rejected, confirmed, expired,
                 refillFailure, inflight>>

-----------------------------------------------------------------------------
(* The wrapped create: it goes on whether or not the harness still waits *)

\* driver.create returned a session: its identity is retained, then journalled.
CreateReturns(c) ==
  /\ Executing /\ cr[c] = "requested" /\ vendor[Me(c)] \in {"live", "gone"}
  /\ \/ /\ c \notin expired
        /\ retained' = retained \cup {Me(c)}
        /\ inflight' = inflight \cup {Rec(Me(c), "allocated")}
        /\ Step(c, "recording")
        /\ UNCHANGED <<journalFailed, refillFailure>>
     \/ /\ c \in expired               \* the startup signal is aborted already
        /\ retained' = retained \cup {Me(c)}
        /\ AppendFailed(c)
        /\ Step(c, "undoing")
        /\ UNCHANGED inflight
     \/ /\ refillFailure' = TRUE       \* allocation.json could not be written
        /\ Step(c, "undoing")
        /\ UNCHANGED <<retained, journalFailed, inflight>>
  /\ UNCHANGED <<journal, vendor, evidence, workerVars, pc, failed, rejected, confirmed, expired>>

\* Any error but FailedCreateCleanupError: the driver proved that nothing is
\* left. A concurrency limit reported by the vendor also stops refill.
CreateRejects(c) ==
  /\ Executing /\ cr[c] = "requested"
  /\ vendor' = [vendor EXCEPT ![Me(c)] = "gone"]
  /\ rejected' = rejected \cup {c}
  /\ refillFailure' \in {refillFailure, TRUE}
  /\ Step(c, "failed")
  /\ UNCHANGED <<journal, retained, evidence, workerVars, pc, failed, journalFailed, confirmed,
                 expired, inflight>>

\* FailedCreateCleanupError: the allocation is unresolved. Its identity is
\* retained when the error carries one.
CreateUncertain(c) ==
  /\ Executing /\ cr[c] = "requested"
  /\ retained' \in {retained, retained \cup {Me(c)}}
  /\ refillFailure' = TRUE
  /\ Step(c, "failed")
  /\ UNCHANGED <<journal, vendor, evidence, workerVars, pc, failed, journalFailed, rejected,
                 confirmed, expired, inflight>>

AllocatedSettles(c) ==
  /\ Executing /\ cr[c] = "recording" /\ Rec(Me(c), "allocated") \in inflight
  /\ \/ /\ Lands(Rec(Me(c), "allocated"))
        /\ Step(c, "session")
        /\ UNCHANGED <<journalFailed, refillFailure>>
     \/ /\ MayLand(Rec(Me(c), "allocated"))
        /\ AppendFailed(c)
        /\ Step(c, "undoing")
  /\ UNCHANGED <<vendor, retained, evidence, workerVars, pc, failed, rejected, confirmed, expired>>

AllocatedTimesOut(c) ==
  /\ Executing /\ cr[c] = "recording" /\ c \in expired
  /\ AppendFailed(c)
  /\ Step(c, "undoing")
  /\ UNCHANGED <<durableVars, workerVars, pc, failed, rejected, confirmed, expired, inflight>>

\* Best-effort session.destroy within 15 s; its outcome is not looked at.
UndoCreate(c) ==
  /\ Executing /\ cr[c] = "undoing"
  /\ MayRemove(Me(c))
  /\ Step(c, "failed")
  /\ UNCHANGED <<journal, retained, evidence, workerVars, pc, failed, journalFailed, rejected,
                 confirmed, expired, refillFailure, inflight>>

\* The session arrived after the harness gave up: it is destroyed, unobserved.
DiscardLate(c) ==
  /\ Executing /\ cr[c] = "session" /\ pc[c] # "creating"
  /\ MayRemove(Me(c))
  /\ Step(c, "discarded")
  /\ UNCHANGED <<journal, retained, evidence, workerVars, pc, failed, journalFailed, rejected,
                 confirmed, expired, refillFailure, inflight>>

-----------------------------------------------------------------------------
(* The harness: executeSuite awaits the create, works, tears down *)

HarnessGetsSession(c) ==
  /\ Executing /\ pc[c] = "creating" /\ cr[c] = "session"
  /\ Step(c, "owned")
  /\ Goto(c, "working")
  /\ UNCHANGED <<durableVars, workerVars, failed, journalFailed, rejected, confirmed, expired,
                 refillFailure, inflight>>

HarnessGetsError(c) ==
  /\ Executing /\ pc[c] = "creating" /\ cr[c] = "failed"
  /\ failed' = failed \cup {c}
  /\ Goto(c, "settling")
  /\ UNCHANGED <<durableVars, workerVars, cr, journalFailed, rejected, confirmed, expired,
                 refillFailure, inflight>>

\* Mutant: the race starts when the driver has answered.
UnrecordedCreate == {"recording", "undoing"}

\* Where a create may be when the harness stops waiting for it.
UnansweredCreate == {"requested", "recording", "undoing"}

\* withTimeout races the create and loses interest; nothing is cancelled.
HarnessTimesOut(c) ==
  /\ Executing /\ pc[c] = "creating" /\ cr[c] \in UnansweredCreate
  /\ failed' = failed \cup {c}
  /\ Goto(c, "settling")
  /\ UNCHANGED <<durableVars, workerVars, cr, journalFailed, rejected, confirmed, expired,
                 refillFailure, inflight>>

\* The suite ends, well or not, and the session is destroyed: with an
\* acknowledgement the removal is then observed, without one it is unresolved.
SuiteEnds(c) ==
  /\ Executing /\ pc[c] = "working"
  /\ MayRemove(Me(c))
  /\ \/ Goto(c, "confirming") /\ failed' \in {failed, failed \cup {c}}
     \/ Goto(c, "settling") /\ failed' = failed \cup {c}
  /\ UNCHANGED <<journal, retained, evidence, workerVars, cr, journalFailed, rejected, confirmed,
                 expired, refillFailure, inflight>>

\* Mutant: the acknowledgement of the destroy request is taken for absence.
AcknowledgedAbsent(c) == pc[c] = "confirming"

\* The control plane no longer shows the sandbox running.
ObservedAbsent(c) == vendor[Me(c)] = "gone"

\* confirmCleanup observes a state other than running, within 15 s or not at
\* all; the cleanup receipt that says so may itself fail to be written.
ConfirmCleanup(c) ==
  /\ Executing /\ pc[c] = "confirming"
  /\ \/ /\ ObservedAbsent(c)
        /\ confirmed' = confirmed \cup {c}
        /\ UNCHANGED failed
     \/ failed' = failed \cup {c} /\ UNCHANGED confirmed
  /\ Goto(c, "settling")
  /\ UNCHANGED <<durableVars, workerVars, cr, journalFailed, rejected, expired, refillFailure,
                 inflight>>

-----------------------------------------------------------------------------
(* runCell after the harness *)

\* Mutant: the batch goes on after an unresolved cleanup.
StopsOnJournalFailure(c, cleanup, js) == c \in js

\* What makes a finished attempt stop the account.
StopsRefill(c, cleanup, js) == cleanup = "unresolved" \/ c \in js

\* Refill stops unless ownership is clear, and the attempt evidence is written;
\* when the schema or the disk refuses it, runCell rejects without evidence.
\* fs, js: the tasks failed, and those whose journal failed, by now.
Seal(c, cleanup, fs, js) ==
  /\ failed' = fs
  /\ journalFailed' = js
  /\ refillFailure' = (refillFailure \/ StopsRefill(c, cleanup, js))
  /\ \/ /\ evidence' = [evidence EXCEPT ![Me(c)] =
             [outcome  |-> IF c \notin fs /\ cleanup = "confirmed" THEN "completed" ELSE "failed",
              cleanup  |-> cleanup,
              retained |-> Me(c) \in retained]]
        /\ Goto(c, "uploading")
     \/ UNCHANGED evidence /\ Goto(c, "done")

\* Mutant: a session destroyed after its failed journal append counts as rejected.
EmptyOnceUndone(c) ==
  ~createStarted(c) \/ c \in rejected \/ (cr[c] = "failed" /\ c \in journalFailed)

\* Mutant: every failed create is taken for one that left nothing.
EmptyOnceFailed(c) == ~createStarted(c) \/ cr[c] = "failed"

\* Intents known to have no remaining allocation.
KnownEmpty(c) == ~createStarted(c) \/ c \in rejected

Settle(c) ==
  /\ Executing /\ pc[c] = "settling"
  /\ \/ /\ c \in confirmed /\ allocationRecorded(c)
        /\ inflight' = inflight \cup {Rec(Me(c), "absent")}
        /\ Goto(c, "releasing-absent")
        /\ UNCHANGED <<failed, journalFailed, evidence, refillFailure>>
     \/ /\ c \notin confirmed
        /\ KnownEmpty(c) /\ ~admissionFailure
        /\ Goto(c, "reading")
        /\ UNCHANGED <<failed, journalFailed, evidence, refillFailure, inflight>>
     \/ /\ c \notin confirmed
        /\ ~KnownEmpty(c) \/ admissionFailure
        /\ Seal(c, IF KnownEmpty(c) THEN "not-allocated" ELSE "unresolved",
                failed, journalFailed)
        /\ UNCHANGED inflight
  /\ UNCHANGED <<journal, vendor, retained, workerVars, cr, rejected, confirmed, expired>>

\* journal.read waits for this process's own appends, then fetches the branch.
ReadForRelease(c) ==
  /\ Executing /\ pc[c] = "reading"
  /\ Rec(Me(c), "intent") \notin inflight
  /\ \/ /\ HasRecord(Me(c), "intent")
        /\ inflight' = inflight \cup {Rec(Me(c), "not-allocated")}
        /\ Goto(c, "releasing-none")
        /\ UNCHANGED <<failed, journalFailed, evidence, refillFailure>>
     \/ /\ ~HasRecord(Me(c), "intent") \/ StaleReads
        /\ Seal(c, "not-allocated", failed, journalFailed)
        /\ UNCHANGED inflight
     \/ /\ Seal(c, "not-allocated", failed \cup {c}, journalFailed \cup {c})
        /\ UNCHANGED inflight
  /\ UNCHANGED <<journal, vendor, retained, workerVars, cr, rejected, confirmed, expired>>

ReleaseSettles(c, k, cleanup) ==
  /\ Rec(Me(c), k) \in inflight
  /\ \/ Lands(Rec(Me(c), k)) /\ Seal(c, cleanup, failed, journalFailed)
     \/ MayLand(Rec(Me(c), k)) /\ Seal(c, cleanup, failed \cup {c}, journalFailed \cup {c})
  /\ UNCHANGED <<vendor, retained, workerVars, cr, rejected, confirmed, expired>>

AbsentSettles(c) ==
  /\ Executing /\ pc[c] = "releasing-absent"
  /\ ReleaseSettles(c, "absent", "confirmed")

NotAllocatedSettles(c) ==
  /\ Executing /\ pc[c] = "releasing-none"
  /\ ReleaseSettles(c, "not-allocated", "not-allocated")

\* The upload of the attempt directory succeeds, fails or times out.
Upload(c) ==
  /\ Executing /\ pc[c] = "uploading"
  /\ Goto(c, "done")
  /\ UNCHANGED <<durableVars, workerVars, cr, failed, journalFailed, rejected, confirmed, expired,
                 refillFailure, inflight>>

-----------------------------------------------------------------------------
(* Appends nobody waits for any more, and the end of the process *)

Awaited(r) ==
  \/ \E c \in Cell : r.attempt = Me(c) /\
       \/ r.kind = "intent" /\ pc[c] = "intent"
       \/ r.kind = "allocated" /\ cr[c] = "recording"
       \/ r.kind = "absent" /\ pc[c] = "releasing-absent"
       \/ r.kind = "not-allocated" /\ pc[c] = "releasing-none"
  \/ proc = "recovering"

OrphanSettles(r) ==
  /\ Executing /\ r \in inflight /\ ~Awaited(r)
  /\ MayLand(r)
  /\ UNCHANGED <<vendor, retained, evidence, workerVars, cellVars, refillFailure>>

\* The request being sent when the process ends may still take effect; the
\* appends queued behind it die with the process.
ProcessEnds ==
  /\ \/ UNCHANGED journal
     \/ \E r \in inflight : journal' = journal \cup {r}
  /\ inflight' = {}
  /\ proc' = "idle" /\ todo' = {}
  /\ FreshProcess
  /\ UNCHANGED <<vendor, retained, evidence, run, stray>>

BatchEnds ==
  /\ Executing /\ \A c \in Cell : pc[c] = "done"
  /\ ProcessEnds

\* SIGKILL, a lost runner, or a job timeout.
Crash ==
  /\ proc # "idle"
  /\ ProcessEnds

-----------------------------------------------------------------------------
Admit ==
  \/ StartRun \/ AdmissionFails \/ RecoveryEnds \/ ReconcileDestroys \/ ReconcileEnds
  \/ \E a \in Attempt : RecoverDestroys(a) \/ RecoverConfirms(a) \/ RecoverySettles(a)

RunCell(c) ==
  \/ IntentSettles(c) \/ IntentTimesOut(c) \/ IssueCreate(c) \/ RefuseCreate(c)
  \/ HarnessGetsSession(c) \/ HarnessGetsError(c) \/ HarnessTimesOut(c)
  \/ SuiteEnds(c) \/ ConfirmCleanup(c)
  \/ Settle(c) \/ ReadForRelease(c) \/ AbsentSettles(c) \/ NotAllocatedSettles(c) \/ Upload(c)

WrappedCreate(c) ==
  \/ CreateReturns(c) \/ CreateRejects(c) \/ CreateUncertain(c)
  \/ AllocatedSettles(c) \/ AllocatedTimesOut(c) \/ UndoCreate(c) \/ DiscardLate(c)

Next ==
  \/ Admit
  \/ \E c \in Cell : Launch(c) \/ Deadline(c) \/ RunCell(c) \/ WrappedCreate(c)
  \/ \E r \in inflight : OrphanSettles(r)
  \/ \E a \in Attempt : VendorMaterialises(a) \/ VendorReclaims(a)
  \/ BatchEnds \/ Crash

Spec == Init /\ [][Next]_vars

(* What the worker's own timers and its event loop guarantee: admission, a  *)
(* journal request, every wait of the harness and the upload are bounded.   *)
(* Nothing is assumed of the vendor, nor of a driver.create ever settling.  *)
Fairness ==
  /\ WF_vars(Admit)
  /\ \A c \in Cell : WF_vars(Launch(c)) /\ WF_vars(RunCell(c))
  /\ WF_vars(\E r \in inflight : OrphanSettles(r))

FairSpec == Spec /\ Fairness

-----------------------------------------------------------------------------
(* Properties *)

\* "Ownership is durable before create, and lasts through observed removal":
\* whatever the vendor runs or may still start has its intent on the journal
\* branch and no release, across crashes, timeouts and lost responses.
OwnershipIsDurable ==
  \A a \in Held : HasRecord(a, "intent") /\ ~Released(a)

\* The account as its owner sees it: intents open and closed, sandboxes held.
WithRecord(kinds) == {r.attempt : r \in {j \in journal : j.kind \in kinds}}
ClosedAttempts    == WithRecord(ReleaseKind)
OpenAttempts      == WithRecord({"intent"}) \ ClosedAttempts

Ledger == INSTANCE OwnershipLedger
            WITH Capacity <- MaxConcurrency, open <- OpenAttempts, closed <- ClosedAttempts,
                 held <- Held, started <- {a \in Attempt : vendor[a] # "none"}

\* Workers, crashes, timeouts and lost responses together implement a ledger in
\* which a sandbox only runs on an open entry, an entry is never reopened or
\* used twice, and no more sandboxes run than the account has room for.
ImplementsLedger == Ledger!Spec

\* The account never carries more sandboxes than the plan's concurrency, those
\* an abandoned create or an earlier worker may have left behind included.
CapacityRespected == Cardinality(Held) <= MaxConcurrency

\* The sealed attempt.json of an attempt is never more optimistic than the
\* vendor or the journal: cleanup receipts and outcomes can be published.
EvidenceIsTruthful ==
  \A a \in Attempt :
    /\ evidence[a].cleanup = "confirmed" => vendor[a] = "gone"
    /\ evidence[a].cleanup = "not-allocated" =>
         a \notin Held /\ ~HasRecord(a, "allocated")
    /\ evidence[a].outcome = "completed" => HasRecord(a, "absent")

\* The journal never reaches a state that recoverAccount refuses as
\* contradictory, which no later worker could get past.
JournalNeverContradicts ==
  \A a \in Attempt :
    /\ (\E k \in Kind : HasRecord(a, k)) => HasRecord(a, "intent")
    /\ HasRecord(a, "absent") => HasRecord(a, "allocated")
    /\ HasRecord(a, "not-allocated") => ~HasRecord(a, "allocated") /\ ~HasRecord(a, "absent")

\* A cell of a plan reaches the vendor at most once in the account's life, even
\* when the same plan is executed again after a crash.
OneCreatePerPlannedCell ==
  \A a, b \in Attempt :
    /\ PlanOf[a[1]] = PlanOf[b[1]] /\ a[2] = b[2]
    /\ vendor[a] # "none" /\ vendor[b] # "none"
    => a = b

\* An attempt that failed before a sandbox was journalled stays recoverable by
\* identity: allocation.json, once written, is covered by the sealed digest.
\* (ADR 0010: the retained record "makes the intent resolvable".)
RetainedIdentityIsSealed ==
  \A a \in retained : evidence[a] # NoEvidence => evidence[a].retained

\* Unknown creates block admission: a create is issued only on an account swept
\* of strays, and when every other durable intent is released or belongs to a
\* cell this worker still runs.
IssuesOnSettledAccount ==
  \A c \in Cell : proc = "executing" /\ vendor[Me(c)] = "none" /\ vendor'[Me(c)] = "creating" =>
    /\ ~stray
    /\ \A a \in Attempt : HasRecord(a, "intent") =>
         Released(a) \/ (a[1] = run /\ a[2] \in Pending)
CreatesOnlyOnSettledAccount == [][IssuesOnSettledAccount]_vars

\* A batch comes to its end, or its process dies, whatever the vendor and the
\* drivers do: no create, append or observation is waited for without a bound.
BatchFinishes ==
  proc # "idle" ~> (proc = "idle" \/ \A c \in Cell : pc[c] = "done")
=============================================================================
