-------------------------- MODULE OperatorRecovery --------------------------
(***************************************************************************)
(* The recovery commands of apps/cli, which an operator runs to close what *)
(* one failed attempt left open on an account, against the admission of a  *)
(* new workflow of that account.  Every process is the list of phases it   *)
(* has left; a phase is the code between two awaits.  A process can die or *)
(* give up in any phase, and the append it had issued may land afterwards. *)
(*                                                                         *)
(* The journal appends with a compare-and-swap on what it read, as         *)
(* GithubJournal shows.  External: the vendor's sandboxes.                 *)
(***************************************************************************)
EXTENDS Naturals, Sequences, FiniteSets

CONSTANTS
    Operators,   \* operators running a command at the same time
    MaxFaults,   \* bound: processes that give up for a reason of the outside
    LateAppends  \* may an append land after the process that issued it ended?

Workflow == "workflow"
Process  == Operators \cup {Workflow}

ASSUME OperatorsAssumption == "none" \notin Operators /\ Workflow \notin Operators
ASSUME FaultsAssumption    == MaxFaults \in Nat

-----------------------------------------------------------------------------
(* Records of the attempt. "other" is a record of another attempt; `by` is *)
(* the operator a cleanup recovery is attributed to.                       *)

Rec(kind, outcome, by) == [kind |-> kind, outcome |-> outcome, by |-> by]
Intent    == Rec("intent", "none", "none")
Allocated == Rec("allocated", "none", "none")
Other     == Rec("other", "none", "none")
Absent    == Rec("released", "absent", "none")
NotAllocated     == Rec("released", "not-allocated", "none")
CompletedCreate  == Rec("released", "reconciled", "none")
Recovered(o)     == Rec("released", "absent", o)
PostRun(o)       == Rec("released", "reconciled", o)
Attested(o)      == Rec("cleanup-attested", "none", o)
Record == {Intent, Allocated, Other, Absent, NotAllocated, CompletedCreate}
            \cup UNION {{Recovered(o), PostRun(o), Attested(o)} : o \in Operators}

Has(records, kind) == \E r \in records : r.kind = kind
Released(records)  == {r \in records : r.kind = "released"}

Program == {"allocated", "not-allocated", "completed-create", "cleanup", "admission"}
Phase   == {"quiet", "read", "replay", "remove", "observe", "sweep", "release",
            "persist", "work"}

\* What the sealed attempt says. `detail` is the create-failure marker: an
\* executor stop before create, one of the failures reviewed by revision, or any.
Evidence == [cleanup : {"unresolved", "not-allocated"}, retained : BOOLEAN,
             executed : BOOLEAN, run : BOOLEAN,
             detail : {"pre-create-stop", "completed-create", "named", "other"}]

VARIABLES
    evidence,  \* the attempt's sealed evidence
    journal,   \* the account's journal
    late,      \* appends nobody waits for any more, with what they compare to
    sandbox,   \* the attempt's sandbox at the vendor
    other,     \* the sandbox of the workflow that was admitted
    local,     \* cleanup-recovery.json: none, or the operator it is attributed to
    program,   \* what each process runs
    todo,      \* the phases it has left
    seen,      \* the attempt's records as it knows them
    append,    \* its append in flight
    cached,    \* the journal as its last acknowledged append left it
    faults

journalVars == <<journal, late>>
processVars == <<program, todo, seen, append, cached>>
vars == <<evidence, journalVars, sandbox, other, local, processVars, faults>>

Update(base, r) == [base |-> base, record |-> r]
None == Update({}, Other)

TypeOK ==
    /\ evidence \in Evidence
    /\ journal \subseteq Record
    /\ \A u \in late : u.record \in Record /\ u.base \subseteq Record
    /\ sandbox \in {"none", "creating", "running", "gone"}
    /\ other \in {"none", "running"}
    /\ local \in Operators \cup {"none"}
    /\ program \in [Process -> Program]
    /\ \A p \in Process : /\ \A i \in DOMAIN todo[p] : todo[p][i] \in Phase
                          /\ seen[p] \subseteq Record
                          /\ append[p].record \in Record /\ append[p].base \subseteq Record
                          /\ cached[p] \subseteq Record
    /\ faults \in 0..MaxFaults

-----------------------------------------------------------------------------
(* What a batch leaves of a failed attempt.                                *)

Sealed(e) ==
    /\ e.executed => e.retained
    /\ e.cleanup = "not-allocated" =>
         ~e.retained /\ ~e.executed /\ e.detail \in {"pre-create-stop", "other"}
    /\ e.cleanup = "unresolved" => e.detail # "pre-create-stop"
    /\ e.detail \in {"completed-create", "named"} => ~e.retained /\ ~e.executed

Left(e) ==
    CASE e.cleanup = "not-allocated" -> {"none"}
      [] e.retained \/ e.detail \in {"completed-create", "named"} -> {"running", "gone"}
      [] OTHER -> {"none", "creating", "running", "gone"}

\* The executor's own last append, when it was lost, may land any time.
Lost(e) == IF e.cleanup = "not-allocated" THEN {Update({Intent}, NotAllocated)}
           ELSE IF e.retained /\ ~e.executed THEN {Update({Intent}, Allocated)} ELSE {}

Init ==
    /\ evidence \in {e \in Evidence : Sealed(e)}
    /\ sandbox \in Left(evidence)
    /\ journal \in IF evidence.executed THEN {{Intent, Allocated}}
                   ELSE IF evidence.retained THEN {{Intent}, {Intent, Allocated}}
                   ELSE {{Intent}}
    /\ late \in SUBSET (IF LateAppends THEN Lost(evidence) ELSE {})
    /\ other = "none" /\ local = "none" /\ faults = 0
    /\ program = [p \in Process |-> "admission"]
    /\ todo = [p \in Process |-> <<>>]
    /\ seen = [p \in Process |-> {}]
    /\ append = [p \in Process |-> None]
    /\ cached = [p \in Process |-> {}]

Mine == journal \ {Other}

Doing(p, phase) == todo[p] # <<>> /\ Head(todo[p]) = phase /\ append[p] = None

Advance(p) == todo' = [todo EXCEPT ![p] = Tail(@)]

-----------------------------------------------------------------------------
(* Which attempts each command accepts, and the phases it runs.            *)

\* Proof that the create was never called: an executor's own stop.
NeverStarted == evidence.cleanup = "not-allocated" /\ evidence.detail = "pre-create-stop"

\* Mutant: the reviewed failure is not told from an ambiguous create.
AnyUnidentified == evidence.cleanup = "unresolved" /\ ~evidence.executed /\ ~evidence.retained

\* The reviewed revision: the create had returned when the journal refused it.
CreateCompleted == AnyUnidentified /\ evidence.run /\ evidence.detail = "completed-create"

\* A session that was retained and never reached the harness.
NeverHandedOver == evidence.cleanup = "unresolved" /\ evidence.retained /\ ~evidence.executed

\* A cleanup recovery the journal holds already.
Previous(records) == {r \in records : r.by # "none"}

CleanupPhases ==
    IF Previous(Mine) # {} THEN <<"persist">>
    ELSE IF ~evidence.retained
    THEN <<"quiet", "observe", "quiet", "read", "release", "persist">>
    ELSE IF Allocated \in Mine
    THEN <<"quiet", "remove", "quiet", "read", "release", "persist">>
    ELSE <<"quiet", "read", "replay", "remove", "quiet", "read", "release", "persist">>

\* Mutant: the command refuses an attempt that has its recovery.
AppliesOnce ==
    /\ evidence.cleanup = "unresolved" /\ evidence.run
    /\ Mine \in {{Intent}, {Intent, Allocated}, {Intent, Allocated, Absent}}
    /\ evidence.retained \/ evidence.detail = "named"

CleanupApplies ==
    /\ evidence.cleanup = "unresolved" /\ evidence.run
    /\ \/ Previous(Mine) # {}
       \/ /\ Mine \in {{Intent}, {Intent, Allocated}, {Intent, Allocated, Absent}}
          /\ evidence.retained \/ evidence.detail = "named"

\* Mutant: the release alone, as when the vendor's sandbox is known to be gone.
WithoutReplay == <<"quiet", "remove", "quiet", "read", "release">>

\* Restoring the lost allocation first leaves what an interrupted run leaves.
AllocatedPhases == <<"quiet", "replay", "remove", "quiet", "read", "release">>

CompletedPhases == <<"quiet", "sweep", "quiet", "read", "release">>

Begin(o, command, phases) ==
    /\ o \in Operators /\ todo[o] = <<>>
    /\ program' = [program EXCEPT ![o] = command]
    /\ todo' = [todo EXCEPT ![o] = phases]
    /\ seen' = [seen EXCEPT ![o] = Mine]
    /\ cached' = [cached EXCEPT ![o] = {}]
    /\ UNCHANGED <<evidence, journalVars, sandbox, other, local, append, faults>>

RecoverAllocatedIntent(o) ==
    NeverHandedOver /\ Mine = {Intent} /\ Begin(o, "allocated", AllocatedPhases)

RecoverNotAllocatedIntent(o) ==
    NeverStarted /\ Mine = {Intent}
    /\ Begin(o, "not-allocated", <<"quiet", "read", "quiet", "release">>)

RecoverCompletedCreate(o) ==
    CreateCompleted /\ Mine = {Intent} /\ Begin(o, "completed-create", CompletedPhases)

RecoverExperimentCleanup(o) == CleanupApplies /\ Begin(o, "cleanup", CleanupPhases)

-----------------------------------------------------------------------------
(* Admission of a workflow (recoverAccount, then reconcileAccount).        *)

OneOfEachKind(records) == \A r, q \in records : r.kind = q.kind => r = q

\* An attestation supplements an ordinary release by identity.
AttestationFits(records) ==
    (\E r \in records : r.kind = "cleanup-attested") =>
        Cardinality(records) = 4 /\ {Intent, Allocated, Absent} \subseteq records

ReleaseFits(records) ==
    \A r \in Released(records) : r.outcome = "absent" <=> Allocated \in records

Consistent(records) ==
    /\ OneOfEachKind(records)
    /\ AttestationFits(records)
    /\ records # {} => Intent \in records
    /\ ReleaseFits(records)

Admits(records) == Consistent(records) /\ (Released(records) # {} \/ Allocated \in records)

\* Mutant: an interrupted allocation is left to the sweep of the account.
SweepOnly == <<"sweep", "work">>

AdmissionPhases ==
    IF Released(Mine) = {} THEN <<"remove", "release", "sweep", "work">> ELSE <<"sweep", "work">>

\* Mutant: an intent without an allocation is skipped, not refused.
SkipsOpenIntents ==
    /\ todo[Workflow] = <<>> /\ Consistent(Mine) /\ Allocated \notin Mine
    /\ todo' = [todo EXCEPT ![Workflow] = <<"sweep", "work">>]
    /\ seen' = [seen EXCEPT ![Workflow] = Mine]
    /\ cached' = [cached EXCEPT ![Workflow] = {}]
    /\ UNCHANGED <<evidence, journalVars, sandbox, other, local, program, append, faults>>

StartAdmission ==
    /\ todo[Workflow] = <<>> /\ Admits(Mine)
    /\ todo' = [todo EXCEPT ![Workflow] = AdmissionPhases]
    /\ seen' = [seen EXCEPT ![Workflow] = Mine]
    /\ cached' = [cached EXCEPT ![Workflow] = {}]
    /\ UNCHANGED <<evidence, journalVars, sandbox, other, local, program, append, faults>>

\* The admitted workflow records and creates a sandbox of its own, then ends.
Work ==
    /\ Doing(Workflow, "work")
    /\ \/ /\ other = "none" /\ other' = "running"
          /\ journal' = journal \cup {Other}
          /\ UNCHANGED todo
       \/ other = "running" /\ other' = "none" /\ Advance(Workflow) /\ UNCHANGED journal
    /\ UNCHANGED <<evidence, late, sandbox, local, program, seen, append, cached, faults>>

-----------------------------------------------------------------------------
(* The phases.                                                             *)

\* assertQuiescent: the original workflow completed and no other is under way.
Quiescent(o) ==
    /\ Doing(o, "quiet") /\ todo[Workflow] = <<>>
    /\ Advance(o)
    /\ UNCHANGED <<evidence, journalVars, sandbox, other, local, program, seen, append, cached,
                   faults>>

\* The attempt's records are still the ones the command knows.
Read(o) ==
    /\ Doing(o, "read") /\ Mine = seen[o]
    /\ Advance(o)
    /\ UNCHANGED <<evidence, journalVars, sandbox, other, local, program, seen, append, cached,
                   faults>>

\* confirmRemoval: destroyById, and an observation that is not "running".
Remove(p) ==
    /\ Doing(p, "remove")
    /\ \/ sandbox = "running" /\ sandbox' = "gone" /\ UNCHANGED todo
       \/ sandbox # "running" /\ Advance(p) /\ UNCHANGED sandbox
    /\ UNCHANGED <<evidence, journalVars, other, local, program, seen, append, cached, faults>>

\* The reviewed failures without an identity: the vendor shows nothing running.
Observe(o) ==
    /\ Doing(o, "observe") /\ sandbox # "running"
    /\ Advance(o)
    /\ UNCHANGED <<evidence, journalVars, sandbox, other, local, program, seen, append, cached,
                   faults>>

\* reconcileAccount: everything the account shows is destroyed.
Sweep(p) ==
    /\ Doing(p, "sweep")
    /\ \/ sandbox = "running" /\ sandbox' = "gone" /\ UNCHANGED <<other, todo>>
       \/ other = "running" /\ other' = "none" /\ UNCHANGED <<sandbox, todo>>
       \/ sandbox # "running" /\ other # "running" /\ Advance(p) /\ UNCHANGED <<sandbox, other>>
    /\ UNCHANGED <<evidence, journalVars, local, program, seen, append, cached, faults>>

-----------------------------------------------------------------------------
(* Appends. An append compares with the journal this process wrote last, or*)
(* with the one it reads now.                                              *)

\* Mutant: every release by identity is attributed to who makes it.
AttributedRelease(p) == Rec("released", "absent", p)

ReleaseOf(p) ==
    CASE program[p] = "not-allocated"    -> NotAllocated
      [] program[p] = "completed-create" -> CompletedCreate
      [] program[p] = "cleanup"          -> IF Absent \in seen[p] THEN Attested(p)
                                            ELSE IF Allocated \in seen[p] THEN Recovered(p)
                                            ELSE PostRun(p)
      [] OTHER -> Absent

Wanted(p) == IF Head(todo[p]) = "replay" THEN Allocated ELSE ReleaseOf(p)

Base(p) == IF cached[p] # {} THEN cached[p] ELSE journal

\* A journal holds one record of a kind for an attempt.
NoneOfTheKind(p) == ~Has(Base(p), Wanted(p).kind)

Issue(p) ==
    /\ Doing(p, "replay") \/ Doing(p, "release")
    /\ NoneOfTheKind(p)
    /\ append' = [append EXCEPT ![p] = Update(Base(p), Wanted(p))]
    /\ UNCHANGED <<evidence, journalVars, sandbox, other, local, program, todo, seen, cached,
                   faults>>

Acknowledged(p) ==
    /\ append[p] # None /\ journal = append[p].base
    /\ journal' = journal \cup {append[p].record}
    /\ seen' = [seen EXCEPT ![p] = @ \cup {append[p].record}]
    /\ cached' = [cached EXCEPT ![p] = journal']
    /\ append' = [append EXCEPT ![p] = None]
    /\ Advance(p)
    /\ UNCHANGED <<evidence, late, sandbox, other, local, program, faults>>

LateLands(u) ==
    /\ u \in late /\ journal = u.base
    /\ journal' = journal \cup {u.record}
    /\ late' = late \ {u}
    /\ UNCHANGED <<evidence, sandbox, other, local, processVars, faults>>

\* cleanup-recovery.json, once the journal holds the recovery.
Recovery(o) == CHOOSE r \in Previous(seen[o]) : TRUE

Kept(o) == Recovery(o).by

Persist(o) ==
    /\ Doing(o, "persist") /\ local \in {"none", Kept(o)}
    /\ local' = Kept(o)
    /\ Advance(o)
    /\ UNCHANGED <<evidence, journalVars, sandbox, other, program, seen, append, cached, faults>>

-----------------------------------------------------------------------------
(* Ends.                                                                   *)

Refused(p) ==
    \/ Doing(p, "quiet") /\ todo[Workflow] # <<>>
    \/ Doing(p, "read") /\ Mine # seen[p]
    \/ Doing(p, "observe") /\ sandbox = "running"
    \/ (Doing(p, "replay") \/ Doing(p, "release")) /\ ~NoneOfTheKind(p)
    \/ Doing(p, "persist") /\ local \notin {"none", Kept(p)}
    \/ append[p] # None /\ journal # append[p].base

End(p) ==
    /\ todo' = [todo EXCEPT ![p] = <<>>]
    /\ append' = [append EXCEPT ![p] = None]
    /\ UNCHANGED <<evidence, sandbox, other, local, program, seen, cached>>

Refuse(p) == todo[p] # <<>> /\ Refused(p) /\ End(p) /\ UNCHANGED <<journalVars, faults>>

\* Killed, out of time, or a failing call: its append was not applied, was
\* applied without an answer, or may land after all.
GiveUp(p) ==
    /\ todo[p] # <<>> /\ faults < MaxFaults
    /\ End(p)
    /\ faults' = faults + 1
    /\ \/ UNCHANGED journalVars
       \/ /\ append[p] # None /\ journal = append[p].base
          /\ journal' = journal \cup {append[p].record} /\ UNCHANGED late
       \/ /\ append[p] # None /\ LateAppends
          /\ late' = late \cup {append[p]} /\ UNCHANGED journal

\* The vendor takes an ambiguous create, or reaps a sandbox.
Vendor ==
    /\ \/ sandbox = "creating" /\ sandbox' \in {"running", "none"}
       \/ sandbox = "running" /\ sandbox' = "gone"
    /\ UNCHANGED <<evidence, journalVars, other, local, processVars, faults>>

Start(o) == RecoverAllocatedIntent(o) \/ RecoverNotAllocatedIntent(o)
              \/ RecoverCompletedCreate(o) \/ RecoverExperimentCleanup(o)

Command(o) == Quiescent(o) \/ Read(o) \/ Remove(o) \/ Observe(o) \/ Sweep(o) \/ Issue(o)
                \/ Acknowledged(o) \/ Persist(o) \/ Refuse(o)

Admission == \/ Work \/ Remove(Workflow) \/ Sweep(Workflow) \/ Issue(Workflow)
             \/ Acknowledged(Workflow) \/ Refuse(Workflow)

Next ==
    \/ \E o \in Operators : Start(o) \/ Command(o)
    \/ StartAdmission \/ Admission
    \/ \E p \in Process : GiveUp(p)
    \/ \E u \in late : LateLands(u)
    \/ Vendor

Spec == Init /\ [][Next]_vars

\* Workflows of the account keep being dispatched, running processes proceed,
\* and an operator whose command was interrupted runs it again.
FairSpec ==
    /\ Spec
    /\ WF_vars(StartAdmission) /\ WF_vars(Admission)
    /\ \A o \in Operators : WF_vars(Command(o)) /\ WF_vars(RecoverExperimentCleanup(o))

-----------------------------------------------------------------------------
(* Properties.                                                             *)

\* Whatever commands ran, raced or died, and whatever append landed late, the
\* next admission can read the account: recoverAccount finds no contradiction
\* (allocated-intent-recovery.ts, "wedge admission again").
NeverWedged == Consistent(Mine)

\* Ownership is released only of a sandbox that does not run and cannot appear
\* any more: no command takes an ambiguous create for one that ended.
ReleasedMeansGone == Released(Mine) # {} => sandbox \notin {"creating", "running"}

\* As long as the attempt is open no command destroys the sandbox of a workflow,
\* although the quiescence it checked can be over when it sweeps: the open intent
\* keeps workflows out. (Once another process released the attempt, it may.)
SparesWorkflows ==
    [][(other = "running" /\ other' = "none") =>
          Work \/ Sweep(Workflow) \/ Released(Mine) # {}]_vars

\* An interrupted recovery is finished: once the lost allocation is on the journal,
\* admission alone releases its ownership; and a cleanup recovery on the journal
\* reaches the attempt's directory, whatever died between the two.
InterruptedIsFinished ==
    /\ (Allocated \in journal) ~> (Released(Mine) # {})
    /\ (Previous(Mine) # {}) ~> (local # "none")
=============================================================================
