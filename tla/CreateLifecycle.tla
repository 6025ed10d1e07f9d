--------------------------- MODULE CreateLifecycle ---------------------------
(***************************************************************************)
(* One create through the driver kit: the vendor call, the post-create     *)
(* checks and their rollback, and the reconciliation of a create whose     *)
(* remote acceptance is unknown (packages/driver/src/lib/computesdk.ts and *)
(* vendor-driver.ts; the artifact check is table.ts).                      *)
(*                                                                         *)
(* The vendor is external: it may allocate while the call is open, and     *)
(* after an error too unless its module declares provesAbsence; a listing  *)
(* shows an allocation at the latest Lag ticks after it was made, and may  *)
(* still show one that has just gone.  Time is kept as two ages.           *)
(***************************************************************************)
EXTENDS Integers

CONSTANTS
    Window,       \* absenceConfirmationMs, in ticks
    Lag,          \* the vendor's listing lag a proving module vouches for
    MaxAttempts,  \* createRecovery.maxAttempts
    MaxCleanups   \* bound: later cleanups asked of a failed create

VARIABLES
    provesAbsence,  \* the module's declared trait
    phase,          \* what the create (or a later cleanup) is doing
    verdict,        \* what its caller was told
    alloc,          \* the vendor's allocation for this attempt (external)
    open,           \* the request may still allocate (external)
    age,            \* ticks since the allocation, up to Lag (external)
    unresolved,     \* the marker is in `unresolved`
    idKnown,        \* parsedId: rollback goes by the vendor's id
    signal,         \* "live", "aborted", or "ignored" by the running recovery
    attempts,       \* reconciliation attempts made
    absentFor,      \* ticks since firstAbsentAt, up to Window; -1 is none
    cleanups        \* later cleanups asked for

vars == <<provesAbsence, phase, verdict, alloc, open, age, unresolved, idKnown,
          signal, attempts, absentFor, cleanups>>

TypeOK ==
    /\ provesAbsence \in BOOLEAN
    /\ phase \in {"idle", "calling", "checking", "observe", "sleep", "rollback", "over"}
    /\ verdict \in {"none", "handle", "rejected", "recoverable", "cleaned"}
    /\ alloc \in {"none", "live", "gone"}
    /\ open \in BOOLEAN
    /\ age \in 0..Lag
    /\ unresolved \in BOOLEAN
    /\ idKnown \in BOOLEAN
    /\ signal \in {"live", "aborted", "ignored"}
    /\ attempts \in 0..MaxAttempts
    /\ absentFor \in -1..Window
    /\ cleanups \in 0..MaxCleanups

Init ==
    /\ provesAbsence \in BOOLEAN
    /\ phase = "idle"
    /\ verdict = "none"
    /\ alloc = "none"
    /\ open = FALSE
    /\ age = 0
    /\ unresolved = FALSE
    /\ idKnown = FALSE
    /\ signal = "live"
    /\ attempts = 0
    /\ absentFor = -1
    /\ cleanups = 0

-----------------------------------------------------------------------------
(* The vendor and the clock.                                               *)

Allocate ==
    /\ open
    /\ alloc = "none"
    /\ alloc' = "live"
    /\ age' = 0
    /\ UNCHANGED <<provesAbsence, phase, verdict, open, unresolved, idKnown,
                   signal, attempts, absentFor, cleanups>>

Reap ==
    /\ alloc = "live"
    /\ alloc' = "gone"
    /\ UNCHANGED <<provesAbsence, phase, verdict, open, age, unresolved,
                   idKnown, signal, attempts, absentFor, cleanups>>

Tick ==
    /\ age' = IF alloc = "live" /\ age < Lag THEN age + 1 ELSE age
    /\ absentFor' = IF absentFor \in 0..(Window - 1) THEN absentFor + 1 ELSE absentFor
    /\ <<age, absentFor>>' # <<age, absentFor>>
    /\ UNCHANGED <<provesAbsence, phase, verdict, alloc, open, unresolved,
                   idKnown, signal, attempts, cleanups>>

Abort ==
    /\ phase # "over"
    /\ signal = "live"
    /\ signal' = "aborted"
    /\ UNCHANGED <<provesAbsence, phase, verdict, alloc, open, age, unresolved,
                   idKnown, attempts, absentFor, cleanups>>

\* What a marker lookup may answer: a vouched-for allocation shows after Lag.
MayFind == alloc # "none"
MayMiss == ~(alloc = "live" /\ provesAbsence /\ age = Lag)

-----------------------------------------------------------------------------
(* The create and its checks.                                              *)

End(what) ==
    /\ phase' = "over"
    /\ verdict' = what

\* A recovery that succeeds rethrows the primary error; a later cleanup of a
\* failed create marks it cleaned.
Recovered == End(IF verdict = "none" THEN "rejected" ELSE "cleaned")
NotRecovered == End("recoverable")

Call ==
    /\ phase = "idle"
    /\ \/ /\ signal = "aborted"
          /\ End("rejected")
          /\ UNCHANGED <<open, unresolved>>
       \/ /\ signal = "live"
          /\ phase' = "calling"
          /\ open' = TRUE
          /\ unresolved' = TRUE
          /\ UNCHANGED verdict
    /\ UNCHANGED <<provesAbsence, alloc, age, idKnown, signal, attempts,
                   absentFor, cleanups>>

\* The vendor refused before allocating: definitive, nothing to reconcile.
Refused ==
    /\ phase = "calling"
    /\ alloc = "none"
    /\ open' = FALSE
    /\ unresolved' = FALSE
    /\ End("rejected")
    /\ UNCHANGED <<provesAbsence, alloc, age, idKnown, signal, attempts,
                   absentFor, cleanups>>

StartReconciling(how) ==
    /\ phase' = "observe"
    /\ signal' = how
    /\ attempts' = 0
    /\ absentFor' = -1

\* Any other error leaves the remote outcome unknown and is reconciled under
\* the caller's signal.
Ambiguous ==
    /\ phase = "calling"
    /\ open' = ~provesAbsence
    /\ unresolved' = ~provesAbsence
    /\ StartReconciling(signal)
    /\ UNCHANGED <<provesAbsence, verdict, alloc, age, idKnown, cleanups>>

\* The wrapper returned a handle; its identity is not parsed yet.
Returned ==
    /\ phase = "calling"
    /\ alloc # "none"
    /\ open' = FALSE
    /\ phase' = "checking"
    /\ UNCHANGED <<provesAbsence, verdict, alloc, age, unresolved, idKnown,
                   signal, attempts, absentFor, cleanups>>

\* readSandboxId and parseVendorSandboxId; prepareAndVerifyCreatedRequest is
\* the first step that drops the marker from `unresolved`.
Identify ==
    /\ phase = "checking"
    /\ ~idKnown
    /\ signal = "live"
    /\ idKnown' = TRUE
    /\ UNCHANGED <<provesAbsence, phase, verdict, alloc, open, age, unresolved,
                   signal, attempts, absentFor, cleanups>>

Prepare ==
    /\ phase = "checking"
    /\ idKnown
    /\ unresolved
    /\ unresolved' = FALSE
    /\ UNCHANGED <<provesAbsence, phase, verdict, alloc, open, age, idKnown,
                   signal, attempts, absentFor, cleanups>>

Accept ==
    /\ phase = "checking"
    /\ idKnown /\ ~unresolved
    /\ signal = "live"
    /\ End("handle")
    /\ age' = 0   \* no lookup by the marker is left to age for
    /\ UNCHANGED <<provesAbsence, alloc, open, unresolved, idKnown, signal,
                   attempts, absentFor, cleanups>>

\* Any check fails, an abort included: roll back by the parsed id, or by the
\* marker when there is none.  This first rollback is given no signal.
CheckFails ==
    /\ phase = "checking"
    /\ IF idKnown
       THEN /\ phase' = "rollback"
            /\ signal' = "ignored"
            /\ UNCHANGED <<attempts, absentFor>>
       ELSE StartReconciling("ignored")
    /\ UNCHANGED <<provesAbsence, verdict, alloc, open, age, unresolved,
                   idKnown, cleanups>>

\* driverFromTable: the booted artifact contradicts the request; the teardown
\* is under the caller's signal.
ArtifactMismatch ==
    /\ phase = "checking"
    /\ idKnown /\ ~unresolved
    /\ phase' = "rollback"
    /\ UNCHANGED <<provesAbsence, verdict, alloc, open, age, unresolved,
                   idKnown, signal, attempts, absentFor, cleanups>>

-----------------------------------------------------------------------------
(* Rollback by id, and reconciliation by marker.                           *)

RollbackSucceeds ==
    /\ phase = "rollback"
    /\ signal # "aborted"
    /\ alloc' = "gone"
    /\ Recovered
    /\ UNCHANGED <<provesAbsence, open, age, unresolved, idKnown, signal,
                   attempts, absentFor, cleanups>>

RollbackFails ==
    /\ phase = "rollback"
    /\ NotRecovered
    /\ UNCHANGED <<provesAbsence, alloc, open, age, unresolved, idKnown,
                   signal, attempts, absentFor, cleanups>>

\* A lookup that attributes a live allocation to the marker destroys it.
ObserveDestroys ==
    /\ phase = "observe"
    /\ signal # "aborted"
    /\ alloc = "live"
    /\ attempts' = attempts + 1
    /\ alloc' = "gone"
    /\ unresolved' = FALSE
    /\ Recovered
    /\ UNCHANGED <<provesAbsence, open, age, idKnown, signal, absentFor, cleanups>>

\* The head of the loop and each error path: an aborted signal, a failed
\* lookup, a failed teardown, or an empty lookup of an unresolved marker.
ObserveFails ==
    /\ phase = "observe"
    /\ attempts' = attempts + 1
    /\ NotRecovered
    /\ UNCHANGED <<provesAbsence, alloc, open, age, unresolved, idKnown,
                   signal, absentFor, cleanups>>

\* Mutant: attempts are counted and do not end the reconciliation.
AfterAbsenceUncounted(since) ==
    /\ attempts' = attempts + 1
    /\ absentFor' = since
    /\ IF since >= Window THEN Recovered ELSE phase' = "sleep" /\ UNCHANGED verdict

\* Mutant: the reconciliation never runs out of attempts.
AfterAbsenceUnbounded(since) ==
    /\ attempts' = IF attempts < MaxAttempts - 1 THEN attempts + 1 ELSE attempts
    /\ absentFor' = since
    /\ IF since >= Window THEN Recovered ELSE phase' = "sleep" /\ UNCHANGED verdict

\* After an absence whose clock shows `since`: confirmed, out of attempts, or
\* asleep until the confirmation is due.
AfterAbsence(since) ==
    /\ attempts' = attempts + 1
    /\ absentFor' = since
    /\ CASE since >= Window -> Recovered
         [] since < Window /\ attempts' >= MaxAttempts -> NotRecovered
         [] OTHER -> phase' = "sleep" /\ UNCHANGED verdict

\* Mutant: every empty lookup proves absence.
EmptyAlwaysProves == TRUE

\* An empty lookup proves absence only once the marker has a verdict.
EmptyProves == ~unresolved

ObserveAbsent ==
    /\ phase = "observe"
    /\ signal # "aborted"
    /\ MayMiss
    /\ EmptyProves
    /\ AfterAbsence(IF absentFor = -1 THEN 0 ELSE absentFor)
    /\ UNCHANGED <<provesAbsence, alloc, open, age, unresolved, idKnown,
                   signal, cleanups>>

\* Listed, but gone by the time teardown looked: the clock restarts.
ObserveContradicts ==
    /\ phase = "observe"
    /\ signal # "aborted"
    /\ alloc = "gone"
    /\ unresolved' = FALSE
    /\ AfterAbsence(0)
    /\ UNCHANGED <<provesAbsence, alloc, open, age, idKnown, signal, cleanups>>

Wake ==
    /\ phase = "sleep"
    /\ IF signal = "aborted"
       THEN NotRecovered
       ELSE absentFor >= Window /\ phase' = "observe" /\ UNCHANGED verdict
    /\ UNCHANGED <<provesAbsence, alloc, open, age, unresolved, idKnown,
                   signal, attempts, absentFor, cleanups>>

\* FailedCreateCleanupError.cleanup: one at a time, never after a success.
Cleanup ==
    /\ phase = "over"
    /\ verdict = "recoverable"
    /\ cleanups < MaxCleanups
    /\ cleanups' = cleanups + 1
    /\ IF idKnown
       THEN /\ phase' = "rollback"
            /\ signal' = "live"
            /\ UNCHANGED <<attempts, absentFor>>
       ELSE StartReconciling("live")
    /\ UNCHANGED <<provesAbsence, verdict, alloc, open, age, unresolved, idKnown>>

Next ==
    \/ Allocate \/ Reap \/ Tick \/ Abort
    \/ Call \/ Refused \/ Ambiguous \/ Returned
    \/ Identify \/ Prepare \/ Accept \/ CheckFails \/ ArtifactMismatch
    \/ RollbackSucceeds \/ RollbackFails
    \/ ObserveDestroys \/ ObserveFails \/ ObserveAbsent \/ ObserveContradicts
    \/ Wake \/ Cleanup

Spec == Init /\ [][Next]_vars

-----------------------------------------------------------------------------
\* The driver keeps its promise: an ordinary rejection, or a cleanup reported as
\* done, means nothing is allocated and nothing ever will be, however late a
\* lookup shows an allocation (rejectWithRecovery, reconcileAmbiguousCreate).
Port == INSTANCE ProviderPort WITH
    session <- alloc,
    create <- IF verdict # "none" THEN verdict
              ELSE IF phase = "idle" THEN "idle" ELSE "pending"

ImplementsPort == Port!Spec

\* A reconciliation ends, even when every lookup contradicts the one before it.
ReconciliationEnds == (phase \in {"observe", "sleep"}) ~> (phase = "over")
=============================================================================
