--------------------------- MODULE ManagedSandbox ---------------------------
(***************************************************************************)
(* The life of one sandbox through the driver kit, composed of its three   *)
(* protocols on the one allocation of the vendor: the create that obtains  *)
(* it (CreateLifecycle), the session its callers use and destroy           *)
(* (SessionTeardown), and the removal by id that a teardown, or a sweep    *)
(* that read the id from a journal or an inventory, runs (ProviderRemoval).*)
(***************************************************************************)
EXTENDS Integers, FiniteSets

CONSTANTS
    Window, Lag, MaxAttempts, MaxCleanups,   \* of the create
    Operations, Owners,                      \* of the session
    RetryTicks                               \* of the removal

ASSUME TimingAssumption ==
    /\ Window \in Nat /\ Lag \in 0..Window
    /\ MaxAttempts \in Nat \ {0} /\ MaxCleanups \in Nat /\ RetryTicks \in Nat

VARIABLES
    vendor,  \* the allocation: none, running, deleting or gone
    (* CreateLifecycle *)
    provesAbsence, phase, verdict, open, age, unresolved, idKnown, signal,
    attempts, absentFor, cleanups,
    (* SessionTeardown *)
    state, operation, teardown, attempt, calls, owner, completion,
    (* ProviderRemoval *)
    pc, asked, accepted, since, seenGone

createVars  == <<provesAbsence, phase, verdict, open, age, unresolved, idKnown,
                 signal, attempts, absentFor, cleanups>>
sessionVars == <<state, operation, teardown, attempt, calls, owner, completion>>
removalVars == <<pc, asked, accepted, since, seenGone>>
vars == <<vendor, createVars, sessionVars, removalVars>>

Live == IF vendor = "deleting" THEN "running" ELSE vendor

Create  == INSTANCE CreateLifecycle
               WITH alloc <- IF Live = "running" THEN "live" ELSE Live
Session == INSTANCE SessionTeardown
               WITH session <- IF vendor = "gone" THEN "gone" ELSE "live"
Removal == INSTANCE ProviderRemoval

TypeOK ==
    /\ vendor \in {"none", "running", "deleting", "gone"}
    /\ Create!TypeOK /\ Session!TypeOK
    /\ vendor # "none" => Removal!TypeOK

Init ==
    /\ vendor = "none"
    /\ Create!Init /\ Session!Init
    /\ pc = [r \in Removal!Removals |-> "idle"]
    /\ asked = [r \in Removal!Removals |-> FALSE]
    /\ accepted = [r \in Removal!Removals |-> FALSE]
    /\ since = [r \in Removal!Removals |-> RetryTicks]
    /\ seenGone = FALSE

HandedOver == verdict = "handle"

-----------------------------------------------------------------------------
(* The create, until its session is handed over.                           *)

Creating ==
    /\ ~HandedOver
    /\ \E v \in {"none", "running", "gone"} : vendor' = v /\ Create!Next
    /\ UNCHANGED <<sessionVars, removalVars>>

-----------------------------------------------------------------------------
(* The session and the removals it asks for.                               *)

Operating ==
    /\ HandedOver
    /\ UNCHANGED <<vendor, createVars, removalVars>>
    /\ \/ \E o \in Operations : Session!StartOperation(o) \/ Session!EndOperation(o)
       \/ Session!DrainTimesOut

\* A destroy, a disposed deferral or the end of the drain; it calls the provider
\* when no operation is left.
Destroying ==
    /\ HandedOver
    /\ UNCHANGED <<vendor, createVars>>
    /\ \/ \E w \in Owners : Session!Destroy(w) \/ Session!Dispose(w)
       \/ Session!Drained
    /\ IF calls' > calls THEN Removal!Begins("session") ELSE UNCHANGED removalVars

Settled ==
    /\ UNCHANGED <<vendor, createVars>>
    /\ \/ pc["session"] = "removed" /\ Session!RemovalSucceeds
       \/ pc["session"] = "failed" /\ Session!RemovalFails
    /\ pc' = [pc EXCEPT !["session"] = "idle"]
    /\ UNCHANGED <<asked, accepted, since, seenGone>>

\* destroyById of someone who only knows the id, once.
Sweeping ==
    /\ HandedOver
    /\ Removal!Start("sweep")
    /\ UNCHANGED <<createVars, sessionVars>>

Removing(r) == Removal!Answer(r) \/ Removal!Wake(r) \/ Removal!Expire(r)

RemovalStep(r) == HandedOver /\ Removing(r) /\ UNCHANGED <<createVars, sessionVars>>

VendorRemoves == HandedOver /\ Removal!VendorRemoves /\ UNCHANGED <<createVars, sessionVars>>

FinishesDeleting == vendor = "deleting" /\ VendorRemoves

Next ==
    \/ Creating
    \/ Operating \/ Destroying \/ Settled
    \/ Sweeping \/ \E r \in Removal!Removals : RemovalStep(r)
    \/ VendorRemoves

Spec == Init /\ [][Next]_vars

\* Timers run and every bounded call is answered; a vendor that acknowledged a
\* removal finishes it. Nothing is assumed of the operations of a session.
FairSpec ==
    /\ Spec
    /\ WF_vars(Creating /\ phase \in {"observe", "sleep"})
    /\ WF_vars(Destroying /\ Session!Drained) /\ WF_vars(Operating /\ Session!DrainTimesOut)
    /\ WF_vars(Settled) /\ WF_vars(FinishesDeleting)
    /\ \A r \in Removal!Removals :
          /\ WF_vars(RemovalStep(r))
          /\ SF_vars(RemovalStep(r) /\ (Removal!RequestRemoves(r) \/ Removal!RequestAccepted(r)))
          /\ SF_vars(RemovalStep(r) /\ (Removal!ReadGone(r) \/ Removal!ReadPresent(r)))

-----------------------------------------------------------------------------
(* What the three protocols promise, on the one sandbox they share.        *)

\* An ordinary rejection of a create, or a cleanup reported as done, means
\* nothing is allocated and nothing ever will be, however late a lookup shows
\* an allocation (rejectWithRecovery, reconcileAmbiguousCreate).
ImplementsPort == Create!ImplementsPort

\* The provider is asked to remove a session while no accepted operation runs on
\* it, whatever destroys, failures and retries came before (beginTeardown).
RemovalIsAlone == Session!RemovalIsAlone

\* A destroy that resolved, a disposed deferral and a destroyById that returned
\* mean the sandbox is gone: no acknowledgement, refusal, lost answer or
\* timed-out wait on the way is ever taken for it.
OkMeansGone == Session!OkMeansGone /\ Removal!RemovedMeansGone

\* Nothing that was started is left hanging: a reconciliation ends, even when
\* every lookup contradicts the one before it; an owner that asks for a destroy
\* is answered, though an operation never ends; the teardown that was deferred
\* behind operations does run once they have ended; and a removal that is refused
\* for a while is asked again, while its budget lasts, until the sandbox is gone
\* or the vendor rejects it for good.
NothingHangs ==
    /\ Create!ReconciliationEnds
    /\ Session!DestroySettles
    /\ Session!DeferredTeardownRuns
    /\ Removal!RemovalPersists
=============================================================================
