--------------------------- MODULE SessionTeardown ---------------------------
(***************************************************************************)
(* A live session of the driver kit (packages/driver/src/lib/table.ts):    *)
(* operations of the benchmark against destroys of several owners.  A      *)
(* destroy waits for the operations already accepted, within a bound; past *)
(* it the caller gets a DeferredTeardownError while the teardown stays     *)
(* scheduled, and disposing of that error retries a teardown that failed.  *)
(*                                                                         *)
(* External: how long an operation takes, and how the provider's own       *)
(* removal (ProviderRemoval) ends.                                         *)
(***************************************************************************)
EXTENDS Naturals, FiniteSets

CONSTANTS
    Operations,   \* calls of exec, launch or files
    Owners        \* callers of destroy

VARIABLES
    state,      \* alive, destroying or destroyed
    operation,  \* each operation: idle, running, refused or done
    teardown,   \* teardownInFlight: none, draining, or calling the provider
    attempt,    \* destroyInFlight: none, bounded by the drain, or joined
    calls,      \* provider removals in flight
    session,    \* the provider's sandbox: live or gone (external)
    owner,      \* what each owner's destroy has come to
    completion  \* of the teardown an owner's deferral refers to

vars == <<state, operation, teardown, attempt, calls, session, owner, completion>>

TypeOK ==
    /\ state \in {"alive", "destroying", "destroyed"}
    /\ operation \in [Operations -> {"idle", "running", "refused", "done"}]
    /\ teardown \in {"none", "draining", "calling"}
    /\ attempt \in {"none", "bounded", "joined"}
    /\ calls \in 0..1
    /\ session \in {"live", "gone"}
    /\ owner \in [Owners -> {"idle", "waiting", "ok", "failed", "deferred"}]
    /\ completion \in [Owners -> {"none", "pending", "ok", "failed"}]

Init ==
    /\ state = "alive"
    /\ operation = [o \in Operations |-> "idle"]
    /\ teardown = "none"
    /\ attempt = "none"
    /\ calls = 0
    /\ session = "live"
    /\ owner = [w \in Owners |-> "idle"]
    /\ completion = [w \in Owners |-> "none"]

Active == {o \in Operations : operation[o] = "running"}

-----------------------------------------------------------------------------
(* Operations (alive).                                                     *)

\* Mutant: operations are accepted while the session is being destroyed.
AcceptedUntilDestroyed == state # "destroyed"

\* A session that is being destroyed accepts nothing more.
Accepted == state = "alive"

StartOperation(o) ==
    /\ operation[o] = "idle"
    /\ operation' = [operation EXCEPT ![o] = IF Accepted THEN "running" ELSE "refused"]
    /\ UNCHANGED <<state, teardown, attempt, calls, session, owner, completion>>

EndOperation(o) ==
    /\ operation[o] = "running"
    /\ operation' = [operation EXCEPT ![o] = "done"]
    /\ UNCHANGED <<state, teardown, attempt, calls, session, owner, completion>>

-----------------------------------------------------------------------------
(* Teardown.                                                               *)

\* beginTeardown: join the one in flight, else start it behind the operations
\* that are running, else call the provider now.
BeginTeardown ==
    IF teardown # "none"
    THEN UNCHANGED <<state, teardown, calls>>
    ELSE /\ state' = "destroying"
         /\ teardown' = IF Active = {} THEN "calling" ELSE "draining"
         /\ calls' = IF Active = {} THEN calls + 1 ELSE calls

\* session.destroy by owner w.
Ask(w) ==
    IF state = "destroyed"
    THEN /\ owner' = [owner EXCEPT ![w] = "ok"]
         /\ UNCHANGED <<state, teardown, calls, attempt>>
    ELSE /\ owner' = [owner EXCEPT ![w] = "waiting"]
         /\ IF attempt # "none"
            THEN UNCHANGED <<state, teardown, calls, attempt>>
            ELSE /\ BeginTeardown
                 /\ attempt' = IF teardown' = "draining" THEN "bounded" ELSE "joined"

Destroy(w) ==
    /\ owner[w] \in {"idle", "failed"}
    /\ Ask(w)
    /\ UNCHANGED <<operation, session, completion>>

\* Mutant: a drain that ends after its deadline calls nobody.
DrainedIfAwaited ==
    /\ teardown = "draining"
    /\ attempt # "none"
    /\ Active = {}
    /\ teardown' = "calling"
    /\ calls' = calls + 1
    /\ attempt' = "joined"
    /\ UNCHANGED <<state, operation, session, owner, completion>>

\* The last accepted operation ended: the provider is called.
Drained ==
    /\ teardown = "draining"
    /\ Active = {}
    /\ teardown' = "calling"
    /\ calls' = calls + 1
    /\ attempt' = IF attempt = "bounded" THEN "joined" ELSE attempt
    /\ UNCHANGED <<state, operation, session, owner, completion>>

\* drainWithin: the waiting owners get the deferral, the teardown goes on.
DrainTimesOut ==
    /\ attempt = "bounded"
    /\ teardown = "draining"
    /\ attempt' = "none"
    /\ owner' = [w \in Owners |-> IF owner[w] = "waiting" THEN "deferred" ELSE owner[w]]
    /\ completion' = [w \in Owners |->
                        IF owner[w] = "waiting" THEN "pending" ELSE completion[w]]
    /\ UNCHANGED <<state, operation, teardown, calls, session>>

\* Everyone who waits on the teardown learns how it ended.
Settle(how) ==
    /\ teardown' = "none"
    /\ calls' = calls - 1
    /\ attempt' = "none"
    /\ owner' = [w \in Owners |->
                   IF owner[w] = "waiting" THEN how ELSE owner[w]]
    /\ completion' = [w \in Owners |->
                        IF completion[w] = "pending" THEN how ELSE completion[w]]

RemovalSucceeds ==
    /\ teardown = "calling"
    /\ state' = "destroyed"
    /\ session' = "gone"
    /\ Settle("ok")
    /\ UNCHANGED operation

\* A failed removal makes the session usable, and destroyable, again; the
\* sandbox may be gone all the same.
RemovalFails ==
    /\ teardown = "calling"
    /\ state' = "alive"
    /\ session' \in {session, "gone"}
    /\ Settle("failed")
    /\ UNCHANGED operation

\* DeferredTeardownError's disposal: the completion, else one more destroy.
Dispose(w) ==
    /\ owner[w] = "deferred"
    /\ completion[w] # "pending"
    /\ completion' = [completion EXCEPT ![w] = "none"]
    /\ IF completion[w] = "ok"
       THEN /\ owner' = [owner EXCEPT ![w] = "ok"]
            /\ UNCHANGED <<state, teardown, calls, attempt>>
       ELSE Ask(w)
    /\ UNCHANGED <<operation, session>>

Next ==
    \/ \E o \in Operations : StartOperation(o) \/ EndOperation(o)
    \/ \E w \in Owners : Destroy(w) \/ Dispose(w)
    \/ Drained \/ DrainTimesOut \/ RemovalSucceeds \/ RemovalFails

Spec == Init /\ [][Next]_vars

-----------------------------------------------------------------------------
\* The provider is asked to remove a session while no accepted operation runs on
\* it, whatever destroys, failures and retries came before (beginTeardown).
RemovalIsAlone == calls > 0 => Active = {} /\ calls = 1

\* A destroy that resolved, or a disposed deferral, means the sandbox is gone,
\* though the destroy it stands for had timed out and its teardown then failed.
OkMeansGone == (\E w \in Owners : owner[w] = "ok") => session = "gone"

\* An owner that asks is answered, though an operation never ends.
DestroySettles ==
    \A w \in Owners : (owner[w] = "waiting") ~> (owner[w] # "waiting")

\* A deferred teardown does happen once the operations it waits for have ended.
DeferredTeardownRuns ==
    (\A o \in Operations : WF_vars(EndOperation(o)))
        => ((teardown = "draining") ~> (teardown = "calling"))
=============================================================================
