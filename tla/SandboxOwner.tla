---------------------------- MODULE SandboxOwner ----------------------------
(***************************************************************************)
(* The process-level owner of provider sessions                            *)
(* (packages/harness/src/lib/sandbox-owner.ts): creates registered before  *)
(* the provider is called, an idempotent destroy, and the bounded drains   *)
(* run by a signal, by an ordinary exit and by the end of the event loop,  *)
(* which may all be active at once in one process.                         *)
(*                                                                         *)
(* What a provider does is external: a create may allocate at any time     *)
(* after it is invoked, its answer or a teardown's may never come, and a   *)
(* teardown reported as failed may have landed.  The drivers' promise is   *)
(* taken from CreateLifecycle: an ordinary rejection proves absence, a     *)
(* rejection that carries a cleanup does not.                              *)
(***************************************************************************)
EXTENDS Naturals, FiniteSets

CONSTANTS
    Sandboxes,   \* the creates the program asks for
    Attempts     \* teardown attempts of one drain (the code's default is 3)

ASSUME AttemptsAssumption == Attempts \in Nat \ {0}

Drains == {"exit", "signal", "beforeExit"}
Callers == Drains \cup {"worker"}
Running == 255
Interrupted == 130

VARIABLES
    worker,      \* the program's own use of each sandbox
    create,      \* what the create promise of each sandbox has become
    session,     \* the provider's session behind it (external)
    owned,       \* the registry `owned`
    handedOver,  \* sandboxes released to the operator
    teardown,    \* the shared promise: "none", its caller, or "confirmed"
    calls,       \* callers whose provider teardown call is in flight
    operation,   \* the release operation registered in `operations`
    handlers,    \* handlersInstalled
    stopping,    \* stopping (and the shutdown signal aborted)
    drain,       \* each drain's progress
    exitCode     \* Running, or the code the process ended with

vars == <<worker, create, session, owned, handedOver, teardown, calls,
          operation, handlers, stopping, drain, exitCode>>

\* A drain that has not begun; `code` is what its exit would report.
Idle == [pc |-> "off", n |-> 0, wait |-> [s \in Sandboxes |-> "no"],
         failed |-> FALSE, expired |-> FALSE, code |-> 0]

TypeOK ==
    /\ worker \in [Sandboxes -> {"idle", "creating", "working", "destroying", "done"}]
    /\ create \in [Sandboxes -> {"none", "queued", "pending", "handle",
                                 "rejected", "recoverable"}]
    /\ session \in [Sandboxes -> {"none", "live", "gone"}]
    /\ owned \subseteq Sandboxes
    /\ handedOver \subseteq Sandboxes
    /\ teardown \in [Sandboxes -> Callers \cup {"none", "confirmed"}]
    /\ calls \in [Sandboxes -> SUBSET Callers]
    /\ operation \in {"idle", "running", "over"}
    /\ handlers \in BOOLEAN
    /\ stopping \in BOOLEAN
    /\ drain \in [Drains ->
          [pc : {"off", "waiting", "pause", "operations", "over"},
           n : 0..Attempts,
           wait : [Sandboxes -> {"no", "create", "shared", "own", "ok", "fail"}],
           failed : BOOLEAN, expired : BOOLEAN, code : {0, 2}]]
    /\ exitCode \in {Running, 0, 1, 2, Interrupted}

Init ==
    /\ worker = [s \in Sandboxes |-> "idle"]
    /\ create = [s \in Sandboxes |-> "none"]
    /\ session = [s \in Sandboxes |-> "none"]
    /\ owned = {}
    /\ handedOver = {}
    /\ teardown = [s \in Sandboxes |-> "none"]
    /\ calls = [s \in Sandboxes |-> {}]
    /\ operation = "idle"
    /\ handlers = FALSE
    /\ stopping = FALSE
    /\ drain = [d \in Drains |-> Idle]
    /\ exitCode = Running

Alive == exitCode = Running

-----------------------------------------------------------------------------
(* The registry.                                                           *)

\* The handlers stay while something is owned or a release operation runs.
HandlersAfter(remaining, op) == handlers /\ (remaining # {} \/ op = "running")

Release(s) ==
    /\ owned' = owned \ {s}
    /\ handlers' = HandlersAfter(owned \ {s}, operation)

\* Mutant: the handlers are not installed.
RegisterWithoutHandlers(s) ==
    /\ Alive
    /\ worker[s] = "idle"
    /\ ~stopping
    /\ worker' = [worker EXCEPT ![s] = "creating"]
    /\ create' = [create EXCEPT ![s] = "queued"]
    /\ owned' = owned \cup {s}
    /\ UNCHANGED <<session, handedOver, teardown, calls, operation, handlers,
                   stopping, drain, exitCode>>

\* createOwnedSandbox: refused while stopping, else registered before the
\* provider is called (the create itself runs in a later microtask).
Register(s) ==
    /\ Alive
    /\ worker[s] = "idle"
    /\ ~stopping
    /\ worker' = [worker EXCEPT ![s] = "creating"]
    /\ create' = [create EXCEPT ![s] = "queued"]
    /\ owned' = owned \cup {s}
    /\ handlers' = TRUE
    /\ UNCHANGED <<session, handedOver, teardown, calls, operation, stopping,
                   drain, exitCode>>

Refuse(s) ==
    /\ Alive
    /\ worker[s] = "idle"
    /\ stopping
    /\ worker' = [worker EXCEPT ![s] = "done"]
    /\ UNCHANGED <<create, session, owned, handedOver, teardown, calls,
                   operation, handlers, stopping, drain, exitCode>>

\* The microtask that calls the provider; nothing re-reads `stopping` here.
Invoke(s) ==
    /\ Alive
    /\ create[s] = "queued"
    /\ create' = [create EXCEPT ![s] = "pending"]
    /\ UNCHANGED <<worker, session, owned, handedOver, teardown, calls,
                   operation, handlers, stopping, drain, exitCode>>

\* The provider allocates, whether or not the process still lives; after a
\* recoverable failure too, until a cleanup has proved absence.
Allocate(s) ==
    /\ session[s] = "none"
    /\ create[s] \in {"pending", "recoverable"}
    /\ session' = [session EXCEPT ![s] = "live"]
    /\ UNCHANGED <<worker, create, owned, handedOver, teardown, calls,
                   operation, handlers, stopping, drain, exitCode>>

CreateReturns(s) ==
    /\ Alive
    /\ create[s] = "pending"
    /\ session[s] = "live"
    /\ create' = [create EXCEPT ![s] = "handle"]
    /\ worker' = [worker EXCEPT ![s] = "working"]
    /\ UNCHANGED <<session, owned, handedOver, teardown, calls, operation,
                   handlers, stopping, drain, exitCode>>

\* An ordinary rejection: nothing exists and the entry is released.
CreateRejects(s) ==
    /\ Alive
    /\ create[s] = "pending"
    /\ session[s] = "none"
    /\ create' = [create EXCEPT ![s] = "rejected"]
    /\ worker' = [worker EXCEPT ![s] = "done"]
    /\ Release(s)
    /\ UNCHANGED <<session, handedOver, teardown, calls, operation, stopping,
                   drain, exitCode>>

\* Mutant: every rejection drops its entry.
DropRecoverable(s) ==
    /\ Alive
    /\ create[s] = "pending"
    /\ create' = [create EXCEPT ![s] = "recoverable"]
    /\ worker' = [worker EXCEPT ![s] = "done"]
    /\ Release(s)
    /\ UNCHANGED <<session, handedOver, teardown, calls, operation, stopping,
                   drain, exitCode>>

\* A rejection that carries its own cleanup keeps the entry.
CreateFailsRecoverably(s) ==
    /\ Alive
    /\ create[s] = "pending"
    /\ create' = [create EXCEPT ![s] = "recoverable"]
    /\ worker' = [worker EXCEPT ![s] = "done"]
    /\ UNCHANGED <<session, owned, handedOver, teardown, calls, operation,
                   handlers, stopping, drain, exitCode>>

-----------------------------------------------------------------------------
(* Teardown: the wrapper every caller goes through.                        *)

\* A caller invokes the provider, and its promise becomes the shared one.
Call(c, s) ==
    /\ teardown' = [teardown EXCEPT ![s] = c]
    /\ calls' = [calls EXCEPT ![s] = @ \cup {c}]

\* A promise is shared while it is in flight.
InFlight(s) == teardown[s] \in Callers

\* What a caller waits for: nothing once teardown is confirmed, the shared
\* promise of a handle, or a further cleanup call of its own on a failed create.
Destroy(c, s) ==
    CASE create[s] = "handle" /\ teardown[s] = "confirmed" -> "ok"
      [] create[s] = "handle" -> "shared"
      [] create[s] = "recoverable" /\ teardown[s] = "none" -> "shared"
      [] create[s] = "recoverable" /\ teardown[s] # "none" -> "own"
      [] OTHER -> "ok"

\* Mutant: every caller makes a call of its own.
EffectUnshared(c, s) ==
    IF Destroy(c, s) = "ok" THEN UNCHANGED <<teardown, calls>> ELSE Call(c, s)

\* The provider call the wrapper makes for caller c, if it makes one.
Effect(c, s) ==
    CASE Destroy(c, s) = "shared" /\ teardown[s] = "none" -> Call(c, s)
      [] Destroy(c, s) = "own" ->
            /\ calls' = [calls EXCEPT ![s] = @ \cup {c}]
            /\ UNCHANGED teardown
      [] OTHER -> UNCHANGED <<teardown, calls>>

\* Every drain waiting on the shared promise of s learns how it settled.
Settle(s, how) ==
    [d \in Drains |->
        IF drain[d].wait[s] = "shared"
        THEN [drain[d] EXCEPT !.wait[s] = how] ELSE drain[d]]

WorkerSettles(s) ==
    worker' = [worker EXCEPT ![s] = IF @ = "destroying" THEN "done" ELSE @]

\* The end of withOwnedSandbox's callback: destroy, whatever its outcome.
WorkEnds(s) ==
    /\ Alive
    /\ worker[s] = "working"
    /\ worker' = [worker EXCEPT
          ![s] = IF Destroy("worker", s) = "ok" THEN "done" ELSE "destroying"]
    /\ Effect("worker", s)
    /\ UNCHANGED <<create, session, owned, handedOver, operation, handlers,
                   stopping, drain, exitCode>>

\* releaseOwnedSandbox: false when the entry is no longer tracked.
HandOver(s) ==
    /\ Alive
    /\ worker[s] = "working"
    /\ worker' = [worker EXCEPT ![s] = "done"]
    /\ IF s \in owned
       THEN /\ Release(s)
            /\ handedOver' = handedOver \cup {s}
       ELSE UNCHANGED <<owned, handlers, handedOver>>
    /\ UNCHANGED <<create, session, teardown, calls, operation, stopping,
                   drain, exitCode>>

SharedSucceeds(s) ==
    /\ Alive
    /\ InFlight(s)
    /\ session' = [session EXCEPT ![s] = "gone"]
    /\ teardown' = [teardown EXCEPT ![s] = "confirmed"]
    /\ calls' = [calls EXCEPT ![s] = @ \ {teardown[s]}]
    /\ Release(s)
    /\ drain' = Settle(s, "ok")
    /\ WorkerSettles(s)
    /\ UNCHANGED <<create, handedOver, operation, stopping, exitCode>>

\* A failed teardown clears the promise and keeps the entry, so it can be
\* retried; the provider may have destroyed the session all the same.
SharedFails(s) ==
    /\ Alive
    /\ InFlight(s)
    /\ session' \in {session, [session EXCEPT ![s] = IF @ = "live" THEN "gone" ELSE @]}
    /\ teardown' = [teardown EXCEPT ![s] = "none"]
    /\ calls' = [calls EXCEPT ![s] = @ \ {teardown[s]}]
    /\ drain' = Settle(s, "fail")
    /\ WorkerSettles(s)
    /\ UNCHANGED <<create, owned, handedOver, operation, handlers, stopping,
                   exitCode>>

\* A further cleanup call on a failed create settles for its own caller only;
\* the entry is released by the shared promise alone.
OwnSettles(d, s) ==
    /\ Alive
    /\ d \in calls[s]
    /\ teardown[s] # d
    /\ calls' = [calls EXCEPT ![s] = @ \ {d}]
    /\ \E how \in {"ok", "fail"} :
          /\ session' = [session EXCEPT ![s] = IF how = "ok" THEN "gone" ELSE @]
          /\ drain' = IF d \in Drains /\ drain[d].wait[s] = "own"
                      THEN [drain EXCEPT ![d].wait[s] = how] ELSE drain
    /\ UNCHANGED <<worker, create, owned, handedOver, teardown, operation,
                   handlers, stopping, exitCode>>

-----------------------------------------------------------------------------
(* Release operations that a drain waits for.                              *)

StartOperation ==
    /\ Alive
    /\ operation = "idle"
    /\ IF stopping
       THEN operation' = "over" /\ UNCHANGED handlers
       ELSE operation' = "running" /\ handlers' = TRUE
    /\ UNCHANGED <<worker, create, session, owned, handedOver, teardown, calls,
                   stopping, drain, exitCode>>

OperationSettles ==
    /\ Alive
    /\ operation = "running"
    /\ operation' = "over"
    /\ handlers' = HandlersAfter(owned, "over")
    /\ UNCHANGED <<worker, create, session, owned, handedOver, teardown, calls,
                   stopping, drain, exitCode>>

-----------------------------------------------------------------------------
(* Drains (shutdownOwnedSandboxes over cleanupOwnedSandboxes).             *)

\* Mutant: the loop makes one attempt too many.
LoopUnbounded(r) ==
    IF r.n <= Attempts /\ owned # {}
    THEN [r EXCEPT !.pc = "waiting", !.n = @ + 1, !.failed = FALSE,
            !.wait = [s \in Sandboxes |->
                IF s \notin owned THEN "no" ELSE IF r.expired THEN "fail" ELSE "create"]]
    ELSE [r EXCEPT !.pc = "operations", !.failed = @ \/ owned # {},
            !.wait = [s \in Sandboxes |-> "no"]]

\* Mutant: what is still owned after the last attempt is not a failure.
LoopForgivesLeftovers(r) ==
    IF r.n < Attempts /\ owned # {}
    THEN [r EXCEPT !.pc = "waiting", !.n = @ + 1, !.failed = FALSE,
            !.wait = [s \in Sandboxes |->
                IF s \notin owned THEN "no" ELSE IF r.expired THEN "fail" ELSE "create"]]
    ELSE [r EXCEPT !.pc = "operations", !.failed = FALSE,
            !.wait = [s \in Sandboxes |-> "no"]]

\* The head of the attempt loop: snapshot the registry for a new attempt, or
\* leave it, an empty failure list with something owned counting as a failure.
Loop(r) ==
    IF r.n < Attempts /\ owned # {}
    THEN [r EXCEPT !.pc = "waiting", !.n = @ + 1, !.failed = FALSE,
            !.wait = [s \in Sandboxes |->
                IF s \notin owned THEN "no" ELSE IF r.expired THEN "fail" ELSE "create"]]
    ELSE [r EXCEPT !.pc = "operations", !.failed = @ \/ owned # {},
            !.wait = [s \in Sandboxes |-> "no"]]

StartDrain(d, code) ==
    /\ stopping' = TRUE
    /\ drain' = [drain EXCEPT ![d] = Loop([Idle EXCEPT !.code = code])]

\* destroyEntry: once the create has settled, go through the wrapper.
DestroyEntry(d, s) ==
    /\ Alive
    /\ drain[d].pc = "waiting"
    /\ drain[d].wait[s] = "create"
    /\ create[s] \in {"handle", "rejected", "recoverable"}
    /\ drain' = [drain EXCEPT ![d].wait[s] = Destroy(d, s)]
    /\ Effect(d, s)
    /\ UNCHANGED <<worker, create, session, owned, handedOver, operation,
                   handlers, stopping, exitCode>>

\* Promise.all over the attempt: every entry has settled or timed out.
AttemptEnds(d) ==
    LET r == [drain[d] EXCEPT
                !.failed = \E s \in Sandboxes : drain[d].wait[s] = "fail"]
    IN  /\ Alive
        /\ r.pc = "waiting"
        /\ \A s \in Sandboxes : r.wait[s] \in {"no", "ok", "fail"}
        /\ drain' = [drain EXCEPT ![d] =
              CASE owned = {} -> [Loop(r) EXCEPT !.failed = FALSE]
                [] owned # {} /\ r.n < Attempts /\ ~r.expired -> [r EXCEPT !.pc = "pause"]
                [] OTHER -> Loop(r)]
        /\ UNCHANGED <<worker, create, session, owned, handedOver, teardown,
                       calls, operation, handlers, stopping, exitCode>>

PauseEnds(d) ==
    /\ Alive
    /\ drain[d].pc = "pause"
    /\ drain' = [drain EXCEPT ![d] = Loop(@)]
    /\ UNCHANGED <<worker, create, session, owned, handedOver, teardown,
                   calls, operation, handlers, stopping, exitCode>>

\* Mutant: the budget only ends a pause.
DeadlineInPauseOnly(d) ==
    /\ Alive
    /\ drain[d].pc = "pause"
    /\ ~drain[d].expired
    /\ drain' = [drain EXCEPT ![d].expired = TRUE]
    /\ UNCHANGED <<worker, create, session, owned, handedOver, teardown,
                   calls, operation, handlers, stopping, exitCode>>

\* The drain's wall-clock budget ends: what it still awaits is abandoned, not
\* cancelled, and later attempts fail at once.
Deadline(d) ==
    /\ Alive
    /\ drain[d].pc \in {"waiting", "pause"}
    /\ ~drain[d].expired
    /\ drain' = [drain EXCEPT
          ![d].expired = TRUE,
          ![d].wait = [s \in Sandboxes |->
              IF @[s] \in {"create", "shared", "own"} THEN "fail" ELSE @[s]]]
    /\ UNCHANGED <<worker, create, session, owned, handedOver, teardown,
                   calls, operation, handlers, stopping, exitCode>>

\* What follows a drain: process.exit for an ordinary exit and for a signal,
\* a process exit code and no handlers at the end of the event loop.
Finish(d, failed) ==
    /\ drain' = [drain EXCEPT ![d].pc = "over", ![d].failed = failed]
    /\ handlers' = (handlers /\ d = "exit")
    /\ exitCode' = CASE d = "exit" -> IF drain[d].code = 0 /\ failed THEN 1 ELSE drain[d].code
                     [] d = "signal" -> Interrupted
                     [] d = "beforeExit" -> Running

\* The drain waits, within a second budget, for the release operations.
OperationsDone(d) ==
    /\ Alive
    /\ drain[d].pc = "operations"
    /\ \/ operation # "running" /\ Finish(d, drain[d].failed)
       \/ operation = "running" /\ Finish(d, TRUE)
    /\ UNCHANGED <<worker, create, session, owned, handedOver, teardown,
                   calls, operation, stopping>>

-----------------------------------------------------------------------------
(* How the process comes to end.                                           *)

ExitAfterCleanup(code) ==
    /\ Alive
    /\ drain["exit"].pc = "off"
    /\ drain["beforeExit"].pc = "off"
    /\ StartDrain("exit", code)
    /\ UNCHANGED <<worker, create, session, owned, handedOver, teardown,
                   calls, operation, handlers, exitCode>>

\* The first signal drains; a second one ends the process at once, and so does
\* any signal when no handler is installed.
Signal ==
    /\ Alive
    /\ IF handlers /\ drain["signal"].pc = "off"
       THEN StartDrain("signal", 0) /\ UNCHANGED exitCode
       ELSE exitCode' = Interrupted /\ UNCHANGED <<drain, stopping>>
    /\ UNCHANGED <<worker, create, session, owned, handedOver, teardown,
                   calls, operation, handlers>>

\* Nothing is scheduled: no promise of ours awaits a timer or the network.
Quiet ==
    /\ \A s \in Sandboxes :
          /\ worker[s] \in {"idle", "done"}
          /\ create[s] \notin {"queued", "pending"}
          /\ calls[s] = {}
    /\ operation # "running"
    /\ \A d \in Drains : drain[d].pc \in {"off", "over"}

BeforeExit ==
    /\ Alive
    /\ Quiet
    /\ handlers
    /\ owned # {}
    /\ drain["beforeExit"].pc = "off"
    /\ StartDrain("beforeExit", 0)
    /\ UNCHANGED <<worker, create, session, owned, handedOver, teardown,
                   calls, operation, handlers, exitCode>>

\* The event loop is empty and no drain is owed: the process ends by itself.
FallThrough ==
    /\ Alive
    /\ Quiet
    /\ ~(handlers /\ owned # {} /\ drain["beforeExit"].pc = "off")
    /\ exitCode' = IF drain["beforeExit"].failed THEN 1 ELSE 0
    /\ UNCHANGED <<worker, create, session, owned, handedOver, teardown,
                   calls, operation, handlers, stopping, drain>>

Next ==
    \/ \E s \in Sandboxes :
          \/ Register(s) \/ Refuse(s) \/ Invoke(s) \/ Allocate(s)
          \/ CreateReturns(s) \/ CreateRejects(s) \/ CreateFailsRecoverably(s)
          \/ WorkEnds(s) \/ HandOver(s) \/ SharedSucceeds(s) \/ SharedFails(s)
          \/ \E d \in Drains : OwnSettles(d, s) \/ DestroyEntry(d, s)
    \/ StartOperation \/ OperationSettles
    \/ \E d \in Drains :
          AttemptEnds(d) \/ PauseEnds(d) \/ Deadline(d) \/ OperationsDone(d)
    \/ \E code \in {0, 2} : ExitAfterCleanup(code)
    \/ Signal \/ BeforeExit \/ FallThrough

Spec == Init /\ [][Next]_vars

\* Timers and microtasks run; nothing is assumed of the provider or the user.
FairSpec ==
    /\ Spec
    /\ \A d \in Drains :
          /\ WF_vars(AttemptEnds(d)) /\ WF_vars(PauseEnds(d))
          /\ WF_vars(Deadline(d)) /\ WF_vars(OperationsDone(d))

-----------------------------------------------------------------------------
\* A session that exists is in the registry or was handed to the operator: no
\* order of creation, rejection, teardown and retry drops a live one
\* (release is called only on a confirmed teardown or an ordinary rejection).
LiveIsOwned ==
    \A s \in Sandboxes : session[s] = "live" => s \in owned \cup handedOver

\* A process that reports success leaves no session behind, not even one whose
\* create was pending when the exit began (exitAfterSandboxCleanup, onBeforeExit).
SuccessLeavesNothing ==
    exitCode = 0 =>
        \A s \in Sandboxes \ handedOver :
            session[s] # "live" /\ create[s] \notin {"queued", "pending"}

\* However many drains and callers ask, a handle's provider destroy runs once at
\* a time and never again after it has been confirmed (the destroy wrapper).
DestroyIsIdempotent ==
    \A s \in Sandboxes : create[s] = "handle" =>
        /\ Cardinality(calls[s]) <= 1
        /\ teardown[s] = "confirmed" => calls[s] = {}

\* While the process could still be signalled with something to lose, its
\* handlers are there (installProcessHandlers, release).
HandlersGuardOwnership ==
    Alive /\ (owned # {} \/ operation = "running") =>
        handlers \/ drain["beforeExit"].pc = "over"

\* An exit that was asked for happens, though the provider never answers again
\* (withinDeadline, the operations' timer).
ExitHappens ==
    (\E d \in {"exit", "signal"} : drain[d].pc # "off") ~> exitCode # Running
=============================================================================
