--------------------------- MODULE CliPreparation ---------------------------
(***************************************************************************)
(* How the calls of a command-line driver share one login                  *)
(* (performPreparation, ensurePrepared and ensurePreparedOnce of           *)
(* packages/driver/src/cli.ts).                                            *)
(*                                                                         *)
(* A driver logs in once, whichever call asked first; the calls race the   *)
(* shared task against their own deadline and signal, and the last to give *)
(* up cancels it and waits until its child process is reaped.  Drivers of  *)
(* one binary queue for its profile.  The login comes first and the probe  *)
(* verifies it (authenticateFirst, which the one CLI provider declares).   *)
(***************************************************************************)
EXTENDS VendorAccount, Naturals, Sequences

CONSTANT Callers  \* creates in flight, through drivers of one binary

VARIABLES
    pc,         \* where each call is
    driverOf,   \* the driver a call was made through
    over,       \* the call's deadline has passed, or its signal is aborted
    reason,     \* why a call failed before it sent anything
    task,       \* context.prepare: none, the step of the task in flight, or ready
    cancelled,  \* the task in flight was cancelled
    lock        \* preparationLocks: the drivers that queue for the binary's profile

prepVars == <<driverOf, over, reason, task, cancelled, lock>>

Reason == {"none", "own", "vendor", "stolen"}

PreparationTypeOK ==
    /\ driverOf \in [Callers -> Drivers]
    /\ over \in [Callers -> BOOLEAN]
    /\ reason \in [Callers -> Reason]
    /\ task \in [Drivers -> {"none", "queued", "login", "verify", "ready"}]
    /\ cancelled \in [Drivers -> BOOLEAN]
    /\ lock \in Seq(Drivers)

PreparationInit ==
    /\ driverOf \in [Callers -> Drivers]
    /\ pc = [c \in Callers |-> "arriving"]
    /\ over = [c \in Callers |-> FALSE]
    /\ reason = [c \in Callers |-> "none"]
    /\ task = [d \in Drivers |-> "none"]
    /\ cancelled = [d \in Drivers |-> FALSE]
    /\ lock = <<>>

InFlight(d) == task[d] \in {"queued", "login", "verify"}

\* state.waiters of the task in flight
Waiters(d) == {c \in Callers : driverOf[c] = d /\ pc[c] = "preparing"}

Goes(c, where) == pc' = [pc EXCEPT ![c] = where]

FailsOn(c, why) == Goes(c, "failed") /\ reason' = [reason EXCEPT ![c] = why]

-----------------------------------------------------------------------------
(* ensurePreparedOnce, for one call.                                       *)

AlreadyPrepared(c) ==
    /\ pc[c] = "arriving"
    /\ task[driverOf[c]] = "ready"
    /\ ~over[c]
    /\ Goes(c, "prepared")
    /\ UNCHANGED prepVars

\* A deadline that has passed ends the call at once; an aborted signal is only
\* noticed by a call that has become a waiter.
ArrivesTooLate(c) ==
    /\ pc[c] = "arriving"
    /\ over[c]
    /\ FailsOn(c, "own")
    /\ UNCHANGED <<driverOf, over, task, cancelled, lock>>

StartsPreparation(c) ==
    /\ pc[c] = "arriving"
    /\ task[driverOf[c]] = "none"
    /\ task' = [task EXCEPT ![driverOf[c]] = "queued"]
    /\ lock' = Append(lock, driverOf[c])
    /\ Goes(c, "preparing")
    /\ UNCHANGED <<driverOf, over, reason, cancelled>>

JoinsPreparation(c) ==
    /\ pc[c] = "arriving"
    /\ InFlight(driverOf[c])
    /\ ~cancelled[driverOf[c]]
    /\ Goes(c, "preparing")
    /\ UNCHANGED prepVars

\* Mutant: a call joins a task whose last owner has already cancelled it.
JoinsRetired(c) ==
    /\ pc[c] = "arriving"
    /\ InFlight(driverOf[c])
    /\ cancelled[driverOf[c]]
    /\ Goes(c, "preparing")
    /\ UNCHANGED prepVars

AwaitsRetirement(c) ==
    /\ pc[c] = "arriving"
    /\ InFlight(driverOf[c])
    /\ cancelled[driverOf[c]]
    /\ Goes(c, "retiring")
    /\ UNCHANGED prepVars

\* Mutant: the last waiter cancels the task but returns before its child is reaped.
LeavesAtOnce(c) ==
    /\ pc[c] = "preparing"
    /\ over[c]
    /\ FailsOn(c, "own")
    /\ cancelled' = [cancelled EXCEPT ![driverOf[c]] = (Waiters(driverOf[c]) = {c})]
    /\ UNCHANGED <<driverOf, over, task, lock>>

\* A waiter gives up: one of several just leaves, the last cancels and stays.
LeavesPreparation(c) ==
    /\ pc[c] = "preparing"
    /\ over[c]
    /\ IF Waiters(driverOf[c]) = {c}
       THEN /\ cancelled' = [cancelled EXCEPT ![driverOf[c]] = TRUE]
            /\ Goes(c, "draining")
            /\ UNCHANGED reason
       ELSE FailsOn(c, "own") /\ UNCHANGED cancelled
    /\ UNCHANGED <<driverOf, over, task, lock>>

LeavesRetirement(c) ==
    /\ pc[c] = "retiring"
    /\ over[c]
    /\ FailsOn(c, "own")
    /\ UNCHANGED <<driverOf, over, task, cancelled, lock>>

-----------------------------------------------------------------------------
(* performPreparation under the lock of its binary.                        *)

Settled(d, verdict) ==
    /\ task' = [task EXCEPT ![d] = IF verdict = "ready" THEN "ready" ELSE "none"]
    /\ cancelled' = [cancelled EXCEPT ![d] = FALSE]
    /\ pc' = [c \in Callers |->
                IF driverOf[c] # d THEN pc[c]
                ELSE CASE pc[c] = "preparing" ->
                            IF verdict = "ready" /\ ~over[c] THEN "prepared" ELSE "failed"
                       [] pc[c] = "draining" -> "failed"
                       [] pc[c] = "retiring" -> "arriving"
                       [] OTHER -> pc[c]]
    /\ reason' = [c \in Callers |->
                IF driverOf[c] # d THEN reason[c]
                ELSE CASE pc[c] = "draining" -> "own"
                       [] pc[c] = "preparing" /\ verdict # "ready" -> verdict
                       [] pc[c] = "preparing" /\ verdict = "ready" /\ over[c] -> "own"
                       [] OTHER -> reason[c]]
    /\ UNCHANGED <<driverOf, over>>

\* Mutant: a task that fails leaves its place in the queue behind.
SettlesHolding(d, verdict) ==
    /\ Settled(d, verdict)
    /\ lock' = IF verdict = "ready" THEN Tail(lock) ELSE lock

\* The task ends: its context is ready or may try again, its place in the queue
\* is free, its waiters learn the verdict and whoever awaited its end goes on.
Settles(d, verdict) ==
    /\ Settled(d, verdict)
    /\ lock' = Tail(lock)

\* What the callers of a task that failed are told.
Verdict(d) == IF cancelled[d] THEN "stolen" ELSE "vendor"

\* The driver's turn for the profile; the budget may have gone in the queue.
Turn(d) ==
    /\ task[d] = "queued"
    /\ lock[1] = d
    /\ \/ /\ ~cancelled[d]
          /\ task' = [task EXCEPT ![d] = "login"]
          /\ UNCHANGED <<pc, driverOf, over, reason, cancelled, lock>>
       \/ Settles(d, Verdict(d))

\* Exit zero: the profile is written, and a probe has to prove it.
LoggedIn(d) ==
    /\ task[d] = "login"
    /\ IF cancelled[d]
       THEN Settles(d, Verdict(d))
       ELSE /\ task' = [task EXCEPT ![d] = "verify"]
            /\ UNCHANGED <<pc, driverOf, over, reason, cancelled, lock>>

Verified(d) == task[d] = "verify" /\ Settles(d, "ready")

\* A nonzero exit, an unreadable answer, a timeout, or the kill of a cancelled task.
CommandFails(d) == task[d] \in {"login", "verify"} /\ Settles(d, Verdict(d))

PreparationStep(d) == Turn(d) \/ LoggedIn(d) \/ Verified(d) \/ CommandFails(d)

EnsurePrepared(c) ==
    \/ AlreadyPrepared(c)
    \/ ArrivesTooLate(c)
    \/ StartsPreparation(c)
    \/ JoinsPreparation(c)
    \/ AwaitsRetirement(c)
    \/ LeavesPreparation(c)
    \/ LeavesRetirement(c)

-----------------------------------------------------------------------------
(* Properties.                                                             *)

\* The profile of a binary has one writer: no two preparation commands run at a
\* time, even when one was cancelled, and each has a call that waits for its end.
ProfileHasOneOwner ==
    \A d \in Drivers : task[d] \in {"login", "verify"} =>
        /\ \A e \in Drivers \ {d} : task[e] \notin {"login", "verify"}
        /\ \E c \in Callers : driverOf[c] = d /\ pc[c] \in {"preparing", "draining"}

\* No call fails because another call gave up: a cancelled task is waited for
\* and replaced, never inherited (cli.ts: "instead of inheriting the retired
\* task's cancellation error").
FailuresAreOwn == \A c \in Callers : reason[c] # "stolen"
=============================================================================
