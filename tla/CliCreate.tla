----------------------------- MODULE CliCreate -----------------------------
(***************************************************************************)
(* create() of a command-line driver (packages/driver/src/cli.ts): the     *)
(* create command, the readiness poll, and the failed-create cleanup that  *)
(* looks the generated name up, deletes what it finds and believes in      *)
(* absence only after a second look one convergence horizon later.         *)
(*                                                                         *)
(* Every command is a child process the runner kills and reaps at its      *)
(* timeout or when the signal aborts.  A call stands for the machine it    *)
(* named.  What the vendor promises (absenceConfirmationMs): one horizon   *)
(* after the create command is gone its request has taken effect and is    *)
(* listed, or never will.                                                  *)
(***************************************************************************)
EXTENDS CliPreparation

ASSUME CallersAreMachines == Callers \subseteq Machines

VARIABLES
    polling,    \* activePoll: a child of the readiness poll runs
    missing,    \* firstMissingAt: never, recent, or ripe once a horizon old
    confirming, \* the cleanup attempt is at its second observation
    early       \* history: the last look was taken before the horizon had passed

createVars == <<polling, missing, confirming, early>>
callVars == <<pc, prepVars, createVars>>

Place == {"arriving", "preparing", "retiring", "draining", "prepared", "creating",
          "polling", "reaping", "looking", "deleting", "missed", "waiting", "session",
          "failed", "clean", "retained", "destroyed"}

\* The call has settled: with a session, an error, or a cleanup to be retried.
Ended == {"session", "failed", "clean", "retained", "destroyed"}

CreateTypeOK ==
    /\ pc \in [Callers -> Place]
    /\ polling \in [Callers -> BOOLEAN]
    /\ missing \in [Callers -> {"never", "recent", "ripe"}]
    /\ confirming \in [Callers -> BOOLEAN]
    /\ early \in [Callers -> BOOLEAN]

CreateInit ==
    /\ polling = [c \in Callers |-> FALSE]
    /\ missing = [c \in Callers |-> "never"]
    /\ confirming = [c \in Callers |-> FALSE]
    /\ early = [c \in Callers |-> FALSE]

-----------------------------------------------------------------------------
(* The create command.                                                     *)

SendsCreate(c) ==
    /\ pc[c] = "prepared"
    /\ ~over[c]
    /\ Goes(c, "creating")
    /\ Becomes(c, "sent")
    /\ UNCHANGED <<prepVars, createVars>>

\* The catch of create: reconcile by name, or hand that to the process's owner.
NextAfterFailure(c) == IF over[c] THEN "retained" ELSE "looking"

\* The budget ended between the preparation and the command.
NeverSends(c) ==
    /\ pc[c] = "prepared"
    /\ over[c]
    /\ Goes(c, NextAfterFailure(c))
    /\ UNCHANGED <<prepVars, createVars, machine>>

CreateExits(c) ==
    /\ pc[c] = "creating"
    /\ Goes(c, "polling")
    /\ UNCHANGED <<prepVars, createVars, machine>>

\* A nonzero exit, a timeout or an abort: the request may have been sent.
CreateFails(c) ==
    /\ pc[c] = "creating"
    /\ Goes(c, NextAfterFailure(c))
    /\ UNCHANGED <<prepVars, createVars, machine>>

-----------------------------------------------------------------------------
(* pollUntilReady.                                                         *)

PollStarts(c) ==
    /\ pc[c] = "polling"
    /\ ~polling[c]
    /\ ~over[c]
    /\ polling' = [polling EXCEPT ![c] = TRUE]
    /\ UNCHANGED <<pc, prepVars, missing, confirming, early, machine>>

\* Mutant: a row that is still pending counts as ready.
PollAnswersPending(c) ==
    /\ pc[c] = "polling"
    /\ polling[c]
    /\ polling' = [polling EXCEPT ![c] = FALSE]
    /\ \/ Goes(c, "session")
       \/ UNCHANGED pc
       \/ Goes(c, NextAfterFailure(c))
    /\ UNCHANGED <<prepVars, missing, confirming, early, machine>>

\* A row that is ready, none or a pending one, or a failed command or machine.
PollAnswers(c) ==
    /\ pc[c] = "polling"
    /\ polling[c]
    /\ polling' = [polling EXCEPT ![c] = FALSE]
    /\ \/ Running(c) /\ Goes(c, "session")
       \/ UNCHANGED pc
       \/ Goes(c, NextAfterFailure(c))
    /\ UNCHANGED <<prepVars, missing, confirming, early, machine>>

\* The poll's own deadline, which keeps a reserve for the cleanup, or the signal.
ReadinessEnds(c) ==
    /\ pc[c] = "polling"
    /\ Goes(c, IF polling[c] THEN "reaping" ELSE NextAfterFailure(c))
    /\ UNCHANGED <<prepVars, createVars, machine>>

PollIsReaped(c) ==
    /\ pc[c] = "reaping"
    /\ polling' = [polling EXCEPT ![c] = FALSE]
    /\ Goes(c, NextAfterFailure(c))
    /\ UNCHANGED <<prepVars, missing, confirming, early, machine>>

-----------------------------------------------------------------------------
(* retryCleanup and observeCleanup.                                        *)

\* The list command reads the account; its answer is still to come.
LookupMisses(c) ==
    /\ pc[c] = "looking"
    /\ ~Running(c)
    /\ Goes(c, "missed")
    /\ early' = [early EXCEPT ![c] = (missing[c] = "recent")]
    /\ UNCHANGED <<prepVars, polling, missing, confirming, machine>>

\* The answer arrives, and with it the time of this absence.  It ends the cleanup
\* when the first absence is a horizon old, fails it at the second look, and
\* otherwise starts the wait.
AbsenceAnswers(c) ==
    /\ pc[c] = "missed"
    /\ Goes(c, IF missing[c] = "ripe" THEN "clean"
               ELSE IF confirming[c] THEN "retained" ELSE "waiting")
    /\ missing' = IF missing[c] = "never" /\ ~confirming[c]
                  THEN [missing EXCEPT ![c] = "recent"] ELSE missing
    /\ UNCHANGED <<prepVars, polling, confirming, early, machine>>

\* Mutant: a name that is found does not contradict an older absence.
LookupFindsAgain(c) ==
    /\ pc[c] = "looking"
    /\ Running(c)
    /\ Goes(c, "deleting")
    /\ early' = [early EXCEPT ![c] = FALSE]
    /\ UNCHANGED <<prepVars, polling, missing, confirming, machine>>

LookupFinds(c) ==
    /\ pc[c] = "looking"
    /\ Running(c)
    /\ Goes(c, "deleting")
    /\ missing' = [missing EXCEPT ![c] = "never"]
    /\ early' = [early EXCEPT ![c] = FALSE]
    /\ UNCHANGED <<prepVars, polling, confirming, machine>>

\* destroyByArgs: the command exits zero.
DeleteSucceeds(c) ==
    /\ pc[c] = "deleting"
    /\ Deletes(c)
    /\ Goes(c, "clean")
    /\ UNCHANGED <<prepVars, createVars>>

\* destroyByArgs: the vendor knows no such id, or not yet.
DeleteMisses(c) ==
    /\ pc[c] = "deleting"
    /\ Goes(c, "missed")
    /\ UNCHANGED <<prepVars, createVars, machine>>

\* A command fails, or the attempt's budget or signal ends: the caller keeps it.
CleanupFails(c) ==
    /\ pc[c] \in {"looking", "deleting", "missed", "waiting"}
    /\ IF pc[c] = "deleting" THEN MayDelete(c) ELSE UNCHANGED machine
    /\ Goes(c, "retained")
    /\ UNCHANGED <<prepVars, createVars>>

\* One horizon passes after the first absence.
HorizonPasses(c) ==
    /\ missing[c] = "recent"
    /\ machine[c] # "sent"
    /\ missing' = [missing EXCEPT ![c] = "ripe"]
    /\ UNCHANGED <<pc, prepVars, polling, confirming, early, machine>>

WaitEnds(c) ==
    /\ pc[c] = "waiting"
    /\ missing[c] = "ripe"
    /\ Goes(c, "looking")
    /\ confirming' = [confirming EXCEPT ![c] = TRUE]
    /\ UNCHANGED <<prepVars, polling, missing, early, machine>>

\* FailedCreateCleanupError.cleanup, which its owner calls when it will.
RetriesCleanup(c) ==
    /\ pc[c] = "retained"
    /\ Goes(c, "looking")
    /\ confirming' = [confirming EXCEPT ![c] = FALSE]
    /\ UNCHANGED <<prepVars, polling, missing, early, machine>>

-----------------------------------------------------------------------------
(* The session, the deadline, and the vendor.                              *)

\* destroy: the command exits zero, finds nothing, or fails.
DestroysSession(c) ==
    /\ pc[c] = "session"
    /\ \/ Deletes(c) /\ Goes(c, "destroyed")
       \/ UNCHANGED machine /\ Goes(c, "destroyed")
       \/ MayDelete(c) /\ UNCHANGED pc
    /\ UNCHANGED <<prepVars, createVars>>

\* The deadline of create passes, or its signal is aborted.
Expires(c) ==
    /\ pc[c] \notin Ended
    /\ ~over[c]
    /\ over' = [over EXCEPT ![c] = TRUE]
    /\ UNCHANGED <<pc, driverOf, reason, task, cancelled, lock, createVars, machine>>

Prepares(c) == EnsurePrepared(c) /\ UNCHANGED <<createVars, machine>>

Create(c) ==
    \/ SendsCreate(c)
    \/ NeverSends(c)
    \/ CreateExits(c)
    \/ CreateFails(c)
    \/ PollStarts(c)
    \/ PollAnswers(c)
    \/ PollIsReaped(c)

Cleanup(c) ==
    \/ LookupMisses(c)
    \/ AbsenceAnswers(c)
    \/ LookupFinds(c)
    \/ DeleteSucceeds(c)
    \/ DeleteMisses(c)
    \/ CleanupFails(c)
    \/ WaitEnds(c)

CallerStep(c) == Prepares(c) \/ Create(c) \/ Cleanup(c)

TaskStep(d) == PreparationStep(d) /\ UNCHANGED <<createVars, machine>>

CliNext ==
    \/ \E c \in Callers :
         CallerStep(c) \/ ReadinessEnds(c) \/ RetriesCleanup(c) \/ DestroysSession(c)
         \/ HorizonPasses(c) \/ Expires(c)
    \/ \E d \in Drivers : TaskStep(d)

\* Every child process ends or is killed at its timeout, every timer fires.
CliFairness ==
    /\ \A c \in Callers : WF_<<callVars, machine>>(CallerStep(c))
                          /\ WF_<<callVars, machine>>(ReadinessEnds(c))
                          /\ WF_<<callVars, machine>>(Expires(c))
    /\ \A d \in Drivers : WF_<<callVars, machine>>(TaskStep(d))

-----------------------------------------------------------------------------
(* Properties.                                                             *)

\* An ordinary error of create, and a cleanup that succeeded, leave nothing of
\* the machine and nothing of it will appear: absence is believed only after a
\* look one horizon later.  "early" excepts the one way the code has around that:
\* a retry looks at once and compares the end of its look with the horizon.  No
\* cleanup command runs while an older child of the call does.
CleanMeansAbsent ==
    \A c \in Callers :
        /\ pc[c] \in {"failed", "clean"} /\ ~early[c] =>
             machine[c] \in {"none", "leaving", "gone"}
        /\ pc[c] \in {"looking", "deleting", "missed", "clean"} => ~polling[c]
=============================================================================
