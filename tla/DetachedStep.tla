---------------------------- MODULE DetachedStep ----------------------------
(***************************************************************************)
(* One attempt of a suite step in a sandbox (StepExecution of              *)
(* packages/harness/src/lib/execute.ts).  The durable transport starts the *)
(* command in the background under a tag of its own, polls for the receipt *)
(* the command leaves when it ends, reads its log back and removes both    *)
(* with their directory, which is also what claims the tag: a launch that  *)
(* comes later runs the command again.  The direct transport waits for one *)
(* exec.  Every wait is raced against a timer and cancels nothing.         *)
(*                                                                         *)
(* External: the sandbox, which may run a launch late or twice, fail or    *)
(* garble any request, truncate a long output, and die.  What an earlier   *)
(* attempt left in it goes by another tag and is not followed.             *)
(***************************************************************************)
EXTENDS Naturals

CONSTANTS
    PollFailures,  \* MAX_CONSECUTIVE_POLL_FAILURES
    ReadAttempts   \* READBACK_ATTEMPTS

ASSUME LimitsAssumption == PollFailures \in Nat \ {0} /\ ReadAttempts \in Nat \ {0}

Exit == {"ok", "error"}

VARIABLES
    (* the host *)
    pc,        \* where runDetached or run is; idle between steps
    pollFs,    \* the runner still polls through the sandbox filesystem
    failures,  \* consecutivePollFailures
    reads,     \* read-backs of the completed log that failed
    observed,  \* exitCode of the last poll: none while it runs, unknown for null
    evidence,  \* DetachedStepEvidence.state
    late,      \* the deadline of the step has passed
    output,    \* the step's stdout as read back: none, whole or cut
    outcome,   \* how the step ended for its caller
    entry,     \* the exit code of its stepLog entry; none while there is none
    (* the sandbox *)
    alive,
    filesystem,  \* working, an unsupported stub, or none
    requests,    \* launches the sandbox has not run yet
    claimed,     \* the directory of the tag exists
    job,         \* the command of this attempt: its first run
    again,       \* its second run, by a launch that claimed the tag anew
    receipt,     \* the done-file: absent, an exit code, or never to come
    removal      \* of the directory: none, asked for, or done

hostVars  == <<pc, pollFs, failures, reads, observed, evidence, late, output, outcome, entry>>
sandboxVars == <<alive, filesystem, requests, claimed, job, again, receipt>>
guestVars == <<sandboxVars, removal>>
stepVars  == <<hostVars, guestVars>>

StepTypeOK ==
    /\ pc \in {"idle", "launching", "polling", "sleeping", "reading", "removing",
               "timing-out", "direct"}
    /\ pollFs \in BOOLEAN
    /\ failures \in 0..PollFailures
    /\ reads \in 0..ReadAttempts
    /\ observed \in Exit \cup {"none", "unknown"}
    /\ evidence \in {"none", "launch-pending", "launch-accepted", "running",
                     "observation-unavailable", "completed", "deadline-exceeded",
                     "collection-failed"}
    /\ late \in BOOLEAN
    /\ output \in {"none", "whole", "cut"}
    /\ outcome \in Exit \cup {"none", "unknown", "timeout", "lost", "unreadable", "rejected"}
    /\ entry \in Exit \cup {"none", "null"}
    /\ alive \in BOOLEAN
    /\ filesystem \in {"working", "stub", "none"}
    /\ requests \in 0..2
    /\ claimed \in BOOLEAN
    /\ job \in Exit \cup {"none", "running", "killed"}
    /\ again \in Exit \cup {"none", "running", "killed"}
    /\ receipt \in Exit \cup {"absent", "never"}
    /\ removal \in {"none", "asked", "done"}

StepInit ==
    /\ pc = "idle"
    /\ alive = TRUE
    /\ filesystem \in {"working", "stub", "none"}
    /\ pollFs = (filesystem # "none")
    /\ failures = 0 /\ reads = 0 /\ requests = 0
    /\ observed = "none" /\ evidence = "none" /\ late = FALSE
    /\ output = "none" /\ outcome = "none" /\ entry = "none"
    /\ claimed = FALSE /\ job = "none" /\ again = "none"
    /\ receipt = "absent" /\ removal = "none"

-----------------------------------------------------------------------------
(* The sandbox.                                                            *)

Dead(run) == IF run = "running" THEN "killed" ELSE run

Die ==
    /\ alive
    /\ alive' = FALSE
    /\ requests' = 0
    /\ job' = Dead(job) /\ again' = Dead(again)
    /\ UNCHANGED <<filesystem, claimed, receipt, removal, hostVars>>

\* Mutant: the command does not claim its directory.
ClaimsAnyway == TRUE

\* mkdir of the tag's directory: one launch at a time has it, and a later one
\* can have it again once it was removed.
Claims == ~claimed

RunLaunch ==
    /\ alive /\ requests > 0
    /\ requests' = requests - 1
    /\ \/ ~Claims /\ UNCHANGED <<claimed, job, again>>
       \/ /\ Claims
          /\ claimed' = TRUE
          /\ \/ job = "none" /\ job' = "running" /\ UNCHANGED again
             \/ job # "none" /\ again' = "running" /\ UNCHANGED job
    /\ UNCHANGED <<alive, filesystem, receipt, removal, hostVars>>

JobEnds ==
    /\ alive
    /\ \/ job = "running" /\ job' \in Exit /\ UNCHANGED again
       \/ again = "running" /\ again' \in Exit /\ UNCHANGED job
    /\ UNCHANGED <<alive, filesystem, requests, claimed, receipt, removal, hostVars>>

\* The receipt is written aside and moved in place; a full disk leaves none.  It
\* names the tag and not the run: either may write it while the directory exists.
WriteReceipt ==
    /\ alive /\ claimed /\ receipt = "absent"
    /\ \E run \in {job, again} \cap Exit : receipt' \in {run, "never"}
    /\ UNCHANGED <<alive, filesystem, requests, claimed, job, again, removal, hostVars>>

\* rm and rmdir, maybe long after the host stopped waiting for them: the tag can
\* be claimed again, unless a receipt half written keeps the directory.
RunRemoval ==
    /\ alive /\ removal = "asked"
    /\ removal' = "done"
    /\ receipt' = "absent"
    /\ claimed' \in {claimed, FALSE}
    /\ UNCHANGED <<alive, filesystem, requests, job, again, hostVars>>

DeadlinePasses ==
    /\ pc # "idle" /\ ~late
    /\ late' = TRUE
    /\ UNCHANGED <<pc, pollFs, failures, reads, observed, evidence, output, outcome,
                   entry, guestVars>>

-----------------------------------------------------------------------------
(* The end of a step: one stepLog entry, and what the caller gets.         *)

Code(o) == IF o \in Exit THEN o ELSE "null"

End(how) ==
    /\ pc' = "idle"
    /\ outcome' = how
    /\ entry' = Code(observed)

\* Errors pass the catch: evidence still open when time is up becomes
\* deadline-exceeded, which is recorded while the job is stopped.
EndsInError(how, state) ==
    IF late /\ state \notin {"completed", "collection-failed"}
    THEN pc' = "timing-out" /\ evidence' = "deadline-exceeded" /\ outcome' = how /\ UNCHANGED entry
    ELSE End(how) /\ evidence' = state

TimedOut ==
    /\ pc' = "timing-out"
    /\ evidence' = "deadline-exceeded"
    /\ outcome' = "timeout"
    /\ UNCHANGED entry

\* recoverTimeoutEvidence: the tail and the kill are best-effort; the kill may
\* reach the shell that would write the receipt and not the command below it.
StopTimedOut ==
    /\ pc = "timing-out"
    /\ End(outcome)
    /\ \/ UNCHANGED <<job, again, receipt>>
       \/ /\ alive /\ "running" \in {job, again}
          /\ job' \in {job, Dead(job)} /\ again' \in {again, Dead(again)}
          /\ receipt' = "never"
    /\ UNCHANGED <<pollFs, failures, reads, observed, evidence, late, output,
                   alive, filesystem, requests, claimed, removal>>

-----------------------------------------------------------------------------
(* runDetached.                                                            *)

BeginDetached ==
    /\ pc = "idle"
    /\ pc' = "launching" /\ evidence' = "launch-pending"
    /\ failures' = 0 /\ reads' = 0
    /\ observed' = "none" /\ late' = FALSE
    /\ output' = "none" /\ outcome' = "none" /\ entry' = "none"
    /\ requests' \in {1, 2}
    /\ claimed' = FALSE /\ job' = "none" /\ again' = "none"
    /\ receipt' = "absent" /\ removal' = "none"
    /\ UNCHANGED <<pollFs, alive, filesystem>>

LaunchAccepted ==
    /\ pc = "launching" /\ alive
    /\ pc' = "polling" /\ evidence' = "launch-accepted"
    /\ UNCHANGED <<pollFs, failures, reads, observed, late, output, outcome, entry, guestVars>>

LaunchFails ==
    /\ pc = "launching"
    /\ EndsInError("rejected", evidence)
    /\ UNCHANGED <<pollFs, failures, reads, observed, late, output, guestVars>>

\* Mutant: the launch is awaited without a timer of its own.
LaunchAwaited == FALSE

LaunchTimesOut ==
    /\ pc = "launching" /\ late
    /\ TimedOut
    /\ UNCHANGED <<pollFs, failures, reads, observed, late, output, guestVars>>

\* After a poll that saw no completion: the deadline is looked at before the sleep.
KeepPolling(state) ==
    IF late THEN TimedOut
    ELSE pc' = "sleeping" /\ evidence' = state /\ UNCHANGED <<outcome, entry>>

\* Nothing there yet; an empty done-file is no completion either.
PollSeesRunning ==
    /\ pc = "polling" /\ alive
    /\ pollFs \/ receipt \notin Exit
    /\ pollFs => filesystem = "working"
    /\ KeepPolling("running")
    /\ observed' = "none" /\ failures' = 0
    /\ UNCHANGED <<pollFs, reads, late, output, guestVars>>

Completed(code) ==
    /\ pc' = "reading"
    /\ observed' = code
    /\ evidence' = IF code = "unknown" THEN "observation-unavailable" ELSE "completed"
    /\ failures' = 0

PollSeesReceipt ==
    /\ pc = "polling" /\ alive
    /\ pollFs => filesystem = "working"
    /\ receipt \in Exit
    /\ Completed(receipt)
    /\ UNCHANGED <<pollFs, reads, late, output, outcome, entry, guestVars>>

\* completionCode binds a receipt to its command: anything else has no code.
GarbledMeans == "unknown"

\* What comes back is neither the sentinel nor a receipt.
PollGarbled ==
    /\ pc = "polling" /\ alive
    /\ pollFs => filesystem = "working"
    /\ Completed(GarbledMeans)
    /\ UNCHANGED <<pollFs, reads, late, output, outcome, entry, guestVars>>

\* The stub filesystem throws: exec is used from here on, in the same poll.
PollDegrades ==
    /\ pc = "polling" /\ pollFs /\ filesystem = "stub"
    /\ pollFs' = FALSE
    /\ UNCHANGED <<pc, failures, reads, observed, evidence, late, output, outcome, entry,
                   guestVars>>

\* Mutant: a poll that fails is one that saw nothing.
PollFailsQuietly ==
    /\ pc = "polling"
    /\ KeepPolling("running")
    /\ observed' = "none" /\ failures' = 0
    /\ UNCHANGED <<pollFs, reads, late, output, guestVars>>

\* Mutant: one failure more than the limit.
LostLate == failures' > PollFailures

Lost == failures' = PollFailures

\* A poll that throws, an observation without budget included.
PollFails ==
    /\ pc = "polling"
    /\ observed' = "none"
    /\ failures' = failures + 1
    /\ IF Lost
       THEN EndsInError("lost", "observation-unavailable")
       ELSE KeepPolling("observation-unavailable")
    /\ UNCHANGED <<pollFs, reads, late, output, guestVars>>

PollTimesOut ==
    /\ pc = "polling" /\ late
    /\ TimedOut
    /\ UNCHANGED <<pollFs, failures, reads, observed, late, output, guestVars>>

PollAgain ==
    /\ pc = "sleeping"
    /\ pc' = "polling"
    /\ UNCHANGED <<pollFs, failures, reads, observed, evidence, late, output, outcome, entry,
                   guestVars>>

-----------------------------------------------------------------------------
(* readCompletedLog, and the removal of the files, which is asked for once *)
(* the log was read or given up.                                           *)

AskRemoval ==
    /\ pc' = "removing"
    /\ removal' = "asked"
    /\ UNCHANGED sandboxVars

\* A log read before its command ended is a prefix; one read in a single exec,
\* for want of its size, may be truncated by the transport.
ReadSucceeds ==
    /\ pc = "reading" /\ alive
    /\ output' \in IF job \notin Exit THEN {"cut"}
                   ELSE IF pollFs /\ reads < ReadAttempts THEN {"whole"} ELSE {"whole", "cut"}
    /\ AskRemoval
    /\ UNCHANGED <<pollFs, failures, reads, observed, evidence, late, outcome, entry>>

\* One more failed read; with a filesystem the last of them is an exec.
ReadFails ==
    /\ pc = "reading"
    /\ IF reads < (IF pollFs THEN ReadAttempts ELSE ReadAttempts - 1)
       THEN reads' = reads + 1 /\ UNCHANGED <<pc, evidence, outcome, guestVars>>
       ELSE /\ AskRemoval /\ evidence' = "collection-failed" /\ outcome' = "unreadable"
            /\ UNCHANGED reads
    /\ UNCHANGED <<pollFs, failures, observed, late, output, entry>>

\* The timer of the read-back, or a read that has no observation budget left.
ReadTimesOut ==
    /\ pc = "reading" /\ late
    /\ AskRemoval /\ evidence' = "collection-failed" /\ outcome' = "timeout"
    /\ UNCHANGED <<pollFs, failures, reads, observed, late, output, entry>>

\* The host waits a bounded time for the removal, answered or not; then
\* finishStep, or the error of the read-back.
RemoveFiles ==
    /\ pc = "removing"
    /\ CASE outcome # "none" -> EndsInError(outcome, evidence)
         [] observed = "unknown" -> EndsInError("unknown", evidence)
         [] OTHER -> End(observed) /\ UNCHANGED evidence
    /\ UNCHANGED <<pollFs, failures, reads, observed, late, output, guestVars>>

-----------------------------------------------------------------------------
(* run: one exec, for short steps and for transports without a cap; it     *)
(* claims nothing that anyone else asks for, and leaves no receipt.        *)

BeginDirect ==
    /\ pc = "idle"
    /\ pc' = "direct" /\ evidence' = "none"
    /\ failures' = 0 /\ reads' = 0
    /\ observed' = "none" /\ late' = FALSE
    /\ output' = "none" /\ outcome' = "none" /\ entry' = "none"
    /\ requests' = 1
    /\ claimed' = FALSE /\ job' = "none" /\ again' = "none"
    /\ receipt' = "never" /\ removal' = "none"
    /\ UNCHANGED <<pollFs, alive, filesystem>>

DirectAnswers ==
    /\ pc = "direct" /\ alive /\ job \in Exit
    /\ observed' = job
    /\ output' \in {"whole", "cut"}
    /\ pc' = "idle" /\ outcome' = job /\ entry' = job
    /\ UNCHANGED <<pollFs, failures, reads, evidence, late, guestVars>>

\* Rejected, or out of time: the command goes on in the sandbox.
DirectFails ==
    /\ pc = "direct"
    /\ \E how \in {"rejected"} \cup (IF late THEN {"timeout"} ELSE {}) : End(how)
    /\ UNCHANGED <<pollFs, failures, reads, observed, evidence, late, output, guestVars>>

-----------------------------------------------------------------------------
Guest == Die \/ RunLaunch \/ JobEnds \/ WriteReceipt \/ RunRemoval

\* What the host's timers and bounded requests bring about without the sandbox.
Unanswered ==
    \/ PollFails \/ PollDegrades \/ PollAgain
    \/ ReadFails \/ RemoveFiles \/ StopTimedOut
    \/ LaunchTimesOut \/ PollTimesOut \/ ReadTimesOut
    \/ (late /\ DirectFails)

Answered ==
    \/ LaunchAccepted \/ LaunchFails
    \/ PollSeesRunning \/ PollSeesReceipt \/ PollGarbled
    \/ ReadSucceeds \/ DirectAnswers \/ DirectFails

StepNext == Guest \/ DeadlinePasses \/ Unanswered \/ Answered
=============================================================================
