------------------------------ MODULE SuiteWork ------------------------------
(***************************************************************************)
(* The work of one suite in its sandbox (runSuiteWork of                   *)
(* packages/harness/src/index.ts over DetachedStep, and collectResults of  *)
(* collect.ts): preparation, a setup step with its retries, the benchmark  *)
(* command, the collection of its results, and the exit every path takes:  *)
(* receipts, teardown and the verdict.                                     *)
(***************************************************************************)
EXTENDS DetachedStep

CONSTANTS
    SetupTries,   \* retries + 1 of the setup step
    CollectTries  \* COLLECT_MAX_ATTEMPTS

ASSUME TriesAssumption == SetupTries \in Nat \ {0} /\ CollectTries \in Nat \ {0}

VARIABLES
    stage,       \* where runSuiteWork is
    during,      \* the step of the stage has begun
    tries,       \* attempts of the stage's step that were used up
    suiteError,  \* none, or how the suite failed first
    measured,    \* what the first run of the benchmark's command came to
    collected,   \* results in resultsDir: none, whole or cut
    unrecorded,  \* a receipt could not be persisted
    teardown,    \* none, confirmed or unresolved
    verdict      \* none, ok, skipped, failed, or unrecorded

suiteVars == <<stage, during, tries, suiteError, measured, collected, unrecorded, teardown,
               verdict>>
vars == <<stepVars, suiteVars>>

Failure == {"none", "prepare", "setup", "specs", "benchmark", "collect", "empty", "teardown"}

TypeOK ==
    /\ StepTypeOK
    /\ stage \in {"prepare", "setup", "specs", "benchmark", "collect", "record", "teardown",
                  "receipt", "verdict", "over"}
    /\ during \in BOOLEAN
    /\ tries \in 0..SetupTries \cup 0..CollectTries
    /\ suiteError \in Failure
    /\ measured \in Exit \cup {"none", "running", "killed"}
    /\ collected \in {"none", "whole", "cut"}
    /\ unrecorded \in BOOLEAN
    /\ teardown \in {"none", "confirmed", "unresolved"}
    /\ verdict \in {"none", "ok", "skipped", "failed", "unrecorded"}

Init ==
    /\ StepInit
    /\ stage = "prepare" /\ during = FALSE /\ tries = 0
    /\ suiteError = "none" /\ measured = "none" /\ collected = "none"
    /\ unrecorded = FALSE /\ teardown = "none" /\ verdict = "none"

-----------------------------------------------------------------------------
(* Before the first step.                                                  *)

\* Readiness, the artifact evidence and the fingerprint, then the disk gate.
Prepare ==
    /\ stage = "prepare"
    /\ \/ stage' = "setup" /\ UNCHANGED <<suiteError, verdict>>
       \/ stage' = "record" /\ suiteError' = "prepare" /\ UNCHANGED verdict
       \/ stage' = "record" /\ verdict' = "skipped" /\ UNCHANGED suiteError
    /\ UNCHANGED <<stepVars, during, tries, measured, collected, unrecorded, teardown>>

-----------------------------------------------------------------------------
(* Steps.                                                                  *)

Stepping == stage \in {"setup", "benchmark", "collect"}

\* The transport follows from the provider and the step's budget.
BeginStep ==
    /\ Stepping /\ ~during
    /\ BeginDetached \/ BeginDirect
    /\ during' = TRUE
    /\ UNCHANGED <<stage, tries, suiteError, measured, collected, unrecorded, teardown, verdict>>

WorkStep == StepNext /\ UNCHANGED suiteVars

Ended == during /\ pc = "idle"

Leave(next) == stage' = next /\ during' = FALSE /\ tries' = 0

Again == during' = FALSE /\ tries' = tries + 1 /\ UNCHANGED stage

SetupEnds ==
    /\ stage = "setup" /\ Ended
    /\ IF outcome = "ok" THEN Leave("specs") /\ UNCHANGED suiteError
       ELSE IF tries + 1 < SetupTries THEN Again /\ UNCHANGED suiteError
       ELSE Leave("record") /\ suiteError' = "setup"
    /\ UNCHANGED <<stepVars, measured, collected, unrecorded, teardown, verdict>>

\* A probe that exits non-zero is allowed to; one that is rejected or out of time
\* fails the suite.
CaptureSpecs ==
    /\ stage = "specs"
    /\ \/ stage' = "benchmark" /\ UNCHANGED suiteError
       \/ stage' = "record" /\ suiteError' = "specs"
    /\ UNCHANGED <<stepVars, during, tries, measured, collected, unrecorded, teardown, verdict>>

\* A failed benchmark is collected all the same.
BenchmarkEnds ==
    /\ stage = "benchmark" /\ Ended
    /\ measured' = job
    /\ suiteError' = IF outcome = "ok" THEN suiteError ELSE "benchmark"
    /\ Leave("collect")
    /\ UNCHANGED <<stepVars, collected, unrecorded, teardown, verdict>>

\* Mutant: what lies between two markers is taken as it is.
UsableIfMarked == outcome = "ok"

\* Both markers, a payload that decodes and an archive that unpacks.
Usable == outcome = "ok" /\ output = "whole"

\* What another attempt can mend: an unreadable log, a payload that is not usable.
\* The step's own failure and a deadline are final.
Retryable == outcome \in {"ok", "unreadable"}

Fails(why) == suiteError' = IF suiteError = "none" THEN why ELSE suiteError

CollectEnds ==
    /\ stage = "collect" /\ Ended
    /\ \/ /\ Usable
          /\ collected' = output
          /\ Leave("record")
          /\ suiteError' = suiteError \/ Fails("empty")  \* no PTS result in the tree
       \/ /\ Retryable /\ tries + 1 < CollectTries    \* also: unpacking failed on the host
          /\ Again
          /\ UNCHANGED <<suiteError, collected>>
       \/ /\ ~Retryable \/ tries + 1 = CollectTries \/ Usable   \* Usable: an empty tree
          /\ Leave("record") /\ Fails("collect")
          /\ UNCHANGED collected
    /\ UNCHANGED <<stepVars, measured, unrecorded, teardown, verdict>>

\* boundedTimeout: no budget of the phase is left for the step, or for a retry.
PhaseIsOver ==
    /\ Stepping /\ ~during
    /\ Leave(IF stage = "benchmark" THEN "collect" ELSE "record")
    /\ Fails(stage)
    /\ UNCHANGED <<stepVars, measured, collected, unrecorded, teardown, verdict>>

-----------------------------------------------------------------------------
(* The exit of every path.                                                 *)

\* execution-<id>.json
RecordExecution ==
    /\ stage = "record"
    /\ unrecorded' \in BOOLEAN
    /\ stage' = "teardown"
    /\ UNCHANGED <<stepVars, during, tries, suiteError, measured, collected, teardown, verdict>>

\* destroy within a minute, then the observation that the sandbox is gone.
Teardown ==
    /\ stage = "teardown"
    /\ \/ teardown' = "confirmed" /\ UNCHANGED suiteError
       \/ teardown' = "unresolved" /\ suiteError' = "teardown"
    /\ stage' = "receipt"
    /\ UNCHANGED <<stepVars, during, tries, measured, collected, unrecorded, verdict>>

\* cleanup-<id>.json and the cost evidence.
RecordCleanup ==
    /\ stage = "receipt"
    /\ unrecorded' \in {unrecorded, TRUE}
    /\ stage' = "verdict"
    /\ UNCHANGED <<stepVars, during, tries, suiteError, measured, collected, teardown, verdict>>

Conclude ==
    /\ stage = "verdict"
    /\ stage' = "over"
    /\ verdict' = CASE unrecorded -> "unrecorded"
                    [] ~unrecorded /\ suiteError # "none" -> "failed"
                    [] OTHER -> IF verdict = "skipped" THEN "skipped" ELSE "ok"
    /\ UNCHANGED <<stepVars, during, tries, suiteError, measured, collected, unrecorded,
                   teardown>>

Advance ==
    \/ Prepare \/ BeginStep \/ SetupEnds \/ CaptureSpecs \/ BenchmarkEnds \/ CollectEnds
    \/ RecordExecution \/ Teardown \/ RecordCleanup \/ Conclude

Next == Advance \/ PhaseIsOver \/ WorkStep

Spec == Init /\ [][Next]_vars

\* The host's event loop and timers; nothing is assumed of the sandbox, and no
\* deadline is needed to see a sandbox that no longer answers.
HostFairness == WF_vars(Advance) /\ WF_vars(Unanswered /\ UNCHANGED suiteVars)

FairSpec == Spec /\ HostFairness

-----------------------------------------------------------------------------
\* A step reported with an exit code is one whose first run ended with it: no poll
\* that failed or was garbled is taken for completion (completionCode), and no
\* launch that comes late or twice puts a second run's receipt in its place.  That
\* run, which the removal of the directory makes possible, begins only after the
\* host has made its last observation of the step.
ReportIsOwn ==
    /\ outcome \in Exit => job = outcome
    /\ entry \in Exit => job = entry
    /\ evidence = "completed" => job \in Exit
    /\ again # "none" => pc \in {"removing", "timing-out", "idle"}

\* A suite that concludes well ran its benchmark to a clean end the first time it
\* ran, holds the whole of what its collection then printed and saw its sandbox
\* removed, whatever was retried on the way.  It does not say that nothing ran the
\* benchmark again after its files were removed: the code does not prevent it.
SuccessIsEarned ==
    verdict = "ok" => measured = "ok" /\ collected = "whole" /\ teardown = "confirmed"

\* A sandbox that stops answering is noticed by the polls alone, before the budget
\* of the step has to run out (MAX_CONSECUTIVE_POLL_FAILURES).
DeadSandboxIsNoticed ==
    (~alive /\ pc \in {"polling", "sleeping"}) ~> pc \notin {"polling", "sleeping"}

\* With deadlines that pass, the suite ends and its sandbox is torn down, whatever
\* the sandbox does not answer.
SuiteEnds ==
    WF_vars(DeadlinePasses /\ UNCHANGED suiteVars)
        => <>(stage = "over" /\ teardown # "none")
=============================================================================
