--------------------------- MODULE SuiteWorkProofs ---------------------------
(* What the report of a step and the verdict of a suite may say, for every  *)
(* number of retries, polls and read-backs and whatever the sandbox answers.*)
EXTENDS SuiteWork, TLAPS

-----------------------------------------------------------------------------
(* The inductive invariants *)

\* A poll that is still to come may fail once more.
PollsLeft == pc \in {"launching", "polling", "sleeping"} => failures < PollFailures

\* Until the removal is asked for, which is after the last poll, the directory keeps
\* every launch but the first from running, so the receipt is the first run's.
FirstRunAlone ==
    /\ removal = "none" =>
          /\ again = "none"
          /\ job # "none" => claimed
          /\ receipt \in Exit => job = receipt
    /\ removal # "none" => pc \in {"removing", "timing-out", "idle"}

\* What the host holds of a step is its first run's own: the code it observed, the
\* outcome it reports and the entry it logs.
CodesAreOwn ==
    /\ FirstRunAlone
    /\ observed \in Exit => job = observed
    /\ outcome \in Exit => job = outcome
    /\ entry \in Exit => job = entry
    /\ evidence = "completed" => observed \in Exit

\* How far a suite without an error has come, and what it holds by then.
Progress ==
    /\ stage # "over" => verdict \in {"none", "skipped"}
    /\ verdict = "skipped" => stage \in {"record", "teardown", "receipt", "verdict", "over"}
    /\ suiteError = "none" /\ verdict # "skipped" =>
          /\ stage = "collect" => measured = "ok"
          /\ stage \in {"record", "teardown", "receipt", "verdict"} =>
                measured = "ok" /\ collected = "whole"
    /\ suiteError = "none" /\ stage \in {"receipt", "verdict"} => teardown = "confirmed"
    /\ stage = "over" => SuccessIsEarned

SuiteInv == TypeOK /\ PollsLeft /\ CodesAreOwn /\ Progress

-----------------------------------------------------------------------------
(* One step *)

Step == StepNext \/ BeginDetached \/ BeginDirect

LEMMA StepType ==
    ASSUME StepTypeOK, PollsLeft, Step
    PROVE  StepTypeOK' /\ PollsLeft'
<1>. USE LimitsAssumption DEF PollsLeft
<1>1. CASE Guest \/ DeadlinePasses
  <2>1. CASE Die
    <3>1. alive' \in BOOLEAN
      BY <2>1 DEF Die
    <3>. QED
      BY <2>1, <3>1 DEF StepTypeOK, Die, Dead, hostVars
  <2>2. CASE RunLaunch
    <3>1. claimed' \in BOOLEAN
      BY <2>2 DEF StepTypeOK, RunLaunch
    <3>. QED
      BY <2>2, <3>1 DEF StepTypeOK, RunLaunch, hostVars
  <2>3. CASE JobEnds \/ WriteReceipt
    BY <2>3 DEF StepTypeOK, JobEnds, WriteReceipt, hostVars
  <2>5. CASE RunRemoval
    <3>1. claimed' \in BOOLEAN
      BY <2>5 DEF StepTypeOK, RunRemoval
    <3>. QED
      BY <2>5, <3>1 DEF StepTypeOK, RunRemoval, hostVars
  <2>4. CASE DeadlinePasses
    BY <2>4 DEF StepTypeOK, DeadlinePasses, guestVars, sandboxVars
  <2>. QED
    BY <1>1, <2>1, <2>2, <2>3, <2>4, <2>5 DEF Guest
<1>2. CASE BeginDetached
  <2>1. late' \in BOOLEAN /\ claimed' \in BOOLEAN
    BY <1>2 DEF BeginDetached
  <2>. QED
    BY <1>2, <2>1 DEF StepTypeOK, BeginDetached
<1>9. CASE BeginDirect
  <2>1. late' \in BOOLEAN /\ claimed' \in BOOLEAN
    BY <1>9 DEF BeginDirect
  <2>. QED
    BY <1>9, <2>1 DEF StepTypeOK, BeginDirect
<1>3. CASE LaunchAccepted \/ LaunchFails \/ LaunchTimesOut
  BY <1>3
     DEF StepTypeOK, LaunchAccepted, LaunchFails, LaunchTimesOut, guestVars, sandboxVars, EndsInError, End,
         TimedOut, Code, Exit
<1>4. CASE PollSeesRunning \/ PollSeesReceipt \/ PollGarbled \/ PollDegrades \/ PollTimesOut \/ PollAgain
  <2>1. CASE PollSeesRunning
    BY <2>1 DEF StepTypeOK, PollSeesRunning, guestVars, sandboxVars, KeepPolling, TimedOut
  <2>2. CASE PollSeesReceipt \/ PollGarbled
    BY <2>2 DEF StepTypeOK, PollSeesReceipt, PollGarbled, guestVars, sandboxVars, Completed, GarbledMeans, Exit
  <2>3. CASE PollDegrades
    <3>1. pollFs' \in BOOLEAN
      BY <2>3 DEF PollDegrades
    <3>. QED
      BY <2>3, <3>1 DEF StepTypeOK, PollDegrades, guestVars, sandboxVars
  <2>4. CASE PollTimesOut \/ PollAgain
    BY <2>4 DEF StepTypeOK, PollTimesOut, PollAgain, guestVars, sandboxVars, TimedOut
  <2>. QED
    BY <1>4, <2>1, <2>2, <2>3, <2>4
<1>5. CASE PollFails
  BY <1>5 DEF StepTypeOK, PollFails, guestVars, sandboxVars, KeepPolling, Lost, EndsInError, End, TimedOut, Code, Exit
<1>6. CASE ReadSucceeds \/ ReadFails \/ ReadTimesOut
  BY <1>6 DEF StepTypeOK, ReadSucceeds, ReadFails, ReadTimesOut, AskRemoval, guestVars, sandboxVars, Exit
<1>7. CASE RemoveFiles \/ StopTimedOut
  BY <1>7 DEF StepTypeOK, RemoveFiles, StopTimedOut, Dead, guestVars, sandboxVars, EndsInError, End, Code, Exit
<1>8. CASE DirectAnswers \/ DirectFails
  BY <1>8 DEF StepTypeOK, DirectAnswers, DirectFails, guestVars, sandboxVars, End, Code, Exit
<1>. QED
  BY <1>1, <1>2, <1>3, <1>4, <1>5, <1>6, <1>7, <1>8, <1>9 DEF Step, StepNext, Unanswered, Answered

LEMMA StepCodes ==
    ASSUME StepTypeOK, CodesAreOwn, Step
    PROVE  CodesAreOwn'
<1>. USE DEF FirstRunAlone
<1>1. CASE Guest \/ DeadlinePasses
  <2>1. CASE Die \/ JobEnds \/ DeadlinePasses
    BY <2>1 DEF CodesAreOwn, Die, Dead, JobEnds, DeadlinePasses, hostVars, guestVars, sandboxVars, Exit
  <2>2. CASE RunLaunch
    <3>1. removal = "none" /\ Claims => job = "none"
      BY DEF CodesAreOwn, FirstRunAlone, Claims
    <3>. QED
      BY <2>2, <3>1 DEF CodesAreOwn, RunLaunch, hostVars, Exit
  <2>3. CASE WriteReceipt \/ RunRemoval
    BY <2>3 DEF CodesAreOwn, WriteReceipt, RunRemoval, hostVars, Exit
  <2>. QED
    BY <1>1, <2>1, <2>2, <2>3 DEF Guest
<1>2. CASE BeginDetached \/ BeginDirect
  BY <1>2 DEF CodesAreOwn, BeginDetached, BeginDirect, Exit
<1>3. CASE LaunchAccepted \/ LaunchFails \/ LaunchTimesOut
  BY <1>3
     DEF CodesAreOwn, LaunchAccepted, LaunchFails, LaunchTimesOut, guestVars, sandboxVars, EndsInError, End,
         TimedOut, Code, Exit
<1>4. CASE PollSeesRunning \/ PollSeesReceipt \/ PollGarbled \/ PollDegrades \/ PollTimesOut \/ PollAgain
  BY <1>4
     DEF CodesAreOwn, PollSeesRunning, PollSeesReceipt, PollGarbled, PollDegrades, PollTimesOut,
         PollAgain, guestVars, sandboxVars, KeepPolling, Completed, GarbledMeans, TimedOut, Code, Exit
<1>5. CASE PollFails
  BY <1>5 DEF CodesAreOwn, PollFails, guestVars, sandboxVars, KeepPolling, EndsInError, End, TimedOut, Code, Exit
<1>6. CASE ReadSucceeds \/ ReadFails \/ ReadTimesOut
  BY <1>6 DEF CodesAreOwn, ReadSucceeds, ReadFails, ReadTimesOut, AskRemoval, guestVars, sandboxVars, Exit
<1>7. CASE RemoveFiles \/ StopTimedOut
  BY <1>7 DEF CodesAreOwn, RemoveFiles, StopTimedOut, Dead, guestVars, sandboxVars, EndsInError, End, Code, Exit
<1>8. CASE DirectAnswers \/ DirectFails
  BY <1>8 DEF CodesAreOwn, DirectAnswers, DirectFails, guestVars, sandboxVars, End, Code, Exit
<1>. QED
  BY <1>1, <1>2, <1>3, <1>4, <1>5, <1>6, <1>7, <1>8 DEF Step, StepNext, Unanswered, Answered

-----------------------------------------------------------------------------
(* The suite *)

\* The suite's own steps: they look at the step that ended and begin the next.
OwnStep ==
    \/ Prepare \/ SetupEnds \/ CaptureSpecs \/ BenchmarkEnds \/ CollectEnds
    \/ RecordExecution \/ Teardown \/ RecordCleanup \/ Conclude \/ PhaseIsOver

LEMMA Steps ==
    ASSUME Next
    PROVE  \/ OwnStep /\ UNCHANGED stepVars
           \/ Step /\ UNCHANGED <<stage, tries, suiteError, measured, collected, unrecorded,
                                  teardown, verdict>>
                   /\ during' \in {during, TRUE}
BY DEF Next, Advance, WorkStep, OwnStep, Step, BeginStep, Prepare, SetupEnds, CaptureSpecs,
       BenchmarkEnds, CollectEnds, RecordExecution, Teardown, RecordCleanup, Conclude, PhaseIsOver,
       suiteVars

LEMMA OwnType ==
    ASSUME TypeOK, OwnStep, UNCHANGED stepVars
    PROVE  TypeOK'
<1>1. StepTypeOK'
  BY DEF TypeOK, StepTypeOK, stepVars, hostVars, guestVars, sandboxVars
<1>3. during' \in BOOLEAN
  <2>1. during' = during \/ during' = FALSE
    BY DEF OwnStep, Prepare, SetupEnds, CaptureSpecs, BenchmarkEnds, CollectEnds,
           RecordExecution, Teardown, RecordCleanup, Conclude, PhaseIsOver, Leave, Again
  <2>. QED
    BY <2>1 DEF TypeOK
<1>4. unrecorded' \in BOOLEAN
  BY DEF TypeOK, OwnStep, Prepare, SetupEnds, CaptureSpecs, BenchmarkEnds, CollectEnds,
         RecordExecution, Teardown, RecordCleanup, Conclude, PhaseIsOver
<1>5. tries' \in 0..SetupTries \cup 0..CollectTries
  <2>1. \/ tries' = tries \/ tries' = 0
        \/ tries' = tries + 1 /\ (tries + 1 < SetupTries \/ tries + 1 < CollectTries)
    BY DEF OwnStep, Prepare, SetupEnds, CaptureSpecs, BenchmarkEnds, CollectEnds,
           RecordExecution, Teardown, RecordCleanup, Conclude, PhaseIsOver, Leave, Again
  <2>2. tries \in 0..SetupTries \cup 0..CollectTries
    BY DEF TypeOK
  <2>. QED
    BY <2>1, <2>2, TriesAssumption
<1>6. stage' \in {"prepare", "setup", "specs", "benchmark", "collect", "record", "teardown",
                  "receipt", "verdict", "over"}
  BY DEF TypeOK, OwnStep, Prepare, SetupEnds, CaptureSpecs, BenchmarkEnds, CollectEnds,
         RecordExecution, Teardown, RecordCleanup, Conclude, PhaseIsOver, Leave, Again
<1>7. suiteError' \in Failure
  BY DEF TypeOK, OwnStep, Prepare, SetupEnds, CaptureSpecs, BenchmarkEnds, CollectEnds,
         RecordExecution, Teardown, RecordCleanup, Conclude, PhaseIsOver, Fails, Stepping, Failure
<1>8. measured' \in Exit \cup {"none", "running", "killed"}
  BY DEF TypeOK, StepTypeOK, OwnStep, Prepare, SetupEnds, CaptureSpecs, BenchmarkEnds, CollectEnds,
         RecordExecution, Teardown, RecordCleanup, Conclude, PhaseIsOver
<1>9. collected' \in {"none", "whole", "cut"} /\ teardown' \in {"none", "confirmed", "unresolved"}
  BY DEF TypeOK, StepTypeOK, OwnStep, Prepare, SetupEnds, CaptureSpecs, BenchmarkEnds, CollectEnds,
         RecordExecution, Teardown, RecordCleanup, Conclude, PhaseIsOver
<1>10. verdict' \in {"none", "ok", "skipped", "failed", "unrecorded"}
  BY DEF TypeOK, OwnStep, Prepare, SetupEnds, CaptureSpecs, BenchmarkEnds, CollectEnds,
         RecordExecution, Teardown, RecordCleanup, Conclude, PhaseIsOver
<1>. QED
  BY <1>1, <1>3, <1>4, <1>5, <1>6, <1>7, <1>8, <1>9, <1>10 DEF TypeOK

LEMMA OwnProgress ==
    ASSUME TypeOK, CodesAreOwn, Progress, OwnStep
    PROVE  Progress'
<1>. USE DEF Progress, SuccessIsEarned
<1>1. CASE Prepare
  BY <1>1 DEF Prepare
<1>2. CASE SetupEnds \/ CaptureSpecs
  BY <1>2 DEF SetupEnds, CaptureSpecs, Leave, Again
<1>3. CASE BenchmarkEnds
  BY <1>3 DEF BenchmarkEnds, Leave, CodesAreOwn, Exit
<1>4. CASE CollectEnds
  BY <1>4 DEF CollectEnds, Leave, Again, Usable, Fails
<1>5. CASE RecordExecution \/ Teardown \/ RecordCleanup
  BY <1>5 DEF RecordExecution, Teardown, RecordCleanup
<1>6. CASE Conclude
  BY <1>6 DEF Conclude
<1>7. CASE PhaseIsOver
  BY <1>7 DEF PhaseIsOver, Stepping, Leave, Fails
<1>. QED
  BY <1>1, <1>2, <1>3, <1>4, <1>5, <1>6, <1>7 DEF OwnStep

LEMMA SuiteInvariant ==
    /\ Init => SuiteInv
    /\ SuiteInv /\ [Next]_vars => SuiteInv'
<1>1. ASSUME Init PROVE SuiteInv
  <2>1. StepTypeOK
    <3>1. pollFs \in BOOLEAN /\ late \in BOOLEAN /\ alive \in BOOLEAN /\ claimed \in BOOLEAN
      BY <1>1 DEF Init, StepInit
    <3>. QED
      BY <1>1, <3>1, LimitsAssumption DEF Init, StepInit, StepTypeOK
  <2>2. during \in BOOLEAN /\ unrecorded \in BOOLEAN
    BY <1>1 DEF Init
  <2>3. TypeOK
    BY <1>1, <2>1, <2>2, TriesAssumption DEF Init, TypeOK, Failure
  <2>4. PollsLeft /\ CodesAreOwn /\ Progress
    BY <1>1 DEF Init, StepInit, PollsLeft, CodesAreOwn, FirstRunAlone, Progress, Exit
  <2>. QED
    BY <2>3, <2>4 DEF SuiteInv
<1>2. ASSUME SuiteInv, OwnStep, UNCHANGED stepVars
      PROVE  SuiteInv'
  BY <1>2, OwnType, OwnProgress DEF SuiteInv, PollsLeft, CodesAreOwn, FirstRunAlone, stepVars, hostVars, guestVars, sandboxVars
<1>3. ASSUME SuiteInv, Step, during' \in {during, TRUE},
             UNCHANGED <<stage, tries, suiteError, measured, collected, unrecorded, teardown,
                         verdict>>
      PROVE  SuiteInv'
  <2>1. StepTypeOK' /\ PollsLeft' /\ CodesAreOwn'
    BY <1>3, StepType, StepCodes DEF SuiteInv, TypeOK
  <2>2. during' \in BOOLEAN
    BY <1>3 DEF SuiteInv, TypeOK
  <2>3. TypeOK'
    BY <1>3, <2>1, <2>2 DEF SuiteInv, TypeOK
  <2>4. Progress'
    BY <1>3 DEF SuiteInv, Progress, SuccessIsEarned
  <2>. QED
    BY <2>1, <2>3, <2>4 DEF SuiteInv
<1>4. ASSUME SuiteInv, UNCHANGED vars
      PROVE  SuiteInv'
  BY <1>4
     DEF SuiteInv, TypeOK, StepTypeOK, PollsLeft, CodesAreOwn, FirstRunAlone, Progress, SuccessIsEarned, vars,
         stepVars, hostVars, guestVars, sandboxVars, suiteVars
<1>. QED
  BY <1>1, <1>2, <1>3, <1>4, Steps

\* Every variable of a step and of its suite keeps its range (TypeOK): polls,
\* read-backs and retries stay within their limits.
THEOREM TypeCorrect == Spec => []TypeOK
<1>1. SuiteInv => TypeOK
  BY DEF SuiteInv
<1>. QED
  BY <1>1, SuiteInvariant, PTL DEF Spec

\* A step reported with an exit code is one whose first run ended with it
\* (ReportIsOwn): no poll that failed or was garbled is taken for the end, and a
\* second run, of a launch the sandbox delayed past the removal of the directory,
\* begins when the host has made its last observation.
THEOREM ReportsAreOwn == Spec => []ReportIsOwn
<1>1. SuiteInv => ReportIsOwn
  BY DEF SuiteInv, CodesAreOwn, FirstRunAlone, ReportIsOwn, TypeOK, StepTypeOK
<1>. QED
  BY <1>1, SuiteInvariant, PTL DEF Spec

\* A suite that concludes well earned it (SuccessIsEarned): a benchmark that
\* was clean when it first ran, whole results and a removed sandbox, whatever was
\* retried on the way.
THEOREM SuccessEarned == Spec => []SuccessIsEarned
<1>1. SuiteInv => SuccessIsEarned
  BY DEF SuiteInv, Progress, SuccessIsEarned
<1>. QED
  BY <1>1, SuiteInvariant, PTL DEF Spec
=============================================================================
