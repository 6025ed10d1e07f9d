------------------------ MODULE ManagedSandboxProofs ------------------------
(* What the driver kit promises of one sandbox, for every confirmation     *)
(* window, listing lag, number of attempts, operation and owner.           *)
EXTENDS ManagedSandbox, TLAPS

-----------------------------------------------------------------------------
(* The inductive invariant: the create *)

\* The recovery has attempts left; a later cleanup only follows a failure.
RecoveryOK ==
    /\ phase \in {"observe", "sleep"} => attempts < MaxAttempts
    /\ phase = "idle" => verdict = "none" /\ vendor = "none" /\ ~open
    /\ phase \notin {"idle", "over"} => verdict \in {"none", "recoverable"}
    /\ phase \in {"calling", "checking"} => verdict = "none"
    /\ phase = "over" => verdict # "none"

\* Nothing is allocated and nothing ever will be.
Nothing == vendor \notin {"running", "deleting"} /\ (vendor = "none" => ~open)

\* What is known of the allocation: an identity, or an answer, means there was
\* one, and a marker that has its verdict cannot be allocated for any more.
AllocationOK ==
    /\ idKnown \/ phase \in {"checking", "rollback"} \/ verdict = "handle" =>
          vendor # "none" /\ ~open
    /\ phase = "rollback" \/ verdict = "handle" => idKnown
    /\ phase \in {"idle", "calling", "observe", "sleep"} => ~idKnown
    /\ phase = "calling" \/ (phase = "checking" /\ ~idKnown) => unresolved
    /\ verdict \in {"rejected", "cleaned"} => Nothing
    /\ ~unresolved /\ ~idKnown => vendor = "gone" \/ ~open

\* The clock of an absence: an allocation that a lookup may still miss is
\* younger than the confirmation has lasted.
AbsenceOK ==
    /\ phase \in {"idle", "calling", "checking"} => absentFor = -1
    /\ absentFor # -1 /\ verdict # "handle" /\ Live = "running" =>
          provesAbsence /\ ~open /\ (absentFor <= age \/ age = Lag)
    /\ absentFor # -1 => vendor = "gone" \/ ~open
    /\ phase \in {"observe", "sleep", "over"} /\ ~unresolved /\ ~idKnown /\ Live = "running" =>
          provesAbsence /\ ~open

CreateOK == RecoveryOK /\ AllocationOK /\ AbsenceOK

-----------------------------------------------------------------------------
(* The inductive invariant: the session and the removals *)

SessionOK ==
    /\ teardown = "calling" <=> calls = 1
    /\ calls = 1 => Session!Active = {}
    /\ state = "destroying" <=> teardown # "none"
    /\ state = "destroyed" => vendor = "gone"
    /\ \A w \in Owners : owner[w] = "ok" \/ completion[w] = "ok" => vendor = "gone"

RemovalOK == \A r \in Removal!Removals : pc[r] = "removed" => vendor = "gone"

RemovalTypeOK ==
    /\ pc \in [Removal!Removals -> {"idle", "ask", "read", "asleep", "removed", "failed"}]
    /\ asked \in [Removal!Removals -> BOOLEAN]
    /\ accepted \in [Removal!Removals -> BOOLEAN]
    /\ since \in [Removal!Removals -> 0..RetryTicks]
    /\ seenGone \in BOOLEAN

\* Nobody uses, destroys or sweeps what was not handed over.
Untouched ==
    ~HandedOver =>
        /\ state = "alive"
        /\ \A w \in Owners : owner[w] = "idle" /\ completion[w] = "none"
        /\ \A r \in Removal!Removals : pc[r] = "idle"

ManagedInv ==
    /\ vendor \in {"none", "running", "deleting", "gone"}
    /\ ~HandedOver => vendor # "deleting"
    /\ Create!TypeOK /\ Session!TypeOK /\ RemovalTypeOK
    /\ CreateOK /\ SessionOK /\ RemovalOK /\ Untouched

-----------------------------------------------------------------------------
(* The create *)

\* What a step of the create is taken from, and where it leads.
CreateInv ==
    /\ vendor \in {"none", "running", "gone"}
    /\ Create!TypeOK /\ CreateOK

CreateBooleans ==
    /\ provesAbsence \in BOOLEAN /\ open \in BOOLEAN
    /\ unresolved \in BOOLEAN /\ idKnown \in BOOLEAN

LEMMA CreateType ==
    ASSUME CreateInv, ~HandedOver, vendor' \in {"none", "running", "gone"}, Create!Next
    PROVE  Create!TypeOK'
<1>. USE TimingAssumption
     DEF CreateInv, CreateOK, RecoveryOK, Create!TypeOK, Live, CreateBooleans, Create!End,
         Create!Recovered, Create!NotRecovered, Create!StartReconciling, Create!AfterAbsence
<1>0. (IF Live' = "running" THEN "live" ELSE Live') \in {"none", "live", "gone"}
  OBVIOUS
<1>1. CASE Create!Allocate
  <2>1. CreateBooleans'
    BY <1>1 DEF Create!Allocate
  <2>. QED
    BY <1>0, <1>1, <2>1 DEF Create!Allocate
<1>2. CASE Create!Reap
  <2>1. CreateBooleans'
    BY <1>2 DEF Create!Reap
  <2>. QED
    BY <1>0, <1>2, <2>1 DEF Create!Reap
<1>3. CASE Create!Tick
  <2>1. CreateBooleans'
    BY <1>3 DEF Create!Tick
  <2>. QED
    BY <1>0, <1>3, <2>1 DEF Create!Tick
<1>4. CASE Create!Abort
  <2>1. CreateBooleans'
    BY <1>4 DEF Create!Abort
  <2>. QED
    BY <1>0, <1>4, <2>1 DEF Create!Abort
<1>5. CASE Create!Call
  <2>1. CreateBooleans'
    BY <1>5 DEF Create!Call
  <2>. QED
    BY <1>0, <1>5, <2>1 DEF Create!Call
<1>6. CASE Create!Refused
  <2>1. CreateBooleans'
    BY <1>6 DEF Create!Refused
  <2>. QED
    BY <1>0, <1>6, <2>1 DEF Create!Refused
<1>7. CASE Create!Ambiguous
  <2>1. CreateBooleans'
    BY <1>7 DEF Create!Ambiguous
  <2>. QED
    BY <1>0, <1>7, <2>1 DEF Create!Ambiguous
<1>8. CASE Create!Returned
  <2>1. CreateBooleans'
    BY <1>8 DEF Create!Returned
  <2>. QED
    BY <1>0, <1>8, <2>1 DEF Create!Returned
<1>9. CASE Create!Identify
  <2>1. CreateBooleans'
    BY <1>9 DEF Create!Identify
  <2>. QED
    BY <1>0, <1>9, <2>1 DEF Create!Identify
<1>10. CASE Create!Prepare
  <2>1. CreateBooleans'
    BY <1>10 DEF Create!Prepare
  <2>. QED
    BY <1>0, <1>10, <2>1 DEF Create!Prepare
<1>11. CASE Create!Accept
  <2>1. CreateBooleans'
    BY <1>11 DEF Create!Accept
  <2>. QED
    BY <1>0, <1>11, <2>1 DEF Create!Accept
<1>12. CASE Create!CheckFails
  <2>1. CreateBooleans'
    BY <1>12 DEF Create!CheckFails
  <2>. QED
    BY <1>0, <1>12, <2>1 DEF Create!CheckFails
<1>13. CASE Create!ArtifactMismatch
  <2>1. CreateBooleans'
    BY <1>13 DEF Create!ArtifactMismatch
  <2>. QED
    BY <1>0, <1>13, <2>1 DEF Create!ArtifactMismatch
<1>14. CASE Create!RollbackSucceeds
  <2>1. CreateBooleans'
    BY <1>14 DEF Create!RollbackSucceeds
  <2>. QED
    BY <1>0, <1>14, <2>1 DEF Create!RollbackSucceeds
<1>15. CASE Create!RollbackFails
  <2>1. CreateBooleans'
    BY <1>15 DEF Create!RollbackFails
  <2>. QED
    BY <1>0, <1>15, <2>1 DEF Create!RollbackFails
<1>16. CASE Create!ObserveDestroys
  <2>1. CreateBooleans'
    BY <1>16 DEF Create!ObserveDestroys
  <2>. QED
    BY <1>0, <1>16, <2>1 DEF Create!ObserveDestroys
<1>17. CASE Create!ObserveFails
  <2>1. CreateBooleans'
    BY <1>17 DEF Create!ObserveFails
  <2>. QED
    BY <1>0, <1>17, <2>1 DEF Create!ObserveFails
<1>18. CASE Create!ObserveAbsent
  <2>1. CreateBooleans'
    BY <1>18 DEF Create!ObserveAbsent
  <2>. QED
    BY <1>0, <1>18, <2>1 DEF Create!ObserveAbsent
<1>19. CASE Create!ObserveContradicts
  <2>1. CreateBooleans'
    BY <1>19 DEF Create!ObserveContradicts
  <2>. QED
    BY <1>0, <1>19, <2>1 DEF Create!ObserveContradicts
<1>20. CASE Create!Wake
  <2>1. CreateBooleans'
    BY <1>20 DEF Create!Wake
  <2>. QED
    BY <1>0, <1>20, <2>1 DEF Create!Wake
<1>21. CASE Create!Cleanup
  <2>1. CreateBooleans'
    BY <1>21 DEF Create!Cleanup
  <2>. QED
    BY <1>0, <1>21, <2>1 DEF Create!Cleanup
<1>. QED
  BY <1>1, <1>2, <1>3, <1>4, <1>5, <1>6, <1>7, <1>8, <1>9, <1>10, <1>11,
     <1>12, <1>13, <1>14, <1>15, <1>16, <1>17, <1>18, <1>19, <1>20, <1>21
  DEF Create!Next

LEMMA CreateStepOK ==
    ASSUME CreateInv, ~HandedOver, vendor' \in {"none", "running", "gone"}, Create!Next
    PROVE  CreateOK'
<1>. USE TimingAssumption
     DEF CreateInv, CreateOK, RecoveryOK, AllocationOK, AbsenceOK, Nothing, HandedOver,
         Create!TypeOK, Live, Create!End, Create!Recovered, Create!NotRecovered,
         Create!StartReconciling, Create!AfterAbsence
<1>1. CASE Create!Allocate
  <2>1. RecoveryOK'
    BY <1>1 DEF Create!Allocate
  <2>2. AllocationOK'
    BY <1>1 DEF Create!Allocate
  <2>3. AbsenceOK'
    BY <1>1 DEF Create!Allocate
  <2>. QED
    BY <2>1, <2>2, <2>3
<1>2. CASE Create!Reap
  <2>1. RecoveryOK'
    BY <1>2 DEF Create!Reap
  <2>2. AllocationOK'
    BY <1>2 DEF Create!Reap
  <2>3. AbsenceOK'
    BY <1>2 DEF Create!Reap
  <2>. QED
    BY <2>1, <2>2, <2>3
<1>3. CASE Create!Tick
  <2>1. RecoveryOK'
    BY <1>3 DEF Create!Tick
  <2>2. AllocationOK'
    BY <1>3 DEF Create!Tick
  <2>3. AbsenceOK'
    BY <1>3 DEF Create!Tick
  <2>. QED
    BY <2>1, <2>2, <2>3
<1>4. CASE Create!Abort
  <2>1. RecoveryOK'
    BY <1>4 DEF Create!Abort
  <2>2. AllocationOK'
    BY <1>4 DEF Create!Abort
  <2>3. AbsenceOK'
    BY <1>4 DEF Create!Abort
  <2>. QED
    BY <2>1, <2>2, <2>3
<1>5. CASE Create!Call
  <2>1. RecoveryOK'
    BY <1>5 DEF Create!Call
  <2>2. AllocationOK'
    BY <1>5 DEF Create!Call
  <2>3. AbsenceOK'
    BY <1>5 DEF Create!Call
  <2>. QED
    BY <2>1, <2>2, <2>3
<1>6. CASE Create!Refused
  <2>1. RecoveryOK'
    BY <1>6 DEF Create!Refused
  <2>2. AllocationOK'
    BY <1>6 DEF Create!Refused
  <2>3. AbsenceOK'
    BY <1>6 DEF Create!Refused
  <2>. QED
    BY <2>1, <2>2, <2>3
<1>7. CASE Create!Ambiguous
  <2>1. RecoveryOK'
    BY <1>7 DEF Create!Ambiguous
  <2>2. AllocationOK'
    BY <1>7 DEF Create!Ambiguous
  <2>3. AbsenceOK'
    BY <1>7 DEF Create!Ambiguous
  <2>. QED
    BY <2>1, <2>2, <2>3
<1>8. CASE Create!Returned
  <2>1. RecoveryOK'
    BY <1>8 DEF Create!Returned
  <2>2. AllocationOK'
    BY <1>8 DEF Create!Returned
  <2>3. AbsenceOK'
    BY <1>8 DEF Create!Returned
  <2>. QED
    BY <2>1, <2>2, <2>3
<1>9. CASE Create!Identify
  <2>1. RecoveryOK'
    BY <1>9 DEF Create!Identify
  <2>2. AllocationOK'
    BY <1>9 DEF Create!Identify
  <2>3. AbsenceOK'
    BY <1>9 DEF Create!Identify
  <2>. QED
    BY <2>1, <2>2, <2>3
<1>10. CASE Create!Prepare
  <2>1. RecoveryOK'
    BY <1>10 DEF Create!Prepare
  <2>2. AllocationOK'
    BY <1>10 DEF Create!Prepare
  <2>3. AbsenceOK'
    BY <1>10 DEF Create!Prepare
  <2>. QED
    BY <2>1, <2>2, <2>3
<1>11. CASE Create!Accept
  <2>1. RecoveryOK'
    BY <1>11 DEF Create!Accept
  <2>2. AllocationOK'
    BY <1>11 DEF Create!Accept
  <2>3. AbsenceOK'
    BY <1>11 DEF Create!Accept
  <2>. QED
    BY <2>1, <2>2, <2>3
<1>12. CASE Create!CheckFails
  <2>1. RecoveryOK'
    BY <1>12 DEF Create!CheckFails
  <2>2. AllocationOK'
    BY <1>12 DEF Create!CheckFails
  <2>3. AbsenceOK'
    BY <1>12 DEF Create!CheckFails
  <2>. QED
    BY <2>1, <2>2, <2>3
<1>13. CASE Create!ArtifactMismatch
  <2>1. RecoveryOK'
    BY <1>13 DEF Create!ArtifactMismatch
  <2>2. AllocationOK'
    BY <1>13 DEF Create!ArtifactMismatch
  <2>3. AbsenceOK'
    BY <1>13 DEF Create!ArtifactMismatch
  <2>. QED
    BY <2>1, <2>2, <2>3
<1>14. CASE Create!RollbackSucceeds
  <2>1. RecoveryOK'
    BY <1>14 DEF Create!RollbackSucceeds
  <2>2. AllocationOK'
    BY <1>14 DEF Create!RollbackSucceeds
  <2>3. AbsenceOK'
    BY <1>14 DEF Create!RollbackSucceeds
  <2>. QED
    BY <2>1, <2>2, <2>3
<1>15. CASE Create!RollbackFails
  <2>1. RecoveryOK'
    BY <1>15 DEF Create!RollbackFails
  <2>2. AllocationOK'
    BY <1>15 DEF Create!RollbackFails
  <2>3. AbsenceOK'
    BY <1>15 DEF Create!RollbackFails
  <2>. QED
    BY <2>1, <2>2, <2>3
<1>16. CASE Create!ObserveDestroys
  <2>1. RecoveryOK'
    BY <1>16 DEF Create!ObserveDestroys
  <2>2. AllocationOK'
    BY <1>16 DEF Create!ObserveDestroys
  <2>3. AbsenceOK'
    BY <1>16 DEF Create!ObserveDestroys
  <2>. QED
    BY <2>1, <2>2, <2>3
<1>17. CASE Create!ObserveFails
  <2>1. RecoveryOK'
    BY <1>17 DEF Create!ObserveFails
  <2>2. AllocationOK'
    BY <1>17 DEF Create!ObserveFails
  <2>3. AbsenceOK'
    BY <1>17 DEF Create!ObserveFails
  <2>. QED
    BY <2>1, <2>2, <2>3
<1>18. CASE Create!ObserveAbsent
  <2>1. RecoveryOK'
    BY <1>18 DEF Create!ObserveAbsent, Create!MayMiss, Create!EmptyProves
  <2>2. AllocationOK'
    BY <1>18 DEF Create!ObserveAbsent, Create!MayMiss, Create!EmptyProves
  <2>3. AbsenceOK'
    BY <1>18 DEF Create!ObserveAbsent, Create!MayMiss, Create!EmptyProves
  <2>. QED
    BY <2>1, <2>2, <2>3
<1>19. CASE Create!ObserveContradicts
  <2>1. RecoveryOK'
    BY <1>19 DEF Create!ObserveContradicts
  <2>2. AllocationOK'
    BY <1>19 DEF Create!ObserveContradicts
  <2>3. AbsenceOK'
    BY <1>19 DEF Create!ObserveContradicts
  <2>. QED
    BY <2>1, <2>2, <2>3
<1>20. CASE Create!Wake
  <2>1. RecoveryOK'
    BY <1>20 DEF Create!Wake
  <2>2. AllocationOK'
    BY <1>20 DEF Create!Wake
  <2>3. AbsenceOK'
    BY <1>20 DEF Create!Wake
  <2>. QED
    BY <2>1, <2>2, <2>3
<1>21. CASE Create!Cleanup
  <2>1. RecoveryOK'
    BY <1>21 DEF Create!Cleanup
  <2>2. AllocationOK'
    BY <1>21 DEF Create!Cleanup
  <2>3. AbsenceOK'
    BY <1>21 DEF Create!Cleanup
  <2>. QED
    BY <2>1, <2>2, <2>3
<1>. QED
  BY <1>1, <1>2, <1>3, <1>4, <1>5, <1>6, <1>7, <1>8, <1>9, <1>10, <1>11,
     <1>12, <1>13, <1>14, <1>15, <1>16, <1>17, <1>18, <1>19, <1>20, <1>21
  DEF Create!Next

-----------------------------------------------------------------------------
(* The promise of the port *)

LEMMA PortStep ==
    ASSUME CreateInv, ~HandedOver, vendor' \in {"none", "running", "gone"}, Create!Next
    PROVE  [Create!Port!Next]_(Create!Port!vars)
<1>. USE TimingAssumption
     DEF CreateInv, CreateOK, RecoveryOK, AllocationOK, Nothing, HandedOver, Create!TypeOK, Live,
         Create!End, Create!Recovered, Create!NotRecovered, Create!StartReconciling,
         Create!AfterAbsence, Create!Port!Next, Create!Port!vars
<1>1. CASE Create!Allocate
  BY <1>1 DEF Create!Allocate, Create!Port!Allocate
<1>2. CASE Create!Reap
  BY <1>2 DEF Create!Reap, Create!Port!Remove
<1>3. CASE Create!Tick
  BY <1>3 DEF Create!Tick
<1>4. CASE Create!Abort
  BY <1>4 DEF Create!Abort
<1>5. CASE Create!Call
  BY <1>5 DEF Create!Call, Create!Port!Ask
<1>6. CASE Create!Refused
  <2>1. verdict = "none" /\ verdict' = "rejected" 
        /\ phase = "calling" /\ vendor = "none" /\ vendor' = "none"
    BY <1>6 DEF Create!Refused
  <2>. QED
    BY <2>1 DEF Create!Port!Decide
<1>7. CASE Create!Ambiguous
  BY <1>7 DEF Create!Ambiguous
<1>8. CASE Create!Returned
  BY <1>8 DEF Create!Returned
<1>9. CASE Create!Identify
  BY <1>9 DEF Create!Identify
<1>10. CASE Create!Prepare
  BY <1>10 DEF Create!Prepare
<1>11. CASE Create!Accept
  <2>1. verdict = "none" /\ verdict' = "handle" 
        /\ phase = "checking" /\ vendor # "none" /\ vendor' = vendor
    BY <1>11 DEF Create!Accept
  <2>. QED
    BY <2>1 DEF Create!Port!Return
<1>12. CASE Create!CheckFails
  BY <1>12 DEF Create!CheckFails
<1>13. CASE Create!ArtifactMismatch
  BY <1>13 DEF Create!ArtifactMismatch
<1>14. CASE Create!RollbackSucceeds
  BY <1>14 DEF Create!RollbackSucceeds, Create!Port!Decide
<1>15. CASE Create!RollbackFails
  BY <1>15 DEF Create!RollbackFails, Create!Port!Retain
<1>16. CASE Create!ObserveDestroys
  BY <1>16 DEF Create!ObserveDestroys, Create!Port!Decide
<1>17. CASE Create!ObserveFails
  BY <1>17 DEF Create!ObserveFails, Create!Port!Retain
<1>18. CASE Create!ObserveAbsent
  BY <1>18 DEF Create!ObserveAbsent, Create!Port!Decide, Create!Port!Retain,
             Create!MayMiss, Create!EmptyProves, AbsenceOK
<1>19. CASE Create!ObserveContradicts
  BY <1>19 DEF Create!ObserveContradicts, Create!Port!Decide, Create!Port!Retain
<1>20. CASE Create!Wake
  BY <1>20 DEF Create!Wake, Create!Port!Retain
<1>21. CASE Create!Cleanup
  BY <1>21 DEF Create!Cleanup
<1>. QED
  BY <1>1, <1>2, <1>3, <1>4, <1>5, <1>6, <1>7, <1>8, <1>9, <1>10, <1>11,
     <1>12, <1>13, <1>14, <1>15, <1>16, <1>17, <1>18, <1>19, <1>20, <1>21
  DEF Create!Next

-----------------------------------------------------------------------------
(* The session *)

\* What the steps of a session are: of an operation, of a destroy, of the drain
\* and of a removal that came back.
SessionStep ==
    \/ \E o \in Operations : Session!StartOperation(o) \/ Session!EndOperation(o)
    \/ Session!DrainTimesOut
    \/ \E w \in Owners : Session!Destroy(w) \/ Session!Dispose(w)
    \/ Session!Drained
    \/ vendor = "gone" /\ Session!RemovalSucceeds
    \/ Session!RemovalFails

\* A session keeps its invariant while the vendor stands still.
LEMMA SessionStepOK ==
    ASSUME Session!TypeOK, SessionOK, UNCHANGED vendor, SessionStep
    PROVE  Session!TypeOK' /\ SessionOK'
<1>. USE DEF Session!TypeOK, SessionOK, Session!Active
<1>1. ASSUME NEW o \in Operations, Session!StartOperation(o)
      PROVE  Session!TypeOK' /\ SessionOK'
  BY <1>1 DEF Session!StartOperation, Session!Accepted
<1>2. ASSUME NEW o \in Operations, Session!EndOperation(o)
      PROVE  Session!TypeOK' /\ SessionOK'
  BY <1>2 DEF Session!EndOperation
<1>3. CASE Session!DrainTimesOut
  BY <1>3 DEF Session!DrainTimesOut
<1>4. ASSUME NEW w \in Owners, Session!Ask(w), UNCHANGED operation,
             \A x \in Owners : x # w => completion'[x] = completion[x],
             completion' \in [Owners -> {"none", "pending", "ok", "failed"}],
             completion'[w] = "ok" => vendor = "gone"
      PROVE  Session!TypeOK' /\ SessionOK'
  <2>1. CASE state = "destroyed"
    BY <1>4, <2>1 DEF Session!Ask
  <2>2. CASE state # "destroyed" /\ (attempt # "none" \/ teardown # "none")
    BY <1>4, <2>2 DEF Session!Ask, Session!BeginTeardown
  <2>3. CASE state # "destroyed" /\ attempt = "none" /\ teardown = "none"
    <3>1. calls = 0
      BY <2>3
    <3>2. /\ state' = "destroying" /\ teardown' \in {"draining", "calling"}
          /\ attempt' \in {"bounded", "joined"} /\ calls' \in 0..1
      BY <1>4, <2>3, <3>1 DEF Session!Ask, Session!BeginTeardown
    <3>4. Session!TypeOK'
      BY <1>4, <2>3, <3>2 DEF Session!Ask
    <3>3. SessionOK'
      BY <1>4, <2>3, <3>1 DEF Session!Ask, Session!BeginTeardown
    <3>. QED
      BY <3>4, <3>3
  <2>. QED
    BY <2>1, <2>2, <2>3
<1>5. ASSUME NEW w \in Owners, Session!Destroy(w)
      PROVE  Session!TypeOK' /\ SessionOK'
  BY <1>4, <1>5 DEF Session!Destroy
<1>6. ASSUME NEW w \in Owners, Session!Dispose(w)
      PROVE  Session!TypeOK' /\ SessionOK'
  <2>1. CASE completion[w] = "ok"
    BY <1>6, <2>1 DEF Session!Dispose
  <2>2. CASE completion[w] # "ok"
    BY <1>4, <1>6, <2>2 DEF Session!Dispose
  <2>. QED
    BY <2>1, <2>2
<1>7. CASE Session!Drained
  BY <1>7 DEF Session!Drained
<1>8. CASE vendor = "gone" /\ Session!RemovalSucceeds
  BY <1>8 DEF Session!RemovalSucceeds, Session!Settle
<1>9. CASE Session!RemovalFails
  BY <1>9 DEF Session!RemovalFails, Session!Settle
<1>. QED
  BY <1>1, <1>2, <1>3, <1>5, <1>6, <1>7, <1>8, <1>9 DEF SessionStep

\* What the vendor does to a sandbox that was handed over.
VendorMoves ==
    /\ vendor # "none"
    /\ vendor' \in {vendor, "deleting", "gone"}
    /\ vendor = "gone" => vendor' = "gone"

\* A session that stands still keeps its invariant while the vendor removes.
LEMMA SessionStandsStill ==
    ASSUME Session!TypeOK, SessionOK, VendorMoves, UNCHANGED sessionVars
    PROVE  Session!TypeOK' /\ SessionOK'
BY DEF Session!TypeOK, SessionOK, Session!Active, VendorMoves, sessionVars

-----------------------------------------------------------------------------
(* The removals *)

RemovalInv == RemovalTypeOK /\ RemovalOK

\* A step of a removal moves the vendor towards gone, and ends in removed only
\* when it is gone.
LEMMA RemovalStepOK ==
    ASSUME RemovalInv, TimingAssumption, vendor \in {"running", "deleting", "gone"},
           NEW r \in Removal!Removals,
           Removing(r)
    PROVE  RemovalInv' /\ VendorMoves
<1>. USE TimingAssumption
     DEF RemovalInv, RemovalTypeOK, RemovalOK, VendorMoves, Removal!Ends, Removal!Done,
         Removal!AfterRequest
<1>1. CASE Removal!RequestRemoves(r)
  BY <1>1 DEF Removal!RequestRemoves
<1>2. CASE Removal!RequestAccepted(r)
  BY <1>2 DEF Removal!RequestAccepted
<1>3. CASE Removal!RequestRefused(r)
  BY <1>3 DEF Removal!RequestRefused
<1>4. CASE Removal!RequestFails(r)
  BY <1>4 DEF Removal!RequestFails
<1>5. CASE Removal!ReadGone(r)
  BY <1>5 DEF Removal!ReadGone
<1>6. CASE Removal!ReadPresent(r)
  BY <1>6 DEF Removal!ReadPresent
<1>7. CASE Removal!ReadTimesOut(r)
  BY <1>7 DEF Removal!ReadTimesOut
<1>8. CASE Removal!ReadFails(r)
  BY <1>8 DEF Removal!ReadFails
<1>9. CASE Removal!Wake(r)
  BY <1>9 DEF Removal!Wake
<1>10. CASE Removal!Expire(r)
  BY <1>10 DEF Removal!Expire
<1>. QED
  BY <1>1, <1>2, <1>3, <1>4, <1>5, <1>6, <1>7, <1>8, <1>9, <1>10 DEF Removing, Removal!Answer

\* A removal that begins disturbs no other one.
LEMMA RemovalBegins ==
    ASSUME RemovalInv, NEW r \in Removal!Removals, Removal!Begins(r)
    PROVE  RemovalInv' /\ UNCHANGED vendor
BY DEF RemovalInv, RemovalTypeOK, RemovalOK, Removal!Begins

LEMMA RemovalsStandStill ==
    ASSUME RemovalInv, vendor = "gone" => vendor' = "gone", UNCHANGED removalVars
    PROVE  RemovalInv'
BY DEF RemovalInv, RemovalTypeOK, RemovalOK, removalVars

-----------------------------------------------------------------------------
(* Every step of the composition *)

LEMMA ManagedInit == TimingAssumption /\ Init => ManagedInv
<1>. SUFFICES ASSUME TimingAssumption, Init PROVE ManagedInv
  OBVIOUS
<1>. USE TimingAssumption DEF Init, Create!Init, Session!Init, Live
<1>1. vendor = "none" /\ ~HandedOver /\ phase = "idle" /\ absentFor = -1
  BY DEF HandedOver
<1>2. Create!TypeOK
  <2>1. CreateBooleans
    BY DEF CreateBooleans
  <2>. QED
    BY <1>1, <2>1 DEF Create!TypeOK, CreateBooleans
<1>3. Session!TypeOK /\ SessionOK
  BY DEF Session!TypeOK, SessionOK, Session!Active
<1>4. RemovalInv
  <2>1. /\ asked \in [Removal!Removals -> BOOLEAN]
        /\ accepted \in [Removal!Removals -> BOOLEAN]
        /\ seenGone \in BOOLEAN
    BY ZenonT(20)
  <2>. QED
    BY <2>1 DEF RemovalInv, RemovalTypeOK, RemovalOK
<1>5. RecoveryOK /\ AllocationOK /\ AbsenceOK
  BY DEF RecoveryOK, AllocationOK, AbsenceOK, Nothing
<1>6. Untouched
  BY DEF Untouched
<1>. QED
  BY <1>1, <1>2, <1>3, <1>4, <1>5, <1>6 DEF ManagedInv, CreateOK, RemovalInv

\* Once a handle is out, the create has nothing left to say.
LEMMA CreateStandsStill ==
    ASSUME ManagedInv, HandedOver, vendor' = vendor \/ VendorMoves, UNCHANGED createVars
    PROVE  /\ Create!TypeOK' /\ CreateOK' /\ HandedOver'
           /\ vendor' \in {"none", "running", "deleting", "gone"}
<1>. USE DEF ManagedInv, HandedOver, VendorMoves, createVars, Live
<1>1. Create!TypeOK'
  BY DEF Create!TypeOK
<1>2. CreateOK'
  BY DEF CreateOK, RecoveryOK, AllocationOK, AbsenceOK, Nothing
<1>. QED
  BY <1>1, <1>2

\* The removals are asked for by a session that was handed over.
LEMMA SettledIsHandedOver ==
    ASSUME ManagedInv, Settled
    PROVE  /\ HandedOver
           /\ pc["session"] = "removed" => vendor = "gone"
BY DEF ManagedInv, Settled, Untouched, RemovalOK, Removal!Removals

LEMMA CreatingOK ==
    ASSUME ManagedInv, TimingAssumption, Creating
    PROVE  ManagedInv'
<1>1. PICK v \in {"none", "running", "gone"} : vendor' = v /\ Create!Next
  BY DEF Creating
<1>2. CreateInv /\ ~HandedOver
  BY DEF ManagedInv, CreateInv, Creating
<1>3. Create!TypeOK' /\ CreateOK'
  BY <1>1, <1>2, CreateType, CreateStepOK
<1>4. UNCHANGED sessionVars /\ UNCHANGED removalVars /\ Untouched
  BY DEF Creating, ManagedInv
<1>5. Session!TypeOK' /\ SessionOK'
  BY <1>2, <1>4
     DEF ManagedInv, Session!TypeOK, SessionOK, Session!Active, sessionVars, Untouched
<1>6. RemovalTypeOK' /\ RemovalOK'
  BY <1>2, <1>4 DEF ManagedInv, RemovalTypeOK, RemovalOK, removalVars, Untouched
<1>7. Untouched'
  BY <1>2, <1>4 DEF Untouched, sessionVars, removalVars
<1>. QED
  BY <1>1, <1>3, <1>5, <1>6, <1>7 DEF ManagedInv

LEMMA OperatingOK ==
    ASSUME ManagedInv, Operating \/ Destroying \/ Settled
    PROVE  ManagedInv'
<1>1. HandedOver /\ UNCHANGED vendor /\ UNCHANGED createVars
  BY SettledIsHandedOver DEF Operating, Destroying, Settled
<1>2. Create!TypeOK' /\ CreateOK' /\ HandedOver'
      /\ vendor' \in {"none", "running", "deleting", "gone"}
  BY <1>1, CreateStandsStill
<1>3. SessionStep
  BY SettledIsHandedOver DEF Operating, Destroying, Settled, SessionStep
<1>4. Session!TypeOK' /\ SessionOK'
  BY <1>1, <1>3, SessionStepOK DEF ManagedInv
<1>5. RemovalInv
  BY DEF ManagedInv, RemovalInv
<1>6. RemovalInv'
  <2>1. CASE UNCHANGED removalVars
    BY <1>1, <1>5, <2>1, RemovalsStandStill
  <2>2. CASE Destroying /\ Removal!Begins("session")
    BY <1>5, <2>2, RemovalBegins DEF Removal!Removals
  <2>3. CASE Settled
    BY <1>1, <1>5, <2>3 DEF Settled, RemovalInv, RemovalTypeOK, RemovalOK
  <2>. QED
    BY <2>1, <2>2, <2>3 DEF Operating, Destroying
<1>. QED
  BY <1>2, <1>4, <1>6 DEF ManagedInv, RemovalInv, Untouched

LEMMA RemovingOK ==
    ASSUME ManagedInv, TimingAssumption,
           Sweeping \/ (\E r \in Removal!Removals : RemovalStep(r)) \/ VendorRemoves
    PROVE  ManagedInv'
<1>1. HandedOver /\ UNCHANGED createVars /\ UNCHANGED sessionVars
  BY DEF Sweeping, RemovalStep, VendorRemoves
<1>2. RemovalInv /\ vendor \in {"running", "deleting", "gone"}
  BY <1>1 DEF ManagedInv, RemovalInv, CreateOK, AllocationOK, HandedOver
<1>3. RemovalInv' /\ VendorMoves
  <2>1. CASE Sweeping
    BY <1>2, <2>1, RemovalBegins
       DEF Sweeping, Removal!Start, Removal!Removals, VendorMoves
  <2>2. CASE \E r \in Removal!Removals : RemovalStep(r)
    BY <1>2, <2>2, RemovalStepOK DEF RemovalStep
  <2>3. CASE VendorRemoves
    BY <1>2, <2>3, RemovalsStandStill
       DEF VendorRemoves, Removal!VendorRemoves, VendorMoves, removalVars
  <2>. QED
    BY <2>1, <2>2, <2>3
<1>4. Create!TypeOK' /\ CreateOK' /\ HandedOver'
      /\ vendor' \in {"none", "running", "deleting", "gone"}
  BY <1>1, <1>3, CreateStandsStill
<1>5. Session!TypeOK' /\ SessionOK'
  BY <1>1, <1>3, SessionStandsStill DEF ManagedInv
<1>. QED
  BY <1>3, <1>4, <1>5 DEF ManagedInv, RemovalInv, Untouched

LEMMA ManagedStutters == ManagedInv /\ UNCHANGED vars => ManagedInv'
<1>. SUFFICES ASSUME ManagedInv, UNCHANGED vars PROVE ManagedInv'
  OBVIOUS
<1>. USE DEF vars, createVars, sessionVars, removalVars
<1>1. Create!TypeOK' /\ CreateOK'
  BY DEF ManagedInv, Create!TypeOK, CreateOK, RecoveryOK, AllocationOK, AbsenceOK, Nothing, Live
<1>2. Session!TypeOK' /\ SessionOK'
  BY DEF ManagedInv, Session!TypeOK, SessionOK, Session!Active
<1>3. RemovalTypeOK' /\ RemovalOK' /\ Untouched'
  BY DEF ManagedInv, RemovalTypeOK, RemovalOK, Untouched, HandedOver
<1>. QED
  BY <1>1, <1>2, <1>3 DEF ManagedInv, HandedOver

LEMMA ManagedNext == TimingAssumption /\ ManagedInv /\ [Next]_vars => ManagedInv'
BY CreatingOK, OperatingOK, RemovingOK, ManagedStutters DEF Next

LEMMA Managed == Spec => []ManagedInv
<1>1. Init => ManagedInv
  BY ManagedInit, TimingAssumption
<1>2. ManagedInv /\ [Next]_vars => ManagedInv'
  BY ManagedNext, TimingAssumption
<1>. QED
  BY <1>1, <1>2, PTL DEF Spec

-----------------------------------------------------------------------------
(* Theorems *)

\* Every variable keeps its type, whatever the timing of the vendor: the clock of
\* an absence never passes the window, nor the attempts of a reconciliation their
\* bound (reconcileAmbiguousCreate).
THEOREM TypeCorrect == Spec => []TypeOK
<1>1. ManagedInv => TypeOK
  BY DEF ManagedInv, TypeOK, RemovalTypeOK, Removal!TypeOK
<1>. QED
  BY <1>1, Managed, PTL

\* The provider is asked to remove a session at most once at a time, and only
\* while no accepted operation runs on it (beginTeardown).
THEOREM RemovalAlone == Spec => []RemovalIsAlone
<1>1. ManagedInv => RemovalIsAlone
  BY DEF ManagedInv, SessionOK, Session!TypeOK, RemovalIsAlone, Session!RemovalIsAlone
<1>. QED
  BY <1>1, Managed, PTL

\* A destroy that resolved, a disposed deferral and a destroyById that returned
\* mean the sandbox is gone (destroy of vendor-lifecycle.ts, DeferredTeardownError).
THEOREM OkIsGone == Spec => []OkMeansGone
<1>1. ManagedInv => OkMeansGone
  BY DEF ManagedInv, SessionOK, RemovalOK, OkMeansGone, Session!OkMeansGone,
         Removal!RemovedMeansGone
<1>. QED
  BY <1>1, Managed, PTL

\* A driver's create keeps the promise of its port: a rejection, or a cleanup
\* reported as done, means nothing is allocated and nothing ever will be, for
\* every listing lag within the confirmation window (reconcileAmbiguousCreate).
THEOREM PortImplemented == Spec => ImplementsPort
<1>1. Init => Create!Port!Init
  BY DEF Init, Create!Init, Create!Port!Init, Live
<1>2. ManagedInv /\ [Next]_vars => [Create!Port!Next]_(Create!Port!vars)
  <2>. SUFFICES ASSUME ManagedInv, [Next]_vars
                PROVE  [Create!Port!Next]_(Create!Port!vars)
    OBVIOUS
  <2>1. CASE Creating
    <3>1. vendor' \in {"none", "running", "gone"} /\ Create!Next
      BY <2>1 DEF Creating
    <3>2. CreateInv /\ ~HandedOver
      BY <2>1 DEF ManagedInv, CreateInv, Creating
    <3>. QED
      BY <3>1, <3>2, PortStep
  <2>2. CASE Operating \/ Destroying \/ Settled \/ Sweeping \/ UNCHANGED vars
    <3>1. UNCHANGED vendor /\ UNCHANGED createVars
      BY <2>2
         DEF Operating, Destroying, Settled, Sweeping, Removal!Start, Removal!Begins, vars
    <3>. QED
      BY <3>1 DEF createVars, Create!Port!vars, Live
  <2>3. CASE VendorRemoves \/ \E r \in Removal!Removals : RemovalStep(r)
    <3>1. HandedOver /\ UNCHANGED createVars
      BY <2>3 DEF VendorRemoves, RemovalStep
    <3>2. RemovalInv /\ vendor \in {"running", "deleting", "gone"}
      BY <3>1 DEF ManagedInv, RemovalInv, CreateOK, AllocationOK, HandedOver
    <3>3. VendorMoves
      BY <2>3, <3>2, RemovalStepOK, TimingAssumption
         DEF VendorRemoves, Removal!VendorRemoves, VendorMoves, RemovalStep
    <3>. QED
      BY <3>1, <3>2, <3>3
         DEF VendorMoves, createVars, Live, Create!Port!Next, Create!Port!Remove,
             Create!Port!vars
  <2>. QED
    BY <2>1, <2>2, <2>3 DEF Next
<1>. QED
  BY <1>1, <1>2, Managed, PTL DEF Spec, ImplementsPort, Create!ImplementsPort, Create!Port!Spec

-----------------------------------------------------------------------------
(* What the port is worth to its caller                                     *)

Refused   == verdict \in {"rejected", "cleaned"}
NoSandbox == vendor \notin {"running", "deleting"}

\* Nothing is allocated before the create is asked for, nor when it was refused.
PortInv ==
  /\ verdict = "none" /\ phase = "idle" => vendor = "none"
  /\ Refused => NoSandbox

\* What the caller sees of a create, and of its sandbox.
LEMMA PortSees ==
  ASSUME TypeOK
  PROVE  LET seen  == IF verdict # "none" THEN verdict
                      ELSE IF phase = "idle" THEN "idle" ELSE "pending"
             alloc == IF Live = "running" THEN "live" ELSE Live
         IN  /\ seen \in {"idle", "pending", "handle", "rejected", "recoverable", "cleaned"}
             /\ Refused <=> seen \in {"rejected", "cleaned"}
             /\ verdict = "none" /\ phase = "idle" <=> seen = "idle"
             /\ NoSandbox <=> alloc # "live"
             /\ vendor = "none" <=> alloc = "none"
BY DEF TypeOK, Create!TypeOK, Live, Refused, NoSandbox

LEMMA PortKeeps ==
  ASSUME TypeOK, TypeOK', PortInv, [Create!Port!Next]_(Create!Port!vars)
  PROVE  PortInv' /\ (Refused => Refused')
<1>. DEFINE seen  == IF verdict # "none" THEN verdict
                     ELSE IF phase = "idle" THEN "idle" ELSE "pending"
            alloc == IF Live = "running" THEN "live" ELSE Live
<1>1. /\ Refused <=> seen \in {"rejected", "cleaned"}
      /\ verdict = "none" /\ phase = "idle" <=> seen = "idle"
      /\ NoSandbox <=> alloc # "live"
      /\ vendor = "none" <=> alloc = "none"
  BY PortSees
<1>2. /\ Refused' <=> seen' \in {"rejected", "cleaned"}
      /\ (verdict = "none" /\ phase = "idle")' <=> seen' = "idle"
      /\ NoSandbox' <=> alloc' # "live"
      /\ (vendor = "none")' <=> alloc' = "none"
  BY DEF TypeOK, Create!TypeOK, Live, Refused, NoSandbox
<1>3. \/ seen' = seen /\ alloc' = alloc
      \/ seen = "idle" /\ seen' \in {"pending", "rejected"} /\ alloc' = alloc
      \/ alloc = "none" /\ seen \in {"pending", "recoverable"} /\ seen' = seen
      \/ alloc = "live" /\ alloc' = "gone" /\ seen' = seen
      \/ seen = "pending" /\ seen' \in {"handle", "recoverable"}
      \/ seen \in {"pending", "recoverable"} /\ seen' \in {"rejected", "cleaned"} /\ alloc' # "live"
  BY DEF Create!Port!vars, Create!Port!Next, Create!Port!Ask, Create!Port!Allocate,
         Create!Port!Remove, Create!Port!Return, Create!Port!Retain, Create!Port!Decide
<1>. HIDE DEF seen, alloc
<1>. QED
  BY <1>1, <1>2, <1>3 DEF PortInv

\* Once a create was rejected, or its cleanup reported as done, no sandbox of it
\* runs then or at any later time: what runCell concludes from an error that is
\* not a FailedCreateCleanupError (execute-experiment.ts:209-210).
THEOREM RefusalIsFinal == Spec => [](Refused => [](Refused /\ NoSandbox))
<1>1. Init => PortInv
  BY DEF Init, Create!Init, PortInv, Refused, NoSandbox
<1>2. TypeOK /\ TypeOK' /\ PortInv /\ [Create!Port!Next]_(Create!Port!vars)
        => PortInv' /\ (Refused => Refused')
  BY PortKeeps
<1>3. PortInv => (Refused => NoSandbox)
  BY DEF PortInv
<1>. QED
  BY <1>1, <1>2, <1>3, TypeCorrect, PortImplemented, PTL
       DEF Spec, ImplementsPort, Create!ImplementsPort, Create!Port!Spec
=============================================================================
