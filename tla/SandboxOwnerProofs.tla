------------------------- MODULE SandboxOwnerProofs -------------------------
(* What the process-level owner guarantees for every number of sandboxes   *)
(* and of teardown attempts: no live session is dropped, success leaves    *)
(* nothing behind, a handle is destroyed once at a time, and the handlers  *)
(* stay while there is something to lose.                                  *)
EXTENDS SandboxOwner, FiniteSetTheorems, TLAPS

-----------------------------------------------------------------------------
(* The inductive invariant *)

\* Where the create of a sandbox is says what the registry, the provider and
\* the teardown wrapper may hold of it.
EntryOK(s) ==
    /\ worker[s] = "idle" => create[s] = "none"
    /\ worker[s] = "working" => create[s] = "handle"
    /\ create[s] \in {"none", "queued", "rejected"} => session[s] = "none"
    /\ create[s] \in {"none", "queued", "pending", "rejected"} =>
          teardown[s] = "none" /\ calls[s] = {}
    /\ create[s] \in {"queued", "pending"} => s \in owned
    /\ create[s] \in {"none", "rejected"} => s \notin owned
    /\ create[s] = "recoverable" => s \in owned \/ session[s] = "gone"
    /\ create[s] = "handle" =>
          calls[s] = IF teardown[s] \in Callers THEN {teardown[s]} ELSE {}
    /\ session[s] = "live" => s \in owned \cup handedOver

\* Creates are refused from the first drain on, so what a drain has found
\* empty when it left its attempts stays empty.
DrainOK(d) ==
    /\ drain[d].pc # "off" => stopping
    /\ drain[d].pc \in {"operations", "over"} /\ ~drain[d].failed => owned = {}

OwnerInv ==
    /\ TypeOK
    /\ \A s \in Sandboxes : EntryOK(s)
    /\ \A d \in Drains : DrainOK(d)
    /\ HandlersGuardOwnership
    /\ exitCode = 0 => owned = {}

-----------------------------------------------------------------------------
(* The attempt loop *)

DrainState ==
    [pc : {"off", "waiting", "pause", "operations", "over"},
     n : 0..Attempts,
     wait : [Sandboxes -> {"no", "create", "shared", "own", "ok", "fail"}],
     failed : BOOLEAN, expired : BOOLEAN, code : {0, 2}]

\* The head of the loop begins an attempt or leaves, and leaves without a failure
\* only when nothing is owned.
LEMMA LoopState ==
    ASSUME NEW r \in DrainState
    PROVE  /\ Loop(r) \in DrainState
           /\ Loop(r).pc \in {"waiting", "operations"}
           /\ Loop(r).pc = "operations" /\ ~Loop(r).failed => owned = {}
<1>1. CASE r.n < Attempts /\ owned # {}
  <2>1. r.n + 1 \in 0..Attempts
    BY <1>1, AttemptsAssumption DEF DrainState
  <2>2. [s \in Sandboxes |-> IF s \notin owned THEN "no" ELSE IF r.expired THEN "fail" ELSE "create"]
          \in [Sandboxes -> {"no", "create", "shared", "own", "ok", "fail"}]
    OBVIOUS
  <2>. QED
    BY <1>1, <2>1, <2>2 DEF Loop, DrainState
<1>2. CASE ~(r.n < Attempts /\ owned # {})
  BY <1>2 DEF Loop, DrainState
<1>. QED
  BY <1>1, <1>2

LEMMA IdleState ==
    /\ Idle \in DrainState
    /\ \A code \in {0, 2} : [Idle EXCEPT !.code = code] \in DrainState
<1>1. 0 \in 0..Attempts
  BY AttemptsAssumption
<1>2. [s \in Sandboxes |-> "no"] \in [Sandboxes -> {"no", "create", "shared", "own", "ok", "fail"}]
  OBVIOUS
<1>3. Idle \in DrainState
  BY <1>1, <1>2 DEF Idle, DrainState
<1>4. ASSUME NEW code \in {0, 2}, NEW r \in DrainState
      PROVE  [r EXCEPT !.code = code] \in DrainState
  BY <1>4 DEF DrainState
<1>. QED
  BY <1>3, <1>4

LEMMA SettleState ==
    ASSUME drain \in [Drains -> DrainState], NEW s \in Sandboxes, NEW how \in {"ok", "fail"}
    PROVE  /\ Settle(s, how) \in [Drains -> DrainState]
           /\ \A d \in Drains : /\ Settle(s, how)[d].pc = drain[d].pc
                                /\ Settle(s, how)[d].failed = drain[d].failed
BY DEF Settle, DrainState

-----------------------------------------------------------------------------
(* Types *)

\* What TypeOK says besides the drains.
OthersTypeOK ==
    /\ worker \in [Sandboxes -> {"idle", "creating", "working", "destroying", "done"}]
    /\ create \in [Sandboxes -> {"none", "queued", "pending", "handle",
                                 "rejected", "recoverable"}]
    /\ session \in [Sandboxes -> {"none", "live", "gone"}]
    /\ owned \subseteq Sandboxes
    /\ handedOver \subseteq Sandboxes
    /\ teardown \in [Sandboxes -> Callers \cup {"none", "confirmed"}]
    /\ calls \in [Sandboxes -> SUBSET Callers]
    /\ operation \in {"idle", "running", "over"}
    /\ handlers \in BOOLEAN
    /\ stopping \in BOOLEAN
    /\ exitCode \in {Running, 0, 1, 2, Interrupted}

LEMMA TypeParts == TypeOK <=> OthersTypeOK /\ drain \in [Drains -> DrainState]
BY DEF TypeOK, OthersTypeOK, DrainState

\* The steps of one sandbox.
SandboxStep(s) ==
    \/ Register(s) \/ Refuse(s) \/ Invoke(s) \/ Allocate(s)
    \/ CreateReturns(s) \/ CreateRejects(s) \/ CreateFailsRecoverably(s)
    \/ WorkEnds(s) \/ HandOver(s) \/ SharedSucceeds(s) \/ SharedFails(s)
    \/ \E d \in Drains : OwnSettles(d, s) \/ DestroyEntry(d, s)

DrainStep(d) == AttemptEnds(d) \/ PauseEnds(d) \/ Deadline(d) \/ OperationsDone(d)

ProcessStep ==
    \/ StartOperation \/ OperationSettles
    \/ \E code \in {0, 2} : ExitAfterCleanup(code)
    \/ Signal \/ BeforeExit \/ FallThrough

LEMMA Steps ==
    Next => (\E s \in Sandboxes : SandboxStep(s)) \/ (\E d \in Drains : DrainStep(d)) \/ ProcessStep
BY DEF Next, SandboxStep, DrainStep, ProcessStep

LEMMA ReleaseType ==
    ASSUME handlers \in BOOLEAN, owned \subseteq Sandboxes, NEW s, Release(s)
    PROVE  handlers' \in BOOLEAN /\ owned' \subseteq Sandboxes
BY DEF Release, HandlersAfter

LEMMA SandboxType ==
    ASSUME TypeOK, NEW s \in Sandboxes, SandboxStep(s)
    PROVE  TypeOK'
<1>1. OthersTypeOK /\ drain \in [Drains -> DrainState]
  BY TypeParts
<1>2. SUFFICES OthersTypeOK' /\ drain' \in [Drains -> DrainState]
  <2>1. (TypeOK <=> OthersTypeOK /\ drain \in [Drains -> DrainState])'
    BY TypeParts, PTL
  <2>. QED
    BY <1>2, <2>1
<1>3. OthersTypeOK'
  <2>1. CASE Register(s) \/ Refuse(s) \/ Invoke(s) \/ Allocate(s)
    BY <1>1, <2>1 DEF OthersTypeOK, Register, Refuse, Invoke, Allocate
  <2>2. CASE CreateReturns(s) \/ CreateRejects(s) \/ CreateFailsRecoverably(s) \/ HandOver(s)
    BY <1>1, <2>2, ReleaseType
       DEF OthersTypeOK, CreateReturns, CreateRejects, CreateFailsRecoverably, HandOver
  <2>3. CASE WorkEnds(s)
    BY <1>1, <2>3 DEF OthersTypeOK, WorkEnds, Effect, Call, Callers
  <2>4. CASE SharedSucceeds(s) \/ SharedFails(s)
    BY <1>1, <2>4, ReleaseType DEF OthersTypeOK, SharedSucceeds, SharedFails, WorkerSettles
  <2>5. ASSUME NEW d \in Drains, OwnSettles(d, s) \/ DestroyEntry(d, s)
        PROVE  OthersTypeOK'
    BY <1>1, <2>5 DEF OthersTypeOK, OwnSettles, DestroyEntry, Effect, Call, Callers
  <2>. QED
    BY <2>1, <2>2, <2>3, <2>4, <2>5 DEF SandboxStep
<1>4. drain' \in [Drains -> DrainState]
  <2>1. CASE UNCHANGED drain
    BY <1>1, <2>1
  <2>2. CASE SharedSucceeds(s) \/ SharedFails(s)
    BY <1>1, <2>2, SettleState DEF SharedSucceeds, SharedFails
  <2>3. ASSUME NEW d \in Drains, NEW w \in {"shared", "own", "ok", "fail"},
               drain' = [drain EXCEPT ![d].wait[s] = w]
        PROVE  drain' \in [Drains -> DrainState]
    <3>1. ASSUME NEW r \in DrainState
          PROVE  [r EXCEPT !.wait[s] = w] \in DrainState
      <4>1. [r.wait EXCEPT ![s] = w] \in [Sandboxes -> {"no", "create", "shared", "own", "ok", "fail"}]
        BY <2>3, <3>1 DEF DrainState
      <4>. QED
        BY <4>1 DEF DrainState
    <3>. QED
      BY <1>1, <2>3, <3>1
  <2>4. ASSUME NEW d \in Drains, DestroyEntry(d, s)
        PROVE  drain' \in [Drains -> DrainState]
    <3>1. Destroy(d, s) \in {"shared", "own", "ok", "fail"}
      BY DEF Destroy
    <3>. QED
      BY <2>3, <2>4, <3>1 DEF DestroyEntry
  <2>5. ASSUME NEW d \in Drains, OwnSettles(d, s)
        PROVE  drain' \in [Drains -> DrainState]
    <3>1. \/ drain' = drain \/ drain' = [drain EXCEPT ![d].wait[s] = "ok"]
          \/ drain' = [drain EXCEPT ![d].wait[s] = "fail"]
      BY <2>5 DEF OwnSettles
    <3>. QED
      BY <2>1, <2>3, <3>1
  <2>6. CASE \/ Register(s) \/ Refuse(s) \/ Invoke(s) \/ Allocate(s) \/ CreateReturns(s)
             \/ CreateRejects(s) \/ CreateFailsRecoverably(s) \/ WorkEnds(s) \/ HandOver(s)
    BY <2>1, <2>6
       DEF Register, Refuse, Invoke, Allocate, CreateReturns, CreateRejects,
           CreateFailsRecoverably, WorkEnds, HandOver
  <2>. QED
    BY <2>2, <2>4, <2>5, <2>6 DEF SandboxStep
<1>. QED
  BY <1>3, <1>4

\* How a drain's own steps move its record.
LEMMA DrainMoves ==
    ASSUME drain \in [Drains -> DrainState], NEW d \in Drains, DrainStep(d)
    PROVE  \E r \in DrainState :
              /\ drain' = [drain EXCEPT ![d] = r]
              /\ r.pc # "off" /\ drain[d].pc # "off" /\ (drain[d].pc = "over" => r.pc = "over")
              /\ r.pc \in {"operations", "over"} /\ ~r.failed =>
                    owned = {} \/ (drain[d].pc = "operations" /\ ~drain[d].failed)
<1>1. drain[d] \in DrainState
  OBVIOUS
<1>2. CASE AttemptEnds(d)
  <2>. DEFINE r == [drain[d] EXCEPT !.failed = \E s \in Sandboxes : drain[d].wait[s] = "fail"]
              q == CASE owned = {} -> [Loop(r) EXCEPT !.failed = FALSE]
                     [] owned # {} /\ r.n < Attempts /\ ~r.expired -> [r EXCEPT !.pc = "pause"]
                     [] OTHER -> Loop(r)
  <2>1. drain' = [drain EXCEPT ![d] = q] /\ r.pc = "waiting"
    BY <1>2 DEF AttemptEnds
  <2>2. r \in DrainState /\ r.pc = drain[d].pc
    BY <1>1 DEF DrainState
  <2>. HIDE DEF r
  <2>3. /\ Loop(r) \in DrainState /\ Loop(r).pc \in {"waiting", "operations"}
        /\ Loop(r).pc = "operations" /\ ~Loop(r).failed => owned = {}
    BY <2>2, LoopState
  <2>4. [r EXCEPT !.pc = "pause"] \in DrainState /\ [r EXCEPT !.pc = "pause"].pc = "pause"
    BY <2>2 DEF DrainState
  <2>5. /\ [Loop(r) EXCEPT !.failed = FALSE] \in DrainState
        /\ [Loop(r) EXCEPT !.failed = FALSE].pc = Loop(r).pc
    BY <2>3 DEF DrainState
  <2>6. q \in DrainState /\ q.pc \in {"waiting", "pause", "operations"}
        /\ (q.pc = "operations" /\ ~q.failed => owned = {})
    BY <2>3, <2>4, <2>5
  <2>. HIDE DEF q
  <2>. QED
    BY <2>1, <2>2, <2>6
<1>3. CASE PauseEnds(d)
  BY <1>1, <1>3, LoopState DEF PauseEnds
<1>4. CASE Deadline(d)
  <2>. DEFINE r == [drain[d] EXCEPT
                      !.expired = TRUE,
                      !.wait = [s \in Sandboxes |->
                          IF @[s] \in {"create", "shared", "own"} THEN "fail" ELSE @[s]]]
  <2>1. drain' = [drain EXCEPT ![d] = r] /\ drain[d].pc \in {"waiting", "pause"}
    BY <1>1, <1>4 DEF Deadline, DrainState
  <2>2. r \in DrainState /\ r.pc = drain[d].pc
    BY <1>1 DEF DrainState
  <2>. HIDE DEF r
  <2>. QED
    BY <2>1, <2>2
<1>5. CASE OperationsDone(d)
  <2>1. PICK f \in BOOLEAN : Finish(d, f) /\ (~f => ~drain[d].failed)
    BY <1>1, <1>5 DEF OperationsDone, DrainState
  <2>2. /\ [drain[d] EXCEPT !.pc = "over", !.failed = f] \in DrainState
        /\ [drain[d] EXCEPT !.pc = "over", !.failed = f].pc = "over"
        /\ [drain[d] EXCEPT !.pc = "over", !.failed = f].failed = f
    BY <1>1 DEF DrainState
  <2>3. drain' = [drain EXCEPT ![d] = [drain[d] EXCEPT !.pc = "over", !.failed = f]]
    BY <2>1 DEF Finish
  <2>4. drain[d].pc = "operations"
    BY <1>5 DEF OperationsDone
  <2>. QED
    BY <2>1, <2>2, <2>3, <2>4
<1>. QED
  BY <1>2, <1>3, <1>4, <1>5 DEF DrainStep

LEMMA DrainType ==
    ASSUME TypeOK, (\E d \in Drains : DrainStep(d)) \/ ProcessStep
    PROVE  TypeOK'
<1>1. OthersTypeOK /\ drain \in [Drains -> DrainState]
  BY TypeParts
<1>2. SUFFICES OthersTypeOK' /\ drain' \in [Drains -> DrainState]
  <2>1. (TypeOK <=> OthersTypeOK /\ drain \in [Drains -> DrainState])'
    BY TypeParts, PTL
  <2>. QED
    BY <1>2, <2>1
<1>3. ASSUME NEW d \in Drains, DrainStep(d)
      PROVE  OthersTypeOK' /\ drain' \in [Drains -> DrainState]
  <2>1. drain' \in [Drains -> DrainState]
    BY <1>1, <1>3, DrainMoves
  <2>2. CASE AttemptEnds(d) \/ PauseEnds(d) \/ Deadline(d)
    BY <1>1, <2>1, <2>2 DEF OthersTypeOK, AttemptEnds, PauseEnds, Deadline
  <2>3. CASE OperationsDone(d)
    <3>1. drain[d].code \in {0, 2}
      BY <1>1 DEF DrainState
    <3>2. PICK f : Finish(d, f)
      BY <2>3 DEF OperationsDone
    <3>3. handlers' \in BOOLEAN
      BY <3>2 DEF Finish
    <3>4. exitCode' \in {Running, 0, 1, 2, Interrupted}
      BY <3>1, <3>2 DEF Finish, Drains
    <3>. QED
      BY <1>1, <2>1, <2>3, <3>3, <3>4 DEF OthersTypeOK, OperationsDone
  <2>. QED
    BY <1>3, <2>2, <2>3 DEF DrainStep
<1>4. ASSUME NEW d \in Drains, NEW code \in {0, 2}, StartDrain(d, code)
      PROVE  drain' \in [Drains -> DrainState] /\ stopping' \in BOOLEAN
  BY <1>1, <1>4, LoopState, IdleState DEF StartDrain
<1>5. CASE StartOperation \/ OperationSettles
  <2>1. handlers' \in BOOLEAN
    BY <1>1, <1>5 DEF OthersTypeOK, StartOperation, OperationSettles, HandlersAfter
  <2>. QED
    BY <1>1, <1>5, <2>1 DEF OthersTypeOK, StartOperation, OperationSettles
<1>6. ASSUME NEW code \in {0, 2}, ExitAfterCleanup(code)
      PROVE  OthersTypeOK' /\ drain' \in [Drains -> DrainState]
  BY <1>1, <1>4, <1>6 DEF OthersTypeOK, ExitAfterCleanup, Drains
<1>7. CASE Signal \/ BeforeExit \/ FallThrough
  BY <1>1, <1>4, <1>7 DEF OthersTypeOK, Signal, BeforeExit, FallThrough, Drains
<1>. QED
  BY <1>3, <1>5, <1>6, <1>7 DEF ProcessStep

LEMMA TypeStep == TypeOK /\ [Next]_vars => TypeOK'
<1>1. ASSUME TypeOK, UNCHANGED vars PROVE TypeOK'
  BY <1>1 DEF TypeOK, vars
<1>. QED
  BY <1>1, Steps, SandboxType, DrainType

LEMMA InitType == Init => TypeOK
<1>. SUFFICES ASSUME Init PROVE TypeOK
  OBVIOUS
<1>1. OthersTypeOK
  BY DEF Init, OthersTypeOK
<1>2. drain \in [Drains -> DrainState]
  BY IdleState DEF Init
<1>. QED
  BY <1>1, <1>2, TypeParts

\* Every variable of the owner keeps its range (TypeOK): no drain makes more
\* teardown attempts than it was given.
THEOREM TypeCorrect == Spec => []TypeOK
BY InitType, TypeStep, PTL DEF Spec

-----------------------------------------------------------------------------
(* The registry and the teardown wrapper *)

\* A step leaves another sandbox alone.
SameEntry(s) ==
    /\ worker'[s] = worker[s] /\ create'[s] = create[s] /\ session'[s] = session[s]
    /\ teardown'[s] = teardown[s] /\ calls'[s] = calls[s]
    /\ s \in owned' <=> s \in owned
    /\ s \in handedOver' <=> s \in handedOver

LEMMA SameEntryOK ==
    ASSUME NEW s, EntryOK(s), SameEntry(s)
    PROVE  EntryOK(s)'
BY DEF EntryOK, SameEntry

LEMMA OtherEntries ==
    ASSUME TypeOK, NEW s \in Sandboxes, SandboxStep(s), NEW t \in Sandboxes, t # s
    PROVE  SameEntry(t)
BY DEF TypeOK, SandboxStep, SameEntry, Register, Refuse, Invoke, Allocate, CreateReturns,
       CreateRejects, CreateFailsRecoverably, WorkEnds, HandOver, SharedSucceeds, SharedFails,
       OwnSettles, DestroyEntry, Release, Effect, Call, WorkerSettles

\* The teardown wrapper, as WorkEnds and DestroyEntry enter it.
LEMMA EffectEntry ==
    ASSUME TypeOK, NEW s \in Sandboxes, NEW c \in Callers, EntryOK(s), Effect(c, s),
           create[s] \in {"handle", "rejected", "recoverable"},
           UNCHANGED <<create, session, owned, handedOver>>,
           worker' = worker \/ (create[s] = "handle" /\ worker'[s] \in {"done", "destroying"})
    PROVE  EntryOK(s)'
<1>1. create[s] # "recoverable" =>
        \/ UNCHANGED <<teardown, calls>>
        \/ create[s] = "handle" /\ teardown[s] = "none" /\ Call(c, s)
  BY DEF Effect, Destroy
<1>2. CASE create[s] = "recoverable"
  BY <1>2 DEF EntryOK
<1>3. CASE create[s] # "recoverable"
  BY <1>1, <1>3 DEF TypeOK, EntryOK, Call, Callers, Drains
<1>. QED
  BY <1>2, <1>3

LEMMA OwnEntry ==
    ASSUME TypeOK, NEW s \in Sandboxes, EntryOK(s), SandboxStep(s)
    PROVE  EntryOK(s)'
<1>1. CASE Register(s) \/ Refuse(s) \/ Invoke(s) \/ Allocate(s)
  BY <1>1 DEF TypeOK, EntryOK, Register, Refuse, Invoke, Allocate, Callers, Drains
<1>2. CASE CreateReturns(s) \/ CreateRejects(s) \/ CreateFailsRecoverably(s)
  BY <1>2
     DEF TypeOK, EntryOK, CreateReturns, CreateRejects, CreateFailsRecoverably, Release, Callers,
         Drains
<1>3. CASE WorkEnds(s)
  BY <1>3, EffectEntry DEF WorkEnds, Callers, TypeOK, EntryOK
<1>4. CASE HandOver(s)
  BY <1>4 DEF TypeOK, EntryOK, HandOver, Release
<1>5. CASE SharedSucceeds(s)
  BY <1>5 DEF TypeOK, EntryOK, SharedSucceeds, Release, WorkerSettles, InFlight, Callers, Drains
<1>6. CASE SharedFails(s)
  BY <1>6 DEF TypeOK, EntryOK, SharedFails, WorkerSettles, InFlight, Callers, Drains
<1>7. ASSUME NEW d \in Drains, OwnSettles(d, s)
      PROVE  EntryOK(s)'
  BY <1>7 DEF TypeOK, EntryOK, OwnSettles, Callers, Drains
<1>8. ASSUME NEW d \in Drains, DestroyEntry(d, s)
      PROVE  EntryOK(s)'
  BY <1>8, EffectEntry DEF DestroyEntry, Callers
<1>. QED
  BY <1>1, <1>2, <1>3, <1>4, <1>5, <1>6, <1>7, <1>8 DEF SandboxStep

LEMMA EntriesStep ==
    ASSUME TypeOK, \A s \in Sandboxes : EntryOK(s), [Next]_vars
    PROVE  \A s \in Sandboxes : EntryOK(s)'
<1>1. ASSUME NEW s \in Sandboxes, SandboxStep(s), NEW t \in Sandboxes
      PROVE  EntryOK(t)'
  BY <1>1, OwnEntry, OtherEntries, SameEntryOK
<1>2. ASSUME (\E d \in Drains : DrainStep(d)) \/ ProcessStep \/ UNCHANGED vars, NEW t \in Sandboxes
      PROVE  SameEntry(t)
  BY <1>2
     DEF SameEntry, DrainStep, AttemptEnds, PauseEnds, Deadline, OperationsDone, ProcessStep,
         StartOperation, OperationSettles, ExitAfterCleanup, Signal, BeforeExit, FallThrough, vars
<1>. QED
  BY <1>1, <1>2, Steps, SameEntryOK

-----------------------------------------------------------------------------
(* The drains, the handlers and the exit *)

\* Only Register adds to the registry.
LEMMA RegistryShrinks ==
    ASSUME [Next]_vars, stopping \/ ~Alive
    PROVE  owned' \subseteq owned
<1>1. ASSUME NEW s \in Sandboxes, SandboxStep(s)
      PROVE  owned' \subseteq owned
  BY <1>1
     DEF SandboxStep, Register, Refuse, Invoke, Allocate, CreateReturns, CreateRejects,
         CreateFailsRecoverably, WorkEnds, HandOver, SharedSucceeds, SharedFails, OwnSettles,
         DestroyEntry, Release
<1>2. CASE (\E d \in Drains : DrainStep(d)) \/ ProcessStep \/ UNCHANGED vars
  BY <1>2
     DEF DrainStep, AttemptEnds, PauseEnds, Deadline, OperationsDone, ProcessStep,
         StartOperation, OperationSettles, ExitAfterCleanup, Signal, BeforeExit, FallThrough, vars
<1>. QED
  BY <1>1, <1>2, Steps

\* The steps of a sandbox leave a drain where it is.
LEMMA SandboxKeepsDrains ==
    ASSUME TypeOK, NEW s \in Sandboxes, SandboxStep(s)
    PROVE  /\ stopping' = stopping /\ exitCode' = exitCode /\ operation' = operation
           /\ \A d \in Drains : drain'[d].pc = drain[d].pc /\ drain'[d].failed = drain[d].failed
<1>1. drain \in [Drains -> DrainState]
  BY TypeParts
<1>2. stopping' = stopping /\ exitCode' = exitCode /\ operation' = operation
  BY DEF SandboxStep, Register, Refuse, Invoke, Allocate, CreateReturns, CreateRejects,
         CreateFailsRecoverably, WorkEnds, HandOver, SharedSucceeds, SharedFails, OwnSettles,
         DestroyEntry, Release
<1>3. CASE SharedSucceeds(s) \/ SharedFails(s)
  BY <1>1, <1>2, <1>3, SettleState DEF SharedSucceeds, SharedFails
<1>4. CASE \/ UNCHANGED drain
           \/ \E e \in Drains, w \in {"shared", "own", "ok", "fail"} :
                 drain' = [drain EXCEPT ![e].wait[s] = w]
  BY <1>1, <1>2, <1>4 DEF DrainState
<1>5. ASSUME NEW d \in Drains, DestroyEntry(d, s) \/ OwnSettles(d, s)
      PROVE  \/ UNCHANGED drain
             \/ \E e \in Drains, w \in {"shared", "own", "ok", "fail"} :
                   drain' = [drain EXCEPT ![e].wait[s] = w]
  <2>1. Destroy(d, s) \in {"shared", "own", "ok", "fail"}
    BY DEF Destroy
  <2>. QED
    BY <1>5, <2>1 DEF DestroyEntry, OwnSettles
<1>6. CASE \/ Register(s) \/ Refuse(s) \/ Invoke(s) \/ Allocate(s) \/ CreateReturns(s)
           \/ CreateRejects(s) \/ CreateFailsRecoverably(s) \/ WorkEnds(s) \/ HandOver(s)
  BY <1>4, <1>6
     DEF Register, Refuse, Invoke, Allocate, CreateReturns, CreateRejects,
         CreateFailsRecoverably, WorkEnds, HandOver
<1>. QED
  BY <1>3, <1>4, <1>5, <1>6 DEF SandboxStep

\* A drain that begins has found nothing owned if it leaves at once.
LEMMA StartMoves ==
    ASSUME TypeOK, NEW d \in Drains, NEW code \in {0, 2}, StartDrain(d, code)
    PROVE  /\ stopping'
           /\ \A e \in Drains \ {d} : drain'[e] = drain[e]
           /\ drain'[d].pc \in {"waiting", "operations"}
           /\ drain'[d].pc = "operations" /\ ~drain'[d].failed => owned = {}
BY TypeParts, IdleState, LoopState DEF StartDrain

LEMMA DrainsStep ==
    ASSUME TypeOK, \A d \in Drains : DrainOK(d), [Next]_vars
    PROVE  \A d \in Drains : DrainOK(d)'
<1>1. ASSUME NEW s \in Sandboxes, SandboxStep(s), NEW d \in Drains
      PROVE  DrainOK(d)'
  <2>1. stopping => owned' \subseteq owned
    BY <1>1, RegistryShrinks
  <2>. QED
    BY <1>1, <2>1, SandboxKeepsDrains DEF DrainOK
<1>2. ASSUME NEW e \in Drains, DrainStep(e), NEW d \in Drains
      PROVE  DrainOK(d)'
  <2>1. stopping' = stopping /\ owned' = owned
    BY <1>2 DEF DrainStep, AttemptEnds, PauseEnds, Deadline, OperationsDone
  <2>2. drain \in [Drains -> DrainState]
    BY TypeParts
  <2>. QED
    BY <1>2, <2>1, <2>2, DrainMoves DEF DrainOK
<1>3. ASSUME NEW e \in Drains, NEW code \in {0, 2}, StartDrain(e, code), owned' = owned,
             NEW d \in Drains
      PROVE  DrainOK(d)'
  BY <1>3, StartMoves DEF DrainOK
<1>4. CASE UNCHANGED <<drain, stopping, owned>>
  BY <1>4 DEF DrainOK
<1>5. CASE ProcessStep
  BY <1>3, <1>4, <1>5
     DEF ProcessStep, StartOperation, OperationSettles, ExitAfterCleanup, Signal, BeforeExit,
         FallThrough, Drains
<1>. QED
  BY <1>1, <1>2, <1>4, <1>5, Steps DEF vars

\* Handlers go only when nothing is owned and no operation runs, with the
\* process, or with the drain at the end of the event loop.
LEMMA HandlersStep ==
    ASSUME TypeOK, HandlersGuardOwnership, [Next]_vars
    PROVE  HandlersGuardOwnership'
<1>1. drain \in [Drains -> DrainState]
  BY TypeParts
<1>2. ASSUME NEW s \in Sandboxes, SandboxStep(s)
      PROVE  HandlersGuardOwnership'
  <2>1. drain'["beforeExit"].pc = drain["beforeExit"].pc /\ exitCode' = exitCode
        /\ operation' = operation
    BY <1>2, SandboxKeepsDrains DEF Drains
  <2>2. handlers' \/ (owned' = owned /\ handlers' = handlers)
        \/ handlers' = HandlersAfter(owned', operation)
    BY <1>2
       DEF SandboxStep, Register, Refuse, Invoke, Allocate, CreateReturns, CreateRejects,
           CreateFailsRecoverably, WorkEnds, HandOver, SharedSucceeds, SharedFails, OwnSettles,
           DestroyEntry, Release
  <2>3. owned' # {} /\ handlers' = HandlersAfter(owned', operation) => owned # {} \/ handlers'
    BY <1>2
       DEF SandboxStep, Register, Refuse, Invoke, Allocate, CreateReturns, CreateRejects,
           CreateFailsRecoverably, WorkEnds, HandOver, SharedSucceeds, SharedFails, OwnSettles,
           DestroyEntry, Release
  <2>. QED
    BY <2>1, <2>2, <2>3 DEF HandlersGuardOwnership, HandlersAfter, Alive
<1>3. ASSUME NEW d \in Drains, DrainStep(d)
      PROVE  HandlersGuardOwnership'
  <2>1. drain["beforeExit"].pc = "over" => drain'["beforeExit"].pc = "over"
    BY <1>1, <1>3, DrainMoves DEF Drains
  <2>2. CASE AttemptEnds(d) \/ PauseEnds(d) \/ Deadline(d)
    BY <2>1, <2>2 DEF HandlersGuardOwnership, Alive, AttemptEnds, PauseEnds, Deadline
  <2>3. CASE OperationsDone(d)
    <3>1. PICK f : Finish(d, f) /\ UNCHANGED <<owned, operation>>
      BY <2>3 DEF OperationsDone
    <3>2. CASE d = "beforeExit"
      <4>1. drain'["beforeExit"].pc = "over"
        BY <1>1, <3>1, <3>2 DEF Finish, DrainState
      <4>. QED
        BY <4>1 DEF HandlersGuardOwnership
    <3>3. CASE d = "signal"
      BY <3>1, <3>3 DEF HandlersGuardOwnership, Finish, Alive, Running, Interrupted
    <3>4. CASE d = "exit"
      <4>1. exitCode' \in {0, 1, 2}
        BY <1>1, <3>1, <3>4 DEF Finish, DrainState, Drains
      <4>. QED
        BY <4>1 DEF HandlersGuardOwnership, Alive, Running
    <3>. QED
      BY <3>2, <3>3, <3>4 DEF Drains
  <2>. QED
    BY <1>3, <2>2, <2>3 DEF DrainStep
<1>4. CASE StartOperation \/ OperationSettles
  BY <1>4 DEF StartOperation, OperationSettles, HandlersGuardOwnership, HandlersAfter, Alive
<1>5. ASSUME NEW d \in Drains, NEW code \in {0, 2}, StartDrain(d, code), drain[d].pc = "off",
             UNCHANGED <<owned, operation, handlers>>, Alive
      PROVE  HandlersGuardOwnership'
  BY <1>5, StartMoves DEF HandlersGuardOwnership, Drains
<1>6. CASE \E code \in {0, 2} : ExitAfterCleanup(code)
  BY <1>5, <1>6 DEF ExitAfterCleanup, Drains
<1>7. CASE Signal \/ BeforeExit
  BY <1>5, <1>7
     DEF Signal, BeforeExit, Drains, HandlersGuardOwnership, Alive, Running, Interrupted
<1>8. CASE FallThrough
  BY <1>8 DEF FallThrough, HandlersGuardOwnership, Alive, Running
<1>9. CASE UNCHANGED vars
  BY <1>9 DEF vars, HandlersGuardOwnership, Alive
<1>. QED
  BY <1>2, <1>3, <1>4, <1>6, <1>7, <1>8, <1>9, Steps DEF ProcessStep

\* An exit code of success is given when nothing is owned, and a process that
\* ended registers nothing.
LEMMA ExitStep ==
    ASSUME OwnerInv, [Next]_vars, exitCode' = 0
    PROVE  owned' = {}
<1>1. drain \in [Drains -> DrainState]
  BY TypeParts DEF OwnerInv
<1>2. CASE exitCode = 0
  BY <1>2, RegistryShrinks DEF OwnerInv, Alive, Running
<1>3. ASSUME exitCode # 0, NEW d \in Drains, DrainStep(d)
      PROVE  owned' = {}
  <2>1. OperationsDone(d)
    BY <1>3 DEF DrainStep, AttemptEnds, PauseEnds, Deadline
  <2>2. PICK f \in BOOLEAN : Finish(d, f) /\ (~f => ~drain[d].failed)
    BY <1>1, <2>1 DEF OperationsDone, DrainState
  <2>3. d = "exit" /\ ~f
    BY <2>2 DEF Finish, Drains, Running, Interrupted
  <2>4. DrainOK(d) /\ owned' = owned /\ drain[d].pc = "operations"
    BY <2>1 DEF OwnerInv, OperationsDone
  <2>. QED
    BY <2>2, <2>3, <2>4 DEF DrainOK
<1>4. CASE exitCode # 0 /\ FallThrough
  <2>1. ~drain["beforeExit"].failed /\ owned' = owned /\ Alive
        /\ drain["beforeExit"].pc \in {"off", "over"}
        /\ ~(handlers /\ owned # {} /\ drain["beforeExit"].pc = "off")
    BY <1>4 DEF FallThrough, Quiet, Drains
  <2>. QED
    BY <2>1 DEF OwnerInv, DrainOK, HandlersGuardOwnership, Drains
<1>5. CASE exitCode # 0 /\ ProcessStep /\ ~FallThrough
  BY <1>5
     DEF ProcessStep, StartOperation, OperationSettles, ExitAfterCleanup, Signal, BeforeExit,
         Interrupted
<1>6. ASSUME NEW s \in Sandboxes, SandboxStep(s), exitCode # 0
      PROVE  FALSE
  BY <1>6, SandboxKeepsDrains DEF OwnerInv
<1>7. CASE UNCHANGED vars
  BY <1>2, <1>7 DEF vars
<1>. QED
  BY <1>2, <1>3, <1>4, <1>5, <1>6, <1>7, Steps

-----------------------------------------------------------------------------
(* The invariant and what it says *)

LEMMA OwnerInvariant ==
    /\ Init => OwnerInv
    /\ OwnerInv /\ [Next]_vars => OwnerInv'
<1>1. ASSUME Init PROVE OwnerInv
  <2>1. TypeOK
    BY <1>1, InitType
  <2>2. \A s \in Sandboxes : EntryOK(s)
    BY <1>1 DEF Init, EntryOK, Callers, Drains
  <2>3. \A d \in Drains : DrainOK(d)
    BY <1>1 DEF Init, DrainOK, Idle
  <2>. QED
    BY <1>1, <2>1, <2>2, <2>3 DEF Init, OwnerInv, HandlersGuardOwnership
<1>2. ASSUME OwnerInv, [Next]_vars PROVE OwnerInv'
  <2>1. TypeOK'
    BY <1>2, TypeStep DEF OwnerInv
  <2>2. \A s \in Sandboxes : EntryOK(s)'
    BY <1>2, EntriesStep DEF OwnerInv
  <2>3. \A d \in Drains : DrainOK(d)'
    BY <1>2, DrainsStep DEF OwnerInv
  <2>4. HandlersGuardOwnership'
    BY <1>2, HandlersStep DEF OwnerInv
  <2>5. exitCode' = 0 => owned' = {}
    BY <1>2, ExitStep
  <2>. QED
    BY <2>1, <2>2, <2>3, <2>4, <2>5 DEF OwnerInv
<1>. QED
  BY <1>1, <1>2

\* No order of creation, rejection, teardown and retry drops a live session from
\* the registry (LiveIsOwned): release follows a confirmed teardown, an ordinary
\* rejection or a hand-over only.
THEOREM LiveOwned == Spec => []LiveIsOwned
<1>1. OwnerInv => LiveIsOwned
  BY DEF OwnerInv, EntryOK, LiveIsOwned
<1>. QED
  BY <1>1, OwnerInvariant, PTL DEF Spec

\* A process that reports success leaves no session and no pending create behind
\* (SuccessLeavesNothing), though its three drains may all have run at once.
THEOREM SuccessClean == Spec => []SuccessLeavesNothing
<1>1. OwnerInv => SuccessLeavesNothing
  BY DEF OwnerInv, EntryOK, SuccessLeavesNothing
<1>. QED
  BY <1>1, OwnerInvariant, PTL DEF Spec

\* A handle's provider destroy runs once at a time and never after it has been
\* confirmed (DestroyIsIdempotent), however many drains and callers ask.
THEOREM DestroyedOnce == Spec => []DestroyIsIdempotent
<1>1. OwnerInv => DestroyIsIdempotent
  <2>. SUFFICES ASSUME OwnerInv, NEW s \in Sandboxes, create[s] = "handle"
                PROVE  /\ Cardinality(calls[s]) <= 1
                       /\ teardown[s] = "confirmed" => calls[s] = {}
    BY DEF DestroyIsIdempotent
  <2>1. calls[s] = IF teardown[s] \in Callers THEN {teardown[s]} ELSE {}
    BY DEF OwnerInv, EntryOK
  <2>2. Cardinality({teardown[s]}) = 1 /\ Cardinality({}) = 0
    BY FS_Singleton, FS_EmptySet
  <2>. QED
    BY <2>1, <2>2 DEF Callers, Drains
<1>. QED
  BY <1>1, OwnerInvariant, PTL DEF Spec

\* While a signal could still cost something, its handlers are installed
\* (HandlersGuardOwnership), until the drain at the end of the event loop is over.
THEOREM HandlersGuarded == Spec => []HandlersGuardOwnership
<1>1. OwnerInv => HandlersGuardOwnership
  BY DEF OwnerInv
<1>. QED
  BY <1>1, OwnerInvariant, PTL DEF Spec
=============================================================================
