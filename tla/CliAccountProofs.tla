---------------------------- MODULE CliAccountProofs ----------------------------
(***************************************************************************)
(* Proofs about CliAccount, for any set of calls, of drivers and of        *)
(* machines.  The invariant CliInv has one part per component: the queue   *)
(* and the waiters of the shared login, what a call of create knows of its *)
(* machine, and what an inspection of the account cannot have overlooked.  *)
(***************************************************************************)
EXTENDS CliAccount, FiniteSetTheorems, SequenceTheorems, TLAPS

\* The queue of the profile holds the drivers whose task is in flight, each once,
\* and only the driver at its head runs a command.
QueueConsistent ==
    /\ \A i, j \in 1..Len(lock) : lock[i] = lock[j] => i = j
    /\ \A d \in Drivers : InFlight(d) <=> \E i \in 1..Len(lock) : lock[i] = d
    /\ \A d \in Drivers : task[d] \in {"login", "verify"} => lock[1] = d

\* A task in flight has a waiter, or once it is cancelled the call that cancelled
\* it; nobody waits for a result that will not come.
WaitersConsistent ==
    /\ \A d \in Drivers : cancelled[d] => InFlight(d)
    /\ \A d \in Drivers : InFlight(d) =>
         \E c \in Callers : /\ driverOf[c] = d
                            /\ pc[c] = IF cancelled[d] THEN "draining" ELSE "preparing"
    /\ \A c \in Callers : pc[c] = "preparing" =>
         InFlight(driverOf[c]) /\ ~cancelled[driverOf[c]]
    /\ \A c \in Callers : pc[c] \in {"draining", "retiring"} =>
         InFlight(driverOf[c]) /\ cancelled[driverOf[c]]

PreparationInv == QueueConsistent /\ WaitersConsistent /\ FailuresAreOwn

Unsent == {"arriving", "preparing", "retiring", "draining", "prepared", "failed"}

\* What a call knows of its machine, by where it is.
CallConsistent(c) ==
    /\ pc[c] \in Unsent => machine[c] = "none" /\ missing[c] = "never"
    /\ polling[c] => pc[c] \in {"polling", "reaping"}
    /\ missing[c] = "ripe" => machine[c] # "sent"
    /\ pc[c] = "deleting" =>
         machine[c] \in {"listed", "leaving", "gone"} /\ missing[c] = "never" /\ ~early[c]
    /\ pc[c] = "missed" /\ ~early[c] =>
         /\ missing[c] # "recent"
         /\ missing[c] = "ripe" => machine[c] \in {"none", "leaving", "gone"}
    /\ pc[c] = "clean" /\ ~early[c] => machine[c] \in {"none", "leaving", "gone"}
    /\ pc[c] \in {"session", "destroyed"} => machine[c] \in {"listed", "leaving", "gone"}

CreateInv == \A c \in Callers : CallConsistent(c)

\* A machine that the listing under way, or an accepted one, would have to show.
MustShow(r) == r \in standing /\ Running(r) /\ (r \in ours \/ scope = "account")

\* A second inspection does not lose a machine that stood when it began.
NothingOverlooked ==
    stage \in {"confirming", "settled"} =>
        \A d \in Drivers, r \in Machines : MustShow(r) /\ r \in view[d] =>
            /\ d \notin accepted
            /\ d \in listing => r \in unread \/ r \in found[d] \/ (r \notin ours /\ foreign)

ListingConsistent ==
    /\ listing = {} \/ \E d \in Drivers : listing = {d}
    /\ listing \cap accepted = {}
    /\ \A d \in Drivers : found[d] \subseteq ours
    /\ \A r \in standing : machine[r] \in {"listed", "leaving", "gone"}

RemovalConsistent ==
    /\ target = {} \/ \E d \in Drivers, r \in ours : target = {<<d, r>>}
    /\ target # {} => accepted = Drivers
    /\ Inspecting => target = {}
    /\ stage \in {"removing", "observing", "settled"} => accepted = Drivers

ReconcileInv == NothingOverlooked /\ ListingConsistent /\ RemovalConsistent

\* Whoever is at work, the others are not.
WorkerConsistent ==
    /\ worker # "benchmark" =>
         /\ \A c \in Callers : pc[c] = "retained"
         /\ \A d \in Drivers : task[d] = "none"
    /\ worker # "admission" =>
         /\ stage = "idle" /\ listing = {} /\ target = {} /\ standing = {}
         /\ \A d \in Drivers : found[d] = {}
    /\ worker = "admission" => \A r \in Machines : \E d \in Drivers : r \in view[d]

CliInv ==
    /\ TypeOK
    /\ PreparationInv
    /\ CreateInv
    /\ ReconcileInv
    /\ WorkerConsistent

-----------------------------------------------------------------------------
(* The queue for the profile.                                              *)

LEMMA QueueStarts ==
  ASSUME PreparationTypeOK, QueueConsistent, NEW d \in Drivers,
         task[d] = "none",
         task' = [task EXCEPT ![d] = "queued"],
         lock' = Append(lock, d)
  PROVE  lock' \in Seq(Drivers) /\ QueueConsistent'
<1>1. lock \in Seq(Drivers) /\ task \in [Drivers -> {"none", "queued", "login", "verify", "ready"}]
  BY DEF PreparationTypeOK
<1>2. /\ lock' \in Seq(Drivers)
      /\ Len(lock) \in Nat /\ Len(lock') = Len(lock) + 1
      /\ \A i \in 1..Len(lock) : lock'[i] = lock[i]
      /\ lock'[Len(lock) + 1] = d
  BY <1>1, AppendProperties, LenProperties
<1>3. /\ InFlight(d)' /\ ~InFlight(d)
      /\ \A e \in Drivers \ {d} : InFlight(e)' <=> InFlight(e)
  BY <1>1 DEF InFlight
<1>4. \A i \in 1..Len(lock) : lock[i] # d
  BY <1>3 DEF QueueConsistent
<1>5. \A i, j \in 1..Len(lock') : lock'[i] = lock'[j] => i = j
  BY <1>2, <1>4 DEF QueueConsistent
<1>6. \A e \in Drivers : InFlight(e)' <=> \E i \in 1..Len(lock') : lock'[i] = e
  <2> SUFFICES ASSUME NEW e \in Drivers
               PROVE  InFlight(e)' <=> \E i \in 1..Len(lock') : lock'[i] = e
    OBVIOUS
  <2>1. CASE e = d
    BY <2>1, <1>2, <1>3
  <2>2. CASE e # d
    <3>1. InFlight(e)' <=> \E i \in 1..Len(lock) : lock[i] = e
      BY <2>2, <1>3 DEF QueueConsistent
    <3> QED BY <3>1, <2>2, <1>2
  <2> QED BY <2>1, <2>2
<1>7. \A e \in Drivers : task'[e] \in {"login", "verify"} => lock'[1] = e
  <2> SUFFICES ASSUME NEW e \in Drivers, task'[e] \in {"login", "verify"}
               PROVE  lock'[1] = e
    OBVIOUS
  <2>1. task[e] \in {"login", "verify"}
    BY <1>1
  <2>2. \E i \in 1..Len(lock) : lock[i] = e
    BY <2>1 DEF QueueConsistent, InFlight
  <2>3. lock[1] = e /\ lock'[1] = lock[1]
    BY <1>2, <2>1, <2>2 DEF QueueConsistent
  <2> QED BY <2>3
<1> QED BY <1>2, <1>5, <1>6, <1>7 DEF QueueConsistent

LEMMA QueueMovesOn ==
  ASSUME PreparationTypeOK, QueueConsistent, NEW d \in Drivers,
         InFlight(d), lock[1] = d,
         NEW how \in {"login", "verify"},
         task' = [task EXCEPT ![d] = how],
         UNCHANGED lock
  PROVE  QueueConsistent'
<1>1. task \in [Drivers -> {"none", "queued", "login", "verify", "ready"}]
  BY DEF PreparationTypeOK
<1>2. \A e \in Drivers : InFlight(e)' <=> InFlight(e)
  BY <1>1 DEF InFlight
<1> QED BY <1>1, <1>2 DEF QueueConsistent

LEMMA QueueSettles ==
  ASSUME PreparationTypeOK, QueueConsistent, NEW d \in Drivers,
         InFlight(d), lock[1] = d,
         NEW how \in {"ready", "none"},
         task' = [task EXCEPT ![d] = how],
         lock' = Tail(lock)
  PROVE  lock' \in Seq(Drivers) /\ QueueConsistent'
<1>1. lock \in Seq(Drivers) /\ task \in [Drivers -> {"none", "queued", "login", "verify", "ready"}]
  BY DEF PreparationTypeOK
<1>2. PICK k \in 1..Len(lock) : lock[k] = d
  BY DEF QueueConsistent
<1>3. lock # <<>>
  BY <1>2
<1>4. /\ lock' \in Seq(Drivers)
      /\ Len(lock) \in Nat /\ Len(lock) >= 1 /\ Len(lock') = Len(lock) - 1
      /\ \A i \in 1..Len(lock') : lock'[i] = lock[i + 1]
  BY <1>1, <1>2, <1>3, HeadTailProperties, LenProperties
<1>5. /\ ~InFlight(d)'
      /\ \A e \in Drivers \ {d} : InFlight(e)' <=> InFlight(e)
  BY <1>1 DEF InFlight
<1>6. \A i, j \in 1..Len(lock') : lock'[i] = lock'[j] => i = j
  <2> SUFFICES ASSUME NEW i \in 1..Len(lock'), NEW j \in 1..Len(lock'), lock'[i] = lock'[j]
               PROVE  i = j
    OBVIOUS
  <2>1. i + 1 \in 1..Len(lock) /\ j + 1 \in 1..Len(lock) /\ lock[i + 1] = lock[j + 1]
    BY <1>4
  <2>2. i + 1 = j + 1
    BY <2>1 DEF QueueConsistent
  <2> QED BY <2>2, <1>4
<1>7. \A e \in Drivers : InFlight(e)' <=> \E i \in 1..Len(lock') : lock'[i] = e
  <2> SUFFICES ASSUME NEW e \in Drivers
               PROVE  InFlight(e)' <=> \E i \in 1..Len(lock') : lock'[i] = e
    OBVIOUS
  <2>1. CASE e = d
    <3>1. ASSUME NEW i \in 1..Len(lock'), lock'[i] = d
          PROVE  FALSE
      <4>1. i + 1 \in 1..Len(lock) /\ 1 \in 1..Len(lock) /\ lock[i + 1] = lock[1]
        BY <3>1, <1>4
      <4>2. i + 1 = 1
        BY <4>1 DEF QueueConsistent
      <4> QED BY <4>2, <1>4
    <3> QED BY <2>1, <3>1, <1>5
  <2>2. CASE e # d
    <3>1. InFlight(e)' <=> \E i \in 1..Len(lock) : lock[i] = e
      BY <2>2, <1>5 DEF QueueConsistent
    <3>2. ASSUME NEW i \in 1..Len(lock), lock[i] = e
          PROVE  \E j \in 1..Len(lock') : lock'[j] = e
      <4>1. i # 1
        BY <3>2, <2>2
      <4>2. i - 1 \in 1..Len(lock') /\ lock'[i - 1] = lock[i]
        BY <4>1, <1>4
      <4> QED BY <4>2, <3>2
    <3>3. ASSUME NEW j \in 1..Len(lock'), lock'[j] = e
          PROVE  \E i \in 1..Len(lock) : lock[i] = e
      BY <3>3, <1>4
    <3> QED BY <3>1, <3>2, <3>3
  <2> QED BY <2>1, <2>2
<1>8. \A e \in Drivers : task'[e] \notin {"login", "verify"}
  <2> SUFFICES ASSUME NEW e \in Drivers, task'[e] \in {"login", "verify"}
               PROVE  FALSE
    OBVIOUS
  <2>1. e # d /\ task[e] \in {"login", "verify"}
    BY <1>1
  <2>2. lock[1] = e
    BY <2>1 DEF QueueConsistent
  <2> QED BY <2>1, <2>2
<1> QED BY <1>4, <1>6, <1>7, <1>8 DEF QueueConsistent

-----------------------------------------------------------------------------
(* One call of ensurePreparedOnce.                                         *)

\* How a call moves before it has sent anything.
Moves(c) ==
    \/ pc'[c] = pc[c]
    \/ pc[c] = "arriving" /\ pc'[c] \in {"prepared", "preparing", "retiring", "failed"}
    \/ pc[c] = "preparing" /\ pc'[c] \in {"prepared", "draining", "failed"}
    \/ pc[c] = "draining" /\ pc'[c] = "failed"
    \/ pc[c] = "retiring" /\ pc'[c] \in {"arriving", "failed"}

PreparationTypes ==
    PreparationTypeOK /\ pc \in [Callers -> Place]

LEMMA CallPrepares ==
  ASSUME PreparationTypes, PreparationInv, NEW c \in Callers, EnsurePrepared(c)
  PROVE  PreparationTypes' /\ PreparationInv' /\ \A k \in Callers : Moves(k)
<1> PICK d \in Drivers : d = driverOf[c]
  BY DEF PreparationTypes, PreparationTypeOK
<1>0. /\ driverOf \in [Callers -> Drivers] /\ d = driverOf[c]
      /\ over \in [Callers -> BOOLEAN]
      /\ reason \in [Callers -> Reason]
      /\ task \in [Drivers -> {"none", "queued", "login", "verify", "ready"}]
      /\ cancelled \in [Drivers -> BOOLEAN]
      /\ lock \in Seq(Drivers)
      /\ pc \in [Callers -> Place]
  BY DEF PreparationTypes, PreparationTypeOK
<1>a. QueueConsistent /\ WaitersConsistent /\ FailuresAreOwn
  BY DEF PreparationInv
<1>1. CASE AlreadyPrepared(c)
  <2>1. UNCHANGED prepVars /\ pc[c] = "arriving" /\ pc' = [pc EXCEPT ![c] = "prepared"]
    BY <1>1 DEF AlreadyPrepared, Goes
  <2>2. PreparationTypes' /\ \A k \in Callers : Moves(k)
    BY <2>1, <1>0 DEF PreparationTypes, PreparationTypeOK, prepVars, Moves, Unsent, Place
  <2>3. QueueConsistent'
    BY <2>1, <1>a DEF QueueConsistent, InFlight, prepVars
  <2>4. WaitersConsistent'
    BY <2>1, <1>0, <1>a DEF WaitersConsistent, InFlight, prepVars
  <2> QED BY <2>1, <2>2, <2>3, <2>4, <1>a DEF PreparationInv, FailuresAreOwn, prepVars
<1>2. CASE ArrivesTooLate(c)
  <2>1. /\ UNCHANGED <<driverOf, over, task, cancelled, lock>> /\ pc[c] = "arriving"
        /\ pc' = [pc EXCEPT ![c] = "failed"] /\ reason' = [reason EXCEPT ![c] = "own"]
    BY <1>2 DEF ArrivesTooLate, Goes, FailsOn
  <2>2. PreparationTypes' /\ \A k \in Callers : Moves(k)
    BY <2>1, <1>0 DEF PreparationTypes, PreparationTypeOK, Moves, Unsent, Place, Reason
  <2>3. QueueConsistent'
    BY <2>1, <1>a DEF QueueConsistent, InFlight
  <2>4. WaitersConsistent'
    BY <2>1, <1>0, <1>a DEF WaitersConsistent, InFlight
  <2>5. FailuresAreOwn'
    BY <2>1, <1>0, <1>a DEF FailuresAreOwn
  <2> QED BY <2>2, <2>3, <2>4, <2>5 DEF PreparationInv
<1>3. CASE StartsPreparation(c)
  <2>1. /\ UNCHANGED <<driverOf, over, reason, cancelled>>
        /\ pc[c] = "arriving" /\ pc' = [pc EXCEPT ![c] = "preparing"]
        /\ task[d] = "none" /\ task' = [task EXCEPT ![d] = "queued"]
        /\ lock' = Append(lock, d)
    BY <1>0, <1>3 DEF StartsPreparation, Goes
  <2>3. lock' \in Seq(Drivers) /\ QueueConsistent'
    BY <2>1, <1>0, <1>a, QueueStarts DEF PreparationTypes
  <2>4. PreparationTypes' /\ \A k \in Callers : Moves(k)
    BY <2>1, <2>3, <1>0 DEF PreparationTypes, PreparationTypeOK, Moves, Unsent, Place
  <2>5. ~cancelled[d] /\ InFlight(d)' /\ ~InFlight(d)
        /\ \A e \in Drivers \ {d} : InFlight(e)' <=> InFlight(e)
    BY <2>1, <1>0, <1>a DEF WaitersConsistent, InFlight
  <2>6. WaitersConsistent'
    BY <2>1, <2>5, <1>0, <1>a DEF WaitersConsistent
  <2> QED BY <2>1, <2>3, <2>4, <2>6, <1>a DEF PreparationInv, FailuresAreOwn
<1>4. CASE JoinsPreparation(c)
  <2>1. /\ UNCHANGED prepVars /\ pc[c] = "arriving" /\ pc' = [pc EXCEPT ![c] = "preparing"]
        /\ InFlight(driverOf[c]) /\ ~cancelled[driverOf[c]]
    BY <1>4 DEF JoinsPreparation, Goes
  <2>2. PreparationTypes' /\ \A k \in Callers : Moves(k)
    BY <2>1, <1>0 DEF PreparationTypes, PreparationTypeOK, prepVars, Moves, Unsent, Place
  <2>3. QueueConsistent'
    BY <2>1, <1>a DEF QueueConsistent, InFlight, prepVars
  <2>4. WaitersConsistent'
    BY <2>1, <1>0, <1>a DEF WaitersConsistent, InFlight, prepVars
  <2> QED BY <2>1, <2>2, <2>3, <2>4, <1>a DEF PreparationInv, FailuresAreOwn, prepVars
<1>5. CASE AwaitsRetirement(c)
  <2>1. /\ UNCHANGED prepVars /\ pc[c] = "arriving" /\ pc' = [pc EXCEPT ![c] = "retiring"]
        /\ InFlight(driverOf[c]) /\ cancelled[driverOf[c]]
    BY <1>5 DEF AwaitsRetirement, Goes
  <2>2. PreparationTypes' /\ \A k \in Callers : Moves(k)
    BY <2>1, <1>0 DEF PreparationTypes, PreparationTypeOK, prepVars, Moves, Unsent, Place
  <2>3. QueueConsistent'
    BY <2>1, <1>a DEF QueueConsistent, InFlight, prepVars
  <2>4. WaitersConsistent'
    BY <2>1, <1>0, <1>a DEF WaitersConsistent, InFlight, prepVars
  <2> QED BY <2>1, <2>2, <2>3, <2>4, <1>a DEF PreparationInv, FailuresAreOwn, prepVars
<1>6. CASE LeavesPreparation(c)
  <2>1. /\ UNCHANGED <<driverOf, over, task, lock>> /\ pc[c] = "preparing"
        /\ InFlight(d) /\ ~cancelled[d]
    BY <1>6, <1>0, <1>a DEF LeavesPreparation, WaitersConsistent
  <2>2. QueueConsistent'
    BY <2>1, <1>a DEF QueueConsistent, InFlight
  <2>3. \A e \in Drivers : InFlight(e)' <=> InFlight(e)
    BY <2>1 DEF InFlight
  <2>4. CASE Waiters(d) = {c}
    <3>1. /\ cancelled' = [cancelled EXCEPT ![d] = TRUE]
          /\ pc' = [pc EXCEPT ![c] = "draining"]
          /\ UNCHANGED reason
      BY <1>0, <1>6, <2>4 DEF LeavesPreparation, Goes
    <3>2. \A k \in Callers : driverOf[k] = d /\ pc[k] = "preparing" => k = c
      BY <2>4 DEF Waiters
    <3>4. PreparationTypes' /\ \A k \in Callers : Moves(k)
      BY <2>1, <3>1, <1>0 DEF PreparationTypes, PreparationTypeOK, Moves, Unsent, Place
    <3>5. WaitersConsistent'
      BY <2>1, <2>3, <3>1, <3>2, <1>0, <1>a DEF WaitersConsistent
    <3> QED BY <3>1, <3>4, <3>5, <2>2, <1>a DEF PreparationInv, FailuresAreOwn
  <2>5. CASE Waiters(d) # {c}
    <3>1. /\ UNCHANGED cancelled
          /\ pc' = [pc EXCEPT ![c] = "failed"]
          /\ reason' = [reason EXCEPT ![c] = "own"]
      BY <1>0, <1>6, <2>5 DEF LeavesPreparation, Goes, FailsOn
    <3>2. \E k \in Callers \ {c} : driverOf[k] = d /\ pc[k] = "preparing"
      BY <2>1, <2>5 DEF Waiters
    <3>4. PreparationTypes' /\ \A k \in Callers : Moves(k)
      BY <2>1, <3>1, <1>0 DEF PreparationTypes, PreparationTypeOK, Moves, Unsent, Place, Reason
    <3>5. WaitersConsistent'
      BY <2>1, <2>3, <3>1, <3>2, <1>0, <1>a DEF WaitersConsistent
    <3>6. FailuresAreOwn'
      BY <3>1, <1>0, <1>a DEF FailuresAreOwn
    <3> QED BY <3>4, <3>5, <3>6, <2>2 DEF PreparationInv
  <2> QED BY <2>4, <2>5
<1>7. CASE LeavesRetirement(c)
  <2>1. /\ UNCHANGED <<driverOf, over, task, cancelled, lock>> /\ pc[c] = "retiring"
        /\ pc' = [pc EXCEPT ![c] = "failed"] /\ reason' = [reason EXCEPT ![c] = "own"]
    BY <1>7 DEF LeavesRetirement, Goes, FailsOn
  <2>2. PreparationTypes' /\ \A k \in Callers : Moves(k)
    BY <2>1, <1>0 DEF PreparationTypes, PreparationTypeOK, Moves, Unsent, Place, Reason
  <2>3. QueueConsistent'
    BY <2>1, <1>a DEF QueueConsistent, InFlight
  <2>4. WaitersConsistent'
    BY <2>1, <1>0, <1>a DEF WaitersConsistent, InFlight
  <2>5. FailuresAreOwn'
    BY <2>1, <1>0, <1>a DEF FailuresAreOwn
  <2> QED BY <2>2, <2>3, <2>4, <2>5 DEF PreparationInv
<1> QED BY <1>1, <1>2, <1>3, <1>4, <1>5, <1>6, <1>7 DEF EnsurePrepared

-----------------------------------------------------------------------------
(* The task of a driver.                                                   *)

\* When a task ends every call that waited for it is told, and those it tells
\* "stolen" would be the waiters of a cancelled task: there is none.
LEMMA TaskSettles ==
  ASSUME PreparationTypes, PreparationInv, NEW d \in Drivers,
         NEW verdict \in {"ready", "vendor", "stolen"},
         verdict = "stolen" => cancelled[d],
         InFlight(d), lock[1] = d, Settles(d, verdict)
  PROVE  PreparationTypes' /\ PreparationInv' /\ \A k \in Callers : Moves(k)
<1>0. /\ driverOf \in [Callers -> Drivers]
      /\ over \in [Callers -> BOOLEAN]
      /\ reason \in [Callers -> Reason]
      /\ task \in [Drivers -> {"none", "queued", "login", "verify", "ready"}]
      /\ cancelled \in [Drivers -> BOOLEAN]
      /\ lock \in Seq(Drivers)
      /\ pc \in [Callers -> Place]
  BY DEF PreparationTypes, PreparationTypeOK
<1>a. QueueConsistent /\ WaitersConsistent /\ FailuresAreOwn
  BY DEF PreparationInv
<1> PICK how \in {"ready", "none"} : task' = [task EXCEPT ![d] = how]
  BY DEF Settles, Settled
<1>1. lock' \in Seq(Drivers) /\ QueueConsistent'
  BY <1>a, QueueSettles DEF PreparationTypes, Settles
<1>2. /\ ~InFlight(d)'
      /\ \A e \in Drivers \ {d} : (InFlight(e)' <=> InFlight(e)) /\ cancelled'[e] = cancelled[e]
      /\ ~cancelled'[d]
      /\ cancelled' \in [Drivers -> BOOLEAN]
  BY <1>0 DEF Settles, Settled, InFlight
<1>3. UNCHANGED <<driverOf, over>>
  BY DEF Settles, Settled
<1>4. /\ pc' = [c \in Callers |-> pc'[c]]
      /\ reason' = [c \in Callers |-> reason'[c]]
  BY DEF Settles, Settled
<1>5. ASSUME NEW c \in Callers, driverOf[c] # d
      PROVE  pc'[c] = pc[c] /\ reason'[c] = reason[c]
  BY <1>5 DEF Settles, Settled
<1>6. ASSUME NEW c \in Callers, driverOf[c] = d, pc[c] = "preparing"
      PROVE  pc'[c] \in {"prepared", "failed"} /\ reason'[c] \in {"own", "vendor", reason[c]}
  <2>1. pc'[c] \in {"prepared", "failed"}
    BY <1>6 DEF Settles, Settled
  <2>2. ~cancelled[d]
    BY <1>6, <1>a DEF WaitersConsistent
  <2>3. verdict # "ready" => reason'[c] = verdict
    BY <1>6 DEF Settles, Settled
  <2>4. verdict = "ready" => reason'[c] \in {"own", reason[c]}
    BY <1>6 DEF Settles, Settled
  <2> QED BY <2>1, <2>2, <2>3, <2>4
<1>7. ASSUME NEW c \in Callers, driverOf[c] = d, pc[c] # "preparing"
      PROVE  /\ pc[c] = "draining" => pc'[c] = "failed" /\ reason'[c] = "own"
             /\ pc[c] = "retiring" => pc'[c] = "arriving" /\ reason'[c] = reason[c]
             /\ pc[c] \notin {"draining", "retiring"} =>
                  pc'[c] = pc[c] /\ reason'[c] = reason[c]
  BY <1>7 DEF Settles, Settled
<1>8. ASSUME NEW c \in Callers
      PROVE  pc'[c] \in Place /\ reason'[c] \in Reason /\ reason'[c] # "stolen" /\ Moves(c)
  <2>0. pc[c] \in Place /\ reason[c] \in Reason /\ reason[c] # "stolen"
    BY <1>0, <1>a DEF FailuresAreOwn
  <2>1. CASE driverOf[c] # d
    BY <2>0, <2>1, <1>5 DEF Moves
  <2>2. CASE driverOf[c] = d /\ pc[c] = "preparing"
    BY <2>0, <2>2, <1>6 DEF Moves, Unsent, Place, Reason
  <2>3. CASE driverOf[c] = d /\ pc[c] # "preparing"
    BY <2>0, <2>3, <1>7 DEF Moves, Unsent, Place, Reason
  <2> QED BY <2>1, <2>2, <2>3
<1>9. PreparationTypes'
  <2>1. pc' \in [Callers -> Place] /\ reason' \in [Callers -> Reason]
    BY <1>4, <1>8
  <2>2. task' \in [Drivers -> {"none", "queued", "login", "verify", "ready"}]
    BY <1>0
  <2> QED BY <2>1, <2>2, <1>0, <1>1, <1>2, <1>3 DEF PreparationTypes, PreparationTypeOK
<1>10. WaitersConsistent'
  <2>1. ASSUME NEW c \in Callers, driverOf[c] = d
        PROVE  pc'[c] \notin {"preparing", "draining", "retiring"}
    BY <2>1, <1>6, <1>7
  <2>2. ASSUME NEW e \in Drivers
        PROVE  cancelled'[e] => InFlight(e)'
    BY <1>2, <1>a DEF WaitersConsistent
  <2>3. ASSUME NEW e \in Drivers, InFlight(e)'
        PROVE  \E c \in Callers : /\ driverOf'[c] = e
                                  /\ pc'[c] = IF cancelled'[e] THEN "draining" ELSE "preparing"
    <3>1. e # d /\ InFlight(e) /\ cancelled'[e] = cancelled[e]
      BY <2>3, <1>2
    <3>2. PICK c \in Callers : /\ driverOf[c] = e
                               /\ pc[c] = IF cancelled[e] THEN "draining" ELSE "preparing"
      BY <3>1, <1>a DEF WaitersConsistent
    <3>3. pc'[c] = pc[c]
      BY <3>1, <3>2, <1>5
    <3> QED BY <3>1, <3>2, <3>3, <1>3
  <2>4. ASSUME NEW c \in Callers
        PROVE  /\ pc'[c] = "preparing" => InFlight(driverOf[c])' /\ ~cancelled'[driverOf'[c]]
               /\ pc'[c] \in {"draining", "retiring"} =>
                    InFlight(driverOf[c])' /\ cancelled'[driverOf'[c]]
    <3>1. CASE driverOf[c] = d
      BY <3>1, <2>1
    <3>2. CASE driverOf[c] # d
      <4>1. pc'[c] = pc[c] /\ driverOf[c] \in Drivers /\ driverOf'[c] = driverOf[c]
        BY <3>2, <1>0, <1>3, <1>5
      <4>2. /\ task'[driverOf[c]] = task[driverOf[c]]
            /\ cancelled'[driverOf[c]] = cancelled[driverOf[c]]
        BY <3>2, <4>1, <1>0, <1>2
      <4> QED BY <4>1, <4>2, <1>a DEF WaitersConsistent, InFlight
    <3> QED BY <3>1, <3>2
  <2> QED BY <2>2, <2>3, <2>4 DEF WaitersConsistent
<1> QED BY <1>1, <1>8, <1>9, <1>10 DEF PreparationInv, FailuresAreOwn

\* The task goes on to its next command, still under the lock.
LEMMA TaskGoesOn ==
  ASSUME PreparationTypes, PreparationInv, NEW d \in Drivers,
         InFlight(d), lock[1] = d,
         NEW how \in {"login", "verify"},
         task' = [task EXCEPT ![d] = how],
         UNCHANGED <<pc, driverOf, over, reason, cancelled, lock>>
  PROVE  PreparationTypes' /\ PreparationInv' /\ \A k \in Callers : Moves(k)
<1>1. QueueConsistent'
  BY QueueMovesOn DEF PreparationTypes, PreparationInv
<1>2. task' \in [Drivers -> {"none", "queued", "login", "verify", "ready"}]
      /\ \A e \in Drivers : InFlight(e)' <=> InFlight(e)
  BY DEF PreparationTypes, PreparationTypeOK, InFlight
<1>3. driverOf \in [Callers -> Drivers]
  BY DEF PreparationTypes, PreparationTypeOK
<1>4. WaitersConsistent'
  BY <1>2, <1>3 DEF PreparationInv, WaitersConsistent
<1> QED BY <1>1, <1>2, <1>4 DEF PreparationTypes, PreparationTypeOK, PreparationInv, FailuresAreOwn, Moves

LEMMA TaskPrepares ==
  ASSUME PreparationTypes, PreparationInv, NEW d \in Drivers, PreparationStep(d)
  PROVE  PreparationTypes' /\ PreparationInv' /\ \A k \in Callers : Moves(k)
<1>0. \A e \in Drivers : task[e] \in {"login", "verify"} => lock[1] = e
  BY DEF PreparationInv, QueueConsistent
<1>1. /\ Verdict(d) \in {"ready", "vendor", "stolen"}
      /\ Verdict(d) = "stolen" => cancelled[d]
  BY DEF Verdict
<1>2. CASE Turn(d)
  <2>1. InFlight(d) /\ lock[1] = d
    BY <1>2 DEF Turn, InFlight
  <2>2. CASE Settles(d, Verdict(d))
    BY <2>1, <2>2, <1>1, TaskSettles
  <2>3. CASE ~Settles(d, Verdict(d))
    <3>1. /\ task' = [task EXCEPT ![d] = "login"]
          /\ UNCHANGED <<pc, driverOf, over, reason, cancelled, lock>>
      BY <1>2, <2>3 DEF Turn
    <3> QED BY <3>1, <2>1, TaskGoesOn
  <2> QED BY <2>2, <2>3
<1>3. CASE LoggedIn(d)
  <2>1. InFlight(d) /\ lock[1] = d
    BY <1>3, <1>0 DEF LoggedIn, InFlight
  <2>2. CASE cancelled[d]
    <3>1. Settles(d, Verdict(d))
      BY <1>3, <2>2 DEF LoggedIn
    <3> QED BY <2>1, <3>1, <1>1, TaskSettles
  <2>3. CASE ~cancelled[d]
    <3>1. /\ task' = [task EXCEPT ![d] = "verify"]
          /\ UNCHANGED <<pc, driverOf, over, reason, cancelled, lock>>
      BY <1>3, <2>3 DEF LoggedIn
    <3> QED BY <3>1, <2>1, TaskGoesOn
  <2> QED BY <2>2, <2>3
<1>4. CASE Verified(d)
  <2>1. InFlight(d) /\ lock[1] = d /\ Settles(d, "ready")
    BY <1>4, <1>0 DEF Verified, InFlight
  <2> QED BY <2>1, TaskSettles
<1>5. CASE CommandFails(d)
  <2>1. InFlight(d) /\ lock[1] = d /\ Settles(d, Verdict(d))
    BY <1>5, <1>0 DEF CommandFails, InFlight
  <2> QED BY <2>1, <1>1, TaskSettles
<1> QED BY <1>2, <1>3, <1>4, <1>5 DEF PreparationStep

-----------------------------------------------------------------------------
(* One call of create, and its cleanup.                                    *)

CallTypes ==
    /\ CreateTypeOK
    /\ machine \in [Machines -> MachineState]

CallUnchanged(k) ==
    /\ pc'[k] = pc[k] /\ polling'[k] = polling[k]
    /\ missing'[k] = missing[k] /\ early'[k] = early[k]
    /\ machine'[k] = machine[k]

Waits == {"preparing", "draining", "retiring"}

\* A step of one call past its preparation: the others keep what they know.
CallSteps(c) ==
    /\ CallTypes'
    /\ UNCHANGED <<driverOf, reason, task, cancelled, lock>>
    /\ over' \in [Callers -> BOOLEAN]
    /\ pc'[c] = pc[c] \/ (pc[c] \notin Waits /\ pc'[c] \notin Waits)
    /\ \A k \in Callers \ {c} : CallUnchanged(k)
    /\ CallConsistent(c)'

LEMMA CallStepsKeepInv ==
  ASSUME PreparationTypes, CallTypes, PreparationInv, CreateInv, NEW c \in Callers, CallSteps(c)
  PROVE  PreparationTypes' /\ CallTypes' /\ PreparationInv' /\ CreateInv'
<1>1. \A k \in Callers : pc'[k] = pc[k] \/ (pc[k] \notin Waits /\ pc'[k] \notin Waits)
  BY DEF CallSteps, CallUnchanged
<1>2. UNCHANGED <<driverOf, reason, task, cancelled, lock>>
  BY DEF CallSteps
<1>3. PreparationTypes' /\ CallTypes'
  BY DEF CallSteps, CallTypes, CreateTypeOK, PreparationTypes, PreparationTypeOK
<1>4. QueueConsistent' /\ FailuresAreOwn'
  BY <1>2 DEF PreparationInv, QueueConsistent, FailuresAreOwn, InFlight
<1>5. WaitersConsistent'
  <2>1. WaitersConsistent /\ \A e \in Drivers : InFlight(e)' <=> InFlight(e)
    BY <1>2 DEF PreparationInv, InFlight
  <2>2. \A k \in Callers : InFlight(driverOf[k])' <=> InFlight(driverOf[k])
    BY <1>2 DEF InFlight
  <2>3. ASSUME NEW e \in Drivers, InFlight(e)
        PROVE  \E k \in Callers : /\ driverOf[k] = e
                                  /\ pc'[k] = IF cancelled[e] THEN "draining" ELSE "preparing"
    <3>1. PICK k \in Callers : /\ driverOf[k] = e
                               /\ pc[k] = IF cancelled[e] THEN "draining" ELSE "preparing"
      BY <2>1, <2>3 DEF WaitersConsistent
    <3>2. pc'[k] = pc[k]
      BY <3>1, <1>1 DEF Waits
    <3> QED BY <3>1, <3>2
  <2>4. ASSUME NEW k \in Callers
        PROVE  /\ pc'[k] = "preparing" => pc[k] = "preparing"
               /\ pc'[k] \in {"draining", "retiring"} => pc[k] \in {"draining", "retiring"}
    BY <1>1 DEF Waits
  <2> QED BY <1>2, <2>1, <2>2, <2>3, <2>4 DEF WaitersConsistent
<1>6. CreateInv'
  BY DEF CallSteps, CallUnchanged, CreateInv, CallConsistent
<1> QED BY <1>3, <1>4, <1>5, <1>6 DEF PreparationInv

LEMMA CreateStep ==
  ASSUME PreparationTypes, CallTypes, CreateInv, NEW c \in Callers,
         \/ Create(c) \/ ReadinessEnds(c) \/ DestroysSession(c) \/ Expires(c)
  PROVE  CallSteps(c)
<1>0. /\ pc \in [Callers -> Place]
      /\ polling \in [Callers -> BOOLEAN]
      /\ missing \in [Callers -> {"never", "recent", "ripe"}]
      /\ confirming \in [Callers -> BOOLEAN]
      /\ early \in [Callers -> BOOLEAN]
      /\ over \in [Callers -> BOOLEAN]
      /\ machine \in [Machines -> MachineState]
      /\ c \in Machines /\ Callers \subseteq Machines
  BY CallersAreMachines DEF CallTypes, CreateTypeOK, PreparationTypes, PreparationTypeOK
<1>a. CallConsistent(c)
  BY DEF CreateInv
<1>b. NextAfterFailure(c) \in {"retained", "looking"}
  BY DEF NextAfterFailure
<1>1. CASE SendsCreate(c)
  BY <1>0, <1>1, <1>a DEF SendsCreate, Goes, Becomes, prepVars, createVars, CallSteps, CallTypes,
     CreateTypeOK, CallUnchanged, CallConsistent, Place, Unsent, Waits, MachineState
<1>2. CASE NeverSends(c)
  BY <1>0, <1>2, <1>a, <1>b DEF NeverSends, Goes, prepVars, createVars, CallSteps, CallTypes,
     CreateTypeOK, CallUnchanged, CallConsistent, Place, Unsent, Waits
<1>3. CASE CreateExits(c)
  BY <1>0, <1>3, <1>a DEF CreateExits, Goes, prepVars, createVars, CallSteps, CallTypes,
     CreateTypeOK, CallUnchanged, CallConsistent, Place, Unsent, Waits
<1>4. CASE CreateFails(c)
  BY <1>0, <1>4, <1>a, <1>b DEF CreateFails, Goes, prepVars, createVars, CallSteps, CallTypes,
     CreateTypeOK, CallUnchanged, CallConsistent, Place, Unsent, Waits
<1>5. CASE PollStarts(c)
  BY <1>0, <1>5, <1>a DEF PollStarts, prepVars, CallSteps, CallTypes,
     CreateTypeOK, CallUnchanged, CallConsistent, Place, Unsent, Waits
<1>6. CASE PollAnswers(c)
  <2>1. \/ pc' = pc
        \/ pc' = [pc EXCEPT ![c] = "session"] /\ machine[c] \in {"listed", "leaving"}
        \/ \E x \in {"retained", "looking"} : pc' = [pc EXCEPT ![c] = x]
    BY <1>6, <1>b DEF PollAnswers, Goes, Running
  <2> QED
  BY <1>0, <1>6, <1>a, <2>1 DEF PollAnswers, prepVars, CallSteps, CallTypes,
     CreateTypeOK, CallUnchanged, CallConsistent, Place, Unsent, Waits
<1>7. CASE PollIsReaped(c)
  BY <1>0, <1>7, <1>a, <1>b DEF PollIsReaped, Goes, prepVars, CallSteps, CallTypes,
     CreateTypeOK, CallUnchanged, CallConsistent, Place, Unsent, Waits
<1>8. CASE ReadinessEnds(c)
  BY <1>0, <1>8, <1>a, <1>b DEF ReadinessEnds, Goes, prepVars, createVars, CallSteps, CallTypes,
     CreateTypeOK, CallUnchanged, CallConsistent, Place, Unsent, Waits
<1>9. CASE DestroysSession(c)
  <2>1. /\ pc[c] = "session" /\ UNCHANGED <<prepVars, createVars>>
        /\ pc' = pc \/ pc' = [pc EXCEPT ![c] = "destroyed"]
        /\ \E x \in MachineState : /\ x = machine[c] \/ (x = "leaving" /\ machine[c] = "listed")
                                   /\ machine' = [machine EXCEPT ![c] = x]
    BY <1>0, <1>9 DEF DestroysSession, Goes, MayDelete, Deletes, Becomes, MachineState
  <2> QED
  BY <1>0, <1>a, <2>1 DEF prepVars, createVars, CallSteps, CallTypes,
     CreateTypeOK, CallUnchanged, CallConsistent, Place, Unsent, Waits
<1>10. CASE Expires(c)
  BY <1>0, <1>10, <1>a DEF Expires, createVars, CallSteps, CallTypes,
     CreateTypeOK, CallUnchanged, CallConsistent
<1> QED BY <1>1, <1>2, <1>3, <1>4, <1>5, <1>6, <1>7, <1>8, <1>9, <1>10 DEF Create

LEMMA CleanupStep ==
  ASSUME PreparationTypes, CallTypes, CreateInv, NEW c \in Callers,
         Cleanup(c) \/ RetriesCleanup(c) \/ HorizonPasses(c)
  PROVE  CallSteps(c)
<1>0. /\ pc \in [Callers -> Place]
      /\ polling \in [Callers -> BOOLEAN]
      /\ missing \in [Callers -> {"never", "recent", "ripe"}]
      /\ confirming \in [Callers -> BOOLEAN]
      /\ early \in [Callers -> BOOLEAN]
      /\ over \in [Callers -> BOOLEAN]
      /\ machine \in [Machines -> MachineState]
      /\ c \in Machines /\ Callers \subseteq Machines
  BY CallersAreMachines DEF CallTypes, CreateTypeOK, PreparationTypes, PreparationTypeOK
<1>a. CallConsistent(c)
  BY DEF CreateInv
<1>1. CASE LookupMisses(c)
  BY <1>0, <1>1, <1>a DEF LookupMisses, Goes, Running, prepVars, CallSteps, CallTypes,
     CreateTypeOK, CallUnchanged, CallConsistent, Place, Unsent, Waits, MachineState
<1>2. CASE AbsenceAnswers(c)
  <2>1. /\ pc[c] = "missed" /\ missing[c] = "ripe" => pc' = [pc EXCEPT ![c] = "clean"]
        /\ missing[c] # "ripe" => \E x \in {"retained", "waiting"} : pc' = [pc EXCEPT ![c] = x]
        /\ missing' = missing \/ missing' = [missing EXCEPT ![c] = "recent"]
    BY <1>2 DEF AbsenceAnswers, Goes
  <2> QED
  BY <1>0, <1>2, <1>a, <2>1 DEF AbsenceAnswers, prepVars, CallSteps, CallTypes,
     CreateTypeOK, CallUnchanged, CallConsistent, Place, Unsent, Waits
<1>3. CASE LookupFinds(c)
  BY <1>0, <1>3, <1>a DEF LookupFinds, Goes, Running, prepVars, CallSteps, CallTypes,
     CreateTypeOK, CallUnchanged, CallConsistent, Place, Unsent, Waits
<1>4. CASE DeleteSucceeds(c)
  BY <1>0, <1>4, <1>a DEF DeleteSucceeds, Deletes, Becomes, Goes, prepVars, createVars, CallSteps,
     CallTypes, CreateTypeOK, CallUnchanged, CallConsistent, Place, Unsent, Waits, MachineState
<1>5. CASE DeleteMisses(c)
  BY <1>0, <1>5, <1>a DEF DeleteMisses, Goes, prepVars, createVars, CallSteps, CallTypes,
     CreateTypeOK, CallUnchanged, CallConsistent, Place, Unsent, Waits
<1>6. CASE CleanupFails(c)
  <2>1. /\ pc[c] \in {"looking", "deleting", "missed", "waiting"}
        /\ pc' = [pc EXCEPT ![c] = "retained"] /\ UNCHANGED <<prepVars, createVars>>
        /\ \E x \in MachineState : /\ x = machine[c] \/ (x = "leaving" /\ machine[c] = "listed")
                                   /\ machine' = [machine EXCEPT ![c] = x]
    BY <1>0, <1>6 DEF CleanupFails, Goes, MayDelete, Deletes, Becomes, MachineState
  <2> QED
  BY <1>0, <1>a, <2>1 DEF prepVars, createVars, CallSteps, CallTypes,
     CreateTypeOK, CallUnchanged, CallConsistent, Place, Unsent, Waits
<1>7. CASE WaitEnds(c)
  BY <1>0, <1>7, <1>a DEF WaitEnds, Goes, prepVars, CallSteps, CallTypes,
     CreateTypeOK, CallUnchanged, CallConsistent, Place, Unsent, Waits
<1>8. CASE RetriesCleanup(c)
  BY <1>0, <1>8, <1>a DEF RetriesCleanup, Goes, prepVars, CallSteps, CallTypes,
     CreateTypeOK, CallUnchanged, CallConsistent, Place, Unsent, Waits
<1>9. CASE HorizonPasses(c)
  BY <1>0, <1>9, <1>a DEF HorizonPasses, prepVars, CallSteps, CallTypes,
     CreateTypeOK, CallUnchanged, CallConsistent, Place, Unsent, Waits
<1> QED BY <1>1, <1>2, <1>3, <1>4, <1>5, <1>6, <1>7, <1>8, <1>9 DEF Cleanup

\* A preparation step leaves what a call knows of its machine: nothing.
LEMMA PreparingKeepsCalls ==
  ASSUME PreparationTypes', CallTypes, CreateInv, \A k \in Callers : Moves(k),
         UNCHANGED <<createVars, machine>>
  PROVE  CallTypes' /\ CreateInv'
<1>1. CallTypes'
  BY DEF CallTypes, CreateTypeOK, createVars, PreparationTypes
<1>2. ASSUME NEW k \in Callers
      PROVE  CallConsistent(k)'
  <2>1. CallConsistent(k) /\ Moves(k)
    BY DEF CreateInv
  <2>2. /\ polling'[k] = polling[k] /\ missing'[k] = missing[k]
        /\ early'[k] = early[k] /\ machine'[k] = machine[k]
    BY DEF createVars
  <2>3. CASE pc'[k] = pc[k]
    BY <2>1, <2>2, <2>3 DEF CallConsistent
  <2>4. CASE pc[k] \in Unsent /\ pc'[k] \in Unsent
    BY <2>1, <2>2, <2>4 DEF CallConsistent, Unsent
  <2> QED BY <2>1, <2>3, <2>4 DEF Moves, Unsent
<1> QED BY <1>1, <1>2 DEF CreateInv

\* A benchmark process takes a step.
LEMMA CliStep ==
  ASSUME PreparationTypes, CallTypes, PreparationInv, CreateInv, CliNext
  PROVE  PreparationTypes' /\ CallTypes' /\ PreparationInv' /\ CreateInv'
<1>1. ASSUME NEW c \in Callers, Prepares(c)
      PROVE  PreparationTypes' /\ CallTypes' /\ PreparationInv' /\ CreateInv'
  <2>1. PreparationTypes' /\ PreparationInv' /\ \A k \in Callers : Moves(k)
    BY <1>1, CallPrepares DEF Prepares
  <2>2. UNCHANGED <<createVars, machine>>
    BY <1>1 DEF Prepares
  <2> QED BY <2>1, <2>2, PreparingKeepsCalls
<1>2. ASSUME NEW c \in Callers,
             \/ Create(c) \/ Cleanup(c) \/ ReadinessEnds(c) \/ RetriesCleanup(c)
             \/ DestroysSession(c) \/ HorizonPasses(c) \/ Expires(c)
      PROVE  PreparationTypes' /\ CallTypes' /\ PreparationInv' /\ CreateInv'
  <2>1. CallSteps(c)
    BY <1>2, CreateStep, CleanupStep
  <2> QED BY <2>1, CallStepsKeepInv
<1>3. ASSUME NEW d \in Drivers, TaskStep(d)
      PROVE  PreparationTypes' /\ CallTypes' /\ PreparationInv' /\ CreateInv'
  <2>1. PreparationTypes' /\ PreparationInv' /\ \A k \in Callers : Moves(k)
    BY <1>3, TaskPrepares DEF TaskStep
  <2>2. UNCHANGED <<createVars, machine>>
    BY <1>3 DEF TaskStep
  <2> QED BY <2>1, <2>2, PreparingKeepsCalls
<1> QED BY <1>1, <1>2, <1>3 DEF CliNext, CallerStep

-----------------------------------------------------------------------------
(* The vendor, and a removal by the reconciliation.                        *)

\* What a machine does while no call of the process creates one.
MachineMoves(r) ==
    \/ machine'[r] = machine[r]
    \/ machine[r] = "sent" /\ machine'[r] \in {"listed", "none"}
    \/ machine[r] = "listed" /\ machine'[r] = "leaving"
    \/ machine[r] \in {"listed", "leaving"} /\ machine'[r] = "gone"

MachinesMove ==
    machine' \in [Machines -> MachineState] /\ \A r \in Machines : MachineMoves(r)

LEMMA DeleteMoves ==
  ASSUME machine \in [Machines -> MachineState], NEW r \in Machines, MayDelete(r)
  PROVE  MachinesMove
<1>1. CASE machine' = machine
  BY <1>1 DEF MachinesMove, MachineMoves
<1>2. CASE Deletes(r)
  BY <1>2 DEF Deletes, Becomes, MachinesMove, MachineMoves, MachineState
<1> QED BY <1>1, <1>2 DEF MayDelete

LEMMA VendorMoves ==
  ASSUME machine \in [Machines -> MachineState], NEW r \in Machines, Arrives(r) \/ Departs(r)
  PROVE  MachinesMove
<1>1. \E x \in MachineState :
        /\ machine' = [machine EXCEPT ![r] = x]
        /\ \/ machine[r] = "sent" /\ x \in {"listed", "none"}
           \/ machine[r] \in {"listed", "leaving"} /\ x = "gone"
  BY DEF Arrives, Departs, Running, Becomes, MachineState
<1> QED BY <1>1 DEF MachinesMove, MachineMoves

LEMMA MovesKeepCalls ==
  ASSUME CallTypes, CreateInv, MachinesMove, UNCHANGED callVars
  PROVE  CallTypes' /\ CreateInv'
<1>1. UNCHANGED <<pc, polling, missing, confirming, early>>
  BY DEF callVars, createVars
<1>2. CallTypes'
  BY <1>1 DEF CallTypes, CreateTypeOK, MachinesMove
<1>3. ASSUME NEW c \in Callers
      PROVE  CallConsistent(c)'
  <2>1. CallConsistent(c) /\ MachineMoves(c)
    BY CallersAreMachines DEF CreateInv, MachinesMove
  <2> QED BY <1>1, <2>1 DEF CallConsistent, MachineMoves
<1> QED BY <1>2, <1>3 DEF CreateInv

-----------------------------------------------------------------------------
(* reconcileAccount.                                                       *)

\* ReconcileTypeOK but for the sizes of listing and target, which the invariant
\* gives.
ReconcileTypes ==
    /\ stage \in Stage
    /\ listing \in SUBSET Drivers
    /\ unread \in SUBSET Machines
    /\ found \in [Drivers -> SUBSET Machines]
    /\ foreign \in BOOLEAN
    /\ accepted \in SUBSET Drivers
    /\ target \in SUBSET (Drivers \X Machines)
    /\ standing \in SUBSET Machines
    /\ ours \in SUBSET Machines
    /\ view \in [Drivers -> SUBSET Machines]
    /\ scope \in {"account", "benchmark"}

LEMMA OneElement == ASSUME NEW x PROVE Cardinality({x}) = 1
  BY FS_Singleton

LEMMA NoElement == Cardinality({}) = 0
  BY FS_EmptySet

LEMMA ReconcileTypesSuffice ==
  ASSUME ReconcileTypes, ReconcileInv
  PROVE  ReconcileTypeOK
<1>1. Cardinality(listing) <= 1
  <2>1. CASE listing = {}
    BY <2>1, NoElement
  <2>2. CASE \E d \in Drivers : listing = {d}
    BY <2>2, OneElement
  <2> QED BY <2>1, <2>2 DEF ReconcileInv, ListingConsistent
<1>2. Cardinality(target) <= 1
  <2>1. CASE target = {}
    BY <2>1, NoElement
  <2>2. CASE \E d \in Drivers, r \in ours : target = {<<d, r>>}
    <3>1. \E t : target = {t}
      BY <2>2
    <3> QED BY <3>1, OneElement
  <2> QED BY <2>1, <2>2 DEF ReconcileInv, RemovalConsistent
<1> QED BY <1>1, <1>2 DEF ReconcileTypes, ReconcileTypeOK

LEMMA ReconcileTypesSufficeNext ==
  ReconcileTypes' /\ ReconcileInv' => ReconcileTypeOK'
<1>1. ReconcileTypes /\ ReconcileInv => ReconcileTypeOK
  BY ReconcileTypesSuffice
<1> QED BY <1>1, PTL

\* What stood when the second inspection began cannot start to run again.
LEMMA MovesKeepStanding ==
  ASSUME ReconcileTypes, ListingConsistent, MachinesMove, UNCHANGED standing
  PROVE  /\ \A r \in standing : machine'[r] \in {"listed", "leaving", "gone"}
         /\ \A r \in standing : Running(r)' => Running(r)
BY DEF ReconcileTypes, ListingConsistent, MachinesMove, MachineMoves, Running

LEMMA MovesKeepReconcile ==
  ASSUME ReconcileTypes, ReconcileInv, MachinesMove,
         UNCHANGED <<listing, unread, found, foreign, accepted, target, standing, accountVars>>,
         stage' = stage \/ (stage' = "refused" /\ stage # "settled")
           \/ (stage' = "observing" /\ stage = "removing")
  PROVE  ReconcileTypes' /\ ReconcileInv'
<1>1. ReconcileTypes'
  BY DEF ReconcileTypes, accountVars, Stage
<1>2. /\ \A r \in standing : machine'[r] \in {"listed", "leaving", "gone"}
      /\ \A r \in standing : Running(r)' => Running(r)
  BY MovesKeepStanding DEF ReconcileInv
<1>3. UNCHANGED <<ours, view, scope>>
  BY DEF accountVars
<1>4. ListingConsistent'
  BY <1>2, <1>3 DEF ReconcileInv, ListingConsistent
<1>5. RemovalConsistent'
  BY <1>3 DEF ReconcileInv, RemovalConsistent, Inspecting
<1>6. NothingOverlooked'
  <2>1. \A r \in Machines : MustShow(r)' => MustShow(r)
    BY <1>2, <1>3 DEF MustShow
  <2>2. stage' \in {"confirming", "settled"} => stage' = stage
    OBVIOUS
  <2> QED BY <1>3, <2>1, <2>2 DEF ReconcileInv, NothingOverlooked
<1> QED BY <1>1, <1>4, <1>5, <1>6 DEF ReconcileInv

LEMMA InspectionStarts ==
  ASSUME ReconcileTypes, ReconcileInv, machine \in [Machines -> MachineState],
         Begins \/ InspectsAgain
  PROVE  ReconcileTypes' /\ ReconcileInv' /\ UNCHANGED <<machine, accountVars>>
<1>1. PICK next \in {"inspecting", "confirming"} : Inspection(next)
  BY DEF Begins, InspectsAgain
<1>2. /\ stage' = next /\ accepted' = {} /\ listing' = {} /\ unread' = {} /\ foreign' = FALSE
      /\ found' = [d \in Drivers |-> {}] /\ target' = {}
      /\ UNCHANGED <<ours, view, scope, machine>>
  BY <1>1 DEF Inspection, accountVars
<1>3. standing' \in SUBSET Machines /\ \A r \in standing' : machine[r] \in {"listed", "leaving"}
  BY DEF Begins, InspectsAgain, Running
<1>4. ReconcileTypes'
  BY <1>2, <1>3 DEF ReconcileTypes, Stage
<1>5. ListingConsistent' /\ RemovalConsistent'
  BY <1>2, <1>3 DEF ListingConsistent, RemovalConsistent, Inspecting
<1>6. NothingOverlooked'
  BY <1>2 DEF NothingOverlooked
<1> QED BY <1>2, <1>4, <1>5, <1>6 DEF ReconcileInv, accountVars

LEMMA ListingStep ==
  ASSUME ReconcileTypes, ReconcileInv,
         \/ \E d \in Drivers : ListBegins(d) \/ ListAccepted(d)
         \/ \E d \in Drivers, r \in Machines : ReadsPage(d, r)
  PROVE  ReconcileTypes' /\ ReconcileInv' /\ UNCHANGED <<machine, accountVars>>
<1>0. /\ listing \in SUBSET Drivers /\ unread \in SUBSET Machines
      /\ found \in [Drivers -> SUBSET Machines] /\ foreign \in BOOLEAN
      /\ accepted \in SUBSET Drivers /\ view \in [Drivers -> SUBSET Machines]
      /\ scope \in {"account", "benchmark"}
  BY DEF ReconcileTypes
<1>a. NothingOverlooked /\ ListingConsistent /\ RemovalConsistent
  BY DEF ReconcileInv
<1>b. UNCHANGED <<stage, target, standing, ours, view, scope, machine>>
  BY DEF ListBegins, ListAccepted, ReadsPage, accountVars
<1>c. \A r \in Machines : MustShow(r)' <=> MustShow(r)
  BY <1>b DEF MustShow, Running
<1>1. ASSUME NEW d \in Drivers, ListBegins(d)
      PROVE  ReconcileTypes' /\ ReconcileInv'
  <2>1. /\ Inspecting /\ listing = {} /\ d \notin accepted
        /\ listing' = {d} /\ unread' = view[d] /\ foreign' = FALSE
        /\ UNCHANGED <<found, accepted>>
    BY <1>1 DEF ListBegins
  <2>2. ReconcileTypes'
    BY <1>0, <1>b, <2>1 DEF ReconcileTypes
  <2>3. ListingConsistent'
    BY <1>a, <1>b, <2>1 DEF ListingConsistent
  <2>4. RemovalConsistent'
    BY <1>a, <1>b, <2>1 DEF RemovalConsistent, Inspecting
  <2>5. NothingOverlooked'
    BY <1>a, <1>b, <1>c, <2>1 DEF NothingOverlooked
  <2> QED BY <2>2, <2>3, <2>4, <2>5 DEF ReconcileInv
<1>2. ASSUME NEW d \in Drivers, ListAccepted(d)
      PROVE  ReconcileTypes' /\ ReconcileInv'
  <2>1. /\ listing = {d} /\ unread = {} /\ ~Blocks
        /\ stage = "confirming" => found[d] = {}
        /\ listing' = {} /\ accepted' = accepted \cup {d}
        /\ UNCHANGED <<unread, found, foreign>>
    BY <1>2 DEF ListAccepted
  <2>2. ReconcileTypes'
    BY <1>0, <1>b, <2>1 DEF ReconcileTypes
  <2>3. ListingConsistent'
    BY <1>a, <1>b, <2>1 DEF ListingConsistent
  <2>4. RemovalConsistent'
    BY <1>0, <1>a, <1>b, <2>1 DEF RemovalConsistent, Inspecting
  <2>5. stage # "settled"
    BY <1>a, <2>1 DEF ListingConsistent, RemovalConsistent
  <2>6. ASSUME stage = "confirming", NEW r \in Machines, MustShow(r), r \in view[d]
        PROVE  FALSE
    <3>1. r \notin ours /\ foreign
      BY <1>a, <2>1, <2>6 DEF NothingOverlooked
    <3>2. scope = "account"
      BY <2>6, <3>1 DEF MustShow
    <3> QED BY <2>1, <3>1, <3>2 DEF Blocks
  <2>7. NothingOverlooked'
    BY <1>a, <1>b, <1>c, <2>1, <2>5, <2>6 DEF NothingOverlooked
  <2> QED BY <2>2, <2>3, <2>4, <2>7 DEF ReconcileInv
<1>3. ASSUME NEW d \in Drivers, NEW r \in Machines, ReadsPage(d, r)
      PROVE  ReconcileTypes' /\ ReconcileInv'
  <2>1. /\ d \in listing /\ r \in unread
        /\ unread' = unread \ {r}
        /\ found' = IF Running(r) /\ r \in ours
                    THEN [found EXCEPT ![d] = @ \cup {r}] ELSE found
        /\ foreign' = (foreign \/ (Running(r) /\ r \notin ours))
        /\ UNCHANGED <<listing, accepted>>
    BY <1>3 DEF ReadsPage
  <2>2. /\ found' \in [Drivers -> SUBSET Machines]
        /\ \A e \in Drivers : found[e] \subseteq found'[e]
        /\ \A e \in Drivers : found'[e] \subseteq found[e] \cup {r}
        /\ Running(r) /\ r \in ours => r \in found'[d]
        /\ ~(Running(r) /\ r \in ours) => found' = found
        /\ foreign' \in BOOLEAN
    BY <1>0, <2>1
  <2>3. ReconcileTypes'
    BY <1>0, <1>b, <2>1, <2>2 DEF ReconcileTypes
  <2>4. ListingConsistent'
    BY <1>0, <1>a, <1>b, <2>1, <2>2 DEF ListingConsistent
  <2>5. RemovalConsistent'
    BY <1>a, <1>b, <2>1 DEF RemovalConsistent, Inspecting
  <2>6. listing = {d}
    BY <1>a, <2>1 DEF ListingConsistent
  <2>7. ASSUME stage' \in {"confirming", "settled"},
               NEW e \in Drivers, NEW q \in Machines, MustShow(q)', q \in view'[e]
        PROVE  /\ e \notin accepted'
               /\ e \in listing' => q \in unread' \/ q \in found'[e] \/ (q \notin ours' /\ foreign')
    <3>1. /\ e \notin accepted
          /\ e \in listing => q \in unread \/ q \in found[e] \/ (q \notin ours /\ foreign)
      BY <1>a, <1>b, <1>c, <2>7 DEF NothingOverlooked
    <3>2. Running(q)
      BY <1>c, <2>7 DEF MustShow
    <3>3. CASE e \in listing /\ q = r
      <4>1. e = d
        BY <2>6, <3>3
      <4> QED BY <1>b, <2>1, <2>2, <3>1, <3>2, <3>3, <4>1
    <3>4. CASE e \in listing /\ q # r
      BY <1>b, <2>1, <2>2, <3>1, <3>4
    <3>5. CASE e \notin listing
      BY <2>1, <3>1, <3>5
    <3> QED BY <3>3, <3>4, <3>5
  <2>8. NothingOverlooked'
    BY <2>7 DEF NothingOverlooked
  <2> QED BY <2>3, <2>4, <2>5, <2>8 DEF ReconcileInv
<1> QED BY <1>1, <1>2, <1>3, <1>b DEF accountVars

LEMMA RemovalStep ==
  ASSUME ReconcileTypes, ReconcileInv,
         \/ Inspected \/ ObservesGone \/ Admits
         \/ \E d \in Drivers, r \in Machines : RequestsDestroy(d, r)
  PROVE  ReconcileTypes' /\ ReconcileInv' /\ UNCHANGED <<machine, accountVars>>
<1>0. /\ found \in [Drivers -> SUBSET Machines]
      /\ target \in SUBSET (Drivers \X Machines)
  BY DEF ReconcileTypes
<1>a. NothingOverlooked /\ ListingConsistent /\ RemovalConsistent
  BY DEF ReconcileInv
<1>b. UNCHANGED <<listing, unread, foreign, accepted, standing, ours, view, scope, machine>>
  BY DEF Inspected, ObservesGone, Admits, RequestsDestroy, inspectionVars, accountVars
<1>1. CASE Inspected
  <2>1. /\ stage = "inspecting" /\ accepted = Drivers /\ stage' = "removing"
        /\ UNCHANGED <<found, target>>
    BY <1>1 DEF Inspected, inspectionVars
  <2>2. ReconcileTypes'
    BY <1>b, <2>1 DEF ReconcileTypes, Stage
  <2>3. ListingConsistent' /\ RemovalConsistent' /\ NothingOverlooked'
    BY <1>a, <1>b, <2>1 DEF ListingConsistent, RemovalConsistent, Inspecting, NothingOverlooked
  <2> QED BY <1>b, <2>2, <2>3 DEF ReconcileInv, accountVars
<1>2. CASE ObservesGone
  <2>1. /\ stage = "observing" /\ stage' = "removing" /\ target' = {}
        /\ found' = [d \in Drivers |-> {r \in found[d] : <<d, r>> \notin target}]
    BY <1>2 DEF ObservesGone
  <2>2. ReconcileTypes'
    BY <1>0, <1>b, <2>1 DEF ReconcileTypes, Stage
  <2>3. ListingConsistent' /\ RemovalConsistent' /\ NothingOverlooked'
    BY <1>a, <1>b, <2>1 DEF ListingConsistent, RemovalConsistent, Inspecting, NothingOverlooked
  <2> QED BY <1>b, <2>2, <2>3 DEF ReconcileInv, accountVars
<1>3. CASE Admits
  <2>1. /\ stage = "confirming" /\ accepted = Drivers /\ stage' = "settled"
        /\ UNCHANGED <<found, target>>
    BY <1>3 DEF Admits, inspectionVars
  <2>2. ReconcileTypes'
    BY <1>b, <2>1 DEF ReconcileTypes, Stage
  <2>3. ListingConsistent' /\ RemovalConsistent'
    BY <1>a, <1>b, <2>1 DEF ListingConsistent, RemovalConsistent, Inspecting
  <2>4. NothingOverlooked'
    BY <1>a, <1>b, <2>1 DEF NothingOverlooked, MustShow, Running
  <2> QED BY <1>b, <2>2, <2>3, <2>4 DEF ReconcileInv, accountVars
<1>4. ASSUME NEW d \in Drivers, NEW r \in Machines, RequestsDestroy(d, r)
      PROVE  ReconcileTypes' /\ ReconcileInv' /\ UNCHANGED <<machine, accountVars>>
  <2>1. /\ stage = "removing" /\ r \in found[d] /\ target' = {<<d, r>>}
        /\ UNCHANGED <<stage, found>>
    BY <1>4 DEF RequestsDestroy, inspectionVars
  <2>2. ReconcileTypes'
    BY <1>b, <2>1 DEF ReconcileTypes
  <2>3. r \in ours /\ accepted = Drivers
    BY <1>a, <2>1 DEF ListingConsistent, RemovalConsistent
  <2>4. ListingConsistent' /\ RemovalConsistent' /\ NothingOverlooked'
    BY <1>a, <1>b, <2>1, <2>3
    DEF ListingConsistent, RemovalConsistent, Inspecting, NothingOverlooked
  <2> QED BY <1>b, <2>2, <2>4 DEF ReconcileInv, accountVars
<1> QED BY <1>1, <1>2, <1>3, <1>4

LEMMA ReconcileStep ==
  ASSUME ReconcileTypes, ReconcileInv, machine \in [Machines -> MachineState], Reconcile
  PROVE  /\ ReconcileTypes' /\ ReconcileInv'
         /\ MachinesMove
         /\ UNCHANGED accountVars
<1>1. CASE \/ Begins \/ InspectsAgain
           \/ \E d \in Drivers : ListBegins(d) \/ ListAccepted(d)
           \/ \E d \in Drivers, r \in Machines : ReadsPage(d, r)
           \/ Inspected \/ ObservesGone \/ Admits
           \/ \E d \in Drivers, r \in Machines : RequestsDestroy(d, r)
  <2>1. ReconcileTypes' /\ ReconcileInv' /\ UNCHANGED <<machine, accountVars>>
    BY <1>1, InspectionStarts, ListingStep, RemovalStep
  <2> QED BY <2>1 DEF MachinesMove, MachineMoves
<1>2. CASE DestroyAnswers \/ Refuses
  <2>1. /\ UNCHANGED <<listing, unread, found, foreign, accepted, target, standing, accountVars>>
        /\ (stage' = "refused" /\ stage # "settled") \/ (stage' = "observing" /\ stage = "removing")
        /\ (\E t \in target : MayDelete(t[2])) \/ UNCHANGED machine
    BY <1>2 DEF DestroyAnswers, Refuses, inspectionVars
  <2>2. MachinesMove
    <3>1. CASE UNCHANGED machine
      BY <3>1 DEF MachinesMove, MachineMoves
    <3>2. CASE \E t \in target : MayDelete(t[2])
      <4>1. PICK t \in target : MayDelete(t[2])
        BY <3>2
      <4>2. t[2] \in Machines
        BY DEF ReconcileTypes
      <4> QED BY <4>1, <4>2, DeleteMoves
    <3> QED BY <2>1, <3>1, <3>2
  <2>3. ReconcileTypes' /\ ReconcileInv'
    BY <2>1, <2>2, MovesKeepReconcile
  <2> QED BY <2>1, <2>2, <2>3
<1> QED BY <1>1, <1>2 DEF Reconcile

-----------------------------------------------------------------------------
(* The account.                                                            *)

LEMMA InitInv == Init => CliInv
<1> SUFFICES ASSUME Init PROVE CliInv
  OBVIOUS
<1> USE DEF Init, PreparationInit, CreateInit
<1>1. lock \in Seq(Drivers) /\ Len(lock) = 0
  OBVIOUS
<1>2. PreparationTypeOK /\ CreateTypeOK
  BY <1>1 DEF PreparationTypeOK, CreateTypeOK, Place, Reason
<1>3. PreparationInv
  BY <1>1 DEF PreparationInv, QueueConsistent, WaitersConsistent, FailuresAreOwn, InFlight
<1>4. machine \in [Machines -> MachineState]
  BY DEF MachineState
<1>5. CreateInv
  BY CallersAreMachines DEF CreateInv, CallConsistent
<1>6. ReconcileTypes
  BY CallersAreMachines DEF ReconcileTypes, Stage
<1>7. ReconcileInv
  BY DEF ReconcileInv, NothingOverlooked, ListingConsistent, RemovalConsistent, Inspecting
<1>8. WorkerConsistent
  BY DEF WorkerConsistent
<1>9. worker \in {"benchmark", "ended", "admission"}
  OBVIOUS
<1> HIDE DEF Init, PreparationInit, CreateInit
<1> QED BY <1>2, <1>3, <1>4, <1>5, <1>6, <1>7, <1>8, <1>9, ReconcileTypesSuffice DEF CliInv, TypeOK

LEMMA WorkerEnds ==
  ASSUME CliInv, ProcessEnds
  PROVE  CliInv'
<1>0. driverOf \in [Callers -> Drivers]
  BY DEF CliInv, TypeOK, PreparationTypeOK
<1>1. UNCHANGED <<driverOf, machine, stage, listing, unread, found, foreign, accepted,
                  target, standing, ours, view, scope>>
  BY DEF ProcessEnds, reconcileVars, inspectionVars, accountVars
<1>2. lock' \in Seq(Drivers) /\ Len(lock') = 0
  BY DEF ProcessEnds
<1>3. PreparationTypeOK' /\ CreateTypeOK'
  BY <1>0, <1>1, <1>2 DEF ProcessEnds, PreparationTypeOK, CreateTypeOK, Place, Reason
<1>4. PreparationInv'
  BY <1>0, <1>1, <1>2 DEF ProcessEnds, PreparationInv, QueueConsistent, WaitersConsistent,
     FailuresAreOwn, InFlight
<1>5. CreateInv'
  BY DEF ProcessEnds, CreateInv, CallConsistent, Unsent
<1>6. ReconcileTypeOK' /\ machine' \in [Machines -> MachineState]
  BY <1>1 DEF CliInv, TypeOK, ReconcileTypeOK
<1>7. ReconcileInv'
  BY <1>1 DEF CliInv, ReconcileInv, NothingOverlooked, ListingConsistent, RemovalConsistent,
     Inspecting, MustShow, Running
<1>8. WorkerConsistent' /\ worker' \in {"benchmark", "ended", "admission"}
  BY <1>1 DEF ProcessEnds, CliInv, WorkerConsistent
<1> QED BY <1>3, <1>4, <1>5, <1>6, <1>7, <1>8 DEF CliInv, TypeOK

LEMMA WorkerBegins ==
  ASSUME CliInv, NextWorker
  PROVE  CliInv'
<1>0. driverOf \in [Callers -> Drivers] /\ machine \in [Machines -> MachineState]
  BY DEF CliInv, TypeOK, PreparationTypeOK
<1>1. UNCHANGED <<pc, over, reason, task, cancelled, lock, polling, missing, confirming, early,
                  stage, listing, unread, found, foreign, accepted, target, standing>>
  BY DEF NextWorker, inspectionVars
<1>2. /\ \A c \in Callers : pc[c] = "retained"
      /\ \A d \in Drivers : task[d] = "none"
      /\ stage = "idle" /\ listing = {} /\ target = {} /\ standing = {}
      /\ \A d \in Drivers : found[d] = {}
  BY DEF CliInv, WorkerConsistent, NextWorker
<1>3. PICK shared \in BOOLEAN, d \in Drivers :
        view' = [e \in Drivers |->
                   IF shared THEN Machines
                   ELSE {c \in Callers : driverOf[c] = e} \cup (IF e = d THEN Strays ELSE {})]
  BY DEF NextWorker
<1>4. driverOf' \in [Callers -> Drivers]
  <2>1. (CHOOSE e \in Drivers : TRUE) \in Drivers
    BY <1>3
  <2> QED BY <2>1 DEF NextWorker
<1>5. machine' \in [Machines -> MachineState] /\ \A c \in Callers : machine'[c] = machine[c]
  BY <1>0, CallersAreMachines DEF NextWorker, Strays, MachineState
<1>6. view' \in [Drivers -> SUBSET Machines]
  BY <1>3, CallersAreMachines DEF Strays
<1>7. \A r \in Machines : \E e \in Drivers : r \in view'[e]
  <2> SUFFICES ASSUME NEW r \in Machines
               PROVE  \E e \in Drivers : r \in view'[e]
    OBVIOUS
  <2>1. CASE r \in Callers
    BY <1>0, <1>3, <2>1
  <2>2. CASE r \notin Callers
    BY <1>3, <2>2 DEF Strays
  <2> QED BY <2>1, <2>2
<1>8. ours' \in SUBSET Machines /\ scope' \in {"account", "benchmark"}
  BY CallersAreMachines DEF NextWorker
<1>9. PreparationTypeOK' /\ CreateTypeOK'
  BY <1>1, <1>4 DEF CliInv, TypeOK, PreparationTypeOK, CreateTypeOK
<1>10. PreparationInv'
  <2>1. QueueConsistent' /\ FailuresAreOwn'
    BY <1>1 DEF CliInv, PreparationInv, QueueConsistent, FailuresAreOwn, InFlight
  <2>2. WaitersConsistent'
    BY <1>1, <1>2 DEF CliInv, PreparationInv, WaitersConsistent, InFlight
  <2> QED BY <2>1, <2>2 DEF PreparationInv
<1>11. CreateInv'
  BY <1>1, <1>5 DEF CliInv, CreateInv, CallConsistent
<1>12. ReconcileTypeOK'
  BY <1>1, <1>6, <1>8 DEF CliInv, TypeOK, ReconcileTypeOK
<1>13. ReconcileInv'
  BY <1>1, <1>2 DEF CliInv, ReconcileInv, NothingOverlooked, ListingConsistent,
     RemovalConsistent, Inspecting
<1>14. WorkerConsistent' /\ worker' \in {"benchmark", "ended", "admission"}
  BY <1>1, <1>2, <1>7 DEF NextWorker, WorkerConsistent
<1> QED BY <1>5, <1>9, <1>10, <1>11, <1>12, <1>13, <1>14 DEF CliInv, TypeOK

LEMMA StepInv ==
  ASSUME CliInv, [Next]_vars
  PROVE  CliInv'
<1>0. /\ PreparationTypes /\ CallTypes /\ ReconcileTypes
      /\ PreparationInv /\ CreateInv /\ ReconcileInv /\ WorkerConsistent
      /\ machine \in [Machines -> MachineState]
      /\ worker \in {"benchmark", "ended", "admission"}
  BY DEF CliInv, TypeOK, PreparationTypes, CallTypes, ReconcileTypes, ReconcileTypeOK, CreateTypeOK
<1>1. CASE worker = "benchmark" /\ CliNext /\ UNCHANGED <<reconcileVars, worker>>
  <2>1. PreparationTypes' /\ CallTypes' /\ PreparationInv' /\ CreateInv'
    BY <1>0, <1>1, CliStep
  <2>2. /\ UNCHANGED <<stage, listing, unread, found, foreign, accepted, target, standing,
                       ours, view, scope, worker>>
        /\ worker = "benchmark"
    BY <1>1 DEF reconcileVars, inspectionVars, accountVars
  <2>3. stage = "idle" /\ standing = {}
    BY <1>0, <1>1 DEF WorkerConsistent
  <2>4. ReconcileTypeOK'
    BY <2>2 DEF CliInv, TypeOK, ReconcileTypeOK
  <2>5. ReconcileInv'
    BY <1>0, <2>2, <2>3 DEF ReconcileInv, NothingOverlooked, ListingConsistent,
       RemovalConsistent, Inspecting
  <2>6. WorkerConsistent'
    BY <1>0, <2>2 DEF WorkerConsistent
  <2> QED BY <1>0, <2>1, <2>2, <2>4, <2>5, <2>6
          DEF CliInv, TypeOK, PreparationTypes, CallTypes, CreateTypeOK
<1>2. CASE ProcessEnds
  BY <1>2, WorkerEnds
<1>3. CASE NextWorker
  BY <1>3, WorkerBegins
<1>4. ASSUME MachinesMove, ReconcileTypes', ReconcileInv', UNCHANGED <<callVars, worker>>,
             WorkerConsistent'
      PROVE  CliInv'
  <2>1. CallTypes' /\ CreateInv'
    BY <1>0, <1>4, MovesKeepCalls
  <2>2. UNCHANGED <<pc, driverOf, over, reason, task, cancelled, lock, worker>>
    BY <1>4 DEF callVars, prepVars
  <2>3. PreparationTypeOK'
    BY <1>0, <2>2 DEF PreparationTypes, PreparationTypeOK
  <2>4. PreparationInv'
    BY <1>0, <2>2 DEF PreparationInv, QueueConsistent, WaitersConsistent, FailuresAreOwn, InFlight
  <2>5. ReconcileTypeOK'
    BY <1>4, ReconcileTypesSufficeNext
  <2> QED BY <1>0, <1>4, <2>1, <2>2, <2>3, <2>4, <2>5 DEF CliInv, TypeOK, CallTypes
<1>5. CASE worker = "admission" /\ Reconcile /\ UNCHANGED <<callVars, worker>>
  <2>1. ReconcileTypes' /\ ReconcileInv' /\ MachinesMove /\ UNCHANGED accountVars
    BY <1>0, <1>5, ReconcileStep
  <2>2. WorkerConsistent'
    BY <1>0, <1>5, <2>1 DEF WorkerConsistent, callVars, prepVars, accountVars
  <2> QED BY <1>4, <1>5, <2>1, <2>2
<1>6. CASE Vendor
  <2>1. MachinesMove /\ UNCHANGED <<callVars, reconcileVars, worker>>
    BY <1>0, <1>6, VendorMoves DEF Vendor
  <2>2. ReconcileTypes' /\ ReconcileInv'
    BY <1>0, <2>1, MovesKeepReconcile DEF reconcileVars, inspectionVars
  <2>3. WorkerConsistent'
    BY <1>0, <2>1 DEF WorkerConsistent, callVars, prepVars, reconcileVars, inspectionVars, accountVars
  <2> QED BY <1>4, <2>1, <2>2, <2>3
<1>7. CASE UNCHANGED vars
  <2>1. UNCHANGED <<callVars, reconcileVars, machine, worker>>
    BY <1>7 DEF vars
  <2>2. MachinesMove
    BY <1>0, <2>1 DEF MachinesMove, MachineMoves
  <2>3. ReconcileTypes' /\ ReconcileInv'
    BY <1>0, <2>1, <2>2, MovesKeepReconcile DEF reconcileVars, inspectionVars
  <2>4. WorkerConsistent'
    BY <1>0, <2>1 DEF WorkerConsistent, callVars, prepVars, reconcileVars, inspectionVars, accountVars
  <2> QED BY <1>4, <2>1, <2>2, <2>3, <2>4
<1> QED BY <1>1, <1>2, <1>3, <1>5, <1>6, <1>7 DEF Next

\* The three components stay consistent with each other, through the end of a
\* benchmark process and the account's next worker.
THEOREM Consistent == Spec => []CliInv
<1>1. CliInv /\ [Next]_vars => CliInv'
  BY StepInv
<1> QED BY InitInv, <1>1, PTL DEF Spec

-----------------------------------------------------------------------------
(* The properties of the account.                                          *)

\* Every variable keeps its type, and reconcileAccount lists one driver and
\* removes one machine at a time.
THEOREM TypeCorrect == Spec => []TypeOK
<1>1. CliInv => TypeOK
  BY DEF CliInv
<1> QED BY Consistent, <1>1, PTL

\* The profile of a binary has one writer: only the head of the queue runs a
\* command (ensurePrepared under preparationLocks), and a call waits for its end.
THEOREM ProfileOwned == Spec => []ProfileHasOneOwner
<1>1. CliInv => ProfileHasOneOwner
  <2> SUFFICES ASSUME CliInv, NEW d \in Drivers, task[d] \in {"login", "verify"}
               PROVE  /\ \A e \in Drivers \ {d} : task[e] \notin {"login", "verify"}
                      /\ \E c \in Callers : driverOf[c] = d /\ pc[c] \in {"preparing", "draining"}
    BY DEF ProfileHasOneOwner
  <2>1. \A e \in Drivers : task[e] \in {"login", "verify"} => lock[1] = e
    BY DEF CliInv, PreparationInv, QueueConsistent
  <2>2. \A e \in Drivers \ {d} : task[e] \notin {"login", "verify"}
    BY <2>1
  <2>3. InFlight(d)
    BY DEF InFlight
  <2>4. \E c \in Callers : driverOf[c] = d /\ pc[c] \in {"preparing", "draining"}
    BY <2>3 DEF CliInv, PreparationInv, WaitersConsistent
  <2> QED BY <2>2, <2>4
<1> QED BY Consistent, <1>1, PTL

\* No waiter of ensurePreparedOnce fails because another call gave up.
THEOREM FailuresOwn == Spec => []FailuresAreOwn
<1>1. CliInv => FailuresAreOwn
  BY DEF CliInv, PreparationInv
<1> QED BY Consistent, <1>1, PTL

\* Whoever waits for a login, for the end of a cancelled one or for its child,
\* has its driver in the queue, and whoever heads the queue is at work on its turn.
NobodyIsStranded ==
    /\ \A c \in Callers : pc[c] \in {"preparing", "draining", "retiring"} =>
         \E i \in 1..Len(lock) : lock[i] = driverOf[c]
    /\ lock # <<>> => InFlight(lock[1])

\* preparationLocks never holds a place for a task that has ended, nor does a call
\* of ensurePreparedOnce wait for a task that is not in the queue: what is left for
\* a call to come to its end is that commands do (CallsSettle).
THEOREM NobodyStranded == Spec => []NobodyIsStranded
<1>1. CliInv => NobodyIsStranded
  <2> SUFFICES ASSUME CliInv PROVE NobodyIsStranded
    OBVIOUS
  <2>1. \A c \in Callers : driverOf[c] \in Drivers
    BY DEF CliInv, TypeOK, PreparationTypeOK
  <2>2. \A c \in Callers : pc[c] \in {"preparing", "draining", "retiring"} => InFlight(driverOf[c])
    BY DEF CliInv, PreparationInv, WaitersConsistent
  <2>3. \A c \in Callers : pc[c] \in {"preparing", "draining", "retiring"} =>
          \E i \in 1..Len(lock) : lock[i] = driverOf[c]
    BY <2>1, <2>2 DEF CliInv, PreparationInv, QueueConsistent
  <2>4. lock # <<>> => lock[1] \in Drivers /\ 1 \in 1..Len(lock)
    <3>1. lock \in Seq(Drivers)
      BY DEF CliInv, TypeOK, PreparationTypeOK
    <3> QED BY <3>1
  <2>5. lock # <<>> => InFlight(lock[1])
    BY <2>4 DEF CliInv, PreparationInv, QueueConsistent
  <2> QED BY <2>3, <2>5 DEF NobodyIsStranded
<1> QED BY Consistent, <1>1, PTL

\* An ordinary error of create and a cleanup that succeeded leave nothing behind,
\* and no cleanup command runs beside an older child of its call.
THEOREM CleanIsAbsent == Spec => []CleanMeansAbsent
<1>1. CliInv => CleanMeansAbsent
  <2> SUFFICES ASSUME CliInv, NEW c \in Callers
               PROVE  /\ pc[c] \in {"failed", "clean"} /\ ~early[c] =>
                           machine[c] \in {"none", "leaving", "gone"}
                      /\ pc[c] \in {"looking", "deleting", "missed", "clean"} => ~polling[c]
    BY DEF CleanMeansAbsent
  <2>1. CallConsistent(c)
    BY DEF CliInv, CreateInv
  <2> QED BY <2>1 DEF CallConsistent, Unsent
<1> QED BY Consistent, <1>1, PTL

\* An account that reconcileAccount admits has nothing left of what it must clear.
THEOREM SettledIsClear == Spec => []SettledMeansClear
<1>1. CliInv => SettledMeansClear
  <2> SUFFICES ASSUME CliInv, stage = "settled",
                      NEW r \in standing, r \in ours \/ scope = "account", Running(r)
               PROVE  FALSE
    BY DEF SettledMeansClear
  <2>1. r \in Machines /\ MustShow(r)
    BY DEF CliInv, TypeOK, ReconcileTypeOK, MustShow
  <2>2. worker = "admission"
    BY DEF CliInv, TypeOK, WorkerConsistent
  <2>3. PICK d \in Drivers : r \in view[d]
    BY <2>1, <2>2 DEF CliInv, WorkerConsistent
  <2>4. d \notin accepted
    BY <2>1, <2>3 DEF CliInv, ReconcileInv, NothingOverlooked
  <2>5. accepted = Drivers
    BY DEF CliInv, ReconcileInv, RemovalConsistent
  <2> QED BY <2>3, <2>4, <2>5
<1> QED BY Consistent, <1>1, PTL

\* No machine is destroyed that is not ours, and none before every driver's
\* inventory was accepted.
THEOREM DestroysAuthorized == Spec => []DestroysAreAuthorized
<1>1. CliInv => DestroysAreAuthorized
  BY DEF CliInv, ReconcileInv, RemovalConsistent, DestroysAreAuthorized
<1> QED BY Consistent, <1>1, PTL

-----------------------------------------------------------------------------
(* What a caller is promised.                                              *)

PortStep(c) == [Port(c)!Next]_(Port(c)!vars)

\* A step that the port does not see.
LEMMA PortStutters ==
  ASSUME NEW c \in Callers, pc'[c] = pc[c], early'[c] = early[c], machine'[c] = machine[c]
  PROVE  PortStep(c)
BY DEF PortStep, Port!vars, CreateOf, SessionOf

LEMMA PreparationKeepsPort ==
  ASSUME CreateInv, NEW c \in Callers, Moves(c), UNCHANGED <<createVars, machine>>
  PROVE  PortStep(c)
<1>1. pc'[c] = pc[c] => PortStep(c)
  BY PortStutters DEF createVars
<1>2. SessionOf(c)' = SessionOf(c) /\ (pc[c] \in Unsent => SessionOf(c) = "none")
  BY DEF CreateInv, CallConsistent, SessionOf
<1>3. CASE pc[c] = "arriving" /\ pc'[c] \in {"prepared", "preparing", "failed"}
  <2>1. CreateOf(c) = "idle" /\ CreateOf(c)' \in {"pending", "rejected"}
    BY <1>3 DEF CreateOf
  <2> QED BY <1>2, <2>1 DEF PortStep, Port!Next, Port!Ask
<1>4. CASE \/ pc[c] = "preparing" /\ pc'[c] = "failed"
           \/ pc[c] = "draining" /\ pc'[c] = "failed"
  <2>1. CreateOf(c) = "pending" /\ CreateOf(c)' = "rejected" /\ SessionOf(c) = "none"
    BY <1>2, <1>4 DEF CreateOf, Unsent
  <2> QED BY <1>2, <2>1 DEF PortStep, Port!Next, Port!Decide
<1>5. CASE pc[c] = "retiring" /\ pc'[c] = "failed"
  <2>1. CreateOf(c) = "idle" /\ CreateOf(c)' = "rejected"
    BY <1>5 DEF CreateOf
  <2> QED BY <1>2, <2>1 DEF PortStep, Port!Next, Port!Ask
<1>6. CASE \/ pc[c] = "arriving" /\ pc'[c] = "retiring"
           \/ pc[c] = "retiring" /\ pc'[c] = "arriving"
           \/ pc[c] = "preparing" /\ pc'[c] \in {"prepared", "draining"}
  <2>1. CreateOf(c)' = CreateOf(c)
    BY <1>6 DEF CreateOf
  <2> QED BY <1>2, <2>1 DEF PortStep, Port!vars
<1> QED BY <1>1, <1>3, <1>4, <1>5, <1>6 DEF Moves

LEMMA CreateKeepsPort ==
  ASSUME PreparationTypes, CallTypes, CreateInv, NEW c \in Callers,
         \/ Create(c) \/ ReadinessEnds(c) \/ DestroysSession(c) \/ Expires(c)
  PROVE  PortStep(c)
<1>0. /\ pc \in [Callers -> Place]
      /\ machine \in [Machines -> MachineState]
      /\ c \in Machines
  BY CallersAreMachines DEF CallTypes, CreateTypeOK, PreparationTypes
<1>a. CallConsistent(c)
  BY DEF CreateInv
<1>b. NextAfterFailure(c) \in {"retained", "looking"}
  BY DEF NextAfterFailure
<1>c. ASSUME CreateOf(c) = "pending", CreateOf(c)' = "recoverable", SessionOf(c)' = SessionOf(c)
      PROVE  PortStep(c)
  BY <1>c DEF PortStep, Port!Next, Port!Retain
<1>1. CASE SendsCreate(c)
  <2>1. pc[c] = "prepared" /\ pc'[c] = "creating" /\ machine[c] = "none" /\ machine'[c] = "sent"
    BY <1>0, <1>1, <1>a DEF SendsCreate, Goes, Becomes, CallConsistent, Unsent
  <2> QED BY <2>1 DEF PortStep, Port!vars, CreateOf, SessionOf
<1>2. CASE NeverSends(c) \/ CreateFails(c) \/ PollIsReaped(c)
  <2>1. /\ pc[c] \in {"prepared", "creating", "reaping"} /\ pc'[c] \in {"retained", "looking"}
        /\ UNCHANGED machine
    BY <1>0, <1>2, <1>b DEF NeverSends, CreateFails, PollIsReaped, Goes
  <2>2. /\ CreateOf(c) = "pending" /\ CreateOf(c)' = "recoverable"
        /\ SessionOf(c)' = SessionOf(c)
    BY <2>1 DEF CreateOf, SessionOf
  <2> QED BY <2>2, <1>c
<1>3. CASE CreateExits(c)
  <2>1. pc[c] = "creating" /\ pc'[c] = "polling" /\ UNCHANGED machine
    BY <1>0, <1>3 DEF CreateExits, Goes
  <2> QED BY <2>1 DEF PortStep, Port!vars, CreateOf, SessionOf
<1>4. CASE PollStarts(c) \/ Expires(c)
  BY <1>4, PortStutters DEF PollStarts, Expires, createVars
<1>5. CASE PollAnswers(c)
  <2>1. pc[c] = "polling" /\ UNCHANGED <<early, machine>>
    BY <1>5 DEF PollAnswers
  <2>2. CASE UNCHANGED pc
    BY <2>1, <2>2, PortStutters
  <2>3. CASE Goes(c, "session") /\ Running(c)
    <3>1. CreateOf(c) = "pending" /\ CreateOf(c)' = "handle"
      BY <1>0, <2>1, <2>3 DEF Goes, CreateOf
    <3>2. SessionOf(c) # "none" /\ SessionOf(c)' = SessionOf(c)
      BY <2>1, <2>3 DEF Running, SessionOf
    <3> QED BY <3>1, <3>2 DEF PortStep, Port!Next, Port!Return
  <2>4. CASE Goes(c, NextAfterFailure(c))
    <3>1. pc'[c] \in {"retained", "looking"}
      BY <1>0, <1>b, <2>4 DEF Goes
    <3>2. /\ CreateOf(c) = "pending" /\ CreateOf(c)' = "recoverable"
          /\ SessionOf(c)' = SessionOf(c)
      BY <2>1, <3>1 DEF CreateOf, SessionOf
    <3> QED BY <3>2, <1>c
  <2> QED BY <1>5, <2>2, <2>3, <2>4 DEF PollAnswers
<1>6. CASE ReadinessEnds(c)
  <2>1. /\ pc[c] = "polling" /\ pc'[c] \in {"reaping", "retained", "looking"}
        /\ UNCHANGED machine
    BY <1>0, <1>6, <1>b DEF ReadinessEnds, Goes
  <2>2. CreateOf(c) = "pending" /\ SessionOf(c)' = SessionOf(c)
    BY <2>1 DEF CreateOf, SessionOf
  <2>3. CASE pc'[c] = "reaping"
    BY <2>2, <2>3 DEF PortStep, Port!vars, CreateOf
  <2>4. CASE pc'[c] # "reaping"
    <3>1. CreateOf(c)' = "recoverable"
      BY <2>1, <2>4 DEF CreateOf
    <3> QED BY <2>2, <3>1, <1>c
  <2> QED BY <2>3, <2>4
<1>7. CASE DestroysSession(c)
  <2>1. /\ pc[c] = "session" /\ pc'[c] \in {"session", "destroyed"}
        /\ \/ machine'[c] = machine[c]
           \/ machine[c] = "listed" /\ machine'[c] = "leaving"
    BY <1>0, <1>7 DEF DestroysSession, Goes, MayDelete, Deletes, Becomes
  <2>2. CreateOf(c) = "handle" /\ CreateOf(c)' = "handle"
    BY <2>1 DEF CreateOf
  <2>3. CASE machine'[c] = machine[c]
    BY <2>2, <2>3 DEF PortStep, Port!vars, SessionOf
  <2>4. CASE machine[c] = "listed" /\ machine'[c] = "leaving"
    <3>1. SessionOf(c) = "live" /\ SessionOf(c)' = "gone"
      BY <2>4 DEF SessionOf
    <3> QED BY <2>2, <3>1 DEF PortStep, Port!Next, Port!Remove
  <2> QED BY <2>1, <2>3, <2>4
<1> QED BY <1>1, <1>2, <1>3, <1>4, <1>5, <1>6, <1>7 DEF Create

LEMMA CleanupKeepsPort ==
  ASSUME PreparationTypes, CallTypes, CreateInv, NEW c \in Callers,
         Cleanup(c) \/ RetriesCleanup(c) \/ HorizonPasses(c)
  PROVE  PortStep(c)
<1>0. /\ pc \in [Callers -> Place] /\ early \in [Callers -> BOOLEAN]
      /\ machine \in [Machines -> MachineState]
      /\ c \in Machines
  BY CallersAreMachines DEF CallTypes, CreateTypeOK, PreparationTypes
<1>a. CallConsistent(c)
  BY DEF CreateInv
<1> DEFINE Owed == {"looking", "deleting", "missed", "waiting", "retained"}
<1>b. pc[c] \in Owed => CreateOf(c) = "recoverable"
  BY DEF CreateOf
<1>c. pc'[c] \in Owed => CreateOf(c)' = "recoverable"
  BY DEF CreateOf
<1>1. CASE \/ LookupMisses(c) \/ LookupFinds(c) \/ DeleteMisses(c) \/ WaitEnds(c)
           \/ RetriesCleanup(c)
  <2>1. pc[c] \in Owed /\ pc'[c] \in Owed /\ UNCHANGED machine
    BY <1>0, <1>1 DEF LookupMisses, LookupFinds, DeleteMisses, WaitEnds, RetriesCleanup, Goes
  <2> QED BY <1>b, <1>c, <2>1 DEF PortStep, Port!vars, SessionOf
<1>2. CASE HorizonPasses(c)
  BY <1>2, PortStutters DEF HorizonPasses
<1>3. CASE AbsenceAnswers(c)
  <2>1. /\ pc[c] = "missed" /\ UNCHANGED <<early, machine>>
        /\ missing[c] = "ripe" => pc'[c] = "clean"
        /\ missing[c] # "ripe" => pc'[c] \in {"retained", "waiting"}
    BY <1>0, <1>3 DEF AbsenceAnswers, Goes
  <2>2. CreateOf(c) = "recoverable" /\ SessionOf(c)' = SessionOf(c)
    BY <1>b, <2>1 DEF SessionOf
  <2>3. CASE missing[c] = "ripe" /\ ~early[c]
    <3>1. CreateOf(c)' = "cleaned"
      BY <2>1, <2>3 DEF CreateOf
    <3>2. SessionOf(c) # "live"
      BY <1>a, <2>1, <2>3 DEF CallConsistent, SessionOf
    <3> QED BY <2>2, <3>1, <3>2 DEF PortStep, Port!Next, Port!Decide
  <2>4. CASE missing[c] # "ripe" \/ early[c]
    <3>1. CreateOf(c)' = "recoverable"
      BY <2>1, <2>4 DEF CreateOf
    <3> QED BY <2>2, <3>1 DEF PortStep, Port!vars
  <2> QED BY <2>3, <2>4
<1>4. CASE DeleteSucceeds(c)
  <2>1. /\ pc[c] = "deleting" /\ pc'[c] = "clean" /\ UNCHANGED early
        /\ machine'[c] = IF machine[c] = "listed" THEN "leaving" ELSE machine[c]
    BY <1>0, <1>4 DEF DeleteSucceeds, Deletes, Becomes, Goes, createVars
  <2>2. ~early[c] /\ machine[c] \in {"listed", "leaving", "gone"}
    BY <1>a, <2>1 DEF CallConsistent
  <2>3. CreateOf(c) = "recoverable" /\ CreateOf(c)' = "cleaned"
    BY <1>b, <2>1, <2>2 DEF CreateOf
  <2>4. /\ SessionOf(c)' = "gone"
        /\ SessionOf(c) = "live" \/ SessionOf(c) = "gone"
    BY <2>1, <2>2 DEF SessionOf
  <2> QED BY <2>3, <2>4 DEF PortStep, Port!Next, Port!Decide
<1>5. CASE CleanupFails(c)
  <2>1. /\ pc[c] \in Owed /\ pc'[c] \in Owed
        /\ \/ machine'[c] = machine[c]
           \/ machine[c] = "listed" /\ machine'[c] = "leaving"
    BY <1>0, <1>5 DEF CleanupFails, Goes, MayDelete, Deletes, Becomes
  <2>2. CreateOf(c) = "recoverable" /\ CreateOf(c)' = "recoverable"
    BY <1>b, <1>c, <2>1
  <2>3. CASE machine'[c] = machine[c]
    BY <2>2, <2>3 DEF PortStep, Port!vars, SessionOf
  <2>4. CASE machine[c] = "listed" /\ machine'[c] = "leaving"
    <3>1. SessionOf(c) = "live" /\ SessionOf(c)' = "gone"
      BY <2>4 DEF SessionOf
    <3> QED BY <2>2, <3>1 DEF PortStep, Port!Next, Port!Remove
  <2> QED BY <2>1, <2>3, <2>4
<1> QED BY <1>1, <1>2, <1>3, <1>4, <1>5 DEF Cleanup

\* A machine appears only for a call that has not been told that there is none.
LEMMA VendorKeepsPort ==
  ASSUME CreateInv, CallTypes, NEW c \in Callers, NEW r \in Machines,
         Arrives(r) \/ Departs(r), UNCHANGED callVars
  PROVE  PortStep(c)
<1>0. /\ UNCHANGED <<pc, early>> /\ CallConsistent(c)
      /\ machine \in [Machines -> MachineState] /\ c \in Machines
      /\ pc \in [Callers -> Place]
  BY CallersAreMachines DEF callVars, createVars, CreateInv, CallTypes, CreateTypeOK
<1>1. CreateOf(c)' = CreateOf(c)
  BY <1>0 DEF CreateOf
<1>2. CASE r # c
  <2>1. machine'[c] = machine[c]
    BY <1>0, <1>2 DEF Arrives, Departs, Becomes
  <2> QED BY <1>0, <2>1, PortStutters
<1>3. CASE r = c /\ Arrives(r)
  <2>1. machine[c] = "sent" /\ machine'[c] \in {"listed", "none"}
    BY <1>0, <1>3 DEF Arrives, Becomes
  <2>2. CASE machine'[c] = "none"
    BY <1>1, <2>1, <2>2 DEF PortStep, Port!vars, SessionOf
  <2>3. CASE machine'[c] = "listed"
    <3>1. SessionOf(c) = "none" /\ SessionOf(c)' = "live"
      BY <2>1, <2>3 DEF SessionOf
    <3>2. CreateOf(c) \in {"pending", "recoverable"}
      BY <1>0, <2>1 DEF CallConsistent, CreateOf, Unsent, Place
    <3> QED BY <1>1, <3>1, <3>2 DEF PortStep, Port!Next, Port!Allocate
  <2> QED BY <2>1, <2>2, <2>3
<1>4. CASE r = c /\ Departs(r)
  <2>1. machine[c] \in {"listed", "leaving"} /\ machine'[c] = "gone"
    BY <1>0, <1>4 DEF Departs, Running, Becomes
  <2>2. CASE machine[c] = "leaving"
    BY <1>1, <2>1, <2>2 DEF PortStep, Port!vars, SessionOf
  <2>3. CASE machine[c] = "listed"
    <3>1. SessionOf(c) = "live" /\ SessionOf(c)' = "gone"
      BY <2>1, <2>3 DEF SessionOf
    <3> QED BY <1>1, <3>1 DEF PortStep, Port!Next, Port!Remove
  <2> QED BY <2>1, <2>2, <2>3
<1> QED BY <1>2, <1>3, <1>4

LEMMA CallKeepsPort ==
  ASSUME CliInv, CliNext, NEW c \in Callers
  PROVE  PortStep(c)
<1>0. PreparationTypes /\ CallTypes /\ PreparationInv /\ CreateInv
  BY DEF CliInv, TypeOK, PreparationTypes, CallTypes, CreateTypeOK
<1>1. ASSUME NEW k \in Callers, Prepares(k)
      PROVE  PortStep(c)
  <2>1. Moves(c)
    BY <1>0, <1>1, CallPrepares DEF Prepares
  <2> QED BY <1>0, <1>1, <2>1, PreparationKeepsPort DEF Prepares
<1>2. ASSUME NEW k \in Callers,
             \/ Create(k) \/ ReadinessEnds(k) \/ DestroysSession(k) \/ Expires(k)
             \/ Cleanup(k) \/ RetriesCleanup(k) \/ HorizonPasses(k)
      PROVE  PortStep(c)
  <2>1. CASE k = c
    BY <1>0, <1>2, <2>1, CreateKeepsPort, CleanupKeepsPort
  <2>2. CASE k # c
    <3>1. CallSteps(k)
      BY <1>0, <1>2, CreateStep, CleanupStep
    <3>2. CallUnchanged(c)
      BY <2>2, <3>1 DEF CallSteps
    <3> QED BY <3>2, PortStutters DEF CallUnchanged
  <2> QED BY <2>1, <2>2
<1>3. ASSUME NEW d \in Drivers, TaskStep(d)
      PROVE  PortStep(c)
  <2>1. Moves(c)
    BY <1>0, <1>3, TaskPrepares DEF TaskStep
  <2> QED BY <1>0, <1>3, <2>1, PreparationKeepsPort DEF TaskStep
<1> QED BY <1>1, <1>2, <1>3 DEF CliNext, CallerStep

\* Every step of a living process, and every step of the vendor meanwhile, is one
\* the executor is promised of a driver's create, or none.
THEOREM PortKept == Spec => CallsKeepPort
<1>1. Init => \A c \in Callers : Port(c)!Init
  BY CallersAreMachines DEF Init, PreparationInit, Port!Init, CreateOf, SessionOf
<1>2. CliInv /\ [Next]_vars =>
        (worker' = "benchmark" => \A c \in Callers : [Port(c)!Next]_(Port(c)!vars))
  <2> SUFFICES ASSUME CliInv, [Next]_vars, worker' = "benchmark", NEW c \in Callers
               PROVE  PortStep(c)
    BY DEF PortStep
  <2>1. CASE CliNext
    BY <2>1, CallKeepsPort
  <2>2. CASE Vendor
    <3>1. CreateInv /\ CallTypes
      BY DEF CliInv, TypeOK, CallTypes
    <3> QED BY <2>2, <3>1, VendorKeepsPort DEF Vendor
  <2>3. CASE UNCHANGED vars
    BY <2>3, PortStutters DEF vars, callVars, createVars
  <2>4. CASE ProcessEnds \/ NextWorker \/ (worker = "admission" /\ UNCHANGED worker)
    BY <2>4 DEF ProcessEnds, NextWorker
  <2> QED BY <2>1, <2>2, <2>3, <2>4 DEF Next
<1> QED BY <1>1, <1>2, Consistent, PTL DEF Spec, CallsKeepPort

-----------------------------------------------------------------------------
(* A verdict outlives the process.                                         *)

\* The verdicts of create by which its caller takes the intent for unallocated.
Rejected(c) == pc[c] = "failed" \/ (pc[c] = "clean" /\ ~early[c])

NoMachine(c) == machine[c] \in {"none", "leaving", "gone"}

\* A call that will send nothing any more has no machine, nor a request on its way.
NothingOf(c) ==
    /\ pc[c] \in {"failed", "clean", "retained", "looking", "deleting", "missed", "waiting"}
    /\ NoMachine(c)

LEMMA SendsNoMore ==
  ASSUME PreparationTypes, CallTypes, NEW c \in Callers, NothingOf(c),
         \/ Create(c) \/ ReadinessEnds(c) \/ DestroysSession(c) \/ Expires(c)
         \/ Cleanup(c) \/ RetriesCleanup(c) \/ HorizonPasses(c)
  PROVE  NothingOf(c)'
<1>0. /\ pc \in [Callers -> Place] /\ machine \in [Machines -> MachineState]
      /\ c \in Machines
  BY CallersAreMachines DEF CallTypes, CreateTypeOK, PreparationTypes
<1>1. CASE \/ HorizonPasses(c) \/ Expires(c)
  BY <1>1 DEF HorizonPasses, Expires, NothingOf, NoMachine
<1>2. CASE \/ LookupMisses(c) \/ AbsenceAnswers(c) \/ LookupFinds(c) \/ DeleteMisses(c)
           \/ WaitEnds(c) \/ RetriesCleanup(c)
  BY <1>0, <1>2 DEF LookupMisses, AbsenceAnswers, LookupFinds, DeleteMisses, WaitEnds,
       RetriesCleanup, Goes, NothingOf, NoMachine
<1>3. CASE DeleteSucceeds(c) \/ CleanupFails(c)
  BY <1>0, <1>3 DEF DeleteSucceeds, CleanupFails, MayDelete, Deletes, Becomes, Goes, NothingOf,
       NoMachine
<1>4. ~Create(c) /\ ~ReadinessEnds(c) /\ ~DestroysSession(c)
  BY DEF NothingOf, Create, SendsCreate, NeverSends, CreateExits, CreateFails, PollStarts,
       PollAnswers, PollIsReaped, ReadinessEnds, DestroysSession
<1> QED BY <1>1, <1>2, <1>3, <1>4 DEF Cleanup

LEMMA NothingComesBack ==
  ASSUME CliInv, [Next]_vars, NEW c \in Callers, NothingOf(c)
  PROVE  NothingOf(c)'
<1>0. /\ PreparationTypes /\ CallTypes /\ PreparationInv /\ CreateInv
      /\ ReconcileTypes /\ ReconcileInv /\ machine \in [Machines -> MachineState]
      /\ c \in Machines
  BY CallersAreMachines
     DEF CliInv, TypeOK, PreparationTypes, CallTypes, CreateTypeOK, ReconcileTypes, ReconcileTypeOK
<1>a. ASSUME MachinesMove, UNCHANGED pc
      PROVE  NothingOf(c)'
  BY <1>0, <1>a DEF MachinesMove, MachineMoves, NothingOf, NoMachine
<1>1. CASE CliNext
  <2>1. ASSUME NEW k \in Callers, Prepares(k)
        PROVE  NothingOf(c)'
    <3>1. Moves(c) /\ UNCHANGED machine
      BY <1>0, <2>1, CallPrepares DEF Prepares
    <3> QED BY <3>1 DEF Moves, NothingOf, NoMachine
  <2>2. ASSUME NEW k \in Callers,
               \/ Create(k) \/ ReadinessEnds(k) \/ DestroysSession(k) \/ Expires(k)
               \/ Cleanup(k) \/ RetriesCleanup(k) \/ HorizonPasses(k)
        PROVE  NothingOf(c)'
    <3>1. CASE k = c
      BY <1>0, <2>2, <3>1, SendsNoMore
    <3>2. CASE k # c
      <4>1. CallSteps(k)
        BY <1>0, <2>2, CreateStep, CleanupStep
      <4> QED BY <3>2, <4>1 DEF CallSteps, CallUnchanged, NothingOf, NoMachine
    <3> QED BY <3>1, <3>2
  <2>3. ASSUME NEW d \in Drivers, TaskStep(d)
        PROVE  NothingOf(c)'
    <3>1. Moves(c) /\ UNCHANGED machine
      BY <1>0, <2>3, TaskPrepares DEF TaskStep
    <3> QED BY <3>1 DEF Moves, NothingOf, NoMachine
  <2> QED BY <1>1, <2>1, <2>2, <2>3 DEF CliNext, CallerStep
<1>2. CASE ProcessEnds
  BY <1>2 DEF ProcessEnds, NothingOf, NoMachine
<1>3. CASE NextWorker
  BY <1>0, <1>3 DEF NextWorker, Strays, NothingOf, NoMachine
<1>4. CASE Reconcile /\ UNCHANGED callVars
  BY <1>0, <1>4, <1>a, ReconcileStep DEF callVars
<1>5. CASE Vendor
  BY <1>0, <1>5, <1>a, VendorMoves DEF Vendor, callVars
<1>6. CASE UNCHANGED vars
  BY <1>6 DEF vars, callVars, NothingOf, NoMachine
<1> QED BY <1>1, <1>2, <1>3, <1>4, <1>5, <1>6 DEF Next

\* Once a create of a command-line driver failed with an ordinary error, or its
\* cleanup succeeded, its machine is not there and never appears, in the life of
\* the process and after it: its intent may be released as not allocated
\* (execute-experiment.ts:209-210).
THEOREM RejectionIsFinal ==
  ASSUME NEW CONSTANT c \in Callers
  PROVE  Spec => [](Rejected(c) => []NoMachine(c))
<1>1. CliInv /\ Rejected(c) => NothingOf(c)
  BY DEF CliInv, CreateInv, CallConsistent, Unsent, Rejected, NothingOf, NoMachine
<1>2. CliInv /\ [Next]_vars /\ NothingOf(c) => NothingOf(c)'
  BY NothingComesBack
<1>3. NothingOf(c) => NoMachine(c)
  BY DEF NothingOf
<1> QED BY <1>1, <1>2, <1>3, Consistent, PTL DEF Spec
=============================================================================
