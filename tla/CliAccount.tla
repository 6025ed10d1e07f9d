----------------------------- MODULE CliAccount -----------------------------
(***************************************************************************)
(* An account whose machines a command-line driver creates, and the        *)
(* reconciliation that must clear it before the next allocation.           *)
(*                                                                         *)
(* A benchmark process runs its calls and ends at any moment, finished or  *)
(* killed; its detached children may outlive it, so a create it sent may   *)
(* take effect during the reconciliation of the worker the account's queue *)
(* admits next.  That worker also meets a machine the driver knows nothing *)
(* of, someone else's or of an earlier path, present or still to appear.   *)
(***************************************************************************)
EXTENDS CliCreate, AccountReconciliation

ASSUME StraysExist == Callers # Machines

VARIABLE worker  \* benchmark, ended, or the next one's admission

vars == <<callVars, reconcileVars, machine, worker>>

Strays == Machines \ Callers

TypeOK ==
    /\ PreparationTypeOK
    /\ CreateTypeOK
    /\ ReconcileTypeOK
    /\ machine \in [Machines -> MachineState]
    /\ worker \in {"benchmark", "ended", "admission"}

Init ==
    /\ PreparationInit
    /\ CreateInit
    /\ machine = [r \in Machines |-> "none"]
    /\ stage = "idle"
    /\ listing = {} /\ unread = {} /\ foreign = FALSE /\ accepted = {}
    /\ found = [d \in Drivers |-> {}]
    /\ target = {} /\ standing = {}
    /\ ours = Callers
    /\ view = [d \in Drivers |-> Machines]
    /\ scope = "account"
    /\ worker = "benchmark"

\* The process ends and forgets its calls; its machines stay.
ProcessEnds ==
    /\ worker = "benchmark"
    /\ worker' = "ended"
    /\ pc' = [c \in Callers |-> "retained"]
    /\ over' = [c \in Callers |-> FALSE]
    /\ reason' = [c \in Callers |-> "none"]
    /\ task' = [d \in Drivers |-> "none"]
    /\ cancelled' = [d \in Drivers |-> FALSE]
    /\ lock' = <<>>
    /\ polling' = [c \in Callers |-> FALSE]
    /\ missing' = [c \in Callers |-> "never"]
    /\ confirming' = [c \in Callers |-> FALSE]
    /\ early' = [c \in Callers |-> FALSE]
    /\ UNCHANGED <<driverOf, machine, reconcileVars>>

\* The account is what the next worker finds: its scope, what each driver lists
\* of it, and whose the stray is.
NextWorker ==
    /\ worker = "ended"
    /\ worker' = "admission"
    /\ \E state \in {"sent", "listed"} :
         machine' = [r \in Machines |-> IF r \in Strays THEN state ELSE machine[r]]
    /\ ours' \in {Callers, Machines}
    /\ scope' \in {"account", "benchmark"}
    /\ \E shared \in BOOLEAN, d \in Drivers :
         view' = [e \in Drivers |->
                    IF shared THEN Machines
                    ELSE {c \in Callers : driverOf[c] = e} \cup (IF e = d THEN Strays ELSE {})]
    /\ driverOf' = [c \in Callers |-> CHOOSE d \in Drivers : TRUE]
    /\ UNCHANGED <<pc, over, reason, task, cancelled, lock, polling, missing, confirming, early,
                   stage, inspectionVars, target, standing>>

Vendor ==
    /\ \E r \in Machines : Arrives(r) \/ Departs(r)
    /\ UNCHANGED <<callVars, reconcileVars, worker>>

Next ==
    \/ worker = "benchmark" /\ CliNext /\ UNCHANGED <<reconcileVars, worker>>
    \/ ProcessEnds \/ NextWorker
    \/ worker = "admission" /\ Reconcile /\ UNCHANGED <<callVars, worker>>
    \/ Vendor

Spec == Init /\ [][Next]_vars /\ CliFairness

-----------------------------------------------------------------------------
(* Properties.                                                             *)

\* What a caller was told so far.  A create that cleans up after itself counts as
\* one that handed the cleanup over, and an absence that was believed too early
\* (CleanMeansAbsent) as a cleanup still owed.
CreateOf(c) ==
    CASE pc[c] \in {"arriving", "retiring"} -> "idle"
      [] pc[c] \in {"preparing", "draining", "prepared", "creating", "polling", "reaping"} ->
           "pending"
      [] pc[c] \in {"session", "destroyed"} -> "handle"
      [] pc[c] = "failed" -> "rejected"
      [] pc[c] = "clean" /\ ~early[c] -> "cleaned"
      [] OTHER -> "recoverable"

\* A machine whose deletion was accepted counts as removed.
SessionOf(c) ==
    CASE machine[c] \in {"none", "sent"} -> "none"
      [] machine[c] = "listed" -> "live"
      [] OTHER -> "gone"

Port(c) == INSTANCE ProviderPort WITH create <- CreateOf(c), session <- SessionOf(c)

\* While the process lives, each call keeps what the executor is promised of any
\* driver (execute-experiment.ts:209-210): a handle is of a machine that was
\* there, an ordinary error or a cleanup that succeeded comes when nothing is
\* left, and nothing appears after it.
CallsKeepPort ==
    /\ \A c \in Callers : Port(c)!Init
    /\ [][worker' = "benchmark" => \A c \in Callers : [Port(c)!Next]_(Port(c)!vars)]_vars

\* Every call of create settles: the cancelled login it waits for, the queue for
\* its binary's profile, the poll it drains and the cleanup it owes all end.
CallsSettle ==
    \A c \in Callers :
        pc[c] = "arriving" ~> pc[c] \in Ended
=============================================================================
