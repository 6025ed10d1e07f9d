-------------------------- MODULE OwnershipLedger --------------------------
(***************************************************************************)
(* What the batch executor promises of a vendor account: sandboxes run     *)
(* only on open entries of a ledger, at most Capacity of them at a time,   *)
(* each entry pays for one sandbox, and an entry is closed for good and    *)
(* only once its sandbox is gone.                                          *)
(*                                                                         *)
(* Abstract specification of ADR 0010, "Durable account journal            *)
(* integration"; ExperimentBatch implements it.                            *)
(***************************************************************************)
EXTENDS Naturals, FiniteSets

CONSTANTS Attempt, Capacity

VARIABLES
  open,     \* attempts whose ownership is open
  closed,   \* attempts whose ownership ended
  held,     \* attempts whose sandbox runs or may still start
  started   \* attempts that asked for a sandbox

vars == <<open, closed, held, started>>

Init == open = {} /\ closed = {} /\ held = {} /\ started = {}

Open(a) ==
  /\ a \notin open \cup closed \cup started
  /\ open' = open \cup {a}
  /\ UNCHANGED <<closed, held, started>>

Start(a) ==
  /\ a \in open \ started
  /\ Cardinality(held) < Capacity
  /\ held' = held \cup {a} /\ started' = started \cup {a}
  /\ UNCHANGED <<open, closed>>

Stop(a) ==
  /\ a \in held
  /\ held' = held \ {a}
  /\ UNCHANGED <<open, closed, started>>

Close(a) ==
  /\ a \in open \ held
  /\ open' = open \ {a} /\ closed' = closed \cup {a}
  /\ UNCHANGED <<held, started>>

Next == \E a \in Attempt : Open(a) \/ Start(a) \/ Stop(a) \/ Close(a)

Spec == Init /\ [][Next]_vars
=============================================================================
