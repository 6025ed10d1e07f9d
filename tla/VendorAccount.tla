--------------------------- MODULE VendorAccount ---------------------------
(***************************************************************************)
(* The machines of one vendor account, as its control plane shows them.    *)
(* External: the driver reaches it through a command line, the account's   *)
(* reconciliation through its drivers.                                     *)
(*                                                                         *)
(* A machine is "sent" while a create request for it may still take        *)
(* effect, "none" again if it does not, "listed" once it is allocated and  *)
(* in the listings, "leaving" while a delete that was accepted has not     *)
(* taken effect.                                                           *)
(***************************************************************************)
CONSTANTS
    Machines,
    Drivers  \* the drivers opened on the account: one, or its variants

VARIABLE machine

MachineState == {"none", "sent", "listed", "leaving", "gone"}

\* Allocated, and found by every listing that covers the machine.
Running(r) == machine[r] \in {"listed", "leaving"}

Becomes(r, state) == machine' = [machine EXCEPT ![r] = state]

\* A delete request reaches the vendor: it removes what runs.
Deletes(r) == Becomes(r, IF machine[r] = "listed" THEN "leaving" ELSE machine[r])

\* The same request when nobody learns whether it took effect.
MayDelete(r) == Deletes(r) \/ UNCHANGED machine

\* A request takes effect late, or never will.
Arrives(r) ==
    /\ machine[r] = "sent"
    /\ \E state \in {"listed", "none"} : Becomes(r, state)

\* A machine ends, deleted or on its own.
Departs(r) == Running(r) /\ Becomes(r, "gone")
=============================================================================
