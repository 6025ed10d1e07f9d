---------------------------- MODULE ProviderPort ----------------------------
(***************************************************************************)
(* What the rest of the system is promised by a driver's create, for one   *)
(* attempt: a handle, an ordinary rejection that proves nothing exists or  *)
(* ever will, or a rejection that carries the cleanup of what may exist.   *)
(***************************************************************************)
VARIABLES
    create,    \* idle, pending, handle, rejected, recoverable or cleaned
    session    \* none, live or gone: the provider's allocation

vars == <<create, session>>

Init == create = "idle" /\ session = "none"

Ask ==
    /\ create = "idle"
    /\ create' \in {"pending", "rejected"}
    /\ UNCHANGED session

\* An allocation appears only while the create is undecided.
Allocate ==
    /\ session = "none"
    /\ create \in {"pending", "recoverable"}
    /\ session' = "live"
    /\ UNCHANGED create

\* Torn down by the driver, or reclaimed by the provider.
Remove ==
    /\ session = "live"
    /\ session' = "gone"
    /\ UNCHANGED create

Return ==
    /\ create = "pending"
    /\ session # "none"
    /\ create' = "handle"
    /\ UNCHANGED session

\* Removal and the verdict that rests on it may be one step.
Decide(from, verdict) ==
    /\ create = from
    /\ create' = verdict
    /\ session' \in {session} \cup (IF session = "live" THEN {"gone"} ELSE {})
    /\ session' # "live"

Retain ==
    /\ create = "pending"
    /\ create' = "recoverable"
    /\ UNCHANGED session

Next ==
    \/ Ask \/ Allocate \/ Remove \/ Return \/ Retain
    \/ Decide("pending", "rejected") \/ Decide("recoverable", "cleaned")

Spec == Init /\ [][Next]_vars
=============================================================================
