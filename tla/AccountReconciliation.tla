----------------------- MODULE AccountReconciliation -----------------------
(***************************************************************************)
(* reconcileAccount (apps/cli/src/lib/account-reconciliation.ts): every    *)
(* driver of an account is inspected before anything is destroyed, what is *)
(* ours is destroyed and observed gone, and a second inspection must find  *)
(* nothing, or the account admits no allocation.                           *)
(*                                                                         *)
(* A listing is read page by page (drainPages), one machine a page; a      *)
(* machine that appears behind the cursor is not in it.                    *)
(***************************************************************************)
EXTENDS VendorAccount, Naturals, FiniteSets

VARIABLES
    stage,     \* where reconcileAccount is
    listing,   \* the drivers whose listing is under way: at most one
    unread,    \* the machines its cursor has not passed
    found,     \* snapshot.owned of each driver, less what was removed
    foreign,   \* snapshot.foreignCount > 0 in the listing under way
    accepted,  \* the drivers whose listing of this inspection was accepted
    target,    \* the driver and the machine of the removal under way: at most one
    standing,  \* history: what ran when the second inspection began
    (* the account *)
    ours,      \* machines the benchmark owns
    view,      \* the machines each driver's listing covers
    scope      \* accountInventoryScope

inspectionVars == <<listing, unread, found, foreign, accepted>>
accountVars == <<ours, view, scope>>
reconcileVars == <<stage, inspectionVars, target, standing, accountVars>>

Stage == {"idle", "inspecting", "removing", "observing", "confirming", "settled", "refused"}

ReconcileTypeOK ==
    /\ stage \in Stage
    /\ listing \in SUBSET Drivers /\ Cardinality(listing) <= 1
    /\ unread \in SUBSET Machines
    /\ found \in [Drivers -> SUBSET Machines]
    /\ foreign \in BOOLEAN
    /\ accepted \in SUBSET Drivers
    /\ target \in SUBSET (Drivers \X Machines) /\ Cardinality(target) <= 1
    /\ standing \in SUBSET Machines
    /\ ours \in SUBSET Machines
    /\ view \in [Drivers -> SUBSET Machines]
    /\ scope \in {"account", "benchmark"}

Inspection(next) ==
    /\ stage' = next
    /\ accepted' = {}
    /\ listing' = {} /\ unread' = {} /\ foreign' = FALSE
    /\ found' = [d \in Drivers |-> {}]
    /\ target' = {}
    /\ UNCHANGED <<accountVars, machine>>

\* An admission begins; a refused one is tried again by a later worker.
Begins ==
    /\ stage \in {"idle", "refused"}
    /\ Inspection("inspecting")
    /\ standing' = {}

-----------------------------------------------------------------------------
(* list                                                                    *)

Inspecting == stage \in {"inspecting", "confirming"}

\* Mutant: the drivers are listed in parallel into one cursor.
ListsInParallel(d) ==
    /\ Inspecting
    /\ d \notin accepted
    /\ listing' = listing \cup {d}
    /\ unread' = view[d]
    /\ foreign' = FALSE
    /\ UNCHANGED <<stage, found, accepted, target, standing, accountVars, machine>>

ListBegins(d) ==
    /\ Inspecting
    /\ listing = {}
    /\ d \notin accepted
    /\ listing' = {d}
    /\ unread' = view[d]
    /\ foreign' = FALSE
    /\ UNCHANGED <<stage, found, accepted, target, standing, accountVars, machine>>

\* liveRecords and inventory.list: the records that are not gone, split by owner.
ReadsPage(d, r) ==
    /\ d \in listing
    /\ r \in unread
    /\ unread' = unread \ {r}
    /\ found' = IF Running(r) /\ r \in ours
                THEN [found EXCEPT ![d] = @ \cup {r}] ELSE found
    /\ foreign' = (foreign \/ (Running(r) /\ r \notin ours))
    /\ UNCHANGED <<stage, listing, accepted, target, standing, accountVars, machine>>

\* Foreign resources make an account-scoped inventory unacceptable.
Blocks == foreign /\ scope = "account"

\* Mutant: the second inspection accepts whatever it lists.
ListAcceptedAnyway(d) ==
    /\ listing = {d}
    /\ unread = {}
    /\ ~Blocks
    /\ listing' = {}
    /\ accepted' = accepted \cup {d}
    /\ UNCHANGED <<stage, unread, found, foreign, target, standing, accountVars, machine>>

\* Mutant: what one driver lists is destroyed before the others are inspected.
ListAcceptedForRemoval(d) ==
    /\ listing = {d}
    /\ unread = {}
    /\ ~Blocks
    /\ stage = "confirming" => found[d] = {}
    /\ listing' = {}
    /\ accepted' = accepted \cup {d}
    /\ stage' = IF stage = "inspecting" THEN "removing" ELSE stage
    /\ UNCHANGED <<unread, found, foreign, target, standing, accountVars, machine>>

ListAccepted(d) ==
    /\ listing = {d}
    /\ unread = {}
    /\ ~Blocks
    /\ stage = "confirming" => found[d] = {}
    /\ listing' = {}
    /\ accepted' = accepted \cup {d}
    /\ UNCHANGED <<stage, unread, found, foreign, target, standing, accountVars, machine>>

-----------------------------------------------------------------------------
(* Removal.                                                                *)

Inspected ==
    /\ stage = "inspecting"
    /\ accepted = Drivers
    /\ stage' = "removing"
    /\ UNCHANGED <<inspectionVars, target, standing, accountVars, machine>>

RequestsDestroy(d, r) ==
    /\ stage = "removing"
    /\ target = {}
    /\ r \in found[d]
    /\ target' = {<<d, r>>}
    /\ UNCHANGED <<stage, inspectionVars, standing, accountVars, machine>>

\* The delete is answered, which says nothing of its effect.
DestroyAnswers ==
    /\ stage = "removing"
    /\ \E t \in target : MayDelete(t[2])
    /\ stage' = "observing"
    /\ UNCHANGED <<inspectionVars, target, standing, accountVars>>

\* probes.observe says absent or terminal; while it says running it is asked again.
ObservesGone ==
    /\ stage = "observing"
    /\ \A t \in target : ~Running(t[2])
    /\ found' = [d \in Drivers |-> {r \in found[d] : <<d, r>> \notin target}]
    /\ target' = {}
    /\ stage' = "removing"
    /\ UNCHANGED <<listing, unread, foreign, accepted, standing, accountVars, machine>>

InspectsAgain ==
    /\ stage = "removing"
    /\ target = {}
    /\ \A d \in Drivers : found[d] = {}
    /\ Inspection("confirming")
    /\ standing' = {r \in Machines : Running(r)}

Admits ==
    /\ stage = "confirming"
    /\ accepted = Drivers
    /\ stage' = "settled"
    /\ UNCHANGED <<inspectionVars, target, standing, accountVars, machine>>

\* A failed or malformed answer, the deadline, the signal, or a listing that may
\* not be accepted.  A destroy given up on may still land.
Refuses ==
    /\ stage \in {"inspecting", "removing", "observing", "confirming"}
    /\ stage' = "refused"
    /\ \/ \E t \in target : MayDelete(t[2])
       \/ UNCHANGED machine
    /\ UNCHANGED <<inspectionVars, target, standing, accountVars>>

Reconcile ==
    \/ Begins
    \/ \E d \in Drivers : ListBegins(d) \/ ListAccepted(d)
    \/ \E d \in Drivers, r \in Machines : ReadsPage(d, r) \/ RequestsDestroy(d, r)
    \/ Inspected
    \/ DestroyAnswers
    \/ ObservesGone
    \/ InspectsAgain
    \/ Admits
    \/ Refuses

-----------------------------------------------------------------------------
(* Properties.                                                             *)

\* An account that admits allocations has nothing of the benchmark's left that
\* ran when its second inspection began, through whichever driver it is listed
\* and however late a delete landed; nor, where the whole account is the
\* benchmark's, anything of anyone's.
SettledMeansClear ==
    stage = "settled" =>
        \A r \in standing : (r \in ours \/ scope = "account") => ~Running(r)

\* Only the benchmark's own machines are destroyed, and only after every driver's
\* inventory was accepted: "an incomplete view of one variant cannot authorize
\* deleting resources found through another variant's inventory".
DestroysAreAuthorized == target # {} =>
    (\A t \in target : t[2] \in ours) /\ accepted = Drivers
=============================================================================
