--------------------------- MODULE ProviderRemoval ---------------------------
(***************************************************************************)
(* The kit's removal of one sandbox by id (packages/driver/src/lib/        *)
(* vendor-lifecycle.ts destroy, over pollUntilReady of poll.ts): ask the   *)
(* vendor to remove it, then observe that it is gone, within one budget.   *)
(* Two removals of the same id may run at once: the session's own and a    *)
(* sweep by id.                                                            *)
(*                                                                         *)
(* External: the vendor, which acknowledges before it removes, may refuse  *)
(* for a while, may act on a request it reports as failed, and may remove  *)
(* the sandbox on its own.                                                 *)
(***************************************************************************)
EXTENDS Naturals

CONSTANT RetryTicks  \* removeRetryMs, in poll intervals

Removals == {"session", "sweep"}

VARIABLES
    vendor,     \* running, deleting or gone (external)
    pc,         \* idle, ask, read, asleep, removed or failed
    asked,      \* requested
    accepted,   \* the vendor acknowledged a request of this removal
    since,      \* poll intervals since the last request, up to RetryTicks
    seenGone    \* the id is in observedGone

vars == <<vendor, pc, asked, accepted, since, seenGone>>

TypeOK ==
    /\ vendor \in {"running", "deleting", "gone"}
    /\ pc \in [Removals -> {"idle", "ask", "read", "asleep", "removed", "failed"}]
    /\ asked \in [Removals -> BOOLEAN]
    /\ accepted \in [Removals -> BOOLEAN]
    /\ since \in [Removals -> 0..RetryTicks]
    /\ seenGone \in BOOLEAN

Init ==
    /\ vendor = "running"
    /\ pc = [r \in Removals |-> "idle"]
    /\ asked = [r \in Removals |-> FALSE]
    /\ accepted = [r \in Removals |-> FALSE]
    /\ since = [r \in Removals |-> RetryTicks]
    /\ seenGone = FALSE

\* The vendor finishes a removal it acknowledged, or reclaims the sandbox.
VendorRemoves ==
    /\ vendor # "gone"
    /\ vendor' = "gone"
    /\ UNCHANGED <<pc, asked, accepted, since, seenGone>>

-----------------------------------------------------------------------------
(* One poll.                                                               *)

\* A held session is asked for at once; everything else is looked at first.
Begins(r) ==
    /\ pc' = [pc EXCEPT ![r] = IF r = "session" /\ ~seenGone THEN "ask" ELSE "read"]
    /\ UNCHANGED <<vendor, asked, accepted, since, seenGone>>

Start(r) == pc[r] = "idle" /\ Begins(r)

\* A removal that returns or throws forgets what it asked for.
Ends(r, how) ==
    /\ pc' = [pc EXCEPT ![r] = how]
    /\ asked' = [asked EXCEPT ![r] = FALSE]
    /\ accepted' = [accepted EXCEPT ![r] = FALSE]
    /\ since' = [since EXCEPT ![r] = RetryTicks]

Done(r) == Ends(r, "removed") /\ seenGone' = TRUE

\* After a request, the first poll of remove-first reads in the same turn.
AfterRequest(r) ==
    /\ pc' = [pc EXCEPT ![r] = IF r = "session" /\ ~asked[r] THEN "read" ELSE "asleep"]
    /\ asked' = [asked EXCEPT ![r] = TRUE]
    /\ since' = [since EXCEPT ![r] = 0]
    /\ UNCHANGED seenGone

\* The vendor proves removal, its own not-found included.
RequestRemoves(r) ==
    /\ pc[r] = "ask"
    /\ vendor' = "gone"
    /\ Done(r)

\* Mutant: an acknowledgement is taken for the removal it announces.
RequestTrusted(r) ==
    /\ pc[r] = "ask"
    /\ vendor = "running"
    /\ vendor' = "deleting"
    /\ Done(r)

\* The vendor acknowledges the request; only a later read shows the removal.
RequestAccepted(r) ==
    /\ pc[r] = "ask"
    /\ vendor # "gone"
    /\ vendor' = "deleting"
    /\ accepted' = [accepted EXCEPT ![r] = TRUE]
    /\ AfterRequest(r)

\* A transient refusal, or a removal whose own lookup timed out.
RequestRefused(r) ==
    /\ pc[r] = "ask"
    /\ AfterRequest(r)
    /\ UNCHANGED <<vendor, accepted>>

\* Any other error ends the removal; the vendor may have acted on it.
RequestFails(r) ==
    /\ pc[r] = "ask"
    /\ vendor' \in {vendor, IF vendor = "running" THEN "deleting" ELSE vendor}
    /\ Ends(r, "failed")
    /\ UNCHANGED seenGone

ReadGone(r) ==
    /\ pc[r] = "read"
    /\ vendor = "gone"
    /\ Done(r)
    /\ UNCHANGED vendor

\* A removal is asked again only when none was accepted, the retry interval has
\* passed and the vendor is not already deleting.
Due(r) == ~accepted[r] /\ since[r] = RetryTicks /\ vendor # "deleting"

ReadPresent(r) ==
    /\ pc[r] = "read"
    /\ vendor # "gone"
    /\ pc' = [pc EXCEPT ![r] = IF Due(r) THEN "ask" ELSE "asleep"]
    /\ UNCHANGED <<vendor, asked, accepted, since, seenGone>>

\* The read outlived controlTimeoutMs: read again at the poll's cadence.
ReadTimesOut(r) ==
    /\ pc[r] = "read"
    /\ pc' = [pc EXCEPT ![r] = "asleep"]
    /\ UNCHANGED <<vendor, asked, accepted, since, seenGone>>

ReadFails(r) ==
    /\ pc[r] = "read"
    /\ Ends(r, "failed")
    /\ UNCHANGED <<vendor, seenGone>>

Wake(r) ==
    /\ pc[r] = "asleep"
    /\ pc' = [pc EXCEPT ![r] = "read"]
    /\ since' = [since EXCEPT ![r] = IF @ < RetryTicks THEN @ + 1 ELSE @]
    /\ UNCHANGED <<vendor, asked, accepted, seenGone>>

\* The delete budget ends, in a call or between two polls.
Expire(r) ==
    /\ pc[r] \in {"ask", "read", "asleep"}
    /\ Ends(r, "failed")
    /\ UNCHANGED <<vendor, seenGone>>

Answer(r) ==
    \/ RequestRemoves(r) \/ RequestAccepted(r) \/ RequestRefused(r)
    \/ RequestFails(r) \/ ReadGone(r) \/ ReadPresent(r) \/ ReadTimesOut(r)
    \/ ReadFails(r)

Next ==
    \/ VendorRemoves
    \/ \E r \in Removals : Start(r) \/ Answer(r) \/ Wake(r) \/ Expire(r)

Spec == Init /\ [][Next]_vars

-----------------------------------------------------------------------------
\* A removal that resolved has seen the sandbox gone: an acknowledgement, a
\* refusal or a lost answer is never taken for removal.
RemovedMeansGone == (\E r \in Removals : pc[r] = "removed") => vendor = "gone"

\* While its budget lasts, a removal that is refused for a while is asked again
\* until the sandbox is gone or the vendor rejects it for good.
RemovalPersists ==
    \A r \in Removals : (pc[r] # "idle") ~> (pc[r] \in {"removed", "failed"})
=============================================================================
