----------------------- MODULE ExperimentPublication -----------------------
(***************************************************************************)
(* What a publication of an experiment may rest on: the collector of       *)
(* sealed attempts, the evaluation of their coverage and the gate of a     *)
(* publication or of a repair, over what the workers of ExperimentBatch    *)
(* leave on the account.                                                   *)
(*                                                                         *)
(* The collector lists the artifacts first and reads the journal later, and*)
(* an upload may have been lost.  Sealed attempts and records are never    *)
(* withdrawn, so a collection is any set of attempts sealed by the time the*)
(* journal is read.  Metrics are data: they can only make a cell that      *)
(* completed count as incomplete, and so make a publication rarer.         *)
(*                                                                         *)
(* Source: apps/cli/src/lib/experiment-transfer.ts, experiment-artifacts.ts*)
(* and packages/results/src/lib/experiment.ts.                             *)
(***************************************************************************)
EXTENDS ExperimentBatch

Plans       == {PlanOf[r] : r \in Run}
Planned(p)  == {a \in Attempt : PlanOf[a[1]] = p}
Sealed(p)   == {a \in Planned(p) : evidence[a] # NoEvidence}
KindsOf(a)  == {r.kind : r \in {j \in journal : j.attempt = a}}

-----------------------------------------------------------------------------
(* Collection *)

\* Mutant: the collector keeps the lost attempts that had a sandbox.
LostAllocations(p, U) == {a \in Planned(p) \ U : HasRecord(a, "allocated")}

\* Attempts of the journal with no terminal receipt: an intent.json is left in
\* the directory of each, which whoever reads the collection refuses.
Interrupted(p, U) == {a \in Planned(p) \ U : HasRecord(a, "intent")}

\* The journal shows the allocation and the removal of a completed attempt.
Backed(a) == evidence[a].outcome = "completed" => KindsOf(a) = {"intent", "allocated", "absent"}

Readable(p, U) == Interrupted(p, U) = {} /\ \A a \in U : Backed(a)

-----------------------------------------------------------------------------
(* Evaluation. The executor seals every attempt as the first of its lineage *)
(* and as not retryable, so a second attempt of a cell is unauthorized.     *)

Lineage(U, c) == {a \in U : a[2] = c}
Conflict(U, c) == Cardinality(Lineage(U, c)) > 1
Missing(U)     == {c \in Cell : Lineage(U, c) = {}}

\* Cells whose attempt confirmed its measurement and its cleanup.
Verified(U) == {c \in Cell : /\ ~Conflict(U, c)
                             /\ \E a \in Lineage(U, c) : evidence[a].outcome = "completed"
                                                         /\ evidence[a].cleanup = "confirmed"}

\* Mutant: what a failed attempt may have left does not matter to the others.
ClearOnce(U) == \A a \in U : evidence[a].outcome = "completed" =>
                               evidence[a].cleanup # "unresolved"

Clear(U) == \A a \in U : evidence[a].cleanup # "unresolved"

\* Mutant: the receipts alone decide, whatever the journal says of the others.
UnblockedByReceipts(p, U) == (\A c \in Cell : ~Conflict(U, c)) /\ Clear(U)

\* What no kind of publication and no repair tolerates.
Unblocked(p, U) == Readable(p, U) /\ (\A c \in Cell : ~Conflict(U, c)) /\ Clear(U)

Complete(U) == Verified(U) = Cell

\* aggregateExperiment on an unblocked collection, partial publication allowed.
Publishable(U) == Complete(U) \/ (Missing(U) = {} /\ Verified(U) # {})

\* aggregateRepairedExperiment, where another plan runs every cell once more: the
\* originals only have to be unblocked, the replacements V must all be there.
Repaired(V) == Missing(V) = {} /\ Verified(V) # {}

-----------------------------------------------------------------------------
(* Property *)

Accounted(p, U) == \A a \in Planned(p) : vendor[a] # "none" => a \in U /\ a \notin Held

\* "Missing evidence, conflicting provenance and unresolved allocations still
\* cannot be published" (experiment.ts:578-581), nor repaired: whatever uploads
\* were lost and whatever worker died, a collection that passes the gate holds
\* the terminal receipt of every attempt of its plan that reached the vendor, and
\* none of them still has a sandbox.
PublishedIsAccountedFor ==
  LET Collections == [p \in Plans |-> {U \in SUBSET Sealed(p) : Unblocked(p, U)}] IN
  \A p \in Plans : \A U \in Collections[p] :
    /\ Publishable(U) => Accounted(p, U)
    /\ \A q \in Plans \ {p} : \A V \in Collections[q] :
         Repaired(V) => Accounted(p, U) /\ Accounted(q, V)
=============================================================================
