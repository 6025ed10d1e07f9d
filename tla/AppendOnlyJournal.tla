------------------------- MODULE AppendOnlyJournal -------------------------
(***************************************************************************)
(* What githubAccountJournal promises its callers: a log of immutable      *)
(* records that only grows, in which an acknowledged append is found       *)
(* forever.  An append that was not acknowledged may be there or not.      *)
(*                                                                         *)
(* Abstract specification of the AccountJournal of                         *)
(* apps/cli/src/lib/account-journal.ts.                                    *)
(***************************************************************************)
EXTENDS Sequences, SequencesExt

CONSTANT Record

VARIABLES
  log,           \* the records, oldest first
  acknowledged   \* records whose append was reported as done

Init == log = <<>> /\ acknowledged = {}

\* Acknowledging an append settles whatever is in the log by then.
Settles == acknowledged \subseteq acknowledged' /\ acknowledged' \subseteq Range(log')

\* A record lands; its append is acknowledged at once, later or never.
Land(r) == r \notin Range(log) /\ log' = Append(log, r) /\ Settles

Acknowledge == UNCHANGED log /\ Settles

Next == Acknowledge \/ \E r \in Record : Land(r)

Spec == Init /\ [][Next]_<<log, acknowledged>>
=============================================================================
