--------------------------- MODULE GithubJournal ---------------------------
(***************************************************************************)
(* The account journal on a protected Git branch, written through GitHub's *)
(* Git Data API by worker processes that know nothing of one another.      *)
(* Appends of one process are serialized by `tail`; each one builds a      *)
(* commit on the journal it last acknowledged (or else read) and moves the *)
(* branch with a conditional, non-forced PATCH.  Any request may fail, a   *)
(* response may be lost, a PATCH may take effect after its client gave it  *)
(* up, a read of the branch may be stale, and a process may die.           *)
(*                                                                         *)
(* A commit is identified with the records of its journal, oldest first,   *)
(* each with the process that wrote it.                                    *)
(*                                                                         *)
(* Source: apps/cli/src/lib/github-account-journal.ts.                     *)
(***************************************************************************)
EXTENDS Naturals, Sequences, SequencesExt

CONSTANTS
  Process,   \* worker and operator processes, each with its own journal object
  Record,    \* journal records; equal ones have the same attempt and kind
  MaxTries   \* PATCH requests of one append

ASSUME MaxTriesAssumption == MaxTries \in Nat \ {0}
ASSUME RecordAssumption   == Record # {}
ASSUME ProcessAssumption  == "no" \notin Process   \* the writer NoBase names

Entry  == Process \X Record
NoBase == << <<"no", "snapshot">> >>   \* no journal acknowledged by this process yet

VARIABLES
  head,        \* the commit the branch points at
  wire,        \* commits of PATCH requests that may still take effect
  acknowledged,\* acknowledged[p]: the cached journal of process p, or NoBase
  phase,       \* phase[p]: where the append at the end of p's chain is
  record,      \* record[p]: the record it appends
  base,        \* base[p]: the journal it builds on
  tries,       \* tries[p]: its PATCH requests so far
  clean,       \* clean[p]: none of its requests failed or was answered stale,
               \* and no request of an earlier append took effect meanwhile
  appended     \* appended[p]: records p was asked to append

vars == <<head, wire, acknowledged, phase, record, base, tries, clean, appended>>

Busy   == {"starting", "committing", "patching", "checking"}
Phases == Busy \cup {"idle", "done", "failed", "dead"}
Commit(p) == Append(base[p], <<p, record[p]>>)
Records(c) == {e[2] : e \in Range(c)}

TypeOK ==
  /\ head \in Seq(Entry)
  /\ wire \subseteq Seq(Entry)
  /\ acknowledged \in [Process -> Seq(Entry) \cup {NoBase}]
  /\ phase \in [Process -> Phases]
  /\ record \in [Process -> Record]
  /\ base \in [Process -> Seq(Entry)]
  /\ tries \in [Process -> 0 .. MaxTries]
  /\ clean \in [Process -> BOOLEAN]
  /\ appended \in [Process -> SUBSET Record]

Init ==
  /\ head = <<>> /\ wire = {}
  /\ acknowledged = [p \in Process |-> NoBase]
  /\ phase = [p \in Process |-> "idle"]
  /\ record \in [Process -> {CHOOSE r \in Record : TRUE}]
  /\ base = [p \in Process |-> <<>>]
  /\ tries = [p \in Process |-> 0]
  /\ clean = [p \in Process |-> TRUE]
  /\ appended = [p \in Process |-> {}]

Goto(p, s) == phase' = [phase EXCEPT ![p] = s]
\* The append rejects because a request failed or its answer was unexpected.
Throw(p, troubled) ==
  /\ Goto(p, "failed")
  /\ clean' = [clean EXCEPT ![p] = @ /\ ~troubled]

-----------------------------------------------------------------------------
\* append(record) reaches the end of the chain: the caller never appends the
\* same record twice in one process.
Begin(p, r) ==
  /\ phase[p] \in {"idle", "done", "failed"} /\ r \notin appended[p]
  /\ Goto(p, "starting")
  /\ record' = [record EXCEPT ![p] = r]
  /\ appended' = [appended EXCEPT ![p] = @ \cup {r}]
  /\ tries' = [tries EXCEPT ![p] = 0]
  /\ clean' = [clean EXCEPT ![p] = TRUE]
  /\ UNCHANGED <<head, wire, acknowledged, base>>

\* The commits a read of the branch may report: the ref may lag behind.
Readable == {SubSeq(head, 1, n) : n \in 0 .. Len(head)}

\* Mutant: only records of this process are looked for.
AlreadyMine(p, b) == <<p, record[p]>> \in Range(b)

\* The journal holds a record of the same attempt and kind.
AlreadyThere(p, b) == record[p] \in Records(b)

\* The journal this append builds on, from the cache or from a snapshot.
BuildOn(p, b, fresh) ==
  /\ base' = [base EXCEPT ![p] = b]
  /\ IF AlreadyThere(p, b)
       THEN Goto(p, "failed")             \* immutable record already exists
       ELSE Goto(p, "committing")
  /\ clean' = [clean EXCEPT ![p] = @ /\ fresh]

UseCache(p) ==
  /\ phase[p] = "starting" /\ acknowledged[p] # NoBase
  /\ BuildOn(p, acknowledged[p], TRUE)
  /\ UNCHANGED <<head, wire, acknowledged, record, tries, appended>>

Snapshot(p) ==
  /\ phase[p] = "starting" /\ acknowledged[p] = NoBase
  /\ \/ \E b \in Readable : BuildOn(p, b, b = head)
     \/ Throw(p, TRUE) /\ UNCHANGED base
  /\ UNCHANGED <<head, wire, acknowledged, record, tries, appended>>

\* POST the tree and the commit, then send the conditional PATCH.
PostCommit(p) ==
  /\ phase[p] = "committing"
  /\ \/ /\ wire' = wire \cup {Commit(p)}
        /\ tries' = [tries EXCEPT ![p] = 1]
        /\ Goto(p, "patching")
        /\ UNCHANGED clean
     \/ Throw(p, TRUE) /\ UNCHANGED <<wire, tries>>
  /\ UNCHANGED <<head, acknowledged, record, base, appended>>

\* What the server does with a PATCH: only a child of the branch moves it.
FastForward(c) == head = Front(c)

\* The PATCH is applied, or was applied before, and its response arrives.
Acknowledged(p) ==
  /\ Goto(p, "done")
  /\ acknowledged' = [acknowledged EXCEPT ![p] = Commit(p)]
  /\ wire' = wire \ {Commit(p)}

PatchSucceeds(p) ==
  /\ phase[p] = "patching" /\ Commit(p) \in wire
  /\ \/ FastForward(Commit(p)) /\ head' = Commit(p)
     \/ IsPrefix(Commit(p), head) /\ UNCHANGED head
  /\ Acknowledged(p)
  /\ UNCHANGED <<record, base, tries, clean, appended>>

\* A PATCH takes effect while its response is lost or no longer awaited.
PatchLands(c) ==
  /\ c \in wire /\ FastForward(c)
  /\ head' = c
  /\ clean' = [p \in Process |-> clean[p] /\ (phase[p] \in Busy => c = Commit(p))]
  /\ UNCHANGED <<wire, acknowledged, phase, record, base, tries, appended>>

GivesUp(p) == tries[p] >= MaxTries

\* The PATCH is refused, or times out, or its transport retries are exhausted.
\* A refused one has no effect any more; another may still have one.
PatchFails(p) ==
  /\ phase[p] = "patching"
  /\ wire' \in {wire, wire \ {Commit(p)}}
  /\ LET refused == ~FastForward(Commit(p)) /\ ~IsPrefix(Commit(p), head) IN
     IF GivesUp(p)
       THEN Throw(p, ~refused)
       ELSE Goto(p, "checking") /\ clean' = [clean EXCEPT ![p] = @ /\ refused]
  /\ UNCHANGED <<head, acknowledged, record, base, tries, appended>>

\* "A lost response is settled by the exact commit, never by guessing."
SettledBy(p, observed) == observed = Commit(p)

\* "Retry only the same conditional ref update."
MayRetry(p, observed) == observed = base[p]

\* The read of the branch that settles a failed PATCH.
Check(p) ==
  /\ phase[p] = "checking"
  /\ \/ \E observed \in Readable :
          \/ /\ SettledBy(p, observed)
             /\ Acknowledged(p)
             /\ UNCHANGED <<tries, clean>>
          \/ /\ ~SettledBy(p, observed) /\ MayRetry(p, observed)
             /\ wire' = wire \cup {Commit(p)}
             /\ tries' = [tries EXCEPT ![p] = @ + 1]
             /\ Goto(p, "patching")
             /\ UNCHANGED <<acknowledged, clean>>
          \/ /\ ~SettledBy(p, observed) /\ ~MayRetry(p, observed)
             /\ Throw(p, observed # head)
             /\ UNCHANGED <<wire, acknowledged, tries>>
     \/ Throw(p, TRUE) /\ UNCHANGED <<wire, acknowledged, tries>>
  /\ UNCHANGED <<head, record, base, appended>>

\* The process ends or is killed; what it sent is still on its way.
Dies(p) ==
  /\ phase[p] # "dead"
  /\ Goto(p, "dead")
  /\ UNCHANGED <<head, wire, acknowledged, record, base, tries, clean, appended>>

-----------------------------------------------------------------------------
Work(p) == UseCache(p) \/ Snapshot(p) \/ PostCommit(p) \/ PatchSucceeds(p) \/ PatchFails(p) \/ Check(p)

Next ==
  \/ \E p \in Process : Work(p) \/ Dies(p) \/ \E r \in Record : Begin(p, r)
  \/ \E c \in wire : PatchLands(c)

Spec == Init /\ [][Next]_vars

-----------------------------------------------------------------------------
(* Properties *)

\* Records of the branch, and those whose append was reported as done.
Log == [i \in 1 .. Len(head) |-> head[i][2]]
AcknowledgedRecords ==
  UNION {{e[2] : e \in {x \in Range(acknowledged[p]) : x[1] = p}} : p \in Process}

Journal == INSTANCE AppendOnlyJournal WITH log <- Log, acknowledged <- AcknowledgedRecords

\* Lost responses, stale reads, late updates, competing and dying processes
\* included, the branch is the append-only log recoverAccount relies on: no
\* record twice, none replaced, none lost after its append was acknowledged.
ImplementsJournal == Journal!Spec

\* "The chain only orders appends; it must not carry their outcomes": with one
\* process on the account, an append none of whose own requests failed or was
\* answered stale, and during which no earlier request took effect, succeeds.
UntroubledAppendsSucceed ==
  \A p \in Process : phase[p] = "failed" => ~clean[p]
=============================================================================
