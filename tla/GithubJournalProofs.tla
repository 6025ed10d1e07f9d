------------------------ MODULE GithubJournalProofs ------------------------
(* GithubJournal keeps its types and implements AppendOnlyJournal, for any *)
(* processes and records.                                                  *)
EXTENDS GithubJournal, SequenceTheorems, TLAPS

\* Only an append with an update left reads the branch to settle one.
SettlesInTime == \A p \in Process : phase[p] = "checking" => tries[p] < MaxTries

TypeInv == TypeOK /\ SettlesInTime

\* A commit extends the journal it builds on by one entry.
LEMMA CommitType ==
  ASSUME TypeOK, NEW p \in Process
  PROVE  Commit(p) \in Seq(Entry)
BY DEF TypeOK, Commit, Entry

\* A read of the branch, stale or not, reports a journal.
LEMMA ReadableType ==
  ASSUME TypeOK, NEW b \in Readable
  PROVE  b \in Seq(Entry)
<1>1. PICK n \in 0 .. Len(head) : b = SubSeq(head, 1, n)
  BY DEF Readable
<1>. QED
  BY <1>1 DEF TypeOK

LEMMA InitType == Init => TypeInv
<1>1. (CHOOSE r \in Record : TRUE) \in Record
  BY RecordAssumption
<1>. QED
  BY <1>1, MaxTriesAssumption DEF Init, TypeInv, TypeOK, SettlesInTime, Phases

LEMMA BeginType ==
  ASSUME TypeInv, NEW p \in Process, NEW r \in Record, Begin(p, r)
  PROVE  TypeInv'
BY MaxTriesAssumption DEF TypeInv, TypeOK, SettlesInTime, Begin, Goto, Phases, Busy

\* Building on a journal settles only where the append goes next.
LEMMA BuildOnType ==
  ASSUME TypeInv, NEW p \in Process, NEW b \in Seq(Entry), NEW fresh \in BOOLEAN,
         BuildOn(p, b, fresh),
         UNCHANGED <<head, wire, acknowledged, record, tries, appended>>
  PROVE  TypeInv'
BY DEF TypeInv, TypeOK, SettlesInTime, BuildOn, Goto, Phases, Busy

LEMMA ThrowType ==
  ASSUME TypeInv, NEW p \in Process, NEW troubled \in BOOLEAN, Throw(p, troubled),
         wire' \subseteq Seq(Entry),
         UNCHANGED <<head, acknowledged, record, base, tries, appended>>
  PROVE  TypeInv'
BY DEF TypeInv, TypeOK, SettlesInTime, Throw, Goto, Phases

\* An acknowledged commit becomes the cached journal.
LEMMA AcknowledgedType ==
  ASSUME TypeInv, NEW p \in Process, Acknowledged(p), head' \in Seq(Entry),
         UNCHANGED <<record, base, tries, clean, appended>>
  PROVE  TypeInv'
<1>1. Commit(p) \in Seq(Entry)
  BY CommitType DEF TypeInv
<1>. QED
  BY <1>1 DEF TypeInv, TypeOK, SettlesInTime, Acknowledged, Goto, Phases

LEMMA SnapshotType ==
  ASSUME TypeInv, NEW p \in Process, UseCache(p) \/ Snapshot(p)
  PROVE  TypeInv'
<1>1. CASE UseCache(p)
  <2>1. acknowledged[p] \in Seq(Entry)
    BY <1>1 DEF UseCache, TypeInv, TypeOK
  <2>. QED
    BY <1>1, <2>1, BuildOnType DEF UseCache
<1>2. ASSUME NEW b \in Readable, BuildOn(p, b, b = head),
             UNCHANGED <<head, wire, acknowledged, record, tries, appended>>
      PROVE  TypeInv'
  <2>1. b \in Seq(Entry)
    BY ReadableType DEF TypeInv
  <2>2. (b = head) \in BOOLEAN
    OBVIOUS
  <2>. QED
    BY <1>2, <2>1, <2>2, BuildOnType
<1>3. CASE Throw(p, TRUE) /\ UNCHANGED base
           /\ UNCHANGED <<head, wire, acknowledged, record, tries, appended>>
  BY <1>3, ThrowType DEF TypeInv, TypeOK
<1>. QED
  BY <1>1, <1>2, <1>3 DEF Snapshot

\* The first of the MaxTries updates of an append.
LEMMA PostCommitType ==
  ASSUME TypeInv, NEW p \in Process, PostCommit(p)
  PROVE  TypeInv'
<1>1. Commit(p) \in Seq(Entry)
  BY CommitType DEF TypeInv
<1>2. CASE Throw(p, TRUE) /\ UNCHANGED <<wire, tries>>
  BY <1>2, ThrowType DEF PostCommit, TypeInv, TypeOK
<1>3. CASE /\ wire' = wire \cup {Commit(p)}
           /\ tries' = [tries EXCEPT ![p] = 1]
           /\ Goto(p, "patching")
           /\ UNCHANGED clean
  <2>1. 1 \in 0 .. MaxTries
    BY MaxTriesAssumption
  <2>2. UNCHANGED <<head, acknowledged, record, base, appended>>
    BY DEF PostCommit
  <2>. QED
    BY <1>1, <1>3, <2>1, <2>2 DEF TypeInv, TypeOK, SettlesInTime, Goto, Phases, Busy
<1>. QED
  BY <1>2, <1>3 DEF PostCommit

LEMMA PatchType ==
  ASSUME TypeInv, NEW p \in Process, PatchSucceeds(p) \/ PatchFails(p)
  PROVE  TypeInv'
<1>1. Commit(p) \in Seq(Entry)
  BY CommitType DEF TypeInv
<1>2. CASE PatchSucceeds(p)
  <2>1. head' \in Seq(Entry)
    BY <1>1, <1>2 DEF PatchSucceeds, TypeInv, TypeOK
  <2>. QED
    BY <1>2, <2>1, AcknowledgedType DEF PatchSucceeds
<1>3. CASE PatchFails(p)
  <2>. DEFINE refused == ~FastForward(Commit(p)) /\ ~IsPrefix(Commit(p), head)
  <2>1. wire' \subseteq Seq(Entry)
    BY <1>3 DEF PatchFails, TypeInv, TypeOK
  <2>2. refused \in BOOLEAN
    OBVIOUS
  <2>3. CASE GivesUp(p)
    <3>1. Throw(p, ~refused)
      BY <1>3, <2>3 DEF PatchFails
    <3>2. (~refused) \in BOOLEAN
      OBVIOUS
    <3>. HIDE DEF refused
    <3>. QED
      BY <1>3, <2>1, <3>1, <3>2, ThrowType DEF PatchFails
  <2>4. CASE ~GivesUp(p)
    <3>1. Goto(p, "checking") /\ clean' = [clean EXCEPT ![p] = @ /\ refused]
      BY <1>3, <2>4 DEF PatchFails
    <3>2. tries[p] < MaxTries
      BY <2>4, MaxTriesAssumption DEF GivesUp, TypeInv, TypeOK
    <3>. HIDE DEF refused
    <3>. QED
      BY <1>3, <2>1, <2>2, <3>1, <3>2
         DEF PatchFails, TypeInv, TypeOK, SettlesInTime, Goto, Phases, Busy
  <2>. QED
    BY <2>3, <2>4
<1>. QED
  BY <1>2, <1>3

\* A failed update is sent again only while there are updates left.
LEMMA CheckType ==
  ASSUME TypeInv, NEW p \in Process, Check(p)
  PROVE  TypeInv'
<1>1. UNCHANGED <<head, record, base, appended>> /\ phase[p] = "checking"
  BY DEF Check
<1>2. Commit(p) \in Seq(Entry) /\ wire \subseteq Seq(Entry) /\ head' \in Seq(Entry)
  BY <1>1, CommitType DEF TypeInv, TypeOK
<1>3. CASE Acknowledged(p) /\ UNCHANGED <<tries, clean>>
  BY <1>1, <1>2, <1>3, AcknowledgedType
<1>4. CASE /\ wire' = wire \cup {Commit(p)}
           /\ tries' = [tries EXCEPT ![p] = @ + 1]
           /\ Goto(p, "patching")
           /\ UNCHANGED <<acknowledged, clean>>
  <2>1. tries[p] + 1 \in 0 .. MaxTries
    BY <1>1, MaxTriesAssumption DEF TypeInv, TypeOK, SettlesInTime
  <2>. QED
    BY <1>1, <1>2, <1>4, <2>1 DEF TypeInv, TypeOK, SettlesInTime, Goto, Phases, Busy
<1>5. ASSUME NEW troubled \in BOOLEAN, Throw(p, troubled),
             UNCHANGED <<wire, acknowledged, tries>>
      PROVE  TypeInv'
  BY <1>1, <1>2, <1>5, ThrowType
<1>6. \A observed \in Readable : (observed # head) \in BOOLEAN
  OBVIOUS
<1>. QED
  BY <1>3, <1>4, <1>5, <1>6 DEF Check

\* What changes no more than the branch, the verdicts or the end of a process.
LEMMA EnvironmentType ==
  ASSUME TypeInv,
         (\E p \in Process : Dies(p)) \/ (\E c \in wire : PatchLands(c)) \/ UNCHANGED vars
  PROVE  TypeInv'
<1>1. ASSUME NEW p \in Process, Dies(p) PROVE TypeInv'
  BY <1>1 DEF Dies, Goto, TypeInv, TypeOK, SettlesInTime, Phases
<1>2. ASSUME NEW c \in wire, PatchLands(c) PROVE TypeInv'
  <2>1. head' \in Seq(Entry) /\ clean' \in [Process -> BOOLEAN]
    BY <1>2 DEF PatchLands, TypeInv, TypeOK
  <2>. QED
    BY <1>2, <2>1 DEF PatchLands, TypeInv, TypeOK, SettlesInTime
<1>3. CASE UNCHANGED vars
  BY <1>3 DEF vars, TypeInv, TypeOK, SettlesInTime
<1>. QED
  BY <1>1, <1>2, <1>3

LEMMA TypeNext == TypeInv /\ [Next]_vars => TypeInv'
<1>. SUFFICES ASSUME TypeInv, [Next]_vars PROVE TypeInv'
  OBVIOUS
<1>1. ASSUME NEW p \in Process, Work(p) PROVE TypeInv'
  BY <1>1, SnapshotType, PostCommitType, PatchType, CheckType DEF Work
<1>2. ASSUME NEW p \in Process, NEW r \in Record, Begin(p, r) PROVE TypeInv'
  BY <1>2, BeginType
<1>. QED
  BY <1>1, <1>2, EnvironmentType DEF Next

\* Every cached journal, commit in flight and phase of an append keeps its type,
\* and no append sends more than MaxTries updates, whatever the processes, the
\* losses and the stale reads (the update loop of append).
THEOREM TypeCorrect == Spec => []TypeOK
<1>1. TypeInv => TypeOK
  BY DEF TypeInv
<1>. QED
  BY InitType, TypeNext, <1>1, PTL DEF Spec

-----------------------------------------------------------------------------
(* The log: what the branch holds, and what every commit in flight adds.   *)

\* s is the beginning of t.
Begins(s, t) == Len(s) <= Len(t) /\ \A i \in 1 .. Len(s) : s[i] = t[i]

\* A commit whose last record is in none of the entries below it.
AddsOne(c) == c # <<>> /\ \A i \in 1 .. Len(c) - 1 : c[i][2] # c[Len(c)][2]

NoRecordTwice == \A i, j \in 1 .. Len(head) : head[i][2] = head[j][2] => i = j

\* An append that got past the lookup builds on what its process acknowledged last.
Building == {"committing", "patching", "checking"}
AppendsAreNew ==
  \A p \in Process : phase[p] \in Building =>
    /\ record[p] \notin Records(base[p])
    /\ acknowledged[p] \in {NoBase, base[p]}

CachesAreCurrent == \A p \in Process : acknowledged[p] # NoBase => Begins(acknowledged[p], head)

LogInv ==
  /\ TypeInv
  /\ NoRecordTwice
  /\ \A c \in wire : AddsOne(c)
  /\ AppendsAreNew
  /\ CachesAreCurrent

LEMMA FrontBegins ==
  ASSUME NEW c \in Seq(Entry), c # <<>>
  PROVE  /\ Front(c) \in Seq(Entry) /\ Len(c) = Len(Front(c)) + 1
         /\ \A i \in 1 .. Len(Front(c)) : Front(c)[i] = c[i]
<1>1. Len(c) \in Nat \ {0} /\ \A i \in 1 .. Len(c) - 1 : c[i] \in Entry
  BY EmptySeq
<1>2. /\ SubSeq(c, 1, Len(c) - 1) \in Seq(Entry)
      /\ Len(SubSeq(c, 1, Len(c) - 1)) = Len(c) - 1
      /\ \A i \in 1 .. Len(c) - 1 : SubSeq(c, 1, Len(c) - 1)[i] = c[i]
  <2>. DEFINE n == Len(c) - 1
  <2>1. n \in Int /\ 1 \in Int /\ n - 1 + 1 = n /\ n >= 0 /\ (\A i \in 1 .. n : c[i] \in Entry)
        /\ (\A i \in 1 .. n : 1 + i - 1 = i)
    BY <1>1
  <2>. HIDE DEF n
  <2>2. /\ SubSeq(c, 1, n) \in Seq(Entry)
        /\ Len(SubSeq(c, 1, n)) = IF 1 <= n THEN n - 1 + 1 ELSE 0
        /\ \A i \in 1 .. n - 1 + 1 : SubSeq(c, 1, n)[i] = c[1 + i - 1]
    BY <2>1, SubSeqProperties
  <2>3. Len(SubSeq(c, 1, n)) = n /\ \A i \in 1 .. n : SubSeq(c, 1, n)[i] = c[i]
    BY <2>1, <2>2
  <2>. QED
    BY <2>2, <2>3 DEF n
<1>. QED
  BY <1>1, <1>2 DEF Front

LEMMA PrefixBegins ==
  ASSUME NEW s \in Seq(Entry), NEW t \in Seq(Entry), IsPrefix(s, t)
  PROVE  Begins(s, t)
<1>1. Len(s) <= Len(t) /\ SubSeq(s, 1, Len(s)) = SubSeq(t, 1, Len(s))
  BY DEF IsPrefix
<1>2. \A i \in 1 .. Len(s) : SubSeq(s, 1, Len(s))[i] = s[i] /\ SubSeq(t, 1, Len(s))[i] = t[i]
  BY <1>1
<1>. QED
  BY <1>1, <1>2 DEF Begins

LEMMA ReadableBegins ==
  ASSUME TypeOK, NEW b \in Readable
  PROVE  Begins(b, head)
<1>1. PICK n \in 0 .. Len(head) : b = SubSeq(head, 1, n)
  BY DEF Readable
<1>. QED
  BY <1>1 DEF TypeOK, Begins

\* A commit adds its record to the journal it builds on.
LEMMA CommitAdds ==
  ASSUME TypeOK, NEW p \in Process
  PROVE  /\ Commit(p) \in Seq(Entry) /\ Commit(p) # <<>>
         /\ Len(Commit(p)) = Len(base[p]) + 1
         /\ \A i \in 1 .. Len(base[p]) : Commit(p)[i] = base[p][i]
         /\ Commit(p)[Len(base[p]) + 1] = <<p, record[p]>>
<1>1. base[p] \in Seq(Entry) /\ <<p, record[p]>> \in Entry
  BY DEF TypeOK, Entry
<1>. QED
  BY <1>1, AppendProperties DEF Commit

LEMMA CommitAddsOne ==
  ASSUME TypeOK, AppendsAreNew, NEW p \in Process, phase[p] \in Building
  PROVE  AddsOne(Commit(p))
<1>1. base[p] \in Seq(Entry)
  BY DEF TypeOK
<1>2. \A i \in 1 .. Len(base[p]) : base[p][i] \in Range(base[p])
  BY <1>1 DEF Range
<1>3. \A i \in 1 .. Len(base[p]) : base[p][i][2] # record[p]
  BY <1>2 DEF AppendsAreNew, Records
<1>4. /\ Commit(p) # <<>> /\ Len(Commit(p)) = Len(base[p]) + 1 /\ Len(base[p]) \in Nat
      /\ \A i \in 1 .. Len(base[p]) : Commit(p)[i] = base[p][i]
      /\ Commit(p)[Len(base[p]) + 1][2] = record[p]
  BY <1>1, CommitAdds
<1>. QED
  BY <1>3, <1>4 DEF AddsOne

\* The branch only grows, and by a record it does not hold.
LEMMA LandingGrows ==
  ASSUME TypeOK, NoRecordTwice, NEW c \in Seq(Entry), AddsOne(c), FastForward(c), head' = c
  PROVE  /\ NoRecordTwice' /\ Begins(head, head') /\ Len(head') = Len(head) + 1
         /\ \A i \in 1 .. Len(head) : head[i][2] # head'[Len(head')][2]
<1>1. head \in Seq(Entry) /\ head = Front(c)
  BY DEF TypeOK, FastForward
<1>2. Len(c) = Len(head) + 1 /\ \A i \in 1 .. Len(head) : head[i] = c[i]
  BY <1>1, FrontBegins DEF AddsOne
<1>. QED
  BY <1>1, <1>2 DEF AddsOne, NoRecordTwice, Begins

-----------------------------------------------------------------------------
(* Every step keeps the invariant.                                         *)

LEMMA LogInit == Init => LogInv
BY InitType DEF Init, LogInv, NoRecordTwice, AppendsAreNew, CachesAreCurrent, Building

\* Only the branch moves, by a landing or not at all.
Moves ==
  \/ UNCHANGED head
  \/ \E c \in Seq(Entry) : AddsOne(c) /\ FastForward(c) /\ head' = c

LEMMA BranchKept ==
  ASSUME LogInv, Moves
  PROVE  /\ NoRecordTwice' /\ Begins(head, head')
         /\ \A p \in Process : acknowledged[p] # NoBase => Begins(acknowledged[p], head')
<1>1. head \in Seq(Entry) /\ TypeOK
  BY DEF LogInv, TypeInv, TypeOK
<1>2. NoRecordTwice' /\ Begins(head, head')
  <2>1. CASE UNCHANGED head
    BY <1>1, <2>1 DEF LogInv, NoRecordTwice, Begins
  <2>2. CASE \E c \in Seq(Entry) : AddsOne(c) /\ FastForward(c) /\ head' = c
    BY <1>1, <2>2, LandingGrows DEF LogInv
  <2>. QED
    BY <2>1, <2>2 DEF Moves
<1>3. ASSUME NEW p \in Process, acknowledged[p] # NoBase
      PROVE  Begins(acknowledged[p], head')
  <2>1. acknowledged[p] \in Seq(Entry) /\ Begins(acknowledged[p], head)
    BY <1>1, <1>3 DEF LogInv, CachesAreCurrent, TypeOK
  <2>. QED
    BY <1>1, <1>2, <2>1 DEF Begins
<1>. QED
  BY <1>2, <1>3

\* What a step that writes no cache and starts no append has to show.
LEMMA Keeps ==
  ASSUME LogInv, Moves, TypeInv',
         wire' \subseteq wire \cup {Commit(p) : p \in {q \in Process : phase[q] \in Building}},
         UNCHANGED acknowledged,
         \A p \in Process : phase'[p] \in Building =>
            phase[p] \in Building /\ base'[p] = base[p] /\ record'[p] = record[p]
  PROVE  LogInv'
<1>1. TypeOK /\ AppendsAreNew
  BY DEF LogInv, TypeInv
<1>2. NoRecordTwice' /\ CachesAreCurrent'
  BY BranchKept DEF CachesAreCurrent
<1>3. \A c \in wire' : AddsOne(c)
  BY <1>1, CommitAddsOne DEF LogInv
<1>4. AppendsAreNew'
  BY <1>1 DEF AppendsAreNew, Records
<1>. QED
  BY <1>2, <1>3, <1>4 DEF LogInv

\* An acknowledged commit is on the branch, and extends the cache it replaces.
LEMMA AcknowledgedKeeps ==
  ASSUME LogInv, Moves, TypeInv', NEW p \in Process, phase[p] \in Building, Acknowledged(p),
         Begins(Commit(p), head'), UNCHANGED <<record, base>>
  PROVE  LogInv'
<1>1. TypeOK
  BY DEF LogInv, TypeInv
<1>2. acknowledged' = [acknowledged EXCEPT ![p] = Commit(p)]
      /\ acknowledged \in [Process -> Seq(Entry) \cup {NoBase}]
  BY <1>1 DEF Acknowledged, TypeOK
<1>3. phase' = [phase EXCEPT ![p] = "done"] /\ phase \in [Process -> Phases]
  BY <1>1 DEF Acknowledged, Goto, TypeOK
<1>4. NoRecordTwice' /\ CachesAreCurrent'
  BY <1>2, BranchKept DEF CachesAreCurrent
<1>5. AppendsAreNew'
  BY <1>2, <1>3 DEF LogInv, AppendsAreNew, Building, Records
<1>6. \A c \in wire' : AddsOne(c)
  BY DEF LogInv, Acknowledged
<1>. QED
  BY <1>4, <1>5, <1>6 DEF LogInv

LEMMA BuildingKeeps ==
  ASSUME LogInv, NEW p \in Process, UseCache(p) \/ Snapshot(p), TypeInv'
  PROVE  LogInv'
<1>1. TypeOK
  BY DEF LogInv, TypeInv
<1>2. ASSUME NEW b, NEW fresh, BuildOn(p, b, fresh), acknowledged[p] \in {NoBase, b},
             UNCHANGED <<head, wire, acknowledged, record, tries, appended>>
      PROVE  LogInv'
  <2>1. base' = [base EXCEPT ![p] = b] /\ phase' \in [Process -> Phases]
        /\ \A q \in Process : q # p => phase'[q] = phase[q]
    <3>1. phase' \in {[phase EXCEPT ![p] = "failed"], [phase EXCEPT ![p] = "committing"]}
      BY <1>2 DEF BuildOn, Goto
    <3>. QED
      BY <1>1, <1>2, <3>1 DEF BuildOn, TypeOK, TypeInv
  <2>2. phase'[p] \in Building => record[p] \notin Records(b)
    BY <1>1, <1>2 DEF BuildOn, Goto, AlreadyThere, TypeOK, Building
  <2>3. AppendsAreNew'
    BY <1>1, <1>2, <2>1, <2>2 DEF AppendsAreNew, Records, TypeOK, LogInv
  <2>4. NoRecordTwice' /\ CachesAreCurrent' /\ \A c \in wire' : AddsOne(c)
    BY <1>2 DEF LogInv, NoRecordTwice, CachesAreCurrent
  <2>. QED
    BY <2>3, <2>4 DEF LogInv
<1>3. CASE UseCache(p)
  BY <1>2, <1>3 DEF UseCache
<1>4. CASE Snapshot(p) /\ \E b \in Readable : BuildOn(p, b, b = head)
  BY <1>2, <1>4 DEF Snapshot
<1>5. CASE Snapshot(p) /\ Throw(p, TRUE) /\ UNCHANGED base
  BY <1>1, <1>5, Keeps DEF Snapshot, Throw, Goto, Moves, Building, TypeOK
<1>. QED
  BY <1>3, <1>4, <1>5 DEF Snapshot

LEMMA PostCommitKeeps ==
  ASSUME LogInv, NEW p \in Process, PostCommit(p), TypeInv'
  PROVE  LogInv'
<1>1. TypeOK /\ UNCHANGED head /\ phase[p] \in Building
  BY DEF LogInv, TypeInv, PostCommit, Building
<1>2. wire' \subseteq wire \cup {Commit(q) : q \in {x \in Process : phase[x] \in Building}}
  BY <1>1 DEF PostCommit
<1>3. \A q \in Process : phase'[q] \in Building =>
         phase[q] \in Building /\ base'[q] = base[q] /\ record'[q] = record[q]
  BY <1>1 DEF PostCommit, Throw, Goto, TypeOK
<1>. QED
  BY <1>1, <1>2, <1>3, Keeps DEF PostCommit, Moves

\* The update of a process that was answered is on the branch.
LEMMA PatchLandsOnce ==
  ASSUME LogInv, NEW p \in Process, PatchSucceeds(p)
  PROVE  Moves /\ Begins(Commit(p), head') /\ phase[p] \in Building
<1>1. TypeOK /\ phase[p] \in Building /\ head \in Seq(Entry)
  BY DEF LogInv, TypeInv, TypeOK, PatchSucceeds, Building
<1>2. Commit(p) \in Seq(Entry) /\ AddsOne(Commit(p))
  BY <1>1, CommitType, CommitAddsOne DEF LogInv
<1>3. CASE FastForward(Commit(p)) /\ head' = Commit(p)
  BY <1>1, <1>2, <1>3 DEF Moves, Begins
<1>4. CASE IsPrefix(Commit(p), head) /\ UNCHANGED head
  BY <1>1, <1>2, <1>4, PrefixBegins DEF Moves
<1>. QED
  BY <1>1, <1>3, <1>4 DEF PatchSucceeds

LEMMA PatchKeeps ==
  ASSUME LogInv, NEW p \in Process, PatchSucceeds(p) \/ PatchFails(p), TypeInv'
  PROVE  LogInv'
<1>1. CASE PatchSucceeds(p)
  BY <1>1, PatchLandsOnce, AcknowledgedKeeps DEF PatchSucceeds
<1>2. CASE PatchFails(p)
  <2>1. phase[p] \in Building /\ wire' \subseteq wire
        /\ UNCHANGED <<head, acknowledged, record, base>>
    BY <1>2 DEF PatchFails, Building
  <2>2. phase' \in {[phase EXCEPT ![p] = "failed"], [phase EXCEPT ![p] = "checking"]}
    BY <1>2 DEF PatchFails, Throw, Goto
  <2>3. \A q \in Process : phase'[q] \in Building => phase[q] \in Building
    BY <2>1, <2>2 DEF LogInv, TypeInv, TypeOK
  <2>. QED
    BY <2>1, <2>3, Keeps DEF Moves
<1>. QED
  BY <1>1, <1>2

\* The read that settles an update finds the commit on the branch.
LEMMA CheckKeeps ==
  ASSUME LogInv, NEW p \in Process, Check(p), TypeInv'
  PROVE  LogInv'
<1>1. TypeOK /\ phase[p] \in Building /\ UNCHANGED <<head, record, base>>
  BY DEF LogInv, TypeInv, Check, Building
<1>2. CASE \E observed \in Readable : SettledBy(p, observed) /\ Acknowledged(p)
  <2>1. Begins(Commit(p), head)
    BY <1>1, <1>2, ReadableBegins DEF SettledBy
  <2>. QED
    BY <1>1, <1>2, <2>1, AcknowledgedKeeps DEF Moves
<1>3. CASE UNCHANGED acknowledged /\ wire' \subseteq wire \cup {Commit(p)}
           /\ phase' \in {[phase EXCEPT ![p] = "failed"], [phase EXCEPT ![p] = "patching"]}
  <2>1. \A q \in Process : phase'[q] \in Building => phase[q] \in Building
    BY <1>1, <1>3 DEF TypeOK
  <2>2. wire' \subseteq wire \cup {Commit(q) : q \in {x \in Process : phase[x] \in Building}}
    BY <1>1, <1>3
  <2>. QED
    BY <1>1, <1>3, <2>1, <2>2, Keeps DEF Moves
<1>. QED
  BY <1>2, <1>3 DEF Check, Throw, Goto

LEMMA OtherKeeps ==
  ASSUME LogInv, TypeInv',
         \/ \E p \in Process : Dies(p) \/ \E r \in Record : Begin(p, r)
         \/ \E c \in wire : PatchLands(c)
         \/ UNCHANGED vars
  PROVE  LogInv'
<1>1. TypeOK
  BY DEF LogInv, TypeInv
<1>2. ASSUME NEW p \in Process, Dies(p) PROVE LogInv'
  BY <1>1, <1>2, Keeps DEF Dies, Goto, Moves, Building, TypeOK
<1>3. ASSUME NEW p \in Process, NEW r \in Record, Begin(p, r) PROVE LogInv'
  BY <1>1, <1>3, Keeps DEF Begin, Goto, Moves, Building, TypeOK
<1>4. ASSUME NEW c \in wire, PatchLands(c) PROVE LogInv'
  <2>1. Moves
    BY <1>1, <1>4 DEF Moves, PatchLands, LogInv, TypeOK
  <2>. QED
    BY <1>4, <2>1, Keeps DEF PatchLands
<1>5. CASE UNCHANGED vars
  BY <1>5, Keeps DEF vars, Moves
<1>. QED
  BY <1>2, <1>3, <1>4, <1>5

LEMMA LogNext == LogInv /\ [Next]_vars => LogInv'
<1>. SUFFICES ASSUME LogInv, [Next]_vars PROVE LogInv'
  OBVIOUS
<1>1. TypeInv'
  BY TypeNext DEF LogInv
<1>2. ASSUME NEW p \in Process, Work(p) PROVE LogInv'
  BY <1>1, <1>2, BuildingKeeps, PostCommitKeeps, PatchKeeps, CheckKeeps DEF Work
<1>. QED
  BY <1>1, <1>2, OtherKeeps DEF Next

-----------------------------------------------------------------------------
(* The refinement.                                                         *)

\* A landing appends one record to the log.
LEMMA LogMoves ==
  ASSUME LogInv, Moves
  PROVE  \/ UNCHANGED Log
         \/ \E r \in Record : r \notin Range(Log) /\ Log' = Append(Log, r)
<1>1. TypeOK /\ head \in Seq(Entry)
  BY DEF LogInv, TypeInv, TypeOK
<1>2. CASE UNCHANGED head
  BY <1>2 DEF Log
<1>3. ASSUME NEW c \in Seq(Entry), AddsOne(c), FastForward(c), head' = c
      PROVE  \E r \in Record : r \notin Range(Log) /\ Log' = Append(Log, r)
  <2>. DEFINE r == head'[Len(head')][2]
  <2>1. /\ Begins(head, head') /\ Len(head') = Len(head) + 1 /\ head' \in Seq(Entry)
        /\ \A i \in 1 .. Len(head) : head[i][2] # r
    BY <1>1, <1>3, LandingGrows DEF LogInv
  <2>2. r \in Record
    BY <1>1, <2>1 DEF Entry
  <2>3. Log \in Seq(Record) /\ Len(Log) = Len(head)
    BY <1>1 DEF Log, Entry
  <2>4. r \notin Range(Log)
    BY <1>1, <2>1 DEF Range, Log
  <2>5. Log' = [i \in 1 .. Len(head) + 1 |-> IF i = Len(head) + 1 THEN r ELSE Log[i]]
    BY <1>1, <2>1 DEF Log, Begins
  <2>6. Append(Log, r) = [i \in 1 .. Len(head) + 1 |-> IF i = Len(head) + 1 THEN r ELSE Log[i]]
    BY <1>1, <2>2, <2>3
  <2>. QED
    BY <2>2, <2>4, <2>5, <2>6
<1>. QED
  BY <1>2, <1>3 DEF Moves

\* What a process acknowledged is on the log.
LEMMA AcknowledgedIsLogged == LogInv => AcknowledgedRecords \subseteq Range(Log)
<1>. SUFFICES ASSUME LogInv, NEW p \in Process, NEW x \in Range(acknowledged[p]), x[1] = p
              PROVE  x[2] \in Range(Log)
  BY DEF AcknowledgedRecords
<1>1. TypeOK /\ head \in Seq(Entry)
  BY DEF LogInv, TypeInv, TypeOK
<1>2. acknowledged[p] # NoBase
  <2>. SUFFICES ASSUME acknowledged[p] = NoBase PROVE FALSE
    OBVIOUS
  <2>1. x = <<"no", "snapshot">>
    BY DEF NoBase, Range
  <2>. QED
    BY <2>1, ProcessAssumption
<1>3. acknowledged[p] \in Seq(Entry) /\ Begins(acknowledged[p], head)
  BY <1>1, <1>2 DEF LogInv, CachesAreCurrent, TypeOK
<1>4. PICK i \in 1 .. Len(acknowledged[p]) : x = acknowledged[p][i]
  BY <1>3 DEF Range
<1>5. i \in 1 .. Len(head) /\ x = head[i]
  BY <1>1, <1>3, <1>4 DEF Begins
<1>. QED
  BY <1>1, <1>5 DEF Log, Range

\* Nothing that was acknowledged is taken back.
LEMMA AcknowledgedGrows ==
  ASSUME LogInv,
         \/ UNCHANGED acknowledged
         \/ \E p \in Process : phase[p] \in Building /\ Acknowledged(p)
  PROVE  AcknowledgedRecords \subseteq AcknowledgedRecords'
<1>1. TypeOK
  BY DEF LogInv, TypeInv
<1>2. CASE UNCHANGED acknowledged
  BY <1>2 DEF AcknowledgedRecords
<1>3. ASSUME NEW p \in Process, phase[p] \in Building, Acknowledged(p)
      PROVE  AcknowledgedRecords \subseteq AcknowledgedRecords'
  <2>1. acknowledged' = [acknowledged EXCEPT ![p] = Commit(p)]
        /\ acknowledged \in [Process -> Seq(Entry) \cup {NoBase}] /\ base[p] \in Seq(Entry)
    BY <1>1, <1>3 DEF Acknowledged, TypeOK
  <2>2. \A q \in Process : \A x \in Range(acknowledged[q]) :
           x[1] = q => x \in Range(acknowledged'[q])
    <3>. SUFFICES ASSUME NEW q \in Process, NEW x \in Range(acknowledged[q]), x[1] = q
                  PROVE  x \in Range(acknowledged'[q])
      OBVIOUS
    <3>1. CASE q # p
      BY <2>1, <3>1
    <3>2. CASE q = p
      <4>1. acknowledged[p] # NoBase
        <5>. SUFFICES ASSUME acknowledged[p] = NoBase PROVE FALSE
          OBVIOUS
        <5>1. x = <<"no", "snapshot">>
          BY <3>2 DEF NoBase, Range
        <5>. QED
          BY <5>1, ProcessAssumption
      <4>2. acknowledged[p] = base[p]
        BY <1>3, <4>1 DEF LogInv, AppendsAreNew
      <4>3. PICK i \in 1 .. Len(base[p]) : x = base[p][i]
        BY <2>1, <3>2, <4>2 DEF Range
      <4>4. x = Commit(p)[i] /\ i \in DOMAIN Commit(p)
        BY <1>1, <2>1, <4>3, CommitAdds
      <4>. QED
        BY <2>1, <3>2, <4>4 DEF Range
    <3>. QED
      BY <3>1, <3>2
  <2>. QED
    BY <2>2 DEF AcknowledgedRecords
<1>. QED
  BY <1>2, <1>3

\* How the branch and the caches move together.
LEMMA StepMoves ==
  ASSUME LogInv, [Next]_vars
  PROVE  /\ Moves
         /\ \/ UNCHANGED acknowledged
            \/ \E p \in Process : phase[p] \in Building /\ Acknowledged(p)
<1>1. ASSUME NEW p \in Process, PatchSucceeds(p)
      PROVE  Moves /\ phase[p] \in Building /\ Acknowledged(p)
  BY <1>1, PatchLandsOnce DEF PatchSucceeds
<1>2. ASSUME NEW p \in Process, Check(p)
      PROVE  /\ UNCHANGED head /\ phase[p] \in Building
             /\ UNCHANGED acknowledged \/ Acknowledged(p)
  BY <1>2 DEF Check, Building
<1>3. ASSUME NEW c \in wire, PatchLands(c)
      PROVE  Moves /\ UNCHANGED acknowledged
  BY <1>3 DEF PatchLands, Moves, LogInv, TypeInv, TypeOK
<1>4. ASSUME NEW p \in Process,
             UseCache(p) \/ Snapshot(p) \/ PostCommit(p) \/ PatchFails(p) \/ Dies(p)
               \/ \E r \in Record : Begin(p, r)
      PROVE  UNCHANGED <<head, acknowledged>>
  BY <1>4 DEF UseCache, Snapshot, PostCommit, PatchFails, Dies, Begin
<1>5. CASE UNCHANGED vars
  BY <1>5 DEF vars, Moves
<1>6. UNCHANGED head => Moves
  BY DEF Moves
<1>. QED
  BY <1>1, <1>2, <1>3, <1>4, <1>5, <1>6 DEF Next, Work

\* The protected branch is the append-only log the rest of the system relies on:
\* whatever processes race or die and whatever responses are lost or reads stale,
\* no record appears twice, none is replaced, and none is lost once its append was
\* acknowledged (append of githubAccountJournal).
THEOREM JournalImplemented == Spec => ImplementsJournal
<1>1. Init => Journal!Init
  <2>. SUFFICES ASSUME Init PROVE Journal!Init
    OBVIOUS
  <2>1. Log \in Seq(Record) /\ Len(Log) = 0
    BY DEF Init, Log
  <2>2. Log = <<>>
    BY <2>1, EmptySeq
  <2>3. AcknowledgedRecords = {}
    <3>. SUFFICES ASSUME NEW p \in Process, NEW x \in Range(acknowledged[p]), x[1] = p
                  PROVE  FALSE
      BY DEF AcknowledgedRecords
    <3>1. x = <<"no", "snapshot">>
      BY DEF Init, NoBase, Range
    <3>. QED
      BY <3>1, ProcessAssumption
  <2>. QED
    BY <2>2, <2>3 DEF Journal!Init
<1>2. LogInv' => (AcknowledgedRecords \subseteq Range(Log))'
  BY AcknowledgedIsLogged, PTL
<1>3. LogInv /\ LogInv' /\ [Next]_vars => [Journal!Next]_<<Log, AcknowledgedRecords>>
  <2>. SUFFICES ASSUME LogInv, LogInv', [Next]_vars
                PROVE  Journal!Next
    OBVIOUS
  <2>1. AcknowledgedRecords \subseteq AcknowledgedRecords'
    BY StepMoves, AcknowledgedGrows
  <2>2. Journal!Settles
    BY <1>2, <2>1 DEF Journal!Settles, Journal!Range, Range
  <2>3. Journal!Range(Log) = Range(Log)
    BY DEF Journal!Range, Range
  <2>. QED
    BY <2>2, <2>3, StepMoves, LogMoves DEF Journal!Next, Journal!Acknowledge, Journal!Land
<1>. QED
  BY LogInit, LogNext, <1>1, <1>3, PTL DEF Spec, ImplementsJournal, Journal!Spec

\* A record whose append was reported as done is on the branch from then on, for
\* every reader: what recoverAccount and the release of runCell rest on.
THEOREM AcknowledgedForGood ==
  ASSUME NEW CONSTANT r
  PROVE  Spec => [](r \in AcknowledgedRecords => [](r \in Range(Log)))
<1>1. LogInv /\ [Next]_vars => AcknowledgedRecords \subseteq AcknowledgedRecords'
  BY StepMoves, AcknowledgedGrows
<1>2. LogInv /\ r \in AcknowledgedRecords => r \in Range(Log)
  BY AcknowledgedIsLogged
<1>3. LogInv /\ [Next]_vars /\ r \in AcknowledgedRecords => (r \in AcknowledgedRecords)'
  BY <1>1
<1>. QED
  BY LogInit, LogNext, <1>2, <1>3, PTL DEF Spec
=============================================================================
