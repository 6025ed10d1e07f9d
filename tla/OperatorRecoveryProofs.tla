---------------------- MODULE OperatorRecoveryProofs -----------------------
(* The journal that an operator's recovery leaves can be read by admission, *)
(* and releases only what is gone, for any operators, faults and appends    *)
(* that land late.                                                          *)
EXTENDS OperatorRecovery, FiniteSetTheorems, TLAPS

-----------------------------------------------------------------------------
(* The inductive invariant *)

Updates == [base : SUBSET Record, record : Record]

TypeInv ==
    /\ evidence \in Evidence
    /\ journal \subseteq Record
    /\ late \subseteq Updates
    /\ sandbox \in {"none", "creating", "running", "gone"}
    /\ other \in {"none", "running"}
    /\ local \in Operators \cup {"none"}
    /\ program \in [Process -> Program]
    /\ todo \in [Process -> Seq(Phase)]
    /\ seen \in [Process -> SUBSET Record]
    /\ append \in [Process -> Updates]
    /\ cached \in [Process -> SUBSET Record]
    /\ faults \in 0..MaxFaults

Gone == sandbox \in {"none", "gone"}

\* What the evidence says of the sandbox.
Known == evidence.retained \/ evidence.detail \in {"completed-create", "named"}

EvidenceOK ==
    /\ Sealed(evidence)
    /\ Known => sandbox \in {"running", "gone"}
    /\ evidence.cleanup = "not-allocated" => sandbox = "none"

\* A journal admission can read, of an attempt whose allocation the evidence
\* retains or does not: a release is by identity exactly where one was recorded.
ReadableJournal(j) ==
    /\ Intent \in j
    /\ OneOfEachKind(j)
    /\ Allocated \in j => evidence.retained
    /\ \A r \in j : r.kind = "released" =>
          IF evidence.retained THEN r.outcome = "absent" /\ Allocated \in j
          ELSE r.outcome # "absent"
    /\ \A r \in j : r.kind = "cleanup-attested" => Absent \in j

\* An append that meets the journal it compares with leaves one that can be read,
\* and releases only what is gone.
UpdateOK(u) ==
    /\ ReadableJournal(u.base \cup {u.record})
    /\ u.record.kind = "released" => Gone

JournalOK ==
    /\ ReadableJournal(journal)
    /\ Released(journal) # {} => Gone
    /\ \A u \in late : UpdateOK(u)
    /\ other = "running" => Released(journal) # {}

\* One of the phases in s stands before position i of t.
Before(t, i, s) == \E j \in DOMAIN t : j < i /\ t[j] \in s

\* What the phases ahead of a process will have established, or have already.
ReleaseOK(p) ==
    \A i \in DOMAIN todo[p] : todo[p][i] = "release" =>
       /\ sandbox # "creating"
       /\ Gone \/ Before(todo[p], i, {"remove", "observe", "sweep"})
       /\ IF evidence.retained
          THEN /\ program[p] \notin {"not-allocated", "completed-create"}
               /\ Allocated \in seen[p] \/ Before(todo[p], i, {"replay"})
          ELSE program[p] \in {"not-allocated", "completed-create", "cleanup"}

ReplayOK(p) ==
    \A i \in DOMAIN todo[p] : todo[p][i] = "replay" => evidence.retained

PersistOK(p) ==
    \A i \in DOMAIN todo[p] : todo[p][i] = "persist" =>
       /\ program[p] = "cleanup"
       /\ Previous(seen[p]) # {} \/ Before(todo[p], i, {"release"})

WorkOK(p) ==
    \A i \in DOMAIN todo[p] : todo[p][i] = "work" =>
       /\ program[p] = "admission"
       /\ Released(journal) # {} \/ Before(todo[p], i, {"release"})

\* What a process knows is on the journal, and on the one it appends to.
KnowledgeOK(p) ==
    /\ seen[p] \subseteq journal
    /\ cached[p] # {} => seen[p] \subseteq cached[p] /\ ReadableJournal(cached[p])

AppendOK(p) ==
    append[p] # None =>
       /\ todo[p] # <<>> /\ Head(todo[p]) \in {"replay", "release"}
       /\ append[p].record = Wanted(p)
       /\ UpdateOK(append[p])

ProcessOK(p) ==
    /\ p \in Operators \/ program[p] = "admission"
    /\ ReleaseOK(p) /\ ReplayOK(p) /\ PersistOK(p) /\ WorkOK(p)
    /\ KnowledgeOK(p) /\ AppendOK(p)

RecoveryInv ==
    /\ TypeInv /\ EvidenceOK /\ JournalOK
    /\ \A p \in Process : ProcessOK(p)

-----------------------------------------------------------------------------
(* Sets of records, and lists of phases                                    *)

\* The kind tells a record apart, except among releases and attestations.
LEMMA Kinds ==
    /\ Intent \in Record /\ Allocated \in Record /\ Other \in Record /\ Absent \in Record
    /\ NotAllocated \in Record /\ CompletedCreate \in Record
    /\ \A o \in Operators :
          Recovered(o) \in Record /\ PostRun(o) \in Record /\ Attested(o) \in Record
    /\ \A r \in Record :
          /\ r.kind = "intent" => r = Intent
          /\ r.kind = "allocated" => r = Allocated
          /\ r.kind = "other" => r = Other
          /\ r.kind \in {"intent", "allocated", "other", "released", "cleanup-attested"}
<1>. USE DEF Record, Intent, Allocated, Other, Absent, NotAllocated, CompletedCreate, Recovered,
             PostRun, Attested, Rec
<1>1. /\ Intent \in Record /\ Allocated \in Record /\ Other \in Record /\ Absent \in Record
      /\ NotAllocated \in Record /\ CompletedCreate \in Record
  OBVIOUS
<1>2. ASSUME NEW o \in Operators
      PROVE  Recovered(o) \in Record /\ PostRun(o) \in Record /\ Attested(o) \in Record
  OBVIOUS
<1>3. ASSUME NEW r \in Record
      PROVE  /\ r.kind = "intent" => r = Intent
             /\ r.kind = "allocated" => r = Allocated
             /\ r.kind = "other" => r = Other
             /\ r.kind \in {"intent", "allocated", "other", "released", "cleanup-attested"}
  <2>1. CASE r \in {Intent, Allocated, Other, Absent, NotAllocated, CompletedCreate}
    BY <2>1
  <2>2. CASE \E o \in Operators : r \in {Recovered(o), PostRun(o), Attested(o)}
    BY <2>2
  <2>. QED
    BY <2>1, <2>2
<1>. QED
  BY <1>1, <1>2, <1>3

\* The record an append wants, where it may have it, leaves a readable journal.
LEMMA AddsReadably ==
    ASSUME NEW b \in SUBSET Record, NEW r \in Record, evidence.retained \in BOOLEAN,
           ReadableJournal(b), ~Has(b, r.kind),
           r = Allocated => evidence.retained,
           r.kind = "released" => IF evidence.retained THEN r.outcome = "absent" /\ Allocated \in b
                                  ELSE r.outcome # "absent",
           r.kind = "cleanup-attested" => Absent \in b
    PROVE  ReadableJournal(b \cup {r})
BY DEF ReadableJournal, OneOfEachKind, Has

\* The records of other attempts make no difference to what this one's say.
LEMMA OtherIsApart ==
    ASSUME NEW j \in SUBSET Record, ReadableJournal(j)
    PROVE  ReadableJournal(j \cup {Other}) /\ Released(j \cup {Other}) = Released(j)
           /\ Released(j \ {Other}) = Released(j)
<1>1. Other.kind = "other" /\ Other # Intent /\ Other # Allocated /\ Other # Absent
  BY DEF Other, Intent, Allocated, Absent, Rec
<1>2. ASSUME NEW r \in j, r.kind = "other" PROVE r = Other
  <2>1. r \in Record
    OBVIOUS
  <2>. QED
    BY <1>2, <2>1, Kinds, Zenon
<1>3. OneOfEachKind(j \cup {Other})
  BY <1>1, <1>2 DEF ReadableJournal, OneOfEachKind
<1>4. ReadableJournal(j \cup {Other})
  BY <1>1, <1>3 DEF ReadableJournal
<1>. QED
  BY <1>1, <1>4 DEF Released

\* Of two phases one step apart, the head of the list is the one dropped.
LEMMA TailBefore ==
    ASSUME NEW t \in Seq(Phase), t # <<>>, NEW i \in DOMAIN Tail(t)
    PROVE  /\ i + 1 \in DOMAIN t /\ Tail(t)[i] = t[i + 1]
           /\ \A s : Before(t, i + 1, s) => Head(t) \in s \/ Before(Tail(t), i, s)
<1>1. Len(t) \in Nat /\ Len(t) >= 1 /\ i \in 1 .. Len(t) - 1 /\ Tail(t) \in Seq(Phase)
  OBVIOUS
<1>2. i + 1 \in DOMAIN t /\ Tail(t)[i] = t[i + 1] /\ Head(t) = t[1]
  BY <1>1
<1>3. ASSUME NEW s, NEW j \in DOMAIN t, j < i + 1, t[j] \in s
      PROVE  Head(t) \in s \/ Before(Tail(t), i, s)
  <2>1. CASE j = 1
    BY <1>2, <1>3, <2>1
  <2>2. CASE j # 1
    <3>1. j - 1 \in DOMAIN Tail(t) /\ j - 1 < i /\ Tail(t)[j - 1] = t[j]
      BY <1>1, <1>3, <2>2
    <3>. QED
      BY <1>3, <3>1 DEF Before
  <2>. QED
    BY <2>1, <2>2
<1>. QED
  BY <1>2, <1>3 DEF Before

-----------------------------------------------------------------------------
(* What steps share                                                        *)

\* Nothing is taken back of the evidence, the journal and the sandbox.
Stable ==
    /\ UNCHANGED evidence
    /\ journal \subseteq journal'
    /\ Gone => Gone'
    /\ sandbox # "creating" => sandbox' # "creating"

\* An append that may land may land after any stable step.
LEMMA UpdateStays ==
    ASSUME Stable, NEW u, UpdateOK(u)
    PROVE  UpdateOK(u)'
BY DEF Stable, UpdateOK, ReadableJournal

\* A process that takes no part in a step.
LEMMA ProcessStays ==
    ASSUME Stable, NEW p \in Process, ProcessOK(p),
           program'[p] = program[p], todo'[p] = todo[p], seen'[p] = seen[p],
           append'[p] = append[p], cached'[p] = cached[p]
    PROVE  ProcessOK(p)'
<1>1. Released(journal) # {} => Released(journal)' # {}
  BY DEF Stable, Released
<1>2. ReleaseOK(p)'
  BY DEF ProcessOK, ReleaseOK, Stable
<1>3. ReplayOK(p)' /\ PersistOK(p)' /\ WorkOK(p)'
  BY <1>1 DEF ProcessOK, ReplayOK, PersistOK, WorkOK, Stable
<1>4. KnowledgeOK(p)'
  BY DEF ProcessOK, KnowledgeOK, Stable, ReadableJournal
<1>5. UpdateOK(append[p]) => UpdateOK(append[p])'
  BY UpdateStays
<1>6. AppendOK(p)'
  BY <1>5 DEF ProcessOK, AppendOK, Wanted, ReleaseOf
<1>. QED
  BY <1>2, <1>3, <1>4, <1>6 DEF ProcessOK

\* A process that is through with the head of its phases, and has what that phase
\* was to establish.
LEMMA AdvanceOK ==
    ASSUME TypeInv, Stable, NEW p \in Process, ProcessOK(p), todo[p] # <<>>,
           todo'[p] = Tail(todo[p]), program'[p] = program[p], seen[p] \subseteq seen'[p],
           Head(todo[p]) \in {"remove", "observe", "sweep"} =>
              (sandbox' # "creating" => Gone'),
           Head(todo[p]) = "replay" => Allocated \in seen'[p],
           Head(todo[p]) = "release" =>
              Released(journal') # {} /\ (program[p] = "cleanup" => Previous(seen'[p]) # {})
    PROVE  ReleaseOK(p)' /\ ReplayOK(p)' /\ PersistOK(p)' /\ WorkOK(p)'
<1>. DEFINE t == todo[p]
<1>1. t \in Seq(Phase) /\ t # <<>> /\ todo'[p] = Tail(t)
  BY DEF TypeInv
<1>2. Released(journal) # {} => Released(journal') # {}
  BY DEF Stable, Released
<1>3. Previous(seen[p]) # {} => Previous(seen'[p]) # {}
  BY DEF Previous
<1>4. /\ ReleaseOK(p) /\ ReplayOK(p) /\ PersistOK(p) /\ WorkOK(p)
  BY DEF ProcessOK
<1>5. ASSUME NEW i \in DOMAIN Tail(t)
      PROVE  /\ i + 1 \in DOMAIN t /\ Tail(t)[i] = t[i + 1]
             /\ \A s : Before(t, i + 1, s) => Head(t) \in s \/ Before(Tail(t), i, s)
  BY <1>1, TailBefore
<1>6. ReleaseOK(p)'
  <2>. SUFFICES ASSUME NEW i \in DOMAIN Tail(t), Tail(t)[i] = "release"
                PROVE  /\ sandbox' # "creating"
                       /\ Gone' \/ Before(Tail(t), i, {"remove", "observe", "sweep"})
                       /\ IF evidence.retained
                          THEN /\ program[p] \notin {"not-allocated", "completed-create"}
                               /\ Allocated \in seen'[p] \/ Before(Tail(t), i, {"replay"})
                          ELSE program[p] \in {"not-allocated", "completed-create", "cleanup"}
    BY <1>1 DEF ReleaseOK, Stable, Before
  <2>1. i + 1 \in DOMAIN t /\ t[i + 1] = "release"
    BY <1>5
  <2>2. /\ sandbox # "creating"
        /\ Gone \/ Before(t, i + 1, {"remove", "observe", "sweep"})
        /\ IF evidence.retained
           THEN /\ program[p] \notin {"not-allocated", "completed-create"}
                /\ Allocated \in seen[p] \/ Before(t, i + 1, {"replay"})
           ELSE program[p] \in {"not-allocated", "completed-create", "cleanup"}
    BY <1>4, <2>1 DEF ReleaseOK
  <2>3. sandbox' # "creating"
    BY <2>2 DEF Stable
  <2>4. Gone' \/ Before(Tail(t), i, {"remove", "observe", "sweep"})
    BY <1>5, <2>2, <2>3 DEF Stable
  <2>5. evidence.retained => Allocated \in seen'[p] \/ Before(Tail(t), i, {"replay"})
    BY <1>5, <2>2
  <2>. QED
    BY <2>2, <2>3, <2>4, <2>5
<1>7. ReplayOK(p)'
  BY <1>1, <1>4, <1>5 DEF ReplayOK, Stable
<1>8. PersistOK(p)'
  <2>. SUFFICES ASSUME NEW i \in DOMAIN Tail(t), Tail(t)[i] = "persist"
                PROVE  /\ program[p] = "cleanup"
                       /\ Previous(seen'[p]) # {} \/ Before(Tail(t), i, {"release"})
    BY <1>1 DEF PersistOK, Before
  <2>1. /\ program[p] = "cleanup"
        /\ Previous(seen[p]) # {} \/ Before(t, i + 1, {"release"})
    BY <1>4, <1>5 DEF PersistOK
  <2>. QED
    BY <1>3, <1>5, <2>1
<1>9. WorkOK(p)'
  <2>. SUFFICES ASSUME NEW i \in DOMAIN Tail(t), Tail(t)[i] = "work"
                PROVE  /\ program[p] = "admission"
                       /\ Released(journal') # {} \/ Before(Tail(t), i, {"release"})
    BY <1>1 DEF WorkOK, Before, Released
  <2>1. /\ program[p] = "admission"
        /\ Released(journal) # {} \/ Before(t, i + 1, {"release"})
    BY <1>4, <1>5 DEF WorkOK
  <2>. QED
    BY <1>2, <1>5, <2>1
<1>. QED
  BY <1>6, <1>7, <1>8, <1>9

\* The rest of what a process that advances without an append keeps.
LEMMA QuietAdvance ==
    ASSUME TypeInv, Stable, NEW p \in Process, ProcessOK(p), todo[p] # <<>>, append[p] = None,
           todo'[p] = Tail(todo[p]), program'[p] = program[p], seen'[p] = seen[p],
           append'[p] = append[p], cached'[p] = cached[p],
           Head(todo[p]) \notin {"replay", "release"},
           Head(todo[p]) \in {"remove", "observe", "sweep"} =>
              (sandbox' # "creating" => Gone')
    PROVE  ProcessOK(p)'
<1>1. ReleaseOK(p)' /\ ReplayOK(p)' /\ PersistOK(p)' /\ WorkOK(p)'
  BY AdvanceOK
<1>2. KnowledgeOK(p)'
  BY DEF ProcessOK, KnowledgeOK, Stable, ReadableJournal
<1>3. AppendOK(p)'
  BY DEF AppendOK
<1>. QED
  BY <1>1, <1>2, <1>3 DEF ProcessOK

\* A process that ends.
LEMMA EndOK ==
    ASSUME TypeInv, Stable, NEW p \in Process, ProcessOK(p), End(p)
    PROVE  ProcessOK(p)'
<1>1. todo'[p] = <<>> /\ append'[p] = None
  BY DEF End, TypeInv
<1>2. program'[p] = program[p] /\ seen'[p] = seen[p] /\ cached'[p] = cached[p]
  BY DEF End
<1>3. ReleaseOK(p)' /\ ReplayOK(p)' /\ PersistOK(p)' /\ WorkOK(p)' /\ AppendOK(p)'
  BY <1>1 DEF ReleaseOK, ReplayOK, PersistOK, WorkOK, AppendOK
<1>4. KnowledgeOK(p)'
  BY <1>2 DEF ProcessOK, KnowledgeOK, Stable, ReadableJournal
<1>. QED
  BY <1>2, <1>3, <1>4 DEF ProcessOK

-----------------------------------------------------------------------------
(* Appends                                                                 *)

\* What an append builds on is a readable journal that holds what is known.
LEMMA BaseOK ==
    ASSUME TypeInv, JournalOK, NEW p \in Process, ProcessOK(p)
    PROVE  /\ Base(p) \in SUBSET Record /\ ReadableJournal(Base(p)) /\ seen[p] \subseteq Base(p)
           /\ Base(p) # {}
<1>1. CASE cached[p] # {}
  BY <1>1 DEF Base, TypeInv, ProcessOK, KnowledgeOK
<1>2. CASE cached[p] = {}
  BY <1>2 DEF Base, TypeInv, ProcessOK, KnowledgeOK, JournalOK, ReadableJournal
<1>. QED
  BY <1>1, <1>2

\* The record an append is about.
LEMMA WantedOK ==
    ASSUME TypeInv, EvidenceOK, JournalOK, NEW p \in Process, ProcessOK(p), todo[p] # <<>>,
           Head(todo[p]) \in {"replay", "release"}
    PROVE  /\ Wanted(p) \in Record /\ Wanted(p) # Other
           /\ Head(todo[p]) = "replay" => Wanted(p) = Allocated /\ evidence.retained
           /\ Head(todo[p]) = "release" =>
                 /\ Gone
                 /\ Wanted(p).kind \in {"released", "cleanup-attested"}
                 /\ Wanted(p).kind = "released" =>
                       IF evidence.retained
                       THEN Wanted(p).outcome = "absent" /\ Allocated \in seen[p]
                       ELSE Wanted(p).outcome # "absent"
                 /\ Wanted(p).kind = "cleanup-attested" => Absent \in seen[p]
                 /\ program[p] = "cleanup" => Wanted(p).by # "none"
<1>. DEFINE t == todo[p]
<1>1. 1 \in DOMAIN t /\ Head(t) = t[1] /\ \A s : ~Before(t, 1, s)
  <2>1. t \in Seq(Phase) /\ t # <<>>
    BY DEF TypeInv
  <2>2. 1 \in DOMAIN t /\ Head(t) = t[1] /\ DOMAIN t = 1 .. Len(t)
    BY <2>1
  <2>. QED
    BY <2>2 DEF Before
<1>2. CASE Head(t) = "replay"
  <2>1. evidence.retained
    BY <1>1, <1>2 DEF ProcessOK, ReplayOK
  <2>2. Wanted(p) = Allocated
    BY <1>2 DEF Wanted
  <2>3. Allocated # Other
    BY DEF Allocated, Other, Rec
  <2>. QED
    BY <1>2, <2>1, <2>2, <2>3, Kinds
<1>3. CASE Head(t) = "release"
  <2>1. /\ Gone
        /\ IF evidence.retained
           THEN program[p] \notin {"not-allocated", "completed-create"} /\ Allocated \in seen[p]
           ELSE program[p] \in {"not-allocated", "completed-create", "cleanup"}
    BY <1>1, <1>3 DEF ProcessOK, ReleaseOK
  <2>2. Wanted(p) = ReleaseOf(p)
    BY <1>3 DEF Wanted
  <2>3. p \in Operators \/ program[p] = "admission"
    BY DEF ProcessOK
  <2>4. ~evidence.retained => Absent \notin seen[p] /\ Allocated \notin seen[p]
    <3>1. seen[p] \subseteq journal /\ ReadableJournal(journal)
      BY DEF ProcessOK, KnowledgeOK, JournalOK
    <3>. QED
      BY <3>1 DEF ReadableJournal, Absent, Rec
  <2>. USE DEF ReleaseOf
  <2>5. CASE program[p] = "not-allocated"
    BY <1>3, <2>1, <2>2, <2>5, Kinds DEF NotAllocated, Other, Rec
  <2>6. CASE program[p] = "completed-create"
    BY <1>3, <2>1, <2>2, <2>6, Kinds DEF CompletedCreate, Other, Rec
  <2>7. CASE program[p] = "cleanup"
    <3>1. p \in Operators /\ p # "none"
      BY <2>3, <2>7, OperatorsAssumption
    <3>2. CASE Absent \in seen[p]
      BY <1>3, <2>1, <2>2, <2>7, <3>1, <3>2, Kinds DEF Attested, Other, Rec
    <3>3. CASE Absent \notin seen[p] /\ Allocated \in seen[p]
      BY <1>3, <2>1, <2>2, <2>4, <2>7, <3>1, <3>3, Kinds DEF Recovered, Other, Rec
    <3>4. CASE Absent \notin seen[p] /\ Allocated \notin seen[p]
      BY <1>3, <2>1, <2>2, <2>7, <3>1, <3>4, Kinds DEF PostRun, Other, Rec
    <3>. QED
      BY <3>2, <3>3, <3>4
  <2>8. CASE program[p] \notin {"not-allocated", "completed-create", "cleanup"}
    BY <1>3, <2>1, <2>2, <2>8, Kinds DEF Absent, Other, Rec
  <2>. QED
    BY <2>5, <2>6, <2>7, <2>8
<1>. QED
  BY <1>2, <1>3

\* What a process issues may land on the journal it was issued for.
LEMMA IssueOK ==
    ASSUME TypeInv, EvidenceOK, JournalOK, NEW p \in Process, ProcessOK(p), Issue(p)
    PROVE  /\ UpdateOK(Update(Base(p), Wanted(p))) /\ Update(Base(p), Wanted(p)) \in Updates
           /\ todo[p] # <<>> /\ Head(todo[p]) \in {"replay", "release"}
<1>1. todo[p] # <<>> /\ Head(todo[p]) \in {"replay", "release"} /\ ~Has(Base(p), Wanted(p).kind)
  BY DEF Issue, Doing, NoneOfTheKind
<1>. DEFINE b == Base(p)
            r == Wanted(p)
<1>2. b \in SUBSET Record /\ ReadableJournal(b) /\ seen[p] \subseteq b
  BY BaseOK
<1>3. evidence.retained \in BOOLEAN
  BY DEF TypeInv, Evidence
<1>4. r \in Record
  BY <1>1, WantedOK
<1>5. CASE Head(todo[p]) = "replay"
  <2>1. r = Allocated /\ evidence.retained
    BY <1>1, <1>5, WantedOK
  <2>2. r.kind = "allocated"
    BY <2>1 DEF Allocated, Rec
  <2>3. ReadableJournal(b \cup {r})
    BY <1>1, <1>2, <1>3, <1>4, <2>1, <2>2, AddsReadably
  <2>. QED
    BY <1>1, <1>2, <1>4, <2>2, <2>3 DEF UpdateOK, Update, Updates
<1>6. CASE Head(todo[p]) = "release"
  <2>1. /\ Gone
        /\ r.kind \in {"released", "cleanup-attested"}
        /\ r.kind = "released" =>
              IF evidence.retained THEN r.outcome = "absent" /\ Allocated \in b
              ELSE r.outcome # "absent"
        /\ r.kind = "cleanup-attested" => Absent \in b
    BY <1>1, <1>2, <1>6, WantedOK
  <2>2. r # Allocated
    BY <2>1 DEF Allocated, Rec
  <2>3. ReadableJournal(b \cup {r})
    BY <1>1, <1>2, <1>3, <1>4, <2>1, <2>2, AddsReadably
  <2>. QED
    BY <1>1, <1>2, <1>4, <2>1, <2>3 DEF UpdateOK, Update, Updates
<1>. QED
  BY <1>1, <1>5, <1>6

\* An append that is applied, by whoever waits for it or not.
LEMMA AppendLands ==
    ASSUME TypeInv, JournalOK, NEW u \in Updates, UpdateOK(u), journal = u.base,
           journal' = journal \cup {u.record}, UNCHANGED <<evidence, sandbox, other>>,
           late' \subseteq late
    PROVE  JournalOK' /\ Stable /\ journal' \subseteq Record
<1>1. Stable /\ journal' \subseteq Record
  BY DEF Stable, TypeInv, Updates, Gone
<1>2. ReadableJournal(journal)'
  BY DEF UpdateOK, ReadableJournal
<1>3. Released(journal') # {} => Gone'
  BY DEF JournalOK, UpdateOK, Released, Gone
<1>4. Released(journal) # {} => Released(journal') # {}
  BY DEF Released
<1>5. \A v \in late' : UpdateOK(v)'
  BY <1>1, UpdateStays DEF JournalOK
<1>. QED
  BY <1>1, <1>2, <1>3, <1>4, <1>5 DEF JournalOK, Released

-----------------------------------------------------------------------------
(* Steps of a process                                                      *)

\* Acknowledged: the append landed, the process knows it and moves on.
LEMMA AcknowledgedOK ==
    ASSUME RecoveryInv, NEW p \in Process, Acknowledged(p)
    PROVE  RecoveryInv'
<1>1. TypeInv /\ EvidenceOK /\ JournalOK /\ ProcessOK(p)
  BY DEF RecoveryInv
<1>2. /\ append[p] # None /\ journal = append[p].base
      /\ journal' = journal \cup {append[p].record}
      /\ UNCHANGED <<evidence, late, sandbox, other, local, program, faults>>
  BY DEF Acknowledged
<1>3. /\ append[p] \in Updates /\ UpdateOK(append[p]) /\ append[p].record = Wanted(p)
      /\ todo[p] # <<>> /\ Head(todo[p]) \in {"replay", "release"}
  BY <1>1, <1>2 DEF ProcessOK, AppendOK, TypeInv
<1>4. JournalOK' /\ Stable /\ journal' \subseteq Record
  BY <1>1, <1>2, <1>3, AppendLands
<1>5. /\ seen' = [seen EXCEPT ![p] = @ \cup {append[p].record}]
      /\ cached' = [cached EXCEPT ![p] = journal']
      /\ append' = [append EXCEPT ![p] = None]
      /\ todo' = [todo EXCEPT ![p] = Tail(@)]
  BY DEF Acknowledged, Advance
<1>6. TypeInv'
  <2>1. append[p].record \in Record /\ None \in Updates
    BY <1>3, Kinds DEF Updates, None, Update
  <2>2. Tail(todo[p]) \in Seq(Phase)
    BY <1>1, <1>3 DEF TypeInv
  <2>. QED
    BY <1>1, <1>2, <1>4, <1>5, <2>1, <2>2 DEF TypeInv
<1>7. EvidenceOK'
  BY <1>1, <1>2 DEF EvidenceOK, Sealed, Known
<1>8. /\ todo'[p] = Tail(todo[p]) /\ seen'[p] = seen[p] \cup {Wanted(p)}
      /\ cached'[p] = journal' /\ append'[p] = None /\ program'[p] = program[p]
  BY <1>1, <1>2, <1>3, <1>5 DEF TypeInv
<1>9. seen[p] \subseteq journal
  BY <1>1 DEF ProcessOK, KnowledgeOK
<1>10. ReleaseOK(p)' /\ ReplayOK(p)' /\ PersistOK(p)' /\ WorkOK(p)'
  <2>1. Head(todo[p]) = "replay" => Allocated \in seen'[p]
    BY <1>1, <1>3, <1>8, WantedOK
  <2>2. ASSUME Head(todo[p]) = "release"
        PROVE  Released(journal') # {} /\ (program[p] = "cleanup" => Previous(seen'[p]) # {})
    <3>1. /\ Wanted(p).kind \in {"released", "cleanup-attested"}
          /\ Wanted(p).kind = "cleanup-attested" => Absent \in seen[p]
          /\ program[p] = "cleanup" => Wanted(p).by # "none"
      BY <1>1, <1>3, <2>2, WantedOK
    <3>2. Wanted(p) \in journal'
      BY <1>2, <1>3
    <3>3. CASE Wanted(p).kind = "released"
      BY <1>8, <3>1, <3>2, <3>3 DEF Released, Previous
    <3>4. CASE Wanted(p).kind = "cleanup-attested"
      BY <1>2, <1>8, <1>9, <3>1, <3>4 DEF Released, Previous, Absent, Rec
    <3>. QED
      BY <3>1, <3>3, <3>4
  <2>. QED
    BY <1>1, <1>3, <1>4, <1>8, <2>1, <2>2, AdvanceOK
<1>11. KnowledgeOK(p)'
  <2>1. ReadableJournal(journal)'
    BY <1>4 DEF JournalOK
  <2>2. seen'[p] \subseteq journal'
    BY <1>2, <1>3, <1>8, <1>9
  <2>. QED
    BY <1>8, <2>1, <2>2 DEF KnowledgeOK, ReadableJournal
<1>12. AppendOK(p)'
  BY <1>8 DEF AppendOK
<1>13. ProcessOK(p)'
  BY <1>1, <1>8, <1>10, <1>11, <1>12 DEF ProcessOK
<1>14. ASSUME NEW q \in Process, q # p PROVE ProcessOK(q)'
  <2>1. /\ program'[q] = program[q] /\ todo'[q] = todo[q] /\ seen'[q] = seen[q]
        /\ append'[q] = append[q] /\ cached'[q] = cached[q]
    BY <1>1, <1>2, <1>5, <1>14 DEF TypeInv
  <2>. QED
    BY <1>4, <2>1, ProcessStays DEF RecoveryInv
<1>. QED
  BY <1>4, <1>6, <1>7, <1>13, <1>14 DEF RecoveryInv

\* Issue: an append is in flight.
LEMMA IssueKeeps ==
    ASSUME RecoveryInv, NEW p \in Process, Issue(p)
    PROVE  RecoveryInv'
<1>1. TypeInv /\ EvidenceOK /\ JournalOK /\ ProcessOK(p)
  BY DEF RecoveryInv
<1>. DEFINE u == Update(Base(p), Wanted(p))
<1>2. UpdateOK(u) /\ u \in Updates /\ todo[p] # <<>> /\ Head(todo[p]) \in {"replay", "release"}
  BY <1>1, IssueOK
<1>3. /\ append' = [append EXCEPT ![p] = u]
      /\ UNCHANGED <<evidence, journalVars, sandbox, other, local, program, todo, seen, cached, faults>>
  BY DEF Issue
<1>. HIDE DEF u
<1>4. Stable
  BY <1>3 DEF Stable, journalVars, Gone
<1>5. TypeInv'
  BY <1>1, <1>2, <1>3 DEF TypeInv, journalVars
<1>6. EvidenceOK'
  BY <1>1, <1>3 DEF EvidenceOK, Sealed, Known
<1>7. JournalOK'
  <2>1. \A v \in late : UpdateOK(v)'
    BY <1>1, <1>4, UpdateStays DEF JournalOK
  <2>. QED
    BY <1>1, <1>3, <2>1 DEF JournalOK, ReadableJournal, Released, Gone, journalVars
<1>8. ProcessOK(p)'
  <2>1. append'[p] = u /\ u.record = Wanted(p)
    BY <1>1, <1>3 DEF TypeInv, u, Update
  <2>2. UpdateOK(u)'
    <3>1. u' = u
      BY <1>3 DEF u, Base, Wanted, ReleaseOf, journalVars
    <3>2. UNCHANGED <<evidence, sandbox>>
      BY <1>3
    <3>. QED
      BY <1>2, <3>1, <3>2 DEF UpdateOK, ReadableJournal, Gone
  <2>3. AppendOK(p)'
    <3>1. Wanted(p)' = Wanted(p) /\ todo'[p] = todo[p]
      BY <1>3 DEF Wanted, ReleaseOf
    <3>2. UpdateOK(append[p])'
      BY <1>2, <1>3, <2>1 DEF UpdateOK, ReadableJournal, Gone
    <3>. QED
      BY <1>2, <2>1, <3>1, <3>2 DEF AppendOK
  <2>4. ReleaseOK(p)' /\ ReplayOK(p)' /\ PersistOK(p)' /\ WorkOK(p)'
    BY <1>1, <1>3
       DEF ProcessOK, ReleaseOK, ReplayOK, PersistOK, WorkOK, Released, Gone, journalVars
  <2>5. KnowledgeOK(p)'
    BY <1>1, <1>3 DEF ProcessOK, KnowledgeOK, ReadableJournal, journalVars
  <2>. QED
    BY <1>1, <1>3, <2>3, <2>4, <2>5 DEF ProcessOK
<1>9. ASSUME NEW q \in Process, q # p PROVE ProcessOK(q)'
  <2>1. /\ program'[q] = program[q] /\ todo'[q] = todo[q] /\ seen'[q] = seen[q]
        /\ append'[q] = append[q] /\ cached'[q] = cached[q]
    BY <1>1, <1>3, <1>9 DEF TypeInv
  <2>. QED
    BY <1>4, <2>1, ProcessStays DEF RecoveryInv
<1>. QED
  BY <1>5, <1>6, <1>7, <1>8, <1>9 DEF RecoveryInv

\* What the world does to the sandboxes, while every process stays where it is.
LEMMA WorldKeeps ==
    ASSUME RecoveryInv, UNCHANGED <<evidence, journalVars, local, processVars, faults>>,
           other' \in {other, "none"},
           \/ UNCHANGED sandbox
           \/ sandbox = "running" /\ sandbox' = "gone"
           \/ sandbox = "creating" /\ sandbox' \in {"running", "none"}
    PROVE  RecoveryInv'
<1>1. TypeInv /\ EvidenceOK /\ JournalOK
  BY DEF RecoveryInv
<1>2. Stable
  BY DEF Stable, journalVars, Gone
<1>3. TypeInv'
  BY <1>1 DEF TypeInv, journalVars, processVars
<1>4. EvidenceOK'
  BY <1>1 DEF EvidenceOK, Sealed, Known
<1>5. JournalOK'
  <2>1. \A v \in late : UpdateOK(v)'
    BY <1>1, <1>2, UpdateStays DEF JournalOK
  <2>2. Gone => Gone'
    BY <1>2 DEF Stable
  <2>3. ReadableJournal(journal)' /\ Released(journal)' = Released(journal)
    BY <1>1 DEF JournalOK, ReadableJournal, Released, journalVars
  <2>. QED
    BY <1>1, <2>1, <2>2, <2>3 DEF JournalOK, journalVars
<1>6. ASSUME NEW q \in Process PROVE ProcessOK(q)'
  BY <1>2, ProcessStays DEF RecoveryInv, processVars
<1>. QED
  BY <1>3, <1>4, <1>5, <1>6 DEF RecoveryInv

\* A process advances over a phase that appends nothing.
LEMMA AdvanceKeeps ==
    ASSUME RecoveryInv, NEW p \in Process, todo[p] # <<>>, append[p] = None, Advance(p),
           UNCHANGED <<evidence, journalVars, sandbox, program, seen, append, cached, faults>>,
           other' \in {other, "none"}, local' \in Operators \cup {"none"},
           Head(todo[p]) \notin {"replay", "release"},
           Head(todo[p]) \in {"remove", "observe", "sweep"} => sandbox # "running"
    PROVE  RecoveryInv'
<1>1. TypeInv /\ EvidenceOK /\ JournalOK /\ ProcessOK(p)
  BY DEF RecoveryInv
<1>2. Stable
  BY DEF Stable, journalVars, Gone
<1>3. todo' = [todo EXCEPT ![p] = Tail(@)] /\ Tail(todo[p]) \in Seq(Phase)
  BY <1>1 DEF Advance, TypeInv
<1>4. TypeInv'
  BY <1>1, <1>3 DEF TypeInv, journalVars
<1>5. EvidenceOK'
  BY <1>1 DEF EvidenceOK, Sealed, Known
<1>6. JournalOK'
  <2>1. \A v \in late : UpdateOK(v)'
    BY <1>1, <1>2, UpdateStays DEF JournalOK
  <2>2. ReadableJournal(journal)' /\ Released(journal)' = Released(journal)
    BY <1>1 DEF JournalOK, ReadableJournal, Released, journalVars
  <2>. QED
    BY <1>1, <2>1, <2>2 DEF JournalOK, Gone, journalVars
<1>7. ProcessOK(p)'
  <2>1. todo'[p] = Tail(todo[p])
    BY <1>1, <1>3 DEF TypeInv
  <2>2. Head(todo[p]) \in {"remove", "observe", "sweep"} => (sandbox' # "creating" => Gone')
    BY <1>1 DEF TypeInv, Gone
  <2>. QED
    BY <1>1, <1>2, <2>1, <2>2, QuietAdvance
<1>8. ASSUME NEW q \in Process, q # p PROVE ProcessOK(q)'
  <2>1. todo'[q] = todo[q]
    BY <1>1, <1>3, <1>8 DEF TypeInv
  <2>. QED
    BY <1>2, <2>1, ProcessStays DEF RecoveryInv
<1>. QED
  BY <1>4, <1>5, <1>6, <1>7, <1>8 DEF RecoveryInv

\* A release of ownership that was attributed is attributed to an operator.
LEMMA KeptIsOperator ==
    ASSUME RecoveryInv, NEW o \in Operators, Doing(o, "persist")
    PROVE  Kept(o) \in Operators
<1>1. TypeInv /\ ProcessOK(o)
  BY DEF RecoveryInv, Process
<1>2. todo[o] \in Seq(Phase) /\ todo[o] # <<>> /\ Head(todo[o]) = "persist"
  BY <1>1 DEF TypeInv, Doing, Process
<1>3. 1 \in DOMAIN todo[o] /\ todo[o][1] = "persist" /\ DOMAIN todo[o] = 1 .. Len(todo[o])
  BY <1>2
<1>4. Previous(seen[o]) # {}
  BY <1>1, <1>3 DEF ProcessOK, PersistOK, Before
<1>5. PICK r \in Previous(seen[o]) : Recovery(o) = r
  BY <1>4 DEF Recovery
<1>6. r \in Record /\ r.by # "none"
  BY <1>1 DEF TypeInv, Previous, Process
<1>7. r.by \in Operators
  BY <1>6
     DEF Record, Intent, Allocated, Other, Absent, NotAllocated, CompletedCreate, Recovered,
         PostRun, Attested, Rec
<1>. QED
  BY <1>5, <1>7 DEF Kept

\* The phases without an append: quiet, read, remove, observe, sweep, persist.
LEMMA PhasesKeep ==
    ASSUME RecoveryInv, NEW p \in Process,
           \/ Quiescent(p) \/ Read(p) \/ Remove(p) \/ Observe(p) \/ Sweep(p)
           \/ p \in Operators /\ Persist(p)
    PROVE  RecoveryInv'
<1>1. TypeInv
  BY DEF RecoveryInv
<1>2. CASE Quiescent(p)
  BY <1>1, <1>2, AdvanceKeeps DEF Quiescent, Doing, TypeInv
<1>3. CASE Read(p)
  BY <1>1, <1>3, AdvanceKeeps DEF Read, Doing, TypeInv
<1>4. CASE Observe(p)
  BY <1>1, <1>4, AdvanceKeeps DEF Observe, Doing, TypeInv
<1>5. CASE Remove(p) /\ sandbox # "running"
  BY <1>1, <1>5, AdvanceKeeps DEF Remove, Doing, TypeInv
<1>6. CASE Remove(p) /\ sandbox = "running"
  BY <1>6, WorldKeeps DEF Remove, processVars
<1>7. CASE Sweep(p) /\ sandbox # "running" /\ other # "running"
  BY <1>1, <1>7, AdvanceKeeps DEF Sweep, Doing, TypeInv
<1>8. CASE Sweep(p) /\ (sandbox = "running" \/ other = "running")
  BY <1>8, WorldKeeps DEF Sweep, processVars
<1>9. CASE p \in Operators /\ Persist(p)
  BY <1>1, <1>9, AdvanceKeeps, KeptIsOperator DEF Persist, Doing, TypeInv
<1>. QED
  BY <1>2, <1>3, <1>4, <1>5, <1>6, <1>7, <1>8, <1>9

\* A record of another attempt, under an admission that released this one.
LEMMA WorkKeeps ==
    ASSUME RecoveryInv, Work
    PROVE  RecoveryInv'
<1>1. TypeInv /\ EvidenceOK /\ JournalOK /\ Workflow \in Process
  BY DEF RecoveryInv, Process
<1>2. todo[Workflow] \in Seq(Phase) /\ todo[Workflow] # <<>> /\ Head(todo[Workflow]) = "work"
      /\ append[Workflow] = None
  BY <1>1 DEF Work, Doing, TypeInv
<1>3. CASE other = "running" /\ other' = "none" /\ Advance(Workflow) /\ UNCHANGED journal
  BY <1>1, <1>2, <1>3, AdvanceKeeps DEF Work, TypeInv, journalVars
<1>4. CASE other = "none" /\ other' = "running" /\ journal' = journal \cup {Other} /\ UNCHANGED todo
  <2>1. UNCHANGED <<evidence, late, sandbox, local, processVars, faults>>
    BY <1>4 DEF Work, processVars
  <2>2. ReadableJournal(journal \cup {Other}) /\ Released(journal \cup {Other}) = Released(journal)
    BY <1>1, OtherIsApart DEF JournalOK, TypeInv
  <2>3. Released(journal) # {}
    <3>1. 1 \in DOMAIN todo[Workflow] /\ todo[Workflow][1] = "work"
          /\ DOMAIN todo[Workflow] = 1 .. Len(todo[Workflow])
      BY <1>2
    <3>. QED
      BY <1>1, <3>1 DEF RecoveryInv, ProcessOK, WorkOK, Before
  <2>4. Stable
    BY <1>4, <2>1 DEF Stable, Gone
  <2>5. TypeInv'
    BY <1>1, <1>4, <2>1, Kinds DEF TypeInv, processVars
  <2>6. EvidenceOK'
    BY <1>1, <2>1 DEF EvidenceOK, Sealed, Known
  <2>7. JournalOK'
    <3>1. \A v \in late : UpdateOK(v)'
      BY <1>1, <2>4, UpdateStays DEF JournalOK
    <3>2. ReadableJournal(journal)' /\ Released(journal)' = Released(journal)
      BY <1>4, <2>1, <2>2 DEF ReadableJournal, Released
    <3>. QED
      BY <1>1, <2>1, <2>3, <3>1, <3>2 DEF JournalOK, Gone
  <2>8. ASSUME NEW q \in Process PROVE ProcessOK(q)'
    BY <2>1, <2>4, ProcessStays DEF RecoveryInv, processVars
  <2>. QED
    BY <2>5, <2>6, <2>7, <2>8 DEF RecoveryInv
<1>. QED
  BY <1>3, <1>4 DEF Work

\* A process that ends, with its append applied, lost or still to land.
LEMMA EndKeeps ==
    ASSUME RecoveryInv, NEW p \in Process, Refuse(p) \/ GiveUp(p)
    PROVE  RecoveryInv'
<1>1. TypeInv /\ EvidenceOK /\ JournalOK /\ ProcessOK(p)
  BY DEF RecoveryInv
<1>2. End(p) /\ todo[p] # <<>>
  BY DEF Refuse, GiveUp
<1>3. /\ todo' = [todo EXCEPT ![p] = <<>>] /\ append' = [append EXCEPT ![p] = None]
      /\ UNCHANGED <<evidence, sandbox, other, local, program, seen, cached>>
  BY <1>2 DEF End
<1>4. None \in Updates /\ <<>> \in Seq(Phase)
  BY Kinds DEF Updates, None, Update
<1>5. faults' \in 0..MaxFaults
  BY <1>1, FaultsAssumption DEF Refuse, GiveUp, TypeInv
<1>6. append[p] # None => append[p] \in Updates /\ UpdateOK(append[p])
  BY <1>1 DEF ProcessOK, AppendOK, TypeInv
<1>7. JournalOK' /\ Stable /\ journal' \subseteq Record /\ late' \subseteq Updates
  <2>1. CASE UNCHANGED journalVars
    <3>1. Stable
      BY <1>3, <2>1 DEF Stable, Gone, journalVars
    <3>2. \A v \in late : UpdateOK(v)'
      BY <1>1, <3>1, UpdateStays DEF JournalOK
    <3>. QED
      BY <1>1, <1>3, <2>1, <3>1, <3>2
         DEF JournalOK, ReadableJournal, Released, Gone, TypeInv, journalVars
  <2>2. CASE /\ append[p] # None /\ journal = append[p].base
             /\ journal' = journal \cup {append[p].record} /\ UNCHANGED late
    <3>1. JournalOK' /\ Stable /\ journal' \subseteq Record
      BY <1>1, <1>3, <1>6, <2>2, AppendLands
    <3>. QED
      BY <1>1, <2>2, <3>1 DEF TypeInv
  <2>3. CASE append[p] # None /\ late' = late \cup {append[p]} /\ UNCHANGED journal
    <3>1. Stable
      BY <1>3, <2>3 DEF Stable, Gone
    <3>2. \A v \in late' : UpdateOK(v)
      BY <1>1, <1>6, <2>3 DEF JournalOK
    <3>3. \A v \in late' : UpdateOK(v)'
      BY <3>1, <3>2, UpdateStays
    <3>4. late' \subseteq Updates
      BY <1>1, <1>6, <2>3 DEF TypeInv
    <3>5. ReadableJournal(journal)' /\ Released(journal)' = Released(journal)
      BY <1>1, <1>3, <2>3 DEF JournalOK, ReadableJournal, Released
    <3>. QED
      BY <1>1, <1>3, <2>3, <3>1, <3>3, <3>4, <3>5 DEF JournalOK, Gone, TypeInv
  <2>. QED
    BY <2>1, <2>2, <2>3 DEF Refuse, GiveUp
<1>8. TypeInv'
  BY <1>1, <1>3, <1>4, <1>5, <1>7 DEF TypeInv
<1>9. EvidenceOK'
  BY <1>1, <1>3 DEF EvidenceOK, Sealed, Known
<1>10. ProcessOK(p)'
  BY <1>1, <1>2, <1>7, EndOK
<1>11. ASSUME NEW q \in Process, q # p PROVE ProcessOK(q)'
  <2>1. /\ program'[q] = program[q] /\ todo'[q] = todo[q] /\ seen'[q] = seen[q]
        /\ append'[q] = append[q] /\ cached'[q] = cached[q]
    BY <1>1, <1>3, <1>11 DEF TypeInv
  <2>. QED
    BY <1>7, <2>1, ProcessStays DEF RecoveryInv
<1>. QED
  BY <1>7, <1>8, <1>9, <1>10, <1>11 DEF RecoveryInv

\* An append nobody waits for any more.
LEMMA LateKeeps ==
    ASSUME RecoveryInv, NEW u \in late, LateLands(u)
    PROVE  RecoveryInv'
<1>1. TypeInv /\ EvidenceOK /\ JournalOK
  BY DEF RecoveryInv
<1>2. /\ journal = u.base /\ journal' = journal \cup {u.record} /\ late' = late \ {u}
      /\ UNCHANGED <<evidence, sandbox, other, local, processVars, faults>>
  BY DEF LateLands
<1>3. u \in Updates /\ UpdateOK(u)
  BY <1>1 DEF TypeInv, JournalOK
<1>4. JournalOK' /\ Stable /\ journal' \subseteq Record
  BY <1>1, <1>2, <1>3, AppendLands
<1>5. TypeInv'
  BY <1>1, <1>2, <1>4 DEF TypeInv, processVars
<1>6. EvidenceOK'
  BY <1>1, <1>2 DEF EvidenceOK, Sealed, Known
<1>7. ASSUME NEW q \in Process PROVE ProcessOK(q)'
  BY <1>2, <1>4, ProcessStays DEF RecoveryInv, processVars
<1>. QED
  BY <1>4, <1>5, <1>6, <1>7 DEF RecoveryInv

-----------------------------------------------------------------------------
(* Commands and admissions that begin                                      *)

\* A process that begins knows the journal, and has nothing in flight.
LEMMA BeginKeeps ==
    ASSUME RecoveryInv, NEW p \in Process, todo[p] = <<>>,
           NEW phases \in Seq(Phase), NEW command \in Program,
           p \in Operators \/ command = "admission",
           program' = [program EXCEPT ![p] = command],
           todo' = [todo EXCEPT ![p] = phases],
           seen' = [seen EXCEPT ![p] = Mine],
           cached' = [cached EXCEPT ![p] = {}],
           UNCHANGED <<evidence, journalVars, sandbox, other, local, append, faults>>,
           ReleaseOK(p)', ReplayOK(p)', PersistOK(p)', WorkOK(p)'
    PROVE  RecoveryInv'
<1>1. TypeInv /\ EvidenceOK /\ JournalOK /\ ProcessOK(p)
  BY DEF RecoveryInv
<1>2. Stable
  BY DEF Stable, Gone, journalVars
<1>3. Mine \subseteq Record
  BY <1>1 DEF Mine, TypeInv
<1>4. TypeInv'
  BY <1>1, <1>3 DEF TypeInv, journalVars
<1>5. EvidenceOK'
  BY <1>1 DEF EvidenceOK, Sealed, Known
<1>6. JournalOK'
  <2>1. \A v \in late : UpdateOK(v)'
    BY <1>1, <1>2, UpdateStays DEF JournalOK
  <2>. QED
    BY <1>1, <2>1 DEF JournalOK, ReadableJournal, Released, Gone, journalVars
<1>7. ProcessOK(p)'
  <2>1. append'[p] = None
    BY <1>1 DEF ProcessOK, AppendOK
  <2>2. seen'[p] = Mine /\ cached'[p] = {} /\ program'[p] = command
    BY <1>1 DEF TypeInv
  <2>3. KnowledgeOK(p)'
    BY <2>2 DEF KnowledgeOK, Mine, journalVars
  <2>. QED
    BY <2>1, <2>2, <2>3 DEF ProcessOK, AppendOK
<1>8. ASSUME NEW q \in Process, q # p PROVE ProcessOK(q)'
  <2>1. /\ program'[q] = program[q] /\ todo'[q] = todo[q] /\ seen'[q] = seen[q]
        /\ append'[q] = append[q] /\ cached'[q] = cached[q]
    BY <1>1, <1>8 DEF TypeInv
  <2>. QED
    BY <1>2, <2>1, ProcessStays DEF RecoveryInv
<1>. QED
  BY <1>4, <1>5, <1>6, <1>7, <1>8 DEF RecoveryInv

\* What has to stand in the phases of a command for it to begin with them.
LEMMA StartKeeps ==
    ASSUME RecoveryInv, NEW p \in Process, todo[p] = <<>>,
           NEW phases \in Seq(Phase), NEW command \in Program,
           p \in Operators \/ command = "admission",
           program' = [program EXCEPT ![p] = command],
           todo' = [todo EXCEPT ![p] = phases],
           seen' = [seen EXCEPT ![p] = Mine],
           cached' = [cached EXCEPT ![p] = {}],
           UNCHANGED <<evidence, journalVars, sandbox, other, local, append, faults>>,
           \A i \in DOMAIN phases : phases[i] = "release" =>
              /\ sandbox # "creating"
              /\ Gone \/ Before(phases, i, {"remove", "observe", "sweep"})
              /\ IF evidence.retained
                 THEN /\ command \notin {"not-allocated", "completed-create"}
                      /\ Allocated \in Mine \/ Before(phases, i, {"replay"})
                 ELSE command \in {"not-allocated", "completed-create", "cleanup"},
           \A i \in DOMAIN phases : phases[i] = "replay" => evidence.retained,
           \A i \in DOMAIN phases : phases[i] = "persist" =>
              /\ command = "cleanup"
              /\ Previous(Mine) # {} \/ Before(phases, i, {"release"}),
           \A i \in DOMAIN phases : phases[i] = "work" =>
              /\ command = "admission"
              /\ Released(journal) # {} \/ Before(phases, i, {"release"})
    PROVE  RecoveryInv'
<1>1. /\ program'[p] = command /\ todo'[p] = phases /\ seen'[p] = Mine
      /\ evidence' = evidence /\ sandbox' = sandbox /\ journal' = journal
  BY DEF RecoveryInv, TypeInv, journalVars
<1>2. ReleaseOK(p)'
  BY <1>1 DEF ReleaseOK, Gone
<1>3. ReplayOK(p)' /\ PersistOK(p)' /\ WorkOK(p)'
  BY <1>1 DEF ReplayOK, PersistOK, WorkOK, Released
<1>. QED
  BY <1>2, <1>3, BeginKeeps


\* recoverAllocatedIntent: the evidence retains the session it replays.
LEMMA AllocatedBegins ==
    ASSUME RecoveryInv, NEW o \in Operators, RecoverAllocatedIntent(o)
    PROVE  RecoveryInv'
<1>. DEFINE t == <<"quiet", "replay", "remove", "quiet", "read", "release">>
<1>1. /\ evidence.retained /\ todo[o] = <<>> /\ o \in Process
      /\ program' = [program EXCEPT ![o] = "allocated"] /\ todo' = [todo EXCEPT ![o] = t]
      /\ seen' = [seen EXCEPT ![o] = Mine] /\ cached' = [cached EXCEPT ![o] = {}]
      /\ UNCHANGED <<evidence, journalVars, sandbox, other, local, append, faults>>
  BY DEF RecoverAllocatedIntent, NeverHandedOver, Begin, AllocatedPhases, Process
<1>2. sandbox \in {"running", "gone"}
  BY <1>1 DEF RecoveryInv, EvidenceOK, Known
<1>3. t \in Seq(Phase) /\ "allocated" \in Program
  BY DEF Phase, Program
<1>4. \A i \in DOMAIN t : t[i] \notin {"persist", "work"} /\ (t[i] = "release" => i = 6)
  OBVIOUS
<1>5. Before(t, 6, {"remove", "observe", "sweep"}) /\ Before(t, 6, {"replay"})
  <2>1. 2 \in DOMAIN t /\ t[2] = "replay" /\ 3 \in DOMAIN t /\ t[3] = "remove"
    OBVIOUS
  <2>. QED
    BY <2>1 DEF Before
<1>. HIDE DEF t
<1>. QED
  BY <1>1, <1>2, <1>3, <1>4, <1>5, StartKeeps

\* recoverNotAllocatedIntent: nothing was ever created.
LEMMA NotAllocatedBegins ==
    ASSUME RecoveryInv, NEW o \in Operators, RecoverNotAllocatedIntent(o)
    PROVE  RecoveryInv'
<1>. DEFINE t == <<"quiet", "read", "quiet", "release">>
<1>1. /\ evidence.cleanup = "not-allocated" /\ todo[o] = <<>> /\ o \in Process
      /\ program' = [program EXCEPT ![o] = "not-allocated"] /\ todo' = [todo EXCEPT ![o] = t]
      /\ seen' = [seen EXCEPT ![o] = Mine] /\ cached' = [cached EXCEPT ![o] = {}]
      /\ UNCHANGED <<evidence, journalVars, sandbox, other, local, append, faults>>
  BY DEF RecoverNotAllocatedIntent, NeverStarted, Begin, Process
<1>2. sandbox = "none" /\ ~evidence.retained
  BY <1>1 DEF RecoveryInv, EvidenceOK, Sealed
<1>3. t \in Seq(Phase) /\ "not-allocated" \in Program
  BY DEF Phase, Program
<1>4. \A i \in DOMAIN t : t[i] \notin {"replay", "persist", "work"}
  OBVIOUS
<1>. HIDE DEF t
<1>. QED
  BY <1>1, <1>2, <1>3, <1>4, StartKeeps DEF Gone

\* recoverCompletedCreate: a reviewed failure, whose sandbox the sweep destroys.
LEMMA CompletedBegins ==
    ASSUME RecoveryInv, NEW o \in Operators, RecoverCompletedCreate(o)
    PROVE  RecoveryInv'
<1>. DEFINE t == <<"quiet", "sweep", "quiet", "read", "release">>
<1>1. /\ ~evidence.retained /\ evidence.detail = "completed-create"
      /\ todo[o] = <<>> /\ o \in Process
      /\ program' = [program EXCEPT ![o] = "completed-create"] /\ todo' = [todo EXCEPT ![o] = t]
      /\ seen' = [seen EXCEPT ![o] = Mine] /\ cached' = [cached EXCEPT ![o] = {}]
      /\ UNCHANGED <<evidence, journalVars, sandbox, other, local, append, faults>>
  BY DEF RecoverCompletedCreate, CreateCompleted, AnyUnidentified, Begin, CompletedPhases, Process
<1>2. sandbox \in {"running", "gone"}
  BY <1>1 DEF RecoveryInv, EvidenceOK, Known
<1>3. t \in Seq(Phase) /\ "completed-create" \in Program
  BY DEF Phase, Program
<1>4. \A i \in DOMAIN t : t[i] \notin {"replay", "persist", "work"} /\ (t[i] = "release" => i = 5)
  OBVIOUS
<1>5. Before(t, 5, {"remove", "observe", "sweep"})
  <2>1. 2 \in DOMAIN t /\ t[2] = "sweep"
    OBVIOUS
  <2>. QED
    BY <2>1 DEF Before
<1>. HIDE DEF t
<1>. QED
  BY <1>1, <1>2, <1>3, <1>4, <1>5, StartKeeps

\* recoverExperimentCleanup, by what it finds on the journal and in the evidence.
LEMMA CleanupBegins ==
    ASSUME RecoveryInv, NEW o \in Operators, RecoverExperimentCleanup(o)
    PROVE  RecoveryInv'
<1>1. /\ todo[o] = <<>> /\ o \in Process
      /\ program' = [program EXCEPT ![o] = "cleanup"]
      /\ seen' = [seen EXCEPT ![o] = Mine] /\ cached' = [cached EXCEPT ![o] = {}]
      /\ UNCHANGED <<evidence, journalVars, sandbox, other, local, append, faults>>
      /\ Previous(Mine) # {} \/ evidence.retained \/ evidence.detail = "named"
  BY DEF RecoverExperimentCleanup, CleanupApplies, Begin, Process
<1>2. "cleanup" \in Program
  BY DEF Program
<1>p. todo' = [todo EXCEPT ![o] = CleanupPhases]
  BY DEF RecoverExperimentCleanup, Begin
<1>3. CASE Previous(Mine) # {}
  <2>. DEFINE t == <<"persist">>
  <2>1. todo' = [todo EXCEPT ![o] = t]
    BY <1>p, <1>3 DEF CleanupPhases
  <2>2. t \in Seq(Phase) /\ \A i \in DOMAIN t : t[i] \notin {"release", "replay", "work"}
    BY DEF Phase
  <2>. HIDE DEF t
  <2>. QED
    BY <1>1, <1>2, <1>3, <2>1, <2>2, StartKeeps
<1>4. ASSUME Previous(Mine) = {} PROVE sandbox \in {"running", "gone"}
  BY <1>1, <1>4 DEF RecoveryInv, EvidenceOK, Known
<1>5. CASE Previous(Mine) = {} /\ ~evidence.retained
  <2>. DEFINE t == <<"quiet", "observe", "quiet", "read", "release", "persist">>
  <2>1. todo' = [todo EXCEPT ![o] = t]
    BY <1>p, <1>5 DEF CleanupPhases
  <2>2. t \in Seq(Phase)
    BY DEF Phase
  <2>3. \A i \in DOMAIN t : /\ t[i] \notin {"replay", "work"}
                            /\ t[i] = "release" => i = 5
                            /\ t[i] = "persist" => i = 6
    OBVIOUS
  <2>4. Before(t, 5, {"remove", "observe", "sweep"}) /\ Before(t, 6, {"release"})
    <3>1. 2 \in DOMAIN t /\ t[2] = "observe" /\ 5 \in DOMAIN t /\ t[5] = "release"
      OBVIOUS
    <3>. QED
      BY <3>1 DEF Before
  <2>. HIDE DEF t
  <2>. QED
    BY <1>1, <1>2, <1>4, <1>5, <2>1, <2>2, <2>3, <2>4, StartKeeps
<1>6. CASE Previous(Mine) = {} /\ evidence.retained /\ Allocated \in Mine
  <2>. DEFINE t == <<"quiet", "remove", "quiet", "read", "release", "persist">>
  <2>1. todo' = [todo EXCEPT ![o] = t]
    BY <1>p, <1>6 DEF CleanupPhases
  <2>2. t \in Seq(Phase)
    BY DEF Phase
  <2>3. \A i \in DOMAIN t : /\ t[i] \notin {"replay", "work"}
                            /\ t[i] = "release" => i = 5
                            /\ t[i] = "persist" => i = 6
    OBVIOUS
  <2>4. Before(t, 5, {"remove", "observe", "sweep"}) /\ Before(t, 6, {"release"})
    <3>1. 2 \in DOMAIN t /\ t[2] = "remove" /\ 5 \in DOMAIN t /\ t[5] = "release"
      OBVIOUS
    <3>. QED
      BY <3>1 DEF Before
  <2>. HIDE DEF t
  <2>. QED
    BY <1>1, <1>2, <1>4, <1>6, <2>1, <2>2, <2>3, <2>4, StartKeeps
<1>7. CASE Previous(Mine) = {} /\ evidence.retained /\ Allocated \notin Mine
  <2>. DEFINE t == <<"quiet", "read", "replay", "remove", "quiet", "read", "release", "persist">>
  <2>1. todo' = [todo EXCEPT ![o] = t]
    BY <1>p, <1>7 DEF CleanupPhases
  <2>2. t \in Seq(Phase)
    BY DEF Phase
  <2>3. \A i \in DOMAIN t : /\ t[i] # "work"
                            /\ t[i] = "release" => i = 7
                            /\ t[i] = "persist" => i = 8
    OBVIOUS
  <2>4. /\ Before(t, 7, {"remove", "observe", "sweep"}) /\ Before(t, 7, {"replay"})
        /\ Before(t, 8, {"release"})
    <3>1. /\ 3 \in DOMAIN t /\ t[3] = "replay" /\ 4 \in DOMAIN t /\ t[4] = "remove"
          /\ 7 \in DOMAIN t /\ t[7] = "release"
      OBVIOUS
    <3>. QED
      BY <3>1 DEF Before
  <2>. HIDE DEF t
  <2>. QED
    BY <1>1, <1>2, <1>4, <1>7, <2>1, <2>2, <2>3, <2>4, StartKeeps
<1>. QED
  BY <1>3, <1>5, <1>6, <1>7

\* recoverAccount: an open attempt is admitted only with its allocation recorded.
LEMMA AdmissionBegins ==
    ASSUME RecoveryInv, StartAdmission
    PROVE  RecoveryInv'
<1>1. /\ todo[Workflow] = <<>> /\ Workflow \in Process
      /\ seen' = [seen EXCEPT ![Workflow] = Mine] /\ cached' = [cached EXCEPT ![Workflow] = {}]
      /\ UNCHANGED <<evidence, journalVars, sandbox, other, local, append, faults>>
      /\ Released(Mine) # {} \/ Allocated \in Mine
  BY DEF StartAdmission, Admits, Process
<1>2. program' = [program EXCEPT ![Workflow] = "admission"] /\ "admission" \in Program
  BY <1>1, OperatorsAssumption DEF StartAdmission, RecoveryInv, TypeInv, ProcessOK, Program
<1>p. todo' = [todo EXCEPT ![Workflow] = AdmissionPhases]
  BY DEF StartAdmission
<1>3. ReadableJournal(journal) /\ EvidenceOK
  BY DEF RecoveryInv, JournalOK
<1>4. CASE Released(Mine) = {}
  <2>. DEFINE t == <<"remove", "release", "sweep", "work">>
  <2>1. todo' = [todo EXCEPT ![Workflow] = t]
    BY <1>p, <1>4 DEF AdmissionPhases
  <2>2. t \in Seq(Phase)
    BY DEF Phase
  <2>3. \A i \in DOMAIN t : /\ t[i] \notin {"replay", "persist"}
                            /\ t[i] = "release" => i = 2
                            /\ t[i] = "work" => i = 4
    OBVIOUS
  <2>4. Before(t, 2, {"remove", "observe", "sweep"}) /\ Before(t, 4, {"release"})
    <3>1. 1 \in DOMAIN t /\ t[1] = "remove" /\ 2 \in DOMAIN t /\ t[2] = "release"
      OBVIOUS
    <3>. QED
      BY <3>1 DEF Before
  <2>5. Allocated \in Mine /\ evidence.retained
    BY <1>1, <1>3, <1>4 DEF ReadableJournal, Mine
  <2>6. sandbox \in {"running", "gone"}
    BY <1>3, <2>5 DEF EvidenceOK, Known
  <2>. HIDE DEF t
  <2>. QED
    BY <1>1, <1>2, <2>1, <2>2, <2>3, <2>4, <2>5, <2>6, StartKeeps
<1>5. CASE Released(Mine) # {}
  <2>. DEFINE t == <<"sweep", "work">>
  <2>1. todo' = [todo EXCEPT ![Workflow] = t]
    BY <1>p, <1>5 DEF AdmissionPhases
  <2>2. t \in Seq(Phase) /\ \A i \in DOMAIN t : t[i] \notin {"release", "replay", "persist"}
    BY DEF Phase
  <2>3. Released(journal) # {}
    BY <1>5 DEF Released, Mine
  <2>. HIDE DEF t
  <2>. QED
    BY <1>1, <1>2, <2>1, <2>2, <2>3, StartKeeps
<1>. QED
  BY <1>4, <1>5

-----------------------------------------------------------------------------
(* The invariant holds                                                     *)

\* What a failed batch leaves satisfies the invariant.
LEMMA RecoveryInit == Init => RecoveryInv
<1>. SUFFICES ASSUME Init PROVE RecoveryInv
  OBVIOUS
<1>1. /\ evidence \in Evidence /\ Sealed(evidence) /\ sandbox \in Left(evidence)
      /\ journal = {Intent} \/ (journal = {Intent, Allocated} /\ evidence.retained)
      /\ late \subseteq Lost(evidence)
      /\ other = "none" /\ local = "none" /\ faults = 0
      /\ program = [p \in Process |-> "admission"]
      /\ todo = [p \in Process |-> <<>>]
      /\ seen = [p \in Process |-> {}]
      /\ append = [p \in Process |-> None]
      /\ cached = [p \in Process |-> {}]
  <2>1. evidence \in Evidence /\ Sealed(evidence)
    BY DEF Init
  <2>2. journal = {Intent} \/ (journal = {Intent, Allocated} /\ evidence.retained)
    <3>1. CASE evidence.executed
      BY <2>1, <3>1 DEF Init, Sealed
    <3>2. CASE ~evidence.executed /\ evidence.retained
      BY <3>2 DEF Init
    <3>3. CASE ~evidence.executed /\ ~evidence.retained
      BY <3>3 DEF Init
    <3>. QED
      BY <3>1, <3>2, <3>3
  <2>3. late \subseteq Lost(evidence)
    BY DEF Init
  <2>. QED
    BY <2>1, <2>2, <2>3 DEF Init
<1>2. evidence.retained \in BOOLEAN /\ evidence.cleanup \in {"unresolved", "not-allocated"}
  BY <1>1 DEF Evidence
<1>3. /\ sandbox \in {"none", "creating", "running", "gone"}
      /\ Known => sandbox \in {"running", "gone"}
      /\ evidence.cleanup = "not-allocated" => sandbox = "none"
  BY <1>1, <1>2 DEF Left, Known, Sealed
<1>4. /\ Intent.kind = "intent" /\ Allocated.kind = "allocated" /\ NotAllocated.kind = "released"
      /\ NotAllocated.outcome = "not-allocated"
  BY DEF Intent, Allocated, NotAllocated, Rec
<1>5. /\ ReadableJournal({Intent})
      /\ evidence.retained => ReadableJournal({Intent, Allocated})
  BY <1>4 DEF ReadableJournal, OneOfEachKind
<1>6. ~evidence.retained => ReadableJournal({Intent} \cup {NotAllocated})
  BY <1>4 DEF ReadableJournal, OneOfEachKind
<1>7. \A u \in late : u \in Updates /\ UpdateOK(u)
  <2>. SUFFICES ASSUME NEW u \in late PROVE u \in Updates /\ UpdateOK(u)
    OBVIOUS
  <2>1. CASE evidence.cleanup = "not-allocated"
    <3>1. u = Update({Intent}, NotAllocated)
      BY <1>1, <2>1 DEF Lost
    <3>2. ~evidence.retained /\ sandbox = "none"
      BY <1>1, <1>3, <2>1 DEF Sealed
    <3>. QED
      BY <1>6, <3>1, <3>2, Kinds DEF UpdateOK, Update, Updates, Gone
  <2>2. CASE evidence.cleanup # "not-allocated"
    <3>1. u = Update({Intent}, Allocated) /\ evidence.retained
      BY <1>1, <2>2 DEF Lost
    <3>2. {Intent} \cup {Allocated} = {Intent, Allocated}
      OBVIOUS
    <3>. QED
      BY <1>4, <1>5, <3>1, <3>2, Kinds DEF UpdateOK, Update, Updates
  <2>. QED
    BY <2>1, <2>2
<1>8. TypeInv
  <2>1. None \in Updates /\ <<>> \in Seq(Phase) /\ "admission" \in Program
    BY Kinds DEF Updates, None, Update, Program
  <2>2. journal \subseteq Record
    BY <1>1, Kinds
  <2>. QED
    BY <1>1, <1>3, <1>7, <2>1, <2>2, FaultsAssumption DEF TypeInv
<1>9. EvidenceOK
  BY <1>1, <1>3 DEF EvidenceOK
<1>10. JournalOK
  <2>1. ReadableJournal(journal) /\ Released(journal) = {}
    BY <1>1, <1>4, <1>5 DEF Released
  <2>. QED
    BY <1>1, <1>7, <2>1 DEF JournalOK
<1>11. ASSUME NEW p \in Process PROVE ProcessOK(p)
  BY <1>1
     DEF ProcessOK, ReleaseOK, ReplayOK, PersistOK, WorkOK, KnowledgeOK, AppendOK
<1>. QED
  BY <1>8, <1>9, <1>10, <1>11 DEF RecoveryInv

\* Every step keeps it.
LEMMA RecoveryStep == RecoveryInv /\ [Next]_vars => RecoveryInv'
<1>. SUFFICES ASSUME RecoveryInv, [Next]_vars PROVE RecoveryInv'
  OBVIOUS
<1>1. ASSUME NEW o \in Operators, Start(o) PROVE RecoveryInv'
  BY <1>1, AllocatedBegins, NotAllocatedBegins, CompletedBegins, CleanupBegins DEF Start
<1>2. ASSUME NEW o \in Operators, Command(o) PROVE RecoveryInv'
  BY <1>2, PhasesKeep, IssueKeeps, AcknowledgedOK, EndKeeps DEF Command, Process
<1>3. CASE StartAdmission
  BY <1>3, AdmissionBegins
<1>4. CASE Admission
  BY <1>4, WorkKeeps, PhasesKeep, IssueKeeps, AcknowledgedOK, EndKeeps DEF Admission, Process
<1>5. ASSUME NEW p \in Process, GiveUp(p) PROVE RecoveryInv'
  BY <1>5, EndKeeps
<1>6. ASSUME NEW u \in late, LateLands(u) PROVE RecoveryInv'
  BY <1>6, LateKeeps
<1>7. CASE Vendor
  BY <1>7, WorldKeeps DEF Vendor
<1>8. CASE UNCHANGED vars
  BY <1>8, WorldKeeps DEF vars, journalVars, processVars
<1>. QED
  BY <1>1, <1>2, <1>3, <1>4, <1>5, <1>6, <1>7, <1>8 DEF Next

\* It holds in every reachable state.
LEMMA RecoveryInvariant == Spec => []RecoveryInv
BY RecoveryInit, RecoveryStep, PTL DEF Spec

\* The variables keep their types, and faults their bound.
THEOREM TypeCorrect == Spec => []TypeOK
<1>1. RecoveryInv => TypeOK
  <2>. SUFFICES ASSUME TypeInv PROVE TypeOK
    BY DEF RecoveryInv
  <2>1. \A u \in late : u.record \in Record /\ u.base \subseteq Record
    BY DEF TypeInv, Updates
  <2>2. ASSUME NEW p \in Process
        PROVE  /\ \A i \in DOMAIN todo[p] : todo[p][i] \in Phase
               /\ seen[p] \subseteq Record
               /\ append[p].record \in Record /\ append[p].base \subseteq Record
               /\ cached[p] \subseteq Record
    <3>1. todo[p] \in Seq(Phase) /\ append[p] \in Updates
      BY DEF TypeInv
    <3>2. \A i \in DOMAIN todo[p] : todo[p][i] \in Phase
      BY <3>1
    <3>. QED
      BY <3>1, <3>2 DEF TypeInv, Updates
  <2>. QED
    BY <2>1, <2>2 DEF TypeInv, TypeOK
<1>. QED
  BY <1>1, RecoveryInvariant, PTL

LEMMA FourElements ==
    ASSUME NEW a, NEW b, NEW c, NEW d, a # b, c \notin {a, b}, d \notin {a, b, c}
    PROVE  Cardinality({a, b, c, d}) = 4
<1>1. IsFiniteSet({a}) /\ Cardinality({a}) = 1
  BY FS_Singleton, Zenon
<1>2. IsFiniteSet({a, b}) /\ Cardinality({a, b}) = 2
  <2>1. b \notin {a} /\ {a} \cup {b} = {a, b}
    OBVIOUS
  <2>2. IsFiniteSet({a} \cup {b}) /\ Cardinality({a} \cup {b}) = Cardinality({a}) + 1
    BY <1>1, <2>1, FS_AddElement, Zenon
  <2>. QED
    BY <1>1, <2>1, <2>2
<1>3. IsFiniteSet({a, b, c}) /\ Cardinality({a, b, c}) = 3
  <2>1. {a, b} \cup {c} = {a, b, c}
    OBVIOUS
  <2>2. IsFiniteSet({a, b} \cup {c}) /\ Cardinality({a, b} \cup {c}) = Cardinality({a, b}) + 1
    BY <1>2, FS_AddElement, Zenon
  <2>. QED
    BY <1>2, <2>1, <2>2
<1>. QED
  <2>1. {a, b, c} \cup {d} = {a, b, c, d}
    OBVIOUS
  <2>2. Cardinality({a, b, c} \cup {d}) = Cardinality({a, b, c}) + 1
    BY <1>3, FS_AddElement, Zenon
  <2>. QED
    BY <1>3, <2>1, <2>2

\* A journal of the invariant passes every check of recoverAccount.
LEMMA ReadableIsConsistent ==
    ASSUME NEW j \in SUBSET Record, ReadableJournal(j), evidence.retained \in BOOLEAN
    PROVE  Consistent(j \ {Other})
<1>. DEFINE m == j \ {Other}
<1>1. /\ Intent.kind = "intent" /\ Allocated.kind = "allocated" /\ Other.kind = "other"
      /\ Absent.kind = "released" /\ Absent.outcome = "absent"
  BY DEF Intent, Allocated, Other, Absent, Rec
<1>2. OneOfEachKind(m) /\ Intent \in m
  BY <1>1 DEF ReadableJournal, OneOfEachKind
<1>3. ReleaseFits(m)
  BY <1>1 DEF ReleaseFits, Released, ReadableJournal
<1>4. AttestationFits(m)
  <2>. SUFFICES ASSUME NEW a \in m, a.kind = "cleanup-attested"
                PROVE  Cardinality(m) = 4 /\ {Intent, Allocated, Absent} \subseteq m
    BY DEF AttestationFits
  <2>1. Absent \in m
    BY <1>1 DEF ReadableJournal
  <2>2. Allocated \in m
    BY <1>1, <2>1 DEF ReadableJournal
  <2>3. ASSUME NEW r \in m PROVE r \in {Intent, Allocated, Absent, a}
    <3>1. r.kind \in {"intent", "allocated", "released", "cleanup-attested"}
      <4>1. r \in Record /\ r # Other
        OBVIOUS
      <4>2. /\ r.kind = "other" => r = Other
            /\ r.kind \in {"intent", "allocated", "other", "released", "cleanup-attested"}
        BY <4>1, Kinds
      <4>. QED
        BY <4>1, <4>2
    <3>. QED
      BY <1>1, <1>2, <2>1, <2>2, <3>1 DEF OneOfEachKind
  <2>4. m = {Intent, Allocated, Absent, a}
    BY <1>2, <2>1, <2>2, <2>3
  <2>5. Intent # Allocated /\ Absent \notin {Intent, Allocated} /\ a \notin {Intent, Allocated, Absent}
    BY <1>1
  <2>6. Cardinality({Intent, Allocated, Absent, a}) = 4
    BY <2>5, FourElements, Zenon
  <2>. QED
    BY <1>2, <2>1, <2>2, <2>4, <2>6
<1>. QED
  BY <1>2, <1>3, <1>4 DEF Consistent

\* Whatever commands run, race or die, and whatever append lands late, the next
\* admission reads an account without a contradiction (recoverAccount).
THEOREM AdmissionNeverWedged == Spec => []NeverWedged
<1>1. RecoveryInv => NeverWedged
  BY ReadableIsConsistent DEF RecoveryInv, TypeInv, JournalOK, NeverWedged, Mine, Evidence
<1>. QED
  BY <1>1, RecoveryInvariant, PTL

\* A command releases ownership only of a sandbox that does not run and cannot
\* appear any more, on the evidence and after the phases it ran.
THEOREM ReleasesAreOfTheGone == Spec => []ReleasedMeansGone
<1>1. RecoveryInv => ReleasedMeansGone
  BY DEF RecoveryInv, JournalOK, ReleasedMeansGone, Mine, Released, Gone
<1>. QED
  BY <1>1, RecoveryInvariant, PTL

\* While the attempt is open no other workflow works on the account, so that no
\* sweep of a command meets a sandbox which is not the attempt's.
THEOREM WorkflowsSpared == Spec => SparesWorkflows
<1>1. RecoveryInv /\ [Next]_vars =>
        [(other = "running" /\ other' = "none") =>
            Work \/ Sweep(Workflow) \/ Released(Mine) # {}]_vars
  <2>. SUFFICES ASSUME RecoveryInv, other = "running" PROVE Released(Mine) # {}
    OBVIOUS
  <2>1. Released(journal) # {} /\ Released(journal \ {Other}) = Released(journal)
    BY OtherIsApart DEF RecoveryInv, TypeInv, JournalOK
  <2>. QED
    BY <2>1 DEF Mine
<1>. QED
  BY <1>1, RecoveryInvariant, PTL DEF Spec, SparesWorkflows
=============================================================================
