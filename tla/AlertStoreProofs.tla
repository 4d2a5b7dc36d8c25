-------------------------- MODULE AlertStoreProofs --------------------------
(***************************************************************************)
(* Theorems about AlertStore, for every set of ids, identifiers, senders   *)
(* and published records, every batch length and any number of restarts.   *)
(***************************************************************************)
EXTENDS AlertStoreLoop, FiniteSetTheorems, TLAPS

-----------------------------------------------------------------------------
(* What a batch is                                                         *)

\* A batch is a sequence of published records with distinct ids: `incoming'.
LEMMA BatchFacts ==
  ASSUME NEW batch \in Batches
  PROVE  /\ batch \in Seq(Record)
         /\ DOMAIN batch = 1 .. Len(batch)
         /\ Len(batch) \in Nat
         /\ \A i \in DOMAIN batch : batch[i] \in Record
         /\ \A i, j \in DOMAIN batch : batch[i].id = batch[j].id => i = j
<1>1. PICK n \in 0 .. MaxBatch : batch \in [1 .. n -> Published]
  BY DEF Batches
<1>2. batch \in [1 .. n -> Record] /\ n \in Nat
  BY <1>1, PublishedAssumption, BoundAssumption
<1>3. batch \in Seq(Record) /\ Len(batch) = n /\ DOMAIN batch = 1 .. n
  BY <1>2
<1>4. \A i, j \in DOMAIN batch : batch[i].id = batch[j].id => i = j
  BY DEF Batches
<1> QED
  BY <1>2, <1>3, <1>4

\* At finds the one position of an id the batch lists.
LEMMA AtFacts ==
  ASSUME NEW batch \in Batches
  PROVE  /\ \A id \in Incoming(batch) :
              /\ At(batch, id) \in DOMAIN batch
              /\ batch[At(batch, id)].id = id
              /\ batch[At(batch, id)] \in Record
         /\ \A i \in DOMAIN batch : At(batch, batch[i].id) = i
         /\ Incoming(batch) \subseteq Id
<1>1. ASSUME NEW id \in Incoming(batch)
      PROVE  At(batch, id) \in DOMAIN batch /\ batch[At(batch, id)].id = id
  BY DEF Incoming, At
<1>2. ASSUME NEW i \in DOMAIN batch
      PROVE  At(batch, batch[i].id) = i
  <2>1. batch[i].id \in Incoming(batch)
    BY DEF Incoming
  <2>2. At(batch, batch[i].id) \in DOMAIN batch /\ batch[At(batch, batch[i].id)].id = batch[i].id
    BY <1>1, <2>1
  <2> QED
    BY <2>2, BatchFacts
<1>3. Incoming(batch) \subseteq Id
  BY BatchFacts DEF Incoming, Record
<1> QED
  BY <1>1, <1>2, <1>3, BatchFacts

\* An id is live in the batch when its record, the only one, is not terminal.
LEMMA LiveFacts ==
  ASSUME NEW batch \in Batches
  PROVE  /\ LiveIn(batch) \subseteq Incoming(batch)
         /\ \A id \in Incoming(batch) :
              id \in LiveIn(batch) <=> ~Terminal(batch[At(batch, id)])
<1>1. LiveIn(batch) \subseteq Incoming(batch)
  BY DEF LiveIn, Incoming
<1>2. ASSUME NEW id \in Incoming(batch), id \in LiveIn(batch)
      PROVE  ~Terminal(batch[At(batch, id)])
  BY <1>2, AtFacts DEF LiveIn
<1>3. ASSUME NEW id \in Incoming(batch), ~Terminal(batch[At(batch, id)])
      PROVE  id \in LiveIn(batch)
  BY <1>3, AtFacts DEF LiveIn
<1> QED
  BY <1>1, <1>2, <1>3

-----------------------------------------------------------------------------
(* What one reconciliation computes                                        *)

LEMMA EntryOfType ==
  ASSUME NEW a \in Record, ~Terminal(a)
  PROVE  EntryOf(a) \in Entry /\ ~EntryOf(a).stale
<1>1. ComputePhase(a) \in LivePhase
  BY DEF Terminal, ComputePhase, TerminalPhase, LivePhase, Record
<1> QED
  BY <1>1 DEF EntryOf, Entry, Record

LEMMA RecordOfType ==
  ASSUME NEW e \in Entry
  PROVE  /\ RecordOf(e) \in Entry
         /\ RecordOf(e).stale /\ RecordOf(e).text = NoText
         /\ RecordOf(e).identifier = e.identifier
BY DEF RecordOf, Entry

\* The alerts a reconciliation keeps without a sighting, ends, or lets go.
LEMMA AbsenceFacts ==
  ASSUME NEW batch \in Batches, NEW scopeChanged \in BOOLEAN,
         NEW superseded \in Superseding
  PROVE  /\ Retained(batch, scopeChanged, superseded) \subseteq Tracked \ Incoming(batch)
         /\ EndedByAbsence(batch, scopeChanged, superseded)
              \subseteq Tracked \ Incoming(batch)
         /\ Retained(batch, scopeChanged, superseded)
              \cap EndedByAbsence(batch, scopeChanged, superseded) = {}
         /\ Tracked \subseteq Id
BY DEF Retained, EndedByAbsence, Missing, Tracked

\* EventFor, case by case.
LEMMA EventForFacts ==
  ASSUME NEW batch \in Batches, NEW i \in DOMAIN batch
  PROVE  /\ EventFor(batch, i) \in Event
         /\ Terminal(batch[i]) /\ Suppressed(batch, i) => EventFor(batch, i) = NoEvent
         /\ Terminal(batch[i]) /\ ~Suppressed(batch, i) => EventFor(batch, i) = "removed"
         /\ ~Terminal(batch[i]) => EventFor(batch, i) \in ParkedEvent
         /\ ~Terminal(batch[i]) /\ batch[i].id \in Tracked
              => EventFor(batch, i) \in {NoEvent, "updated"}
         /\ ~Terminal(batch[i]) /\ batch[i].id \notin Tracked
                /\ batch[i].id \in knownAtBoot
              => EventFor(batch, i) \in {NoEvent, "updated"}
         /\ ~Terminal(batch[i]) /\ batch[i].id \notin Tracked
                /\ batch[i].id \notin knownAtBoot
              => EventFor(batch, i) \in {"created", "updated"}
<1>1. CASE Terminal(batch[i])
  BY <1>1 DEF EventFor, LiveEvent, Event, ParkedEvent, NoEvent
<1>2. CASE ~Terminal(batch[i]) /\ batch[i].id \in Tracked
  BY <1>2 DEF EventFor, LiveEvent, Event, ParkedEvent, NoEvent
<1>3. CASE ~Terminal(batch[i]) /\ batch[i].id \notin Tracked
  BY <1>3 DEF EventFor, LiveEvent, Event, ParkedEvent, NoEvent
<1> QED
  BY <1>1, <1>2, <1>3

\* Decision, for an id the batch lists and for one it does not.
LEMMA DecisionFacts ==
  ASSUME NEW batch \in Batches, NEW scopeChanged \in BOOLEAN,
         NEW superseded \in Superseding, NEW fetched \in BOOLEAN, NEW id \in Id
  PROVE  LET event == Decision(batch, scopeChanged, superseded, fetched)[id]
             ended == EndedByAbsence(batch, scopeChanged, superseded)
                        \cup EndedAtBoot(batch, fetched)
         IN /\ event \in Event
            /\ id \in Incoming(batch) => event = EventFor(batch, At(batch, id))
            /\ id \notin Incoming(batch) /\ id \in ended => event = "removed"
            /\ id \notin Incoming(batch) /\ id \notin ended => event = NoEvent
<1>1. CASE id \in Incoming(batch)
  BY <1>1, AtFacts, EventForFacts DEF Decision
<1>2. CASE id \notin Incoming(batch)
  BY <1>2 DEF Decision, Event, ParkedEvent
<1> QED
  BY <1>1, <1>2

\* NextPrevious: live records and retained alerts are tracked, nothing else is.
LEMMA PreviousFacts ==
  ASSUME TypeOK, NEW batch \in Batches, NEW scopeChanged \in BOOLEAN,
         NEW superseded \in Superseding, NEW id \in Id
  PROVE  LET next == NextPrevious(batch, scopeChanged, superseded)[id]
             retained == Retained(batch, scopeChanged, superseded)
         IN /\ next \in Entry \cup {Absent}
            /\ next # Absent <=> id \in LiveIn(batch) \cup retained
            /\ id \in retained => /\ next.stale
                                  /\ next.text = previous[id].text
<1> DEFINE retained == Retained(batch, scopeChanged, superseded)
<1>1. retained \subseteq Tracked \ Incoming(batch) /\ LiveIn(batch) \subseteq Incoming(batch)
  BY AbsenceFacts, LiveFacts
<1>2. CASE id \in LiveIn(batch)
  <2>1. EntryOf(batch[At(batch, id)]) \in Entry
    BY <1>1, <1>2, AtFacts, LiveFacts, EntryOfType
  <2> QED
    BY <1>1, <1>2, <2>1, AbsentAssumption DEF NextPrevious
<1>3. CASE id \in retained
  <2>1. previous[id] \in Entry
    BY <1>1, <1>3 DEF Tracked, TypeOK
  <2>2. /\ [previous[id] EXCEPT !.stale = TRUE] \in Entry
        /\ [previous[id] EXCEPT !.stale = TRUE].stale
        /\ [previous[id] EXCEPT !.stale = TRUE].text = previous[id].text
    BY <2>1 DEF Entry
  <2> QED
    BY <1>1, <1>3, <2>2, AbsentAssumption DEF NextPrevious
<1>4. CASE id \notin LiveIn(batch) \cup retained
  BY <1>4 DEF NextPrevious
<1> QED
  BY <1>2, <1>3, <1>4

-----------------------------------------------------------------------------
(* Type correctness                                                        *)

LEMMA ParkedSeqType ==
  ASSUME NEW event \in Event
  PROVE  ParkedSeq(event) \in Seq(Event)
BY DEF ParkedSeq

\* A step that fires nothing.
LEMMA QuietType ==
  /\ [id \in Id |-> NoEvent] \in [Id -> Event]
  /\ [id \in Id |-> NoEvent] \in [Id -> ParkedEvent]
  /\ [id \in Id |-> <<>>] \in [Id -> Seq(Event)]
<1>1. <<>> \in Seq(Event) /\ NoEvent \in Event /\ NoEvent \in ParkedEvent
  BY DEF NoEvent, Event, ParkedEvent
<1> QED
  BY <1>1

LEMMA SilentType ==
  ASSUME Silent
  PROVE  decided' \in [Id -> Event] /\ bus' \in [Id -> Seq(Event)]
BY QuietType DEF Silent

\* Every reconciliation leaves the store well typed.
LEMMA ProcessTypeOK ==
  ASSUME TypeOK, NEW batch \in Batches, NEW scopeChanged \in BOOLEAN,
         NEW superseded \in Superseding, NEW fetched \in BOOLEAN,
         Process(batch, scopeChanged, superseded, fetched)
  PROVE  TypeOK'
<1> DEFINE D == Decision(batch, scopeChanged, superseded, fetched)
<1>1. D \in [Id -> Event]
  <2>1. D = [id \in Id |-> D[id]]
    BY DEF Decision
  <2> HIDE DEF D
  <2>2. \A id \in Id : D[id] \in Event
    BY DecisionFacts DEF D
  <2> QED
    BY <2>1, <2>2
<1>2. previous' \in [Id -> Entry \cup {Absent}]
  <2>1. previous' = NextPrevious(batch, scopeChanged, superseded)
    BY DEF Process
  <2>2. \A id \in Id : previous'[id] \in Entry \cup {Absent}
    BY <2>1, PreviousFacts
  <2>3. previous' = [id \in Id |-> previous'[id]]
    BY <2>1 DEF NextPrevious
  <2> QED
    BY <2>2, <2>3
<1>3. decided' \in [Id -> Event] /\ deferred' \in [Id -> ParkedEvent]
  <2> HIDE DEF D
  <2>1. decided' = D /\ deferred' = [id \in Id |-> IF Parks(id, D[id]) THEN D[id] ELSE NoEvent]
    BY DEF Process, D
  <2>2. \A id \in Id : (IF Parks(id, D[id]) THEN D[id] ELSE NoEvent) \in ParkedEvent
    BY DEF Parks, ParkedEvent
  <2> QED
    BY <1>1, <2>1, <2>2
<1>4. bus' \in [Id -> Seq(Event)]
  <2> HIDE DEF D
  <2> DEFINE fired(id) == ParkedSeq(deferred[id])
                            \o IF Parks(id, D[id]) THEN <<>> ELSE ParkedSeq(D[id])
  <2>1. bus' = [id \in Id |-> fired(id)]
    BY DEF Process, D
  <2>2. ASSUME NEW id \in Id
        PROVE  fired(id) \in Seq(Event)
    <3>1. deferred[id] \in Event /\ D[id] \in Event
      BY <1>1 DEF TypeOK, Event
    <3>2. ParkedSeq(deferred[id]) \in Seq(Event) /\ ParkedSeq(D[id]) \in Seq(Event)
      BY <3>1, ParkedSeqType
    <3> QED
      BY <3>2
  <2> HIDE DEF fired
  <2> QED
    BY <2>1, <2>2
<1>5. /\ tombstones' \in [Id -> Nat \cup {Absent}]
      /\ tombstonedIdentifiers' \in [Identifier -> Nat \cup {Absent}]
  BY DEF Process, NextTombstones, NextTombstonedIdentifiers, TypeOK
<1>6. restored' \subseteq Id /\ knownAtBoot' \subseteq Id
  BY DEF Process, TypeOK
<1>7. reconciliations' \in Nat /\ booting' \in BOOLEAN /\ reconciled' \in BOOLEAN
  BY DEF Process, NextReconciliations, TypeOK
<1>8. /\ endedAt' \in [Id -> Nat \cup {Absent}]
      /\ lineageEndedAt' \in [Identifier -> Nat \cup {Absent}]
      /\ fetches' \in 0 .. 2
  BY DEF Process, History, TypeOK
<1> QED
  BY <1>2, <1>3, <1>4, <1>5, <1>6, <1>7, <1>8 DEF Process, TypeOK

\* Type correctness of the store, its registry and its restore file.
THEOREM TypeCorrect == Spec => []TypeOK
<1>1. Init => TypeOK
  <2> SUFFICES ASSUME Init
               PROVE  TypeOK
    OBVIOUS
  <2>1. /\ bus \in [Id -> Seq(Event)]
        /\ decided \in [Id -> Event]
        /\ deferred \in [Id -> ParkedEvent]
    BY QuietType DEF Init
  <2>2. /\ previous \in [Id -> Entry \cup {Absent}]
        /\ saved \in [Id -> Entry \cup {Absent}]
        /\ tombstones \in [Id -> Nat \cup {Absent}]
        /\ tombstonedIdentifiers \in [Identifier -> Nat \cup {Absent}]
        /\ endedAt \in [Id -> Nat \cup {Absent}]
        /\ lineageEndedAt \in [Identifier -> Nat \cup {Absent}]
    BY DEF Init
  <2>3. /\ now \in Nat /\ reconciliations \in Nat /\ restarts \in Nat
        /\ fetches \in 0 .. 2
    BY DEF Init
  <2>4. /\ knownAtBoot \subseteq Id /\ restored \subseteq Id /\ registered \subseteq Id
        /\ booting \in BOOLEAN /\ reconciled \in BOOLEAN
    BY DEF Init
  <2> QED
    BY <2>1, <2>2, <2>3, <2>4 DEF TypeOK
<1>2. TypeOK /\ [Next]_vars => TypeOK'
  <2> SUFFICES ASSUME TypeOK, [Next]_vars
               PROVE  TypeOK'
    OBVIOUS
  <2>1. CASE Fetch
    BY <2>1, ProcessTypeOK DEF Fetch
  <2>2. CASE Rebuild
    BY <2>2, ProcessTypeOK DEF Rebuild
  <2>3. ASSUME NEW id \in Id, Release(id)
        PROVE  TypeOK'
    <3>1. deferred[id] \in Event
      BY DEF TypeOK, Event
    <3>2. <<deferred[id]>> \in Seq(Event) /\ <<>> \in Seq(Event)
      BY <3>1
    <3>3. bus' \in [Id -> Seq(Event)]
      BY <2>3, <3>2 DEF Release
    <3>4. deferred' \in [Id -> ParkedEvent] /\ decided' \in [Id -> Event]
      BY <2>3, QuietType DEF Release, TypeOK, NoEvent, ParkedEvent
    <3> QED
      BY <2>3, <3>3, <3>4 DEF Release, history, TypeOK
  <2>4. ASSUME NEW id \in Id, Register(id) \/ Unregister(id)
        PROVE  TypeOK'
    BY <2>4, SilentType DEF Register, Unregister, storeVars, history, TypeOK
  <2>5. CASE Save
    <3>1. \A id \in Tracked : RecordOf(previous[id]) \in Entry
      BY RecordOfType DEF Tracked, TypeOK
    <3>2. saved' \in [Id -> Entry \cup {Absent}]
      BY <2>5, <3>1 DEF Save
    <3> QED
      BY <2>5, <3>2, SilentType DEF Save, storeVars, history, TypeOK
  <2>6. ASSUME NEW readable \in BOOLEAN, Restart(readable)
        PROVE  TypeOK'
    <3> DEFINE records == IF readable THEN saved ELSE [id \in Id |-> Absent]
    <3>1. records \in [Id -> Entry \cup {Absent}]
      BY DEF TypeOK
    <3>2. previous' \in [Id -> Entry \cup {Absent}]
      BY <2>6, <3>1 DEF Restart
    <3>3. restored' \subseteq Id /\ knownAtBoot' \subseteq Id
      BY <2>6 DEF Restart, Seeded, TypeOK
    <3>4. /\ decided' \in [Id -> Event]
          /\ bus' \in [Id -> Seq(Event)]
          /\ deferred' \in [Id -> ParkedEvent]
      BY <2>6, SilentType, QuietType DEF Restart
    <3>5. /\ tombstones' \in [Id -> Nat \cup {Absent}]
          /\ tombstonedIdentifiers' \in [Identifier -> Nat \cup {Absent}]
          /\ endedAt' \in [Id -> Nat \cup {Absent}]
          /\ lineageEndedAt' \in [Identifier -> Nat \cup {Absent}]
      BY <2>6 DEF Restart
    <3>6. /\ restarts' = restarts + 1 /\ fetches' = 0 /\ reconciliations' = 0
          /\ booting' = TRUE /\ reconciled' = FALSE
          /\ UNCHANGED <<now, registered, saved>>
      BY <2>6 DEF Restart
    <3>7. restarts \in Nat
      BY DEF TypeOK
    <3> HIDE DEF records
    <3>8. restarts' \in Nat /\ fetches' \in 0 .. 2 /\ reconciliations' \in Nat
      BY <3>6, <3>7
    <3>9. booting' \in BOOLEAN /\ reconciled' \in BOOLEAN
      BY <3>6
    <3> QED
      BY <3>2, <3>3, <3>4, <3>5, <3>6, <3>8, <3>9 DEF TypeOK
  <2>7. CASE Tick
    BY <2>7, SilentType DEF Tick, storeVars, history, TypeOK
  <2>8. CASE UNCHANGED vars
    BY <2>8 DEF vars, storeVars, history, TypeOK
  <2> QED
    BY <2>1, <2>2, <2>3, <2>4, <2>5, <2>6, <2>7, <2>8 DEF Next
<1> QED
  BY <1>1, <1>2, PTL DEF Spec

-----------------------------------------------------------------------------
(* The parts of the store agree                                            *)

\* What the file holds was written by record_from_alert: read back, a record is
\* stale and has no content.  Without it a restart could restore anything.
SavedRecords ==
  \A id \in Id : saved[id] # Absent => saved[id].stale /\ saved[id].text = NoText

\* The tombstones remember every ending that the history still holds.
HistoryRemembered ==
  /\ \A id \in Id : LongAgo(endedAt[id]) \/ tombstones[id] = endedAt[id]
  /\ \A r \in Identifier :
       LongAgo(lineageEndedAt[r]) \/ tombstonedIdentifiers[r] = lineageEndedAt[r]

\* An id the store has let go of is not remembered, tracked or pending.
LEMMA TombstoneFacts ==
  ASSUME StoreConsistent, NEW id \in Id
  PROVE  /\ id \in Tracked => ~IdTombstoned(id) /\ id \notin knownAtBoot
         /\ id \in knownAtBoot => ~IdTombstoned(id) /\ id \notin Tracked
BY DEF StoreConsistent, TrackedNotEnded, PendingUnseen, IdTombstoned

\* A reconciliation keeps the tracked, pending and ended ids apart.
LEMMA ProcessKeepsApart ==
  ASSUME TypeOK, StoreConsistent,
         NEW batch \in Batches, NEW scopeChanged \in BOOLEAN,
         NEW superseded \in Superseding, NEW fetched \in BOOLEAN,
         Process(batch, scopeChanged, superseded, fetched)
  PROVE  TrackedNotEnded' /\ PendingUnseen'
<1> DEFINE retained == Retained(batch, scopeChanged, superseded)
           absent == EndedByAbsence(batch, scopeChanged, superseded)
<1>1. /\ previous' = NextPrevious(batch, scopeChanged, superseded)
      /\ tombstones' = NextTombstones(batch, scopeChanged, superseded, fetched)
      /\ registered' = registered
  BY DEF Process
<1>2. /\ retained \subseteq Tracked \ Incoming(batch)
      /\ absent \subseteq Tracked \ Incoming(batch)
      /\ retained \cap absent = {}
      /\ LiveIn(batch) \subseteq Incoming(batch)
  BY AbsenceFacts, LiveFacts
<1>3. EndedAtBoot(batch, fetched) \subseteq knownAtBoot \ Incoming(batch)
  BY DEF EndedAtBoot
<1>4. \A id \in Id : id \in Tracked' <=> id \in LiveIn(batch) \cup retained
  <2>1. \A id \in Id : previous'[id] # Absent <=> id \in LiveIn(batch) \cup retained
    BY <1>1, PreviousFacts
  <2> QED
    BY <2>1 DEF Tracked
<1> HIDE DEF retained, absent
<1>5. ASSUME NEW id \in Tracked'
      PROVE  tombstones'[id] = Absent
  <2>1. id \in Id
    BY DEF Tracked
  <2>2. CASE id \in LiveIn(batch)
    BY <1>1, <2>1, <2>2 DEF NextTombstones
  <2>3. CASE id \in retained
    <3>1. /\ id \notin Incoming(batch) /\ id \notin LiveIn(batch) /\ id \notin absent
          /\ id \notin knownAtBoot /\ ~IdTombstoned(id)
      BY <1>2, <2>1, <2>3, TombstoneFacts
    <3> QED
      BY <1>1, <1>3, <2>1, <3>1 DEF NextTombstones, absent
  <2> QED
    BY <1>4, <2>1, <2>2, <2>3
<1>6. ASSUME NEW id \in knownAtBoot'
      PROVE  id \in registered' \ Tracked' /\ tombstones'[id] = Absent
  <2>1. /\ id \in knownAtBoot \ Incoming(batch) /\ ~GraceOver(fetched)
        /\ id \in registered /\ id \in Id
    BY DEF Process, StoreConsistent, PendingUnseen, TypeOK
  <2>2. id \notin Tracked /\ ~IdTombstoned(id) /\ EndedAtBoot(batch, fetched) = {}
    BY <2>1, TombstoneFacts DEF EndedAtBoot
  <2>3. id \notin LiveIn(batch) \cup retained \cup absent
    BY <1>2, <2>1, <2>2
  <2> QED
    BY <1>1, <1>4, <2>1, <2>2, <2>3 DEF NextTombstones, absent
<1> QED
  BY <1>5, <1>6 DEF TrackedNotEnded, PendingUnseen

\* A reconciliation parks events, and keeps restored records, only as it may.
LEMMA ProcessParks ==
  ASSUME TypeOK, StoreConsistent,
         NEW batch \in Batches, NEW scopeChanged \in BOOLEAN,
         NEW superseded \in Superseding, NEW fetched \in BOOLEAN,
         Process(batch, scopeChanged, superseded, fetched)
  PROVE  ParkedTracked' /\ RestoredUnconfirmed' /\ GraceCounted'
<1> DEFINE D == Decision(batch, scopeChanged, superseded, fetched)
           retained == Retained(batch, scopeChanged, superseded)
<1>1. \A id \in Id : previous'[id] # Absent <=> id \in LiveIn(batch) \cup retained
  BY PreviousFacts DEF Process
<1>2. ASSUME NEW id \in Id, deferred'[id] # NoEvent
      PROVE  id \in Tracked'
  <2>1. D[id] \in {"created", "updated"}
    BY <1>2 DEF Process, Parks
  <2>2. id \in Incoming(batch) /\ D[id] = EventFor(batch, At(batch, id))
    BY <2>1, DecisionFacts DEF NoEvent
  <2>3. At(batch, id) \in DOMAIN batch
    BY <2>2, AtFacts
  <2>4. ~Terminal(batch[At(batch, id)])
    BY <2>1, <2>2, <2>3, EventForFacts DEF NoEvent
  <2> QED
    BY <1>1, <2>2, <2>4, LiveFacts DEF Tracked
<1>3. ASSUME NEW id \in restored'
      PROVE  id \in Tracked' /\ previous'[id].stale /\ previous'[id].text = NoText
  <2>1. id \in restored /\ id \in retained /\ id \in Id
    BY DEF Process, TypeOK
  <2>2. previous[id].text = NoText
    BY <2>1 DEF StoreConsistent, RestoredUnconfirmed
  <2>3. previous'[id].stale /\ previous'[id].text = previous[id].text
    BY <2>1, PreviousFacts DEF Process
  <2> QED
    BY <1>1, <2>1, <2>2, <2>3 DEF Tracked
<1>4. GraceCounted'
  <2>1. /\ knownAtBoot # {} => reconciliations = fetches /\ fetches < 2
        /\ booting <=> fetches = 0
        /\ fetches \in 0 .. 2
    BY DEF StoreConsistent, GraceCounted, TypeOK
  <2>2. fetches' = IF fetched /\ fetches < 2 THEN fetches + 1 ELSE fetches
    BY DEF Process, History
  <2>3. booting' <=> fetches' = 0
    <3>1. booting' <=> booting /\ ~fetched
      BY DEF Process
    <3>2. CASE fetched
      <4>1. fetches' # 0
        BY <2>1, <2>2, <3>2
      <4> QED
        BY <3>1, <3>2, <4>1
    <3>3. CASE ~fetched
      <4>1. fetches' = fetches
        BY <2>2, <3>3
      <4> QED
        BY <2>1, <3>1, <3>3, <4>1
    <3> QED
      BY <3>2, <3>3
  <2>4. knownAtBoot' # {} => reconciliations' = fetches' /\ fetches' < 2
    BY <2>1, <2>2 DEF Process, GraceOver, NextReconciliations
  <2> QED
    BY <2>3, <2>4 DEF GraceCounted
<1> QED
  BY <1>2, <1>3, <1>4 DEF ParkedTracked, RestoredUnconfirmed

\* The inductive invariant, and each of the store's other actions.
Consistent == StoreConsistent /\ SavedRecords

LEMMA InitConsistent == Init => Consistent
<1> SUFFICES ASSUME Init
             PROVE  Consistent
  OBVIOUS
<1>1. Tracked = {}
  BY DEF Init, Tracked
<1>2. TrackedNotEnded /\ PendingUnseen /\ RestoredUnconfirmed /\ SavedRecords
  BY <1>1 DEF Init, TrackedNotEnded, PendingUnseen, RestoredUnconfirmed, SavedRecords
<1>3. ParkedTracked
  BY DEF Init, ParkedTracked
<1>4. GraceCounted
  <2>1. booting = TRUE /\ fetches = 0 /\ knownAtBoot = {}
    BY DEF Init
  <2> QED
    BY <2>1 DEF GraceCounted
<1> QED
  BY <1>2, <1>3, <1>4 DEF Consistent, StoreConsistent

\* A restart forgets everything but the registry and the file.
LEMMA RestartConsistent ==
  ASSUME TypeOK, Consistent, NEW readable \in BOOLEAN, Restart(readable)
  PROVE  Consistent'
<1> DEFINE records == IF readable THEN saved ELSE [id \in Id |-> Absent]
<1>1. /\ previous' = [id \in Id |-> IF id \in Seeded(records) THEN records[id] ELSE Absent]
      /\ restored' = Seeded(records)
      /\ knownAtBoot' = registered \ Seeded(records)
      /\ tombstones' = [id \in Id |-> Absent]
      /\ deferred' = [id \in Id |-> NoEvent]
      /\ registered' = registered /\ saved' = saved
  BY DEF Restart
<1>2. reconciliations' = 0 /\ fetches' = 0 /\ booting' = TRUE
  BY DEF Restart
<1>3. \A id \in Seeded(records) :
        id \in Id /\ records[id] # Absent /\ records[id].stale /\ records[id].text = NoText
  BY DEF Seeded, Consistent, SavedRecords
<1> HIDE DEF records
<1>4. Tracked' = Seeded(records) /\ \A id \in Seeded(records) : previous'[id] = records[id]
  BY <1>1, <1>3 DEF Tracked
<1>5. TrackedNotEnded' /\ PendingUnseen'
  BY <1>1, <1>4, <1>3 DEF TrackedNotEnded, PendingUnseen, TypeOK
<1>6. RestoredUnconfirmed'
  BY <1>1, <1>3, <1>4 DEF RestoredUnconfirmed
<1>7. ParkedTracked' /\ SavedRecords'
  BY <1>1 DEF ParkedTracked, SavedRecords, Consistent
<1>8. GraceCounted'
  <2>1. booting' <=> fetches' = 0
    BY <1>2
  <2>2. reconciliations' = fetches' /\ fetches' < 2
    BY <1>2
  <2> QED
    BY <2>1, <2>2 DEF GraceCounted
<1> QED
  BY <1>5, <1>6, <1>7, <1>8 DEF Consistent, StoreConsistent

\* No step breaks the agreement.
LEMMA NextConsistent ==
  ASSUME TypeOK, Consistent, [Next]_vars
  PROVE  Consistent'
<1> USE DEF Consistent
<1>1. ASSUME NEW batch \in Batches, NEW scopeChanged \in BOOLEAN,
             NEW superseded \in Superseding, NEW fetched \in BOOLEAN,
             Process(batch, scopeChanged, superseded, fetched)
      PROVE  Consistent'
  <2>1. TrackedNotEnded' /\ PendingUnseen'
    BY <1>1, ProcessKeepsApart
  <2>2. ParkedTracked' /\ RestoredUnconfirmed' /\ GraceCounted'
    BY <1>1, ProcessParks
  <2>3. SavedRecords'
    BY <1>1 DEF Process, SavedRecords
  <2> QED
    BY <2>1, <2>2, <2>3 DEF StoreConsistent
<1>2. CASE Fetch
  BY <1>1, <1>2 DEF Fetch
<1>3. CASE Rebuild
  BY <1>1, <1>3 DEF Rebuild
<1>4. ASSUME NEW id \in Id, Release(id)
      PROVE  Consistent'
  <2>1. /\ UNCHANGED <<previous, tombstones, knownAtBoot, restored, reconciliations,
                       booting, registered, saved, fetches>>
        /\ deferred' = [deferred EXCEPT ![id] = NoEvent]
    BY <1>4 DEF Release, history
  <2>2. ParkedTracked'
    BY <2>1 DEF ParkedTracked, StoreConsistent, Tracked, TypeOK
  <2>3. TrackedNotEnded' /\ PendingUnseen' /\ RestoredUnconfirmed' /\ SavedRecords'
    BY <2>1 DEF StoreConsistent, TrackedNotEnded, PendingUnseen, RestoredUnconfirmed,
                SavedRecords, Tracked
  <2>4. GraceCounted'
    BY <2>1 DEF StoreConsistent, GraceCounted
  <2> QED
    BY <2>2, <2>3, <2>4 DEF StoreConsistent
<1>5. ASSUME NEW id \in Id, Register(id) \/ Unregister(id)
      PROVE  Consistent'
  <2>1. UNCHANGED <<previous, tombstones, knownAtBoot, restored, reconciliations,
                    booting, deferred, saved, fetches>>
    BY <1>5 DEF Register, Unregister, storeVars, history
  <2>2. knownAtBoot \subseteq registered'
    BY <1>5 DEF Register, Unregister, StoreConsistent, PendingUnseen
  <2>3. PendingUnseen'
    BY <2>1, <2>2 DEF StoreConsistent, PendingUnseen, Tracked
  <2>4. TrackedNotEnded' /\ ParkedTracked' /\ RestoredUnconfirmed' /\ SavedRecords'
    BY <2>1 DEF StoreConsistent, TrackedNotEnded, ParkedTracked, RestoredUnconfirmed,
                SavedRecords, Tracked
  <2>5. GraceCounted'
    BY <2>1 DEF StoreConsistent, GraceCounted
  <2> QED
    BY <2>3, <2>4, <2>5 DEF StoreConsistent
<1>6. CASE Save
  <2>1. UNCHANGED <<storeVars, registered, fetches>>
    BY <1>6 DEF Save, history
  <2>2. SavedRecords'
    <3>1. \A id \in Tracked : previous[id] \in Entry
      BY DEF Tracked, TypeOK
    <3>2. \A id \in Tracked : RecordOf(previous[id]).stale /\ RecordOf(previous[id]).text = NoText
      BY <3>1, RecordOfType
    <3> QED
      BY <1>6, <3>2 DEF Save, SavedRecords
  <2>3. StoreConsistent'
    BY <2>1 DEF StoreConsistent, TrackedNotEnded, PendingUnseen, ParkedTracked,
                RestoredUnconfirmed, GraceCounted, Tracked, storeVars
  <2> QED
    BY <2>2, <2>3
<1>7. ASSUME NEW readable \in BOOLEAN, Restart(readable)
      PROVE  Consistent'
  BY <1>7, RestartConsistent
<1>8. CASE Tick
  BY <1>8 DEF Tick, StoreConsistent, TrackedNotEnded, PendingUnseen, ParkedTracked,
              RestoredUnconfirmed, GraceCounted, SavedRecords, Tracked, storeVars, history
<1>9. CASE UNCHANGED vars
  BY <1>9 DEF vars, StoreConsistent, TrackedNotEnded, PendingUnseen, ParkedTracked,
              RestoredUnconfirmed, GraceCounted, SavedRecords, Tracked, storeVars, history
<1> QED
  BY <1>2, <1>3, <1>4, <1>5, <1>6, <1>7, <1>8, <1>9 DEF Next

\* The parts of the store agree in every reachable state.
THEOREM ConsistentAlways == Spec => []StoreConsistent
<1>1. Consistent => StoreConsistent
  BY DEF Consistent
<1> QED
  BY <1>1, InitConsistent, NextConsistent, TypeCorrect, PTL DEF Spec

-----------------------------------------------------------------------------
(* One removal per ending                                                  *)

\* A reconciliation renews the tombstone of every ending it has seen.
LEMMA ProcessRemembers ==
  ASSUME TypeOK, StoreConsistent, HistoryRemembered,
         NEW batch \in Batches, NEW scopeChanged \in BOOLEAN,
         NEW superseded \in Superseding, NEW fetched \in BOOLEAN,
         Process(batch, scopeChanged, superseded, fetched)
  PROVE  HistoryRemembered'
<1> DEFINE D == Decision(batch, scopeChanged, superseded, fetched)
           absent == EndedByAbsence(batch, scopeChanged, superseded)
           boot == EndedAtBoot(batch, fetched)
           removed == {id \in Id : D[id] = "removed"}
           revived == UNION {batch[i].references : i \in {j \in DOMAIN batch : ~Terminal(batch[j])}}
           listed == {batch[i].identifier : i \in {j \in DOMAIN batch : Terminal(batch[j])}}
           left == {previous[id].identifier : id \in (removed \cap Tracked) \ Incoming(batch)}
<1>1. now' = now
  BY DEF Process
<1>2. \A id \in Id \ Incoming(batch) : D[id] = "removed" <=> id \in absent \cup boot
  BY DecisionFacts DEF NoEvent
<1>3. boot \cap Tracked = {} /\ absent \subseteq Tracked \ Incoming(batch)
  BY AbsenceFacts DEF EndedAtBoot, StoreConsistent, PendingUnseen
<1>4. ASSUME NEW id \in Id
      PROVE  LongAgo(endedAt[id])' \/ tombstones'[id] = endedAt'[id]
  <2>1. endedAt'[id] = IF id \in LiveIn(batch) THEN Absent
                       ELSE IF id \in Incoming(batch) \cup removed THEN now
                       ELSE endedAt[id]
    BY DEF Process, History
  <2>2. tombstones'[id] = IF id \in LiveIn(batch) THEN Absent
                          ELSE IF id \in Incoming(batch) \cup boot \cup absent THEN now
                          ELSE IF IdTombstoned(id) THEN tombstones[id] ELSE Absent
    BY DEF Process, NextTombstones
  <2>3. id \notin Incoming(batch) => (id \in removed <=> id \in boot \cup absent)
    BY <1>2
  <2> HIDE DEF D, absent, boot, removed
  <2>4. CASE id \in LiveIn(batch)
    BY <2>1, <2>4 DEF LongAgo
  <2>5. CASE id \notin LiveIn(batch) /\ id \in Incoming(batch) \cup removed
    BY <2>1, <2>2, <2>3, <2>5
  <2>6. CASE id \notin LiveIn(batch) /\ id \notin Incoming(batch) \cup removed
    <3>1. CASE LongAgo(endedAt[id])
      BY <1>1, <2>1, <2>6, <3>1 DEF LongAgo
    <3>2. CASE ~LongAgo(endedAt[id])
      <4>1. tombstones[id] = endedAt[id]
        BY <3>2 DEF HistoryRemembered
      <4>2. IdTombstoned(id)
        BY <3>2, <4>1, TTLAssumption DEF LongAgo, IdTombstoned, TypeOK
      <4> QED
        BY <2>1, <2>2, <2>3, <2>6, <4>1, <4>2
    <3> QED
      BY <3>1, <3>2
  <2> QED
    BY <2>4, <2>5, <2>6
<1>5. ASSUME NEW r \in Identifier
      PROVE  LongAgo(lineageEndedAt[r])' \/ tombstonedIdentifiers'[r] = lineageEndedAt'[r]
  <2> DEFINE renewed == \/ \E id \in absent : previous[id].identifier = r
                        \/ \E j \in DOMAIN batch :
                             /\ Ends(batch, j, r)
                             /\ \A k \in (j + 1) .. Len(batch) : ~Revives(batch, k, r)
  <2>1. lineageEndedAt'[r] = IF r \in revived THEN Absent
                             ELSE IF r \in listed \cup left THEN now
                             ELSE lineageEndedAt[r]
    BY DEF Process, History
  <2>2. tombstonedIdentifiers'[r] =
          IF renewed THEN now
          ELSE IF IdentifierEndedBefore(batch, Len(batch) + 1, r)
               THEN tombstonedIdentifiers[r] ELSE Absent
    BY DEF Process, NextTombstonedIdentifiers
  <2>3. r \notin revived => \A k \in DOMAIN batch : ~Revives(batch, k, r)
    BY DEF Revives
  <2>4. r \in listed <=> \E j \in DOMAIN batch : Ends(batch, j, r)
    BY DEF Ends
  <2>5. r \in left <=> \E id \in absent : previous[id].identifier = r
    <3>1. (removed \cap Tracked) \ Incoming(batch) = absent
      BY <1>2, <1>3, AbsenceFacts
    <3> HIDE DEF removed, absent
    <3> QED
      BY <3>1
  <2>6. DOMAIN batch = 1 .. Len(batch) /\ Len(batch) \in Nat
    BY BatchFacts
  <2>7. r \notin revived => (renewed <=> r \in listed \cup left)
    <3>1. \A j \in DOMAIN batch : (j + 1) .. Len(batch) \subseteq DOMAIN batch
      BY <2>6
    <3> HIDE DEF revived, listed, left, absent
    <3> QED
      BY <2>3, <2>4, <2>5, <3>1
  <2> HIDE DEF revived, listed, left, renewed, absent
  <2>8. CASE r \in revived
    BY <2>1, <2>8 DEF LongAgo
  <2>9. CASE r \notin revived /\ r \in listed \cup left
    BY <2>1, <2>2, <2>7, <2>9
  <2>10. CASE r \notin revived /\ r \notin listed \cup left
    <3>1. CASE LongAgo(lineageEndedAt[r])
      BY <1>1, <2>1, <2>10, <3>1 DEF LongAgo
    <3>2. CASE ~LongAgo(lineageEndedAt[r])
      <4>1. tombstonedIdentifiers[r] = lineageEndedAt[r]
        BY <3>2 DEF HistoryRemembered
      <4>2. IdentifierTombstoned(r)
        BY <3>2, <4>1, TTLAssumption DEF LongAgo, IdentifierTombstoned, TypeOK
      <4>3. IdentifierEndedBefore(batch, Len(batch) + 1, r)
        BY <2>3, <2>6, <2>10, <4>2 DEF IdentifierEndedBefore
      <4> QED
        BY <2>1, <2>2, <2>7, <2>10, <4>1, <4>3
    <3> QED
      BY <3>1, <3>2
  <2> QED
    BY <2>8, <2>9, <2>10
<1> QED
  BY <1>4, <1>5 DEF HistoryRemembered

\* The tombstones never forget an ending the history holds.
LEMMA HistoryInvariant == Spec => []HistoryRemembered
<1>1. Init => HistoryRemembered
  BY DEF Init, HistoryRemembered, LongAgo
<1>2. TypeOK /\ StoreConsistent /\ HistoryRemembered /\ [Next]_vars => HistoryRemembered'
  <2> SUFFICES ASSUME TypeOK, StoreConsistent, HistoryRemembered, [Next]_vars
               PROVE  HistoryRemembered'
    OBVIOUS
  <2>1. CASE Fetch \/ Rebuild
    BY <2>1, ProcessRemembers DEF Fetch, Rebuild
  <2>2. UNCHANGED <<now, tombstones, tombstonedIdentifiers, history>>
          => HistoryRemembered'
    BY DEF HistoryRemembered, LongAgo, history
  <2>3. ASSUME NEW id \in Id, Release(id) \/ Register(id) \/ Unregister(id)
        PROVE  HistoryRemembered'
    BY <2>2, <2>3 DEF Release, Register, Unregister, storeVars
  <2>4. CASE Save
    BY <2>2, <2>4 DEF Save, storeVars
  <2>5. ASSUME NEW readable \in BOOLEAN, Restart(readable)
        PROVE  HistoryRemembered'
    BY <2>5 DEF Restart, HistoryRemembered, LongAgo
  <2>7. CASE UNCHANGED vars
    BY <2>2, <2>7 DEF vars, storeVars
  <2>6. CASE Tick
    <3>1. /\ now' = now + 1 /\ now \in Nat
          /\ UNCHANGED <<tombstones, tombstonedIdentifiers, endedAt, lineageEndedAt>>
      BY <2>6 DEF Tick, storeVars, history, TypeOK
    <3>3. \A id \in Id : LongAgo(endedAt[id]) => LongAgo(endedAt[id])'
      BY <3>1, TTLAssumption DEF LongAgo, TypeOK
    <3>4. \A r \in Identifier : LongAgo(lineageEndedAt[r]) => LongAgo(lineageEndedAt[r])'
      BY <3>1, TTLAssumption DEF LongAgo, TypeOK
    <3> QED
      BY <3>1, <3>3, <3>4 DEF HistoryRemembered
  <2> QED
    BY <2>1, <2>3, <2>4, <2>5, <2>6, <2>7 DEF Next
<1> QED
  BY <1>1, <1>2, TypeCorrect, ConsistentAlways, PTL DEF Spec

\* In every reachable state, whatever batch comes next, no removal is announced
\* for an ending whose records have been seen since it was announced.
THEOREM EndingsAnnouncedOnce == Spec => []NoRepeatedEnding
<1>1. TypeOK /\ StoreConsistent /\ HistoryRemembered => NoRepeatedEnding
  <2> SUFFICES ASSUME TypeOK, StoreConsistent, HistoryRemembered,
                      NEW batch \in Batches, NEW scopeChanged \in BOOLEAN,
                      NEW fetched \in BOOLEAN, NEW superseded \in Superseding,
                      NEW id \in Id,
                      Decision(batch, scopeChanged, superseded, fetched)[id] = "removed"
               PROVE  /\ LongAgo(endedAt[id])
                      /\ \A i \in DOMAIN batch : batch[i].id = id =>
                           \A r \in batch[i].references :
                             \/ LongAgo(lineageEndedAt[r])
                             \/ \E k \in DOMAIN batch : Revives(batch, k, r)
    BY DEF NoRepeatedEnding
  <2>1. ASSUME NEW i \in DOMAIN batch, batch[i].id = id
        PROVE  ~Suppressed(batch, i)
    <3>1. id \in Incoming(batch) /\ At(batch, id) = i
      BY <2>1, AtFacts DEF Incoming
    <3>2. EventFor(batch, i) = "removed"
      BY <3>1, DecisionFacts
    <3> QED
      BY <3>2, EventForFacts DEF NoEvent, ParkedEvent
  <2>2. LongAgo(endedAt[id])
    <3>1. SUFFICES ASSUME ~LongAgo(endedAt[id])
                   PROVE  FALSE
      OBVIOUS
    <3>2. tombstones[id] = endedAt[id]
      BY <3>1 DEF HistoryRemembered
    <3>3. IdTombstoned(id)
      BY <3>1, <3>2, TTLAssumption DEF LongAgo, IdTombstoned, TypeOK
    <3>4. id \notin Tracked /\ id \notin knownAtBoot
      BY <3>3, TombstoneFacts
    <3>5. id \in Incoming(batch)
      BY <3>4, DecisionFacts, AbsenceFacts DEF EndedAtBoot, NoEvent
    <3> QED
      BY <2>1, <3>3, <3>5, AtFacts DEF Suppressed
  <2>3. ASSUME NEW i \in DOMAIN batch, batch[i].id = id,
               NEW r \in batch[i].references, ~LongAgo(lineageEndedAt[r])
        PROVE  \E k \in DOMAIN batch : Revives(batch, k, r)
    <3>1. r \in Identifier
      BY <2>3, BatchFacts DEF Record
    <3>2. tombstonedIdentifiers[r] = lineageEndedAt[r]
      BY <2>3, <3>1 DEF HistoryRemembered
    <3>3. IdentifierTombstoned(r)
      BY <2>3, <3>1, <3>2, TTLAssumption DEF LongAgo, IdentifierTombstoned, TypeOK
    <3>4. ~IdentifierEndedBefore(batch, i, r)
      BY <2>1, <2>3 DEF Suppressed
    <3>5. PICK k \in 1 .. (i - 1) : Revives(batch, k, r)
      BY <3>3, <3>4 DEF IdentifierEndedBefore
    <3>6. k \in DOMAIN batch
      BY <3>5, BatchFacts
    <3> QED
      BY <3>5, <3>6
  <2> QED
    BY <2>2, <2>3
<1> QED
  BY <1>1, TypeCorrect, ConsistentAlways, HistoryInvariant, PTL

\* The boot grace is two fetched reconciliations, whatever comes between them.
THEOREM GraceCountsFetches == Spec => []GraceIsTwoFetches
<1>1. TypeOK /\ StoreConsistent => GraceIsTwoFetches
  <2> SUFFICES ASSUME TypeOK, StoreConsistent,
                      NEW batch \in Batches, NEW fetched \in BOOLEAN,
                      NEW id \in knownAtBoot \ Incoming(batch)
               PROVE  Decision(batch, FALSE, {}, fetched)[id] = "removed"
                        <=> fetched /\ fetches >= 1
    BY DEF GraceIsTwoFetches
  <2>1. id \in Id /\ id \notin Tracked /\ knownAtBoot # {} /\ id \notin Incoming(batch)
    BY DEF TypeOK, StoreConsistent, PendingUnseen
  <2>2. id \notin EndedByAbsence(batch, FALSE, {})
    BY <2>1 DEF EndedByAbsence, Missing
  <2>3. Decision(batch, FALSE, {}, fetched)[id] = "removed" <=> GraceOver(fetched)
    BY <2>1, <2>2 DEF Decision, EndedAtBoot, NoEvent
  <2>4. reconciliations = fetches /\ fetches \in Nat
    BY <2>1 DEF StoreConsistent, GraceCounted, TypeOK
  <2>5. GraceOver(fetched) <=> fetched /\ fetches >= 1
    <3>1. reconciliations + 1 >= 2 <=> fetches >= 1
      BY <2>4
    <3> QED
      BY <2>1, <3>1 DEF GraceOver
  <2> QED
    BY <2>3, <2>5
<1> QED
  BY <1>1, TypeCorrect, ConsistentAlways, PTL

\* The first fetch of a boot announces no ending of an alert that nothing of
\* before the boot, and no rebuild since, knows of.
THEOREM OldEndingsSilent == Spec => []OldEndingsStaySilent
<1>1. TypeOK /\ StoreConsistent => OldEndingsStaySilent
  <2> SUFFICES ASSUME TypeOK, StoreConsistent, fetches = 0,
                      NEW batch \in Batches, NEW scopeChanged \in BOOLEAN,
                      NEW fetched \in BOOLEAN, NEW superseded \in Superseding, NEW id \in Id,
                      Decision(batch, scopeChanged, superseded, fetched)[id] = "removed",
                      id \notin Tracked, id \notin knownAtBoot
               PROVE  FALSE
    BY DEF OldEndingsStaySilent
  <2>1. booting
    BY DEF StoreConsistent, GraceCounted
  <2>2. CASE id \in Incoming(batch)
    <3>1. At(batch, id) \in DOMAIN batch /\ batch[At(batch, id)].id = id
      BY <2>2 DEF At, Incoming
    <3>2. Suppressed(batch, At(batch, id))
      BY <2>1, <3>1 DEF Suppressed
    <3>3. LiveEvent(batch, At(batch, id)) # "removed"
      BY <3>1 DEF LiveEvent, NoEvent
    <3>4. EventFor(batch, At(batch, id)) # "removed"
      BY <3>2, <3>3 DEF EventFor, NoEvent
    <3> QED BY <2>2, <3>4 DEF Decision
  <2>3. CASE id \notin Incoming(batch)
    <3>1. id \notin EndedByAbsence(batch, scopeChanged, superseded)
      BY DEF EndedByAbsence, Missing
    <3>2. id \notin EndedAtBoot(batch, fetched)
      BY DEF EndedAtBoot
    <3> QED BY <2>3, <3>1, <3>2 DEF Decision, NoEvent
  <2> QED BY <2>2, <2>3
<1> QED
  BY <1>1, TypeCorrect, ConsistentAlways, PTL

-----------------------------------------------------------------------------
(* The store implements Incident                                           *)

\* Status, case by case, in a consistent state.
LEMMA StatusFacts ==
  ASSUME StoreConsistent, NEW id \in Id
  PROVE  /\ Status(id) = "live" <=> id \in Tracked
         /\ Status(id) = "ended" <=> IdTombstoned(id)
         /\ Status(id) = "held" <=> id \in knownAtBoot
         /\ Status(id) \in {"unknown", "held", "live", "ended"}
<1>1. CASE id \in Tracked
  BY <1>1, TombstoneFacts DEF Status
<1>2. CASE id \notin Tracked /\ IdTombstoned(id)
  BY <1>2, TombstoneFacts DEF Status
<1>3. CASE id \notin Tracked /\ ~IdTombstoned(id)
  BY <1>3 DEF Status
<1> QED
  BY <1>1, <1>2, <1>3

\* Where a reconciliation leaves an id.
LEMMA ProcessStatus ==
  ASSUME TypeOK, StoreConsistent, StoreConsistent',
         NEW batch \in Batches, NEW scopeChanged \in BOOLEAN,
         NEW superseded \in Superseding, NEW fetched \in BOOLEAN,
         Process(batch, scopeChanged, superseded, fetched), NEW id \in Id
  PROVE  LET retained == Retained(batch, scopeChanged, superseded)
             ended == EndedByAbsence(batch, scopeChanged, superseded)
                        \cup EndedAtBoot(batch, fetched)
         IN /\ Status(id)' = "live" <=> id \in LiveIn(batch) \cup retained
            /\ Status(id)' = "ended" <=>
                 /\ id \notin LiveIn(batch)
                 /\ id \in Incoming(batch) \cup ended \/ IdTombstoned(id)
            /\ Status(id)' = "held" <=>
                 id \in knownAtBoot \ Incoming(batch) /\ ~GraceOver(fetched)
            /\ Status(id)' \in {"unknown", "held", "live", "ended"}
<1> DEFINE retained == Retained(batch, scopeChanged, superseded)
           absent == EndedByAbsence(batch, scopeChanged, superseded)
           boot == EndedAtBoot(batch, fetched)
<1>1. id \in Tracked' <=> id \in LiveIn(batch) \cup retained
  BY PreviousFacts DEF Process, Tracked
<1>2. now' = now /\ tombstones'[id] = IF id \in LiveIn(batch) THEN Absent
                          ELSE IF id \in Incoming(batch) \cup boot \cup absent THEN now
                          ELSE IF IdTombstoned(id) THEN tombstones[id] ELSE Absent
  BY DEF Process, NextTombstones
<1>3. IdTombstoned(id)' <=> /\ id \notin LiveIn(batch)
                            /\ id \in Incoming(batch) \cup absent \cup boot \/ IdTombstoned(id)
  <2>1. IdTombstoned(id)' <=> tombstones'[id] # Absent /\ tombstones'[id] + TombstoneIdleTTL > now
    BY <1>2 DEF IdTombstoned
  <2>2. now + TombstoneIdleTTL > now /\ now # Absent
    BY TTLAssumption, AbsentAssumption DEF TypeOK
  <2>3. IdTombstoned(id) <=> tombstones[id] # Absent /\ tombstones[id] + TombstoneIdleTTL > now
    BY DEF IdTombstoned
  <2> HIDE DEF absent, boot
  <2> QED
    BY <1>2, <2>1, <2>2, <2>3
<1>4. id \in knownAtBoot' <=> id \in knownAtBoot \ Incoming(batch) /\ ~GraceOver(fetched)
  BY DEF Process
<1>5. /\ Status(id)' = "live" <=> id \in Tracked'
      /\ Status(id)' = "ended" <=> IdTombstoned(id)'
      /\ Status(id)' = "held" <=> id \in knownAtBoot'
      /\ Status(id)' \in {"unknown", "held", "live", "ended"}
  <2>1. /\ (id \in Tracked)' => ~IdTombstoned(id)' /\ id \notin knownAtBoot'
        /\ id \in knownAtBoot' => ~IdTombstoned(id)' /\ ~(id \in Tracked)'
    BY DEF StoreConsistent, TrackedNotEnded, PendingUnseen, IdTombstoned
  <2> QED
    BY <2>1 DEF Status
<1> HIDE DEF retained, absent, boot
<1> QED
  BY <1>1, <1>3, <1>4, <1>5 DEF retained, absent, boot

\* A reconciliation takes every id through one step of its life.
LEMMA ProcessImplements ==
  ASSUME TypeOK, StoreConsistent, StoreConsistent',
         NEW batch \in Batches, NEW scopeChanged \in BOOLEAN,
         NEW superseded \in Superseding, NEW fetched \in BOOLEAN,
         Process(batch, scopeChanged, superseded, fetched), NEW id \in Id
  PROVE  Life(id)!Next
<1> DEFINE D == Decision(batch, scopeChanged, superseded, fetched)
           retained == Retained(batch, scopeChanged, superseded)
           absent == EndedByAbsence(batch, scopeChanged, superseded)
           boot == EndedAtBoot(batch, fetched)
<1>1. restarts' = restarts /\ decided'[id] = D[id]
  BY DEF Process
<1>2. /\ retained \cup absent \subseteq Tracked \ Incoming(batch)
      /\ LiveIn(batch) \subseteq Incoming(batch)
      /\ retained \cap absent = {}
      /\ boot \subseteq knownAtBoot \ Incoming(batch)
  BY AbsenceFacts, LiveFacts DEF EndedAtBoot
<1>3. /\ Status(id)' = "live" <=> id \in LiveIn(batch) \cup retained
      /\ Status(id)' = "ended" <=> /\ id \notin LiveIn(batch)
                                   /\ id \in Incoming(batch) \cup absent \cup boot \/ IdTombstoned(id)
      /\ Status(id)' = "held" <=> id \in knownAtBoot \ Incoming(batch) /\ ~GraceOver(fetched)
      /\ Status(id)' \in {"unknown", "held", "live", "ended"}
  BY ProcessStatus
<1>4. /\ Status(id) = "live" <=> id \in Tracked
      /\ Status(id) = "ended" <=> IdTombstoned(id)
      /\ Status(id) = "held" <=> id \in knownAtBoot
      /\ Status(id) \in {"unknown", "held", "live", "ended"}
      /\ id \in Tracked => id \notin knownAtBoot /\ ~IdTombstoned(id)
  BY StatusFacts, TombstoneFacts
<1>5. /\ id \notin Incoming(batch) /\ id \in absent \cup boot => D[id] = "removed"
      /\ id \notin Incoming(batch) /\ id \notin absent \cup boot => D[id] = "none"
  BY DecisionFacts DEF NoEvent
<1>6. SUFFICES Life(id)!Step
  BY <1>1 DEF Life!Next
<1>7. CASE id \in LiveIn(batch)
  <2>1. At(batch, id) \in DOMAIN batch /\ batch[At(batch, id)].id = id
    BY <1>2, <1>7, AtFacts
  <2>2. D[id] = EventFor(batch, At(batch, id)) /\ ~Terminal(batch[At(batch, id)])
    BY <1>2, <1>7, DecisionFacts, LiveFacts
  <2>3. /\ id \in Tracked => D[id] \in {"none", "updated"}
        /\ id \notin Tracked /\ id \in knownAtBoot => D[id] \in {"none", "updated"}
        /\ id \notin Tracked /\ id \notin knownAtBoot => D[id] \in {"created", "updated"}
    BY <2>1, <2>2, EventForFacts DEF NoEvent
  <2> HIDE DEF D
  <2>4. CASE id \in Tracked
    BY <1>1, <1>3, <1>4, <1>7, <2>3, <2>4 DEF Life!Step, Life!Change
  <2>5. CASE id \notin Tracked /\ id \in knownAtBoot
    BY <1>1, <1>3, <1>4, <1>7, <2>3, <2>5 DEF Life!Step, Life!Revalidate
  <2>6. CASE id \notin Tracked /\ id \notin knownAtBoot
    <3>1. Status(id) \in {"unknown", "ended"}
      BY <1>4, <2>6
    <3> QED
      BY <1>1, <1>3, <1>7, <2>3, <2>6, <3>1 DEF Life!Step, Life!Appear
  <2> QED
    BY <2>4, <2>5, <2>6
<1>8. CASE id \in Incoming(batch) /\ id \notin LiveIn(batch)
  <2>1. At(batch, id) \in DOMAIN batch /\ batch[At(batch, id)].id = id
    BY <1>8, AtFacts
  <2>2. D[id] = EventFor(batch, At(batch, id)) /\ Terminal(batch[At(batch, id)])
    BY <1>8, DecisionFacts, LiveFacts
  <2>3. Status(id)' = "ended"
    BY <1>3, <1>8
  <2>4. CASE Suppressed(batch, At(batch, id))
    <3>1. D[id] = "none"
      BY <2>1, <2>2, <2>4, EventForFacts DEF NoEvent
    <3> HIDE DEF D
    <3> QED
      BY <1>1, <2>3, <3>1 DEF Life!Step, Life!Recognise
  <2>5. CASE ~Suppressed(batch, At(batch, id))
    <3>1. D[id] = "removed"
      BY <2>1, <2>2, <2>5, EventForFacts
    <3>2. Status(id) # "ended"
      BY <1>4, <2>1, <2>5 DEF Suppressed
    <3> HIDE DEF D
    <3> QED
      BY <1>1, <1>4, <2>3, <3>1, <3>2 DEF Life!Step, Life!End
  <2> QED
    BY <2>4, <2>5
<1> HIDE DEF D, retained, absent, boot
<1>9. CASE id \in retained
  BY <1>1, <1>2, <1>3, <1>4, <1>5, <1>9 DEF Life!Step, Life!Change
<1>10. CASE id \notin Incoming(batch) /\ id \in absent \cup boot
  BY <1>1, <1>2, <1>3, <1>4, <1>5, <1>10 DEF Life!Step, Life!End
<1>11. CASE id \in Tracked \ Incoming(batch) /\ id \notin retained \cup absent
  <2>1. Status(id) = "live" /\ Status(id)' = "unknown" /\ D[id] = "none"
    BY <1>2, <1>3, <1>4, <1>5, <1>11
  <2> QED
    BY <1>1, <2>1 DEF Life!Step, Life!Replaced
<1>12. CASE id \notin Tracked \cup Incoming(batch) /\ id \notin boot
  <2>1. D[id] = "none"
    BY <1>2, <1>5, <1>12
  <2>2. id \in knownAtBoot => ~GraceOver(fetched)
    BY <1>12 DEF boot, EndedAtBoot
  <2>3. Status(id)' = Status(id)
    BY <1>2, <1>3, <1>4, <1>12, <2>2
  <2> QED
    BY <1>1, <2>1, <2>3 DEF Life!Step, Life!Idle
<1> QED
  BY <1>7, <1>8, <1>9, <1>10, <1>11, <1>12

\* Every behaviour of the store is, for every id, a behaviour of Incident: the
\* initial states map to its initial state, each step to a step or a stutter.
THEOREM StoreImplementsIncident == Spec => ImplementsIncident
<1>1. Init => \A id \in Id : Life(id)!Init
  BY DEF Init, Life!Init, Status, Tracked, IdTombstoned, NoEvent
<1>2. ASSUME TypeOK, StoreConsistent, StoreConsistent', [Next]_vars
      PROVE  [\A id \in Id : Life(id)!Next \/ UNCHANGED Life(id)!vars]_vars
  <2>1. CASE Fetch \/ Rebuild
    BY <1>2, <2>1, ProcessImplements DEF Fetch, Rebuild
  <2>2. ASSUME UNCHANGED <<now, previous, tombstones, knownAtBoot, restarts>>,
               decided' = [id \in Id |-> NoEvent]
        PROVE  \A id \in Id : Life(id)!Next
    <3> SUFFICES ASSUME NEW id \in Id
                 PROVE  Life(id)!Next
      OBVIOUS
    <3>1. Status(id)' = Status(id) /\ decided'[id] = "none"
      BY <2>2 DEF Status, Tracked, IdTombstoned, NoEvent
    <3> QED
      BY <2>2, <3>1 DEF Life!Next, Life!Step, Life!Idle
  <2>3. ASSUME NEW id \in Id, Release(id) \/ Register(id) \/ Unregister(id)
        PROVE  \A x \in Id : Life(x)!Next
    BY <2>2, <2>3 DEF Release, Register, Unregister, storeVars, Silent
  <2>4. CASE Save
    BY <2>2, <2>4 DEF Save, storeVars, Silent
  <2>5. ASSUME NEW readable \in BOOLEAN, Restart(readable), NEW id \in Id
        PROVE  Life(id)!Next
    <3>1. restarts' = restarts + 1 /\ decided'[id] = "none" /\ tombstones'[id] = Absent
      BY <2>5 DEF Restart, Silent, NoEvent
    <3>2. Status(id)' \in {"unknown", "held", "live"}
      BY <3>1 DEF Status, IdTombstoned
    <3> QED
      BY <3>1, <3>2 DEF Life!Next, Life!Reboot
  <2>6. ASSUME Tick, NEW id \in Id
        PROVE  Life(id)!Next
    <3>1. /\ now' = now + 1 /\ restarts' = restarts /\ decided'[id] = "none"
          /\ UNCHANGED <<previous, tombstones, knownAtBoot>>
      BY <2>6 DEF Tick, Silent, storeVars, NoEvent
    <3>2. IdTombstoned(id)' => IdTombstoned(id)
      BY <1>2, <3>1, TTLAssumption DEF IdTombstoned, TypeOK
    <3>3. /\ IdTombstoned(id) => id \notin Tracked /\ id \notin knownAtBoot
          /\ (id \in Tracked)' <=> id \in Tracked
      BY <1>2, <3>1, TombstoneFacts DEF Tracked
    <3>4. \/ Status(id)' = Status(id)
          \/ Status(id) = "ended" /\ Status(id)' = "unknown"
      BY <3>1, <3>2, <3>3 DEF Status
    <3> QED
      BY <3>1, <3>4 DEF Life!Next, Life!Step, Life!Idle, Life!Forget
  <2> QED
    BY <1>2, <2>1, <2>3, <2>4, <2>5, <2>6 DEF Next
<1> QED
  BY <1>1, <1>2, TypeCorrect, ConsistentAlways, PTL DEF Spec, ImplementsIncident

-----------------------------------------------------------------------------
(* The closed forms are what the loop of store.py computes                 *)

\* A recursion over 0..n has one solution.
LEMMA OneSolution ==
  ASSUME NEW n \in Nat, NEW f, NEW g, f[0] = g[0],
         \A i \in 1 .. n : f[i - 1] = g[i - 1] => f[i] = g[i]
  PROVE  f[n] = g[n]
<1> DEFINE Bad == {i \in 0 .. n : f[i] # g[i]}
           Order == OpToRel(<, Nat)
<1>1. SUFFICES ASSUME Bad # {} PROVE FALSE
  OBVIOUS
<1>2. PICK i \in Bad : \A j \in Bad : ~(<<j, i>> \in Order)
  <2>1. IsWellFoundedOn(Order, Nat)
    BY NatLessThanWellFounded
  <2>2. Bad \subseteq Nat
    OBVIOUS
  <2> HIDE DEF Order, Bad
  <2> QED BY <1>1, <2>1, <2>2, WFMin
<1>3. Bad \subseteq Nat /\ i \in Nat
  OBVIOUS
<1>4. ASSUME NEW j \in Bad PROVE ~(j < i)
  <2> HIDE DEF Bad
  <2>1. j \in Nat /\ i \in Nat
    BY <1>3
  <2>2. <<j, i>> \notin Order
    <3> HIDE DEF Order
    <3> QED BY <1>2
  <2> QED BY <2>1, <2>2 DEF OpToRel
<1>5. i \in 1 .. n
  OBVIOUS
<1>6. i - 1 \notin Bad /\ i - 1 \in 0 .. n
  BY <1>4, <1>5
<1> QED BY <1>5, <1>6

-----------------------------------------------------------------------------
(* What the loop has made of the first i records of a batch                *)

\* The ids of the records met so far, and what the maps hold of them.
ListedBy(batch, i) == {batch[j].id : j \in 1 .. i}

IdsAfter(batch, i) ==
  [id \in Id |-> IF id \in ListedBy(batch, i)
                 THEN IF id \in LiveIn(batch) THEN Absent ELSE now
                 ELSE IF IdTombstoned(id) THEN tombstones[id] ELSE Absent]

\* r was ended by a record and popped by none since, or was ended all along.
EndedWithin(batch, i, r) ==
  \E j \in 1 .. i : Ends(batch, j, r) /\ \A k \in (j + 1) .. i : ~Revives(batch, k, r)
KeptWithin(batch, i, r) ==
  IdentifierTombstoned(r) /\ \A k \in 1 .. i : ~Revives(batch, k, r)

IdentifiersAfter(batch, i) ==
  [r \in Identifier |-> IF EndedWithin(batch, i, r) THEN now
                        ELSE IF KeptWithin(batch, i, r) THEN tombstonedIdentifiers[r]
                        ELSE Absent]

ActiveAfter(batch, i) ==
  [id \in Id |-> IF id \in LiveIn(batch) /\ id \in ListedBy(batch, i)
                 THEN EntryOf(batch[At(batch, id)]) ELSE Absent]

\* The turn of a is diffed against the alert tracked under id.
Diffs(a, id) ==
  /\ ~Terminal(a)
  /\ IF a.id \in Tracked THEN id = a.id
     ELSE SupersededBy(a) # {} /\ id = Superseded(a)
SeenAfter(batch, i) == {id \in restored : \A j \in 1 .. i : ~Diffs(batch[j], id)}

FiredAfter(batch, i) ==
  [id \in Id |-> IF id \in ListedBy(batch, i) THEN EventFor(batch, At(batch, id)) ELSE NoEvent]

\* What the loop holds: ids, identifiers, records, restored ids, events.
Held(I, R, A, S, F) ==
  [ids |-> I, identifiers |-> R, active |-> A, seen |-> S, fired |-> F]

StoreAfter(batch, i) ==
  Held(IdsAfter(batch, i), IdentifiersAfter(batch, i), ActiveAfter(batch, i),
       SeenAfter(batch, i), FiredAfter(batch, i))

\* The prune keeps the tombstones IdTombstoned and IdentifierTombstoned count.
LEMMA PruneFacts ==
  ASSUME TypeOK
  PROVE  /\ Prune(tombstones) = [id \in Id |-> IF IdTombstoned(id) THEN tombstones[id] ELSE Absent]
         /\ Prune(tombstonedIdentifiers)
              = [r \in Identifier |-> IF IdentifierTombstoned(r)
                                      THEN tombstonedIdentifiers[r] ELSE Absent]
<1>1. TombstoneIdleTTL \in Nat /\ now \in Nat
  BY TTLAssumption DEF TypeOK
<1>2. ASSUME NEW id \in Id
      PROVE  tombstones[id] # Absent /\ tombstones[id] > now - TombstoneIdleTTL
               <=> IdTombstoned(id)
  <2>1. tombstones[id] \in Nat \cup {Absent}
    BY DEF TypeOK
  <2> QED BY <1>1, <2>1 DEF IdTombstoned
<1>3. ASSUME NEW r \in Identifier
      PROVE  tombstonedIdentifiers[r] # Absent
                 /\ tombstonedIdentifiers[r] > now - TombstoneIdleTTL
               <=> IdentifierTombstoned(r)
  <2>1. tombstonedIdentifiers[r] \in Nat \cup {Absent}
    BY DEF TypeOK
  <2> QED BY <1>1, <2>1 DEF IdentifierTombstoned
<1>4. DOMAIN tombstones = Id /\ DOMAIN tombstonedIdentifiers = Identifier
  BY DEF TypeOK
<1> QED BY <1>2, <1>3, <1>4 DEF Prune

\* Before its first record the loop holds the pruned maps.
LEMMA LoopStartIs ==
  ASSUME TypeOK, NEW batch
  PROVE  LoopStart = StoreAfter(batch, 0)
<1>1. 1 .. 0 = {}
  OBVIOUS
<1>2. ListedBy(batch, 0) = {}
  BY <1>1 DEF ListedBy
<1>3. IdsAfter(batch, 0) = Prune(tombstones)
  BY <1>2, PruneFacts DEF IdsAfter
<1>4. \A r \in Identifier : ~EndedWithin(batch, 0, r)
                            /\ (KeptWithin(batch, 0, r) <=> IdentifierTombstoned(r))
  BY <1>1 DEF EndedWithin, KeptWithin
<1>5. IdentifiersAfter(batch, 0) = Prune(tombstonedIdentifiers)
  BY <1>4, PruneFacts DEF IdentifiersAfter
<1>6. ActiveAfter(batch, 0) = [id \in Id |-> Absent]
  BY <1>2 DEF ActiveAfter
<1>7. SeenAfter(batch, 0) = restored
  BY <1>1 DEF SeenAfter
<1>8. FiredAfter(batch, 0) = [id \in Id |-> NoEvent]
  BY <1>2 DEF FiredAfter
<1> QED BY <1>3, <1>5, <1>6, <1>7, <1>8 DEF StoreAfter, Held, LoopStart

\* One record more.
LEMMA ListedByOneMore ==
  ASSUME NEW batch \in Batches, NEW i \in 1 .. Len(batch)
  PROVE  /\ batch[i] \in Record /\ batch[i].id \in Id
         /\ ListedBy(batch, i) = ListedBy(batch, i - 1) \cup {batch[i].id}
         /\ batch[i].id \notin ListedBy(batch, i - 1)
         /\ At(batch, batch[i].id) = i
         /\ batch[i].id \in LiveIn(batch) <=> ~Terminal(batch[i])
         /\ batch[i].id \in Incoming(batch)
<1>1. /\ DOMAIN batch = 1 .. Len(batch) /\ Len(batch) \in Nat /\ i \in Nat
      /\ \A j, k \in DOMAIN batch : batch[j].id = batch[k].id => j = k
      /\ \A j \in DOMAIN batch : batch[j] \in Record
  BY BatchFacts
<1>2. 1 .. i = (1 .. (i - 1)) \cup {i}
  BY <1>1
<1>3. ListedBy(batch, i) = ListedBy(batch, i - 1) \cup {batch[i].id}
  BY <1>2 DEF ListedBy
<1>4. batch[i].id \notin ListedBy(batch, i - 1)
  BY <1>1 DEF ListedBy
<1>5. batch[i] \in Record /\ batch[i].id \in Id
  BY <1>1 DEF Record
<1>6. At(batch, batch[i].id) = i
  BY <1>1, AtFacts
<1>7. batch[i].id \in Incoming(batch)
  BY <1>1 DEF Incoming
<1>8. batch[i].id \in LiveIn(batch) <=> ~Terminal(batch[i])
  BY <1>6, <1>7, LiveFacts
<1> QED BY <1>3, <1>4, <1>5, <1>6, <1>7, <1>8

\* The next record writes its own id: ended now, or live and so not ended.
LEMMA IdsStep ==
  ASSUME NEW batch \in Batches, NEW i \in 1 .. Len(batch)
  PROVE  IdsAfter(batch, i)
           = [IdsAfter(batch, i - 1) EXCEPT
                ![batch[i].id] = IF Terminal(batch[i]) THEN now ELSE Absent]
<1>1. PICK x : x = batch[i].id
  OBVIOUS
<1>2. /\ x \in Id
      /\ ListedBy(batch, i) = ListedBy(batch, i - 1) \cup {x}
      /\ x \in LiveIn(batch) <=> ~Terminal(batch[i])
  BY <1>1, ListedByOneMore
<1> QED BY <1>1, <1>2 DEF IdsAfter

\* A live record is kept; a terminal one is not.
LEMMA ActiveStep ==
  ASSUME NEW batch \in Batches, NEW i \in 1 .. Len(batch)
  PROVE  ActiveAfter(batch, i)
           = IF Terminal(batch[i]) THEN ActiveAfter(batch, i - 1)
             ELSE [ActiveAfter(batch, i - 1) EXCEPT ![batch[i].id] = EntryOf(batch[i])]
<1>1. PICK x : x = batch[i].id
  OBVIOUS
<1>2. /\ x \in Id /\ At(batch, x) = i
      /\ ListedBy(batch, i) = ListedBy(batch, i - 1) \cup {x}
      /\ x \in LiveIn(batch) <=> ~Terminal(batch[i])
  BY <1>1, ListedByOneMore
<1>3. PICK e : e = [id \in Id |-> EntryOf(batch[At(batch, id)])]
  OBVIOUS
<1>4. e[x] = EntryOf(batch[i])
  BY <1>2, <1>3
<1>5. \A k : ActiveAfter(batch, k)
         = [id \in Id |-> IF id \in LiveIn(batch) /\ id \in ListedBy(batch, k)
                          THEN e[id] ELSE Absent]
  BY <1>3 DEF ActiveAfter
<1> QED BY <1>1, <1>2, <1>4, <1>5

\* Each id has one turn, so its event is the first it fires.
LEMMA FiredStep ==
  ASSUME NEW batch \in Batches, NEW i \in 1 .. Len(batch)
  PROVE  /\ FiredAfter(batch, i)
              = [FiredAfter(batch, i - 1) EXCEPT ![batch[i].id] = EventFor(batch, i)]
         /\ EventFor(batch, i) = NoEvent => FiredAfter(batch, i) = FiredAfter(batch, i - 1)
<1>1. PICK x : x = batch[i].id
  OBVIOUS
<1>2. /\ x \in Id /\ At(batch, x) = i
      /\ ListedBy(batch, i) = ListedBy(batch, i - 1) \cup {x}
      /\ x \notin ListedBy(batch, i - 1)
  BY <1>1, ListedByOneMore
<1>3. PICK e : e = [id \in Id |-> EventFor(batch, At(batch, id))]
  OBVIOUS
<1>4. e[x] = EventFor(batch, i)
  BY <1>2, <1>3
<1>5. \A k : FiredAfter(batch, k)
         = [id \in Id |-> IF id \in ListedBy(batch, k) THEN e[id] ELSE NoEvent]
  BY <1>3 DEF FiredAfter
<1> QED BY <1>1, <1>2, <1>4, <1>5

\* IdentifiersAfter as a value: Absent unless the loop holds r tombstoned.
LEMMA IdentifiersHeld ==
  ASSUME TypeOK, NEW batch, NEW i, NEW r \in Identifier
  PROVE  IdentifiersAfter(batch, i)[r] # Absent
           <=> EndedWithin(batch, i, r) \/ KeptWithin(batch, i, r)
<1>1. now # Absent
  BY AbsentAssumption DEF TypeOK
<1>2. KeptWithin(batch, i, r) => tombstonedIdentifiers[r] # Absent
  BY DEF KeptWithin, IdentifierTombstoned
<1> QED BY <1>1, <1>2 DEF IdentifiersAfter

\* How one record moves an identifier.
LEMMA WithinStep ==
  ASSUME NEW batch \in Batches, NEW i \in 1 .. Len(batch), NEW r
  PROVE  /\ EndedWithin(batch, i, r)
              <=> Ends(batch, i, r) \/ (EndedWithin(batch, i - 1, r) /\ ~Revives(batch, i, r))
         /\ KeptWithin(batch, i, r) <=> KeptWithin(batch, i - 1, r) /\ ~Revives(batch, i, r)
<1>1. Len(batch) \in Nat /\ i \in Nat
  BY BatchFacts
<1>2. 1 .. i = (1 .. (i - 1)) \cup {i}
  BY <1>1
<1>3. KeptWithin(batch, i, r) <=> KeptWithin(batch, i - 1, r) /\ ~Revives(batch, i, r)
  BY <1>2 DEF KeptWithin
<1>4. \A j \in 1 .. (i - 1) : (j + 1) .. i = ((j + 1) .. (i - 1)) \cup {i}
  BY <1>1
<1>5. (i + 1) .. i = {}
  BY <1>1
<1>6. ASSUME EndedWithin(batch, i, r)
      PROVE  Ends(batch, i, r) \/ (EndedWithin(batch, i - 1, r) /\ ~Revives(batch, i, r))
  <2>1. PICK j \in 1 .. i : Ends(batch, j, r) /\ \A k \in (j + 1) .. i : ~Revives(batch, k, r)
    BY <1>6 DEF EndedWithin
  <2>2. CASE j = i
    BY <2>1, <2>2
  <2>3. CASE j \in 1 .. (i - 1)
    BY <1>4, <2>1, <2>3 DEF EndedWithin
  <2> QED BY <1>2, <2>2, <2>3
<1>7. ASSUME Ends(batch, i, r)
      PROVE  EndedWithin(batch, i, r)
  BY <1>2, <1>5, <1>7 DEF EndedWithin
<1>8. ASSUME EndedWithin(batch, i - 1, r), ~Revives(batch, i, r)
      PROVE  EndedWithin(batch, i, r)
  <2>1. PICK j \in 1 .. (i - 1) : Ends(batch, j, r)
                                  /\ \A k \in (j + 1) .. (i - 1) : ~Revives(batch, k, r)
    BY <1>8 DEF EndedWithin
  <2> QED BY <1>2, <1>4, <1>8, <2>1 DEF EndedWithin
<1> QED BY <1>3, <1>6, <1>7, <1>8

\* A terminal record tombstones its identifier, a live one pops its references.
LEMMA IdentifiersStep ==
  ASSUME NEW batch \in Batches, NEW i \in 1 .. Len(batch)
  PROVE  /\ Terminal(batch[i]) /\ batch[i].identifier # NoIdentifier =>
              IdentifiersAfter(batch, i)
                = [IdentifiersAfter(batch, i - 1) EXCEPT ![batch[i].identifier] = now]
         /\ Terminal(batch[i]) /\ batch[i].identifier = NoIdentifier =>
              IdentifiersAfter(batch, i) = IdentifiersAfter(batch, i - 1)
         /\ ~Terminal(batch[i]) =>
              IdentifiersAfter(batch, i)
                = [r \in Identifier |-> IF r \in batch[i].references THEN Absent
                                        ELSE IdentifiersAfter(batch, i - 1)[r]]
<1>1. batch[i].identifier \in Identifier \cup {NoIdentifier}
  BY ListedByOneMore DEF Record
<1>2. CASE Terminal(batch[i]) /\ batch[i].identifier # NoIdentifier
  <2>1. \A r \in Identifier :
          /\ EndedWithin(batch, i, r)
               <=> r = batch[i].identifier \/ EndedWithin(batch, i - 1, r)
          /\ KeptWithin(batch, i, r) <=> KeptWithin(batch, i - 1, r)
    BY <1>2, WithinStep DEF Ends, Revives
  <2>2. \A r \in Identifier : IdentifiersAfter(batch, i)[r]
          = IF r = batch[i].identifier THEN now ELSE IdentifiersAfter(batch, i - 1)[r]
    BY <2>1 DEF IdentifiersAfter
  <2> QED BY <1>1, <1>2, <2>2 DEF IdentifiersAfter
<1>3. CASE Terminal(batch[i]) /\ batch[i].identifier = NoIdentifier
  <2>1. \A r \in Identifier :
          /\ EndedWithin(batch, i, r) <=> EndedWithin(batch, i - 1, r)
          /\ KeptWithin(batch, i, r) <=> KeptWithin(batch, i - 1, r)
    BY <1>3, NoIdentifierAssumption, WithinStep DEF Ends, Revives
  <2> QED BY <1>3, <2>1 DEF IdentifiersAfter
<1>4. CASE ~Terminal(batch[i])
  <2>1. \A r \in Identifier :
          /\ EndedWithin(batch, i, r)
               <=> r \notin batch[i].references /\ EndedWithin(batch, i - 1, r)
          /\ KeptWithin(batch, i, r)
               <=> r \notin batch[i].references /\ KeptWithin(batch, i - 1, r)
    BY <1>4, WithinStep DEF Ends, Revives
  <2> QED BY <1>4, <2>1 DEF IdentifiersAfter
<1> QED BY <1>2, <1>3, <1>4

\* A turn takes the record it is diffed against off the restored set, so what
\* stood there when the loop came to batch[i] is what DiffedBefore leaves.
LEMMA SeenStep ==
  ASSUME NEW batch \in Batches, NEW i \in 1 .. Len(batch)
  PROVE  /\ SeenAfter(batch, i) = {id \in SeenAfter(batch, i - 1) : ~Diffs(batch[i], id)}
         /\ batch[i].id \in SeenAfter(batch, i - 1)
              <=> batch[i].id \in restored /\ ~DiffedBefore(batch, i)
<1>1. /\ Len(batch) \in Nat /\ i \in Nat /\ DOMAIN batch = 1 .. Len(batch)
      /\ \A j, k \in DOMAIN batch : batch[j].id = batch[k].id => j = k
  BY BatchFacts
<1>2. 1 .. i = (1 .. (i - 1)) \cup {i}
  BY <1>1
<1>3. SeenAfter(batch, i) = {id \in SeenAfter(batch, i - 1) : ~Diffs(batch[i], id)}
  BY <1>2 DEF SeenAfter
<1>4. \A j \in 1 .. (i - 1) : batch[j].id # batch[i].id
  BY <1>1
<1>5. DiffedBefore(batch, i) <=> \E j \in 1 .. (i - 1) : Diffs(batch[j], batch[i].id)
  BY <1>4 DEF DiffedBefore, Diffs
<1>6. batch[i].id \in SeenAfter(batch, i - 1)
        <=> batch[i].id \in restored /\ ~DiffedBefore(batch, i)
  BY <1>5 DEF SeenAfter
<1> QED BY <1>3, <1>6

\* What the parts of a turn do to the five fields of what the loop holds.
Put(f, k, value) == [f EXCEPT ![k] = value]
EndIdentifier(R, r) == IF r = NoIdentifier THEN R ELSE Put(R, r, now)
Clear(R, references) == [r \in Identifier |-> IF r \in references THEN Absent ELSE R[r]]

LEMMA TombstoneIs ==
  ASSUME NEW I, NEW R, NEW A, NEW S, NEW F, NEW id, NEW r
  PROVE  Tombstone(Held(I, R, A, S, F), id, r)
           = Held(Put(I, id, now), EndIdentifier(R, r), A, S, F)
<1>1. PICK s, I1, R1 : s = Held(I, R, A, S, F) /\ I1 = Put(I, id, now) /\ R1 = EndIdentifier(R, r)
  OBVIOUS
<1>2. Tombstone(s, id, r) = [s EXCEPT !.ids = I1, !.identifiers = R1]
  <2>1. CASE r = NoIdentifier
    BY <1>1, <2>1 DEF Tombstone, Held, Put, EndIdentifier
  <2>2. CASE r # NoIdentifier
    BY <1>1, <2>2 DEF Tombstone, Held, Put, EndIdentifier
  <2> QED BY <2>1, <2>2
<1> QED BY <1>1, <1>2 DEF Held

LEMMA FireIs ==
  ASSUME NEW I, NEW R, NEW A, NEW S, NEW F, NEW id, NEW e
  PROVE  Fire(Held(I, R, A, S, F), id, e) = Held(I, R, A, S, Put(F, id, e))
BY DEF Fire, Held, Put

LEMMA KeepReviveIs ==
  ASSUME NEW I, NEW R, NEW A, NEW S, NEW F, NEW a
  PROVE  Keep(Revive(Held(I, R, A, S, F), a), a)
           = Held(Put(I, a.id, Absent), Clear(R, a.references), Put(A, a.id, EntryOf(a)), S, F)
<1>1. PICK s, I1, R1, A1, e :
        /\ s = Held(I, R, A, S, F) /\ I1 = Put(I, a.id, Absent) /\ e = EntryOf(a)
        /\ R1 = Clear(R, a.references) /\ A1 = Put(A, a.id, EntryOf(a))
  OBVIOUS
<1>2. s.identifiers = R /\ s.ids = I
  BY <1>1 DEF Held
<1>3. Revive(s, a) = [s EXCEPT !.ids[a.id] = Absent, !.identifiers = R1]
  BY <1>1, <1>2 DEF Revive, Clear
<1>4. Revive(s, a) = Held(I1, R1, A, S, F)
  BY <1>1, <1>3 DEF Held, Put
<1>5. A1 = [A EXCEPT ![a.id] = e]
  BY <1>1 DEF Put
<1> QED BY <1>1, <1>4, <1>5 DEF Keep, Held

\* A terminal record's turn.
LEMMA TerminalStep ==
  ASSUME TypeOK, NEW batch \in Batches, NEW i \in 1 .. Len(batch), Terminal(batch[i])
  PROVE  TerminalTurn(StoreAfter(batch, i - 1), batch[i]) = StoreAfter(batch, i)
<1>1. PICK a : a = batch[i]
  OBVIOUS
<1>2. PICK I, R, A, S, F :
        /\ I = IdsAfter(batch, i - 1) /\ R = IdentifiersAfter(batch, i - 1)
        /\ A = ActiveAfter(batch, i - 1) /\ S = SeenAfter(batch, i - 1)
        /\ F = FiredAfter(batch, i - 1)
  OBVIOUS
<1>3. StoreAfter(batch, i - 1) = Held(I, R, A, S, F)
  BY <1>2 DEF StoreAfter
<1>4. PICK I1, R1, s :
        /\ I1 = Put(I, a.id, now) /\ R1 = EndIdentifier(R, a.identifier)
        /\ s = Held(I, R, A, S, F)
  OBVIOUS
<1>5. PICK ended : ended = Held(I1, R1, A, S, F)
  OBVIOUS
<1>6. Tombstone(s, a.id, a.identifier) = ended
  BY <1>4, <1>5, TombstoneIs
<1>7. /\ IdsAfter(batch, i) = I1
      /\ IdentifiersAfter(batch, i) = R1
      /\ ActiveAfter(batch, i) = A
  <2>1. IdsAfter(batch, i) = I1
    BY <1>1, <1>2, <1>4, IdsStep DEF Put
  <2>2. IdentifiersAfter(batch, i) = R1
    BY <1>1, <1>2, <1>4, IdentifiersStep DEF EndIdentifier, Put
  <2>3. ActiveAfter(batch, i) = A
    BY <1>2, ActiveStep
  <2> QED BY <2>1, <2>2, <2>3
<1>8. SeenAfter(batch, i) = S
  <2>1. \A id : ~Diffs(batch[i], id)
    BY DEF Diffs
  <2>2. S = {id \in S : TRUE}
    BY <1>2 DEF SeenAfter
  <2> QED BY <1>2, <2>1, <2>2, SeenStep
<1>9. StoreAfter(batch, i) = Held(I1, R1, A, S, FiredAfter(batch, i))
  BY <1>7, <1>8 DEF StoreAfter
<1>10. a.id \in Id /\ a \in Record /\ i \in DOMAIN batch
  BY <1>1, ListedByOneMore, BatchFacts
<1>11. Suppressed(batch, i)
        <=> \/ I[a.id] # Absent
            \/ \E r \in a.references : R[r] # Absent
            \/ booting /\ previous[a.id] = Absent /\ a.id \notin knownAtBoot
  <2>1. I[a.id] # Absent <=> IdTombstoned(a.id)
    <3>1. a.id \notin ListedBy(batch, i - 1)
      BY <1>1, ListedByOneMore
    <3>2. I[a.id] = IF IdTombstoned(a.id) THEN tombstones[a.id] ELSE Absent
      BY <1>2, <1>10, <3>1 DEF IdsAfter
    <3> QED BY <3>2 DEF IdTombstoned
  <2>2. ASSUME NEW r \in a.references
        PROVE  R[r] # Absent <=> IdentifierEndedBefore(batch, i, r)
    <3>1. r \in Identifier
      BY <1>10 DEF Record
    <3>2. R[r] # Absent <=> EndedWithin(batch, i - 1, r) \/ KeptWithin(batch, i - 1, r)
      BY <1>2, <3>1, IdentifiersHeld
    <3> QED BY <3>2 DEF EndedWithin, KeptWithin, IdentifierEndedBefore
  <2>3. previous[a.id] = Absent <=> a.id \notin Tracked
    BY <1>10 DEF Tracked
  <2> QED BY <1>1, <2>1, <2>2, <2>3 DEF Suppressed
<1>12. /\ Suppressed(batch, i) => FiredAfter(batch, i) = F
       /\ ~Suppressed(batch, i) => FiredAfter(batch, i) = Put(F, a.id, "removed")
  <2>1. /\ Suppressed(batch, i) => EventFor(batch, i) = NoEvent
        /\ ~Suppressed(batch, i) => EventFor(batch, i) = "removed"
    BY <1>10, EventForFacts
  <2> QED BY <1>1, <1>2, <2>1, FiredStep DEF Put
<1>13. TerminalTurn(s, a)
         = IF Suppressed(batch, i) THEN ended ELSE Fire(ended, a.id, "removed")
  <2>1. s.ids = I /\ s.identifiers = R
    BY <1>4 DEF Held
  <2>3. CASE Suppressed(batch, i)
    BY <1>6, <1>11, <2>1, <2>3 DEF TerminalTurn
  <2>4. CASE ~Suppressed(batch, i)
    BY <1>6, <1>11, <2>1, <2>4 DEF TerminalTurn
  <2> QED BY <2>3, <2>4
<1>14. Fire(ended, a.id, "removed")
         = Held(I1, R1, A, S, Put(F, a.id, "removed"))
  BY <1>5, FireIs
<1> QED BY <1>1, <1>3, <1>4, <1>5, <1>9, <1>12, <1>13, <1>14

\* A live record's turn.
LEMMA LiveStep ==
  ASSUME TypeOK, NEW batch \in Batches, NEW i \in 1 .. Len(batch), ~Terminal(batch[i])
  PROVE  LiveTurn(StoreAfter(batch, i - 1), batch[i]) = StoreAfter(batch, i)
<1>1. PICK a : a = batch[i]
  OBVIOUS
<1>2. PICK I, R, A, S, F :
        /\ I = IdsAfter(batch, i - 1) /\ R = IdentifiersAfter(batch, i - 1)
        /\ A = ActiveAfter(batch, i - 1) /\ S = SeenAfter(batch, i - 1)
        /\ F = FiredAfter(batch, i - 1)
  OBVIOUS
<1>3. PICK s : s = Held(I, R, A, S, F) /\ s = StoreAfter(batch, i - 1)
  BY <1>2 DEF StoreAfter
<1>4. PICK I1, R1, A1 :
        /\ I1 = Put(I, a.id, Absent) /\ R1 = Clear(R, a.references) /\ A1 = Put(A, a.id, EntryOf(a))
  OBVIOUS
<1>5. PICK revived : revived = Held(I1, R1, A1, S, F)
  OBVIOUS
<1>6. Keep(Revive(s, a), a) = revived
  <2>1. Keep(Revive(Held(I, R, A, S, F), a), a)
          = Held(Put(I, a.id, Absent), Clear(R, a.references), Put(A, a.id, EntryOf(a)), S, F)
    BY KeepReviveIs
  <2> QED BY <1>3, <1>4, <1>5, <2>1
<1>7. StoreAfter(batch, i)
        = Held(I1, R1, A1, {id \in S : ~Diffs(a, id)}, FiredAfter(batch, i))
  <2>1. IdsAfter(batch, i) = I1
    BY <1>1, <1>2, <1>4, IdsStep DEF Put
  <2>2. IdentifiersAfter(batch, i) = R1
    BY <1>1, <1>2, <1>4, IdentifiersStep DEF Clear
  <2>3. ActiveAfter(batch, i) = A1
    BY <1>1, <1>2, <1>4, ActiveStep DEF Put
  <2>4. SeenAfter(batch, i) = {id \in S : ~Diffs(a, id)}
    BY <1>1, <1>2, SeenStep
  <2> QED BY <2>1, <2>2, <2>3, <2>4 DEF StoreAfter
<1>8. a.id \in Id /\ a \in Record
  BY <1>1, ListedByOneMore
<1>9. previous[a.id] = Absent <=> a.id \notin Tracked
  BY <1>8 DEF Tracked
<1>10. FiredAfter(batch, i) = Put(F, a.id, LiveEvent(batch, i))
       /\ (LiveEvent(batch, i) = NoEvent => FiredAfter(batch, i) = F)
  <2>1. EventFor(batch, i) = LiveEvent(batch, i)
    BY DEF EventFor
  <2> QED BY <1>1, <1>2, <2>1, FiredStep DEF Put
<1>11. CASE a.id \notin Tracked
  <2>1. CASE SupersededBy(a) # {}
    <3>1. PICK q : q = Superseded(a)
      OBVIOUS
    <3>2. {id \in S : ~Diffs(a, id)} = S \ {q}
      BY <1>1, <1>11, <2>1, <3>1 DEF Diffs
    <3>3. LiveEvent(batch, i) = "updated"
      BY <1>1, <1>11, <2>1 DEF LiveEvent
    <3>4. LiveTurn(s, a) = Fire([revived EXCEPT !.seen = @ \ {q}], a.id, "updated")
      BY <1>6, <1>9, <1>11, <2>1, <3>1 DEF LiveTurn
    <3>5. [revived EXCEPT !.seen = @ \ {q}] = Held(I1, R1, A1, S \ {q}, F)
      <4>1. PICK S1 : S1 = S \ {q}
        OBVIOUS
      <4>2. revived.seen = S
        BY <1>5 DEF Held
      <4>3. [revived EXCEPT !.seen = S1] = Held(I1, R1, A1, S1, F)
        BY <1>5 DEF Held
      <4> QED BY <4>1, <4>2, <4>3
    <3>6. LiveTurn(s, a) = Held(I1, R1, A1, S \ {q}, Put(F, a.id, "updated"))
      BY <3>4, <3>5, FireIs
    <3> QED BY <1>1, <1>3, <1>7, <1>10, <3>2, <3>3, <3>6
  <2>2. CASE SupersededBy(a) = {}
    <3>1. {id \in S : ~Diffs(a, id)} = S
      BY <1>11, <2>2 DEF Diffs
    <3>2. CASE a.id \in knownAtBoot
      <4>1. LiveTurn(s, a) = revived
        BY <1>6, <1>9, <1>11, <2>2, <3>2 DEF LiveTurn
      <4>2. LiveEvent(batch, i) = NoEvent
        BY <1>1, <1>11, <2>2, <3>2 DEF LiveEvent
      <4> QED BY <1>1, <1>3, <1>5, <1>7, <1>10, <3>1, <4>1, <4>2
    <3>3. CASE a.id \notin knownAtBoot
      <4>1. LiveTurn(s, a) = Fire(revived, a.id, "created")
        BY <1>6, <1>9, <1>11, <2>2, <3>3 DEF LiveTurn
      <4>2. LiveEvent(batch, i) = "created"
        BY <1>1, <1>11, <2>2, <3>3 DEF LiveEvent
      <4>3. LiveTurn(s, a) = Held(I1, R1, A1, S, Put(F, a.id, "created"))
        BY <1>5, <4>1, FireIs
      <4> QED BY <1>1, <1>3, <1>7, <1>10, <3>1, <4>2, <4>3
    <3> QED BY <3>2, <3>3
  <2> QED BY <2>1, <2>2
<1>12. CASE a.id \in Tracked
  <2>1. {id \in S : ~Diffs(a, id)} = S \ {a.id}
    BY <1>1, <1>12 DEF Diffs
  <2>2. s.seen = S
    BY <1>3 DEF Held
  <2>3. a.id \in S <=> a.id \in restored /\ ~DiffedBefore(batch, i)
    BY <1>1, <1>2, SeenStep
  <2>4. PICK changed : changed = ChangedFields(batch, i)
    OBVIOUS
  <2>5. changed = {f \in IF a.id \in s.seen THEN RestoredDiffFields ELSE ChangedFieldsAllowlist :
                     previous[a.id][f] # EntryOf(a)[f]}
    BY <1>1, <2>2, <2>3, <2>4 DEF ChangedFields
  <2>6. PICK kept : kept = [revived EXCEPT !.seen = @ \ {a.id}]
    OBVIOUS
  <2>7. kept = Held(I1, R1, A1, S \ {a.id}, F)
    BY <1>5, <2>6 DEF Held
  <2>8. LiveTurn(s, a) = IF changed = {} THEN kept ELSE Fire(kept, a.id, "updated")
    BY <1>6, <1>9, <1>12, <2>5, <2>6 DEF LiveTurn
  <2>9. LiveEvent(batch, i) = IF changed = {} THEN NoEvent ELSE "updated"
    BY <1>1, <1>12, <2>4 DEF LiveEvent
  <2>10. Fire(kept, a.id, "updated")
           = Held(I1, R1, A1, S \ {a.id}, Put(F, a.id, "updated"))
    BY <2>7, FireIs
  <2> QED BY <1>1, <1>3, <1>7, <1>10, <2>1, <2>7, <2>8, <2>9, <2>10
<1> QED BY <1>11, <1>12

\* The pass over the batch ends where the closed forms say.
LEMMA BatchPassIs ==
  ASSUME TypeOK, NEW batch \in Batches
  PROVE  BatchPass(batch) = StoreAfter(batch, Len(batch))
<1> DEFINE n == Len(batch)
           Step(f, i) == IF i = 0 THEN LoopStart ELSE Turn(f[i - 1], batch[i])
           Turns(f) == f = [i \in 0 .. n |-> Step(f, i)]
           turns == CHOOSE f : Turns(f)
           closed == [i \in 0 .. n |-> StoreAfter(batch, i)]
<1>1. n \in Nat
  BY BatchFacts
<1>2. BatchPass(batch) = turns[n]
  BY DEF BatchPass
<1>3. ASSUME NEW i \in 0 .. n
      PROVE  closed[i] = Step(closed, i)
  <2>1. CASE i = 0
    BY <2>1, LoopStartIs
  <2>2. CASE i \in 1 .. n
    <3>1. Turn(StoreAfter(batch, i - 1), batch[i]) = StoreAfter(batch, i)
      BY <2>2, TerminalStep, LiveStep DEF Turn
    <3>2. i - 1 \in 0 .. n /\ i # 0
      BY <1>1, <2>2
    <3> QED BY <3>1, <3>2
  <2> QED BY <1>1, <2>1, <2>2
<1>4. Turns(closed)
  <2> HIDE DEF Step
  <2> QED BY <1>3
<1>5. Turns(turns)
  <2> HIDE DEF Turns, closed
  <2> QED BY <1>4
<1> HIDE DEF turns
<1>6. turns[0] = closed[0]
  <2>1. 0 \in 0 .. n
    BY <1>1
  <2>2. turns[0] = Step(turns, 0)
    BY <1>5, <2>1
  <2>3. closed[0] = Step(closed, 0)
    BY <1>3, <2>1
  <2> QED BY <2>2, <2>3
<1>7. ASSUME NEW i \in 1 .. n, turns[i - 1] = closed[i - 1]
      PROVE  turns[i] = closed[i]
  <2>1. i \in 0 .. n /\ i # 0
    BY <1>1
  <2>2. turns[i] = Turn(turns[i - 1], batch[i])
    BY <1>5, <2>1
  <2>3. closed[i] = Turn(closed[i - 1], batch[i])
    BY <1>3, <2>1
  <2> QED BY <1>7, <2>2, <2>3
<1>8. turns[n] = closed[n]
  <2> HIDE DEF closed, n
  <2> QED BY <1>1, <1>6, <1>7, OneSolution
<1> QED BY <1>1, <1>2, <1>8

\* What a pass over the ids of X writes into a map, whatever their order.
Mark(f, X, value) == [id \in Id |-> IF id \in X THEN value ELSE f[id]]
Aged(e) == [e EXCEPT !.stale = TRUE]
MarkStale(f, X) == [id \in Id |-> IF id \in X THEN Aged(previous[id]) ELSE f[id]]
MarkIdentifiers(f, X) ==
  [r \in Identifier |-> IF \E id \in X : previous[id].identifier = r THEN now ELSE f[r]]

\* The absence pass over the alerts that end and those that are kept.
Gone(I, R, A, S, F, ended, kept) ==
  Held(Mark(I, ended, now), MarkIdentifiers(R, ended), MarkStale(A, kept), S,
       Mark(F, ended, "removed"))

\* The same when the pass has come as far as the alerts of D.
GoneOf(I, R, A, S, F, D, batch, scopeChanged, superseded) ==
  Gone(I, R, A, S, F, D \cap EndedByAbsence(batch, scopeChanged, superseded),
       D \cap Retained(batch, scopeChanged, superseded))

LEMMA MarkStep ==
  ASSUME NEW f, NEW X, NEW id \in Id, NEW value
  PROVE  Mark(f, X \cup {id}, value) = Put(Mark(f, X, value), id, value)
BY DEF Mark, Put

LEMMA MarkStaleStep ==
  ASSUME NEW f, NEW X, NEW id \in Id
  PROVE  MarkStale(f, X \cup {id})
           = Put(MarkStale(f, X), id, Aged(previous[id]))
<1>1. PICK e : e = [x \in Id |-> Aged(previous[x])]
  OBVIOUS
<1>2. \A Y : MarkStale(f, Y) = [x \in Id |-> IF x \in Y THEN e[x] ELSE f[x]]
  BY <1>1 DEF MarkStale
<1>3. e[id] = Aged(previous[id])
  BY <1>1
<1> QED BY <1>2, <1>3 DEF Put

LEMMA MarkIdentifiersStep ==
  ASSUME NEW f, NEW X, NEW id,
         previous[id].identifier \in Identifier \cup {NoIdentifier}
  PROVE  MarkIdentifiers(f, X \cup {id})
           = EndIdentifier(MarkIdentifiers(f, X), previous[id].identifier)
<1>1. PICK x : x = previous[id].identifier
  OBVIOUS
<1>2. \A r : (\E y \in X \cup {id} : previous[y].identifier = r)
               <=> r = x \/ \E y \in X : previous[y].identifier = r
  BY <1>1
<1>3. CASE x = NoIdentifier
  <2>1. \A r \in Identifier : r # x
    BY <1>3, NoIdentifierAssumption
  <2> QED BY <1>1, <1>2, <1>3, <2>1 DEF MarkIdentifiers, EndIdentifier, Put
<1>4. CASE x # NoIdentifier
  <2>1. x \in Identifier
    BY <1>1, <1>4
  <2> QED BY <1>1, <1>2, <1>4, <2>1 DEF MarkIdentifiers, EndIdentifier, Put
<1> QED BY <1>3, <1>4

LEMMA NothingGone ==
  ASSUME NEW I, NEW R, NEW A, NEW S, NEW F,
         I = [id \in Id |-> I[id]], R = [r \in Identifier |-> R[r]],
         A = [id \in Id |-> A[id]], F = [id \in Id |-> F[id]]
  PROVE  Gone(I, R, A, S, F, {}, {}) = Held(I, R, A, S, F)
<1>1. Mark(I, {}, now) = I /\ Mark(F, {}, "removed") = F
  BY DEF Mark
<1>2. MarkIdentifiers(R, {}) = R
  BY DEF MarkIdentifiers
<1>3. MarkStale(A, {}) = A
  BY DEF MarkStale
<1> QED BY <1>1, <1>2, <1>3 DEF Gone

\* The turn of one alert of the last reconciliation.
LEMMA AbsenceStep ==
  ASSUME TypeOK, NEW batch \in Batches, NEW scopeChanged \in BOOLEAN,
         NEW superseded \in Superseding,
         NEW I, NEW R, NEW A, NEW S, NEW F, NEW D, NEW id \in Tracked
  PROVE  AbsenceTurn(GoneOf(I, R, A, S, F, D, batch, scopeChanged, superseded), id,
                     batch, scopeChanged, superseded)
           = GoneOf(I, R, A, S, F, D \cup {id}, batch, scopeChanged, superseded)
<1> DEFINE E == EndedByAbsence(batch, scopeChanged, superseded)
           K == Retained(batch, scopeChanged, superseded)
<1>1. PICK prev : prev = previous[id]
  OBVIOUS
<1>2. id \in Id /\ prev \in Entry
  BY <1>1 DEF Tracked, TypeOK
<1>3. PICK I1, R1, A1, F1, s :
        /\ I1 = Mark(I, D \cap E, now) /\ R1 = MarkIdentifiers(R, D \cap E)
        /\ A1 = MarkStale(A, D \cap K) /\ F1 = Mark(F, D \cap E, "removed")
        /\ s = Held(I1, R1, A1, S, F1)
  OBVIOUS
<1>4. SUFFICES AbsenceTurn(s, id, batch, scopeChanged, superseded)
                 = Gone(I, R, A, S, F, (D \cup {id}) \cap E, (D \cup {id}) \cap K)
  BY <1>3 DEF Gone, GoneOf
<1>5. id \in Missing(batch, superseded)
        <=> ~(id \in Incoming(batch) \/ prev.identifier \in Referenced(batch, superseded))
  BY <1>1 DEF Missing
<1>6. id \in K <=> id \in Missing(batch, superseded) /\ ~scopeChanged /\ RetainOnAbsence(prev)
  BY <1>1 DEF Retained
<1>7. id \in E <=> id \in Missing(batch, superseded) /\ id \notin K
  BY DEF EndedByAbsence
<1> HIDE DEF E, K
<1>8. CASE id \notin Missing(batch, superseded)
  <2>1. (D \cup {id}) \cap E = D \cap E /\ (D \cup {id}) \cap K = D \cap K
    BY <1>6, <1>7, <1>8
  <2>2. AbsenceTurn(s, id, batch, scopeChanged, superseded) = s
    BY <1>1, <1>5, <1>8 DEF AbsenceTurn
  <2> QED BY <1>3, <2>1, <2>2 DEF Gone
<1>9. CASE id \in K
  <2>1. (D \cup {id}) \cap E = D \cap E /\ (D \cup {id}) \cap K = (D \cap K) \cup {id}
    BY <1>7, <1>9
  <2>2. PICK e : e = Aged(prev)
    OBVIOUS
  <2>3. AbsenceTurn(s, id, batch, scopeChanged, superseded) = [s EXCEPT !.active[id] = e]
    BY <1>1, <1>5, <1>6, <1>9, <2>2 DEF AbsenceTurn, Aged
  <2>4. PICK A2 : A2 = Put(A1, id, e)
    OBVIOUS
  <2>5. [s EXCEPT !.active[id] = e] = Held(I1, R1, A2, S, F1)
    <3>1. s.active = A1 /\ A2 = [A1 EXCEPT ![id] = e]
      BY <1>3, <2>4 DEF Held, Put
    <3>2. [s EXCEPT !.active = A2] = Held(I1, R1, A2, S, F1)
      BY <1>3 DEF Held
    <3> QED BY <3>1, <3>2
  <2>6. MarkStale(A, (D \cap K) \cup {id}) = A2
    <3>1. MarkStale(A, (D \cap K) \cup {id}) = Put(MarkStale(A, D \cap K), id, Aged(previous[id]))
      BY <1>2, MarkStaleStep
    <3> QED BY <1>1, <1>3, <2>2, <2>4, <3>1
  <2>7. Gone(I, R, A, S, F, (D \cup {id}) \cap E, (D \cup {id}) \cap K)
          = Held(I1, R1, A2, S, F1)
    BY <1>3, <2>1, <2>6 DEF Gone
  <2> QED BY <2>3, <2>5, <2>7
<1>10. CASE id \in E
  <2>1. (D \cup {id}) \cap E = (D \cap E) \cup {id} /\ (D \cup {id}) \cap K = D \cap K
    BY <1>7, <1>10
  <2>2. AbsenceTurn(s, id, batch, scopeChanged, superseded)
          = Fire(Tombstone(s, id, prev.identifier), id, "removed")
    BY <1>1, <1>5, <1>6, <1>7, <1>10 DEF AbsenceTurn
  <2>3. PICK I2, R2, F2 :
          /\ I2 = Put(I1, id, now) /\ R2 = EndIdentifier(R1, prev.identifier)
          /\ F2 = Put(F1, id, "removed")
    OBVIOUS
  <2>4. Tombstone(s, id, prev.identifier) = Held(I2, R2, A1, S, F1)
    BY <1>3, <2>3, TombstoneIs
  <2>5. AbsenceTurn(s, id, batch, scopeChanged, superseded) = Held(I2, R2, A1, S, F2)
    BY <2>2, <2>3, <2>4, FireIs
  <2>6. Mark(I, (D \cap E) \cup {id}, now) = I2
    BY <1>2, <1>3, <2>3, MarkStep
  <2>7. Mark(F, (D \cap E) \cup {id}, "removed") = F2
    BY <1>2, <1>3, <2>3, MarkStep
  <2>8. MarkIdentifiers(R, (D \cap E) \cup {id}) = R2
    <3>1. previous[id].identifier \in Identifier \cup {NoIdentifier}
      BY <1>1, <1>2 DEF Entry
    <3> QED BY <1>1, <1>3, <2>3, <3>1, MarkIdentifiersStep
  <2>9. Gone(I, R, A, S, F, (D \cup {id}) \cap E, (D \cup {id}) \cap K)
          = Held(I2, R2, A1, S, F2)
    BY <1>3, <2>1, <2>6, <2>7, <2>8 DEF Gone
  <2> QED BY <2>5, <2>9
<1> QED BY <1>7, <1>8, <1>9, <1>10

\* The turn of one id the boot grace has run out for.
LEMMA BootStep ==
  ASSUME NEW I, NEW R, NEW A, NEW S, NEW F, NEW D, NEW id \in Id
  PROVE  BootTurn(Held(Mark(I, D, now), R, A, S, Mark(F, D, "removed")), id)
           = Held(Mark(I, D \cup {id}, now), R, A, S, Mark(F, D \cup {id}, "removed"))
<1>1. PICK I1, F1, I2, F2, s :
        /\ I1 = Mark(I, D, now) /\ F1 = Mark(F, D, "removed")
        /\ I2 = Put(I1, id, now) /\ F2 = Put(F1, id, "removed")
        /\ s = Held(I1, R, A, S, F1)
  OBVIOUS
<1>2. [s EXCEPT !.ids[id] = now] = Held(I2, R, A, S, F1)
  BY <1>1 DEF Held, Put
<1>3. BootTurn(s, id) = Held(I2, R, A, S, F2)
  BY <1>1, <1>2, FireIs DEF BootTurn
<1>4. Mark(I, D \cup {id}, now) = I2 /\ Mark(F, D \cup {id}, "removed") = F2
  BY <1>1, MarkStep
<1> QED BY <1>1, <1>3, <1>4

\* The ids a pass has come to.
Reached(order, i) == {order[k] : k \in 1 .. i}

LEMMA ReachedOneMore ==
  ASSUME NEW order, NEW i \in Nat
  PROVE  Reached(order, 0) = {}
         /\ Reached(order, i + 1) = Reached(order, i) \cup {order[i + 1]}
<1>1. 1 .. 0 = {} /\ 1 .. (i + 1) = (1 .. i) \cup {i + 1}
  OBVIOUS
<1> QED BY <1>1 DEF Reached

\* A finite set has an enumeration.
LEMMA EnumerationFacts ==
  ASSUME NEW T, IsFiniteSet(T)
  PROVE  /\ Len(Enumeration(T)) \in Nat
         /\ Enumeration(T) \in [1 .. Len(Enumeration(T)) -> T]
         /\ Reached(Enumeration(T), Len(Enumeration(T))) = T
<1>1. PICK n \in Nat : n = Cardinality(T)
  BY FS_CardinalityType
<1>2. PICK b \in Bijection(1 .. n, T) : TRUE
  BY <1>1, FS_CardinalityType DEF ExistsBijection
<1>3. b \in [1 .. n -> T] /\ {b[i] : i \in DOMAIN b} = T
  BY <1>2 DEF Bijection, Injection, Surjection
<1>4. PICK e : e = Enumeration(T)
  OBVIOUS
<1>5. e \in [1 .. n -> T] /\ {e[i] : i \in DOMAIN e} = T
  BY <1>1, <1>3, <1>4 DEF Enumeration
<1>6. e \in Seq(T) /\ Len(e) = n /\ DOMAIN e = 1 .. n
  BY <1>5
<1> QED BY <1>4, <1>5, <1>6 DEF Reached

\* The pass over the alerts of the last reconciliation, in any order of them.
LEMMA AbsencePassIs ==
  ASSUME TypeOK, NEW batch \in Batches, NEW scopeChanged \in BOOLEAN,
         NEW superseded \in Superseding, IsFiniteSet(Tracked),
         NEW I, NEW R, NEW A, NEW S, NEW F,
         I = [id \in Id |-> I[id]], R = [r \in Identifier |-> R[r]],
         A = [id \in Id |-> A[id]], F = [id \in Id |-> F[id]]
  PROVE  AbsencePass(Held(I, R, A, S, F), Enumeration(Tracked), batch, scopeChanged, superseded)
           = Gone(I, R, A, S, F, EndedByAbsence(batch, scopeChanged, superseded),
                  Retained(batch, scopeChanged, superseded))
<1>1. PICK s, order, E, K :
        /\ s = Held(I, R, A, S, F) /\ order = Enumeration(Tracked)
        /\ E = EndedByAbsence(batch, scopeChanged, superseded)
        /\ K = Retained(batch, scopeChanged, superseded)
  OBVIOUS
<1> DEFINE n == Len(order)
           Step(f, i) ==
             IF i = 0 THEN s
             ELSE AbsenceTurn(f[i - 1], order[i], batch, scopeChanged, superseded)
           Turns(f) == f = [i \in 0 .. n |-> Step(f, i)]
           turns == CHOOSE f : Turns(f)
           closed == [i \in 0 .. n |-> GoneOf(I, R, A, S, F, Reached(order, i),
                                              batch, scopeChanged, superseded)]
<1>2. n \in Nat /\ order \in [1 .. n -> Tracked] /\ Reached(order, n) = Tracked
  BY <1>1, EnumerationFacts
<1>3. AbsencePass(s, order, batch, scopeChanged, superseded) = turns[n]
  BY DEF AbsencePass
<1>4. ASSUME NEW i \in 0 .. n
      PROVE  closed[i] = Step(closed, i)
  <2>1. CASE i = 0
    <3>1. Reached(order, 0) = {} /\ {} \cap E = {} /\ {} \cap K = {}
      BY ReachedOneMore
    <3>2. Gone(I, R, A, S, F, {}, {}) = s
      BY <1>1, NothingGone
    <3>3. GoneOf(I, R, A, S, F, {}, batch, scopeChanged, superseded) = s
      BY <1>1, <3>1, <3>2 DEF GoneOf
    <3> QED BY <2>1, <3>1, <3>3
  <2>2. CASE i \in 1 .. n
    <3>1. i - 1 \in 0 .. n /\ i # 0 /\ i - 1 \in Nat /\ (i - 1) + 1 = i
      BY <1>2, <2>2
    <3>2. order[i] \in Tracked
      BY <1>2, <2>2
    <3>3. Reached(order, i) = Reached(order, i - 1) \cup {order[i]}
      BY <3>1, ReachedOneMore
    <3>4. PICK D, id : D = Reached(order, i - 1) /\ id = order[i]
      OBVIOUS
    <3>5. AbsenceTurn(GoneOf(I, R, A, S, F, D, batch, scopeChanged, superseded), id,
                      batch, scopeChanged, superseded)
            = GoneOf(I, R, A, S, F, D \cup {id}, batch, scopeChanged, superseded)
      BY <3>2, <3>4, AbsenceStep
    <3> QED BY <3>1, <3>3, <3>4, <3>5
  <2> QED BY <1>2, <2>1, <2>2
<1>5. Turns(closed)
  <2> HIDE DEF Step
  <2> QED BY <1>4
<1>6. Turns(turns)
  <2> HIDE DEF Turns, closed
  <2> QED BY <1>5
<1> HIDE DEF turns
<1>7. turns[0] = closed[0]
  <2>1. 0 \in 0 .. n
    BY <1>2
  <2>2. turns[0] = Step(turns, 0)
    BY <1>6, <2>1
  <2>3. closed[0] = Step(closed, 0)
    BY <1>4, <2>1
  <2> QED BY <2>2, <2>3
<1>8. ASSUME NEW i \in 1 .. n, turns[i - 1] = closed[i - 1]
      PROVE  turns[i] = closed[i]
  <2>1. i \in 0 .. n /\ i # 0
    BY <1>2
  <2>2. turns[i] = AbsenceTurn(turns[i - 1], order[i], batch, scopeChanged, superseded)
    BY <1>6, <2>1
  <2>3. closed[i] = AbsenceTurn(closed[i - 1], order[i], batch, scopeChanged, superseded)
    BY <1>4, <2>1
  <2> QED BY <1>8, <2>2, <2>3
<1>9. turns[n] = closed[n]
  <2> HIDE DEF closed, n
  <2> QED BY <1>2, <1>7, <1>8, OneSolution
<1>10. Tracked \cap E = E /\ Tracked \cap K = K
  BY <1>1, AbsenceFacts
<1>11. closed[n] = Gone(I, R, A, S, F, E, K)
  <2>1. closed[n] = GoneOf(I, R, A, S, F, Tracked, batch, scopeChanged, superseded)
    BY <1>2
  <2> QED BY <1>1, <1>10, <2>1 DEF GoneOf
<1> QED BY <1>1, <1>3, <1>9, <1>11

\* The pass over the ids the boot grace has run out for.
LEMMA BootPassIs ==
  ASSUME NEW T, IsFiniteSet(T), T \subseteq Id,
         NEW I, NEW R, NEW A, NEW S, NEW F,
         I = [id \in Id |-> I[id]], F = [id \in Id |-> F[id]]
  PROVE  BootPass(Held(I, R, A, S, F), Enumeration(T))
           = Held(Mark(I, T, now), R, A, S, Mark(F, T, "removed"))
<1>1. PICK s, order : s = Held(I, R, A, S, F) /\ order = Enumeration(T)
  OBVIOUS
<1> DEFINE n == Len(order)
           Step(f, i) == IF i = 0 THEN s ELSE BootTurn(f[i - 1], order[i])
           Turns(f) == f = [i \in 0 .. n |-> Step(f, i)]
           turns == CHOOSE f : Turns(f)
           closed == [i \in 0 .. n |->
                        Held(Mark(I, Reached(order, i), now), R, A, S,
                             Mark(F, Reached(order, i), "removed"))]
<1>2. n \in Nat /\ order \in [1 .. n -> T] /\ Reached(order, n) = T
  BY <1>1, EnumerationFacts
<1>3. BootPass(s, order) = turns[n]
  BY DEF BootPass
<1>4. ASSUME NEW i \in 0 .. n
      PROVE  closed[i] = Step(closed, i)
  <2>1. CASE i = 0
    <3>1. Reached(order, 0) = {}
      BY ReachedOneMore
    <3>2. Mark(I, {}, now) = I /\ Mark(F, {}, "removed") = F
      BY DEF Mark
    <3> QED BY <1>1, <2>1, <3>1, <3>2
  <2>2. CASE i \in 1 .. n
    <3>1. i - 1 \in 0 .. n /\ i # 0 /\ i - 1 \in Nat /\ (i - 1) + 1 = i
      BY <1>2, <2>2
    <3>2. order[i] \in Id
      BY <1>2, <2>2
    <3>3. Reached(order, i) = Reached(order, i - 1) \cup {order[i]}
      BY <3>1, ReachedOneMore
    <3>4. PICK D, id : D = Reached(order, i - 1) /\ id = order[i]
      OBVIOUS
    <3>5. BootTurn(Held(Mark(I, D, now), R, A, S, Mark(F, D, "removed")), id)
            = Held(Mark(I, D \cup {id}, now), R, A, S, Mark(F, D \cup {id}, "removed"))
      BY <3>2, <3>4, BootStep
    <3> QED BY <3>1, <3>3, <3>4, <3>5
  <2> QED BY <1>2, <2>1, <2>2
<1>5. Turns(closed)
  <2> HIDE DEF Step
  <2> QED BY <1>4
<1>6. Turns(turns)
  <2> HIDE DEF Turns, closed
  <2> QED BY <1>5
<1> HIDE DEF turns
<1>7. turns[0] = closed[0]
  <2>1. 0 \in 0 .. n
    BY <1>2
  <2>2. turns[0] = Step(turns, 0)
    BY <1>6, <2>1
  <2>3. closed[0] = Step(closed, 0)
    BY <1>4, <2>1
  <2> QED BY <2>2, <2>3
<1>8. ASSUME NEW i \in 1 .. n, turns[i - 1] = closed[i - 1]
      PROVE  turns[i] = closed[i]
  <2>1. i \in 0 .. n /\ i # 0
    BY <1>2
  <2>2. turns[i] = BootTurn(turns[i - 1], order[i])
    BY <1>6, <2>1
  <2>3. closed[i] = BootTurn(closed[i - 1], order[i])
    BY <1>4, <2>1
  <2> QED BY <1>8, <2>2, <2>3
<1>9. turns[n] = closed[n]
  <2> HIDE DEF closed, n
  <2> QED BY <1>2, <1>7, <1>8, OneSolution
<1>10. closed[n] = Held(Mark(I, T, now), R, A, S, Mark(F, T, "removed"))
  BY <1>2
<1> QED BY <1>1, <1>3, <1>9, <1>10

\* A store tracks, knows and saves finitely many ids: the passes end.
FiniteStore ==
  /\ IsFiniteSet(Tracked) /\ IsFiniteSet(registered) /\ IsFiniteSet(knownAtBoot)
  /\ IsFiniteSet({id \in Id : saved[id] # Absent})

\* A batch is a sequence, so it lists finitely many ids.
LEMMA IncomingFinite ==
  ASSUME NEW batch \in Batches
  PROVE  IsFiniteSet(Incoming(batch)) /\ IsFiniteSet(LiveIn(batch))
<1>1. PICK n \in Nat : n = Len(batch) /\ DOMAIN batch = 1 .. n
  BY BatchFacts
<1>2. PICK f : f = [i \in 1 .. n |-> batch[i].id]
  OBVIOUS
<1>3. f \in Surjection(1 .. n, Incoming(batch))
  BY <1>1, <1>2 DEF Surjection, Incoming
<1>4. IsFiniteSet(1 .. n)
  BY FS_Interval
<1>5. IsFiniteSet(Incoming(batch))
  BY <1>3, <1>4, FS_Surjection
<1> QED BY <1>5, LiveFacts, FS_Subset

\* However many alerts are published, the store, the registry and the file
\* hold finitely many of them in every reachable state.
THEOREM StoreStaysFinite == Spec => []FiniteStore
<1>1. Init => FiniteStore
  BY FS_EmptySet DEF Init, FiniteStore, Tracked
<1>2. TypeOK /\ FiniteStore /\ [Next]_vars => FiniteStore'
  <2> SUFFICES ASSUME TypeOK, FiniteStore, [Next]_vars
               PROVE  FiniteStore'
    OBVIOUS
  <2>1. ASSUME NEW batch \in Batches, NEW scopeChanged \in BOOLEAN,
               NEW superseded \in Superseding, NEW fetched \in BOOLEAN,
               Process(batch, scopeChanged, superseded, fetched)
        PROVE  FiniteStore'
    <3>1. \A id \in Id : previous'[id] # Absent
            <=> id \in LiveIn(batch) \cup Retained(batch, scopeChanged, superseded)
      BY <2>1, PreviousFacts DEF Process
    <3>2. Tracked' \subseteq LiveIn(batch) \cup Tracked
      BY <3>1, AbsenceFacts DEF Tracked
    <3>3. IsFiniteSet(LiveIn(batch) \cup Tracked)
      BY IncomingFinite, FS_Union DEF FiniteStore
    <3>4. IsFiniteSet(Tracked')
      BY <3>2, <3>3, FS_Subset
    <3>5. knownAtBoot' \subseteq knownAtBoot /\ registered' = registered /\ saved' = saved
      BY <2>1 DEF Process
    <3>6. IsFiniteSet(knownAtBoot')
      BY <3>5, FS_Subset DEF FiniteStore
    <3> QED BY <3>4, <3>5, <3>6 DEF FiniteStore
  <2>2. CASE Fetch
    BY <2>1, <2>2 DEF Fetch
  <2>3. CASE Rebuild
    BY <2>1, <2>3 DEF Rebuild
  <2>4. ASSUME NEW id \in Id, Release(id)
        PROVE  FiniteStore'
    BY <2>4 DEF Release, FiniteStore, Tracked
  <2>5. ASSUME NEW id \in Id, Register(id)
        PROVE  FiniteStore'
    <3>1. /\ registered' = registered \cup {id}
          /\ UNCHANGED <<previous, knownAtBoot, saved>>
      BY <2>5 DEF Register, storeVars
    <3>2. IsFiniteSet(registered')
      BY <3>1, FS_AddElement DEF FiniteStore
    <3> QED BY <3>1, <3>2 DEF FiniteStore, Tracked
  <2>6. ASSUME NEW id \in Id, Unregister(id)
        PROVE  FiniteStore'
    <3>1. /\ registered' \subseteq registered
          /\ UNCHANGED <<previous, knownAtBoot, saved>>
      BY <2>6 DEF Unregister, storeVars
    <3>2. IsFiniteSet(registered')
      BY <3>1, FS_Subset DEF FiniteStore
    <3> QED BY <3>1, <3>2 DEF FiniteStore, Tracked
  <2>7. CASE Save
    <3>1. /\ saved' = [id \in Id |-> IF id \in Tracked THEN RecordOf(previous[id]) ELSE Absent]
          /\ UNCHANGED <<previous, knownAtBoot, registered>>
      BY <2>7 DEF Save, storeVars
    <3>2. {id \in Id : saved'[id] # Absent} \subseteq Tracked
      BY <3>1
    <3>3. IsFiniteSet({id \in Id : saved'[id] # Absent})
      BY <3>2, FS_Subset DEF FiniteStore
    <3> QED BY <3>1, <3>3 DEF FiniteStore, Tracked
  <2>8. ASSUME NEW readable \in BOOLEAN, Restart(readable)
        PROVE  FiniteStore'
    <3>1. PICK records : /\ records = IF readable THEN saved ELSE [id \in Id |-> Absent]
                         /\ previous' = [id \in Id |-> IF id \in Seeded(records)
                                                       THEN records[id] ELSE Absent]
                         /\ knownAtBoot' = registered \ Seeded(records)
                         /\ UNCHANGED <<registered, saved>>
      BY <2>8 DEF Restart
    <3>2. Seeded(records) \subseteq {id \in Id : saved[id] # Absent}
      BY <3>1 DEF Seeded
    <3>3. Tracked' \subseteq {id \in Id : saved[id] # Absent}
      BY <3>1, <3>2 DEF Tracked
    <3>4. IsFiniteSet(Tracked') /\ IsFiniteSet(knownAtBoot')
      <4>1. IsFiniteSet(Tracked')
        BY <3>3, FS_Subset DEF FiniteStore
      <4>2. knownAtBoot' \subseteq registered
        BY <3>1
      <4> QED BY <4>1, <4>2, FS_Subset DEF FiniteStore
    <3> QED BY <3>1, <3>4 DEF FiniteStore
  <2>9. CASE Tick \/ UNCHANGED vars
    BY <2>9 DEF Tick, vars, storeVars, FiniteStore, Tracked
  <2> QED BY <2>2, <2>3, <2>4, <2>5, <2>6, <2>7, <2>8, <2>9 DEF Next
<1> QED BY <1>1, <1>2, TypeCorrect, PTL DEF Spec

\* What the three passes leave behind.
LEMMA LoopIs ==
  ASSUME TypeOK, FiniteStore, NEW batch \in Batches, NEW scopeChanged \in BOOLEAN,
         NEW superseded \in Superseding, NEW fetched \in BOOLEAN,
         NEW E, E = EndedByAbsence(batch, scopeChanged, superseded),
         NEW K, K = Retained(batch, scopeChanged, superseded),
         NEW B, B = EndedAtBoot(batch, fetched), NEW n, n = Len(batch)
  PROVE  Loop(batch, scopeChanged, superseded, fetched)
           = Held(Mark(Mark(IdsAfter(batch, n), E, now), B, now),
                  MarkIdentifiers(IdentifiersAfter(batch, n), E),
                  MarkStale(ActiveAfter(batch, n), K), SeenAfter(batch, n),
                  Mark(Mark(FiredAfter(batch, n), E, "removed"), B, "removed"))
<1>1. PICK I, R, A, S, F :
        /\ I = IdsAfter(batch, n) /\ R = IdentifiersAfter(batch, n)
        /\ A = ActiveAfter(batch, n) /\ S = SeenAfter(batch, n)
        /\ F = FiredAfter(batch, n)
  OBVIOUS
<1>2. BatchPass(batch) = Held(I, R, A, S, F)
  BY <1>1, BatchPassIs DEF StoreAfter
<1>3. /\ I = [id \in Id |-> I[id]] /\ R = [r \in Identifier |-> R[r]]
      /\ A = [id \in Id |-> A[id]] /\ F = [id \in Id |-> F[id]]
  BY <1>1 DEF IdsAfter, IdentifiersAfter, ActiveAfter, FiredAfter
<1>4. PICK I1, R1, A1, F1 :
        /\ I1 = Mark(I, E, now) /\ R1 = MarkIdentifiers(R, E)
        /\ A1 = MarkStale(A, K) /\ F1 = Mark(F, E, "removed")
  OBVIOUS
<1>5. AbsencePass(Held(I, R, A, S, F), Enumeration(Tracked), batch, scopeChanged, superseded)
        = Held(I1, R1, A1, S, F1)
  <2>1. AbsencePass(Held(I, R, A, S, F), Enumeration(Tracked), batch, scopeChanged, superseded)
          = Gone(I, R, A, S, F, EndedByAbsence(batch, scopeChanged, superseded),
                 Retained(batch, scopeChanged, superseded))
    BY <1>3, AbsencePassIs DEF FiniteStore
  <2> QED BY <1>4, <2>1 DEF Gone
<1>6. I1 = [id \in Id |-> I1[id]] /\ F1 = [id \in Id |-> F1[id]]
  BY <1>4 DEF Mark
<1>7. B \subseteq Id /\ IsFiniteSet(B)
  <2>1. B \subseteq knownAtBoot
    BY DEF EndedAtBoot
  <2> QED BY <2>1, FS_Subset DEF FiniteStore, TypeOK
<1>8. BootPass(Held(I1, R1, A1, S, F1), Enumeration(B))
        = Held(Mark(I1, B, now), R1, A1, S, Mark(F1, B, "removed"))
  BY <1>6, <1>7, BootPassIs
<1>9. Loop(batch, scopeChanged, superseded, fetched)
        = Held(Mark(I1, B, now), R1, A1, S, Mark(F1, B, "removed"))
  BY <1>2, <1>5, <1>8 DEF Loop
<1> QED BY <1>1, <1>4, <1>9

\* In every reachable state, for every batch in any order of its records: the
\* closed forms of AlertStore are what the loop of store.py computes.
THEOREM LoopIsClosedForm == Spec => []LoopAgrees
<1>1. TypeOK /\ StoreConsistent /\ FiniteStore => LoopAgrees
  <2> SUFFICES ASSUME TypeOK, StoreConsistent, FiniteStore,
                      NEW batch \in Batches, NEW scopeChanged \in BOOLEAN,
                      NEW fetched \in BOOLEAN, NEW superseded \in Superseding,
                      NEW s, s = Loop(batch, scopeChanged, superseded, fetched)
               PROVE  /\ s.fired = Decision(batch, scopeChanged, superseded, fetched)
                      /\ s.ids = NextTombstones(batch, scopeChanged, superseded, fetched)
                      /\ s.identifiers
                           = NextTombstonedIdentifiers(batch, scopeChanged, superseded)
                      /\ s.active = NextPrevious(batch, scopeChanged, superseded)
                      /\ s.seen \cap {id \in Id : s.active[id] # Absent}
                           = restored \cap Retained(batch, scopeChanged, superseded)
    BY DEF LoopAgrees
  <2>1. PICK n, E, K, B :
          /\ n = Len(batch) /\ E = EndedByAbsence(batch, scopeChanged, superseded)
          /\ K = Retained(batch, scopeChanged, superseded)
          /\ B = EndedAtBoot(batch, fetched)
    OBVIOUS
  <2>2. s = Held(Mark(Mark(IdsAfter(batch, n), E, now), B, now),
                 MarkIdentifiers(IdentifiersAfter(batch, n), E),
                 MarkStale(ActiveAfter(batch, n), K), SeenAfter(batch, n),
                 Mark(Mark(FiredAfter(batch, n), E, "removed"), B, "removed"))
    BY <2>1, LoopIs
  <2>3. /\ n \in Nat /\ DOMAIN batch = 1 .. n
        /\ ListedBy(batch, n) = Incoming(batch)
    BY <2>1, BatchFacts DEF ListedBy, Incoming
  <2>4. /\ E \cup K \subseteq Tracked \ Incoming(batch) /\ E \cap K = {}
        /\ B \subseteq knownAtBoot \ Incoming(batch) /\ Tracked \subseteq Id
        /\ LiveIn(batch) \subseteq Incoming(batch)
    BY <2>1, AbsenceFacts, LiveFacts DEF EndedAtBoot
  <2>5. s.fired = Decision(batch, scopeChanged, superseded, fetched)
    <3>1. s.fired = Mark(Mark(FiredAfter(batch, n), E, "removed"), B, "removed")
      BY <2>2 DEF Held
    <3> QED BY <2>1, <2>3, <2>4, <3>1 DEF Mark, FiredAfter, Decision
  <2>6. s.ids = NextTombstones(batch, scopeChanged, superseded, fetched)
    <3>1. s.ids = Mark(Mark(IdsAfter(batch, n), E, now), B, now)
      BY <2>2 DEF Held
    <3> QED BY <2>1, <2>3, <2>4, <3>1 DEF Mark, IdsAfter, NextTombstones
  <2>7. s.identifiers = NextTombstonedIdentifiers(batch, scopeChanged, superseded)
    <3>1. s.identifiers = MarkIdentifiers(IdentifiersAfter(batch, n), E)
      BY <2>2 DEF Held
    <3>2. \A r : /\ EndedWithin(batch, n, r) <=>
                      \E j \in DOMAIN batch :
                        /\ Ends(batch, j, r)
                        /\ \A k \in (j + 1) .. Len(batch) : ~Revives(batch, k, r)
                 /\ IdentifierEndedBefore(batch, Len(batch) + 1, r)
                      <=> KeptWithin(batch, n, r) \/ EndedWithin(batch, n, r)
      <4>1. (n + 1) - 1 = n
        BY <2>3
      <4> QED BY <2>1, <2>3, <4>1 DEF EndedWithin, KeptWithin, IdentifierEndedBefore
    <3> QED BY <2>1, <3>1, <3>2
            DEF MarkIdentifiers, IdentifiersAfter, NextTombstonedIdentifiers
  <2>8. s.active = NextPrevious(batch, scopeChanged, superseded)
    <3>1. s.active = MarkStale(ActiveAfter(batch, n), K)
      BY <2>2 DEF Held
    <3>2. PICK e, f : /\ e = [id \in Id |-> EntryOf(batch[At(batch, id)])]
                      /\ f = [id \in Id |-> [previous[id] EXCEPT !.stale = TRUE]]
      OBVIOUS
    <3>3. s.active = [id \in Id |-> IF id \in K THEN f[id]
                                    ELSE IF id \in LiveIn(batch) THEN e[id] ELSE Absent]
      BY <2>3, <2>4, <3>1, <3>2 DEF MarkStale, ActiveAfter, Aged
    <3>4. NextPrevious(batch, scopeChanged, superseded)
            = [id \in Id |-> IF id \in LiveIn(batch) THEN e[id]
                             ELSE IF id \in K THEN f[id] ELSE Absent]
      BY <2>1, <3>2 DEF NextPrevious
    <3>5. \A id \in Id : ~(id \in K /\ id \in LiveIn(batch))
      BY <2>4
    <3> QED BY <3>3, <3>4, <3>5
  <2>9. s.seen \cap {id \in Id : s.active[id] # Absent}
          = restored \cap Retained(batch, scopeChanged, superseded)
    <3>1. s.seen = SeenAfter(batch, n)
      BY <2>2 DEF Held
    <3>2. \A id \in Id : s.active[id] # Absent <=> id \in LiveIn(batch) \cup K
      BY <2>1, <2>8, PreviousFacts
    <3>3. restored \subseteq Tracked
      BY DEF StoreConsistent, RestoredUnconfirmed
    <3>4. ASSUME NEW id \in restored, id \in LiveIn(batch)
          PROVE  id \notin SeenAfter(batch, n)
      <4>1. PICK j \in 1 .. n : batch[j].id = id /\ ~Terminal(batch[j])
        BY <2>3, <3>4 DEF LiveIn
      <4>2. Diffs(batch[j], id)
        BY <3>3, <3>4, <4>1 DEF Diffs
      <4> QED BY <4>1, <4>2 DEF SeenAfter
    <3>5. ASSUME NEW id \in restored, id \in K
          PROVE  id \in SeenAfter(batch, n)
      <4> SUFFICES ASSUME NEW j \in 1 .. n, Diffs(batch[j], id)
                   PROVE  FALSE
        BY DEF SeenAfter
      <4>1. id \in Missing(batch, superseded) /\ id \notin Incoming(batch)
        BY <2>1, <2>4, <3>5 DEF Retained
      <4>2. batch[j].id # id
        BY <2>3, <4>1 DEF Incoming
      <4>3. id \in SupersededBy(batch[j])
        BY <4>2 DEF Diffs, Superseded
      <4>4. previous[id].identifier \in batch[j].references
        BY <4>3 DEF SupersededBy
      <4>5. previous[id].identifier \in Referenced(batch, superseded)
        BY <2>3, <4>4 DEF Referenced
      <4> QED BY <4>1, <4>5 DEF Missing
    <3>6. SeenAfter(batch, n) \subseteq restored
      BY DEF SeenAfter
    <3> QED BY <2>1, <2>4, <3>1, <3>2, <3>3, <3>4, <3>5, <3>6
  <2> QED BY <2>5, <2>6, <2>7, <2>8, <2>9
<1> QED BY <1>1, TypeCorrect, ConsistentAlways, StoreStaysFinite, PTL
=============================================================================
