------------------------------ MODULE EntryProofs ------------------------------
(***************************************************************************)
(* Proofs about config entries, for any instance: what one gives its user  *)
(* (the events and the entities of EntityDelivery), how one is written     *)
(* while it is set up and reloaded (EntryLifecycle), and how the flows     *)
(* create and rewrite it (ConfigFlow).                                     *)
(***************************************************************************)
EXTENDS EntityDelivery, EntryLifecycle, ConfigFlow, SequenceTheorems, TLAPS

-----------------------------------------------------------------------------
(* Sequences of events                                                     *)

\* What has been taken off the front, and what is left.
LEMMA SplitConcat ==
  ASSUME NEW x \in Seq(Event), NEW y \in Seq(Event)
  PROVE  /\ SubSeq(x \o y, 1, Len(x)) = x
         /\ SubSeq(x \o y, Len(x) + 1, Len(x \o y)) = y
<1>1. Len(x) \in Nat /\ Len(y) \in Nat /\ Len(x \o y) = Len(x) + Len(y)
  BY LenProperties, ConcatProperties
<1>2. SubSeq(x \o y, 1, Len(x)) = x
  <2>1. CASE x = <<>>
    <3>1. Len(x) = 0 /\ SubSeq(x \o y, 1, 0) = <<>>
      BY <2>1, SubSeqEmpty
    <3> QED BY <2>1, <3>1
  <2>2. CASE x # <<>>
    <3>1. 1 \in 1 .. Len(x) /\ Len(x) \in 1 .. Len(x)
      BY <1>1, <2>2, EmptySeq
    <3>2. SubSeq(x \o y, 1, Len(x)) = SubSeq(x, 1, Len(x))
      BY <3>1, SubSeqOfConcat1
    <3> QED BY <3>2, SubSeqFull
  <2> QED BY <2>1, <2>2
<1>3. SubSeq(x \o y, Len(x) + 1, Len(x \o y)) = y
  <2>1. CASE y = <<>>
    <3>1. Len(y) = 0
      BY <2>1
    <3>2. Len(x \o y) = Len(x)
      BY <1>1, <3>1
    <3>3. SubSeq(x \o y, Len(x) + 1, Len(x)) = <<>>
      BY <1>1, SubSeqEmpty
    <3> QED BY <2>1, <3>2, <3>3
  <2>2. CASE y # <<>>
    <3> DEFINE m == Len(x) + 1
               n == Len(x) + Len(y)
    <3>1. m \in Len(x) + 1 .. Len(x) + Len(y) /\ n \in Len(x) + 1 .. Len(x) + Len(y)
      BY <1>1, <2>2, EmptySeq
    <3>2. SubSeq(x \o y, m, n) = SubSeq(y, m - Len(x), n - Len(x))
      BY <3>1, SubSeqOfConcat2
    <3>3. m - Len(x) = 1 /\ n - Len(x) = Len(y)
      BY <1>1
    <3>4. SubSeq(y, 1, Len(y)) = y
      BY SubSeqFull
    <3> QED BY <1>1, <3>2, <3>3, <3>4
  <2> QED BY <2>1, <2>2
<1> QED BY <1>2, <1>3

LEMMA EventsAssociative ==
  ASSUME NEW x \in Seq(Event), NEW y \in Seq(Event), NEW z \in Seq(Event)
  PROVE  (x \o y) \o z = x \o (y \o z)
BY ConcatAssociative

LEMMA OnlyType ==
  ASSUME NEW event \in Event \cup {NoEvent}
  PROVE  /\ Only(event) \in Seq(Event)
         /\ event = NoEvent => Only(event) = <<>>
         /\ event # NoEvent => Only(event) = <<event>> /\ Len(Only(event)) = 1
BY EmptySeq DEF Only

-----------------------------------------------------------------------------
(* The invariant                                                           *)

\* The last event of an alert on the bus, or on its way there.
LastOf(events, before) == IF events = <<>> THEN before ELSE events[Len(events)]
LastHeard(a) == LastOf(owed[a], heard[a])

\* What is owed is what is held and, behind it, what is parked.
WaysInv ==
  /\ \A a \in Alert : owed[a] = held[a] \o Only(parked[a])
  /\ ~holding => held = Silent

\* Only a tracked alert waits for its entity, and a boot-pending one has its;
\* only a platform that is up has a sync to wait for.
RegistryInv ==
  /\ waiting => setup = "up"
  /\ \A a \in Alert : parked[a] # NoEvent => a \in tracked
  /\ bootPending \subseteq registered
  /\ setup # "refreshed" => tracked \subseteq registered

\* A removal that is held has an entity to name.
HasRemoved(events) == \E i \in DOMAIN events : events[i] = "removed"
NamedInv == \A a \in Alert : HasRemoved(held[a]) => a \in registered

\* An entity without an alert that nothing waits for has had its ending told,
\* unless the store let the alert go in silence.
AnnouncedInv ==
  \A a \in registered \ (tracked \cup bootPending) :
    LastHeard(a) = "removed" \/ a \in silenced

DeliveryInv ==
  /\ TypeOK /\ (fetches = 2 => bootPending = {})
  /\ WaysInv /\ RegistryInv /\ NamedInv /\ AnnouncedInv /\ EntitiesMatch

\* What DeliveredInOrder, RemovalNamesEntity and UnregisteredIsAnnounced ask of
\* a step.
StepSound ==
  /\ \A a \in Alert : bus'[a] = SubSeq(owed[a] \o Only(decided'[a]), 1, Len(bus'[a]))
  /\ \A a \in Alert : (\E i \in DOMAIN bus'[a] : bus'[a][i] = "removed") => a \in registered
  /\ \A a \in registered \ registered' : heard'[a] = "removed" \/ a \in silenced'

LEMMA LastOfConcat ==
  ASSUME NEW x \in Seq(Event), NEW y \in Seq(Event), NEW before
  PROVE  LastOf(x \o y, before) = LastOf(y, LastOf(x, before))
<1>1. /\ x \o y \in Seq(Event) /\ Len(x \o y) = Len(x) + Len(y)
      /\ \A i \in 1 .. Len(x) + Len(y) : (x \o y)[i] = IF i <= Len(x) THEN x[i] ELSE y[i - Len(x)]
      /\ Len(x) \in Nat /\ Len(y) \in Nat
  BY LenProperties, ConcatProperties
<1>2. CASE y = <<>>
  BY <1>2, ConcatEmptySeq DEF LastOf
<1>3. CASE y # <<>>
  <2>1. Len(y) >= 1 /\ x \o y # <<>>
    BY <1>1, <1>3, EmptySeq, ConcatEqualIffEmpty
  <2> DEFINE n == Len(x) + Len(y)
  <2>2. n \in 1 .. Len(x) + Len(y) /\ ~(n <= Len(x)) /\ n - Len(x) = Len(y)
    BY <1>1, <2>1
  <2> HIDE DEF n
  <2>3. (x \o y)[n] = y[n - Len(x)]
    BY <1>1, <2>2
  <2>4. n - Len(x) = Len(y) /\ n = Len(x \o y)
    BY <1>1, <2>2 DEF n
  <2> QED BY <1>3, <2>1, <2>3, <2>4 DEF LastOf
<1> QED BY <1>2, <1>3

LEMMA LastOfOnly ==
  ASSUME NEW event \in Event \cup {NoEvent}, NEW before
  PROVE  LastOf(Only(event), before) = IF event = NoEvent THEN before ELSE event
BY DEF LastOf, Only

LEMMA LastOfType ==
  ASSUME NEW x \in Seq(Event), NEW before \in Event \cup {NoEvent}
  PROVE  LastOf(x, before) \in Event \cup {NoEvent}
<1>1. CASE x # <<>>
  <2>1. Len(x) \in 1 .. Len(x)
    BY <1>1, EmptySeq
  <2> QED BY <1>1, <2>1, ElementOfSeq DEF LastOf
<1> QED BY <1>1 DEF LastOf

\* The bookkeeping of a step: its decisions are what went on the bus and what
\* is on its way now.
LEMMA Accounted ==
  ASSUME TypeOK, NEW D \in [Alert -> Event \cup {NoEvent}], Account(D),
         bus' \in [Alert -> Seq(Event)], NEW rest, \A a \in Alert : rest[a] \in Seq(Event),
         \A a \in Alert : bus'[a] \o rest[a] = owed[a] \o Only(D[a])
  PROVE  /\ owed' \in [Alert -> Seq(Event)] /\ \A a \in Alert : owed'[a] = rest[a]
         /\ decided' = D /\ heard' \in [Alert -> Event \cup {NoEvent}]
         /\ \A a \in Alert : bus'[a] = SubSeq(owed[a] \o Only(decided'[a]), 1, Len(bus'[a]))
         /\ \A a \in Alert : LastHeard(a)' = IF D[a] = NoEvent THEN LastHeard(a) ELSE D[a]
<1> DEFINE all == [a \in Alert |-> owed[a] \o Only(D[a])]
<1>1. /\ decided' = D
      /\ owed' = [a \in Alert |-> SubSeq(all[a], Len(bus'[a]) + 1, Len(all[a]))]
      /\ heard' = [a \in Alert |-> LastOf(bus'[a], heard[a])]
  BY DEF Account, LastOf
<1>2. ASSUME NEW a \in Alert
      PROVE  /\ owed'[a] = rest[a]
             /\ bus'[a] = SubSeq(owed[a] \o Only(D[a]), 1, Len(bus'[a]))
             /\ heard'[a] \in Event \cup {NoEvent}
             /\ LastOf(owed'[a], heard'[a]) = IF D[a] = NoEvent THEN LastHeard(a) ELSE D[a]
  <2>1. /\ bus'[a] \in Seq(Event) /\ rest[a] \in Seq(Event) /\ owed[a] \in Seq(Event)
        /\ heard[a] \in Event \cup {NoEvent} /\ D[a] \in Event \cup {NoEvent}
    BY DEF TypeOK
  <2>2. all[a] = bus'[a] \o rest[a] /\ owed[a] \o Only(D[a]) = bus'[a] \o rest[a]
    OBVIOUS
  <2>3. owed'[a] = SubSeq(all[a], Len(bus'[a]) + 1, Len(all[a])) /\ heard'[a] = LastOf(bus'[a], heard[a])
    BY <1>1
  <2> HIDE DEF all
  <2>4. owed'[a] = rest[a] /\ bus'[a] = SubSeq(bus'[a] \o rest[a], 1, Len(bus'[a]))
    BY <2>1, <2>2, <2>3, SplitConcat
  <2>5. heard'[a] \in Event \cup {NoEvent}
    BY <2>1, <2>3, LastOfType
  <2>6. LastOf(owed'[a], heard'[a]) = LastOf(bus'[a] \o rest[a], heard[a])
    <3>1. LastOf(bus'[a] \o rest[a], heard[a]) = LastOf(rest[a], LastOf(bus'[a], heard[a]))
      BY <2>1, LastOfConcat
    <3>2. LastOf(owed'[a], heard'[a]) = LastOf(rest[a], LastOf(bus'[a], heard[a]))
      BY <2>3, <2>4
    <3> QED BY <3>1, <3>2
  <2>7. LastOf(owed[a] \o Only(D[a]), heard[a]) = LastOf(Only(D[a]), LastOf(owed[a], heard[a]))
    BY <2>1, OnlyType, LastOfConcat
  <2>8. LastOf(Only(D[a]), LastOf(owed[a], heard[a])) = IF D[a] = NoEvent THEN LastOf(owed[a], heard[a]) ELSE D[a]
    BY <2>1, LastOfOnly
  <2> QED BY <2>2, <2>4, <2>5, <2>6, <2>7, <2>8 DEF LastHeard
<1>3. owed' \in [Alert -> Seq(Event)]
  <2>1. \A a \in Alert : owed'[a] \in Seq(Event)
    BY <1>2
  <2> HIDE DEF all
  <2> QED BY <1>1, <2>1
<1>4. heard' \in [Alert -> Event \cup {NoEvent}]
  <2> HIDE DEF all
  <2> QED BY <1>1, <1>2
<1> QED BY <1>1, <1>2, <1>3, <1>4 DEF LastHeard

\* What a step fires: the bus has it, or it is held behind what is.
LEMMA EmitWays ==
  ASSUME TypeOK, WaysInv, NEW D \in [Alert -> Event \cup {NoEvent}],
         NEW fired \in [Alert -> Seq(Event)], Emit(fired), Account(D),
         parked' \in [Alert -> {NoEvent, "created", "updated"}],
         \A a \in Alert : Only(parked[a]) \o Only(D[a]) = fired[a] \o Only(parked'[a])
  PROVE  /\ bus' \in [Alert -> Seq(Event)] /\ held' \in [Alert -> Seq(Event)]
         /\ holding' \in BOOLEAN
         /\ owed' \in [Alert -> Seq(Event)]
         /\ decided' = D /\ heard' \in [Alert -> Event \cup {NoEvent}]
         /\ WaysInv'
         /\ \A a \in Alert : bus'[a] = SubSeq(owed[a] \o Only(decided'[a]), 1, Len(bus'[a]))
         /\ \A a \in Alert : LastHeard(a)' = IF D[a] = NoEvent THEN LastHeard(a) ELSE D[a]
         /\ \/ /\ bus' = Silent /\ \A a \in Alert : held'[a] = held[a] \o fired[a]
            \/ /\ bus' = fired /\ ~holding'
         /\ holding => holding'
<1>1. held \in [Alert -> Seq(Event)] /\ holding \in BOOLEAN /\ Silent \in [Alert -> Seq(Event)]
  BY EmptySeq DEF TypeOK, Silent
<1>2. \A a \in Alert : /\ held[a] \in Seq(Event) /\ fired[a] \in Seq(Event)
                       /\ Only(parked[a]) \in Seq(Event) /\ Only(parked'[a]) \in Seq(Event)
                       /\ Only(D[a]) \in Seq(Event)
  <2>1. \A a \in Alert : /\ parked[a] \in Event \cup {NoEvent} /\ parked'[a] \in Event \cup {NoEvent}
                         /\ D[a] \in Event \cup {NoEvent}
    BY DEF TypeOK, Event
  <2> QED BY <1>1, <2>1, OnlyType
<1>3. \A a \in Alert : held[a] \o fired[a] \in Seq(Event)
  BY <1>2, ConcatProperties
<1>4. bus' \in [Alert -> Seq(Event)] /\ held' \in [Alert -> Seq(Event)] /\ holding' \in BOOLEAN
  BY <1>1, <1>3 DEF Emit
<1> DEFINE rest == [a \in Alert |-> held'[a] \o Only(parked'[a])]
<1>5. \A a \in Alert : rest[a] \in Seq(Event)
  BY <1>2, <1>4, ConcatProperties
<1>6. ASSUME NEW a \in Alert
      PROVE  bus'[a] \o (held'[a] \o Only(parked'[a])) = owed[a] \o Only(D[a])
  <2>1. owed[a] = held[a] \o Only(parked[a])
    BY DEF WaysInv
  <2>2. owed[a] \o Only(D[a]) = held[a] \o (fired[a] \o Only(parked'[a]))
    <3>1. (held[a] \o Only(parked[a])) \o Only(D[a]) = held[a] \o (Only(parked[a]) \o Only(D[a]))
      BY <1>2, EventsAssociative
    <3>2. Only(parked[a]) \o Only(D[a]) = fired[a] \o Only(parked'[a])
      OBVIOUS
    <3> QED BY <2>1, <3>1, <3>2
  <2>3. CASE Holds
    <3>1. bus'[a] = <<>> /\ held'[a] = held[a] \o fired[a]
      BY <2>3 DEF Emit, Silent
    <3>2. held'[a] \o Only(parked'[a]) = held[a] \o (fired[a] \o Only(parked'[a]))
      <4>1. (held[a] \o fired[a]) \o Only(parked'[a]) = held[a] \o (fired[a] \o Only(parked'[a]))
        BY <1>2, EventsAssociative
      <4> QED BY <3>1, <4>1
    <3>3. held'[a] \o Only(parked'[a]) \in Seq(Event)
      BY <1>5
    <3> QED BY <2>2, <3>1, <3>2, <3>3, ConcatEmptySeq
  <2>4. CASE ~Holds
    <3>1. bus'[a] = fired[a] /\ held'[a] = <<>> /\ held[a] = <<>>
      BY <2>4 DEF Emit, Holds, WaysInv, Silent
    <3>2. fired[a] \o Only(parked'[a]) \in Seq(Event)
      BY <1>2, ConcatProperties
    <3> QED BY <1>2, <2>2, <3>1, <3>2, ConcatEmptySeq
  <2> QED BY <2>3, <2>4
<1>7. \A a \in Alert : bus'[a] \o rest[a] = owed[a] \o Only(D[a])
  BY <1>6
<1> HIDE DEF rest
<1>8. /\ owed' \in [Alert -> Seq(Event)] /\ \A a \in Alert : owed'[a] = rest[a]
      /\ decided' = D /\ heard' \in [Alert -> Event \cup {NoEvent}]
      /\ \A a \in Alert : bus'[a] = SubSeq(owed[a] \o Only(decided'[a]), 1, Len(bus'[a]))
      /\ \A a \in Alert : LastHeard(a)' = IF D[a] = NoEvent THEN LastHeard(a) ELSE D[a]
  BY <1>4, <1>5, <1>7, Accounted
<1>9. WaysInv'
  <2>1. \A a \in Alert : owed'[a] = held'[a] \o Only(parked'[a])
    BY <1>8 DEF rest
  <2>2. ~holding' => held' = Silent
    <3>1. CASE Holds
      <4>1. ASSUME ~holding' PROVE \A a \in Alert : held'[a] = <<>>
        <5>1. fired = Silent /\ held = Silent
          BY <3>1, <4>1 DEF Emit, WaysInv
        <5>2. \A a \in Alert : held'[a] = held[a] \o fired[a] /\ held[a] = <<>> /\ fired[a] = <<>>
          BY <3>1, <5>1 DEF Emit, Silent
        <5> QED BY <1>2, <5>2, ConcatEmptySeq
      <4> QED BY <1>4, <4>1 DEF Silent
    <3>2. CASE ~Holds
      BY <3>2 DEF Emit, Holds, WaysInv
    <3> QED BY <3>1, <3>2
  <2> QED BY <2>1, <2>2 DEF WaysInv
<1>10. /\ \/ /\ bus' = Silent /\ \A a \in Alert : held'[a] = held[a] \o fired[a]
          \/ /\ bus' = fired /\ ~holding'
       /\ holding => holding'
  BY DEF Emit, Holds
<1> QED BY <1>4, <1>8, <1>9, <1>10

\* A step that fires nothing.
LEMMA SilentWays ==
  ASSUME TypeOK, WaysInv, bus' = Silent, Account(None), UNCHANGED <<parked, holding, held>>
  PROVE  /\ bus' \in [Alert -> Seq(Event)] /\ owed' \in [Alert -> Seq(Event)]
         /\ decided' = None /\ None \in [Alert -> Event \cup {NoEvent}]
         /\ heard' \in [Alert -> Event \cup {NoEvent}]
         /\ WaysInv'
         /\ \A a \in Alert : bus'[a] = SubSeq(owed[a] \o Only(decided'[a]), 1, Len(bus'[a]))
         /\ \A a \in Alert : LastHeard(a)' = LastHeard(a)
<1>1. bus' \in [Alert -> Seq(Event)] /\ None \in [Alert -> Event \cup {NoEvent}]
  BY EmptySeq DEF Silent, None
<1>2. \A a \in Alert : bus'[a] \o owed[a] = owed[a] \o Only(None[a]) /\ None[a] = NoEvent /\ owed[a] \in Seq(Event)
  BY ConcatEmptySeq DEF Silent, None, Only, TypeOK
<1>3. /\ owed' \in [Alert -> Seq(Event)] /\ \A a \in Alert : owed'[a] = owed[a]
      /\ decided' = None /\ heard' \in [Alert -> Event \cup {NoEvent}]
      /\ \A a \in Alert : bus'[a] = SubSeq(owed[a] \o Only(decided'[a]), 1, Len(bus'[a]))
      /\ \A a \in Alert : LastHeard(a)' = IF None[a] = NoEvent THEN LastHeard(a) ELSE None[a]
  <2>1. PICK rest : rest = owed
    OBVIOUS
  <2>2. /\ \A a \in Alert : rest[a] \in Seq(Event)
        /\ \A a \in Alert : bus'[a] \o rest[a] = owed[a] \o Only(None[a])
    BY <1>2, <2>1
  <2>3. /\ owed' \in [Alert -> Seq(Event)] /\ \A a \in Alert : owed'[a] = rest[a]
        /\ decided' = None /\ heard' \in [Alert -> Event \cup {NoEvent}]
        /\ \A a \in Alert : bus'[a] = SubSeq(owed[a] \o Only(decided'[a]), 1, Len(bus'[a]))
        /\ \A a \in Alert : LastHeard(a)' = IF None[a] = NoEvent THEN LastHeard(a) ELSE None[a]
    BY <1>1, <2>2, Accounted
  <2> QED BY <2>1, <2>3
<1> QED BY <1>1, <1>2, <1>3 DEF WaysInv

\* A concatenation ends an alert where one of its parts does.
LEMMA RemovedConcat ==
  ASSUME NEW x \in Seq(Event), NEW y \in Seq(Event), HasRemoved(x \o y)
  PROVE  HasRemoved(x) \/ HasRemoved(y)
<1>1. /\ x \o y \in Seq(Event) /\ Len(x \o y) = Len(x) + Len(y)
      /\ \A i \in 1 .. Len(x) + Len(y) : (x \o y)[i] = IF i <= Len(x) THEN x[i] ELSE y[i - Len(x)]
      /\ Len(x) \in Nat /\ Len(y) \in Nat
      /\ DOMAIN x = 1 .. Len(x) /\ DOMAIN y = 1 .. Len(y) /\ DOMAIN (x \o y) = 1 .. Len(x \o y)
  BY LenProperties, ConcatProperties
<1>2. PICK i \in 1 .. Len(x) + Len(y) : (x \o y)[i] = "removed"
  BY <1>1 DEF HasRemoved
<1>3. CASE i <= Len(x)
  <2>1. i \in 1 .. Len(x) /\ x[i] = "removed"
    BY <1>1, <1>2, <1>3
  <2> QED BY <1>1, <2>1 DEF HasRemoved
<1>4. CASE ~(i <= Len(x))
  <2>1. i - Len(x) \in 1 .. Len(y)
    BY <1>1, <1>4
  <2>2. y[i - Len(x)] = "removed"
    BY <1>1, <1>2, <1>4
  <2> QED BY <1>1, <2>1, <2>2 DEF HasRemoved
<1> QED BY <1>3, <1>4

LEMMA RemovedOnly ==
  ASSUME NEW event \in Event \cup {NoEvent}, HasRemoved(Only(event))
  PROVE  event = "removed"
<1>1. CASE event = NoEvent
  <2>1. Only(event) = <<>> /\ DOMAIN Only(event) = {}
    BY <1>1 DEF Only
  <2> QED BY <2>1 DEF HasRemoved
<1>2. CASE event # NoEvent
  <2>1. DOMAIN <<event>> = {1} /\ <<event>>[1] = event
    OBVIOUS
  <2> QED BY <1>2, <2>1 DEF HasRemoved, Only
<1> QED BY <1>1, <1>2

LEMMA NothingRemoved == ~ HasRemoved(<<>>)
BY DEF HasRemoved

-----------------------------------------------------------------------------
(* What a step removes                                                     *)

\* The platform's sync: every current alert has its entity, and one is removed
\* only when nothing is held and the grace has let it go.
LEMMA SyncKeeps ==
  ASSUME TypeOK, shown = registered, NEW current \in SUBSET Alert, NEW grace,
         NEW hold \in BOOLEAN, Sync(current, grace, hold)
  PROVE  /\ shown' \subseteq Alert /\ registered' \subseteq Alert /\ due' \subseteq Alert
         /\ waiting' \in BOOLEAN
         /\ shown' = registered' /\ current \subseteq registered'
         /\ registered' \subseteq registered \cup current
         /\ registered \cap grace \subseteq registered'
         /\ hold => registered \subseteq registered'
         /\ (registered' \ current) \subseteq grace \/ (waiting' /\ hold)
<1> DEFINE added == current \ shown
           gone == (shown \ current) \ grace
           removed == IF Postponed(hold, gone) THEN {} ELSE gone
<1>1. /\ shown' = (shown \cup added) \ removed
      /\ registered' = (registered \cup added) \ removed
      /\ due' = due \cup (added \ Disabled)
      /\ waiting' = (hold /\ (waiting \/ Postponed(hold, gone)))
  BY DEF Sync
<1>2. removed \subseteq gone /\ (hold => removed = {})
      /\ (removed = gone \/ Postponed(hold, gone))
  BY DEF Postponed
<1>3. /\ shown \subseteq Alert /\ registered \subseteq Alert /\ due \subseteq Alert
      /\ waiting \in BOOLEAN
  BY DEF TypeOK
<1>4. waiting' \in BOOLEAN
  BY <1>1, <1>3, Zenon DEF Postponed
<1>5. Postponed(hold, gone) => waiting' /\ hold
  BY <1>1, Zenon DEF Postponed
<1> HIDE DEF removed
<1> QED BY <1>1, <1>2, <1>3, <1>4, <1>5, Zenon

\* An alert nothing is held or parked for has heard its last event.
LEMMA NothingOwed ==
  ASSUME NEW a \in Alert, held' = Silent, parked'[a] = NoEvent, WaysInv'
  PROVE  LastHeard(a)' = heard'[a]
<1>1. owed'[a] = held'[a] \o Only(parked'[a])
  BY DEF WaysInv
<1>2. owed'[a] = <<>>
  <2>1. held'[a] = <<>> /\ Only(parked'[a]) = <<>>
    BY DEF Silent, Only
  <2>2. <<>> \in Seq(Event)
    BY EmptySeq
  <2> QED BY <1>1, <2>1, <2>2, ConcatEmptySeq
<1> QED BY <1>2 DEF LastHeard, LastOf

-----------------------------------------------------------------------------
(* One reconciliation                                                      *)

\* What a reconciliation decides: an ending only for a registered alert that is
\* not live, another event only for a live one, and an ending for every
\* registered alert that is neither live nor kept by the grace, unless it is let
\* go in silence or was let go before.
LEMMA DecisionKeeps ==
  ASSUME DeliveryInv, setup \in {"restored", "up"},
         NEW live, NEW changed, changed \subseteq live, NEW ended, NEW silent,
         NEW fetched \in BOOLEAN, NEW a \in Alert,
         NEW d, d = Decision(live, changed, ended, silent, fetched)[a],
         NEW grace, grace = StillPending(live, ended, silent, fetched)
  PROVE  /\ d \in Event \cup {NoEvent}
         /\ d = "removed" => a \in registered /\ a \notin live
         /\ d \in {"created", "updated"} => a \in live
         /\ a \in registered \ (live \cup grace) =>
              \/ d = "removed"
              \/ d = NoEvent /\ (a \in silent \/ a \in registered \ (tracked \cup bootPending))
<1>1. d = IF a \in live
          THEN IF a \in changed THEN "updated"
               ELSE IF a \in tracked \cup bootPending THEN NoEvent ELSE "created"
          ELSE IF /\ a \notin silent
                  /\ a \in tracked \/ (a \in bootPending /\ (a \in ended \/ GraceOver(fetched)))
               THEN "removed" ELSE NoEvent
  BY DEF Decision
<1>2. tracked \subseteq registered /\ bootPending \subseteq registered
  BY DEF DeliveryInv, RegistryInv
<1>3. NoEvent \notin {"created", "updated", "removed"}
  BY NoEventAssumption DEF Event
<1> QED BY <1>1, <1>2, <1>3 DEF Event, StillPending

\* A reconciliation keeps the invariant, and what it does is sound.
LEMMA CycleSound ==
  ASSUME DeliveryInv, NEW live \in SUBSET Alert, NEW changed \in SUBSET live,
         NEW ended \in SUBSET bootPending, NEW silent \in SUBSET (tracked \cup bootPending),
         NEW fetched \in BOOLEAN, Cycle(live, changed, ended, silent, fetched)
  PROVE  DeliveryInv' /\ StepSound
<1> DEFINE D == Decision(live, changed, ended, silent, fetched)
           fired == [a \in Alert |-> Only(parked[a]) \o Only(IF Parks(a, D[a]) THEN NoEvent ELSE D[a])]
           grace == StillPending(live, ended, silent, fetched)
<1>1. /\ setup \in {"restored", "up"}
      /\ tracked' = live /\ bootPending' = grace
      /\ fetches' = NextFetches(fetched)
      /\ parked' = [a \in Alert |-> IF Parks(a, D[a]) THEN D[a] ELSE NoEvent]
      /\ Emit(fired) /\ Account(D) /\ silenced' = Silenced(live, silent, D)
      /\ IF setup = "up" THEN Sync(live, bootPending', holding') ELSE UNCHANGED platform
      /\ setup' = IF setup = "restored" THEN "refreshed" ELSE setup
      /\ UNCHANGED <<hass, restarts>>
  BY DEF Cycle, FlushFirst
<1>2. TypeOK /\ WaysInv /\ RegistryInv /\ NamedInv /\ AnnouncedInv /\ EntitiesMatch
  BY DEF DeliveryInv
<1>3. \A a \in Alert :
        /\ D[a] \in Event \cup {NoEvent}
        /\ D[a] = "removed" => a \in registered /\ a \notin live
        /\ D[a] \in {"created", "updated"} => a \in live
        /\ a \in registered \ (live \cup grace) =>
             \/ D[a] = "removed"
             \/ D[a] = NoEvent /\ (a \in silent \/ a \in registered \ (tracked \cup bootPending))
  <2> SUFFICES ASSUME NEW a \in Alert
               PROVE  /\ D[a] \in Event \cup {NoEvent}
                      /\ D[a] = "removed" => a \in registered /\ a \notin live
                      /\ D[a] \in {"created", "updated"} => a \in live
                      /\ a \in registered \ (live \cup grace) =>
                           \/ D[a] = "removed"
                           \/ D[a] = NoEvent /\ (a \in silent \/ a \in registered \ (tracked \cup bootPending))
    OBVIOUS
  <2>1. setup \in {"restored", "up"} /\ changed \subseteq live
    BY <1>1
  <2>2. PICK d : d = Decision(live, changed, ended, silent, fetched)[a]
    OBVIOUS
  <2>3. PICK rest : rest = StillPending(live, ended, silent, fetched)
    OBVIOUS
  <2>4. D[a] = d /\ grace = rest
    BY <2>2, <2>3
  <2> HIDE DEF D, grace
  <2>5. /\ d \in Event \cup {NoEvent}
        /\ d = "removed" => a \in registered /\ a \notin live
        /\ d \in {"created", "updated"} => a \in live
        /\ a \in registered \ (live \cup rest) =>
             \/ d = "removed"
             \/ d = NoEvent /\ (a \in silent \/ a \in registered \ (tracked \cup bootPending))
    BY <2>1, <2>2, <2>3, DecisionKeeps
  <2> QED BY <2>4, <2>5
<1>4. D \in [Alert -> Event \cup {NoEvent}]
  BY <1>3 DEF Decision
<1> HIDE DEF D
<1>5. ASSUME NEW a \in Alert
      PROVE  /\ parked[a] \in {NoEvent, "created", "updated"}
             /\ parked'[a] \in {NoEvent, "created", "updated"}
             /\ parked'[a] # NoEvent => a \in live
             /\ fired[a] \in Seq(Event)
             /\ HasRemoved(fired[a]) => a \in registered
             /\ Only(parked[a]) \o Only(D[a]) = fired[a] \o Only(parked'[a])
  <2>1. parked[a] \in {NoEvent, "created", "updated"} /\ D[a] \in Event \cup {NoEvent}
    BY <1>2, <1>3 DEF TypeOK
  <2>2. PICK now \in Event \cup {NoEvent} : now = IF Parks(a, D[a]) THEN NoEvent ELSE D[a]
    BY <2>1
  <2>3. /\ fired[a] = Only(parked[a]) \o Only(now)
        /\ parked'[a] = IF Parks(a, D[a]) THEN D[a] ELSE NoEvent
    BY <1>1, <2>2
  <2>4. parked'[a] \in {NoEvent, "created", "updated"} /\ (parked'[a] # NoEvent => a \in live)
    BY <1>3, <2>1, <2>3, NoEventAssumption DEF Parks, Event
  <2>5. /\ Only(parked[a]) \in Seq(Event) /\ Only(now) \in Seq(Event) /\ Only(D[a]) \in Seq(Event)
    BY <2>1, <2>2, OnlyType DEF Event
  <2>6. fired[a] \in Seq(Event)
    BY <2>3, <2>5, ConcatProperties
  <2> HIDE DEF fired
  <2>7. HasRemoved(fired[a]) => a \in registered
    <3>1. ASSUME HasRemoved(fired[a]) PROVE HasRemoved(Only(parked[a])) \/ HasRemoved(Only(now))
      BY <2>3, <2>5, <3>1, RemovedConcat
    <3>2. ~ HasRemoved(Only(parked[a]))
      <4>1. parked[a] \in Event \cup {NoEvent} /\ parked[a] # "removed"
        BY <2>1, NoEventAssumption DEF Event
      <4> QED BY <4>1, RemovedOnly
    <3>3. HasRemoved(Only(now)) => now = "removed"
      BY RemovedOnly
    <3>4. now = "removed" => a \in registered
      BY <1>3, <2>2, NoEventAssumption DEF Event
    <3> QED BY <3>1, <3>2, <3>3, <3>4
  <2>8. Only(parked[a]) \o Only(D[a]) = fired[a] \o Only(parked'[a])
    <3>1. CASE Parks(a, D[a])
      <4>1. now = NoEvent /\ parked'[a] = D[a]
        BY <2>2, <2>3, <3>1
      <4>2. Only(now) = <<>>
        BY <4>1 DEF Only
      <4>3. fired[a] = Only(parked[a])
        BY <2>3, <2>5, <4>2, ConcatEmptySeq
      <4> QED BY <4>1, <4>3
    <3>2. CASE ~ Parks(a, D[a])
      <4>1. now = D[a] /\ Only(parked'[a]) = <<>>
        BY <2>2, <2>3, <3>2 DEF Only
      <4>2. fired[a] \o <<>> = fired[a]
        BY <2>6, ConcatEmptySeq
      <4> QED BY <2>3, <4>1, <4>2
    <3> QED BY <3>1, <3>2
  <2> QED BY <2>1, <2>4, <2>6, <2>7, <2>8
<1>6. fired \in [Alert -> Seq(Event)] /\ parked' \in [Alert -> {NoEvent, "created", "updated"}]
  <2>1. \A a \in Alert : fired[a] \in Seq(Event) /\ parked'[a] \in {NoEvent, "created", "updated"}
    BY <1>5
  <2> QED BY <1>1, <2>1
<1> HIDE DEF fired
<1>7. /\ bus' \in [Alert -> Seq(Event)] /\ held' \in [Alert -> Seq(Event)]
      /\ holding' \in BOOLEAN
      /\ owed' \in [Alert -> Seq(Event)]
      /\ decided' = D /\ heard' \in [Alert -> Event \cup {NoEvent}]
      /\ WaysInv'
      /\ \A a \in Alert : bus'[a] = SubSeq(owed[a] \o Only(decided'[a]), 1, Len(bus'[a]))
      /\ \A a \in Alert : LastHeard(a)' = IF D[a] = NoEvent THEN LastHeard(a) ELSE D[a]
      /\ \/ /\ bus' = Silent /\ \A a \in Alert : held'[a] = held[a] \o fired[a]
         \/ /\ bus' = fired /\ ~holding'
      /\ holding => holding'
  <2>1. \A a \in Alert : Only(parked[a]) \o Only(D[a]) = fired[a] \o Only(parked'[a])
    BY <1>5
  <2> QED BY <1>1, <1>2, <1>4, <1>6, <2>1, EmitWays
<1>8. /\ shown' \subseteq Alert /\ registered' \subseteq Alert /\ due' \subseteq Alert
      /\ waiting' \in BOOLEAN
      /\ registered' \subseteq registered \cup live
      /\ registered \cap grace \subseteq registered'
      /\ registered # registered' => setup = "up"
      /\ holding' => registered \subseteq registered'
      /\ waiting' => setup' = "up"
      /\ setup' = "up" => /\ shown' = registered' /\ live \subseteq registered'
                          /\ (registered' \ live) \subseteq grace \/ (waiting' /\ holding')
  <2>1. CASE setup = "up"
    <3>1. shown = registered /\ setup' = "up"
      BY <1>1, <1>2, <2>1 DEF EntitiesMatch
    <3>2. Sync(live, grace, holding')
      BY <1>1, <2>1
    <3>3. PICK hold \in BOOLEAN : hold = holding'
      BY <1>7
    <3> HIDE DEF grace
    <3>4. Sync(live, grace, hold) /\ TypeOK /\ shown = registered
      BY <1>2, <3>1, <3>2, <3>3
    <3>5. /\ shown' \subseteq Alert /\ registered' \subseteq Alert /\ due' \subseteq Alert
          /\ waiting' \in BOOLEAN
          /\ shown' = registered' /\ live \subseteq registered'
          /\ registered' \subseteq registered \cup live
          /\ registered \cap grace \subseteq registered'
          /\ hold => registered \subseteq registered'
          /\ (registered' \ live) \subseteq grace \/ (waiting' /\ hold)
      BY <3>4, SyncKeeps
    <3> QED BY <2>1, <3>1, <3>3, <3>5
  <2>2. CASE setup # "up"
    <3>1. setup' = "refreshed" /\ UNCHANGED platform
      BY <1>1, <2>2
    <3>2. ~waiting
      BY <1>2, <2>2 DEF RegistryInv
    <3> QED BY <1>2, <3>1, <3>2 DEF platform, TypeOK
  <2> QED BY <2>1, <2>2
<1>9. \A a \in Alert : a \in registered \ (live \cup grace) =>
        LastHeard(a)' = "removed" \/ a \in silenced'
  <2>1. ASSUME NEW a \in Alert, a \in registered \ (live \cup grace)
        PROVE  LastHeard(a)' = "removed" \/ a \in silenced'
    <3>1. \/ D[a] = "removed"
          \/ D[a] = NoEvent /\ (a \in silent \/ a \in registered \ (tracked \cup bootPending))
      BY <1>3, <2>1
    <3>2. D[a] = NoEvent /\ a \in registered \ (tracked \cup bootPending) =>
            LastHeard(a) = "removed" \/ a \in silenced
      BY <1>2 DEF AnnouncedInv
    <3>3. LastHeard(a)' = IF D[a] = NoEvent THEN LastHeard(a) ELSE D[a]
      BY <1>7
    <3>4. NoEvent # "removed"
      BY NoEventAssumption DEF Event
    <3>5. D[a] = NoEvent /\ a \in silenced \cup silent => a \in silenced'
      BY <1>1, <2>1, <3>4 DEF Silenced
    <3> QED BY <3>1, <3>2, <3>3, <3>4, <3>5
  <2> QED BY <2>1
<1> HIDE DEF grace
<1>10. TypeOK'
  <2>1. fetches' \in 0 .. 2 /\ bootPending' \subseteq Alert
    BY <1>1, <1>2 DEF grace, StillPending, NextFetches, TypeOK, DeliveryInv
  <2>2. setup' \in {"restored", "refreshed", "up"}
    BY <1>1
  <2>3. silenced' \subseteq Alert
    BY <1>1, <1>2 DEF Silenced, TypeOK
  <2> QED BY <1>1, <1>2, <1>4, <1>6, <1>7, <1>8, <2>1, <2>2, <2>3 DEF TypeOK
<1>11. fetches' = 2 => bootPending' = {}
  BY <1>1, <1>2 DEF grace, StillPending, NextFetches, GraceOver, TypeOK, DeliveryInv
<1>12. RegistryInv'
  <2>1. \A a \in Alert : parked'[a] # NoEvent => a \in tracked'
    BY <1>1, <1>5
  <2>2. bootPending' \subseteq registered'
    BY <1>1, <1>2, <1>8 DEF RegistryInv, grace, StillPending
  <2>3. setup' # "refreshed" => tracked' \subseteq registered'
    BY <1>1, <1>8
  <2> QED BY <1>8, <2>1, <2>2, <2>3 DEF RegistryInv
<1>13. NamedInv'
  <2>1. ASSUME NEW a \in Alert, HasRemoved(held'[a]) PROVE a \in registered'
    <3>1. holding'
      <4>1. ~holding' => held'[a] = <<>>
        BY <1>7 DEF WaysInv, Silent
      <4> QED BY <1>7, <2>1, <4>1, NothingRemoved
    <3>2. held'[a] = held[a] \o fired[a] /\ held[a] \in Seq(Event) /\ fired[a] \in Seq(Event)
      BY <1>2, <1>5, <1>7, <3>1 DEF TypeOK
    <3>3. HasRemoved(held[a]) \/ HasRemoved(fired[a])
      BY <2>1, <3>2, RemovedConcat
    <3>4. a \in registered
      BY <1>2, <1>5, <3>3 DEF NamedInv
    <3> QED BY <1>8, <3>1, <3>4
  <2> QED BY <2>1 DEF NamedInv, HasRemoved
<1>14. AnnouncedInv'
  <2>1. ASSUME NEW a \in registered' \ (tracked' \cup bootPending')
        PROVE  LastHeard(a)' = "removed" \/ a \in silenced'
    <3>1. a \in Alert /\ a \in registered \ (live \cup grace)
      BY <1>1, <1>8, <2>1
    <3> QED BY <1>9, <3>1
  <2> QED BY <2>1 DEF AnnouncedInv
<1>15. EntitiesMatch'
  BY <1>1, <1>8 DEF EntitiesMatch
<1>16. StepSound
  <2>1. \A a \in Alert : bus'[a] = SubSeq(owed[a] \o Only(decided'[a]), 1, Len(bus'[a]))
    BY <1>7
  <2>2. ASSUME NEW a \in Alert, HasRemoved(bus'[a]) PROVE a \in registered
    <3>1. bus' # Silent
      BY <2>2, NothingRemoved DEF Silent
    <3> QED BY <1>5, <1>7, <2>2, <3>1
  <2>3. ASSUME NEW a \in registered \ registered'
        PROVE  heard'[a] = "removed" \/ a \in silenced'
    <3>1. ~holding' /\ a \in Alert /\ setup' = "up"
      BY <1>1, <1>2, <1>8, <2>3 DEF TypeOK
    <3>2. a \notin live /\ a \notin grace
      BY <1>8, <2>3, <3>1
    <3>3. held' = Silent /\ parked'[a] = NoEvent
      BY <1>5, <1>7, <3>1, <3>2 DEF WaysInv
    <3>4. LastHeard(a)' = heard'[a]
      BY <1>7, <3>1, <3>3, NothingOwed
    <3> QED BY <1>9, <2>3, <3>1, <3>2, <3>4
  <2> QED BY <2>1, <2>2, <2>3 DEF StepSound, HasRemoved
<1> QED BY <1>7, <1>10, <1>11, <1>12, <1>13, <1>14, <1>15, <1>16 DEF DeliveryInv

-----------------------------------------------------------------------------
(* Entities and Home Assistant                                             *)

LEMMA PlatformUpSound ==
  ASSUME DeliveryInv, PlatformUp
  PROVE  DeliveryInv' /\ StepSound
<1> DEFINE gone == (registered \ tracked) \ bootPending
           removed == IF Postponed(holding, gone) THEN {} ELSE gone
<1>1. /\ setup = "refreshed" /\ setup' = "up"
      /\ shown' = (registered \cup (tracked \ registered)) \ removed
      /\ registered' = (registered \cup (tracked \ registered)) \ removed
      /\ due' = (registered \cup (tracked \ registered)) \ Disabled
      /\ waiting' = Postponed(holding, gone)
      /\ bus' = Silent
      /\ Account(None)
      /\ UNCHANGED <<hass, store, parked, holding, held, restarts, silenced>>
  BY DEF PlatformUp
<1>2. /\ TypeOK /\ WaysInv /\ RegistryInv /\ NamedInv /\ AnnouncedInv /\ EntitiesMatch
      /\ (fetches = 2 => bootPending = {})
  BY DEF DeliveryInv
<1>3. /\ bus' \in [Alert -> Seq(Event)] /\ owed' \in [Alert -> Seq(Event)]
      /\ decided' = None /\ None \in [Alert -> Event \cup {NoEvent}]
      /\ heard' \in [Alert -> Event \cup {NoEvent}]
      /\ WaysInv'
      /\ \A a \in Alert : bus'[a] = SubSeq(owed[a] \o Only(decided'[a]), 1, Len(bus'[a]))
      /\ \A a \in Alert : LastHeard(a)' = LastHeard(a)
  BY <1>1, <1>2, SilentWays
<1>4. /\ removed \subseteq gone /\ (holding => removed = {})
      /\ (removed = gone \/ (holding /\ waiting'))
      /\ waiting' \in BOOLEAN
  BY <1>1, <1>2 DEF Postponed, TypeOK
<1> HIDE DEF removed
<1>5. /\ registered' \subseteq registered \cup tracked /\ tracked \subseteq registered'
      /\ bootPending \subseteq registered'
      /\ shown' = registered'
      /\ registered \ registered' \subseteq (registered \ tracked) \ bootPending
      /\ (holding => registered \subseteq registered')
      /\ (registered' \ tracked) \subseteq bootPending \/ (waiting' /\ holding)
      /\ tracked' = tracked /\ bootPending' = bootPending /\ fetches' = fetches
  BY <1>1, <1>2, <1>4 DEF store, RegistryInv
<1>6. TypeOK'
  <2>1. shown' \subseteq Alert /\ registered' \subseteq Alert /\ due' \subseteq Alert
    BY <1>1, <1>2, <1>5 DEF TypeOK
  <2> QED BY <1>1, <1>2, <1>3, <1>4, <1>5, <2>1 DEF TypeOK
<1>7. RegistryInv'
  BY <1>1, <1>2, <1>5 DEF RegistryInv
<1>8. NamedInv'
  <2>1. ASSUME NEW a \in Alert, HasRemoved(held'[a]) PROVE a \in registered'
    <3>1. holding
      BY <1>1, <1>2, <2>1, NothingRemoved DEF WaysInv, Silent
    <3>2. HasRemoved(held[a])
      BY <1>1, <2>1
    <3> QED BY <1>2, <1>5, <3>1, <3>2 DEF NamedInv
  <2> QED BY <2>1 DEF NamedInv, HasRemoved
<1>9. AnnouncedInv'
  <2>1. ASSUME NEW a \in registered' \ (tracked' \cup bootPending')
        PROVE  LastHeard(a)' = "removed" \/ a \in silenced'
    <3>1. a \in registered \ (tracked \cup bootPending) /\ a \in Alert
      BY <1>2, <1>5, <2>1 DEF TypeOK
    <3>2. LastHeard(a) = "removed" \/ a \in silenced
      BY <1>2, <3>1 DEF AnnouncedInv
    <3> QED BY <1>1, <1>3, <3>1, <3>2
  <2> QED BY <2>1 DEF AnnouncedInv
<1>10. EntitiesMatch'
  BY <1>1, <1>5 DEF EntitiesMatch
<1>11. StepSound
  <2>1. ASSUME NEW a \in Alert PROVE ~ HasRemoved(bus'[a])
    BY <1>1, NothingRemoved DEF Silent
  <2>2. ASSUME NEW a \in registered \ registered'
        PROVE  heard'[a] = "removed" \/ a \in silenced'
    <3>1. a \in Alert /\ ~holding /\ a \in registered \ (tracked \cup bootPending)
      BY <1>2, <1>5, <2>2 DEF TypeOK
    <3>2. held' = Silent /\ parked'[a] = NoEvent
      BY <1>1, <1>2, <3>1 DEF WaysInv, RegistryInv
    <3>3. LastHeard(a)' = heard'[a]
      BY <1>3, <3>1, <3>2, NothingOwed
    <3>4. LastHeard(a) = "removed" \/ a \in silenced
      BY <1>2, <3>1 DEF AnnouncedInv
    <3> QED BY <1>1, <1>3, <3>1, <3>3, <3>4
  <2> QED BY <1>3, <2>1, <2>2 DEF StepSound, HasRemoved
<1> QED BY <1>2, <1>3, <1>5, <1>6, <1>7, <1>8, <1>9, <1>10, <1>11 DEF DeliveryInv

\* A step that moves no alert, no entity and no file, and fires no ending.
LEMMA StillSound ==
  ASSUME DeliveryInv, UNCHANGED <<setup, store, waiting, shown, registered, silenced>>,
         TypeOK', WaysInv',
         NEW nothing, nothing = NoEvent,
         \A a \in Alert : parked'[a] # nothing => parked[a] # nothing,
         \A a \in Alert : HasRemoved(held'[a]) => HasRemoved(held[a]),
         \A a \in Alert : LastHeard(a)' = LastHeard(a),
         holding => holding',
         \A a \in Alert : bus'[a] = SubSeq(owed[a] \o Only(decided'[a]), 1, Len(bus'[a])),
         \A a \in Alert : ~ HasRemoved(bus'[a])
  PROVE  DeliveryInv' /\ StepSound
<1>1. /\ setup' = setup /\ tracked' = tracked /\ bootPending' = bootPending
      /\ fetches' = fetches /\ waiting' = waiting /\ shown' = shown /\ registered' = registered
      /\ silenced' = silenced
  BY DEF store
<1>2. /\ TypeOK /\ WaysInv /\ RegistryInv /\ NamedInv /\ AnnouncedInv /\ EntitiesMatch
      /\ (fetches = 2 => bootPending = {})
  BY DEF DeliveryInv
<1>3. RegistryInv'
  BY <1>1, <1>2 DEF RegistryInv
<1>4. NamedInv'
  BY <1>1, <1>2 DEF NamedInv
<1>5. AnnouncedInv'
  <2>1. ASSUME NEW a \in registered \ (tracked \cup bootPending)
        PROVE  LastHeard(a)' = "removed" \/ a \in silenced'
    <3>1. a \in Alert /\ (LastHeard(a) = "removed" \/ a \in silenced)
      BY <1>2, <2>1 DEF TypeOK, AnnouncedInv
    <3> QED BY <3>1
  <2> QED BY <1>1, <2>1 DEF AnnouncedInv
<1>6. EntitiesMatch'
  BY <1>1, <1>2 DEF EntitiesMatch
<1>7. StepSound
  BY <1>1 DEF StepSound, HasRemoved
<1> QED BY <1>1, <1>2, <1>3, <1>4, <1>5, <1>6, <1>7 DEF DeliveryInv

LEMMA ReleaseSound ==
  ASSUME DeliveryInv, NEW b \in Alert, Release(b)
  PROVE  DeliveryInv' /\ StepSound
<1> DEFINE fired == [Silent EXCEPT ![b] = Only(parked[b])]
<1>1. /\ due' = due \ {b}
      /\ parked' = [parked EXCEPT ![b] = NoEvent]
      /\ Emit(fired)
      /\ Account(None)
      /\ UNCHANGED <<hass, setup, store, waiting, shown, registered, restarts, silenced>>
  BY DEF Release
<1>2. TypeOK /\ WaysInv
  BY DEF DeliveryInv
<1>3. None \in [Alert -> Event \cup {NoEvent}] /\ \A a \in Alert : None[a] = NoEvent
  BY DEF None
<1>4. ASSUME NEW a \in Alert
      PROVE  /\ parked[a] \in {NoEvent, "created", "updated"}
             /\ parked'[a] = (IF a = b THEN NoEvent ELSE parked[a])
             /\ fired[a] \in Seq(Event) /\ ~ HasRemoved(fired[a])
             /\ Only(parked[a]) \o Only(None[a]) = fired[a] \o Only(parked'[a])
  <2>1. parked[a] \in {NoEvent, "created", "updated"} /\ parked'[a] = (IF a = b THEN NoEvent ELSE parked[a])
    BY <1>1, <1>2 DEF TypeOK
  <2>2. fired[a] = IF a = b THEN Only(parked[a]) ELSE <<>>
    BY DEF Silent
  <2> HIDE DEF fired
  <2>3. parked[a] \in Event \cup {NoEvent} /\ parked[a] # "removed"
    BY <2>1, NoEventAssumption DEF Event
  <2>4. Only(parked[a]) \in Seq(Event) /\ ~ HasRemoved(Only(parked[a]))
    BY <2>3, OnlyType, RemovedOnly
  <2>5. <<>> \in Seq(Event)
    BY EmptySeq
  <2>6. Only(None[a]) = <<>>
    BY <1>3 DEF Only
  <2>7. Only(parked[a]) \o <<>> = Only(parked[a]) /\ <<>> \o Only(parked[a]) = Only(parked[a])
    BY <2>4, ConcatEmptySeq
  <2>8. CASE a = b
    <3>1. Only(parked'[a]) = <<>> /\ fired[a] = Only(parked[a])
      BY <2>1, <2>2, <2>8 DEF Only
    <3> QED BY <2>1, <2>4, <2>6, <3>1
  <2>9. CASE a # b
    <3>1. parked'[a] = parked[a] /\ fired[a] = <<>>
      BY <2>1, <2>2, <2>9
    <3> QED BY <2>1, <2>5, <2>6, <2>7, <3>1, NothingRemoved
  <2> QED BY <2>8, <2>9
<1>5. fired \in [Alert -> Seq(Event)]
  <2>1. fired = [a \in Alert |-> fired[a]]
    BY DEF Silent
  <2>2. \A a \in Alert : fired[a] \in Seq(Event)
    BY <1>4
  <2> HIDE DEF fired
  <2> QED BY <2>1, <2>2
<1>6. parked' \in [Alert -> {NoEvent, "created", "updated"}]
  BY <1>1, <1>2 DEF TypeOK
<1> HIDE DEF fired
<1>7. /\ bus' \in [Alert -> Seq(Event)] /\ held' \in [Alert -> Seq(Event)]
      /\ holding' \in BOOLEAN
      /\ owed' \in [Alert -> Seq(Event)]
      /\ decided' = None /\ heard' \in [Alert -> Event \cup {NoEvent}]
      /\ WaysInv'
      /\ \A a \in Alert : bus'[a] = SubSeq(owed[a] \o Only(decided'[a]), 1, Len(bus'[a]))
      /\ \A a \in Alert : LastHeard(a)' = IF None[a] = NoEvent THEN LastHeard(a) ELSE None[a]
      /\ \/ /\ bus' = Silent /\ \A a \in Alert : held'[a] = held[a] \o fired[a]
         \/ /\ bus' = fired /\ ~holding'
      /\ holding => holding'
  <2>1. \A a \in Alert : Only(parked[a]) \o Only(None[a]) = fired[a] \o Only(parked'[a])
    BY <1>4
  <2> QED BY <1>1, <1>2, <1>3, <1>5, <1>6, <2>1, EmitWays
<1>8. TypeOK'
  <2>1. due' \subseteq Alert /\ None \in [Alert -> Event \cup {NoEvent}]
    BY <1>1, <1>2, <1>3 DEF TypeOK
  <2> QED BY <1>1, <1>2, <1>6, <1>7, <2>1 DEF TypeOK, store
<1>9. \A a \in Alert : parked'[a] # NoEvent => parked[a] # NoEvent
  BY <1>4
<1>10. \A a \in Alert : HasRemoved(held'[a]) => HasRemoved(held[a])
  <2>1. ASSUME NEW a \in Alert, HasRemoved(held'[a]) PROVE HasRemoved(held[a])
    <3>1. CASE \A c \in Alert : held'[c] = held[c] \o fired[c]
      <4>1. held'[a] = held[a] \o fired[a] /\ held[a] \in Seq(Event)
        BY <1>2, <3>1 DEF TypeOK
      <4> QED BY <1>4, <2>1, <4>1, RemovedConcat
    <3>2. CASE ~holding'
      BY <1>7, <2>1, <3>2, NothingRemoved DEF WaysInv, Silent
    <3> QED BY <1>7, <3>1, <3>2
  <2> QED BY <2>1
<1>11. \A a \in Alert : ~ HasRemoved(bus'[a])
  BY <1>4, <1>7, NothingRemoved DEF Silent
<1>12. \A a \in Alert : LastHeard(a)' = LastHeard(a)
  BY <1>3, <1>7
<1> QED BY <1>1, <1>7, <1>8, <1>9, <1>10, <1>11, <1>12, StillSound

LEMMA StartSound ==
  ASSUME DeliveryInv, Start
  PROVE  DeliveryInv' /\ StepSound
<1>1. /\ hass' = "running" /\ bus' = Silent /\ Account(None)
      /\ UNCHANGED <<setup, store, parked, holding, held, platform, restarts, silenced>>
  BY DEF Start
<1>2. TypeOK /\ WaysInv
  BY DEF DeliveryInv
<1>3. /\ bus' \in [Alert -> Seq(Event)] /\ owed' \in [Alert -> Seq(Event)]
      /\ decided' = None /\ None \in [Alert -> Event \cup {NoEvent}]
      /\ heard' \in [Alert -> Event \cup {NoEvent}]
      /\ WaysInv'
      /\ \A a \in Alert : bus'[a] = SubSeq(owed[a] \o Only(decided'[a]), 1, Len(bus'[a]))
      /\ \A a \in Alert : LastHeard(a)' = LastHeard(a)
  BY <1>1, <1>2, SilentWays
<1>4. TypeOK'
  BY <1>1, <1>2, <1>3 DEF TypeOK, store, platform
<1>5. \A a \in Alert : ~ HasRemoved(bus'[a])
  BY <1>1, NothingRemoved DEF Silent
<1>6. UNCHANGED <<setup, store, waiting, shown, registered, silenced>> /\ parked' = parked /\ held' = held /\ holding' = holding
  BY <1>1 DEF platform
<1>7. \A a \in Alert : parked'[a] # NoEvent => parked[a] # NoEvent
  BY <1>6
<1>8. \A a \in Alert : HasRemoved(held'[a]) => HasRemoved(held[a])
  BY <1>6
<1>9. holding => holding'
  BY <1>6
<1> QED BY <1>3, <1>4, <1>5, <1>6, <1>7, <1>8, <1>9, StillSound

LEMMA DrainSound ==
  ASSUME DeliveryInv, Drain
  PROVE  DeliveryInv' /\ StepSound
<1>1. /\ holding /\ bus' = held /\ held' = Silent /\ holding' = FALSE
      /\ Account(None)
      /\ IF waiting THEN Sync(tracked, bootPending, FALSE)
         ELSE waiting' = FALSE /\ UNCHANGED <<shown, registered, due>>
      /\ UNCHANGED <<hass, setup, store, parked, restarts, silenced>>
  BY DEF Drain, SyncWaits
<1>2. /\ TypeOK /\ WaysInv /\ RegistryInv /\ NamedInv /\ AnnouncedInv /\ EntitiesMatch
      /\ (fetches = 2 => bootPending = {})
  BY DEF DeliveryInv
<1>3. None \in [Alert -> Event \cup {NoEvent}] /\ \A a \in Alert : None[a] = NoEvent
  BY DEF None
<1> DEFINE rest == [a \in Alert |-> Only(parked[a])]
<1>4. ASSUME NEW a \in Alert
      PROVE  /\ rest[a] \in Seq(Event)
             /\ bus'[a] \o rest[a] = owed[a] \o Only(None[a])
             /\ <<>> \o Only(parked[a]) = rest[a]
  <2>1. /\ parked[a] \in Event \cup {NoEvent} /\ owed[a] \in Seq(Event)
        /\ owed[a] = held[a] \o Only(parked[a])
    BY <1>2 DEF TypeOK, WaysInv, Event
  <2>2. Only(parked[a]) \in Seq(Event) /\ Only(None[a]) = <<>>
    BY <1>3, <2>1, OnlyType DEF Only
  <2>3. owed[a] \o <<>> = owed[a] /\ <<>> \o Only(parked[a]) = Only(parked[a])
    BY <2>1, <2>2, ConcatEmptySeq
  <2>4. bus'[a] \o rest[a] = held[a] \o Only(parked[a])
    BY <1>1
  <2> QED BY <2>1, <2>2, <2>3, <2>4
<1>5. bus' \in [Alert -> Seq(Event)] /\ held' \in [Alert -> Seq(Event)]
  BY <1>1, <1>2, EmptySeq DEF TypeOK, Silent
<1>6. /\ owed' \in [Alert -> Seq(Event)] /\ \A a \in Alert : owed'[a] = rest[a]
      /\ decided' = None /\ heard' \in [Alert -> Event \cup {NoEvent}]
      /\ \A a \in Alert : bus'[a] = SubSeq(owed[a] \o Only(decided'[a]), 1, Len(bus'[a]))
      /\ \A a \in Alert : LastHeard(a)' = IF None[a] = NoEvent THEN LastHeard(a) ELSE None[a]
  <2>1. \A a \in Alert : rest[a] \in Seq(Event)
    BY <1>4
  <2>2. \A a \in Alert : bus'[a] \o rest[a] = owed[a] \o Only(None[a])
    BY <1>4
  <2> HIDE DEF rest
  <2> QED BY <1>1, <1>2, <1>3, <1>5, <2>1, <2>2, Accounted
<1>7. /\ tracked' = tracked /\ bootPending' = bootPending /\ fetches' = fetches /\ parked' = parked
      /\ setup' = setup
  BY <1>1 DEF store
<1>8. WaysInv'
  <2>1. \A a \in Alert : owed'[a] = held'[a] \o Only(parked'[a])
    <3>1. ASSUME NEW a \in Alert PROVE owed'[a] = held'[a] \o Only(parked'[a])
      <4>1. held'[a] = <<>> /\ parked'[a] = parked[a] /\ owed'[a] = rest[a]
        BY <1>1, <1>6, <1>7 DEF Silent
      <4> HIDE DEF rest
      <4> QED BY <1>4, <4>1
    <3> QED BY <3>1
  <2> QED BY <1>1, <2>1 DEF WaysInv
<1> HIDE DEF rest
<1>9. /\ shown' \subseteq Alert /\ registered' \subseteq Alert /\ due' \subseteq Alert
      /\ waiting' = FALSE
      /\ registered' \subseteq registered \cup tracked
      /\ bootPending \subseteq registered'
      /\ registered # registered' => setup = "up"
      /\ setup # "refreshed" => tracked \subseteq registered'
      /\ setup = "up" => /\ shown' = registered' /\ (registered' \ tracked) \subseteq bootPending
  <2>1. CASE waiting
    <3>1. setup = "up" /\ shown = registered /\ bootPending \subseteq registered
          /\ tracked \in SUBSET Alert
      BY <1>2, <2>1 DEF RegistryInv, EntitiesMatch, TypeOK
    <3>2. Sync(tracked, bootPending, FALSE)
      BY <1>1, <2>1
    <3>3. /\ shown' \subseteq Alert /\ registered' \subseteq Alert /\ due' \subseteq Alert
          /\ shown' = registered' /\ tracked \subseteq registered'
          /\ registered' \subseteq registered \cup tracked
          /\ registered \cap bootPending \subseteq registered'
          /\ (registered' \ tracked) \subseteq bootPending
      BY <1>2, <3>1, <3>2, SyncKeeps
    <3>4. waiting' = FALSE
      BY <3>2 DEF Sync
    <3> QED BY <3>1, <3>3, <3>4
  <2>2. CASE ~waiting
    BY <1>1, <1>2, <2>2 DEF RegistryInv, EntitiesMatch, TypeOK
  <2> QED BY <2>1, <2>2
<1>10. TypeOK'
  <2>1. None \in [Alert -> Event \cup {NoEvent}]
    BY <1>3
  <2> QED BY <1>1, <1>2, <1>5, <1>6, <1>7, <1>9, <2>1 DEF TypeOK
<1>11. RegistryInv'
  BY <1>2, <1>7, <1>9 DEF RegistryInv
<1>12. NamedInv'
  BY <1>1, NothingRemoved DEF NamedInv, Silent
<1>13. \A a \in Alert : LastHeard(a)' = LastHeard(a)
  BY <1>3, <1>6
<1>14. AnnouncedInv'
  <2>1. ASSUME NEW a \in registered' \ (tracked' \cup bootPending')
        PROVE  LastHeard(a)' = "removed" \/ a \in silenced'
    <3>1. a \in registered \ (tracked \cup bootPending) /\ a \in Alert
      BY <1>2, <1>7, <1>9, <2>1 DEF TypeOK
    <3>2. LastHeard(a) = "removed" \/ a \in silenced
      BY <1>2, <3>1 DEF AnnouncedInv
    <3> QED BY <1>1, <1>13, <3>1, <3>2
  <2> QED BY <2>1 DEF AnnouncedInv
<1>15. EntitiesMatch'
  BY <1>7, <1>9 DEF EntitiesMatch
<1>16. StepSound
  <2>1. ASSUME NEW a \in Alert, HasRemoved(bus'[a]) PROVE a \in registered
    BY <1>1, <1>2, <2>1 DEF NamedInv
  <2>2. ASSUME NEW a \in registered \ registered'
        PROVE  heard'[a] = "removed" \/ a \in silenced'
    <3>1. a \in Alert /\ a \in registered \ (tracked \cup bootPending)
      BY <1>2, <1>9, <2>2 DEF TypeOK
    <3>2. held' = Silent /\ parked'[a] = NoEvent
      BY <1>1, <1>2, <1>7, <3>1 DEF RegistryInv
    <3>3. LastHeard(a)' = heard'[a]
      BY <1>8, <3>1, <3>2, NothingOwed
    <3>4. LastHeard(a) = "removed" \/ a \in silenced
      BY <1>2, <3>1 DEF AnnouncedInv
    <3> QED BY <1>1, <1>13, <3>1, <3>3, <3>4
  <2> QED BY <1>6, <2>1, <2>2 DEF StepSound, HasRemoved
<1> QED BY <1>2, <1>7, <1>8, <1>10, <1>11, <1>12, <1>14, <1>15, <1>16 DEF DeliveryInv

LEMMA RestartSound ==
  ASSUME DeliveryInv, NEW boot \in BOOLEAN, Restart(boot)
  PROVE  DeliveryInv' /\ StepSound
<1>1. /\ setup = "up" /\ restarts' = restarts + 1
      /\ hass' = (IF boot THEN "starting" ELSE hass)
      /\ setup' = "restored"
      /\ bootPending' = registered \ tracked
      /\ fetches' = 0
      /\ parked' = None
      /\ held' = Silent
      /\ holding' = FALSE
      /\ shown' = {} /\ due' = {} /\ waiting' = FALSE
      /\ decided' = None /\ bus' = Silent /\ owed' = Silent
      /\ heard' = [a \in Alert |-> IF owed[a] = <<>> THEN heard[a] ELSE NoEvent]
      /\ tracked' = tracked /\ registered' = registered /\ silenced' = silenced
  BY DEF Restart, PendingAtBoot
<1>2. TypeOK /\ tracked \subseteq registered
  BY <1>1 DEF DeliveryInv, EntitiesMatch
<1>3. /\ Silent \in [Alert -> Seq(Event)] /\ \A a \in Alert : Silent[a] = <<>>
      /\ None \in [Alert -> {NoEvent, "created", "updated"}]
      /\ None \in [Alert -> Event \cup {NoEvent}]
      /\ \A a \in Alert : Only(None[a]) = <<>>
  BY EmptySeq DEF Silent, None, Only
<1>4. TypeOK'
  <2>1. heard' \in [Alert -> Event \cup {NoEvent}]
    BY <1>1, <1>2 DEF TypeOK
  <2>2. restarts' \in Nat /\ hass' \in {"starting", "running"} /\ fetches' \in 0 .. 2
    BY <1>1, <1>2 DEF TypeOK
  <2> QED BY <1>1, <1>2, <1>3, <2>1, <2>2 DEF TypeOK
<1>5. <<>> \o <<>> = <<>> /\ <<>> \in Seq(Event)
  BY EmptySeq, ConcatEmptySeq
<1>6. WaysInv'
  BY <1>1, <1>3, <1>5 DEF WaysInv
<1>7. RegistryInv'
  BY <1>1, <1>2 DEF RegistryInv, None
<1>8. NamedInv' /\ AnnouncedInv'
  BY <1>1, <1>3, NothingRemoved DEF NamedInv, AnnouncedInv
<1>9. EntitiesMatch'
  BY <1>1 DEF EntitiesMatch
<1>10. StepSound
  <2>1. ASSUME NEW a \in Alert
        PROVE  bus'[a] = SubSeq(owed[a] \o Only(decided'[a]), 1, Len(bus'[a])) /\ ~ HasRemoved(bus'[a])
    <3>1. bus'[a] = <<>> /\ Len(bus'[a]) = 0
      BY <1>1, <1>3
    <3>2. SubSeq(owed[a] \o Only(decided'[a]), 1, 0) = <<>>
      <4>1. owed[a] \in Seq(Event) /\ Only(decided'[a]) = <<>>
        BY <1>1, <1>2, <1>3 DEF TypeOK
      <4>2. owed[a] \o Only(decided'[a]) \in Seq(Event)
        BY <1>5, <4>1, ConcatProperties
      <4> QED BY <4>2, SubSeqEmpty
    <3> QED BY <3>1, <3>2, NothingRemoved
  <2> QED BY <1>1, <2>1 DEF StepSound, HasRemoved
<1> QED BY <1>1, <1>4, <1>6, <1>7, <1>8, <1>9, <1>10 DEF DeliveryInv

LEMMA DeliveryInit == Init => DeliveryInv
<1> SUFFICES ASSUME Init PROVE DeliveryInv
  OBVIOUS
<1>1. /\ Silent \in [Alert -> Seq(Event)] /\ \A a \in Alert : Silent[a] = <<>>
      /\ None \in [Alert -> {NoEvent, "created", "updated"}]
      /\ None \in [Alert -> Event \cup {NoEvent}]
      /\ \A a \in Alert : Only(None[a]) = <<>>
  BY EmptySeq DEF Silent, None, Only
<1>2. <<>> \o <<>> = <<>>
  BY EmptySeq, ConcatEmptySeq
<1>3. TypeOK
  <2>1. /\ tracked = {} /\ bootPending = {} /\ registered = {} /\ shown = {} /\ due = {}
        /\ holding = FALSE /\ waiting = FALSE /\ fetches = 0 /\ restarts = 0
        /\ hass \in {"starting", "running"} /\ setup \in {"restored", "refreshed", "up"}
    BY DEF Init
  <2>2. /\ parked = None /\ held = Silent /\ decided = None /\ bus = Silent /\ owed = Silent
        /\ heard = None /\ silenced = {}
    BY DEF Init
  <2>3. /\ fetches \in 0 .. 2 /\ restarts \in Nat /\ holding \in BOOLEAN /\ waiting \in BOOLEAN
    <3>1. fetches = 0 /\ restarts = 0
      BY <2>1, Zenon
    <3>2. fetches \in 0 .. 2 /\ restarts \in Nat
      BY <3>1
    <3>3. holding \in BOOLEAN /\ waiting \in BOOLEAN
      BY <2>1, Zenon
    <3> QED BY <3>2, <3>3
  <2>4. tracked \subseteq Alert /\ bootPending \subseteq Alert /\ registered \subseteq Alert
        /\ shown \subseteq Alert /\ due \subseteq Alert
    BY <2>1
  <2>5. /\ parked \in [Alert -> {NoEvent, "created", "updated"}]
        /\ held \in [Alert -> Seq(Event)] /\ decided \in [Alert -> Event \cup {NoEvent}]
        /\ bus \in [Alert -> Seq(Event)] /\ owed \in [Alert -> Seq(Event)]
        /\ heard \in [Alert -> Event \cup {NoEvent}] /\ silenced \subseteq Alert
    BY <1>1, <2>2
  <2> QED BY <2>1, <2>3, <2>4, <2>5 DEF TypeOK
<1>4. WaysInv
  BY <1>1, <1>2 DEF Init, WaysInv
<1>5. RegistryInv /\ NamedInv /\ AnnouncedInv /\ EntitiesMatch
  BY <1>1, NothingRemoved DEF Init, RegistryInv, NamedInv, AnnouncedInv, EntitiesMatch, None
<1> QED BY <1>3, <1>4, <1>5 DEF DeliveryInv, Init

-----------------------------------------------------------------------------
(* The theorems                                                            *)

LEMMA DeliveryNext == ASSUME DeliveryInv, Next PROVE DeliveryInv' /\ StepSound
<1>1. ASSUME NEW fetched \in BOOLEAN, Cycles(fetched) PROVE DeliveryInv' /\ StepSound
  <2>1. PICK live \in SUBSET Alert, ended \in SUBSET bootPending :
          \E changed \in SUBSET live, silent \in SUBSET (tracked \cup bootPending) :
            Cycle(live, changed, ended, silent, fetched)
    BY <1>1 DEF Cycles
  <2>2. PICK changed \in SUBSET live, silent \in SUBSET (tracked \cup bootPending) :
          Cycle(live, changed, ended, silent, fetched)
    BY <2>1
  <2> QED BY <2>2, CycleSound
<1>2. CASE Fetch
  BY <1>1, <1>2 DEF Fetch
<1>3. CASE Rebuild
  BY <1>1, <1>3 DEF Rebuild
<1>4. CASE PlatformUp
  BY <1>4, PlatformUpSound
<1>5. CASE \E a \in Alert : Release(a)
  BY <1>5, ReleaseSound
<1>6. CASE Start
  BY <1>6, StartSound
<1>7. CASE Drain
  BY <1>7, DrainSound
<1>8. CASE \E boot \in BOOLEAN : Restart(boot)
  BY <1>8, RestartSound
<1> QED BY <1>2, <1>3, <1>4, <1>5, <1>6, <1>7, <1>8 DEF Next

\* What an alert is owed is what is held and parked for it, in that order; an
\* event is parked only for a tracked alert, a held removal names a registered
\* entity, and an entity whose alert nothing waits for has had its ending
\* decided (store.py's _deferred and _known_at_boot, coordinator.py's
\* _held_events, sensor.py's tracked).
THEOREM DeliveryInductive == Spec => []DeliveryInv
<1>1. DeliveryInv /\ [Next]_vars => DeliveryInv'
  <2> SUFFICES ASSUME DeliveryInv, [Next]_vars PROVE DeliveryInv'
    OBVIOUS
  <2>1. CASE Next
    BY <2>1, DeliveryNext
  <2>2. CASE UNCHANGED vars
    BY <2>2 DEF vars, store, platform, DeliveryInv, TypeOK, WaysInv, RegistryInv, NamedInv,
       AnnouncedInv, EntitiesMatch, LastHeard
  <2> QED BY <2>1, <2>2
<1> QED BY <1>1, DeliveryInit, PTL DEF Spec

\* TypeOK, for any alerts and bounds.
THEOREM TypeCorrect == Spec => []TypeOK
<1>1. DeliveryInv => TypeOK
  BY DEF DeliveryInv
<1> QED BY <1>1, DeliveryInductive, PTL

\* EntitiesMatch: the platform's entities are the registered ones, every tracked
\* alert has its entity, and another entity stays only for the boot grace or for
\* a held event whose drain will remove it (sensor.py _sync_alert_entities).
THEOREM EntitiesAlwaysMatch == Spec => []EntitiesMatch
<1>1. DeliveryInv => EntitiesMatch
  BY DEF DeliveryInv
<1> QED BY <1>1, DeliveryInductive, PTL

\* DeliveredInOrder: through parking, holding, the drain and a release, each
\* alert's events reach the bus in the order they were decided, none skipped
\* (store.py process and _flush_deferred, coordinator.py _async_fire_event).
THEOREM InOrder == Spec => DeliveredInOrder
<1>1. DeliveryInv /\ Next =>
        \A a \in Alert : bus'[a] = SubSeq(owed[a] \o Only(decided'[a]), 1, Len(bus'[a]))
  BY DeliveryNext DEF StepSound
<1> QED BY <1>1, DeliveryInductive, PTL DEF Spec, DeliveredInOrder

\* RemovalNamesEntity: an ending goes on the bus only while the alert's entity
\* is registered, also when it was held through a start (sensor.py's postponed
\* removals).
THEOREM RemovalsNamed == Spec => RemovalNamesEntity
<1>1. DeliveryInv /\ Next =>
        \A a \in Alert : (\E i \in DOMAIN bus'[a] : bus'[a][i] = "removed") => a \in registered
  BY DeliveryNext DEF StepSound
<1> QED BY <1>1, DeliveryInductive, PTL DEF Spec, RemovalNamesEntity

\* UnregisteredIsAnnounced: an entity that leaves the registry had its alert's
\* ending as the last event on the bus, whatever reloads lost before, or the store
\* let the alert go without an event, superseded or as an ending already told.
THEOREM EndingsAnnounced == Spec => UnregisteredIsAnnounced
<1>1. DeliveryInv /\ Next =>
        \A a \in registered \ registered' : heard'[a] = "removed" \/ a \in silenced'
  BY DeliveryNext DEF StepSound
<1> QED BY <1>1, DeliveryInductive, PTL DEF Spec, UnregisteredIsAnnounced

-----------------------------------------------------------------------------
(* The entry itself: EntryLifecycle, for any entries and configurations    *)

\* An entry that is there has a setup of some state and a configuration.
PresentInv ==
  \A e \in Entry : IF state[e] = "none" THEN config[e] = NoConfig
                   ELSE config[e] \in Configs

\* From the moment the coordinator is built, and not only once it is up, it is
\* what was configured, unless a write found no listener.
BuiltInv ==
  \A e \in Entry :
    state[e] = "setup" /\ <<e, "run">> \notin unheard => run[e] = Wanted(config[e])

LifeInv ==
  /\ LifeTypeOK /\ PresentInv /\ BuiltInv
  /\ RunsConfigured /\ CardsTellConfig

LEMMA ConfigFacts ==
  ASSUME NEW c \in Configs \cup {NoConfig}
  PROVE  /\ c.data = Gone <=> c = NoConfig
         /\ Wanted(c) \in [data : Scope \cup {Gone}, streaming : BOOLEAN, interval : Interval]
<1>1. /\ c.data \in Scope \cup {Gone} /\ c.interval \in Interval /\ c.streaming \in BOOLEAN
      /\ c \in Configs => c.data # Gone
      /\ c = NoConfig => c.data = Gone
  <2>1. CASE c \in Configs
    <3>1. c.data \in Scope /\ c.interval \in Interval /\ c.streaming \in BOOLEAN
      BY <2>1 DEF Configs
    <3>2. NoConfig.data = Gone
      BY DEF NoConfig
    <3> QED BY <3>1, <3>2, ScopeAssumption, IntervalAssumption
  <2>2. CASE c = NoConfig
    <3>1. c.data = Gone /\ c.interval = DefaultInterval /\ c.streaming = TRUE
      BY <2>2 DEF NoConfig
    <3>2. c \notin Configs
      BY <3>1, ScopeAssumption, IntervalAssumption DEF Configs
    <3> QED BY <2>2, <3>1, <3>2, ScopeAssumption, IntervalAssumption
  <2> QED BY <2>1, <2>2
<1>2. Wanted(c).streaming \in BOOLEAN /\ Wanted(c).data = c.data
      /\ Wanted(c).interval \in Interval
  BY <1>1, ScopeAssumption, IntervalAssumption DEF Wanted
<1>3. Wanted(c) = [data |-> Wanted(c).data, streaming |-> Wanted(c).streaming,
                        interval |-> Wanted(c).interval]
  BY DEF Wanted
<1> QED BY <1>1, <1>2, <1>3

\* The cards of an entry after a sync, and of the others.
LEMMA CardsSynced ==
  ASSUME NEW e \in Entry, NEW c
  PROVE  /\ {stem \in Stem : <<e, stem>> \in Synced(e, c)} = Owed(c)
         /\ \A d \in Entry \ {e}, stem \in Stem :
              <<d, stem>> \in Synced(e, c) <=> <<d, stem>> \in cards
         /\ cards \subseteq Entry \X Stem => Synced(e, c) \subseteq Entry \X Stem
BY DEF Synced, Owed

\* A write, with whatever card the flow behind it has fixed.
LEMMA WriteKeeps ==
  ASSUME LifeInv, NEW e \in Entry, NEW c \in Configs, NEW fixed,
         fixed \subseteq {<<e, stem>> : stem \in Stem \ Owed(c)},
         Write(e, c, fixed), fixing' \subseteq fixing
  PROVE  LifeInv'
<1> USE DEF Present, Listens
<1>1. /\ config[e].data # Gone
      /\ config' = [config EXCEPT ![e] = c]
      /\ state' = state
  BY DEF Write
<1>2. LifeTypeOK /\ PresentInv /\ BuiltInv /\ RunsConfigured /\ CardsTellConfig
  BY DEF LifeInv
<1>3. /\ config \in [Entry -> Configs \cup {NoConfig}]
      /\ run \in [Entry -> [data : Scope \cup {Gone}, streaming : BOOLEAN, interval : Interval]]
      /\ state \in [Entry -> State] /\ reload \subseteq Entry
      /\ cards \subseteq Entry \X Stem /\ unheard \subseteq Entry \X {"cards", "run"}
      /\ fixing \subseteq Entry \X Stem
  BY <1>2 DEF LifeTypeOK
<1>4. /\ config' \in [Entry -> Configs \cup {NoConfig}] /\ config'[e] = c
      /\ \A d \in Entry \ {e} : config'[d] = config[d]
      /\ c.data # Gone
  BY <1>1, <1>3, ScopeAssumption, IntervalAssumption DEF Configs
<1>5. PresentInv'
  <2>1. state[e] # "none"
    BY <1>1, <1>2, <1>3, ConfigFacts DEF PresentInv
  <2> QED BY <1>1, <1>2, <1>4, <2>1 DEF PresentInv
<1>6. CASE Listens(e) /\ c # config[e]
  <2>1. /\ cards' = Synced(e, c) \ fixed /\ unheard' = {left \in unheard : left[1] # e}
        /\ Decided(e, c) /\ state[e] \in {"loaded", "unloading"}
    BY <1>6 DEF Write
  <2>9. /\ unheard' \subseteq unheard
        /\ \A d \in Entry \ {e} : /\ <<d, "run">> \in unheard' <=> <<d, "run">> \in unheard
                                /\ <<d, "cards">> \in unheard' <=> <<d, "cards">> \in unheard
    BY <2>1
  <2>2. /\ run' \in [Entry -> [data : Scope \cup {Gone}, streaming : BOOLEAN, interval : Interval]]
        /\ reload' \subseteq Entry /\ reload \subseteq reload'
        /\ \A d \in Entry \ {e} : run'[d] = run[d]
        /\ e \in reload' \/ run'[e] = Wanted(c)
    <3>1. CASE NeedsReload(e, c)
      BY <1>3, <2>1, <3>1 DEF Decided
    <3>2. CASE ~ NeedsReload(e, c)
      <4>1. /\ run' = [run EXCEPT ![e].interval = Wanted(c).interval] /\ reload' = reload
            /\ c.data = run[e].data /\ Wanted(c).streaming = run[e].streaming
        BY <2>1, <3>2 DEF Decided, NeedsReload
      <4>2. /\ Wanted(c) \in [data : Scope \cup {Gone}, streaming : BOOLEAN, interval : Interval]
            /\ Wanted(c).data = c.data
        BY ConfigFacts DEF Wanted
      <4>3. run[e] \in [data : Scope \cup {Gone}, streaming : BOOLEAN, interval : Interval]
        BY <1>3
      <4> DEFINE w == Wanted(c)
      <4> HIDE DEF w
      <4>4. w \in [data : Scope \cup {Gone}, streaming : BOOLEAN, interval : Interval]
            /\ w.data = run[e].data /\ w.streaming = run[e].streaming
            /\ run' = [run EXCEPT ![e].interval = w.interval]
        BY <4>1, <4>2 DEF w
      <4>5. run'[e] = [run[e] EXCEPT !.interval = w.interval]
        BY <1>3, <4>4
      <4>6. run'[e] = w
        BY <4>3, <4>4, <4>5
      <4>7. \A d \in Entry \ {e} : run'[d] = run[d]
        BY <1>3, <4>4
      <4>8. run' \in [Entry -> [data : Scope \cup {Gone}, streaming : BOOLEAN, interval : Interval]]
        <5>1. run' = [run EXCEPT ![e] = w]
          BY <1>3, <4>4, <4>6
        <5> QED BY <1>3, <4>4, <5>1
      <4> QED BY <1>3, <4>1, <4>6, <4>7, <4>8 DEF w
    <3> QED BY <3>1, <3>2
  <2>3. cards' \subseteq Entry \X Stem
    BY <1>3, <2>1, CardsSynced
  <2>4. LifeTypeOK'
    BY <1>1, <1>3, <1>4, <2>1, <2>2, <2>3, <2>9 DEF LifeTypeOK
  <2>5. BuiltInv'
    BY <1>1, <1>2, <1>4, <2>1, <2>2, <2>9 DEF BuiltInv
  <2>6. RunsConfigured'
    BY <1>1, <1>2, <1>4, <2>1, <2>2, <2>9 DEF RunsConfigured
  <2>7. Shown(e)' = Owed(c) /\ \A d \in Entry \ {e} : Shown(d)' = Shown(d)
    BY <2>1, CardsSynced DEF Shown
  <2>8. CardsTellConfig'
    BY <1>1, <1>2, <1>4, <2>1, <2>7, <2>9 DEF CardsTellConfig
  <2> QED BY <1>5, <2>4, <2>5, <2>6, <2>8 DEF LifeInv
<1>7. CASE ~ (Listens(e) /\ c # config[e])
  <2>1. /\ cards' = cards \ fixed
        /\ unheard' = (IF c = config[e] THEN unheard
                       ELSE unheard \cup {<<e, "cards">>, <<e, "run">>})
        /\ run' = run /\ reload' = reload
    BY <1>7 DEF Write
  <2>2. unheard \subseteq unheard' /\ unheard' \subseteq Entry \X {"cards", "run"}
        /\ (c = config[e] \/ (<<e, "cards">> \in unheard' /\ <<e, "run">> \in unheard'))
    BY <1>3, <2>1
  <2>3. LifeTypeOK'
    BY <1>1, <1>3, <1>4, <2>1, <2>2 DEF LifeTypeOK
  <2>4. BuiltInv'
    BY <1>1, <1>2, <1>4, <2>1, <2>2 DEF BuiltInv
  <2>5. RunsConfigured'
    BY <1>1, <1>2, <1>4, <2>1, <2>2 DEF RunsConfigured
  <2>6. /\ Shown(e) = Owed(c) => Shown(e)' = Owed(c)
        /\ \A d \in Entry \ {e} : Shown(d)' = Shown(d)
    BY <2>1 DEF Shown
  <2>7. CardsTellConfig'
    BY <1>1, <1>2, <1>4, <2>1, <2>2, <2>6 DEF CardsTellConfig
  <2> QED BY <1>5, <2>3, <2>4, <2>5, <2>7 DEF LifeInv
<1> QED BY <1>6, <1>7

\* What a step does that moves one entry and leaves its configuration.
LEMMA EntryMoves ==
  ASSUME LifeInv, NEW e \in Entry, config' = config,
         NEW to \in State \ {"none"}, state[e] # "none",
         state' = [state EXCEPT ![e] = to],
         run' \in [Entry -> [data : Scope \cup {Gone}, streaming : BOOLEAN, interval : Interval]],
         \A d \in Entry \ {e} : run'[d] = run[d],
         reload' \subseteq reload, \A d \in reload \ reload' : d = e,
         cards' \subseteq Entry \X Stem,
         \A d \in Entry \ {e}, stem \in Stem : <<d, stem>> \in cards' <=> <<d, stem>> \in cards,
         fixing' \subseteq fixing,
         unheard' \subseteq unheard, \A left \in unheard \ unheard' : left[1] = e,
         to = "setup" /\ <<e, "run">> \notin unheard' => run'[e] = Wanted(config[e]),
         to = "loaded" /\ e \notin reload' /\ <<e, "run">> \notin unheard' =>
           run'[e] = Wanted(config[e]),
         to \in {"starting", "setup", "retry", "loaded", "unloading"} /\ <<e, "cards">> \notin unheard' =>
           Shown(e)' = Owed(config[e]),
         config[e].data # Gone
  PROVE  LifeInv'
<1>1. LifeTypeOK /\ PresentInv /\ BuiltInv /\ RunsConfigured /\ CardsTellConfig
  BY DEF LifeInv
<1>2. /\ config \in [Entry -> Configs \cup {NoConfig}]
      /\ state \in [Entry -> State] /\ reload \subseteq Entry
      /\ unheard \subseteq Entry \X {"cards", "run"} /\ fixing \subseteq Entry \X Stem
  BY <1>1 DEF LifeTypeOK
<1>3. state'[e] = to /\ \A d \in Entry \ {e} : state'[d] = state[d]
  BY <1>2
<1>4. \A d \in Entry \ {e} :
        /\ <<d, "run">> \in unheard' <=> <<d, "run">> \in unheard
        /\ <<d, "cards">> \in unheard' <=> <<d, "cards">> \in unheard
        /\ d \in reload' <=> d \in reload
        /\ Shown(d)' = Shown(d)
  <2> SUFFICES ASSUME NEW d \in Entry \ {e}
               PROVE  /\ <<d, "run">> \in unheard' <=> <<d, "run">> \in unheard
                      /\ <<d, "cards">> \in unheard' <=> <<d, "cards">> \in unheard
                      /\ d \in reload' <=> d \in reload
                      /\ Shown(d)' = Shown(d)
    OBVIOUS
  <2>1. <<d, "run">>[1] # e /\ <<d, "cards">>[1] # e
    OBVIOUS
  <2>2. Shown(d)' = Shown(d)
    BY DEF Shown
  <2> QED BY <2>1, <2>2
<1>5. LifeTypeOK'
  <2>1. state' \in [Entry -> State]
    BY <1>2
  <2>2. reload' \subseteq Entry /\ unheard' \subseteq Entry \X {"cards", "run"} /\ fixing' \subseteq Entry \X Stem
    BY <1>2
  <2> QED BY <1>1, <2>1, <2>2 DEF LifeTypeOK
<1>6. PresentInv'
  BY <1>1, <1>3 DEF PresentInv
<1>7. BuiltInv'
  BY <1>1, <1>3, <1>4 DEF BuiltInv
<1>8. RunsConfigured'
  BY <1>1, <1>3, <1>4 DEF RunsConfigured
<1>9. CardsTellConfig'
  <2>1. ASSUME NEW d \in Entry
        PROVE  IF state'[d] \in {"starting", "setup", "retry", "loaded", "unloading"}
               THEN <<d, "cards">> \notin unheard' => Shown(d)' = Owed(config[d])
               ELSE config[d].data = Gone => Shown(d)' = {}
    BY <1>1, <1>3, <1>4 DEF CardsTellConfig, Present
  <2> QED BY <2>1 DEF CardsTellConfig, Present
<1> QED BY <1>5, <1>6, <1>7, <1>8, <1>9 DEF LifeInv

LEMMA SetupKeeps ==
  ASSUME LifeInv, NEW e \in Entry,
         \/ SetUp(e) \/ Build(e) \/ NotReady(e) \/ ComesUp(e)
         \/ BeginReload(e) \/ Unloaded(e)
  PROVE  LifeInv'
<1>1. LifeTypeOK /\ PresentInv /\ BuiltInv /\ RunsConfigured /\ CardsTellConfig
  BY DEF LifeInv
<1>2. /\ config \in [Entry -> Configs \cup {NoConfig}]
      /\ run \in [Entry -> [data : Scope \cup {Gone}, streaming : BOOLEAN, interval : Interval]]
      /\ state \in [Entry -> State] /\ cards \subseteq Entry \X Stem
  BY <1>1 DEF LifeTypeOK
<1>3. /\ Wanted(config[e]) \in [data : Scope \cup {Gone}, streaming : BOOLEAN, interval : Interval]
      /\ NotRunning \in [data : Scope \cup {Gone}, streaming : BOOLEAN, interval : Interval]
  <2>1. config[e] \in Configs \cup {NoConfig}
    BY <1>2
  <2> QED BY <2>1, ConfigFacts DEF NotRunning
<1>4. state[e] # "none" => config[e].data # Gone
  <2>1. state[e] # "none" => config[e] \in Configs
    BY <1>1 DEF PresentInv
  <2> QED BY <2>1, ScopeAssumption, IntervalAssumption DEF Configs
<1>5. CASE SetUp(e)
  <2>1. /\ state[e] # "none" /\ state' = [state EXCEPT ![e] = "starting"]
        /\ cards' = Synced(e, config[e])
        /\ unheard' = {left \in unheard : left[1] # e}
        /\ config' = config /\ run' = run /\ reload' = reload /\ fixing' = fixing
    BY <1>5 DEF SetUp
  <2>2. /\ Shown(e)' = Owed(config[e]) /\ cards' \subseteq Entry \X Stem
        /\ \A d \in Entry \ {e}, stem \in Stem : <<d, stem>> \in cards' <=> <<d, stem>> \in cards
    BY <1>2, <2>1, CardsSynced DEF Shown
  <2>3. "starting" \in State \ {"none"}
    BY DEF State
  <2> QED BY <1>2, <1>4, <2>1, <2>2, <2>3, EntryMoves
<1>6. CASE Build(e)
  <2>1. /\ state[e] = "starting" /\ state' = [state EXCEPT ![e] = "setup"]
        /\ run' = [run EXCEPT ![e] = Wanted(config[e])]
        /\ unheard' = unheard \ {<<e, "run">>}
        /\ config' = config /\ cards' = cards /\ reload' = reload /\ fixing' = fixing
    BY <1>6 DEF Build
  <2>2. /\ run' \in [Entry -> [data : Scope \cup {Gone}, streaming : BOOLEAN, interval : Interval]]
        /\ run'[e] = Wanted(config[e]) /\ \A d \in Entry \ {e} : run'[d] = run[d]
    BY <1>2, <1>3, <2>1
  <2>3. <<e, "cards">> \notin unheard' => Shown(e)' = Owed(config[e])
    BY <1>1, <2>1 DEF CardsTellConfig, Shown
  <2>4. "setup" \in State \ {"none"}
    BY DEF State
  <2>5. \A left \in unheard \ unheard' : left[1] = e
    BY <2>1
  <2> QED BY <1>2, <1>4, <2>1, <2>2, <2>3, <2>4, <2>5, EntryMoves
<1>7. CASE NotReady(e)
  <2>1. /\ state[e] = "setup" /\ state' = [state EXCEPT ![e] = "retry"]
        /\ run' = [run EXCEPT ![e] = NotRunning]
        /\ config' = config /\ cards' = cards /\ reload' = reload /\ fixing' = fixing
        /\ unheard' = unheard
    BY <1>7 DEF NotReady
  <2>2. /\ run' \in [Entry -> [data : Scope \cup {Gone}, streaming : BOOLEAN, interval : Interval]]
        /\ \A d \in Entry \ {e} : run'[d] = run[d]
    BY <1>2, <1>3, <2>1
  <2>3. <<e, "cards">> \notin unheard' => Shown(e)' = Owed(config[e])
    BY <1>1, <2>1 DEF CardsTellConfig, Shown
  <2>4. "retry" \in State \ {"none"}
    BY DEF State
  <2> QED BY <1>2, <1>4, <2>1, <2>2, <2>3, <2>4, EntryMoves
<1>8. CASE ComesUp(e)
  <2>1. /\ state[e] = "setup" /\ state' = [state EXCEPT ![e] = "loaded"]
        /\ run' = run
        /\ config' = config /\ cards' = cards /\ reload' = reload /\ fixing' = fixing
        /\ unheard' = unheard
    BY <1>8 DEF ComesUp
  <2>2. <<e, "run">> \notin unheard => run[e] = Wanted(config[e])
    BY <1>1, <2>1 DEF BuiltInv
  <2>3. <<e, "cards">> \notin unheard' => Shown(e)' = Owed(config[e])
    BY <1>1, <2>1 DEF CardsTellConfig, Shown
  <2>4. "loaded" \in State \ {"none"}
    BY DEF State
  <2> QED BY <1>2, <1>4, <2>1, <2>2, <2>3, <2>4, EntryMoves
<1>9. CASE BeginReload(e)
  <2>1. /\ state[e] \in {"loaded", "retry"}
        /\ state' = [state EXCEPT ![e] = IF state[e] = "loaded" THEN "unloading" ELSE "waiting"]
        /\ run' = run /\ reload' = reload \ {e}
        /\ config' = config /\ cards' = cards /\ fixing' = fixing /\ unheard' = unheard
    BY <1>9 DEF BeginReload
  <2>2. <<e, "cards">> \notin unheard' => Shown(e)' = Owed(config[e])
    BY <1>1, <2>1 DEF CardsTellConfig, Shown
  <2>3. PICK to \in {"unloading", "waiting"} : to = IF state[e] = "loaded" THEN "unloading" ELSE "waiting"
    OBVIOUS
  <2>4. to \in State \ {"none"} /\ state' = [state EXCEPT ![e] = to]
    BY <2>1, <2>3 DEF State
  <2> QED BY <1>2, <1>4, <2>1, <2>2, <2>3, <2>4, EntryMoves
<1>10. CASE Unloaded(e)
  <2>1. /\ state[e] = "unloading" /\ state' = [state EXCEPT ![e] = "waiting"]
        /\ run' = [run EXCEPT ![e] = NotRunning]
        /\ config' = config /\ cards' = cards /\ reload' = reload /\ fixing' = fixing
        /\ unheard' = unheard
    BY <1>10 DEF Unloaded
  <2>2. /\ run' \in [Entry -> [data : Scope \cup {Gone}, streaming : BOOLEAN, interval : Interval]]
        /\ \A d \in Entry \ {e} : run'[d] = run[d]
    BY <1>2, <1>3, <2>1
  <2>3. "waiting" \in State \ {"none"}
    BY DEF State
  <2> QED BY <1>2, <1>4, <2>1, <2>2, <2>3, EntryMoves
<1> QED BY <1>5, <1>6, <1>7, <1>8, <1>9, <1>10

LEMMA UpdatesKeep ==
  ASSUME LifeInv, NEW e \in Entry,
         \/ \E c \in Configs : SaveOptions(e, c)
         \/ \E data \in Scope : Reconfigure(e, data)
         \/ \E stem \in Stem : SubmitFix(e, stem)
  PROVE  LifeInv'
<1>1. LifeTypeOK
  BY DEF LifeInv
<1>2. CASE \E c \in Configs : SaveOptions(e, c)
  <2>1. PICK c \in Configs : SaveOptions(e, c)
    BY <1>2
  <2>2. Write(e, c, {}) /\ fixing' = fixing
    BY <2>1 DEF SaveOptions
  <2> QED BY <2>2, WriteKeeps
<1>3. ASSUME Present(e) PROVE config[e] \in Configs
  BY <1>1, <1>3 DEF Present, LifeTypeOK, NoConfig
<1>4. CASE \E data \in Scope : Reconfigure(e, data)
  <2>1. PICK data \in Scope : Reconfigure(e, data)
    BY <1>4
  <2>2. /\ Write(e, [config[e] EXCEPT !.data = data], {})
        /\ fixing' = fixing /\ Present(e)
    BY <2>1 DEF Reconfigure, Write
  <2>3. PICK c : c = [config[e] EXCEPT !.data = data]
    OBVIOUS
  <2>4. c \in Configs
    BY <1>3, <2>2, <2>3 DEF Configs
  <2>5. Write(e, c, {})
    BY <2>2, <2>3
  <2> QED BY <2>2, <2>4, <2>5, WriteKeeps
<1>5. CASE \E stem \in Stem : SubmitFix(e, stem)
  <2>1. PICK stem \in Stem : SubmitFix(e, stem)
    BY <1>5
  <2>2. /\ Write(e, Fixed(config[e], stem), {<<e, stem>>})
        /\ fixing' = fixing \ {<<e, stem>>} /\ Present(e)
    BY <2>1 DEF SubmitFix, Write
  <2>3. PICK c : c = Fixed(config[e], stem)
    OBVIOUS
  <2>4. config[e] \in Configs
    BY <1>3, <2>2
  <2>5. c \in Configs
    BY <2>3, <2>4 DEF Configs, Fixed
  <2>6. stem \notin Owed(c)
    <3>1. CASE stem = "streaming_off"
      <4>1. c.streaming
        BY <2>3, <2>4, <3>1 DEF Configs, Fixed
      <4> QED BY <3>1, <4>1 DEF Owed
    <3>2. CASE stem # "streaming_off"
      <4>1. c.pelmorex = FALSE
        BY <2>3, <2>4, <3>2 DEF Configs, Fixed
      <4> QED BY <3>2, <4>1 DEF Owed
    <3> QED BY <3>1, <3>2
  <2>7. PICK fixed : fixed = {<<e, stem>>}
    OBVIOUS
  <2>8. fixed \subseteq {<<e, s>> : s \in Stem \ Owed(c)} /\ Write(e, c, fixed)
    BY <2>1, <2>2, <2>3, <2>6, <2>7
  <2> QED BY <2>2, <2>5, <2>8, WriteKeeps
<1> QED BY <1>2, <1>4, <1>5

LEMMA RestKeep ==
  ASSUME LifeInv,
         \/ \E e \in Entry :
              \/ \E stem \in Stem : OpenFix(e, stem) \/ CloseFix(e, stem)
              \/ \E data \in Scope : Create(e, data)
              \/ Remove(e)
         \/ RestartAll
         \/ UNCHANGED lifeVars
  PROVE  LifeInv'
<1>1. LifeTypeOK /\ PresentInv /\ BuiltInv /\ RunsConfigured /\ CardsTellConfig
  BY DEF LifeInv
<1>2. /\ config \in [Entry -> Configs \cup {NoConfig}]
      /\ run \in [Entry -> [data : Scope \cup {Gone}, streaming : BOOLEAN, interval : Interval]]
      /\ state \in [Entry -> State] /\ cards \subseteq Entry \X Stem
      /\ reload \subseteq Entry /\ fixing \subseteq Entry \X Stem
      /\ unheard \subseteq Entry \X {"cards", "run"}
  BY <1>1 DEF LifeTypeOK
<1>3. /\ NotRunning \in [data : Scope \cup {Gone}, streaming : BOOLEAN, interval : Interval]
      /\ NoConfig.data = Gone
  BY ConfigFacts DEF NotRunning, NoConfig
<1>4. ASSUME UNCHANGED <<config, state, run, reload, cards, unheard>>,
             fixing' \subseteq Entry \X Stem
      PROVE  LifeInv'
  <2>1. config' = config /\ state' = state /\ run' = run /\ reload' = reload /\ cards' = cards
        /\ unheard' = unheard
    BY <1>4
  <2>2. LifeTypeOK'
    BY <1>1, <1>4, <2>1 DEF LifeTypeOK
  <2>3. PresentInv' /\ BuiltInv'
    BY <1>1, <2>1 DEF PresentInv, BuiltInv
  <2>4. RunsConfigured' /\ CardsTellConfig'
    BY <1>1, <2>1 DEF RunsConfigured, CardsTellConfig, Shown, Present
  <2> QED BY <2>2, <2>3, <2>4 DEF LifeInv
<1>5. CASE \E e \in Entry, stem \in Stem : OpenFix(e, stem) \/ CloseFix(e, stem)
  <2>1. PICK e \in Entry, stem \in Stem : OpenFix(e, stem) \/ CloseFix(e, stem)
    BY <1>5
  <2>2. fixing' \subseteq Entry \X Stem
    BY <1>2, <2>1 DEF OpenFix, CloseFix
  <2>3. UNCHANGED <<config, state, run, reload, cards, unheard>>
    BY <2>1 DEF OpenFix, CloseFix
  <2> QED BY <1>4, <2>2, <2>3
<1>6. CASE UNCHANGED lifeVars
  BY <1>2, <1>4, <1>6 DEF lifeVars
<1>7. CASE \E e \in Entry, data \in Scope : Create(e, data)
  <2>1. PICK e \in Entry, data \in Scope : Create(e, data)
    BY <1>7
  <2>2. PICK c : c = [NoConfig EXCEPT !.data = data]
    OBVIOUS
  <2>3. /\ config[e].data = Gone
        /\ config' = [config EXCEPT ![e] = c] /\ state' = [state EXCEPT ![e] = "waiting"]
        /\ run' = run /\ reload' = reload /\ cards' = cards /\ fixing' = fixing /\ unheard' = unheard
    BY <2>1, <2>2 DEF Create, Present
  <2>4. c \in Configs /\ c.data = data /\ data # Gone
    BY <2>2, ScopeAssumption, IntervalAssumption DEF NoConfig, Configs
  <2>5. /\ config'[e] = c /\ state'[e] = "waiting"
        /\ \A d \in Entry \ {e} : config'[d] = config[d] /\ state'[d] = state[d]
        /\ config' \in [Entry -> Configs \cup {NoConfig}]
        /\ state' \in [Entry -> State]
    BY <1>2, <2>3, <2>4 DEF State
  <2>6. LifeTypeOK'
    BY <1>1, <2>3, <2>5 DEF LifeTypeOK
  <2>7. PresentInv' /\ BuiltInv'
    BY <1>1, <2>3, <2>4, <2>5 DEF PresentInv, BuiltInv
  <2>8. RunsConfigured'
    BY <1>1, <2>3, <2>5 DEF RunsConfigured
  <2>9. CardsTellConfig'
    BY <1>1, <2>3, <2>4, <2>5 DEF CardsTellConfig, Shown, Present
  <2> QED BY <2>6, <2>7, <2>8, <2>9 DEF LifeInv
<1>8. CASE \E e \in Entry : Remove(e)
  <2>1. PICK e \in Entry : Remove(e)
    BY <1>8
  <2>2. /\ config' = [config EXCEPT ![e] = NoConfig]
        /\ state' = [state EXCEPT ![e] = "none"]
        /\ run' = [run EXCEPT ![e] = NotRunning]
        /\ reload' = reload \ {e}
        /\ cards' = {card \in cards : card[1] # e}
        /\ fixing' = {fix \in fixing : fix[1] # e}
        /\ unheard' = {left \in unheard : left[1] # e}
    BY <2>1 DEF Remove
  <2>3. /\ config'[e] = NoConfig /\ state'[e] = "none"
        /\ \A d \in Entry \ {e} : /\ config'[d] = config[d] /\ state'[d] = state[d] /\ run'[d] = run[d]
                                  /\ d \in reload' <=> d \in reload
                                  /\ <<d, "run">> \in unheard' <=> <<d, "run">> \in unheard
                                  /\ <<d, "cards">> \in unheard' <=> <<d, "cards">> \in unheard
    BY <1>2, <2>2
  <2>4. /\ config' \in [Entry -> Configs \cup {NoConfig}]
        /\ state' \in [Entry -> State]
        /\ run' \in [Entry -> [data : Scope \cup {Gone}, streaming : BOOLEAN, interval : Interval]]
    BY <1>2, <1>3, <2>2 DEF State
  <2>5. Shown(e)' = {} /\ \A d \in Entry \ {e} : Shown(d)' = Shown(d)
    BY <2>2 DEF Shown
  <2>6. LifeTypeOK'
    BY <1>2, <2>2, <2>4 DEF LifeTypeOK
  <2>7. PresentInv' /\ BuiltInv'
    BY <1>1, <2>3 DEF PresentInv, BuiltInv
  <2>8. RunsConfigured'
    BY <1>1, <2>3 DEF RunsConfigured
  <2>9. CardsTellConfig'
    BY <1>1, <1>3, <2>3, <2>5 DEF CardsTellConfig, Present
  <2> QED BY <2>6, <2>7, <2>8, <2>9 DEF LifeInv
<1>9. CASE RestartAll
  <2>1. /\ state' = [e \in Entry |-> IF config[e].data # Gone THEN "waiting" ELSE "none"]
        /\ run' = [e \in Entry |-> NotRunning]
        /\ reload' = {} /\ cards' = {} /\ fixing' = {} /\ unheard' = {}
        /\ config' = config
    BY <1>9 DEF RestartAll, Present
  <2>2. LifeTypeOK'
    BY <1>2, <1>3, <2>1 DEF LifeTypeOK, State
  <2>3. PresentInv'
    <3>1. \A e \in Entry : config[e].data # Gone => config[e] \in Configs
      BY <1>2, <1>3
    <3>2. \A e \in Entry : config[e].data = Gone => config[e] = NoConfig
      BY <1>2, ScopeAssumption, IntervalAssumption DEF Configs
    <3> QED BY <2>1, <3>1, <3>2 DEF PresentInv
  <2>4. BuiltInv' /\ RunsConfigured'
    BY <2>1 DEF BuiltInv, RunsConfigured
  <2>5. CardsTellConfig'
    BY <2>1 DEF CardsTellConfig, Shown
  <2> QED BY <2>2, <2>3, <2>4, <2>5 DEF LifeInv
<1> QED BY <1>5, <1>6, <1>7, <1>8, <1>9

\* From the moment its coordinator is built an entry runs what it was configured
\* for, or has a reload coming, or was written while nobody listened; its cards
\* follow the configuration from the moment its setup begins (async_setup_entry,
\* _async_entry_updated, async_sync_issues).
THEOREM LifeInductive == LifeSpec => []LifeInv
<1>1. LifeInit => LifeInv
  <2> SUFFICES ASSUME LifeInit PROVE LifeInv
    OBVIOUS
  <2>1. /\ config = [e \in Entry |-> NoConfig] /\ state = [e \in Entry |-> "none"]
        /\ run = [e \in Entry |-> NotRunning]
        /\ reload = {} /\ cards = {} /\ fixing = {} /\ unheard = {}
    BY DEF LifeInit
  <2>2. /\ NotRunning \in [data : Scope \cup {Gone}, streaming : BOOLEAN, interval : Interval]
        /\ "none" \in State
    BY ConfigFacts DEF NotRunning, State
  <2>3. LifeTypeOK
    BY <2>1, <2>2 DEF LifeTypeOK
  <2>4. PresentInv /\ BuiltInv /\ RunsConfigured
    BY <2>1 DEF PresentInv, BuiltInv, RunsConfigured
  <2>5. CardsTellConfig
    BY <2>1 DEF CardsTellConfig, Shown
  <2> QED BY <2>3, <2>4, <2>5 DEF LifeInv
<1>2. LifeInv /\ [LifeNext]_lifeVars => LifeInv'
  BY SetupKeeps, UpdatesKeep, RestKeep DEF LifeNext
<1> QED BY <1>1, <1>2, PTL DEF LifeSpec

\* RunsConfigured: an entry that is up and not about to be reloaded runs what it
\* is configured for, through reconfigures, options, fixes and reloads in any
\* order, unless it was written while its setup had no listener.
THEOREM ConfiguredIsRun == LifeSpec => []RunsConfigured
<1>1. LifeInv => RunsConfigured
  BY DEF LifeInv
<1> QED BY <1>1, LifeInductive, PTL

\* CardsTellConfig: the repair cards on show are those owed by the configuration
\* that setup found or the listener was told of last, and an entry that was deleted
\* leaves none.  Nothing is said of an entry written while nobody listened and not
\* set up or written since.
THEOREM CardsAlwaysTell == LifeSpec => []CardsTellConfig
<1>1. LifeInv => CardsTellConfig
  BY DEF LifeInv
<1> QED BY <1>1, LifeInductive, PTL

-----------------------------------------------------------------------------
(* The flows that write entries: ConfigFlow, for any providers and places  *)

\* Whether a flow may commit a form of its provider, and of its base.
OwnForm(f, form) == form \in FormsOf[flow[f].provider]
BaseForm(f, form) ==
  /\ flow[f].provider \in WithBase
  /\ form \in FiltersOf[flow[f].provider]
  /\ picked[f][flow[f].provider] \in Served

\* A flow past the menus has a provider; at the forms of a base, it has picked
\* one that the provider agreed to; a form it is in is one it was offered.
StandsInv(f) ==
  LET s == flow[f] IN
    /\ s.at \in {"idle", "providers", "menu", "base", "asking", "filter", "form",
                 "checking", "harvesting"}
    /\ s.at \notin {"idle", "providers"} => s.provider \in Provider
    /\ s.at \in {"base", "asking", "filter"} => s.provider \in WithBase
    /\ s.at = "filter" => picked[f][s.provider] \in Served
    /\ s.at \in {"form", "checking", "harvesting"} => OwnForm(f, s.form) \/ BaseForm(f, s.form)
    /\ s.at = "harvesting" => Harvests(s.form)

\* The shape of the state.
EntryShape ==
  /\ entry = [e \in EntryId |-> entry[e]]
  /\ \A e \in EntryId : entry[e] = [data |-> entry[e].data, uid |-> entry[e].uid,
                                  prefixes |-> entry[e].prefixes]
FlowShape ==
  /\ flow = [f \in Flow |-> flow[f]]
  /\ \A f \in Flow : flow[f] = [at |-> flow[f].at, provider |-> flow[f].provider,
                                form |-> flow[f].form, place |-> flow[f].place,
                                edits |-> flow[f].edits]
  /\ picked = [f \in Flow |-> picked[f]]
  /\ \A f \in Flow : picked[f] = [p \in WithBase |-> picked[f][p]]

FlowsInv ==
  /\ EntryShape /\ FlowShape /\ byFlow \subseteq EntryId
  /\ \A f \in Flow : StandsInv(f)
  /\ ScopesApart /\ CommitsServed

\* No provider has a step both with and without a check, and what the filters of
\* a base commit is of no other mode than theirs.
LEMMA FormFacts ==
  ASSUME NEW p \in DOMAIN FormsOf, NEW form \in FormsOf[p]
  PROVE  /\ p \in WithBase => form = Free("country_source") /\ p = "meteoalarm"
         /\ form.step \notin {"geocode", "wide", "region_picker"}
         /\ Checked("wide") \notin FormsOf[p]
         /\ form = Checked(form.step) \/ Checked(form.step) \notin FormsOf[p]
<1> USE DEF FormsOf, WithBase, FiltersOf, Free, Checked, Click
<1>1. CASE p = "nws"
  BY <1>1 DEF NWSForms
<1>2. CASE p = "eccc"
  BY <1>2 DEF ECCCForms
<1>3. CASE p = "bbk"
  BY <1>3 DEF BBKForms
<1>4. CASE p = "gdacs"
  BY <1>4 DEF GDACSForms
<1>5. CASE p = "au"
  BY <1>5 DEF AUForms
<1>6. CASE p = "geosphere"
  BY <1>6 DEF GeoSphereForms
<1>7. CASE p = "twc"
  BY <1>7 DEF TWCForms
<1>8. CASE p = "meteoalarm"
  BY <1>8 DEF MeteoAlarmForms
<1>9. CASE p = "wmo"
  BY <1>9 DEF WMOForms
<1> QED BY <1>1, <1>2, <1>3, <1>4, <1>5, <1>6, <1>7, <1>8, <1>9

LEMMA FilterFacts ==
  ASSUME NEW p \in WithBase, NEW form \in FiltersOf[p]
  PROVE  /\ ~ form.checked
         /\ form.step # "country_source"
         /\ \A step : Checked(step) \notin FormsOf[p]
<1> USE DEF FormsOf, WithBase, FiltersOf, Free, Checked, Click
<1>1. p \in {"meteoalarm", "wmo"}
  OBVIOUS
<1>2. CASE p = "meteoalarm"
  BY <1>2 DEF MeteoAlarmForms, MeteoAlarmFilters
<1>3. CASE p = "wmo"
  BY <1>3 DEF WMOForms, WMOFilters
<1> QED BY <1>1, <1>2, <1>3

\* What a flow writes asks no more than the provider agreed to.
LEMMA WrittenServed ==
  ASSUME NEW f \in Flow, flow[f].provider \in Provider, NEW form, NEW place,
         OwnForm(f, form) \/ BaseForm(f, form), form.checked => place \in Served,
         form.asks \in BOOLEAN
  PROVE  Agreed(Written(f, form, place)) \subseteq Served
<1> DEFINE p == flow[f].provider
           d == Written(f, form, place)
<1>1. p \in DOMAIN FormsOf
  BY EntryAssumption, ProviderAssumption
<1>2. /\ d.provider = p
      /\ d.base = IF p \in WithBase /\ form \in FiltersOf[p] THEN picked[f][p] ELSE NoBase
      /\ form.asks /\ form.step # "geocode" => d.mode = form.step /\ d.place = place
      /\ ~ (form.asks /\ form.step # "geocode") => d.mode = "wide"
  BY DEF Written, Data
<1>3. Agreed(d) =
        CASE d.provider \in WithBase /\ d.mode # "country_source" -> {d.base}
          [] Checked(d.mode) \in FormsOf[d.provider] -> {d.place}
          [] OTHER -> {}
  BY DEF Agreed
<1>4. CASE BaseForm(f, form)
  <2>1. /\ p \in WithBase /\ form \in FiltersOf[p] /\ picked[f][p] \in Served
    BY <1>4 DEF BaseForm
  <2>2. d.base = picked[f][p]
    BY <1>2, <2>1
  <2>3. d.mode # "country_source" /\ Checked(d.mode) \notin FormsOf[p]
    BY <1>2, <2>1, FilterFacts
  <2> HIDE DEF d, p
  <2>4. Agreed(d) = {d.base}
    BY <1>2, <1>3, <2>1, <2>3
  <2> QED BY <2>1, <2>2, <2>4 DEF d
<1>5. CASE OwnForm(f, form)
  <2>1. form \in FormsOf[p]
    BY <1>5 DEF OwnForm
  <2>2. /\ p \in WithBase => form = Free("country_source")
        /\ form.step \notin {"geocode", "wide", "region_picker"}
        /\ Checked("wide") \notin FormsOf[p]
        /\ form = Checked(form.step) \/ Checked(form.step) \notin FormsOf[p]
    BY <1>1, <2>1, FormFacts
  <2>3. p \in WithBase => d.mode = "country_source"
    BY <1>2, <2>2 DEF Free
  <2>4. Checked(d.mode) \in FormsOf[p] => d.place \in Served
    <3>1. ASSUME Checked(d.mode) \in FormsOf[p] PROVE d.place \in Served
      <4>1. d.mode = form.step /\ d.place = place
        BY <1>2, <2>2, <3>1
      <4>2. form.checked
        BY <2>2, <3>1, <4>1 DEF Checked
      <4> QED BY <4>1, <4>2
    <3> QED BY <3>1
  <2>5. ~ (d.provider \in WithBase /\ d.mode # "country_source")
    BY <1>2, <2>3
  <2> HIDE DEF d, p
  <2>6. Agreed(d) \subseteq {d.place} /\ (Agreed(d) = {} \/ Checked(d.mode) \in FormsOf[p])
    BY <1>2, <1>3, <2>5
  <2> QED BY <2>4, <2>6 DEF d
<1> QED BY <1>4, <1>5

\* A commit keeps the scopes apart and writes what was agreed to.
LEMMA Committed ==
  ASSUME FlowsInv, NEW f \in Flow, NEW form, NEW place, Commit(f, form, place),
         Agreed(Written(f, form, place)) \subseteq Served
  PROVE  FlowsInv'
<1> DEFINE d == Written(f, form, place)
           k == Key(d)
<1> USE DEF Existing
<1>1. /\ EntryShape /\ FlowShape /\ byFlow \subseteq EntryId /\ ScopesApart /\ CommitsServed
      /\ \A g \in Flow : StandsInv(g)
  BY DEF FlowsInv
<1>2. FlowShape' /\ \A g \in Flow : StandsInv(g)'
  <2>1. /\ flow' = [flow EXCEPT ![f] = Idle]
        /\ picked' = [picked EXCEPT ![f] = NothingPicked]
    BY DEF Commit, Ends
  <2>2. /\ Idle = [at |-> "idle", provider |-> "none", form |-> NoForm,
                         place |-> Everywhere, edits |-> New]
        /\ NothingPicked = [p \in WithBase |-> NothingPicked[p]]
    BY DEF Idle, At, NothingPicked
  <2>3. /\ flow'[f] = Idle /\ picked'[f] = NothingPicked
        /\ \A g \in Flow \ {f} : flow'[g] = flow[g] /\ picked'[g] = picked[g]
        /\ flow' = [g \in Flow |-> flow'[g]] /\ picked' = [g \in Flow |-> picked'[g]]
    BY <1>1, <2>1 DEF FlowShape
  <2>4. FlowShape'
    BY <1>1, <2>2, <2>3 DEF FlowShape
  <2>5. ASSUME NEW g \in Flow PROVE StandsInv(g)'
    <3>1. CASE g = f
      BY <2>2, <2>3, <3>1 DEF StandsInv
    <3>2. CASE g # f
      BY <1>1, <2>3, <3>2 DEF StandsInv, OwnForm, BaseForm
    <3> QED BY <3>1, <3>2
  <2> QED BY <2>4, <2>5
<1>3. CASE UNCHANGED <<entry, byFlow>>
  <2>1. entry' = entry /\ byFlow' = byFlow
    BY <1>3
  <2>2. EntryShape' /\ byFlow' \subseteq EntryId /\ ScopesApart' /\ CommitsServed'
    BY <1>1, <2>1 DEF EntryShape, ScopesApart, CommitsServed
  <2> QED BY <1>2, <2>2 DEF FlowsInv
<1>4. CASE ~ UNCHANGED <<entry, byFlow>>
  <2> DEFINE edits == flow[f].edits
  <2>1. /\ ~ (edits = New /\ \E e \in Existing : entry[e].uid = k)
        /\ \A e \in Existing \ {edits} : Key(entry[e].data) # k
        /\ \E e \in IF edits = New THEN EntryId \ Existing ELSE {edits} :
             /\ entry' = [entry EXCEPT ![e] =
                  [data |-> d, uid |-> k,
                   prefixes |-> form.step = "geocode" \/ entry[e].prefixes]]
             /\ byFlow' = byFlow \cup {e}
        /\ edits \in {New} \cup Existing
    BY <1>4 DEF Commit, Configured
  <2>2. PICK e \in IF edits = New THEN EntryId \ Existing ELSE {edits} :
             /\ entry' = [entry EXCEPT ![e] =
                  [data |-> d, uid |-> k,
                   prefixes |-> form.step = "geocode" \/ entry[e].prefixes]]
             /\ byFlow' = byFlow \cup {e}
    BY <2>1
  <2>3. e \in EntryId /\ \A c \in Existing \ {e} : Key(entry[c].data) # k
    BY <2>1, <2>2, EntryAssumption, ProviderAssumption
  <2> HIDE DEF d, k, edits
  <2>4. /\ entry'[e].data = d /\ entry'[e].uid = k
        /\ \A c \in EntryId \ {e} : entry'[c] = entry[c]
        /\ EntryShape'
    BY <1>1, <2>2, <2>3 DEF EntryShape
  <2>5. Existing' \ {e} = Existing \ {e}
    BY <2>4
  <2>6. ScopesApart'
    <3>1. ASSUME NEW a \in Existing', NEW b \in Existing', a # b
          PROVE  /\ a \in byFlow' => Key(entry'[a].data) # Key(entry'[b].data)
                 /\ entry'[a].uid \in {NoKey, Key(entry'[a].data)}
                 /\ entry'[a].uid # NoKey => entry'[a].uid # entry'[b].uid
      <4>1. k = Key(d)
        BY DEF k
      <4>2. CASE a = e
        <5>1. b \in Existing \ {e} /\ entry'[b] = entry[b]
          BY <2>4, <2>5, <3>1, <4>2
        <5>2. Key(entry[b].data) # k /\ entry[b].uid \in {NoKey, Key(entry[b].data)}
          BY <1>1, <2>3, <5>1 DEF ScopesApart
        <5> QED BY <2>4, <4>1, <4>2, <5>1, <5>2
      <4>3. CASE b = e
        <5>1. a \in Existing \ {e} /\ entry'[a] = entry[a]
          BY <2>4, <2>5, <3>1, <4>3
        <5>2. Key(entry[a].data) # k /\ entry[a].uid \in {NoKey, Key(entry[a].data)}
          BY <1>1, <2>3, <5>1 DEF ScopesApart
        <5> QED BY <2>4, <4>1, <4>3, <5>1, <5>2
      <4>4. CASE a # e /\ b # e
        <5>1. a \in Existing /\ b \in Existing /\ entry'[a] = entry[a] /\ entry'[b] = entry[b]
              /\ (a \in byFlow' => a \in byFlow)
          BY <2>2, <2>4, <2>5, <4>4
        <5> QED BY <1>1, <3>1, <5>1 DEF ScopesApart
      <4> QED BY <4>2, <4>3, <4>4
    <3>2. ASSUME NEW a \in Existing'
          PROVE  entry'[a].uid \in {NoKey, Key(entry'[a].data)}
      <4>1. CASE a = e
        BY <2>4, <4>1 DEF k
      <4>2. CASE a # e
        BY <1>1, <2>4, <2>5, <4>2 DEF ScopesApart
      <4> QED BY <4>1, <4>2
    <3> QED BY <3>1, <3>2 DEF ScopesApart
  <2>7. CommitsServed'
    <3>1. ASSUME NEW a \in byFlow' PROVE Agreed(entry'[a].data) \subseteq Served
      <4>1. CASE a = e
        BY <2>4, <4>1 DEF d
      <4>2. CASE a # e
        <5>1. a \in byFlow /\ entry'[a] = entry[a]
          BY <1>1, <2>2, <2>4, <4>2
        <5> QED BY <1>1, <5>1 DEF CommitsServed
      <4> QED BY <4>1, <4>2
    <3> QED BY <3>1 DEF CommitsServed
  <2>8. byFlow' \subseteq EntryId
    BY <1>1, <2>2, <2>3
  <2> QED BY <1>2, <2>4, <2>6, <2>7, <2>8 DEF FlowsInv
<1> QED BY <1>3, <1>4

\* A step of one flow that writes no entry.
LEMMA FlowMoves ==
  ASSUME FlowsInv, NEW f \in Flow, UNCHANGED <<entry, byFlow>>,
         flow' = [g \in Flow |-> IF g = f THEN flow'[f] ELSE flow[g]],
         flow'[f] = [at |-> flow'[f].at, provider |-> flow'[f].provider,
                     form |-> flow'[f].form, place |-> flow'[f].place, edits |-> flow'[f].edits],
         picked' = [g \in Flow |-> IF g = f THEN picked'[f] ELSE picked[g]],
         picked'[f] = [p \in WithBase |-> picked'[f][p]],
         StandsInv(f)'
  PROVE  FlowsInv'
<1>1. /\ EntryShape /\ FlowShape /\ byFlow \subseteq EntryId /\ ScopesApart /\ CommitsServed
      /\ \A g \in Flow : StandsInv(g)
  BY DEF FlowsInv
<1>2. entry' = entry /\ byFlow' = byFlow
  OBVIOUS
<1>3. EntryShape' /\ byFlow' \subseteq EntryId /\ ScopesApart' /\ CommitsServed'
  BY <1>1, <1>2 DEF EntryShape, ScopesApart, CommitsServed, Existing
<1>4. \A g \in Flow \ {f} : flow'[g] = flow[g] /\ picked'[g] = picked[g]
  OBVIOUS
<1>5. FlowShape'
  BY <1>1, <1>4 DEF FlowShape
<1>6. ASSUME NEW g \in Flow PROVE StandsInv(g)'
  <2>1. CASE g # f
    BY <1>1, <1>4, <2>1 DEF StandsInv, OwnForm, BaseForm
  <2> QED BY <2>1
<1> QED BY <1>3, <1>5, <1>6 DEF FlowsInv

\* The steps of a flow through menus and forms.
LEMMA WalkKeeps ==
  ASSUME FlowsInv, NEW f \in Flow,
         \/ \E edits \in EntryId \cup {New} : Begin(f, edits)
         \/ Close(f)
         \/ \E p \in Provider : ChooseProvider(f, p)
         \/ Back(f)
         \/ ChooseBase(f)
         \/ \E base \in Base : SubmitBase(f, base)
         \/ \E answered \in BOOLEAN : BaseAnswered(f, answered)
         \/ NoRegions(f)
  PROVE  FlowsInv'
<1>1. FlowShape /\ StandsInv(f) /\ \A g \in Flow : StandsInv(g)
  BY DEF FlowsInv
<1>2. /\ flow = [g \in Flow |-> flow[g]] /\ picked = [g \in Flow |-> picked[g]]
      /\ flow[f] = [at |-> flow[f].at, provider |-> flow[f].provider, form |-> flow[f].form,
                    place |-> flow[f].place, edits |-> flow[f].edits]
      /\ picked[f] = [p \in WithBase |-> picked[f][p]]
  BY <1>1 DEF FlowShape
<1>3. /\ Idle = [at |-> "idle", provider |-> "none", form |-> NoForm,
                       place |-> Everywhere, edits |-> New]
      /\ \A at : At(at) = [at |-> at, provider |-> "none", form |-> NoForm,
                                 place |-> Everywhere, edits |-> New]
      /\ NothingPicked = [p \in WithBase |-> NothingPicked[p]]
      /\ {"meteoalarm", "wmo"} = WithBase
  BY DEF Idle, At, NothingPicked, WithBase, FiltersOf
<1>4. ASSUME UNCHANGED <<entry, byFlow>>, Ends(f)
      PROVE  FlowsInv'
  <2>1. /\ flow' = [flow EXCEPT ![f] = Idle]
        /\ picked' = [picked EXCEPT ![f] = NothingPicked]
    BY <1>4 DEF Ends
  <2>2. /\ flow'[f] = Idle /\ picked'[f] = NothingPicked
        /\ flow' = [g \in Flow |-> IF g = f THEN flow'[f] ELSE flow[g]]
        /\ picked' = [g \in Flow |-> IF g = f THEN picked'[f] ELSE picked[g]]
    BY <1>2, <2>1
  <2>3. StandsInv(f)'
    BY <1>3, <2>2 DEF StandsInv
  <2> QED BY <1>3, <1>4, <2>2, <2>3, FlowMoves
\* The flow becomes s, with what it has picked unchanged.
<1>5. ASSUME NEW s, UNCHANGED <<entry, byFlow, picked>>, flow' = [flow EXCEPT ![f] = s],
             s = [at |-> s.at, provider |-> s.provider, form |-> s.form, place |-> s.place,
                  edits |-> s.edits],
             s.at \in {"providers", "menu", "base", "asking"},
             s.at # "providers" => s.provider \in Provider,
             s.at \in {"base", "asking"} => s.provider \in WithBase
      PROVE  FlowsInv'
  <2>1. /\ flow'[f] = s /\ picked' = picked
        /\ flow' = [g \in Flow |-> IF g = f THEN flow'[f] ELSE flow[g]]
    BY <1>2, <1>5
  <2>2. StandsInv(f)'
    BY <1>5, <2>1 DEF StandsInv
  <2>3. picked' = [g \in Flow |-> IF g = f THEN picked'[f] ELSE picked[g]]
    BY <1>2, <2>1
  <2>4. picked'[f] = [p \in WithBase |-> picked'[f][p]]
    BY <1>2, <2>1
  <2>5. flow'[f] = [at |-> flow'[f].at, provider |-> flow'[f].provider, form |-> flow'[f].form,
                    place |-> flow'[f].place, edits |-> flow'[f].edits]
    BY <1>5, <2>1
  <2> QED BY <1>5, <2>1, <2>2, <2>3, <2>4, <2>5, FlowMoves
<1>6. CASE \E edits \in EntryId \cup {New} : Begin(f, edits)
  <2>1. PICK edits \in EntryId \cup {New} : Begin(f, edits)
    BY <1>6
  <2>2. PICK s : s = [At("providers") EXCEPT !.edits = edits]
    OBVIOUS
  <2>3. s = [at |-> "providers", provider |-> "none", form |-> NoForm,
             place |-> Everywhere, edits |-> edits]
    BY <1>3, <2>2
  <2>4. flow' = [flow EXCEPT ![f] = s] /\ UNCHANGED <<entry, byFlow, picked>>
    BY <2>1, <2>2 DEF Begin
  <2> QED BY <1>5, <2>3, <2>4
<1>7. CASE Close(f) \/ NoRegions(f)
  BY <1>4, <1>7 DEF Close, NoRegions
<1>8. CASE \E p \in Provider : ChooseProvider(f, p)
  <2>1. PICK p \in Provider : ChooseProvider(f, p)
    BY <1>8
  <2>2. PICK s : s = [flow[f] EXCEPT !.provider = p, !.at = IF p = "wmo" THEN "base" ELSE "menu"]
    OBVIOUS
  <2>3. /\ s = [at |-> IF p = "wmo" THEN "base" ELSE "menu", provider |-> p, form |-> flow[f].form,
                place |-> flow[f].place, edits |-> flow[f].edits]
    BY <1>2, <2>2
  <2>4. /\ flow' = [flow EXCEPT ![f].provider = p, ![f].at = IF p = "wmo" THEN "base" ELSE "menu"]
        /\ UNCHANGED <<entry, byFlow, picked>>
    BY <2>1 DEF ChooseProvider
  <2>5. flow' = [flow EXCEPT ![f] = s]
    BY <1>2, <2>2, <2>4
  <2> QED BY <1>3, <1>5, <2>3, <2>4, <2>5
<1>9. ASSUME NEW at, Goes(f, at), at \in {"providers", "menu", "base"},
             at # "providers" => flow[f].provider \in Provider,
             at = "base" => flow[f].provider \in WithBase,
             UNCHANGED <<entry, byFlow, picked>>
      PROVE  FlowsInv'
  <2>1. PICK s : s = [flow[f] EXCEPT !.at = at]
    OBVIOUS
  <2>2. s = [at |-> at, provider |-> flow[f].provider, form |-> flow[f].form,
             place |-> flow[f].place, edits |-> flow[f].edits]
    BY <1>2, <2>1
  <2>3. flow' = [flow EXCEPT ![f] = s]
    BY <1>2, <1>9, <2>1 DEF Goes
  <2> QED BY <1>5, <1>9, <2>2, <2>3
<1>10. CASE Back(f)
  <2>1. /\ UNCHANGED <<entry, byFlow, picked>>
        /\ \/ flow[f].at = "menu" /\ Goes(f, "providers")
           \/ flow[f].at = "filter" /\ Goes(f, IF flow[f].provider = "wmo" THEN "base" ELSE "menu")
    BY <1>10 DEF Back
  <2>2. CASE flow[f].at = "menu" /\ Goes(f, "providers")
    BY <1>9, <2>1, <2>2
  <2>3. CASE flow[f].at = "filter" /\ Goes(f, IF flow[f].provider = "wmo" THEN "base" ELSE "menu")
    <3>1. flow[f].provider \in Provider /\ flow[f].provider \in WithBase
      BY <1>1, <2>3 DEF StandsInv
    <3>2. CASE flow[f].provider = "wmo"
      BY <1>9, <2>1, <2>3, <3>1, <3>2
    <3>3. CASE flow[f].provider # "wmo"
      BY <1>9, <2>1, <2>3, <3>1, <3>3
    <3> QED BY <3>2, <3>3
  <2> QED BY <2>1, <2>2, <2>3
<1>11. CASE ChooseBase(f)
  <2>1. /\ flow[f].at = "menu" /\ flow[f].provider = "meteoalarm" /\ Goes(f, "base")
        /\ UNCHANGED <<entry, byFlow, picked>>
    BY <1>11 DEF ChooseBase
  <2>2. flow[f].provider \in Provider
    BY <1>1, <2>1 DEF StandsInv
  <2> QED BY <1>3, <1>9, <2>1, <2>2
<1>12. CASE \E base \in Base : SubmitBase(f, base)
  <2>1. PICK base \in Base : SubmitBase(f, base)
    BY <1>12
  <2>2. PICK s : s = [flow[f] EXCEPT !.at = "asking", !.place = base]
    OBVIOUS
  <2>3. s = [at |-> "asking", provider |-> flow[f].provider, form |-> flow[f].form,
             place |-> base, edits |-> flow[f].edits]
    BY <1>2, <2>2
  <2>4. /\ flow[f].at = "base" /\ flow' = [flow EXCEPT ![f].at = "asking", ![f].place = base]
        /\ UNCHANGED <<entry, byFlow, picked>>
    BY <2>1 DEF SubmitBase
  <2>5. flow' = [flow EXCEPT ![f] = s]
    BY <1>2, <2>2, <2>4
  <2>6. flow[f].provider \in Provider /\ flow[f].provider \in WithBase
    BY <1>1, <2>4 DEF StandsInv
  <2> QED BY <1>5, <2>3, <2>4, <2>5, <2>6
<1>13. CASE \E answered \in BOOLEAN : BaseAnswered(f, answered)
  <2>1. PICK answered \in BOOLEAN : BaseAnswered(f, answered)
    BY <1>13
  <2>2. flow[f].at = "asking" /\ UNCHANGED <<entry, byFlow>>
    BY <2>1 DEF BaseAnswered
  <2>3. flow[f].provider \in Provider /\ flow[f].provider \in WithBase
    BY <1>1, <2>2 DEF StandsInv
  <2>4. CASE Agrees({flow[f].place}, answered)
    <3>1. /\ picked' = [picked EXCEPT ![f][flow[f].provider] = flow[f].place]
          /\ flow' = [flow EXCEPT ![f].at = "filter", ![f].place = Everywhere]
          /\ flow[f].place \in Served
      BY <2>1, <2>4 DEF BaseAnswered, Agrees
    <3>2. /\ flow'[f] = [at |-> "filter", provider |-> flow[f].provider, form |-> flow[f].form,
                         place |-> Everywhere, edits |-> flow[f].edits]
          /\ flow' = [g \in Flow |-> IF g = f THEN flow'[f] ELSE flow[g]]
      BY <1>2, <3>1
    <3>3. /\ picked' = [g \in Flow |-> IF g = f THEN picked'[f] ELSE picked[g]]
          /\ picked'[f] = [picked[f] EXCEPT ![flow[f].provider] = flow[f].place]
      BY <1>2, <3>1
    <3>4. /\ picked'[f] = [p \in WithBase |-> picked'[f][p]]
          /\ picked'[f][flow[f].provider] = flow[f].place
      BY <1>2, <2>3, <3>3
    <3>5. StandsInv(f)'
      BY <2>3, <3>1, <3>2, <3>4 DEF StandsInv
    <3> QED BY <2>2, <3>2, <3>3, <3>4, <3>5, FlowMoves
  <2>5. CASE ~ Agrees({flow[f].place}, answered)
    <3>1. /\ flow' = [flow EXCEPT ![f].at = "base", ![f].place = Everywhere]
          /\ picked' = picked
      BY <2>1, <2>5 DEF BaseAnswered
    <3>2. PICK s : s = [flow[f] EXCEPT !.at = "base", !.place = Everywhere]
      OBVIOUS
    <3>3. s = [at |-> "base", provider |-> flow[f].provider, form |-> flow[f].form,
               place |-> Everywhere, edits |-> flow[f].edits]
      BY <1>2, <3>2
    <3>4. flow' = [flow EXCEPT ![f] = s]
      BY <1>2, <3>1, <3>2
    <3> QED BY <1>5, <2>2, <2>3, <3>1, <3>3, <3>4
  <2> QED BY <2>4, <2>5
<1> QED BY <1>6, <1>7, <1>8, <1>10, <1>11, <1>12, <1>13

\* What can be offered: a form of one of three kinds, and what harvests is free.
LEMMA OfferedKinds ==
  ASSUME NEW p \in Provider, NEW form,
         form \in FormsOf[p] \/ (p \in WithBase /\ form \in FiltersOf[p])
  PROVE  /\ form \in {Click(form.step), Free(form.step), Checked(form.step)}
         /\ form.step = "region_picker" => form = Free("region_picker")
<1> USE DEF FormsOf, WithBase, FiltersOf, Free, Checked, Click
<1>1. CASE p \in WithBase /\ form \in FiltersOf[p]
  <2>1. CASE p = "meteoalarm"
    BY <1>1, <2>1 DEF MeteoAlarmFilters
  <2>2. CASE p = "wmo"
    BY <1>1, <2>2 DEF WMOFilters
  <2>3. p \in {"meteoalarm", "wmo"}
    BY <1>1
  <2> QED BY <2>1, <2>2, <2>3
<1>2. CASE form \in FormsOf[p]
  <2>1. p \in {"nws", "eccc", "meteoalarm", "wmo", "gdacs", "bbk", "au", "geosphere", "twc"}
    BY EntryAssumption, ProviderAssumption
  <2>2. CASE p = "nws"
    BY <1>2, <2>2 DEF NWSForms
  <2>3. CASE p = "bbk"
    BY <1>2, <2>3 DEF BBKForms
  <2>4. CASE p = "geosphere"
    BY <1>2, <2>4 DEF GeoSphereForms
  <2>5. CASE p = "gdacs"
    BY <1>2, <2>5 DEF GDACSForms
  <2>6. CASE p = "eccc"
    BY <1>2, <2>6 DEF ECCCForms
  <2>7. CASE p = "meteoalarm"
    BY <1>2, <2>7 DEF MeteoAlarmForms
  <2>8. CASE p = "wmo"
    BY <1>2, <2>8 DEF WMOForms
  <2>9. CASE p = "au"
    BY <1>2, <2>9 DEF AUForms
  <2>10. CASE p = "twc"
    BY <1>2, <2>10 DEF TWCForms
  <2> QED BY <2>1, <2>2, <2>3, <2>4, <2>5, <2>6, <2>7, <2>8, <2>9, <2>10
<1> QED BY <1>1, <1>2

\* A form that asks for nothing is not checked, nor is one that harvests.
LEMMA OfferedForms ==
  ASSUME NEW f \in Flow, NEW form,
         OwnForm(f, form) \/ BaseForm(f, form), flow[f].provider \in Provider
  PROVE  /\ form.asks \in BOOLEAN
         /\ form.checked => form.asks
         /\ Harvests(form) => ~ form.checked
<1>1. /\ form \in {Click(form.step), Free(form.step), Checked(form.step)}
      /\ form.step = "region_picker" => form = Free("region_picker")
  BY OfferedKinds DEF OwnForm, BaseForm
<1>2. /\ (form.asks = FALSE /\ form.checked = FALSE) \/ form.asks = TRUE
      /\ Harvests(form) => form.checked = FALSE
  BY <1>1 DEF Free, Checked, Click, Harvests
<1> QED BY <1>2

\* The steps of a flow that may write an entry.
LEMMA FormsKeep ==
  ASSUME FlowsInv, NEW f \in Flow,
         \/ \E form \in Offered(f) : ChooseForm(f, form)
         \/ \E place \in Place : Submit(f, place)
         \/ \E answered \in BOOLEAN : PlaceAnswered(f, answered)
         \/ \E answered \in BOOLEAN : RegionsAnswered(f, answered)
  PROVE  FlowsInv'
<1>1. FlowShape /\ StandsInv(f)
  BY DEF FlowsInv
<1>2. /\ flow = [g \in Flow |-> flow[g]] /\ picked = [g \in Flow |-> picked[g]]
      /\ flow[f] = [at |-> flow[f].at, provider |-> flow[f].provider, form |-> flow[f].form,
                    place |-> flow[f].place, edits |-> flow[f].edits]
      /\ picked[f] = [p \in WithBase |-> picked[f][p]]
  BY <1>1 DEF FlowShape
\* The flow becomes s, in a form it was offered.
<1>3. ASSUME NEW s, UNCHANGED <<entry, byFlow, picked>>, flow' = [flow EXCEPT ![f] = s],
             s = [at |-> s.at, provider |-> flow[f].provider, form |-> s.form, place |-> s.place,
                  edits |-> s.edits],
             flow[f].provider \in Provider,
             s.at \in {"form", "checking", "harvesting"},
             s.at = "harvesting" => Harvests(s.form),
             OwnForm(f, s.form) \/ BaseForm(f, s.form)
      PROVE  FlowsInv'
  <2>1. /\ flow'[f] = s /\ picked' = picked
        /\ flow' = [g \in Flow |-> IF g = f THEN flow'[f] ELSE flow[g]]
    BY <1>2, <1>3
  <2>2. s.provider = flow[f].provider
    BY <1>3
  <2>3. StandsInv(f)'
    BY <1>3, <2>1, <2>2 DEF StandsInv, OwnForm, BaseForm
  <2>4. picked' = [g \in Flow |-> IF g = f THEN picked'[f] ELSE picked[g]]
    BY <1>2, <2>1
  <2>5. picked'[f] = [p \in WithBase |-> picked'[f][p]]
    BY <1>2, <2>1
  <2>6. flow'[f] = [at |-> flow'[f].at, provider |-> flow'[f].provider, form |-> flow'[f].form,
                    place |-> flow'[f].place, edits |-> flow'[f].edits]
    BY <1>3, <2>1, <2>2
  <2> QED BY <1>3, <2>1, <2>3, <2>4, <2>5, <2>6, FlowMoves
\* The flow commits a form it was offered.
<1>4. ASSUME NEW form, NEW place, Commit(f, form, place), flow[f].provider \in Provider,
             OwnForm(f, form) \/ BaseForm(f, form), form.checked => place \in Served
      PROVE  FlowsInv'
  <2>1. form.asks \in BOOLEAN
    BY <1>4, OfferedForms
  <2>2. Agreed(Written(f, form, place)) \subseteq Served
    BY <1>4, <2>1, WrittenServed
  <2> QED BY <1>4, <2>2, Committed
<1>5. CASE \E form \in Offered(f) : ChooseForm(f, form)
  <2>1. PICK form \in Offered(f) : ChooseForm(f, form)
    BY <1>5
  <2>2. /\ flow[f].provider \in Provider
        /\ OwnForm(f, form) \/ BaseForm(f, form)
    <3>1. CASE flow[f].at = "menu"
      <4>1. form \in FormsOf[flow[f].provider]
        BY <2>1, <3>1 DEF Offered
      <4> QED BY <1>1, <3>1, <4>1 DEF StandsInv, OwnForm
    <3>2. CASE flow[f].at = "filter"
      <4>1. form \in FiltersOf[flow[f].provider]
        BY <2>1, <3>2 DEF Offered
      <4> QED BY <1>1, <3>2, <4>1 DEF StandsInv, BaseForm
    <3>3. CASE flow[f].at # "menu" /\ flow[f].at # "filter"
      <4>1. Offered(f) = {}
        BY <3>3 DEF Offered
      <4> QED BY <2>1, <4>1
    <3> QED BY <3>1, <3>2, <3>3
  <2>3. CASE form.asks
    <3>1. /\ flow' = [flow EXCEPT ![f].form = form,
                        ![f].at = IF Harvests(form) THEN "harvesting" ELSE "form"]
          /\ UNCHANGED <<entry, byFlow, picked>>
      BY <2>1, <2>3 DEF ChooseForm
    <3>2. PICK s : s = [flow[f] EXCEPT !.form = form,
                          !.at = IF Harvests(form) THEN "harvesting" ELSE "form"]
      OBVIOUS
    <3>3. s = [at |-> IF Harvests(form) THEN "harvesting" ELSE "form",
               provider |-> flow[f].provider, form |-> form,
               place |-> flow[f].place, edits |-> flow[f].edits]
      BY <1>2, <3>2
    <3>4. flow' = [flow EXCEPT ![f] = s]
      BY <1>2, <3>1, <3>2
    <3>5. /\ s.form = form /\ s.at \in {"form", "checking", "harvesting"}
          /\ s.at = "harvesting" => Harvests(s.form)
      BY <3>3
    <3>6. s = [at |-> s.at, provider |-> flow[f].provider, form |-> s.form, place |-> s.place,
               edits |-> s.edits]
      BY <3>3
    <3> QED BY <1>3, <2>2, <3>1, <3>4, <3>5, <3>6
  <2>4. CASE ~ form.asks
    <3>1. Commit(f, form, Everywhere)
      BY <2>1, <2>4 DEF ChooseForm
    <3>2. ~ form.checked
      BY <2>2, <2>4, OfferedForms
    <3> QED BY <1>4, <2>2, <3>1, <3>2
  <2> QED BY <2>3, <2>4
<1>6. ASSUME flow[f].at \in {"form", "checking", "harvesting"}
      PROVE  /\ flow[f].provider \in Provider
             /\ OwnForm(f, flow[f].form) \/ BaseForm(f, flow[f].form)
             /\ flow[f].at = "harvesting" => Harvests(flow[f].form)
  BY <1>1, <1>6 DEF StandsInv
<1>7. CASE \E place \in Place : Submit(f, place)
  <2>1. PICK place \in Place : Submit(f, place)
    BY <1>7
  <2>2. PICK form : form = flow[f].form
    OBVIOUS
  <2>3. flow[f].at = "form"
    BY <2>1 DEF Submit
  <2>4. CASE form.checked \/ Harvests(form)
    <3>1. /\ flow' = [flow EXCEPT ![f].place = place,
                        ![f].at = IF form.checked THEN "checking" ELSE "harvesting"]
          /\ UNCHANGED <<entry, byFlow, picked>>
      BY <2>1, <2>2, <2>4 DEF Submit
    <3>2. PICK s : s = [flow[f] EXCEPT !.place = place,
                          !.at = IF form.checked THEN "checking" ELSE "harvesting"]
      OBVIOUS
    <3>3. s = [at |-> IF form.checked THEN "checking" ELSE "harvesting",
               provider |-> flow[f].provider, form |-> form,
               place |-> place, edits |-> flow[f].edits]
      BY <1>2, <2>2, <3>2
    <3>4. flow' = [flow EXCEPT ![f] = s]
      BY <1>2, <3>1, <3>2
    <3>5. /\ s.form = form /\ s.at \in {"form", "checking", "harvesting"}
          /\ s.at = "harvesting" => Harvests(s.form)
      BY <2>4, <3>3
    <3>6. s = [at |-> s.at, provider |-> flow[f].provider, form |-> s.form, place |-> s.place,
               edits |-> s.edits]
      BY <3>3
    <3>7. flow[f].provider \in Provider /\ (OwnForm(f, s.form) \/ BaseForm(f, s.form))
      BY <1>6, <2>2, <2>3, <3>5
    <3> QED BY <1>3, <3>1, <3>4, <3>5, <3>6, <3>7
  <2>5. CASE ~ (form.checked \/ Harvests(form))
    <3>1. Commit(f, form, place)
      BY <2>1, <2>2, <2>5 DEF Submit
    <3> QED BY <1>4, <1>6, <2>2, <2>3, <2>5, <3>1
  <2> QED BY <2>4, <2>5
<1>8. ASSUME ShowsForm(f), flow[f].at \in {"checking", "harvesting"}
      PROVE  FlowsInv'
  <2>1. /\ flow' = [flow EXCEPT ![f].at = "form", ![f].place = Everywhere]
        /\ UNCHANGED <<entry, byFlow, picked>>
    BY <1>8 DEF ShowsForm
  <2>2. PICK s : s = [flow[f] EXCEPT !.at = "form", !.place = Everywhere]
    OBVIOUS
  <2>3. s = [at |-> "form", provider |-> flow[f].provider, form |-> flow[f].form,
             place |-> Everywhere, edits |-> flow[f].edits]
    BY <1>2, <2>2
  <2>4. flow' = [flow EXCEPT ![f] = s]
    BY <1>2, <2>1, <2>2
  <2>5. s = [at |-> s.at, provider |-> flow[f].provider, form |-> s.form, place |-> s.place,
             edits |-> s.edits]
    BY <2>3
  <2>6. /\ flow[f].provider \in Provider /\ (OwnForm(f, s.form) \/ BaseForm(f, s.form))
        /\ s.at = "form"
    BY <1>6, <1>8, <2>3
  <2> QED BY <1>3, <2>1, <2>4, <2>5, <2>6
<1>9. CASE \E answered \in BOOLEAN : PlaceAnswered(f, answered)
  <2>1. PICK answered \in BOOLEAN : PlaceAnswered(f, answered)
    BY <1>9
  <2>2. flow[f].at = "checking"
    BY <2>1 DEF PlaceAnswered
  <2>3. CASE Agrees({flow[f].place}, answered)
    <3>1. Commit(f, flow[f].form, flow[f].place)
      BY <2>1, <2>3 DEF PlaceAnswered
    <3>2. flow[f].place \in Served
      BY <2>3 DEF Agrees
    <3> QED BY <1>4, <1>6, <2>2, <3>1, <3>2
  <2>4. CASE ~ Agrees({flow[f].place}, answered)
    <3>1. ShowsForm(f)
      BY <2>1, <2>4 DEF PlaceAnswered
    <3> QED BY <1>8, <2>2, <3>1
  <2> QED BY <2>3, <2>4
<1>10. CASE \E answered \in BOOLEAN : RegionsAnswered(f, answered)
  <2>1. PICK answered \in BOOLEAN : RegionsAnswered(f, answered)
    BY <1>10
  <2>2. flow[f].at = "harvesting"
    BY <2>1 DEF RegionsAnswered
  <2>3. CASE answered /\ flow[f].place # Everywhere
    <3>1. Commit(f, flow[f].form, flow[f].place)
      BY <2>1, <2>3 DEF RegionsAnswered
    <3>2. ~ flow[f].form.checked
      BY <1>6, <2>2, OfferedForms
    <3> QED BY <1>4, <1>6, <2>2, <3>1, <3>2
  <2>4. CASE ~ (answered /\ flow[f].place # Everywhere)
    <3>1. ShowsForm(f)
      BY <2>1, <2>4 DEF RegionsAnswered
    <3> QED BY <1>8, <2>2, <3>1
  <2> QED BY <2>3, <2>4
<1> QED BY <1>5, <1>7, <1>9, <1>10

\* What the entries do: setup, deletion.
LEMMA EntriesKeep ==
  ASSUME FlowsInv, NEW e \in EntryId, Setup(e) \/ Delete(e)
  PROVE  FlowsInv'
<1> USE DEF Existing
<1>1. /\ EntryShape /\ FlowShape /\ byFlow \subseteq EntryId /\ ScopesApart /\ CommitsServed
      /\ \A g \in Flow : StandsInv(g)
  BY DEF FlowsInv
<1>2. flow' = flow /\ picked' = picked
  BY DEF Setup, Delete
<1>3. FlowShape' /\ \A g \in Flow : StandsInv(g)'
  BY <1>1, <1>2 DEF FlowShape, StandsInv, OwnForm, BaseForm
<1>4. CASE Setup(e)
  <2>1. /\ e \in Existing
        /\ \A d \in Existing : entry[d].uid # Key(entry[e].data)
        /\ entry' = [entry EXCEPT ![e].uid = Key(entry[e].data)]
        /\ byFlow' = byFlow
    BY <1>4 DEF Setup
  <2>2. /\ entry'[e] = [entry[e] EXCEPT !.uid = Key(entry[e].data)]
        /\ \A d \in EntryId \ {e} : entry'[d] = entry[d]
        /\ entry' = [d \in EntryId |-> entry'[d]]
    BY <1>1, <2>1 DEF EntryShape
  <2>3. entry'[e] = [data |-> entry[e].data, uid |-> Key(entry[e].data), prefixes |-> entry[e].prefixes]
    BY <1>1, <2>2 DEF EntryShape
  <2>4. EntryShape' /\ \A d \in EntryId : entry'[d].data = entry[d].data
    BY <1>1, <2>2, <2>3 DEF EntryShape
  <2>5. Existing' = Existing
    BY <2>4
  <2>6. ScopesApart'
    <3>1. ASSUME NEW a \in Existing, NEW b \in Existing
          PROVE  /\ a # b /\ a \in byFlow => Key(entry'[a].data) # Key(entry'[b].data)
                 /\ entry'[a].uid \in {NoKey, Key(entry'[a].data)}
                 /\ a # b /\ entry'[a].uid # NoKey => entry'[a].uid # entry'[b].uid
      <4>1. a # b /\ a \in byFlow => Key(entry'[a].data) # Key(entry'[b].data)
        BY <1>1, <2>4, <3>1 DEF ScopesApart
      <4>2. entry'[a].uid \in {NoKey, Key(entry'[a].data)}
        BY <1>1, <2>2, <2>3, <3>1 DEF ScopesApart
      <4>3. a # b /\ entry'[a].uid # NoKey => entry'[a].uid # entry'[b].uid
        BY <1>1, <2>1, <2>2, <2>3, <3>1 DEF ScopesApart
      <4> QED BY <4>1, <4>2, <4>3
    <3> QED BY <2>1, <2>5, <3>1 DEF ScopesApart
  <2>7. CommitsServed'
    BY <1>1, <2>1, <2>4 DEF CommitsServed
  <2> QED BY <1>1, <1>3, <2>1, <2>4, <2>6, <2>7 DEF FlowsInv
<1>5. CASE Delete(e)
  <2>1. /\ entry' = [entry EXCEPT ![e] = Absent] /\ byFlow' = byFlow \ {e}
    BY <1>5 DEF Delete
  <2>2. /\ entry'[e] = Absent /\ \A d \in EntryId \ {e} : entry'[d] = entry[d]
        /\ entry' = [d \in EntryId |-> entry'[d]]
    BY <1>1, <2>1 DEF EntryShape
  <2>3. EntryShape'
    BY <1>1, <2>2 DEF EntryShape, Absent
  <2>4. Existing' = Existing \ {e}
    BY <2>2 DEF Absent
  <2>5. ScopesApart'
    BY <1>1, <2>1, <2>2, <2>4 DEF ScopesApart
  <2>6. CommitsServed' /\ byFlow' \subseteq EntryId
    BY <1>1, <2>1, <2>2 DEF CommitsServed
  <2> QED BY <1>3, <2>3, <2>5, <2>6 DEF FlowsInv
<1> QED BY <1>4, <1>5

LEMMA FlowsBegin ==
  ASSUME FlowInit
  PROVE  FlowsInv
<1>1. /\ byFlow = {} /\ flow = [f \in Flow |-> Idle]
      /\ picked = [f \in Flow |-> NothingPicked]
  BY DEF FlowInit
<1>2. PICK legacy \in SUBSET EntryId, data \in Legacy :
        entry = [e \in EntryId |-> IF e \in legacy THEN [Absent EXCEPT !.data = data] ELSE Absent]
  BY DEF FlowInit
<1>3. PICK no, absent : no = FALSE /\ absent = Absent
  OBVIOUS
<1>4. absent = [data |-> NoData, uid |-> NoKey, prefixes |-> no]
  BY <1>3 DEF Absent
<1>5. [absent EXCEPT !.data = data] = [data |-> data, uid |-> NoKey, prefixes |-> no]
  BY <1>4
<1>6. EntryShape /\ \A e \in EntryId : entry[e].uid = NoKey
  BY <1>2, <1>3, <1>4, <1>5 DEF EntryShape
<1>7. FlowShape /\ \A f \in Flow : StandsInv(f)
  BY <1>1 DEF FlowShape, StandsInv, Idle, At, NothingPicked
<1>8. ScopesApart /\ CommitsServed
  BY <1>1, <1>6 DEF ScopesApart, CommitsServed, Existing
<1> QED BY <1>1, <1>6, <1>7, <1>8 DEF FlowsInv

\* A flow past the menus has a provider, and at the forms of a base one that the
\* provider agreed to, through edges back and refusals; what it may commit is
\* what it was offered (ConfigFlow and the mixins of flows/).
THEOREM FlowsInductive == FlowSpec => []FlowsInv
<1>1. FlowInit => FlowsInv
  BY FlowsBegin
<1>2. FlowsInv /\ [FlowNext]_flowVars => FlowsInv'
  <2> SUFFICES ASSUME FlowsInv, [FlowNext]_flowVars PROVE FlowsInv'
    OBVIOUS
  <2>1. CASE UNCHANGED flowVars
    <3>1. entry' = entry /\ byFlow' = byFlow /\ flow' = flow /\ picked' = picked
      BY <2>1 DEF flowVars
    <3> QED BY <3>1 DEF FlowsInv, EntryShape, FlowShape, StandsInv, OwnForm, BaseForm,
              ScopesApart, CommitsServed, Existing
  <2>2. CASE FlowNext
    BY <2>2, WalkKeeps, FormsKeep, EntriesKeep DEF FlowNext
  <2> QED BY <2>1, <2>2
<1> QED BY <1>1, <1>2, PTL DEF FlowSpec

\* ScopesApart: an entry that a flow wrote shares its scope with no other one, and
\* no two entries hold one unique id.
THEOREM ScopesStayApart == FlowSpec => []ScopesApart
<1>1. FlowsInv => ScopesApart
  BY DEF FlowsInv
<1> QED BY <1>1, FlowsInductive, PTL

\* CommitsServed: the base or the place an entry of a flow was committed with is
\* what the provider agreed to in that flow.
THEOREM CommitsAgreed == FlowSpec => []CommitsServed
<1>1. FlowsInv => CommitsServed
  BY DEF FlowsInv
<1> QED BY <1>1, FlowsInductive, PTL
=============================================================================
