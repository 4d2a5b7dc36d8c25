----------------------------- MODULE AlertStore -----------------------------
(***************************************************************************)
(* The alert store (custom_components/cap_alerts/store.py): it holds the   *)
(* alerts of the last reconciliation, diffs the next batch against them,   *)
(* decides one bus event per alert id, and remembers the endings it has    *)
(* announced so that none is announced twice.                              *)
(*                                                                         *)
(* `process' is synchronous, so one reconciliation is one action.  The     *)
(* code walks the batch with a loop that mutates the tombstone maps as it  *)
(* goes; here the state the loop has reached before position i is given    *)
(* in closed form (IdentifierEndedBefore).  AlertStoreLoop writes the loop *)
(* out, branch by branch, and the two are checked to agree.                *)
(*                                                                         *)
(* Around the store stand the three things that decide what it knows: the  *)
(* entity registry (registered), the restore file (saved) and restarts.    *)
(***************************************************************************)
EXTENDS Naturals, Sequences, FiniteSets

CONSTANTS
  Id,                \* alert ids: the lifecycle-aware key of an alert
  Identifier,        \* CAP <identifier>s: the name of one revision
  NoIdentifier,      \* the empty identifier
  Sender,            \* senders, each with its own source conventions
  AbsenceEnds,       \* senders whose withdrawal of a record is its ending
  HasExit,           \* senders that can end an alert with no expiry
  Severity, Text,    \* kept and unkept content of a record
  NoText,            \* the content a restored record does not have
  Never,             \* no <expires>
  Absent,            \* no entry under a key
  Published,         \* the records a provider may hand over
  Superseding,       \* the sets a caller may pass as superseded_identifiers
  TombstoneIdleTTL,  \* TOMBSTONE_IDLE_TTL, in ticks
  ChainResolved,     \* TRUE when providers keep only the leaves of a chain
  MaxBatch, MaxTime, MaxRestarts   \* bounds of the exploration

LivePhase == {"new", "update"}
TerminalPhase == {"cancel", "expired"}
NoEvent == "none"
ParkedEvent == {NoEvent, "created", "updated"}
Event == ParkedEvent \cup {"removed"}

\* A record as a provider builds it.  status is what _compute_phase makes of
\* msgType and lifecycle_status before it looks at the clock.
Record ==
  [id : Id, identifier : Identifier \cup {NoIdentifier},
   references : SUBSET Identifier, sender : Sender,
   status : LivePhase \cup {"cancel"}, expires : Nat \cup {Never},
   severity : Severity, text : Text]

\* What the store reads of an alert it tracks.
Entry ==
  [identifier : Identifier \cup {NoIdentifier}, sender : Sender,
   phase : LivePhase, expires : Nat \cup {Never}, severity : Severity,
   text : Text \cup {NoText}, stale : BOOLEAN]

ASSUME AbsentAssumption == Absent \notin Nat /\ Absent \notin Entry
ASSUME NeverAssumption == Never \notin Nat
ASSUME NoIdentifierAssumption == NoIdentifier \notin Identifier
ASSUME PublishedAssumption == Published \subseteq Record
ASSUME TTLAssumption == TombstoneIdleTTL \in Nat \ {0}
ASSUME BoundAssumption == MaxBatch \in Nat /\ MaxTime \in Nat /\ MaxRestarts \in Nat
ASSUME SupersedingAssumption == Superseding \subseteq SUBSET Identifier

VARIABLES
  now,                    \* the clock
  previous,               \* _previous: the alerts of the last reconciliation
  deferred,               \* _deferred: the event parked for each id
  tombstones,             \* _tombstones: when an announced ending was last seen
  tombstonedIdentifiers,  \* _tombstoned_identifiers
  knownAtBoot,            \* _known_at_boot
  restored,               \* _restored
  reconciliations,        \* _reconciliations
  booting,                \* _booting
  registered,             \* ids with an entry in the entity registry
  saved,                  \* the restore file's records
  reconciled,             \* the coordinator has reconciled since setup
  restarts,               \* bounds the restarts
  endedAt,                \* auxiliary: when a record of the ended id was last seen
  lineageEndedAt,         \* auxiliary: the same, for a revision's identifier
  fetches,                \* auxiliary: fetched reconciliations since boot, up to 2
  decided,                \* auxiliary: the _fire_event calls of the last step
  bus                     \* auxiliary: what the last step put on the bus

storeVars == <<previous, deferred, tombstones, tombstonedIdentifiers,
               knownAtBoot, restored, reconciliations, booting>>
history == <<endedAt, lineageEndedAt, fetches>>
vars == <<now, storeVars, registered, saved, reconciled, restarts, history,
          decided, bus>>

-----------------------------------------------------------------------------
(* Normalization, conventions and diffs                                    *)

ComputePhase(a) ==
  IF a.expires # Never /\ now > a.expires THEN "expired" ELSE a.status

Terminal(a) == ComputePhase(a) \in TerminalPhase

EntryOf(a) ==
  [identifier |-> a.identifier, sender |-> a.sender, phase |-> ComputePhase(a),
   expires |-> a.expires, severity |-> a.severity, text |-> a.text,
   stale |-> FALSE]

\* Mutant: a record read back counts as confirmed.
FreshRecordOf(e) == [e EXCEPT !.text = NoText, !.stale = FALSE]

\* record_from_alert followed by alert_from_record: the content is not kept.
RecordOf(e) == [e EXCEPT !.text = NoText, !.stale = TRUE]

RestoredDiffFields == {"severity", "phase", "expires"}
ChangedFieldsAllowlist == RestoredDiffFields \cup {"text"}

Tracked == {id \in Id : previous[id] # Absent}

\* A tombstone the prune at the head of process keeps.
IdTombstoned(id) ==
  tombstones[id] # Absent /\ tombstones[id] + TombstoneIdleTTL > now
IdentifierTombstoned(r) ==
  /\ tombstonedIdentifiers[r] # Absent
  /\ tombstonedIdentifiers[r] + TombstoneIdleTTL > now

\* Mutant: an alert with an expiry is kept after it.
RetainForEver(e) == e.sender \notin AbsenceEnds

RetainOnAbsence(e) ==
  /\ e.sender \notin AbsenceEnds
  /\ IF e.expires = Never THEN e.sender \in HasExit ELSE now < e.expires

-----------------------------------------------------------------------------
(* One reconciliation                                                      *)

Incoming(batch) == {batch[i].id : i \in DOMAIN batch}
At(batch, id) == CHOOSE i \in DOMAIN batch : batch[i].id = id

\* What position j of the batch does to the identifier r: a terminal record,
\* suppressed or not, tombstones its own; a live one pops those it references.
Ends(batch, j, r) == Terminal(batch[j]) /\ batch[j].identifier = r
Revives(batch, j, r) == ~Terminal(batch[j]) /\ r \in batch[j].references

\* Mutant: an ending of this batch outlives a later revival in it.
IdentifierEverEndedBefore(batch, i, r) ==
  \/ /\ IdentifierTombstoned(r)
     /\ \A k \in 1 .. (i - 1) : ~Revives(batch, k, r)
  \/ \E j \in 1 .. (i - 1) : Ends(batch, j, r)

\* Whether r is tombstoned when the loop reaches position i.
IdentifierEndedBefore(batch, i, r) ==
  \/ /\ IdentifierTombstoned(r)
     /\ \A k \in 1 .. (i - 1) : ~Revives(batch, k, r)
  \/ \E j \in 1 .. (i - 1) :
       /\ Ends(batch, j, r)
       /\ \A k \in (j + 1) .. (i - 1) : ~Revives(batch, k, r)

\* Mutant: the id's own tombstone is not consulted.
SuppressedByLineage(batch, i) ==
  \/ \E r \in batch[i].references : IdentifierEndedBefore(batch, i, r)
  \/ booting /\ batch[i].id \notin Tracked /\ batch[i].id \notin knownAtBoot

\* Mutant: a boot makes no difference.
SuppressedAnyTime(batch, i) ==
  \/ IdTombstoned(batch[i].id)
  \/ \E r \in batch[i].references : IdentifierEndedBefore(batch, i, r)

\* A terminal record whose ending needs no announcement: announced already,
\* under this id or under one it references, or old news after a boot.
Suppressed(batch, i) ==
  LET a == batch[i] IN
    \/ IdTombstoned(a.id)
    \/ \E r \in a.references : IdentifierEndedBefore(batch, i, r)
    \/ booting /\ a.id \notin Tracked /\ a.id \notin knownAtBoot

\* The tracked alert a revision supersedes: the first its references name.
SupersededBy(a) == {id \in Tracked : previous[id].identifier \in a.references}
Superseded(a) == CHOOSE id \in SupersededBy(a) : TRUE

\* A diff takes its previous record off the restored set, and so does the diff
\* of a successor that stands before it in the batch.
DiffedBefore(batch, i) ==
  \E j \in 1 .. (i - 1) :
    /\ ~Terminal(batch[j]) /\ batch[j].id \notin Tracked
    /\ SupersededBy(batch[j]) # {} /\ Superseded(batch[j]) = batch[i].id

ChangedFields(batch, i) ==
  LET a == batch[i] IN
    {f \in IF a.id \in restored /\ ~DiffedBefore(batch, i)
           THEN RestoredDiffFields ELSE ChangedFieldsAllowlist :
       previous[a.id][f] # EntryOf(a)[f]}

LiveEvent(batch, i) ==
  IF batch[i].id \in Tracked
  THEN IF ChangedFields(batch, i) = {} THEN NoEvent ELSE "updated"
  ELSE IF SupersededBy(batch[i]) # {} THEN "updated"
  ELSE IF batch[i].id \in knownAtBoot THEN NoEvent ELSE "created"

EventFor(batch, i) ==
  IF ~Terminal(batch[i]) THEN LiveEvent(batch, i)
  ELSE IF Suppressed(batch, i) THEN NoEvent ELSE "removed"

LiveIn(batch) == {batch[i].id : i \in {j \in DOMAIN batch : ~Terminal(batch[j])}}

Referenced(batch, superseded) ==
  superseded \cup UNION {batch[i].references : i \in DOMAIN batch}

\* Tracked alerts the batch neither lists nor replaces: kept, or ended.
Missing(batch, superseded) ==
  {id \in Tracked \ Incoming(batch) :
     previous[id].identifier \notin Referenced(batch, superseded)}

Retained(batch, scopeChanged, superseded) ==
  {id \in Missing(batch, superseded) : ~scopeChanged /\ RetainOnAbsence(previous[id])}

EndedByAbsence(batch, scopeChanged, superseded) ==
  Missing(batch, superseded) \ Retained(batch, scopeChanged, superseded)

\* Mutant: every reconciliation counts.
GraceOverOnAnyCycle(fetched) == knownAtBoot # {} /\ reconciliations + 1 >= 2

\* Mutant: the reconciliation is not counted.
ReconciliationsUncounted(fetched) == reconciliations

NextReconciliations(fetched) ==
  IF fetched /\ knownAtBoot # {} THEN reconciliations + 1 ELSE reconciliations

\* Two fetched reconciliations without a sighting end a registry-only id.
GraceOver(fetched) == fetched /\ knownAtBoot # {} /\ reconciliations + 1 >= 2

EndedAtBoot(batch, fetched) ==
  IF GraceOver(fetched) THEN knownAtBoot \ Incoming(batch) ELSE {}

Decision(batch, scopeChanged, superseded, fetched) ==
  LET incoming == Incoming(batch)
      ended == EndedByAbsence(batch, scopeChanged, superseded)
                 \cup EndedAtBoot(batch, fetched)
  IN [id \in Id |->
        IF id \in incoming THEN EventFor(batch, At(batch, id))
        ELSE IF id \in ended THEN "removed" ELSE NoEvent]

NextPrevious(batch, scopeChanged, superseded) ==
  LET live == LiveIn(batch)
      retained == Retained(batch, scopeChanged, superseded)
  IN [id \in Id |->
        IF id \in live THEN EntryOf(batch[At(batch, id)])
        ELSE IF id \in retained THEN [previous[id] EXCEPT !.stale = TRUE]
        ELSE Absent]

\* Mutant: a tombstone ages from the first sighting of the ending.
NextTombstonesUnrefreshed(batch, scopeChanged, superseded, fetched) ==
  LET ended == Incoming(batch) \cup EndedAtBoot(batch, fetched)
                 \cup EndedByAbsence(batch, scopeChanged, superseded)
  IN [id \in Id |->
        IF id \in LiveIn(batch) THEN Absent
        ELSE IF IdTombstoned(id) THEN tombstones[id]
        ELSE IF id \in ended THEN now ELSE Absent]

NextTombstones(batch, scopeChanged, superseded, fetched) ==
  LET live == LiveIn(batch)
      ended == Incoming(batch) \cup EndedAtBoot(batch, fetched)
                 \cup EndedByAbsence(batch, scopeChanged, superseded)
  IN [id \in Id |->
        IF id \in live THEN Absent
        ELSE IF id \in ended THEN now
        ELSE IF IdTombstoned(id) THEN tombstones[id] ELSE Absent]

NextTombstonedIdentifiers(batch, scopeChanged, superseded) ==
  LET ended == EndedByAbsence(batch, scopeChanged, superseded)
      renewed(r) ==
        \/ \E id \in ended : previous[id].identifier = r
        \/ \E j \in DOMAIN batch :
             /\ Ends(batch, j, r)
             /\ \A k \in (j + 1) .. Len(batch) : ~Revives(batch, k, r)
  IN [r \in Identifier |->
        IF renewed(r) THEN now
        ELSE IF IdentifierEndedBefore(batch, Len(batch) + 1, r)
             THEN tombstonedIdentifiers[r] ELSE Absent]

\* An event is parked while the alert has no entity; a removal never is.
Parks(id, event) == event \in {"created", "updated"} /\ id \notin registered

\* The sightings of an ending, told from the batch alone: a live record clears
\* its id and the identifiers it references, a terminal or removed one renews.
History(batch, scopeChanged, superseded, fetched) ==
  LET live == LiveIn(batch)
      revived == UNION {batch[i].references : i \in {j \in DOMAIN batch : ~Terminal(batch[j])}}
      removed == {id \in Id :
                    Decision(batch, scopeChanged, superseded, fetched)[id] = "removed"}
      endings == {batch[i].identifier : i \in {j \in DOMAIN batch : Terminal(batch[j])}}
                   \cup {previous[id].identifier : id \in (removed \cap Tracked) \ Incoming(batch)}
  IN /\ endedAt' = [id \in Id |->
           IF id \in live THEN Absent
           ELSE IF id \in Incoming(batch) \cup removed THEN now ELSE endedAt[id]]
     /\ lineageEndedAt' = [r \in Identifier |->
           IF r \in revived THEN Absent
           ELSE IF r \in endings THEN now ELSE lineageEndedAt[r]]
     /\ fetches' = IF fetched /\ fetches < 2 THEN fetches + 1 ELSE fetches

ParkedSeq(event) == IF event = NoEvent THEN <<>> ELSE <<event>>

Process(batch, scopeChanged, superseded, fetched) ==
  LET D == Decision(batch, scopeChanged, superseded, fetched) IN
    /\ decided' = D
    /\ bus' = [id \in Id |-> ParkedSeq(deferred[id])
                 \o IF Parks(id, D[id]) THEN <<>> ELSE ParkedSeq(D[id])]
    /\ deferred' = [id \in Id |-> IF Parks(id, D[id]) THEN D[id] ELSE NoEvent]
    /\ previous' = NextPrevious(batch, scopeChanged, superseded)
    /\ tombstones' = NextTombstones(batch, scopeChanged, superseded, fetched)
    /\ tombstonedIdentifiers' =
         NextTombstonedIdentifiers(batch, scopeChanged, superseded)
    /\ restored' = restored \cap Retained(batch, scopeChanged, superseded)
    /\ knownAtBoot' =
         IF GraceOver(fetched) THEN {} ELSE knownAtBoot \ Incoming(batch)
    /\ reconciliations' = NextReconciliations(fetched)
    /\ booting' = (booting /\ ~fetched)
    /\ reconciled' = TRUE
    /\ History(batch, scopeChanged, superseded, fetched)
    /\ UNCHANGED <<now, registered, saved, restarts>>

-----------------------------------------------------------------------------
(* The store's surroundings                                                *)

Silent == decided' = [id \in Id |-> NoEvent] /\ bus' = [id \in Id |-> <<>>]

\* The alert's entity has been added and written its first state.
Release(id) ==
  /\ id \in registered
  /\ deferred[id] # NoEvent
  /\ deferred' = [deferred EXCEPT ![id] = NoEvent]
  /\ bus' = [x \in Id |-> IF x = id THEN <<deferred[id]>> ELSE <<>>]
  /\ decided' = [x \in Id |-> NoEvent]
  /\ UNCHANGED <<now, previous, tombstones, tombstonedIdentifiers, knownAtBoot,
                 restored, reconciliations, booting, registered, saved,
                 reconciled, restarts, history>>

\* The sensor platform registers an entity for a tracked alert...
Register(id) ==
  /\ id \in Tracked \ registered
  /\ registered' = registered \cup {id}
  /\ Silent
  /\ UNCHANGED <<now, storeVars, saved, reconciled, restarts, history>>

\* ...and drops the entity of an id that is neither tracked nor boot-pending.
Unregister(id) ==
  /\ id \in registered \ (Tracked \cup knownAtBoot)
  /\ registered' = registered \ {id}
  /\ Silent
  /\ UNCHANGED <<now, storeVars, saved, reconciled, restarts, history>>

\* The restore file is written: by the delayed save, or at unload and stop.
Save ==
  /\ reconciled
  /\ restarts < MaxRestarts    \* no later restart reads what is saved after
  /\ saved' = [id \in Id |-> IF id \in Tracked THEN RecordOf(previous[id]) ELSE Absent]
  /\ Silent
  /\ UNCHANGED <<now, storeVars, registered, reconciled, restarts, history>>

Seeded(records) ==
  {id \in Id : records[id] # Absent /\ records[id].identifier # NoIdentifier}

\* A new store over the registry and the file, or over no file at all when it
\* cannot be read.  What was parked is gone, and so are the tombstones.
Restart(readable) ==
  LET records == IF readable THEN saved ELSE [id \in Id |-> Absent] IN
    /\ restarts < MaxRestarts
    /\ restarts' = restarts + 1
    /\ previous' = [id \in Id |-> IF id \in Seeded(records) THEN records[id] ELSE Absent]
    /\ restored' = Seeded(records)
    /\ knownAtBoot' = registered \ Seeded(records)
    /\ deferred' = [id \in Id |-> NoEvent]
    /\ tombstones' = [id \in Id |-> Absent]
    /\ tombstonedIdentifiers' = [r \in Identifier |-> Absent]
    /\ reconciliations' = 0
    /\ booting' = TRUE
    /\ reconciled' = FALSE
    /\ endedAt' = [id \in Id |-> Absent]
    /\ lineageEndedAt' = [r \in Identifier |-> Absent]
    /\ fetches' = 0
    /\ Silent
    /\ UNCHANGED <<now, registered, saved>>

Tick ==
  /\ now < MaxTime
  /\ now' = now + 1
  /\ Silent
  /\ UNCHANGED <<storeVars, registered, saved, reconciled, restarts, history>>

-----------------------------------------------------------------------------
\* The order of `incoming': ids are distinct, and a chain-resolving provider
\* hands over no record that another one of the batch references.
Batches ==
  {batch \in UNION {[1 .. n -> Published] : n \in 0 .. MaxBatch} :
     /\ \A i, j \in DOMAIN batch : i # j => batch[i].id # batch[j].id
     /\ ChainResolved => \A i, j \in DOMAIN batch :
                           batch[i].identifier \notin batch[j].references}

Init ==
  /\ now = 0
  /\ previous = [id \in Id |-> Absent]
  /\ deferred = [id \in Id |-> NoEvent]
  /\ tombstones = [id \in Id |-> Absent]
  /\ tombstonedIdentifiers = [r \in Identifier |-> Absent]
  /\ knownAtBoot = {}
  /\ restored = {}
  /\ reconciliations = 0
  /\ booting = TRUE
  /\ registered = {}
  /\ saved = [id \in Id |-> Absent]
  /\ reconciled = FALSE
  /\ restarts = 0
  /\ endedAt = [id \in Id |-> Absent]
  /\ lineageEndedAt = [r \in Identifier |-> Absent]
  /\ fetches = 0
  /\ decided = [id \in Id |-> NoEvent]
  /\ bus = [id \in Id |-> <<>>]

\* A poll or a backfill, and a stream rebuild with no network I/O.
Fetch ==
  \E batch \in Batches, scopeChanged \in BOOLEAN, superseded \in Superseding :
    Process(batch, scopeChanged, superseded, TRUE)
Rebuild ==
  \E batch \in Batches, scopeChanged \in BOOLEAN, superseded \in Superseding :
    Process(batch, scopeChanged, superseded, FALSE)

Next ==
  \/ Fetch
  \/ Rebuild
  \/ \E id \in Id : Release(id)
  \/ \E id \in Id : Register(id)
  \/ \E id \in Id : Unregister(id)
  \/ Save
  \/ \E readable \in BOOLEAN : Restart(readable)
  \/ Tick

Spec == Init /\ [][Next]_vars

-----------------------------------------------------------------------------
(* Properties                                                              *)

TypeOK ==
  /\ now \in Nat
  /\ previous \in [Id -> Entry \cup {Absent}]
  /\ deferred \in [Id -> ParkedEvent]
  /\ tombstones \in [Id -> Nat \cup {Absent}]
  /\ tombstonedIdentifiers \in [Identifier -> Nat \cup {Absent}]
  /\ knownAtBoot \subseteq Id
  /\ restored \subseteq Id
  /\ reconciliations \in Nat
  /\ booting \in BOOLEAN
  /\ registered \subseteq Id
  /\ saved \in [Id -> Entry \cup {Absent}]
  /\ reconciled \in BOOLEAN
  /\ restarts \in Nat
  /\ endedAt \in [Id -> Nat \cup {Absent}]
  /\ lineageEndedAt \in [Identifier -> Nat \cup {Absent}]
  /\ fetches \in 0 .. 2
  /\ decided \in [Id -> Event]
  /\ bus \in [Id -> Seq(Event)]

\* The parts of the store agree.  An alert is tracked, boot-pending or ended,
\* never two of these; only tracked alerts have a parked event, so no consumer
\* hears of a creation after the removal; a restored record is one no
\* reconciliation has confirmed; and a boot-pending id still has the entity
\* its removal payload names (store.process, restore, _reconcile_known_at_boot).
TrackedNotEnded == \A id \in Tracked : tombstones[id] = Absent
PendingUnseen ==
  /\ knownAtBoot \subseteq registered \ Tracked
  /\ \A id \in knownAtBoot : tombstones[id] = Absent
ParkedTracked == \A id \in Id : deferred[id] # NoEvent => id \in Tracked
RestoredUnconfirmed ==
  restored \subseteq {id \in Tracked : previous[id].stale /\ previous[id].text = NoText}
GraceCounted ==
  /\ knownAtBoot # {} => reconciliations = fetches /\ fetches < 2
  /\ booting <=> fetches = 0
StoreConsistent ==
  /\ TrackedNotEnded /\ PendingUnseen /\ ParkedTracked
  /\ RestoredUnconfirmed /\ GraceCounted

LongAgo(t) == t = Absent \/ t + TombstoneIdleTTL <= now

\* Whatever batch comes next, a removal is announced only for an ending whose
\* records, under this id and under the identifiers it references, have not
\* been seen since they last went live, or for as long as the idle TTL: one
\* incident_removed per ending, through re-publication, re-issue and revival.
NoRepeatedEnding ==
  \A batch \in Batches, scopeChanged, fetched \in BOOLEAN, superseded \in Superseding :
    LET D == Decision(batch, scopeChanged, superseded, fetched) IN
      \A id \in Id : D[id] = "removed" =>
        /\ LongAgo(endedAt[id])
        /\ \A i \in DOMAIN batch : batch[i].id = id =>
             \A r \in batch[i].references :
               \/ LongAgo(lineageEndedAt[r])
               \/ \E k \in DOMAIN batch : Revives(batch, k, r)

\* Absence alone does not end an alert the registry knew before the boot: only
\* the second fetched reconciliation that misses it may announce its removal,
\* and no stream rebuild, however many run before and between (#250, #252).
GraceIsTwoFetches ==
  \A batch \in Batches, fetched \in BOOLEAN :
    LET D == Decision(batch, FALSE, {}, fetched) IN
      \A id \in knownAtBoot \ Incoming(batch) :
        D[id] = "removed" <=> fetched /\ fetches >= 1

\* What ended while Home Assistant was down is old news: however many stream
\* rebuilds run before it, the first fetch of a boot announces no ending but of
\* alerts that were restored, that the registry still knows or that a rebuild
\* has shown to be live since (process, the booting clause, #257).
OldEndingsStaySilent ==
  fetches = 0 =>
    \A batch \in Batches, scopeChanged, fetched \in BOOLEAN, superseded \in Superseding :
      LET D == Decision(batch, scopeChanged, superseded, fetched) IN
        \A id \in Id : D[id] = "removed" => id \in Tracked \cup knownAtBoot

\* The store implements the incident life of docs/events.md for every id.
Status(id) ==
  IF id \in Tracked THEN "live"
  ELSE IF IdTombstoned(id) THEN "ended"
  ELSE IF id \in knownAtBoot THEN "held" ELSE "unknown"

Life(id) == INSTANCE Incident
  WITH status <- Status(id), event <- decided[id], boots <- restarts

ImplementsIncident ==
  /\ \A id \in Id : Life(id)!Init
  /\ [][\A id \in Id : Life(id)!Next \/ UNCHANGED Life(id)!vars]_vars

\* No incident ends in silence.  When a tracked alert leaves without its own
\* removal, the step announces something about the alert that took its place:
\* "skip incident_removed since incident_updated was already fired for the
\* superseding alert" (process, the absence pass).  The code does not keep to
\* it: a successor whose own ending is remembered fires nothing, and neither
\* does an alert whose ended ancestor was published again since it went live.
LeavesSilently(id) == previous'[id] = Absent /\ decided'[id] = NoEvent
SomethingAnnounced == \E successor \in Id : decided'[successor] # NoEvent

NoSilentEnding ==
  [][restarts' = restarts /\ ~booting =>
       \A id \in Tracked : LeavesSilently(id) => SomethingAnnounced]_vars

-----------------------------------------------------------------------------
(* Liveness.  The coordinator polls on a timer and the clock advances; that *)
(* a fetch succeeds in the end is what the fairness of Fetch assumes.       *)

FairSpec == Spec /\ WF_vars(Fetch) /\ WF_vars(Tick)

\* Every id the registry knew before the boot is re-validated or announced as
\* ended: none keeps its entity, exempt from removal, for ever (#250).
BootPendingResolves == knownAtBoot # {} ~> knownAtBoot = {}

\* "Retention requires an exit" (_retain_on_absence): a stale alert that has an
\* expiry is confirmed again or leaves; absence cannot keep it for ever.
Stale(id) == id \in Tracked /\ previous[id].stale /\ previous[id].expires # Never
StaleResolves == \A id \in Id : Stale(id) ~> ~Stale(id)
=============================================================================
