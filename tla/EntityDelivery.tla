---------------------------- MODULE EntityDelivery ----------------------------
(***************************************************************************)
(* From a decision of the store to the bus, and to the entity registry.    *)
(*                                                                         *)
(* An event waits in up to two places: parked in the store until the       *)
(* alert's entity is added (store.py), and held by the coordinator until   *)
(* Home Assistant has started (coordinator.py).  The sensor platform adds  *)
(* and removes entities after each reconciliation (sensor.py), and a       *)
(* removal waits for the held events, one of which may name the entity.    *)
(*                                                                         *)
(* The store is the life of Incident here: which alerts a cycle finds live *)
(* or changed, and which it lets go without an event, is free.  A cycle,   *)
(* its event decisions, the flush of what is parked and the platform's     *)
(* sync run in one turn of the loop.                                       *)
(***************************************************************************)
EXTENDS Naturals, Sequences

CONSTANTS
  Alert,
  Disabled,     \* alerts whose entity the user disabled: it is never added
  NoEvent,
  MaxHeld,      \* bounds the events held for one alert
  MaxRestarts   \* bounds the reloads and restarts

ASSUME AlertAssumption == Disabled \subseteq Alert
ASSUME BoundAssumption == MaxHeld \in Nat \ {0} /\ MaxRestarts \in Nat

Event == {"created", "updated", "removed"}
ASSUME NoEventAssumption == NoEvent \notin Event

VARIABLES
  hass,         \* external: whether Home Assistant has started
  setup,        \* how far the entry's setup has come
  tracked,      \* the alerts of the last reconciliation
  bootPending,  \* _known_at_boot: registry ids no fetch has settled
  fetches,      \* _reconciliations
  parked,       \* _deferred
  holding,      \* _held_events is not None
  held,         \* _held_events, by alert
  waiting,      \* _after_held: the platform's sync waits for the drain
  shown,        \* `tracked' of the platform: alerts with an entity object
  registered,   \* ids in the entity registry
  due,          \* entities added whose release runs in the next loop turn
  restarts,     \* bounds the reloads and restarts
  decided,      \* auxiliary: what the last step decided for each alert
  bus,          \* auxiliary: what it put on the bus
  owed,         \* auxiliary: decided for each alert and not on the bus yet
  heard,        \* auxiliary: the last event of each alert on the bus, unless a
                \* later one was lost
  silenced      \* auxiliary: alerts the store let go without an event, last

store == <<tracked, bootPending, fetches>>
platform == <<waiting, shown, registered, due>>
vars == <<hass, setup, store, parked, holding, held, platform, restarts,
          decided, bus, owed, heard, silenced>>

None == [a \in Alert |-> NoEvent]
Silent == [a \in Alert |-> <<>>]
Only(event) == IF event = NoEvent THEN <<>> ELSE <<event>>

-----------------------------------------------------------------------------
(* The ways an event takes                                                 *)

\* Mutant: only the start itself is waited for, not the drain.
HoldsUntilStart == hass = "starting"

\* Once anything is held, everything queues behind it until the drain.
Holds == holding \/ hass = "starting"

\* _async_fire_event, for the events a step fires in their order.
Emit(fired) ==
  /\ bus' = IF Holds THEN Silent ELSE fired
  /\ held' = IF Holds THEN [a \in Alert |-> held[a] \o fired[a]] ELSE held
  /\ holding' = (holding \/ (Holds /\ fired # Silent))

\* What the auxiliary variables make of a step.
Account(decisions) ==
  LET all == [a \in Alert |-> owed[a] \o Only(decisions[a])] IN
    /\ decided' = decisions
    /\ owed' = [a \in Alert |-> SubSeq(all[a], Len(bus'[a]) + 1, Len(all[a]))]
    /\ heard' = [a \in Alert |->
         IF bus'[a] = <<>> THEN heard[a] ELSE bus'[a][Len(bus'[a])]]

\* Mutant: an entity is removed while a held event may name it.
RemovedAtOnce(hold, gone) == FALSE

\* Removals wait while the coordinator holds events.
Postponed(hold, gone) == hold /\ gone # {}

\* _sync_alert_entities, for the alerts tracked and boot-pending by now.
Sync(current, grace, hold) ==
  LET added == current \ shown
      gone == (shown \ current) \ grace
      removed == IF Postponed(hold, gone) THEN {} ELSE gone
  IN /\ shown' = (shown \cup added) \ removed
     /\ registered' = (registered \cup added) \ removed
     /\ due' = due \cup (added \ Disabled)
     /\ waiting' = (hold /\ (waiting \/ Postponed(hold, gone)))

-----------------------------------------------------------------------------
(* One reconciliation                                                      *)

GraceOver(fetched) == fetched /\ fetches >= 1

\* Mutant: a fetch is not counted.
FetchesUncounted(fetched) == fetches

NextFetches(fetched) == IF fetched /\ bootPending # {} THEN fetches + 1 ELSE fetches

\* What is announced of each alert.  changed: the live ones whose fields differ,
\* or that come under a new id and replace a tracked one.  silent: those that are
\* not live any more and of which nothing is said.
Decision(live, changed, ended, silent, fetched) ==
  [a \in Alert |->
     IF a \in live
     THEN IF a \in changed THEN "updated"
          ELSE IF a \in tracked \cup bootPending THEN NoEvent ELSE "created"
     ELSE IF /\ a \notin silent
             /\ a \in tracked \/ (a \in bootPending /\ (a \in ended \/ GraceOver(fetched)))
          THEN "removed" ELSE NoEvent]

\* The ids of the registry that no fetch has settled by now.
StillPending(live, ended, silent, fetched) ==
  IF GraceOver(fetched) THEN {} ELSE bootPending \ (live \cup ended \cup silent)

\* Alerts that were let go without a word and have not been heard of since.
Silenced(live, silent, decisions) ==
  ((silenced \cup silent) \ live) \ {a \in Alert : decisions[a] = "removed"}

\* An event is parked while its entity is not registered.
Parks(a, event) == event # NoEvent /\ a \notin registered

\* Mutant: what no entity released is dropped.
FlushNever(a, event) == Only(event)

FlushFirst(a, event) == Only(parked[a]) \o Only(event)

\* A poll (the first one inside setup, before there is a platform) or a stream
\* rebuild, with the sync that listens to it.  ended: boot-pending ids that the
\* source says have ended.
Cycle(live, changed, ended, silent, fetched) ==
  LET D == Decision(live, changed, ended, silent, fetched)
      now(a) == IF Parks(a, D[a]) THEN NoEvent ELSE D[a]
  IN /\ setup \in {"restored", "up"}
     /\ setup = "restored" => fetched
     /\ holding => \A a \in Alert : Len(held[a]) < MaxHeld
     /\ tracked' = live
     /\ bootPending' = StillPending(live, ended, silent, fetched)
     /\ fetches' = NextFetches(fetched)
     /\ parked' = [a \in Alert |-> IF Parks(a, D[a]) THEN D[a] ELSE NoEvent]
     /\ Emit([a \in Alert |-> FlushFirst(a, now(a))])
     /\ Account(D)
     /\ silenced' = Silenced(live, silent, D)
     /\ IF setup = "up" THEN Sync(live, bootPending', holding') ELSE UNCHANGED platform
     /\ setup' = IF setup = "restored" THEN "refreshed" ELSE setup
     /\ UNCHANGED <<hass, restarts>>

\* The batches a source may hand over.  An alert goes without an event when a
\* record that came in, or moved off the region, names it as replaced, or when its
\* ending references one already announced.
Cycles(fetched) ==
  \E live \in SUBSET Alert, ended \in SUBSET bootPending :
    \E changed \in SUBSET live, silent \in SUBSET ((tracked \cup bootPending) \ (live \cup ended)) :
      /\ ended \cap live = {}
      /\ changed \subseteq tracked \/ tracked # {}
      /\ Cycle(live, changed, ended, silent, fetched)
Fetch == Cycles(TRUE)
Rebuild == Cycles(FALSE)

-----------------------------------------------------------------------------
(* Entities and Home Assistant                                             *)

\* The platform is set up: an entity for every registered alert, then a sync.
PlatformUp ==
  LET current == tracked \ registered
      gone == (registered \ tracked) \ bootPending
      removed == IF Postponed(holding, gone) THEN {} ELSE gone
  IN /\ setup = "refreshed"
     /\ setup' = "up"
     /\ shown' = (registered \cup current) \ removed
     /\ registered' = (registered \cup current) \ removed
     /\ due' = (registered \cup current) \ Disabled
     /\ waiting' = Postponed(holding, gone)
     /\ bus' = Silent
     /\ Account(None)
     /\ UNCHANGED <<hass, store, parked, holding, held, restarts, silenced>>

\* An entity was added; the release it scheduled runs.
Release(a) ==
  /\ a \in due
  /\ due' = due \ {a}
  /\ parked' = [parked EXCEPT ![a] = NoEvent]
  /\ Emit([Silent EXCEPT ![a] = Only(parked[a])])
  /\ Account(None)
  /\ UNCHANGED <<hass, setup, store, waiting, shown, registered, restarts, silenced>>

\* homeassistant_started, which schedules the drain for the next loop turn.
Start ==
  /\ hass = "starting"
  /\ hass' = "running"
  /\ bus' = Silent
  /\ Account(None)
  /\ UNCHANGED <<setup, store, parked, holding, held, platform, restarts, silenced>>

\* Mutant: the sync that waited is forgotten.
SyncForgotten == FALSE

SyncWaits == waiting

\* _async_fire_held_events: the held events in order, then the waiting sync.
Drain ==
  /\ hass = "running" /\ holding
  /\ bus' = held
  /\ held' = Silent
  /\ holding' = FALSE
  /\ Account(None)
  /\ IF SyncWaits THEN Sync(tracked, bootPending, FALSE)
     ELSE waiting' = FALSE /\ UNCHANGED <<shown, registered, due>>
  /\ UNCHANGED <<hass, setup, store, parked, restarts, silenced>>

\* Mutant: ids of the registry the file does not have are not held over.
NothingPending == {}

PendingAtBoot == registered \ tracked

\* The entry is reloaded, or Home Assistant stops and boots: the store restores
\* what was saved, and what was parked or held is gone with the coordinator.
\* (A scheduled drain runs in the next loop turn, before an unload gets far.)
Restart(boot) ==
  /\ restarts < MaxRestarts
  /\ restarts' = restarts + 1
  /\ setup = "up"
  /\ boot \/ hass = "starting" \/ ~holding
  /\ hass' = IF boot THEN "starting" ELSE hass
  /\ setup' = "restored"
  /\ bootPending' = PendingAtBoot
  /\ fetches' = 0
  /\ parked' = None
  /\ held' = Silent
  /\ holding' = FALSE
  /\ shown' = {} /\ due' = {} /\ waiting' = FALSE
  /\ decided' = None /\ bus' = Silent /\ owed' = Silent
  /\ heard' = [a \in Alert |-> IF owed[a] = <<>> THEN heard[a] ELSE NoEvent]
  /\ UNCHANGED <<tracked, registered, silenced>>

Init ==
  /\ hass \in {"starting", "running"}
  /\ setup = "restored"
  /\ tracked = {} /\ bootPending = {} /\ registered = {}
  /\ fetches = 0
  /\ parked = None
  /\ holding = FALSE /\ held = Silent
  /\ shown = {} /\ due = {} /\ waiting = FALSE
  /\ restarts = 0
  /\ decided = None /\ bus = Silent /\ owed = Silent /\ heard = None
  /\ silenced = {}

Next ==
  \/ Fetch
  \/ Rebuild
  \/ PlatformUp
  \/ \E a \in Alert : Release(a)
  \/ Start
  \/ Drain
  \/ \E boot \in BOOLEAN : Restart(boot)

Spec == Init /\ [][Next]_vars

-----------------------------------------------------------------------------
(* Properties                                                              *)

TypeOK ==
  /\ hass \in {"starting", "running"}
  /\ setup \in {"restored", "refreshed", "up"}
  /\ tracked \subseteq Alert /\ bootPending \subseteq Alert
  /\ fetches \in 0 .. 2
  /\ parked \in [Alert -> {NoEvent, "created", "updated"}]
  /\ holding \in BOOLEAN
  /\ held \in [Alert -> Seq(Event)]
  /\ waiting \in BOOLEAN
  /\ shown \subseteq Alert /\ registered \subseteq Alert /\ due \subseteq Alert
  /\ restarts \in Nat
  /\ decided \in [Alert -> Event \cup {NoEvent}]
  /\ bus \in [Alert -> Seq(Event)] /\ owed \in [Alert -> Seq(Event)]
  /\ heard \in [Alert -> Event \cup {NoEvent}]
  /\ silenced \subseteq Alert

\* "An alert's own events never reorder": whatever waits for an entity, for the
\* start or for both, each alert's events reach the bus in the order they were
\* decided, none twice and none before an earlier one (process, _flush_deferred,
\* _async_fire_event).
DeliveredInOrder ==
  [][\A a \in Alert :
       bus'[a] = SubSeq(owed[a] \o Only(decided'[a]), 1, Len(bus'[a]))]_vars

\* "A removal's entity stays registered until its event has fired": a trigger
\* on a device, area or label matches an incident_removed only while the entity
\* it names is registered.
RemovalNamesEntity ==
  [][\A a \in Alert :
       (\E i \in DOMAIN bus'[a] : bus'[a][i] = "removed") => a \in registered]_vars

\* An entity vanishes with its alert's ending as the last thing heard of it, or
\* because the store itself let the alert go without an event: superseded, or a
\* recognised ending (docs/events.md, "Cross-poll supersession").  No other
\* departure is silent, even when a reload loses the event while it is held: the
\* entity outlives the reload and the boot grace announces the ending again.
UnregisteredIsAnnounced ==
  [][\A a \in registered \ registered' : heard'[a] = "removed" \/ a \in silenced']_vars

\* The entities follow the alerts within the reconciliation: every tracked one
\* is registered, and another one only while the boot grace or a held event
\* keeps it and the sync that removes it is on its way.
EntitiesMatch ==
  setup = "up" =>
    /\ tracked \subseteq registered /\ shown = registered
    /\ registered \ tracked # {} =>
         (registered \ tracked) \subseteq bootPending \/ (waiting /\ holding)

-----------------------------------------------------------------------------
(* Liveness.  Home Assistant starts, its loop runs what is scheduled, setup *)
(* goes on and polls come on a timer.                                       *)

FairSpec ==
  /\ Spec
  /\ WF_vars(Start) /\ WF_vars(Drain) /\ WF_vars(PlatformUp) /\ WF_vars(Fetch)
  /\ \A a \in Alert : WF_vars(Release(a))

\* Every event reaches the bus, also that of an alert whose entity is disabled
\* and releases nothing, unless a reload drops it first.
EventsArrive == \A a \in Alert : owed[a] # <<>> ~> owed[a] = <<>>

\* No entity outlives its alert for ever.
EntitiesLeave ==
  \A a \in Alert : a \in registered \ tracked ~> a \in tracked \/ a \notin registered
=============================================================================
