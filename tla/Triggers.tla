------------------------------- MODULE Triggers -------------------------------
(***************************************************************************)
(* The automation triggers (trigger.py): five that listen to the incident  *)
(* events and one that waits for an alert's onset.                         *)
(*                                                                         *)
(* The alerts are the store's (store.py), one action per event it puts on  *)
(* the bus; EntityDelivery shows that an alert's events keep their order.  *)
(* An incident has one alert entity at a time: a revision under a new id   *)
(* brings a new entity, and the old one leaves with no event of its own.   *)
(* Timers may be late: any turn of the loop can come between the instant   *)
(* one waits for and its callback.                                         *)
(***************************************************************************)
EXTENDS Integers

CONSTANTS
  Incident,
  Onset,      \* renderings of the onset attribute
  NoOnset,    \* no onset, or one that does not parse
  InstantOf,  \* the instant an onset names
  Offset,     \* added to it: negative for `before'
  MaxRank,    \* the highest severity rank
  MaxTime     \* bounds the clock

ASSUME OnsetAssumption == NoOnset \notin Onset /\ InstantOf \in [Onset -> Int]
ASSUME OffsetAssumption == Offset \in Int
ASSUME RankAssumption == MaxRank \in Nat
ASSUME TimeAssumption == MaxTime \in Nat

Rank == 0 .. MaxRank   \* 0 is `unknown', and the threshold `any'
NoAlert == [onset |-> NoOnset, severity |-> -1]
NoTimer == [at |-> -1, onset |-> NoOnset]
Alert == [onset : Onset \cup {NoOnset}, severity : Rank]
Timer == [at : Int, onset : Onset]

VARIABLES
  now,
  alert,      \* the record an incident's entity renders
  entity,     \* which of its entities does: a new id brings a new one
  available,  \* whether the coordinator's last update succeeded
  target,     \* the incidents whose entity is inside the target
  attached,   \* the automation runs: both listeners are subscribed
  threshold,
  tracked,    \* _tracked
  timers,     \* _timers
  fired,      \* _fired
  started,    \* auxiliary: the instants a start was announced for
  start,      \* auxiliary: the start this step announced
  lit,        \* auxiliary: a light put on by `issued' and `escalated' and off
              \* by `downgraded' and `ended'
  watched     \* auxiliary: tracked since its first alert, with no gap

config == <<target, attached, threshold>>
vars == <<now, alert, entity, available, config, tracked, timers, fired, started,
          start, lit, watched>>

NoStart == [incident |-> "none", at |-> -1, onset |-> NoOnset]

\* The entities that are registered: those of the current alerts.
Registered(alerts) == {i \in Incident : alerts[i] # NoAlert}

\* What an entity shows: an unavailable one keeps no attribute.
OnsetShown(record, up) == IF up THEN record.onset ELSE NoOnset
SeverityShown(record, up) == IF up /\ record # NoAlert THEN record.severity ELSE 0

-----------------------------------------------------------------------------
(* The timed listener                                                      *)

\* Mutant: an armed timer is kept whatever the onset became.
KeepsAnyTimer(timer, at) == timer # NoTimer

\* Mutant: every write arms afresh, also one that comes with the timer due.
KeepsNoTimer(timer, at) == FALSE

Keeps(timer, at) == timer # NoTimer /\ timer.at = at

\* Mutant: an onset already past is armed, and fires at once.
NeverPast(at, time) == FALSE

Past(at, time) == at <= time

\* _arm: the timer of an entity that shows an onset.
Armed(timer, done, onset, time) ==
  IF onset = NoOnset \/ onset = done THEN NoTimer
  ELSE LET at == InstantOf[onset] + Offset
       IN IF Keeps(timer, at) THEN timer
          ELSE IF Past(at, time) THEN NoTimer
          ELSE [at |-> at, onset |-> onset]

\* _handle_entities_update, then the state writes of the entities in `written':
\* an entity that left is disarmed and forgotten, one that is tracked is armed
\* on the onset it shows.
Listen(inside, alerts, up, written) ==
  LET gone == tracked \ inside
  IN /\ tracked' = inside
     /\ fired' = [i \in Incident |-> IF i \in gone THEN NoOnset ELSE fired[i]]
     /\ timers' = [i \in Incident |->
          IF i \in gone THEN NoTimer
          ELSE IF i \in inside /\ (i \in written \/ tracked # inside)
               THEN Armed(timers[i], fired[i], OnsetShown(alerts[i], up), now)
               ELSE timers[i]]

-----------------------------------------------------------------------------
(* The event listeners                                                     *)

\* Mutant: a rise that ends on the threshold does not cross it.
CrossedUpBeyond(previous, current) ==
  IF threshold = 0 THEN current > previous
  ELSE previous < threshold /\ threshold < current

CrossedUp(previous, current) ==
  IF threshold = 0 THEN current > previous
  ELSE previous < threshold /\ threshold <= current

CrossedDown(previous, current) ==
  IF threshold = 0 THEN current < previous
  ELSE current < threshold /\ threshold <= previous

AtOrAbove(severity) == severity >= threshold

\* The light after an event about an incident whose entity is tracked.
Light(i, on, off) ==
  lit' = IF i \notin tracked' THEN lit
         ELSE (lit \ {j \in {i} : off}) \cup {j \in {i} : on}

Watched == watched' = (watched \cap tracked')

-----------------------------------------------------------------------------
(* The alerts                                                              *)

\* incident_created, once the entity is registered and has written its state;
\* a new incident finds its light off.
Issue(i, record, inside) ==
  /\ available /\ alert[i] = NoAlert
  /\ alert' = [alert EXCEPT ![i] = record]
  /\ target' = IF inside THEN target \cup {i} ELSE target \ {i}
  /\ Listen(IF attached THEN Registered(alert') \cap target' ELSE {}, alert', TRUE, {i})
  /\ Light(i, AtOrAbove(record.severity), ~AtOrAbove(record.severity))
  /\ watched' = IF i \in tracked' THEN watched \cup {i} ELSE watched \ {i}
  /\ start' = NoStart
  /\ UNCHANGED <<now, entity, available, attached, threshold, started>>

\* incident_updated, under the same id.
Revise(i, record) ==
  /\ available /\ alert[i] # NoAlert /\ record # alert[i]
  /\ alert' = [alert EXCEPT ![i] = record]
  /\ Listen(tracked, alert', TRUE, {i})
  /\ Light(i, CrossedUp(alert[i].severity, record.severity),
              CrossedDown(alert[i].severity, record.severity))
  /\ start' = NoStart
  /\ UNCHANGED <<now, entity, available, config, started, watched>>

\* incident_updated, under a new id that supersedes the old one: the new
\* entity is armed as a stranger, the old one is disarmed.
Supersede(i, record, inside) ==
  /\ available /\ alert[i] # NoAlert
  /\ alert' = [alert EXCEPT ![i] = record]
  /\ entity' = [entity EXCEPT ![i] = 1 - @]
  /\ target' = IF inside THEN target \cup {i} ELSE target \ {i}
  /\ tracked' = IF attached THEN Registered(alert') \cap target' ELSE {}
  /\ fired' = [fired EXCEPT ![i] = NoOnset]
  /\ timers' = [timers EXCEPT ![i] =
                  IF i \in tracked' THEN Armed(NoTimer, NoOnset, record.onset, now)
                  ELSE NoTimer]
  /\ Light(i, CrossedUp(alert[i].severity, record.severity),
              CrossedDown(alert[i].severity, record.severity))
  /\ Watched
  /\ start' = NoStart
  /\ UNCHANGED <<now, available, attached, threshold, started>>

\* incident_removed with the severity of the last revision; the entity is
\* registered until the event has fired.
End(i, severity) ==
  /\ available /\ alert[i] # NoAlert
  /\ alert' = [alert EXCEPT ![i] = NoAlert]
  /\ Listen(tracked \ {i}, alert', TRUE, {})
  /\ lit' = IF i \in tracked /\ AtOrAbove(severity) THEN lit \ {i} ELSE lit
  /\ watched' = watched \ {i}
  /\ start' = NoStart
  /\ UNCHANGED <<now, entity, available, config, started>>

\* A failed update makes every entity unavailable, the next good one renders
\* them again.
Availability(up) ==
  /\ available # up
  /\ available' = up
  /\ Listen(tracked, alert, up, tracked)
  /\ start' = NoStart
  /\ UNCHANGED <<now, alert, entity, config, started, lit, watched>>

-----------------------------------------------------------------------------
(* The automation and the clock                                            *)

\* A label, area or device is edited in the registry.
Retarget(inside) ==
  /\ target # inside
  /\ target' = inside
  /\ Listen(IF attached THEN Registered(alert) \cap inside ELSE {}, alert, available, {})
  /\ Watched
  /\ start' = NoStart
  /\ UNCHANGED <<now, alert, entity, available, attached, threshold, started, lit>>

\* async_setup: an automation is set up with a threshold.
Attach(level) ==
  /\ ~attached
  /\ attached' = TRUE
  /\ threshold' = level
  /\ Listen(Registered(alert) \cap target, alert, available, {})
  /\ lit' = {}
  /\ watched' = {}
  /\ start' = NoStart
  /\ UNCHANGED <<now, alert, entity, available, target, started>>

\* _unsubscribe: no listener, no timer; the listener object is gone.
Detach ==
  /\ attached
  /\ attached' = FALSE
  /\ tracked' = {}
  /\ timers' = [i \in Incident |-> NoTimer]
  /\ fired' = [i \in Incident |-> NoOnset]
  /\ lit' = {} /\ watched' = {}
  /\ start' = NoStart
  /\ UNCHANGED <<now, alert, entity, available, target, threshold, started>>

StillShown(i) == OnsetShown(alert[i], available) = timers[i].onset

\* _fire: the callback of a timer whose time has come.
Fire(i) ==
  LET timer == timers[i]
      runs == StillShown(i) /\ SeverityShown(alert[i], available) >= threshold
  IN /\ timer # NoTimer /\ timer.at <= now
     /\ timers' = [timers EXCEPT ![i] = NoTimer]
     /\ fired' = IF StillShown(i) THEN [fired EXCEPT ![i] = timer.onset] ELSE fired
     /\ start' = IF runs THEN [incident |-> i, at |-> timer.at, onset |-> timer.onset]
                 ELSE NoStart
     /\ started' = IF runs THEN [started EXCEPT ![i] = @ \cup {timer.at}] ELSE started
     /\ UNCHANGED <<now, alert, entity, available, config, tracked, lit, watched>>

Tick ==
  /\ now < MaxTime
  /\ now' = now + 1
  /\ start' = NoStart
  /\ UNCHANGED <<alert, entity, available, config, tracked, timers, fired, started, lit, watched>>

Init ==
  /\ now = 0
  /\ alert = [i \in Incident |-> NoAlert]
  /\ entity = [i \in Incident |-> 0]
  /\ available = TRUE
  /\ target = {}
  /\ attached = FALSE
  /\ threshold \in Rank
  /\ tracked = {}
  /\ timers = [i \in Incident |-> NoTimer]
  /\ fired = [i \in Incident |-> NoOnset]
  /\ started = [i \in Incident |-> {}]
  /\ start = NoStart
  /\ lit = {} /\ watched = {}

Next ==
  \/ \E i \in Incident, record \in Alert, inside \in BOOLEAN : Issue(i, record, inside)
  \/ \E i \in Incident, record \in Alert : Revise(i, record)
  \/ \E i \in Incident, record \in Alert, inside \in BOOLEAN : Supersede(i, record, inside)
  \/ \E i \in Incident, severity \in Rank : End(i, severity)
  \/ \E up \in BOOLEAN : Availability(up)
  \/ \E inside \in SUBSET Incident : Retarget(inside)
  \/ \E level \in Rank : Attach(level)
  \/ Detach
  \/ \E i \in Incident : Fire(i)
  \/ Tick

Spec == Init /\ [][Next]_vars

-----------------------------------------------------------------------------
(* Properties                                                              *)

TypeOK ==
  /\ now \in Nat
  /\ alert \in [Incident -> Alert \cup {NoAlert}]
  /\ entity \in [Incident -> {0, 1}]
  /\ available \in BOOLEAN /\ attached \in BOOLEAN
  /\ target \subseteq Incident
  /\ threshold \in Rank
  /\ tracked \subseteq Incident
  /\ timers \in [Incident -> Timer \cup {NoTimer}]
  /\ fired \in [Incident -> Onset \cup {NoOnset}]
  /\ lit \subseteq Incident /\ watched \subseteq Incident

\* The instant a tracked entity's onset, with the offset, has yet to come, or
\* has just come with its callback on the way.
Awaits(i, at) ==
  /\ i \in tracked
  /\ OnsetShown(alert[i], available) # NoOnset
  /\ InstantOf[OnsetShown(alert[i], available)] + Offset = at

\* "One timer per alert, keyed on the attribute's value: a revision that moves
\* the time re-arms": through any revisions, supersessions, failed updates and
\* edits of the target, a timer waits for the instant its entity shows, and
\* every onset still to come has its timer (_arm, _handle_entities_update).
TimersFollowOnsets ==
  \A i \in Incident :
    /\ timers[i] # NoTimer => Awaits(i, timers[i].at)
    /\ \A at \in now + 1 .. MaxTime : Awaits(i, at) => timers[i].at = at

\* "Fired once per value": an incident's start is announced at most once for
\* an instant, however often the onset is revised there and back, the entity
\* replaced, the target edited or the automation reloaded, and never ahead of
\* its time or for an onset the entity no longer shows.
StartsOnce ==
  [][start' # NoStart =>
       LET i == start'.incident IN
         /\ start'.at \notin started[i]
         /\ start'.at <= now
         /\ Awaits(i, start'.at)]_vars

\* "Severe to extreme with the threshold at severe is not a crossing": the four
\* event triggers together tell exactly when an alert is at or over the
\* threshold, as long as it is tracked without a gap (_at_or_above,
\* _crossed_up, _crossed_down).
LightTellsSeverity ==
  threshold > 0 =>
    \A i \in watched : i \in lit <=> alert[i].severity >= threshold

-----------------------------------------------------------------------------
(* Liveness: the clock goes on, and the loop runs a timer that is due.      *)

FairSpec ==
  /\ Spec
  /\ WF_vars(Tick)
  /\ \A i \in Incident : WF_vars(Fire(i))

\* An onset that a tracked entity shows before its time, and goes on showing,
\* is reached: it is marked fired in the end.
OnsetReached ==
  \A i \in Incident, onset \in Onset, e \in {0, 1} :
    LET shows == entity[i] = e /\ OnsetShown(alert[i], available) = onset
    IN (shows /\ timers[i] # NoTimer /\ timers[i].at <= MaxTime)
       ~> (fired[i] = onset \/ i \notin tracked \/ ~shows)
=============================================================================
