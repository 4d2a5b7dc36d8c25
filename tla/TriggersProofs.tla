---------------------------- MODULE TriggersProofs ----------------------------
(***************************************************************************)
(* Proofs about Triggers.                                                  *)
(***************************************************************************)
EXTENDS Triggers, TLAPS

\* A timer waits for the instant an entity shows, an instant still to come has
\* its timer, and what is listened to is registered and inside.
TimersInv ==
  \A i \in Incident :
    /\ timers[i] # NoTimer => Awaits(i, timers[i].at)
    /\ \A at \in Int : at > now /\ Awaits(i, at) => timers[i] # NoTimer /\ timers[i].at = at

TrackedInv ==
  /\ tracked = IF attached THEN Registered(alert) \cap target ELSE {}
  /\ watched \subseteq tracked

\* Announced starts lie behind, armed ones were not announced.
StartedInv ==
  \A i \in Incident :
    /\ started[i] \subseteq Int
    /\ \A at \in started[i] : at <= now
    /\ timers[i] # NoTimer => timers[i].at \notin started[i]

\* What has fired lies behind.
FiredInv ==
  \A i \in Incident : fired[i] # NoOnset => InstantOf[fired[i]] + Offset <= now

StartedType == started \in [Incident -> SUBSET Int]

LightInv ==
  threshold > 0 =>
    \A i \in watched : i \in lit <=> alert[i].severity >= threshold

IInv == TypeOK /\ StartedType /\ TimersInv /\ FiredInv /\ TrackedInv /\ StartedInv /\ LightInv

LEMMA Constants ==
  /\ NoAlert \notin Alert /\ NoAlert.onset = NoOnset
  /\ NoTimer \notin Timer
  /\ \A t \in Timer : t.at \in Int /\ t.onset \in Onset
  /\ \A a \in Alert : a.onset \in Onset \cup {NoOnset} /\ a.severity \in Rank
  /\ \A r \in Rank : r \in Int
BY OnsetAssumption, RankAssumption DEF NoAlert, NoTimer, Alert, Timer, Rank

\* What _arm makes of a timer: a timer for the onset shown, or none when that
\* is no onset, one already fired or one whose instant has come.
LEMMA ArmedFacts ==
  ASSUME NEW timer \in Timer \cup {NoTimer}, NEW done \in Onset \cup {NoOnset},
         NEW onset \in Onset \cup {NoOnset}, NEW time \in Int
  PROVE  /\ Armed(timer, done, onset, time) \in Timer \cup {NoTimer}
         /\ Armed(timer, done, onset, time) # NoTimer =>
              /\ onset \in Onset /\ Armed(timer, done, onset, time).at = InstantOf[onset] + Offset
              /\ Armed(timer, done, onset, time) = timer \/ Armed(timer, done, onset, time).at > time
         /\ (onset \in Onset /\ onset # done /\ InstantOf[onset] + Offset > time) =>
              Armed(timer, done, onset, time) # NoTimer
BY OnsetAssumption, OffsetAssumption, Constants DEF Armed, Keeps, Past, Timer, NoTimer

\* After _handle_entities_update and the state writes, if every entity whose
\* rendering changed was written, the timers follow what the entities show.
LEMMA ShownType ==
  ASSUME NEW record \in Alert \cup {NoAlert}, NEW up \in BOOLEAN
  PROVE  OnsetShown(record, up) \in Onset \cup {NoOnset}
BY Constants DEF OnsetShown

\* After _handle_entities_update and the state writes, if every entity whose
\* rendering changed was written, the timers follow what the entities show.
LEMMA ListenFacts ==
  ASSUME IInv, NEW inside \in SUBSET Incident, NEW written,
         alert' \in [Incident -> Alert \cup {NoAlert}],
         available' \in BOOLEAN, now' = now,
         \A i \in inside : i \in written \/ tracked # inside \/
            OnsetShown(alert'[i], available') = OnsetShown(alert[i], available),
         Listen(inside, alert', available', written)
  PROVE  /\ timers' \in [Incident -> Timer \cup {NoTimer}]
         /\ fired' \in [Incident -> Onset \cup {NoOnset}]
         /\ tracked' = inside
         /\ TimersInv' /\ FiredInv'
         /\ \A i \in Incident : timers'[i] # NoTimer =>
              timers'[i] = timers[i] \/ timers'[i].at > now
<1> DEFINE shown(i) == OnsetShown(alert'[i], available')
<1> DEFINE armed(i) == Armed(timers[i], fired[i], shown(i), now)
<1> DEFINE awaits(i, at) == /\ i \in inside /\ shown(i) # NoOnset
                           /\ InstantOf[shown(i)] + Offset = at
<1>0. tracked' = inside /\ now \in Int
  BY DEF Listen, IInv, TypeOK
<1>1. \A i \in Incident : /\ shown(i) \in Onset \cup {NoOnset}
                          /\ timers[i] \in Timer \cup {NoTimer}
                          /\ fired[i] \in Onset \cup {NoOnset}
  BY ShownType DEF IInv, TypeOK
<1>2. \A i \in Incident :
        /\ armed(i) \in Timer \cup {NoTimer}
        /\ armed(i) # NoTimer =>
             /\ shown(i) \in Onset /\ armed(i).at = InstantOf[shown(i)] + Offset
             /\ armed(i) = timers[i] \/ armed(i).at > now
        /\ (shown(i) \in Onset /\ shown(i) # fired[i] /\ InstantOf[shown(i)] + Offset > now)
             => armed(i) # NoTimer
  <2> TAKE i \in Incident
  <2>1. /\ shown(i) \in Onset \cup {NoOnset} /\ timers[i] \in Timer \cup {NoTimer}
        /\ fired[i] \in Onset \cup {NoOnset}
    BY <1>1
  <2> HIDE DEF shown
  <2> QED BY <1>0, <2>1, ArmedFacts
<1>3. /\ timers' = [i \in Incident |->
           IF i \in tracked \ inside THEN NoTimer
           ELSE IF i \in inside /\ (i \in written \/ tracked # inside) THEN armed(i)
           ELSE timers[i]]
      /\ fired' = [i \in Incident |-> IF i \in tracked \ inside THEN NoOnset ELSE fired[i]]
  BY DEF Listen
<1> HIDE DEF armed
<1>4. timers' \in [Incident -> Timer \cup {NoTimer}] /\ fired' \in [Incident -> Onset \cup {NoOnset}]
  BY <1>1, <1>2, <1>3
<1>5. FiredInv'
  BY <1>3 DEF FiredInv, IInv
<1>6. ASSUME NEW i \in Incident
      PROVE  /\ timers'[i] # NoTimer =>
                  awaits(i, timers'[i].at) /\ (timers'[i] = timers[i] \/ timers'[i].at > now)
             /\ \A at \in Int : at > now /\ awaits(i, at) =>
                  timers'[i] # NoTimer /\ timers'[i].at = at
  <2>1. CASE i \notin inside
    <3>1. timers'[i] = NoTimer
      <4>1. CASE i \in tracked
        BY <2>1, <4>1, <1>3
      <4>2. CASE i \notin tracked
        BY <2>1, <4>2, <1>3 DEF IInv, TimersInv, Awaits
      <4> QED BY <4>1, <4>2
    <3> QED BY <3>1, <2>1
  <2>2. CASE i \in inside /\ (i \in written \/ tracked # inside)
    <3>1. timers'[i] = armed(i)
      BY <2>2, <1>3
    <3>2. ASSUME NEW at \in Int, at > now, awaits(i, at)
          PROVE  armed(i) # NoTimer /\ armed(i).at = at
      <4>1. shown(i) \in Onset /\ InstantOf[shown(i)] + Offset = at
        BY <3>2, <1>1
      <4>2. shown(i) # fired[i]
        BY <4>1, <3>2, <1>0, OnsetAssumption DEF IInv, FiredInv
      <4> QED BY <4>1, <4>2, <3>2, <1>2
    <3>3. armed(i) # NoTimer => awaits(i, armed(i).at)
      BY <2>2, <1>2, OnsetAssumption
    <3> QED BY <3>1, <3>2, <3>3, <1>2, <1>0
  <2>3. CASE i \in inside /\ i \notin written /\ tracked = inside
    <3>1. timers'[i] = timers[i] /\ shown(i) = OnsetShown(alert[i], available)
      BY <2>3, <1>3
    <3>2. \A at : awaits(i, at) <=> Awaits(i, at)
      BY <3>1, <2>3 DEF Awaits
    <3> QED BY <3>1, <3>2, <1>0 DEF IInv, TimersInv
  <2> QED BY <2>1, <2>2, <2>3
<1>7. TimersInv'
  BY <1>0, <1>6 DEF TimersInv, Awaits
<1> QED BY <1>0, <1>4, <1>5, <1>6, <1>7

LEMMA InitInv == Init => IInv
<1> SUFFICES ASSUME Init PROVE IInv
  OBVIOUS
<1>1. TypeOK
  BY DEF Init, TypeOK
<1>2. TimersInv /\ FiredInv /\ LightInv
  BY DEF Init, TimersInv, FiredInv, LightInv, Awaits
<1>3. StartedType /\ StartedInv
  BY DEF Init, StartedType, StartedInv
<1>4. TrackedInv
  BY DEF Init, TrackedInv
<1> QED BY <1>1, <1>2, <1>3, <1>4 DEF IInv

\* A step that only arms for instants to come announces no start twice.
LEMMA StartedKept ==
  ASSUME IInv, started' = started, now' \in Nat, now' >= now,
         \A i \in Incident : timers'[i] # NoTimer =>
            timers'[i] = timers[i] \/ timers'[i].at > now
  PROVE  StartedType' /\ StartedInv'
<1>1. now \in Nat
  BY DEF IInv, TypeOK
<1> QED BY <1>1 DEF IInv, StartedType, StartedInv

LEMMA IssueInv ==
  ASSUME IInv, NEW i \in Incident, NEW record \in Alert, NEW inside \in BOOLEAN,
         Issue(i, record, inside)
  PROVE  IInv'
<1> DEFINE S == IF attached THEN Registered(alert') \cap target' ELSE {}
<1>1. /\ alert' \in [Incident -> Alert \cup {NoAlert}] /\ alert'[i] = record
      /\ \A j \in Incident \ {i} : alert'[j] = alert[j]
      /\ available' = available /\ available = TRUE /\ now' = now /\ threshold' = threshold
      /\ started' = started /\ target' \subseteq Incident /\ attached' = attached
      /\ entity' = entity
  BY DEF Issue, IInv, TypeOK
<1>2. S \subseteq Incident /\ Listen(S, alert', available', {i})
  BY <1>1 DEF Issue, Registered
<1>3. \A j \in S : j \in {i} \/ tracked # S \/
         OnsetShown(alert'[j], available') = OnsetShown(alert[j], available)
  BY <1>1, <1>2
<1> HIDE DEF S
<1>4. /\ timers' \in [Incident -> Timer \cup {NoTimer}]
      /\ fired' \in [Incident -> Onset \cup {NoOnset}]
      /\ tracked' = S /\ TimersInv' /\ FiredInv'
      /\ \A j \in Incident : timers'[j] # NoTimer =>
           timers'[j] = timers[j] \/ timers'[j].at > now
  BY <1>1, <1>2, <1>3, ListenFacts DEF IInv, TypeOK
<1>5. StartedType' /\ StartedInv'
  BY <1>1, <1>4, StartedKept DEF IInv, TypeOK
<1>6. lit' \subseteq Incident /\ watched' \subseteq Incident /\ TrackedInv'
  <2>1. tracked' = IF attached' THEN Registered(alert') \cap target' ELSE {}
    BY <1>1, <1>4 DEF S
  <2>2. watched \subseteq tracked
    BY DEF IInv, TrackedInv
  <2>3. \A j \in tracked \ {i} : j \in tracked'
    BY <1>1, <2>1 DEF Issue, IInv, TrackedInv, Registered
  <2> QED BY <2>1, <2>2, <2>3, <1>1 DEF Issue, Light, IInv, TypeOK, TrackedInv
<1>7. LightInv'
  BY <1>1, <1>4, <1>6 DEF Issue, Light, AtOrAbove, IInv, TypeOK, LightInv, TrackedInv
<1>8. TypeOK'
  BY <1>1, <1>2, <1>4, <1>6 DEF IInv, TypeOK
<1> QED BY <1>4, <1>5, <1>6, <1>7, <1>8 DEF IInv

LEMMA ReviseInv ==
  ASSUME IInv, NEW i \in Incident, NEW record \in Alert, Revise(i, record)
  PROVE  IInv'
<1> DEFINE S == tracked
<1>1. /\ alert' \in [Incident -> Alert \cup {NoAlert}] /\ alert'[i] = record
      /\ \A j \in Incident \ {i} : alert'[j] = alert[j]
      /\ alert[i] \in Alert /\ record # NoAlert
      /\ available' = available /\ now' = now /\ threshold' = threshold
      /\ started' = started /\ target' = target /\ attached' = attached
      /\ entity' = entity
  BY Constants DEF Revise, config, IInv, TypeOK
<1>2. S \subseteq Incident /\ Listen(S, alert', available', {i})
  BY <1>1 DEF Revise, config, IInv, TypeOK, TrackedInv, Registered
<1>3. \A j \in S : j \in {i} \/ tracked # S \/
         OnsetShown(alert'[j], available') = OnsetShown(alert[j], available)
  BY <1>1, <1>2 DEF Revise
<1> HIDE DEF S
<1>4. /\ timers' \in [Incident -> Timer \cup {NoTimer}]
      /\ fired' \in [Incident -> Onset \cup {NoOnset}]
      /\ tracked' = S /\ TimersInv' /\ FiredInv'
      /\ \A j \in Incident : timers'[j] # NoTimer =>
           timers'[j] = timers[j] \/ timers'[j].at > now
  BY <1>1, <1>2, <1>3, ListenFacts DEF IInv, TypeOK
<1>5. StartedType' /\ StartedInv'
  BY <1>1, <1>4, StartedKept DEF IInv, TypeOK
<1>6. TrackedInv'
  <2>1. Registered(alert') = Registered(alert)
    BY <1>1, Constants DEF Registered
  <2>2. tracked' = tracked /\ watched' = watched
    BY <1>4 DEF Revise, S
  <2> QED BY <1>1, <2>1, <2>2 DEF IInv, TrackedInv
<1>7. LightInv'
  <2>1. record.severity \in Int /\ alert[i].severity \in Int /\ threshold \in Int
    BY <1>1, Constants DEF IInv, TypeOK
  <2> QED BY <1>1, <1>4, <2>1 DEF Revise, config, Light, CrossedUp, CrossedDown, IInv, LightInv, TrackedInv, S
<1>8. TypeOK'
  BY <1>1, <1>2, <1>4, <1>6 DEF Revise, config, Light, Watched, IInv, TypeOK
<1> QED BY <1>4, <1>5, <1>6, <1>7, <1>8 DEF IInv

LEMMA EndInv ==
  ASSUME IInv, NEW i \in Incident, NEW severity \in Rank, End(i, severity)
  PROVE  IInv'
<1> DEFINE S == tracked \ {i}
<1>1. /\ alert' \in [Incident -> Alert \cup {NoAlert}] /\ alert'[i] = NoAlert
      /\ \A j \in Incident \ {i} : alert'[j] = alert[j]
      /\ available' = available /\ available = TRUE /\ now' = now /\ threshold' = threshold
      /\ started' = started /\ target' = target /\ attached' = attached
      /\ entity' = entity
  BY DEF End, config, IInv, TypeOK
<1>2. S \subseteq Incident /\ Listen(S, alert', available', {})
  BY <1>1 DEF End, config, IInv, TypeOK, TrackedInv, Registered
<1>3. \A j \in S : j \in {} \/ tracked # S \/
         OnsetShown(alert'[j], available') = OnsetShown(alert[j], available)
  BY <1>1, <1>2 DEF End
<1> HIDE DEF S
<1>4. /\ timers' \in [Incident -> Timer \cup {NoTimer}]
      /\ fired' \in [Incident -> Onset \cup {NoOnset}]
      /\ tracked' = S /\ TimersInv' /\ FiredInv'
      /\ \A j \in Incident : timers'[j] # NoTimer =>
           timers'[j] = timers[j] \/ timers'[j].at > now
  BY <1>1, <1>2, <1>3, ListenFacts DEF IInv, TypeOK
<1>5. StartedType' /\ StartedInv'
  BY <1>1, <1>4, StartedKept DEF IInv, TypeOK
<1>6. TrackedInv'
  BY <1>1, <1>4 DEF End, config, Watched, IInv, TrackedInv, Registered, S
<1>7. LightInv'
  BY <1>1, <1>4 DEF End, config, IInv, LightInv, TrackedInv
<1>8. TypeOK'
  BY <1>1, <1>2, <1>4, <1>6 DEF End, config, Light, Watched, IInv, TypeOK
<1> QED BY <1>4, <1>5, <1>6, <1>7, <1>8 DEF IInv

LEMMA AvailabilityInv ==
  ASSUME IInv, NEW up \in BOOLEAN, Availability(up)
  PROVE  IInv'
<1> DEFINE S == tracked
<1>1. /\ alert' = alert /\ now' = now /\ threshold' \in Rank
      /\ available' \in BOOLEAN /\ attached' \in BOOLEAN /\ target' \subseteq Incident
      /\ started' = started /\ entity' = entity
  BY DEF Availability, config, IInv, TypeOK
<1>2. S \subseteq Incident /\ Listen(S, alert', available', tracked)
  BY <1>1 DEF Availability, config, IInv, TypeOK, TrackedInv, Registered
<1>3. \A j \in S : j \in tracked \/ tracked # S \/
         OnsetShown(alert'[j], available') = OnsetShown(alert[j], available)
  BY <1>1, <1>2 DEF Availability
<1> HIDE DEF S
<1>4. /\ timers' \in [Incident -> Timer \cup {NoTimer}]
      /\ fired' \in [Incident -> Onset \cup {NoOnset}]
      /\ tracked' = S /\ TimersInv' /\ FiredInv'
      /\ \A j \in Incident : timers'[j] # NoTimer =>
           timers'[j] = timers[j] \/ timers'[j].at > now
  BY <1>1, <1>2, <1>3, ListenFacts DEF IInv, TypeOK
<1>5. StartedType' /\ StartedInv'
  BY <1>1, <1>4, StartedKept DEF IInv, TypeOK
<1>6. TrackedInv'
  BY <1>1, <1>4 DEF Availability, config, Watched, IInv, TrackedInv, Registered, S
<1>7. LightInv'
  BY <1>1, <1>4 DEF Availability, config, IInv, LightInv
<1>8. TypeOK'
  BY <1>1, <1>2, <1>4, <1>6 DEF Availability, config, Light, Watched, IInv, TypeOK
<1> QED BY <1>4, <1>5, <1>6, <1>7, <1>8 DEF IInv

LEMMA RetargetInv ==
  ASSUME IInv, NEW inside \in SUBSET Incident, Retarget(inside)
  PROVE  IInv'
<1> DEFINE S == IF attached THEN Registered(alert) \cap inside ELSE {}
<1>1. /\ alert' = alert /\ now' = now /\ threshold' \in Rank
      /\ available' \in BOOLEAN /\ attached' \in BOOLEAN /\ target' \subseteq Incident
      /\ started' = started /\ entity' = entity
  BY DEF Retarget, config, IInv, TypeOK
<1>2. S \subseteq Incident /\ Listen(S, alert', available', {})
  BY <1>1 DEF Retarget, config, IInv, TypeOK, TrackedInv, Registered
<1>3. \A j \in S : j \in {} \/ tracked # S \/
         OnsetShown(alert'[j], available') = OnsetShown(alert[j], available)
  BY <1>1, <1>2 DEF Retarget
<1> HIDE DEF S
<1>4. /\ timers' \in [Incident -> Timer \cup {NoTimer}]
      /\ fired' \in [Incident -> Onset \cup {NoOnset}]
      /\ tracked' = S /\ TimersInv' /\ FiredInv'
      /\ \A j \in Incident : timers'[j] # NoTimer =>
           timers'[j] = timers[j] \/ timers'[j].at > now
  BY <1>1, <1>2, <1>3, ListenFacts DEF IInv, TypeOK
<1>5. StartedType' /\ StartedInv'
  BY <1>1, <1>4, StartedKept DEF IInv, TypeOK
<1>6. TrackedInv'
  BY <1>1, <1>4 DEF Retarget, config, Watched, IInv, TrackedInv, Registered, S
<1>7. LightInv'
  BY <1>1, <1>4 DEF Retarget, config, Watched, IInv, LightInv
<1>8. TypeOK'
  BY <1>1, <1>2, <1>4, <1>6 DEF Retarget, config, Light, Watched, IInv, TypeOK
<1> QED BY <1>4, <1>5, <1>6, <1>7, <1>8 DEF IInv

LEMMA AttachInv ==
  ASSUME IInv, NEW level \in Rank, Attach(level)
  PROVE  IInv'
<1> DEFINE S == Registered(alert) \cap target
<1>1. /\ alert' = alert /\ now' = now /\ threshold' \in Rank
      /\ available' \in BOOLEAN /\ attached' \in BOOLEAN /\ target' \subseteq Incident
      /\ started' = started /\ entity' = entity
  BY DEF Attach, config, IInv, TypeOK
<1>2. S \subseteq Incident /\ Listen(S, alert', available', {})
  BY <1>1 DEF Attach, config, IInv, TypeOK, TrackedInv, Registered
<1>3. \A j \in S : j \in {} \/ tracked # S \/
         OnsetShown(alert'[j], available') = OnsetShown(alert[j], available)
  BY <1>1, <1>2 DEF Attach
<1> HIDE DEF S
<1>4. /\ timers' \in [Incident -> Timer \cup {NoTimer}]
      /\ fired' \in [Incident -> Onset \cup {NoOnset}]
      /\ tracked' = S /\ TimersInv' /\ FiredInv'
      /\ \A j \in Incident : timers'[j] # NoTimer =>
           timers'[j] = timers[j] \/ timers'[j].at > now
  BY <1>1, <1>2, <1>3, ListenFacts DEF IInv, TypeOK
<1>5. StartedType' /\ StartedInv'
  BY <1>1, <1>4, StartedKept DEF IInv, TypeOK
<1>6. TrackedInv'
  BY <1>1, <1>4 DEF Attach, config, Watched, IInv, TrackedInv, Registered, S
<1>7. LightInv'
  BY <1>1, <1>4 DEF Attach, config, IInv, LightInv
<1>8. TypeOK'
  BY <1>1, <1>2, <1>4, <1>6 DEF Attach, config, Light, Watched, IInv, TypeOK
<1> QED BY <1>4, <1>5, <1>6, <1>7, <1>8 DEF IInv

LEMMA SupersedeInv ==
  ASSUME IInv, NEW i \in Incident, NEW record \in Alert, NEW inside \in BOOLEAN,
         Supersede(i, record, inside)
  PROVE  IInv'
<1> DEFINE armed == Armed(NoTimer, NoOnset, record.onset, now)
<1>1. /\ alert' \in [Incident -> Alert \cup {NoAlert}] /\ alert'[i] = record
      /\ \A j \in Incident \ {i} : alert'[j] = alert[j]
      /\ alert[i] \in Alert /\ record # NoAlert
      /\ available' = available /\ available = TRUE /\ now' = now /\ threshold' = threshold
      /\ started' = started /\ attached' = attached /\ target' \subseteq Incident
      /\ now \in Nat /\ entity' \in [Incident -> {0, 1}]
  BY Constants DEF Supersede, IInv, TypeOK
<1>2. /\ tracked' = IF attached' THEN Registered(alert') \cap target' ELSE {}
      /\ tracked' \subseteq Incident
      /\ \A j \in Incident \ {i} : j \in tracked' <=> j \in tracked
  <2>1. \A j \in Incident \ {i} : /\ j \in target' <=> j \in target
                                  /\ j \in Registered(alert') <=> j \in Registered(alert)
    BY <1>1 DEF Supersede, Registered
  <2> QED BY <1>1, <2>1 DEF Supersede, IInv, TrackedInv, Registered
<1>3. /\ record.onset \in Onset \cup {NoOnset}
      /\ armed \in Timer \cup {NoTimer}
      /\ armed # NoTimer =>
           /\ record.onset \in Onset /\ armed.at = InstantOf[record.onset] + Offset
           /\ armed.at > now
      /\ (record.onset \in Onset /\ InstantOf[record.onset] + Offset > now) => armed # NoTimer
  <2>1. record.onset \in Onset \cup {NoOnset}
    BY Constants
  <2>2. /\ armed \in Timer \cup {NoTimer}
        /\ armed # NoTimer =>
              /\ record.onset \in Onset /\ armed.at = InstantOf[record.onset] + Offset
              /\ armed = NoTimer \/ armed.at > now
        /\ (record.onset \in Onset /\ record.onset # NoOnset
            /\ InstantOf[record.onset] + Offset > now) => armed # NoTimer
    <3>1. NoTimer \in Timer \cup {NoTimer} /\ NoOnset \in Onset \cup {NoOnset} /\ now \in Int
      BY <1>1
    <3> QED BY <2>1, <3>1, ArmedFacts
  <2> HIDE DEF armed
  <2> QED BY <2>1, <2>2, OnsetAssumption
<1>4. /\ timers' = [timers EXCEPT ![i] = IF i \in tracked' THEN armed ELSE NoTimer]
      /\ fired' = [fired EXCEPT ![i] = NoOnset]
  BY DEF Supersede
<1> HIDE DEF armed
<1>5. /\ timers' \in [Incident -> Timer \cup {NoTimer}]
      /\ fired' \in [Incident -> Onset \cup {NoOnset}]
      /\ timers'[i] = IF i \in tracked' THEN armed ELSE NoTimer
      /\ \A j \in Incident \ {i} : timers'[j] = timers[j]
      /\ \A j \in Incident : timers'[j] # NoTimer =>
           timers'[j] = timers[j] \/ timers'[j].at > now
  BY <1>3, <1>4 DEF IInv, TypeOK
<1>6. StartedType' /\ StartedInv'
  BY <1>1, <1>5, StartedKept
<1>7. FiredInv'
  BY <1>1, <1>4 DEF IInv, TypeOK, FiredInv
<1>8. ASSUME NEW j \in Incident
      PROVE  /\ timers'[j] # NoTimer =>
                  /\ j \in tracked' /\ OnsetShown(alert'[j], available') # NoOnset
                  /\ InstantOf[OnsetShown(alert'[j], available')] + Offset = timers'[j].at
             /\ \A at \in Int : (/\ at > now' /\ j \in tracked'
                                 /\ OnsetShown(alert'[j], available') # NoOnset
                                 /\ InstantOf[OnsetShown(alert'[j], available')] + Offset = at)
                  => timers'[j] # NoTimer /\ timers'[j].at = at
  <2>1. CASE j = i
    BY <2>1, <1>1, <1>3, <1>5, OnsetAssumption DEF OnsetShown
  <2>2. CASE j # i
    BY <2>2, <1>1, <1>2, <1>5 DEF IInv, TimersInv, Awaits
  <2> QED BY <2>1, <2>2
<1>9. TimersInv'
  BY <1>8 DEF TimersInv, Awaits
<1>10. TrackedInv'
  BY <1>2 DEF Supersede, Watched, TrackedInv
<1>11. LightInv'
  <2>1. record.severity \in Int /\ alert[i].severity \in Int /\ threshold \in Int
    BY <1>1, Constants DEF IInv, TypeOK
  <2> QED BY <1>1, <1>2, <2>1
        DEF Supersede, Watched, Light, CrossedUp, CrossedDown, IInv, LightInv, TypeOK
<1>12. TypeOK'
  BY <1>1, <1>2, <1>5 DEF Supersede, Watched, Light, IInv, TypeOK
<1> QED BY <1>6, <1>7, <1>9, <1>10, <1>11, <1>12 DEF IInv

LEMMA DetachInv ==
  ASSUME IInv, Detach
  PROVE  IInv'
<1>1. \A i \in Incident : timers'[i] = NoTimer /\ fired'[i] = NoOnset
  BY DEF Detach
<1>2. TypeOK' /\ TrackedInv' /\ LightInv' /\ StartedType'
  BY DEF Detach, IInv, TypeOK, TrackedInv, LightInv, StartedType
<1>3. TimersInv' /\ FiredInv' /\ StartedInv'
  BY <1>1 DEF Detach, IInv, TimersInv, Awaits, FiredInv, StartedInv
<1> QED BY <1>2, <1>3 DEF IInv

LEMMA FireInv ==
  ASSUME IInv, NEW i \in Incident, Fire(i)
  PROVE  IInv'
<1>1. /\ timers[i] \in Timer /\ timers[i].at \in Int /\ timers[i].at <= now /\ now \in Nat
      /\ timers[i].onset \in Onset
      /\ timers' = [timers EXCEPT ![i] = NoTimer]
  BY Constants DEF Fire, IInv, TypeOK
<1>2. /\ alert' = alert /\ now' = now /\ tracked' = tracked /\ threshold' = threshold
      /\ available' = available /\ attached' = attached /\ target' = target
      /\ lit' = lit /\ watched' = watched /\ entity' = entity
  BY DEF Fire, config
<1>3. Awaits(i, timers[i].at)
  BY DEF Fire, IInv, TimersInv
<1>4. TimersInv'
  BY <1>1, <1>2, <1>3 DEF IInv, TypeOK, TimersInv, Awaits
<1>5. FiredInv' /\ fired' \in [Incident -> Onset \cup {NoOnset}]
  BY <1>1, <1>2, <1>3 DEF Fire, StillShown, Awaits, IInv, TypeOK, FiredInv
<1>6. StartedType' /\ StartedInv'
  BY <1>1, <1>2 DEF Fire, IInv, TypeOK, StartedType, StartedInv
<1>7. TypeOK'
  BY <1>1, <1>2, <1>5 DEF IInv, TypeOK
<1>8. TrackedInv' /\ LightInv'
  BY <1>2 DEF IInv, TrackedInv, LightInv
<1> QED BY <1>4, <1>5, <1>6, <1>7, <1>8 DEF IInv

LEMMA TickInv ==
  ASSUME IInv, Tick
  PROVE  IInv'
<1>1. /\ now \in Nat /\ now' = now + 1
      /\ alert' = alert /\ entity' = entity /\ available' = available
      /\ target' = target /\ attached' = attached /\ threshold' = threshold
      /\ tracked' = tracked /\ timers' = timers /\ fired' = fired /\ started' = started
      /\ lit' = lit /\ watched' = watched
  BY DEF Tick, config, IInv, TypeOK
<1>2. TypeOK' /\ StartedType' /\ TrackedInv' /\ LightInv'
  BY <1>1 DEF IInv, TypeOK, StartedType, TrackedInv, LightInv
<1>3. TimersInv'
  BY <1>1 DEF IInv, TimersInv, Awaits
<1>4. FiredInv'
  <2>1. \A o \in Onset : InstantOf[o] + Offset \in Int
    BY OnsetAssumption, OffsetAssumption
  <2> QED BY <1>1, <2>1 DEF IInv, TypeOK, FiredInv
<1>5. StartedInv'
  BY <1>1 DEF IInv, StartedInv
<1> QED BY <1>2, <1>3, <1>4, <1>5 DEF IInv

LEMMA StepInv == IInv /\ [Next]_vars => IInv'
<1> SUFFICES ASSUME IInv, [Next]_vars PROVE IInv'
  OBVIOUS
<1>1. CASE Next
  BY <1>1, IssueInv, ReviseInv, SupersedeInv, EndInv, AvailabilityInv, RetargetInv,
     AttachInv, DetachInv, FireInv, TickInv DEF Next
<1>2. CASE UNCHANGED vars
  BY <1>2 DEF vars, config, IInv, TypeOK, StartedType, TimersInv, Awaits, FiredInv,
     TrackedInv, StartedInv, LightInv
<1> QED BY <1>1, <1>2

LEMMA Invariance == Spec => []IInv
BY InitInv, StepInv, PTL DEF Spec

-----------------------------------------------------------------------------

\* The listeners' state keeps its type, for any incidents, onsets and offset.
THEOREM TypeCorrect == Spec => []TypeOK
<1>1. IInv => TypeOK
  BY DEF IInv
<1> QED BY <1>1, Invariance, PTL

\* However alerts are revised, superseded and lost, entities unavailable,
\* targets edited and automations reloaded, the timers armed are those of the
\* onsets shown (_arm, _handle_entities_update).
THEOREM TimersAlwaysFollow == Spec => []TimersFollowOnsets
<1>1. IInv => TimersFollowOnsets
  <2> SUFFICES ASSUME IInv, NEW i \in Incident
               PROVE  /\ timers[i] # NoTimer => Awaits(i, timers[i].at)
                      /\ \A at \in now + 1 .. MaxTime : Awaits(i, at) => timers[i].at = at
    BY DEF TimersFollowOnsets
  <2>1. \A at \in now + 1 .. MaxTime : at \in Int /\ at > now
    BY TimeAssumption DEF IInv, TypeOK
  <2> QED BY <2>1 DEF IInv, TimersInv
<1> QED BY <1>1, Invariance, PTL

\* A start is announced at most once for an instant, at or after it, for the
\* onset the entity shows (_fire), for any number of incidents and revisions.
THEOREM StartsAnnouncedOnce == Spec => StartsOnce
<1> DEFINE A == start' # NoStart =>
       LET i == start'.incident IN
         /\ start'.at \notin started[i]
         /\ start'.at <= now
         /\ Awaits(i, start'.at)
<1>1. ASSUME IInv, Next PROVE A
  <2>1. ASSUME NEW i \in Incident, Fire(i) PROVE A
    <3>1. timers[i] # NoTimer /\ timers[i].at <= now
      BY <2>1 DEF Fire
    <3>2. timers[i].at \notin started[i] /\ Awaits(i, timers[i].at)
      BY <1>1, <3>1 DEF IInv, StartedInv, TimersInv
    <3>3. start' # NoStart => start'.incident = i /\ start'.at = timers[i].at
      BY <2>1 DEF Fire
    <3> QED BY <3>1, <3>2, <3>3
  <2>2. (\A i \in Incident : ~Fire(i)) => start' = NoStart
    BY <1>1 DEF Next, Issue, Revise, Supersede, End, Availability, Retarget, Attach,
       Detach, Tick
  <2> QED BY <2>1, <2>2
<1>2. IInv /\ [Next]_vars => [A]_vars
  BY <1>1
<1> QED BY <1>2, Invariance, PTL DEF Spec, StartsOnce

\* For any threshold over `any', the light the four event triggers drive is on
\* exactly for the alerts at or over the threshold, among those tracked without
\* a gap (_at_or_above, _crossed_up, _crossed_down).
THEOREM LightAlwaysTells == Spec => []LightTellsSeverity
<1>1. IInv => LightTellsSeverity
  BY DEF IInv, LightInv, LightTellsSeverity
<1> QED BY <1>1, Invariance, PTL
=============================================================================
