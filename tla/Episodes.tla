------------------------------ MODULE Episodes ------------------------------
(***************************************************************************)
(* The episode dialects of providers/meteoalarm_conventions.py: two senders *)
(* publish one continuous warning as a chain of messages, MeteoFrance one   *)
(* per forecast day, FMI one per window.  A fetch drops the markers, splits *)
(* the messages by configured region, and merges each run of consecutive    *)
(* ones into one alert whose id has no window unless an earlier run of the  *)
(* same hazard and region is still live.                                    *)
(*                                                                          *)
(* A message is a record: its sender, hazard and regions, its window onset  *)
(* to expires, when it was sent, its severity, and pos, its place in the    *)
(* feed.  Times are hours.                                                  *)
(***************************************************************************)
EXTENDS Integers, FiniteSets

CONSTANTS Hazards, Regions,
          DayLength    \* hours of a forecast day

None == -1             \* no <expires>

ASSUME EpisodeAssumption == DayLength \in Nat \ {0}

Message == [sender : {"meteofrance", "fmi"}, hazard : Hazards,
            regions : SUBSET Regions, onset : Nat, expires : Nat \cup {None},
            sent : Nat, severity : Nat, pos : Nat]

\* No two messages of a feed have the same place.
IsFeed(M) == M \subseteq Message /\ \A m, n \in M : m.pos = n.pos => m = n

\* A MeteoFrance message whose window is empty says that there is no warning.
IsLiveWarning(m) ==
  m.sender = "meteofrance" => m.expires = None \/ m.expires > m.onset

IsFinished(m, now) == m.expires # None /\ m.expires =< now

\* In region-picker mode a message becomes one per configured region.
Explode(M, wanted) ==
  IF wanted = {} THEN M
  ELSE UNION {{[m EXCEPT !.regions = {r}] : r \in m.regions \cap wanted} : m \in M}

GroupKey(m) == <<m.sender, m.hazard, m.regions>>

\* What is left to merge under one key.
Group(M, wanted, key, now) ==
  {m \in Explode(M, wanted) :
     GroupKey(m) = key /\ IsLiveWarning(m) /\ ~IsFinished(m, now)}

-----------------------------------------------------------------------------
(* MeteoFrance: runs of consecutive forecast days, one message for a day. *)

Day(m) == m.onset \div DayLength

\* The stronger message speaks for a day, then the later sent, then the first.
Outranks(m, n) ==
  \/ m.severity > n.severity
  \/ m.severity = n.severity /\ m.sent > n.sent
  \/ m.severity = n.severity /\ m.sent = n.sent /\ m.pos < n.pos
ByDay(G) == {m \in G : \A n \in G \ {m} : Day(n) = Day(m) => Outranks(m, n)}

\* FMI: runs of windows that touch, in the order of the windows.
Instant(t) == IF t = None THEN <<1, 0>> ELSE <<0, t>>
Edge(m) == Instant(m.expires)
Sooner(x, y) == x[1] < y[1] \/ (x[1] = y[1] /\ x[2] < y[2])
Reaches(n, m) == n.expires # None /\ n.expires >= m.onset

-----------------------------------------------------------------------------
(* The merge, for either rule. *)

\* The messages a run is made of, and their order.
Members(s, G) == IF s = "meteofrance" THEN ByDay(G) ELSE G
Before(m, n) ==
  \/ m.onset < n.onset
  \/ m.onset = n.onset /\ Sooner(Edge(m), Edge(n))
  \/ m.onset = n.onset /\ Edge(m) = Edge(n) /\ m.pos < n.pos

\* m goes on where a message before it ended.
Continues(s, m, R) ==
  IF s = "meteofrance" THEN \E n \in R : Day(n) = Day(m) - 1
  ELSE \E n \in R : Before(n, m) /\ Reaches(n, m)
Starts(s, R) == {m \in R : ~Continues(s, m, R)}

\* The messages from a start to the next.
Run(s, R, b) ==
  {m \in R : ~Before(m, b) /\ \A c \in Starts(s, R) : Before(b, c) => Before(m, c)}
IsFirst(b, R) == \A n \in R : ~Before(n, b)

\* What a later run adds to its id: as fine as its rule can cut.
WindowKey(s, b) == IF s = "meteofrance" THEN <<Day(b)>> ELSE <<b.onset, b.expires>>
EpisodeId(s, key, R, b) ==
  [key |-> key, window |-> IF IsFirst(b, R) THEN <<>> ELSE WindowKey(s, b)]

\* The message whose content the episode takes: the most severe, then first.
Dominates(m, n) ==
  m.severity > n.severity \/ (m.severity = n.severity /\ ~Before(n, m))
Earliest(T) == CHOOSE t \in T : \A u \in T : t =< u
Latest(T) == CHOOSE t \in T : \A u \in T : t >= u

MergeRun(s, key, R, b) ==
  LET run == Run(s, R, b)
      dominant == CHOOSE m \in run : \A n \in run : Dominates(m, n)
      ends == {m.expires : m \in run} \ {None}
  IN  [id |-> EpisodeId(s, key, R, b), severity |-> dominant.severity,
       onset |-> Earliest({m.onset : m \in run}),
       expires |-> IF ends = {} THEN None ELSE Latest(ends)]

\* The alerts of a fetch.
MergeEpisodes(M, wanted, now) ==
  UNION {LET s == key[1]
             R == Members(s, Group(M, wanted, key, now))
         IN  {MergeRun(s, key, R, b) : b \in Starts(s, R)} :
           key \in {GroupKey(m) : m \in Explode(M, wanted)}}

-----------------------------------------------------------------------------
(* The runs as the code finds them: over the messages in order, into the   *)
(* run at hand or a new one.                                               *)

Ordered(R) == [i \in 1..Cardinality(R) |->
                CHOOSE m \in R : Cardinality({n \in R : Before(n, m)}) = i - 1]
Reach(run) == LET ends == {m.expires : m \in run} \ {None}
              IN IF ends = {} THEN None ELSE Latest(ends)
Joins(s, m, run, previous) ==
  IF s = "meteofrance" THEN Day(m) - Day(previous) =< 1
  ELSE Reach(run) # None /\ m.onset =< Reach(run)

\* The runs so far, each with the message it began with.
Closed(at) == IF at.run = {} THEN at.runs ELSE at.runs \cup {<<at.first, at.run>>}
NextMessage(s, at, m, previous) ==
  IF at.run # {} /\ Joins(s, m, at.run, previous)
  THEN [runs |-> at.runs, first |-> at.first, run |-> at.run \cup {m}]
  ELSE [runs |-> Closed(at), first |-> m, run |-> {m}]
RunsLoop(s, R) ==
  LET o == Ordered(R)
      loop[i \in 0..Cardinality(R)] ==
        IF i = 0 THEN [runs |-> {}, first |-> None, run |-> {}]
        ELSE NextMessage(s, loop[i - 1], o[i], o[i - 1])
  IN Closed(loop[Cardinality(R)])

-----------------------------------------------------------------------------
(* What the senders keep to. *)

\* MeteoFrance's forecast days end at the latest with the day after; FMI's
\* windows have an end, and none before it begins.
Regular(m) ==
  IF m.sender = "meteofrance"
  THEN m.expires # None /\ m.expires =< (Day(m) + 2) * DayLength
  ELSE m.expires # None /\ m.expires >= m.onset
=============================================================================
