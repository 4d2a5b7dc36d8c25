--------------------------- MODULE MCSourcePolls ---------------------------
(* Two warnings: one without expiry that the point lies in, one that expires *)
(* and lies outside; every provider, with and without a point where it has   *)
(* both, and WMO with a mirror that works and one that is gone.  The run's    *)
(* assumptions check MeteoAlarm's episodes.                                  *)
EXTENDS SourcePolls, MCEpisodes

CONSTANTS a, b

MCAlerts == {a, b}
MCInside == [x \in MCAlerts |-> x = a]
MCLifetime == [x \in MCAlerts |-> IF x = a THEN Never ELSE 1]
MCSlot == [x \in MCAlerts |-> IF x = a THEN "one" ELSE "two"]

\* On ECCC a warning covers the place and one beyond it, in two languages.
\* The second revision of a ends it at the place, the last one everywhere; b
\* has ended there by the first revision still listed, and its second takes
\* the place up again.
EndedNear(d) == IF d.alert = a THEN d.rev > 1 ELSE d.rev # 2
InfoOf(lang, near, ended) ==
  [lang |-> lang, province |-> TRUE, covers |-> near, boxed |-> TRUE, ended |-> ended,
   threats |-> {}, key |-> IF near THEN "near" ELSE "far"]
MCInfos ==
  [d \in [alert : MCAlerts, rev : 1..3] |->
     <<InfoOf(1, TRUE, EndedNear(d)), InfoOf(1, FALSE, d.rev > 2),
       InfoOf(2, TRUE, EndedNear(d)), InfoOf(2, FALSE, d.rev > 2)>>]

\* a may be revised, b is not.
Scope(p, gps, retired, revs) ==
  [provider |-> p, gps |-> gps, retired |-> retired, wanted |-> Doc,
   revs |-> [x \in MCAlerts |-> IF x = a THEN revs ELSE 1]]
Alone(s) == [s EXCEPT !.revs[b] = 0]
\* b alone, which is revised.
Other(s) == [s EXCEPT !.revs[a] = 0, !.revs[b] = 2]
\* The second revision is below the entry's lowest level.
Floored(s) == [s EXCEPT !.wanted = {d \in Doc : d.rev # 2}]
\* The cancellation names none of the codes that the entry keeps.
Spared(s) == [s EXCEPT !.wanted = {d \in Doc : d.rev # Final}]
MCSetups ==
  {Scope(p, FALSE, FALSE, 1) : p \in {"nws", "twc", "bbk"}}
  \cup {Scope(p, FALSE, FALSE, 2) : p \in {"au", "meteoalarm"}}
  \cup {Scope(p, TRUE, FALSE, 2) : p \in {"geosphere", "gdacs", "bbk"}}
  \cup {Scope("wmo", gps, TRUE, 1) : gps \in BOOLEAN}
  \cup {Spared(Alone(Scope("nws", FALSE, FALSE, 1)))}
  \cup {Floored(Scope("au", FALSE, FALSE, 2)), Floored(Alone(Scope("gdacs", TRUE, FALSE, 2)))}
  \cup {Alone(Scope("eccc", gps, FALSE, 2)) : gps \in BOOLEAN}
  \cup {Other(Scope("eccc", TRUE, FALSE, 0))}
  \cup {Alone(Scope("wmo", FALSE, FALSE, 1))}
=============================================================================
