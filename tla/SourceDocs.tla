----------------------------- MODULE SourceDocs -----------------------------
(***************************************************************************)
(* What the nine sources publish and what each provider makes of it: the   *)
(* documents of a warning's revisions, the alert a provider builds of a    *)
(* document (custom_components/cap_alerts/providers/*.py), the filters a   *)
(* batch goes through and the absence rule of store.py.  Constant-level:   *)
(* SourcePolls.tla is the machine that polls.                              *)
(***************************************************************************)
EXTENDS Integers, FiniteSets, ECCCRegion

CONSTANTS Alerts,      \* warnings, as the source thinks of them
          Revisions,   \* how often a warning is issued or revised
          Inside,      \* [Alerts -> BOOLEAN]: its polygon holds the point
          Lifetime,    \* [Alerts -> Nat or Never]: the expiry it publishes
          DefaultLife, \* the expiry of sources whose alerts all carry one
          Infos        \* [Doc -> Seq(Block)]: the blocks of ECCC's documents

Never == -1            \* no <expires>
Final == Revisions + 1 \* the message that ends it, where a source has one

ASSUME SourceAssumption ==
  /\ IsFiniteSet(Alerts) /\ Revisions \in Nat \ {0}
  /\ Inside \in [Alerts -> BOOLEAN]
  /\ Lifetime \in [Alerts -> Nat \cup {Never}]
  /\ DefaultLife \in Nat \ {0}

\* A CAP message: one revision of one warning.
Doc == [alert : Alerts, rev : 1..Final]
ASSUME InfosAssumption == Infos \in [Doc -> Seq(Block)]
Of(D) == {d.alert : d \in D}

\* The id of a document, and the id every revision of its event shares.
DocId(d) == d
EventId(d) == [d EXCEPT !.rev = 0]

\* The builders: the alert's id, the ticks it still has when it is issued,
\* and whether the message itself says that the warning is over.
Built(id, life, ends) == [id |-> id, life |-> life, ends |-> ends]

\* VTEC names the event; a record on the active endpoint never ends it.
NWSId(d) == EventId(d)
NWSAlert(d) == Built(NWSId(d), Lifetime[d.alert], d.rev = Final)
\* (eventtype, eventid), not the episode; todate is no expiry.
GDACSAlert(d) == Built(EventId(d), Never, FALSE)
\* DWD publishes an expiry, MoWaS none.
BBKAlert(d) == Built(DocId(d), Lifetime[d.alert], FALSE)
\* Two authorities in a hundred publish no expiry.
WMOAlert(d) == Built(DocId(d), Lifetime[d.alert], FALSE)
\* The feed's <expires> is a regeneration time and is left blank.
AUAlert(d) == Built(EventId(d), Never, FALSE)
GeoSphereAlert(d) == Built(EventId(d), DefaultLife, FALSE)
MeteoAlarmAlert(d) == Built(DocId(d), DefaultLife, FALSE)
\* A cancellation bulletin of the event ends it.
TWCAlert(d) == Built(EventId(d), DefaultLife, d.rev = Final)
\* Ended where the blocks that match the region are: ECCCRegion.
ECCCAlert(d) == Built(DocId(d), DefaultLife, FALSE)
ECCCReads == [r \in Scopes |-> {d \in Doc : BodyIsRead(Infos[d], r)}]
ECCCBuilds == [r \in Scopes |-> {d \in Doc : AlertsOf(Infos[d], r, 1) # {}}]
ECCCEnds == [r \in Scopes |-> {d \in Doc : EndsHere(Infos[d], r, 1)}]

Alert(p, d) ==
  CASE p = "nws" -> NWSAlert(d)             [] p = "gdacs" -> GDACSAlert(d)
    [] p = "bbk" -> BBKAlert(d)             [] p = "wmo" -> WMOAlert(d)
    [] p = "au" -> AUAlert(d)               [] p = "geosphere" -> GeoSphereAlert(d)
    [] p = "meteoalarm" -> MeteoAlarmAlert(d) [] p = "twc" -> TWCAlert(d)
    [] p = "eccc" -> ECCCAlert(d)

Life(p, a) == Alert(p, [alert |-> a, rev |-> 1]).life
Ids(p, D) == {Alert(p, d).id : d \in D}

\* Sources that publish the end as a message of the feed they are polled on.
Declares == {"twc", "eccc"}
\* conventions with a terminal vocabulary or a termination lookup: absence
\* of an alert without expiry is not yet its end.
HasExit == {"nws", "twc", "eccc"}

\* Mutant: kept for ever without an expiry, exit or not.
RetainUnexpired(p, left) == left # 0
\* store._retain_on_absence: left is the time to the published expiry.
RetainOnAbsence(p, left) == IF left # Never THEN left > 0 ELSE p \in HasExit

\* Documents no other document of the batch references.
ChainLeaves(D) ==
  {d \in D : ~\E e \in D : e.alert = d.alert /\ e.rev > d.rev}

\* GDACS: one item per event of the two indexes, the last modified one.
MergeIndexes(D) ==
  {d \in D : \A e \in D : EventId(e) = EventId(d) => e.rev =< d.rev}

\* NWS: a product and its re-issue on two pages are one alert, the newer.
CollapseReissues(D) ==
  {d \in D : \A e \in D : NWSId(e) = NWSId(d) => e.rev =< d.rev}

\* BBK drops index rows, WMO bodies, whose expiry has passed; one that
\* publishes none stays.
LiveDocs(D, left) == {d \in D : left[d.alert] # 0}

\* One option each, of the batch's other filters: the entry keeps the
\* warnings whose polygon holds its point.  An alert without a shape is
\* dropped, and a batch in which none has one is no answer at all.
NoShapes(D, drawn) == D # {} /\ D \cap drawn = {}
ByPolygon(D, drawn) == {d \in D \cap drawn : Inside[d.alert]}
=============================================================================
