----------------------------- MODULE ECCCRegion -----------------------------
(***************************************************************************)
(* What an ECCC document says about the configured region                   *)
(* (providers/eccc.py, build_alerts_from_cap_docs): a document has one      *)
(* <info> block per language and area group, at lifecycle stages of their   *)
(* own, and some carry threat areas with a stage each.  One block per       *)
(* language is selected, and the selected ones become one alert per key.    *)
(***************************************************************************)
EXTENDS Integers, Sequences

CONSTANTS Languages,  \* the tags of <language>, numbered in their order
          Keys        \* event code and polygons, as _bilingual_key hashes them

\* No <language>.
Untagged == 0
ASSUME LanguageAssumption == Languages \subseteq Nat \ {0}

Scopes == {"province", "point"}

\* A CAM threat area with usable polygons: whether they cover the point, and
\* whether its stage is terminal.
ThreatArea == [covers : BOOLEAN, ended : BOOLEAN]

\* A block: whether its SGC codes are the province's, whether its polygons
\* cover the point, whether the box of those it has meets the province's,
\* and whether its Alert_Location_Status is terminal.
Block == [lang : Languages \cup {Untagged}, province : BOOLEAN, covers : BOOLEAN,
          boxed : BOOLEAN, ended : BOOLEAN, threats : SUBSET ThreatArea, key : Keys]

\* The feed has an entry per block, with its polygons but without its codes:
\* a body is read when one of them survives.
EntrySurvives(block, scope) ==
  IF scope = "province" THEN block.boxed ELSE block.covers
BodyIsRead(doc, scope) == \E i \in DOMAIN doc : EntrySurvives(doc[i], scope)

\* Threat areas, where there are any, say where the block applies.
InfoMatchesRegion(block, scope) ==
  IF scope = "province" THEN block.province
  ELSE IF block.threats # {} THEN \E area \in block.threats : area.covers
  ELSE block.covers

\* The socket's admission: any block at all.
DocMatchesRegion(doc, scope) ==
  \E i \in DOMAIN doc : InfoMatchesRegion(doc[i], scope)

\* A document's languages; one without has a single pass over every block.
LanguagesOf(doc) ==
  LET tags == {doc[i].lang : i \in DOMAIN doc} \ {Untagged}
  IN  IF tags = {} THEN {Untagged} ELSE tags
Candidates(doc, lang) == {i \in DOMAIN doc : lang \in {Untagged, doc[i].lang}}
Matches(doc, lang, scope) ==
  {i \in Candidates(doc, lang) : InfoMatchesRegion(doc[i], scope)}

First(I) == CHOOSE i \in I : \A j \in I : i =< j
Active(doc, I) == {i \in I : ~doc[i].ended}

\* Of the matching blocks the first that has not ended, else the first.
SelectRegionInfo(doc, lang, scope) ==
  LET matches == Matches(doc, lang, scope)
  IN  IF Active(doc, matches) # {} THEN First(Active(doc, matches))
      ELSE First(matches)

\* One per language that has a match.
SelectRegionInfos(doc, scope) ==
  {SelectRegionInfo(doc, lang, scope) :
     lang \in {l \in LanguagesOf(doc) : Matches(doc, l, scope) # {}}}

\* The stage at the point: a covering area that goes on wins.
EndedAtPoint(block, scope) ==
  /\ scope = "point"
  /\ \E area \in block.threats : area.covers
  /\ \A area \in block.threats : area.covers => area.ended
IsTerminal(block, scope) == block.ended \/ EndedAtPoint(block, scope)

\* The variants of a key become one alert, the preferred language's if it
\* is among them, else the first language's.
MergeLanguages(doc, variants, preferred) ==
  LET own == {i \in variants : doc[i].lang = preferred}
  IN  IF own # {} THEN First(own)
      ELSE CHOOSE i \in variants : \A j \in variants : doc[i].lang =< doc[j].lang

Variants(doc, scope, key) ==
  {i \in SelectRegionInfos(doc, scope) : doc[i].key = key}
Primary(doc, scope, preferred, key) ==
  MergeLanguages(doc, Variants(doc, scope, key), preferred)

\* The alerts of a document, and whether it ends each of them here.
AlertsOf(doc, scope, preferred) ==
  {[key |-> key, ends |-> IsTerminal(doc[Primary(doc, scope, preferred, key)], scope)] :
     key \in {doc[i].key : i \in SelectRegionInfos(doc, scope)}}
EndsHere(doc, scope, preferred) ==
  LET alerts == AlertsOf(doc, scope, preferred)
  IN  alerts # {} /\ \A alert \in alerts : alert.ends
=============================================================================
