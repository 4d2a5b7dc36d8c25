--------------------------- MODULE GuidPrefilter ---------------------------
(***************************************************************************)
(* Which bodies of a WMO feed are read (providers/wmo.py,                   *)
(* _parse_feed_links) and which of the alerts built of them an entry with   *)
(* geocode prefixes keeps (coordinator.py, filter_by_geocode_prefixes).     *)
(* A feed of the mirror says an item's expiry, and CMA's guids begin with   *)
(* the area code of the body, so that an entry narrowed to a province need  *)
(* not read the country.                                                    *)
(*                                                                          *)
(* A code is a sequence of characters, those below ten being digits.  An    *)
(* item is a record: whether it has a link, whether its guid is an area     *)
(* code and a serial, the area code, whether its envelope and its body have *)
(* expired, and the body's geocodes.  The items of an Atom feed have        *)
(* neither area codes nor envelopes.                                        *)
(***************************************************************************)
EXTENDS Integers, Sequences

Code == Seq(Nat)
AreaWidth == 6

FeedItem == [linked : BOOLEAN, shaped : BOOLEAN, area : Code, past : BOOLEAN,
             over : BOOLEAN, codes : SUBSET Code]

StartsWith(code, prefix) ==
  /\ Len(prefix) =< Len(code)
  /\ \A k \in 1..Len(prefix) : code[k] = prefix[k]
IsDigits(code) == \A k \in 1..Len(code) : code[k] < 10

\* The guid decides where no prefix reaches past its area code.
Trusted(prefixes) ==
  prefixes # {} /\ \A p \in prefixes : IsDigits(p) /\ Len(p) =< AreaWidth
InArea(items, prefixes) ==
  {item \in items : \E p \in prefixes : StartsWith(item.area, p)}

\* Everything, where the guids cannot be trusted to answer: a longer prefix,
\* an item without an area code, or nothing left.
PrefilterByGuid(items, prefixes) ==
  IF /\ Trusted(prefixes)
     /\ \A item \in items : item.shaped
     /\ InArea(items, prefixes) # {}
  THEN InArea(items, prefixes)
  ELSE items

\* The bodies that are read, and those of them that are alive.
ParseFeedLinks(items, prefixes) ==
  {item \in PrefilterByGuid(items, prefixes) : item.linked /\ ~item.past}
DocIsLive(item) == ~item.over
Alerts(items, prefixes) == {item \in ParseFeedLinks(items, prefixes) : DocIsLive(item)}

\* The coordinator keeps the alerts one of whose codes has a prefix; a source
\* that publishes no codes fails the poll.
MatchesPrefixes(item, prefixes) ==
  \E code \in item.codes, p \in prefixes : StartsWith(code, p)
FilterFails(alerts, prefixes) ==
  prefixes # {} /\ alerts # {} /\ \A item \in alerts : item.codes = {}
FilterByPrefixes(alerts, prefixes) ==
  IF prefixes = {} THEN alerts
  ELSE {item \in alerts : MatchesPrefixes(item, prefixes)}
=============================================================================
