------------------------------ MODULE ConfigFlow -------------------------------
(***************************************************************************)
(* The setup and reconfigure flows (config_flow.py, flows/): menus with    *)
(* edges back, forms whose scope the provider is asked about before they   *)
(* go on, and the one way in which all of them write an entry, through its *)
(* scope key.  An entry of before the key existed has none until its setup *)
(* gives it one (__init__.py).                                             *)
(*                                                                         *)
(* A flow stands still where it waits for its user or for the network.     *)
(* Input that is refused shows the same form again and changes nothing, so *)
(* it is not an action.                                                    *)
(***************************************************************************)
EXTENDS Naturals, FiniteSets

CONSTANTS
  Provider,
  Flow,
  EntryId, New,
  Place,          \* what can be typed or picked: zones, points, trackers, ...
  Parts,          \* the zones or regions that a place lists
  Everywhere,     \* no place: the scope is the base alone
  Base, NoBase,   \* countries of MeteoAlarm, sources of WMO
  Served,         \* the bases and places that the providers publish
  Legacy          \* the data of an entry of before

ASSUME EntryAssumption == New \notin EntryId
ASSUME PlaceAssumption == Everywhere \notin Place /\ Everywhere \in DOMAIN Parts
ASSUME BaseAssumption == NoBase \notin Base

VARIABLES
  entry,    \* the config entries: data, unique id and the geocode prefixes
  byFlow,   \* those that a flow has created or rewritten
  flow,     \* where each flow stands, and what it has been told so far
  picked    \* _meteoalarm_country and _wmo_source_id of each flow

flowVars == <<entry, byFlow, flow, picked>>

-----------------------------------------------------------------------------
(* The forms of each provider.  A checked one asks the provider first.     *)

Click(step) == [step |-> step, asks |-> FALSE, checked |-> FALSE]
Free(step) == [step |-> step, asks |-> TRUE, checked |-> FALSE]
Checked(step) == [step |-> step, asks |-> TRUE, checked |-> TRUE]

NWSForms == {Checked("zone"), Checked("gps_loc"), Free("gps_tracker")}
ECCCForms == {Free("province"), Free("gps_loc"), Free("gps_tracker")}
BBKForms == {Checked("region"), Free("gps_loc"), Free("gps_tracker")}
GDACSForms == {Click("global"), Free("gps_loc"), Free("gps_tracker")}
AUForms == {Free("state")}
GeoSphereForms == {Checked("gps_loc"), Free("gps_tracker")}
TWCForms == {Free("region")}
MeteoAlarmForms == {Free("country_source")}
WMOForms == {}

\* The forms behind a base that the flow has picked.
MeteoAlarmFilters ==
  {Click("country_only"), Free("gps_polygon"), Free("gps_tracker"), Free("region_picker")}
WMOFilters ==
  {Click("country_wide"), Free("gps_loc"), Free("gps_tracker"), Free("geocode")}

FormsOf ==
  [nws |-> NWSForms, eccc |-> ECCCForms, meteoalarm |-> MeteoAlarmForms,
   wmo |-> WMOForms, gdacs |-> GDACSForms, bbk |-> BBKForms, au |-> AUForms,
   geosphere |-> GeoSphereForms, twc |-> TWCForms]
FiltersOf == [meteoalarm |-> MeteoAlarmFilters, wmo |-> WMOFilters]
WithBase == DOMAIN FiltersOf

ASSUME ProviderAssumption == Provider \subseteq DOMAIN FormsOf

-----------------------------------------------------------------------------
(* Scopes                                                                  *)

\* Entry data.  The geocodes of WMO are an option: the scope is the source.
Data(provider, base, form, place) ==
  IF form.asks /\ form.step # "geocode"
  THEN [provider |-> provider, base |-> base, mode |-> form.step, place |-> place]
  ELSE [provider |-> provider, base |-> base, mode |-> "wide", place |-> Everywhere]

\* compute_scope_key: whatever is present, lists sorted; no option.
Key(data) == [data EXCEPT !.place = Parts[data.place]]

NoData == [provider |-> "none", base |-> NoBase, mode |-> "wide", place |-> Everywhere]
NoKey == [NoData EXCEPT !.place = {}]

Existing == {e \in EntryId : entry[e].data # NoData}
Absent == [data |-> NoData, uid |-> NoKey, prefixes |-> FALSE]

\* Mutant: only entries that have their unique id are looked at.
ConfiguredById(key, allowed) ==
  \E e \in Existing \ {allowed} : entry[e].uid = key

\* _abort_if_scope_configured: the key of every entry's data.
Configured(key, allowed) ==
  \E e \in Existing \ {allowed} : Key(entry[e].data) = key

-----------------------------------------------------------------------------
(* Steps                                                                   *)

NoForm == Click("none")
At(at) == [at |-> at, provider |-> "none", form |-> NoForm, place |-> Everywhere, edits |-> New]
Idle == At("idle")

NothingPicked == [p \in WithBase |-> NoBase]

Goes(f, at) == flow' = [flow EXCEPT ![f].at = at]
Ends(f) ==
  /\ flow' = [flow EXCEPT ![f] = Idle]
  /\ picked' = [picked EXCEPT ![f] = NothingPicked]

\* The flow that sets an entry up, or one that reconfigures it.
Begin(f, edits) ==
  /\ flow[f] = Idle /\ edits \in {New} \cup Existing
  /\ flow' = [flow EXCEPT ![f] = [At("providers") EXCEPT !.edits = edits]]
  /\ UNCHANGED <<entry, byFlow, picked>>

\* The user closes the dialog.
Close(f) ==
  /\ flow[f] # Idle
  /\ Ends(f)
  /\ UNCHANGED <<entry, byFlow>>

\* WMO has no menu of its own: its first step is the source's form.
ChooseProvider(f, p) ==
  /\ flow[f].at = "providers"
  /\ flow' = [flow EXCEPT ![f].provider = p,
                          ![f].at = IF p = "wmo" THEN "base" ELSE "menu"]
  /\ UNCHANGED <<entry, byFlow, picked>>

\* The edges back (issue #140).  What was picked stays picked.
Back(f) ==
  /\ \/ flow[f].at = "menu" /\ Goes(f, "providers")
     \/ flow[f].at = "filter" /\ Goes(f, IF flow[f].provider = "wmo" THEN "base" ELSE "menu")
  /\ UNCHANGED <<entry, byFlow, picked>>

\* From the menu of MeteoAlarm to the form of the country.
ChooseBase(f) ==
  /\ flow[f].at = "menu" /\ flow[f].provider = "meteoalarm"
  /\ Goes(f, "base")
  /\ UNCHANGED <<entry, byFlow, picked>>

\* The base is submitted; the form waits for the provider.
SubmitBase(f, base) ==
  /\ flow[f].at = "base"
  /\ flow' = [flow EXCEPT ![f].at = "asking", ![f].place = base]
  /\ UNCHANGED <<entry, byFlow, picked>>

\* Mutant: a provider that does not answer is taken for one that agrees.
AgreesOrFails(asked, answered) == answered => asked \subseteq Served

\* _async_validate_scope: a timeout or an error is no agreement.
Agrees(asked, answered) == answered /\ asked \subseteq Served

BaseAnswered(f, answered) ==
  /\ flow[f].at = "asking"
  /\ IF Agrees({flow[f].place}, answered)
     THEN /\ picked' = [picked EXCEPT ![f][flow[f].provider] = flow[f].place]
          /\ flow' = [flow EXCEPT ![f].at = "filter", ![f].place = Everywhere]
     ELSE /\ flow' = [flow EXCEPT ![f].at = "base", ![f].place = Everywhere]
          /\ UNCHANGED picked
  /\ UNCHANGED <<entry, byFlow>>

Offered(f) ==
  CASE flow[f].at = "menu" -> FormsOf[flow[f].provider]
    [] flow[f].at = "filter" -> FiltersOf[flow[f].provider]
    [] OTHER -> {}

\* The base that the forms of the filter menu read off the flow.
Written(f, form, place) ==
  LET p == flow[f].provider
  IN Data(p, IF p \in WithBase /\ form \in FiltersOf[p] THEN picked[f][p] ELSE NoBase,
          form, place)

\* _async_create_scoped_entry, _async_update_scoped_entry: the flow ends, and
\* unless the scope is configured already, its entry is written.  A rewritten
\* entry keeps its options.
Commit(f, form, place) ==
  LET data == Written(f, form, place)
      edits == flow[f].edits
      taken == \/ edits = New /\ \E e \in Existing : entry[e].uid = Key(data)
               \/ Configured(Key(data), edits)
  IN /\ edits \in {New} \cup Existing
     /\ IF taken
        THEN UNCHANGED <<entry, byFlow>>
        ELSE \E e \in IF edits = New THEN EntryId \ Existing ELSE {edits} :
               /\ entry' = [entry EXCEPT ![e] =
                    [data |-> data, uid |-> Key(data),
                     prefixes |-> form.step = "geocode" \/ entry[e].prefixes]]
               /\ byFlow' = byFlow \cup {e}
     /\ Ends(f)

Harvests(form) == form.step = "region_picker"

\* A menu entry that asks for nothing more commits at once.
ChooseForm(f, form) ==
  /\ form \in Offered(f)
  /\ IF form.asks
     THEN /\ flow' = [flow EXCEPT ![f].form = form,
                        ![f].at = IF Harvests(form) THEN "harvesting" ELSE "form"]
          /\ UNCHANGED <<entry, byFlow, picked>>
     ELSE Commit(f, form, Everywhere)

\* A checked scope waits for the provider, the region picker for the feed.
Submit(f, place) ==
  LET form == flow[f].form
  IN /\ flow[f].at = "form"
     /\ IF form.checked \/ Harvests(form)
        THEN /\ flow' = [flow EXCEPT ![f].place = place,
                           ![f].at = IF form.checked THEN "checking" ELSE "harvesting"]
             /\ UNCHANGED <<entry, byFlow, picked>>
        ELSE Commit(f, form, place)

ShowsForm(f) ==
  /\ flow' = [flow EXCEPT ![f].at = "form", ![f].place = Everywhere]
  /\ UNCHANGED <<entry, byFlow, picked>>

PlaceAnswered(f, answered) ==
  /\ flow[f].at = "checking"
  /\ IF Agrees({flow[f].place}, answered)
     THEN Commit(f, flow[f].form, flow[f].place)
     ELSE ShowsForm(f)

\* The region picker reads the feed before it shows its form and again before
\* it takes what was selected; a feed it cannot read shows the form once more.
RegionsAnswered(f, answered) ==
  /\ flow[f].at = "harvesting"
  /\ IF answered /\ flow[f].place # Everywhere
     THEN Commit(f, flow[f].form, flow[f].place)
     ELSE ShowsForm(f)

\* No region is live: the flow ends, unless its entry has some to carry forward.
NoRegions(f) ==
  /\ flow[f].at = "harvesting"
  /\ flow[f].edits \in Existing => entry[flow[f].edits].data.mode # "region_picker"
  /\ Ends(f)
  /\ UNCHANGED <<entry, byFlow>>

-----------------------------------------------------------------------------
(* Entries                                                                 *)

\* _async_ensure_scope_key: at setup, unless another entry has the key.
Setup(e) ==
  /\ e \in Existing /\ entry[e].uid = NoKey
  /\ \A d \in Existing : entry[d].uid # Key(entry[e].data)
  /\ entry' = [entry EXCEPT ![e].uid = Key(entry[e].data)]
  /\ UNCHANGED <<byFlow, flow, picked>>

Delete(e) ==
  /\ e \in Existing
  /\ entry' = [entry EXCEPT ![e] = Absent]
  /\ byFlow' = byFlow \ {e}
  /\ UNCHANGED <<flow, picked>>

\* Entries of before the key existed, which may be twins.
FlowInit ==
  /\ \E legacy \in SUBSET EntryId, data \in Legacy :
       entry = [e \in EntryId |-> IF e \in legacy THEN [Absent EXCEPT !.data = data] ELSE Absent]
  /\ byFlow = {}
  /\ flow = [f \in Flow |-> Idle]
  /\ picked = [f \in Flow |-> NothingPicked]

FlowNext ==
  \/ \E f \in Flow :
       \/ \E edits \in EntryId \cup {New} : Begin(f, edits)
       \/ Close(f)
       \/ \E p \in Provider : ChooseProvider(f, p)
       \/ Back(f)
       \/ ChooseBase(f)
       \/ \E base \in Base : SubmitBase(f, base)
       \/ \E answered \in BOOLEAN : BaseAnswered(f, answered)
       \/ \E form \in Offered(f) : ChooseForm(f, form)
       \/ \E place \in Place : Submit(f, place)
       \/ \E answered \in BOOLEAN : PlaceAnswered(f, answered)
       \/ \E answered \in BOOLEAN : RegionsAnswered(f, answered)
       \/ NoRegions(f)
  \/ \E e \in EntryId : Setup(e) \/ Delete(e)

FlowSpec == FlowInit /\ [][FlowNext]_flowVars

-----------------------------------------------------------------------------
(* Properties                                                              *)

\* "Two entries asking the same upstream question abort as already_configured":
\* an entry that a flow wrote shares its scope with no other one, whatever was
\* typed, reconfigured or deleted meanwhile and however many twins there were
\* before; and no two entries hold one unique id, nor any a key that is not its
\* own (compute_scope_key, _abort_if_scope_configured, _async_ensure_scope_key).
ScopesApart ==
  \A e, d \in Existing :
    /\ e # d /\ e \in byFlow => Key(entry[e].data) # Key(entry[d].data)
    /\ entry[e].uid \in {NoKey, Key(entry[e].data)}
    /\ e # d /\ entry[e].uid # NoKey => entry[e].uid # entry[d].uid

\* What a provider has to agree to: its base, or the place of a checked form.
Agreed(data) ==
  CASE data.provider \in WithBase /\ data.mode # "country_source" -> {data.base}
    [] Checked(data.mode) \in FormsOf[data.provider] -> {data.place}
    [] OTHER -> {}

\* What an entry of a flow was committed with is what the provider agreed to in
\* that flow, also where a click on a menu commits what an earlier form took
\* and edges back and refusals came in between (_async_validate_scope).
CommitsServed == \A e \in byFlow : Agreed(entry[e].data) \subseteq Served
=============================================================================
