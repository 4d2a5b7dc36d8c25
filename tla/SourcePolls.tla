---------------------------- MODULE SourcePolls ----------------------------
(***************************************************************************)
(* One entry polling one source, for each of the nine providers: the       *)
(* indexes, documents, shapes and lookups of async_fetch, each of which    *)
(* may fail while the source issues, revises, lists, drops and ends its    *)
(* warnings; what the provider remembers between polls; and the alerts the *)
(* entry holds by the store's absence rule.  Times are ticks left or past. *)
(***************************************************************************)
EXTENDS SourceDocs

CONSTANTS Setups,     \* what Init chooses from: provider, GPS scope, mirror
                      \* retired, the documents the entry's options keep,
                      \* and the bound on revisions
          Slot,       \* [Alerts -> Indexes]: the BBK channel, the TWC slot
          Wavering,   \* the alerts a source may drop while they are live
          Lookback,   \* ticks a cancellation can be looked up
          Interval,   \* ticks a heavy index is not read again
          StandIn,    \* ticks it may stand in for one that fails
          Streak      \* mirror 404s until it is only probed

Indexes == {"one", "two"}

ASSUME PollAssumption ==
  /\ Slot \in [Alerts -> Indexes] /\ Lookback \in Nat \ {0}
  /\ Interval \in Nat \ {0} /\ StandIn \in Nat /\ StandIn >= Interval
  /\ Streak \in Nat \ {0}
  /\ \A s \in Setups : s.provider \in
       {"nws", "gdacs", "bbk", "wmo", "au", "geosphere", "meteoalarm", "twc", "eccc"}
  /\ Setups \subseteq [provider : STRING, gps : BOOLEAN, retired : BOOLEAN,
                        wanted : SUBSET Doc, revs : [Alerts -> 0..Revisions]]

VARIABLES setup,     \* the entry's provider and scope
          life,      \* [Alerts -> 0..Final]: last message, Final once it is over
          left,      \* [Alerts -> ticks to its expiry]
          window,    \* [Alerts -> ticks its cancellation can still be read]
          feed,      \* [Indexes -> SUBSET Doc]: what each index lists
          mem,       \* what the provider instance remembers
          poll,      \* the fetch in progress
          held,      \* the alerts the entry shows as active
          shown,     \* GDACS: those its last batch had a shape for
          restored   \* NWS: those read back from the file and not listed since

upstream == <<life, left, window, feed>>
entry == <<held, shown, restored>>
pollsVars == <<setup, upstream, mem, poll, entry>>

P == setup.provider

\* The indexes the entry reads, and those of them that may list an alert.
\* NWS: two pages; BBK: the dashboard or the channels; TWC: two slots.
Reads == IF P \in {"au", "geosphere", "meteoalarm"} \/ (P = "bbk" /\ ~setup.gps)
         THEN {"one"} ELSE Indexes
Carries(a) == CASE P = "twc" \/ (P = "bbk" /\ setup.gps) -> {Slot[a]}
                [] setup.retired -> {"one"}
                [] OTHER -> Reads

\* Whether a document says that the warning is over here: on ECCC, that the
\* blocks of the region have ended.
Region == IF setup.gps THEN "point" ELSE "province"
Ends(d) == IF P = "eccc" THEN d \in ECCCEnds[Region] ELSE Alert(P, d).ends

Over(a) ==
  \/ life[a] = Final \/ left[a] = 0
  \/ P = "eccc" /\ life[a] > 0 /\ Ends([alert |-> a, rev |-> life[a]])

-----------------------------------------------------------------------------
(* The provider instance and the fetch. *)

\* A new instance: NWSProvider._tracked, GDACSProvider._last_shapes,
\* TWCProvider._bulletins, and WMO's registry answer, last index read,
\* mirror 404s and the ticks until the mirror is probed.
NewInstance == [asked |-> {}, shapes |-> {}, bulletins |-> {}, resolved |-> FALSE,
                read |-> FALSE, links |-> {}, age |-> 0, gone |-> 0, probe |-> 0]

NoPoll == [phase |-> "idle", faulty |-> FALSE, got |-> [i \in Indexes |-> "unasked"],
           listed |-> {}, text |-> {}, drawn |-> {}, found |-> {}]

\* ProviderError: the coordinator keeps what it has.
Raise == /\ poll' = NoPoll /\ UNCHANGED <<setup, upstream, entry>>
Quiet == UNCHANGED <<setup, upstream, entry>>

\* A poll starts; in one that is faulty any read may fail.
Begin(faulty) ==
  /\ poll.phase = "idle"
  /\ poll' = [NoPoll EXCEPT !.phase = "index", !.faulty = faulty,
                            !.got = [i \in Indexes |-> IF i \in Reads THEN "pending"
                                                       ELSE "unasked"]]
  /\ Quiet /\ UNCHANGED mem

\* Index i is next: pages, slots and hosts are read one after the other,
\* BBK's and GDACS's indexes at the same time.
Next2Read(i) ==
  /\ poll.phase = "index" /\ poll.got[i] = "pending"
  /\ i = "two" /\ P \notin {"bbk", "gdacs"} => poll.got["one"] # "pending"

\* What an index lists joins what the others listed.
Lists(i, D) == poll' = [poll EXCEPT !.got[i] = "read", !.listed = @ \cup D] /\ Quiet
Lacks(i, why) == poll' = [poll EXCEPT !.got[i] = why] /\ Quiet
Answers(i) == Lists(i, feed[i]) /\ UNCHANGED mem
Fails(i) == poll.faulty /\ Lacks(i, "failed") /\ UNCHANGED mem
Raises == poll.faulty /\ Raise /\ UNCHANGED mem

\* One page, one feed, or all slots: no answer is no poll.
NWSPage(i) == P = "nws" /\ Next2Read(i) /\ (Answers(i) \/ Raises)
AUFeed == P = "au" /\ Next2Read("one") /\ (Answers("one") \/ Raises)
GeoSphereFeed == P = "geosphere" /\ Next2Read("one") /\ (Answers("one") \/ Raises)
MeteoAlarmFeed == P = "meteoalarm" /\ Next2Read("one") /\ (Answers("one") \/ Raises)

\* One of several indexes may fail.  GDACS's items go by their level and type
\* as they are read.
GDACSIndex(i) ==
  /\ P = "gdacs" /\ Next2Read(i)
  /\ Lists(i, feed[i] \cap setup.wanted) \/ (poll.faulty /\ Lacks(i, "failed"))
  /\ UNCHANGED mem
BBKIndex(i) == P = "bbk" /\ Next2Read(i) /\ (Answers(i) \/ Fails(i))
ECCCHost(i) == P = "eccc" /\ Next2Read(i) /\ (Answers(i) \/ Fails(i))

\* A slot, and the bulletin it points at unless it was read before: a slot
\* that fails fails the poll, a bulletin that fails is left out.
TWCSlot(i) ==
  /\ P = "twc" /\ Next2Read(i)
  /\ \/ Raises
     \/ \E lost \in SUBSET (feed[i] \ mem.bulletins) :
          /\ lost = {} \/ poll.faulty
          /\ poll' = [poll EXCEPT !.got[i] = "read", !.listed = @ \cup feed[i],
                                  !.text = @ \cup (feed[i] \ lost)]
          /\ mem' = [mem EXCEPT !.bulletins =
               IF feed[i] \ lost = {} THEN @
               ELSE {d \in @ : Slot[d.alert] # i} \cup feed[i]]
          /\ Quiet

\* WMO: the authority's feed is resolved once per instance; while the
\* registry cannot be read the mirror is polled alone.
WMORegistry ==
  /\ P = "wmo" /\ ~mem.resolved /\ Next2Read("one")
  /\ \/ mem' = [mem EXCEPT !.resolved = TRUE] /\ UNCHANGED poll /\ Quiet
     \/ poll.faulty /\ Lacks("one", "unasked") /\ UNCHANGED mem

StandsIn(limit) == mem.read /\ mem.age < limit

\* The authority's index is heavy: read once per Interval, its links stand
\* in between and, when it fails, until StandIn.
WMOAuthority ==
  /\ P = "wmo" /\ mem.resolved /\ Next2Read("one")
  /\ \/ /\ StandsIn(Interval) \/ (poll.faulty /\ StandsIn(StandIn))
        /\ Lists("one", mem.links) /\ UNCHANGED mem
     \/ /\ ~StandsIn(Interval)
        /\ Lists("one", feed["one"])
        /\ mem' = [mem EXCEPT !.read = TRUE, !.links = feed["one"], !.age = 0]
     \/ /\ ~StandsIn(StandIn) /\ Fails("one")

\* The mirror beside the authority's feed is skipped while it is backed off.
Beside == mem.resolved
WMOMirror ==
  /\ P = "wmo" /\ Next2Read("two")
  /\ \/ /\ Beside /\ mem.probe > 0 /\ Lacks("two", "unasked") /\ UNCHANGED mem
     \/ /\ ~(Beside /\ mem.probe > 0)
        /\ \/ /\ ~setup.retired
              /\ Lists("two", feed["two"])
              /\ mem' = [mem EXCEPT !.gone = 0, !.probe = 0]
           \/ Fails("two")
           \/ /\ setup.retired \/ poll.faulty         \* 404
              /\ Lacks("two", "failed")
              /\ mem' = IF ~Beside THEN mem
                        ELSE [mem EXCEPT !.gone = IF @ < Streak THEN @ + 1 ELSE @,
                               !.probe = IF mem.gone + 1 >= Streak THEN Interval
                                         ELSE @]

Asked == {i \in Indexes : poll.got[i] \in {"read", "failed"}}
Answered == {i \in Indexes : poll.got[i] = "read"}
AllIn == poll.phase = "index" /\ \A i \in Indexes : poll.got[i] # "pending"

\* Mutant: no answer from any index is taken for a quiet day.
OnlyUnasked(asked, answered) == asked = {}
\* No index answered: that is no quiet day.
AllFailed(asked, answered) == asked # {} /\ answered = {}

Entries == CASE P = "nws" -> CollapseReissues(poll.listed)
             [] P = "gdacs" -> MergeIndexes(poll.listed)
             [] P = "bbk" -> LiveDocs(poll.listed, left)
             [] P = "eccc" -> poll.listed \cap ECCCReads[Region]
             [] OTHER -> poll.listed

\* The indexes are in: what comes next is the provider's.
After == CASE P = "nws" -> "lookup" [] P \in {"bbk", "wmo", "eccc"} -> "bodies"
           [] P = "gdacs" -> "shapes" [] OTHER -> "deliver"
IndexesIn ==
  /\ AllIn
  /\ \/ AllFailed(Asked, Answered) /\ Raise
     \/ /\ ~AllFailed(Asked, Answered)
        /\ poll' = [poll EXCEPT !.phase = After, !.listed = Entries,
                     !.text = IF P = "twc" THEN @ ELSE Entries,
                     !.drawn = IF P = "gdacs" THEN {} ELSE Entries]
        /\ Quiet
  /\ UNCHANGED mem

-----------------------------------------------------------------------------
(* Documents, shapes and the cancellation lookup. *)

\* Bodies that could not be read are left out of this poll.
Bodies(lost, next) ==
  /\ poll.phase = "bodies" /\ lost \subseteq poll.listed
  /\ poll' = [poll EXCEPT !.phase = next, !.text = poll.listed \ lost,
                          !.drawn = IF next = "shapes" THEN {} ELSE poll.listed \ lost]
  /\ Quiet /\ UNCHANGED mem

\* BBK asks again on every poll; a document the host moved to its archive
\* is withdrawn, listed or not.
BBKDocuments ==
  /\ P = "bbk"
  /\ \E lost \in SUBSET poll.listed :
       /\ poll.faulty \/ \A d \in lost : d.rev # life[d.alert]
       /\ Bodies(lost, "shapes")
WMODocuments ==
  /\ P = "wmo"
  /\ \E lost \in SUBSET poll.listed : (poll.faulty \/ lost = {}) /\ Bodies(lost, "deliver")
ECCCDocuments ==
  /\ P = "eccc"
  /\ \E lost \in SUBSET poll.listed : (poll.faulty \/ lost = {}) /\ Bodies(lost, "deliver")

\* The documents that become alerts.
Leaves == CASE P = "bbk" -> ChainLeaves(poll.text)
            [] P = "wmo" -> ChainLeaves(LiveDocs(poll.text, left))
            [] P = "eccc" -> ChainLeaves(poll.text)
            [] OTHER -> poll.text

BBKShapes ==
  /\ P = "bbk" /\ poll.phase = "shapes"
  /\ \E drawn \in SUBSET Leaves :
       /\ poll.faulty \/ drawn = Leaves
       /\ poll' = [poll EXCEPT !.phase = "deliver", !.drawn = drawn]
  /\ Quiet /\ UNCHANGED mem

\* GDACS ships the last shape of an event it cannot read one for, and
\* forgets the events that are no longer listed, unless none is.
Remembered(drawn) == drawn \cup {d \in Leaves : EventId(d) \in mem.shapes}
GDACSShapes ==
  /\ P = "gdacs" /\ poll.phase = "shapes"
  /\ \E drawn \in SUBSET Leaves :
       /\ poll.faulty \/ drawn = Leaves
       /\ poll' = [poll EXCEPT !.phase = "deliver", !.drawn = Remembered(drawn)]
       /\ mem' = [mem EXCEPT !.shapes = IF Leaves = {} THEN @
                                        ELSE {EventId(d) : d \in Remembered(drawn)}]
  /\ Quiet

\* nws._still_cancellable, of an alert the endpoint dropped.
StillCancellable(a) == left[a] # 0
\* Mutant: only the alerts now active are remembered.
TrackedActive(active, found) == active
\* The ids that may still be cancelled: the active ones, and those absent
\* ones the store still holds.
Tracked(active, found) ==
  active \cup {id \in mem.asked \ found : StillCancellable(id.alert)}

\* Cancellations of alerts this instance returned, and that are not active.
Cancelled(active) == {id \in mem.asked \ active : window[id.alert] > 0}
NWSLookUp ==
  /\ P = "nws" /\ poll.phase = "lookup"
  /\ LET active == Ids("nws", poll.text) IN
     \E found \in {{}, Cancelled(active)} :
       /\ found = Cancelled(active) \/ poll.faulty
       /\ poll' = [poll EXCEPT !.phase = "deliver", !.found = {id.alert : id \in found}]
       /\ mem' = [mem EXCEPT !.asked = Tracked(active, found)]
  /\ Quiet

\* The entry's timeout cuts a fetch off, whatever it waits for; GDACS keeps
\* the shapes it has by then.
TimesOut ==
  /\ poll.faulty /\ poll.phase \notin {"idle", "deliver"}
  /\ \E read \in SUBSET Leaves :
       /\ read # {} => P = "gdacs" /\ poll.phase = "shapes"
       /\ mem' = [mem EXCEPT !.shapes = @ \cup {EventId(d) : d \in read}]
  /\ Raise

-----------------------------------------------------------------------------
(* The batch and the store. *)

\* A point is looked for in the shapes the batch has.
FiltersByShape == setup.gps /\ P \in {"gdacs", "bbk", "wmo", "meteoalarm"}
InScope == IF FiltersByShape THEN ByPolygon(Leaves, poll.drawn)
           ELSE IF P = "eccc" THEN Leaves \cap ECCCBuilds[Region]
           ELSE Leaves
\* The lowest level of an Australian entry, and the coordinator's options,
\* marine zones and geocode prefixes, go by the alerts that are built; a
\* cancellation passes them too.
Filtered == InScope \cap setup.wanted
Found == {a \in poll.found : [alert |-> a, rev |-> Final] \in setup.wanted}
Ended(batch) == Of({d \in batch : Ends(d)}) \cup Found

\* What the entry holds of a batch, by the store's rules.
Reconciled(batch) ==
     {a \in Of(batch) \ Ended(batch) : left[a] # 0}
  \cup {a \in held \ (Of(batch) \cup Ended(batch)) : RetainOnAbsence(P, left[a])}

Deliver ==
  /\ poll.phase = "deliver"
  /\ IF FiltersByShape /\ NoShapes(Leaves, poll.drawn) THEN Raise
     ELSE /\ held' = Reconciled(Filtered)
          /\ shown' = IF P = "gdacs" THEN held' \cap Of(Filtered \cap poll.drawn) ELSE {}
          /\ restored' = (restored \cap held') \ Of(Filtered)
          /\ poll' = NoPoll
          /\ UNCHANGED <<setup, upstream>>
  /\ UNCHANGED mem

\* The entry is reloaded: a new provider, the alerts from the file.
Reload ==
  /\ poll.phase = "idle"
  /\ mem' = NewInstance
  /\ shown' = {}
  /\ restored' = IF P = "nws" THEN held ELSE {}
  /\ UNCHANGED <<setup, upstream, poll, held>>

-----------------------------------------------------------------------------
(* The source. *)

\* Changes between the reads of two indexes; a fetch that has read them all
\* sees no later one until it is delivered.
Source == /\ poll.phase = "idle" \/ (poll.phase = "index" /\ ~AllIn)
          /\ UNCHANGED <<setup, mem, poll, entry>>

Issue(a) ==
  /\ life[a] < setup.revs[a] /\ left[a] # 0
  /\ life' = [life EXCEPT ![a] = @ + 1]
  /\ left' = IF life[a] = 0 THEN [left EXCEPT ![a] = Life(P, a)] ELSE left
  /\ UNCHANGED <<window, feed>> /\ Source

End(a) ==
  /\ life[a] \in 1..Revisions
  /\ life' = [life EXCEPT ![a] = Final]
  /\ window' = [window EXCEPT ![a] = IF P = "nws" THEN Lookback ELSE 0]
  /\ UNCHANGED <<left, feed>> /\ Source

\* A record named after its event replaces the one before; documents of a
\* chain may be listed together.
List(i, d) ==
  /\ d.rev = life[d.alert] /\ d \notin feed[i] /\ i \in Carries(d.alert)
  /\ d.rev = Final => P \in Declares
  /\ left[d.alert] # 0
  /\ feed' = [feed EXCEPT ![i] =
       (IF Alert(P, d).id = EventId(d) THEN {e \in @ : e.alert # d.alert} ELSE @)
       \cup {d}]
  /\ UNCHANGED <<life, left, window>> /\ Source

\* A source drops records that are over, and at times one that is not.
Drop(i, d) ==
  /\ d.rev # life[d.alert] \/ d.alert \in Wavering
  /\ d \in feed[i] /\ feed' = [feed EXCEPT ![i] = @ \ {d}]
  /\ UNCHANGED <<life, left, window>> /\ Source

Less(n) == IF n > 0 THEN n - 1 ELSE n
\* A poll is short beside a tick.
Tick ==
  /\ poll.phase = "idle"
  /\ left' = [a \in Alerts |-> Less(left[a])]
  /\ window' = [a \in Alerts |-> Less(window[a])]
  /\ mem' = [mem EXCEPT !.age = IF mem.read /\ @ < StandIn THEN @ + 1 ELSE @,
                        !.probe = Less(@)]
  /\ UNCHANGED <<setup, life, feed, poll, entry>>

-----------------------------------------------------------------------------
PollsInit ==
  /\ setup \in Setups
  /\ life = [a \in Alerts |-> 0]
  /\ left = [a \in Alerts |-> Never]
  /\ window = [a \in Alerts |-> 0]
  /\ feed = [i \in Indexes |-> {}]
  /\ mem = NewInstance /\ poll = NoPoll
  /\ held = {} /\ shown = {} /\ restored = {}

ReadIndex(i) == NWSPage(i) \/ GDACSIndex(i) \/ BBKIndex(i) \/ ECCCHost(i) \/ TWCSlot(i)
Proceed ==
  \/ \E i \in Indexes : ReadIndex(i)
  \/ AUFeed \/ GeoSphereFeed \/ MeteoAlarmFeed
  \/ WMORegistry \/ WMOAuthority \/ WMOMirror
  \/ IndexesIn
  \/ BBKDocuments \/ WMODocuments \/ ECCCDocuments
  \/ BBKShapes \/ GDACSShapes \/ NWSLookUp
  \/ TimesOut \/ Deliver

Happens ==
  \/ \E a \in Alerts : Issue(a) \/ End(a)
  \/ \E i \in Indexes, d \in Doc : List(i, d) \/ Drop(i, d)

PollsNext == Proceed \/ (\E f \in BOOLEAN : Begin(f)) \/ Reload \/ Happens \/ Tick

\* Records of a revision that was replaced or a warning that is over.
DropOld == \E i \in Indexes, d \in Doc : d.rev # life[d.alert] /\ Drop(i, d)

\* Time passes, a poll runs to its end, polls in which the source answers
\* come again and again, and the source does drop what is over.
Fairness ==
  SF_pollsVars(Tick) /\ WF_pollsVars(Proceed) /\ SF_pollsVars(Begin(FALSE)) /\ SF_pollsVars(DropOld)

PollsSpec == PollsInit /\ [][PollsNext]_pollsVars /\ Fairness

-----------------------------------------------------------------------------
(* Properties. *)

\* The provider and the entry's memory in range.
PollsTypeOK ==
  /\ setup \in Setups /\ life \in [Alerts -> 0..Final]
  /\ left \in [Alerts -> Nat \cup {Never}] /\ window \in [Alerts -> 0..Lookback]
  /\ feed \in [Indexes -> SUBSET Doc]
  /\ poll.phase \in {"idle", "index", "lookup", "bodies", "shapes", "deliver"}
  /\ poll.got \in [Indexes -> {"pending", "unasked", "failed", "read"}]
  /\ poll.listed \cup poll.text \cup poll.drawn \cup mem.bulletins \cup mem.links
       \subseteq Doc
  /\ held \cup shown \cup restored \cup poll.found \subseteq Alerts
  /\ mem.age \in 0..StandIn /\ mem.probe \in 0..Interval /\ mem.gone \in 0..Streak

\* Every index that carries a answered, and none of them listed it.
Unlisted(a) ==
  a \notin Of(poll.listed) /\ \A i \in Carries(a) : poll.got[i] = "read"
Dropped(a) == \E d \in poll.listed : d.alert = a /\ d \notin setup.wanted
\* An index, a document or a shape of a's own could not be read.
Hurt(a) ==
  \/ \E i \in Carries(a) : poll.got[i] # "read"
  \/ \E d \in poll.listed : d.alert = a /\ d \notin poll.text \cap poll.drawn

\* An ECCC warning that was read to end in the region, by a revision before
\* the current one, which is not among what was read: a host that carries it
\* failed or lists it not yet, its body failed, or the envelope keeps it out.
EndedAsRead(a) ==
  /\ P = "eccc" /\ [alert |-> a, rev |-> life[a]] \notin poll.text
  /\ \E d \in ChainLeaves(poll.text) : d.alert = a /\ Ends(d)

\* A read that fails takes nothing from the alerts it is not about, and a
\* poll that could read no index takes nothing at all: an alert that is not
\* over leaves the entry only when it publishes no expiry and the source, in
\* answering, does not list it or lists a revision that the entry's options
\* drop, or when an index, document or shape of its own was what failed.  On
\* ECCC, where a later revision may take a region up again, the ending that
\* was read speaks for the warning until the revision that does is read.
\* Nor does an event GDACS still lists lose the shape it was shipped with.
FailuresTakeNothing ==
  [][ /\ \A a \in held \ held' :
           /\ Answered # {}
           /\ \/ Over(a) \/ EndedAsRead(a)
              \/ Life(P, a) = Never /\ (Unlisted(a) \/ Dropped(a) \/ Hurt(a))
      /\ \A a \in shown \ shown' :
           P = "gdacs" /\ poll.phase = "deliver" => a \notin held' ]_pollsVars

\* NWS publishes cancellations apart from the active alerts: as long as the
\* store holds an alert, the provider asks for its cancellation, through
\* polls that fail, lookups that fail and alerts that go and come back;
\* unless the alert came from the restore file and was not listed since, or its
\* cancellation is one that the entry's options drop.
CancellationsFindable ==
  P = "nws" /\ poll.phase = "idle" =>
    \A a \in held \ restored :
      left[a] # 0 /\ [alert |-> a, rev |-> Final] \in setup.wanted =>
        EventId([alert |-> a, rev |-> 1]) \in mem.asked

\* Out of the lookup's reach for good: a cancellation that went unread for
\* the whole lookback, or of an alert this instance never returned.
Pinned(a) == P = "nws" /\ Life(P, a) = Never /\ (window[a] = 0 \/ a \in restored)

\* A warning that is over leaves the entry, on every source: by its ending,
\* its expiry or its absence, past stand-ins, backed-off mirrors, archived
\* documents and polls that fail.
OverLeaves == \A a \in Alerts : Over(a) ~> (a \notin held \/ Pinned(a))
=============================================================================
