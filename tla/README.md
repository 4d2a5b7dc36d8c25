# Verification of cap_alerts

TLA+ models of the CAP Alerts integration for Home Assistant, the TLC
configurations that model-check them on small instances, and TLAPS proofs of
the properties that matter most for every instance. Paths below are relative to
`src/custom_components/cap_alerts/`.

1. [The system](#the-system) · 2. [Modules](#modules) · 3. [Runs](#runs) ·
4. [Theorems](#theorems) · 5. [Findings and departures](#findings-and-departures) ·
6. [What is not modelled](#what-is-not-modelled)

## The system

A config entry watches one place through one source of CAP alerts. A
*coordinator* resolves the place into a query, asks a *provider*, normalizes
the answer, and hands it to a *store*, which compares it with what it knew and
fires incident events on Home Assistant's bus. A *sensor platform* keeps one
entity per alert. Everything runs on one event loop, so what can interleave is
what stands between two `await`s; what can be lost is what only lives in memory.

| Component | State | Operations | Correct when |
| --- | --- | --- | --- |
| Alert store (`store.py`) | tracked alerts, parked events, two tombstone maps, boot-pending ids, restored ids, two counters | `process`, `restore`, `release` | one creation and one removal per incident, none before the other, none repeated by re-publication, re-issue or restart; what is retained has an exit |
| Coordinator (`coordinator.py`) | scope key, change flag, last-reconciled time, held events, waiting callbacks | `_resolve_config`, `_async_update_data`, `async_apply`, `_async_fire_event`, `_async_fire_held_events`, setup's restore | out of scope ends and unobserved stays; events in order, none lost short of an unload |
| Restore file (`restore.py`) | records and scope key, one delayed write | `async_save_if_changed`, `async_save_now`, `async_load` | the records belong to the key they are saved with |
| Sensor platform (`sensor.py`) | entity objects, entity registry | `async_setup_entry`, `_sync_alert_entities` | the entities are the tracked alerts; a removal's entity outlives its event |
| CAP content cache (`providers/cap_content_cache.py`) | LRU of bodies, byte total, validators, fetches in flight | `get_or_fetch` | one request per URL, everybody answered, withdrawals seen, live warnings kept |
| NAAD stream client (`providers/naad_stream.py`) | host, back-off, connection, reader task | connect, read, watchdog, reconnect | reconnects for ever, never two readers, nothing read after a stop |
| NAAD ingest (`providers/eccc_ingest.py`) | live set, seen set, per-document attempts, backfill time, lock | push, heartbeat, backfill, start, stop | every document is admitted once or given up on; no push lost to a throttle |
| ECCC provider (`providers/eccc.py`) | a circuit per feed host | fetch with failover, envelope filter, block selection | a dead host does not blank a live feed; what ends here ends here, what goes on elsewhere does not |
| Other providers (`providers/nws.py`, `gdacs.py`, `bbk.py`, `wmo.py`, `meteoalarm.py`, `au.py`, `geosphere.py`, `twc.py`) | NWS's tracked ids, GDACS's shapes, TWC's bulletins, WMO's links and its mirror's streak | `async_fetch` | a failed read is never taken for a quiet day; what is over leaves |
| Conditional feed reads (`providers/revalidate.py`) | validators and body per URL | read | a 304 replays the body it stands for |
| Geometry store (`geometry_store.py`, `views.py`, `websocket.py`) | polygons per entry and ref, recency | `put_content`, `purge_missing`, `get` | a ref names one polygon for ever; what an entity publishes resolves |
| Triggers (`trigger.py`) | armed timers and marks per alert | event listeners, timed listeners | one firing per value of the watched time; the crossings tell the severity |
| Entries (`__init__.py`, `issues.py`, `repairs.py`) | entry data and options, repair cards, fix flows | setup, update, unload, remove | what runs is what is configured; the cards tell it |
| Config flows (`config_flow.py`, `flows/`) | a flow's picks | menus, forms, commits | one entry per scope; what is committed was agreed to |
| CAP parsing, chains, conventions, normalization (`providers/cap.py`, `*_conventions.py`, `normalize.py`) | none | pure functions | the leaf of each revision chain, a stable identity, the best language |
| Diagnostics, logbook, buttons, icons | none of their own | rendering | see [What is not modelled](#what-is-not-modelled) |

How they interact: the coordinator calls the provider (through the content
cache) and then, in one turn of the loop, the store; the store calls back into
the coordinator with each event; the platform listens to the coordinator and
calls the registry, whose listeners call `release` on the store one turn later;
the NAAD ingest calls the coordinator's `async_apply` under its own lock, beside
the poll; the restore file carries the tracked set and the scope key over a
restart, the entity registry carries the entities.

What is hard here: the store's loop reads the tombstones it writes; two tasks
share the coordinator's flags across awaits; an event can wait in two places at
once; a restart keeps the registry and the file but not the memory; the shared
cache is used by tasks that can be cancelled by their own time limits; several
indexes of one source fail one by one while the source moves on; a setup listens
to updates only once it has ended; a flow stands still between two answers while
others write. The hazards of `PROJECT.json` list each of these at its line.

## Modules

`AlertStore` — the store as a state machine. One `process` is one action
(`Process`; `Fetch` for a poll or backfill, `Rebuild` for a stream rebuild),
because it never awaits. The state is that of the class: `_previous`,
`_deferred`, `_tombstones`, `_tombstoned_identifiers`, `_known_at_boot`,
`_restored`, `_reconciliations`, `_booting`, one variable each, with the
surroundings that decide what the store may know: the registry (`Register`,
`Unregister`), the restore file (`Save`) and restarts (`Restart`, with a file
that can be read or not). A record is reduced to what the store tells apart:
id, identifier, references, sender, what `_compute_phase` reads, and one field
of each kind of content, kept by the restore file (severity) or not (text).
The loop over the batch mutates the maps it reads; the module gives the state
before each position in closed form.

`AlertStoreLoop` — the same method written branch by branch as the code has
it: the pass over the batch (`BatchPass`), over what was tracked and is missing
(`AbsencePass`) and over what the boot left pending (`BootPass`). `LoopAgrees`
compares the two in every reachable state for every batch in every order, so the
closed forms are not taken on trust; the theorem `LoopIsClosedForm` says the
same for every instance.

`Incident` — the abstract specification: what a consumer of the bus is promised
about one alert id (docs/events.md). `AlertStore` implements it id by id under
the mapping `status <- Status(id)`, `event <- decided[id]`.

`ScopeCycle` — the coordinator between resolving a query and acting on its
answer. Two tasks, the poll and the stream's read loop, each go through
`Resolve`, `Acquire` (the ingest lock, a FIFO), `Fetched`, `Apply` or `Fail`;
each stands between two awaits of the code. `_resolve_config` writes the scope
key and the change flag (`ResolvesTo`), `async_apply` reads them (`Retains`) and
schedules the restore file. `Write`, and `Restart` with or without the save of
an orderly stop, complete the life of the file. `foundIn` remembers which scope
listed each tracked alert; the properties are about it.

`EntityDelivery` — from a decision to the bus. It composes the store's parking
(reduced to `Incident`'s decisions), the coordinator's holding until Home
Assistant has started, and the platform's sync, its postponement behind held
events, the registry, the release of parked events, setup's order, reloads and
boots. One `Cycle` is a reconciliation with the flush and the sync that follow
it in the same turn of the loop. What the store decides is free within its rules:
an alert that is gone is announced as removed, or let go without an event
(`silent`) because an incoming record supersedes it (`store.py:423`) or its ending
is one already announced (`store.py:274-303`). `silenced` remembers which alerts
went that way.

`ByteLRU` — what the two byte-bounded caches share: an `OrderedDict` as the set of
its keys and the relation "used less recently", `move_to_end` (`Promoted`) and the
eviction loop in closed form (`Trimmed`).

`CapContentCache` — the shared cache. `get_or_fetch` is split at its awaits:
`Hit`, `Join` and `Request` run to the first one, `NotModified`, `Redirect`,
`NotFound`, `ServerError`, `Ok` are what the response's status does, `Read` its
body; `Fail` is a network error, time-out or undecodable body, `CancelOwner`
and `CancelWaiter` the cancellation of a caller by its poll's time limit or its
entry's unload. The LRU is the set `stored` with the order of use `older`; `Store`
(an eviction of the URL, then `Insert`) and `Evict` keep the byte total as the
code does, incrementally.

`NaadIngest` — real-time ingestion. The socket's reader and the resync are two
tasks around the ingest lock (`Waits`, `Acquire`, `Leaves`, a FIFO). The reader
takes one item at a time: `ReadDocument` notes and ingests a streamed document;
`ReadHeartbeat` compares what the heartbeat lists with `_seen` and asks the
repository, whose answer is `Recover` or `RepositoryDown`. A resync or a
reconnect (`Poll`, `Connect` when `NeedsBackfill`) stamps the throttle once it
has the lock and merges what the index lists (`Feed`) or fails (`FeedFails`).
`Merge` is `_admit` with `_merge_docs` and the build; `Apply` and `ApplyFails`
are the host's pipeline after its awaits. `Publish`, `Age`, `Break`, `Lapse`,
`Locate` are the world. `admitted`, `fetched`, `missed` remember what the
properties are about. The times of the back-off and the throttle are not
counted: a reconnect comes some time, `Lapse` says when the throttle is over.

`Triggers` — the automation triggers: the five that listen to incident events
(`Light` and the crossings, one action per kind of event) and the one that waits
for an onset (`Armed`, `Fire`). The alerts' side is the store's, one event a
step; `Tick` may come between the instant a timer waits for and its callback.
`lit` is a light that the event triggers switch, to ask whether together they
tell the severity.

`GeometryStore` — the polygons: refs that name entry, alert and digest, one LRU
(`content`, with the order of use `older`) with a byte budget for each entry
(`Store`, `Drop`, `Evicted`), the part of
`async_apply` that externalizes and purges, one alert a step (`Apply`,
`Externalize`, `Skip`, `Reconcile`), and the cards that hold on to a ref they
once read (`ReadState`, `Ask`).

`ConfigFlow` — the setup and reconfigure flows of the nine providers as tables
of forms (`NWSForms` …), with the edges back, the checks that ask the provider
before a form goes on, and the one commit through which every flow writes an
entry by its scope key. Entries of before the key existed may be twins.

`EntryLifecycle` — an entry from creation to removal: the setup with its two
readings of the configuration and its late subscription, the update listener,
reloads, the repair cards and fix flows. `unheard` remembers what was written
while no listener was there.

`SourceDocs`, `SourcePolls` — the nine sources and their providers.
`SourceDocs` is constant: the documents of a warning's revisions, the alert each
provider builds of one, the filters, what absence means. `SourcePolls` is the
machine: a poll reads its indexes one after the other or side by side (`NWSPage`,
`GDACSIndex`, `BBKIndex`, `TWCSlot`, `ECCCHost`, `WMOAuthority`, `WMOMirror` …),
then documents, shapes or the cancellation lookup, then delivers (`Deliver`) or
raises. What fails is decided in the poll, read by read; `TimesOut` cuts it off
anywhere. The source goes on between the reads (`Issue`, `End`, `List`, `Drop`).
`mem` is what the provider instance remembers; `Reload` makes a new one.
`CancellationsFindable` excepts an alert whose cancellation the entry's own
options drop: the provider finds it, so it asks no more, and the coordinator's
filter takes it away (`MCSourcePolls` has such a setup, `Spared`).

`ECCCRegion` — which block of an ECCC document speaks for the configured region:
the feed's envelope filter, the socket's admission, the block selected per
language, threat areas, and the merge of languages into alerts. `SourceDocs`
uses it for ECCC's documents.

`Episodes` — how MeteoAlarm merges a chain of messages into one alert, for the
two dialects (calendar days of MeteoFrance, touching windows of FMI).
It says what a run is with quantifiers, and writes down the loops of the code too
(`RunsLoop`); `MCEpisodes` compares the two on small feeds, a theorem
(`RunsFollowTheLoops`) on all.

`GuidPrefilter` — which bodies of a WMO feed an entry with geocode prefixes
reads, and which alerts the coordinator's filter then keeps.

The `MC...` modules hold the instances; the `...Proofs` modules hold the
theorems. Definitions whose comment says *Mutant*
are plausible bugs, each the counterpart of one definition of the code: with it
in place of that definition the named run fails, which shows that the property
depends on the code being as it is.

## Runs

| Run | Question | Instance |
| --- | --- | --- |
| `StoreSteady` | Is every ending announced once, in whatever order the revisions of a lineage are published, withdrawn and returned, across the tombstone's idle time? Do the closed forms agree with the loop? Does each id live an incident's life? | two ids, two identifiers, a chain of two revisions with live and terminal records, batches of up to two records in any order, three ticks with an idle time of two |
| `StoreRestart` | Over a boot: restored records, registry-only ids, the grace of two fetches. Does the first fetch keep silent about endings of before? Does every held id settle, and does every stale alert with an expiry leave? | an alert with an expiry beside one that its sender withdraws, or ends in a revision that supersedes the first; one restart at any moment with a readable or unreadable file |
| `CacheShared` | Byte budget, one request per URL, withdrawals seen, warnings kept through failures of the host, every call ends | two tasks, either of which may be cancelled, three bodies, one of which fills the budget alone, one URL revalidated |
| `ScopeSettled` | Does what went out of scope leave, and what went unobserved stay, with two tasks, moves, failures, stops and crashes, while no change was cut off? | two scopes that share an alert and have one each, three moves, one restart, with a stream |
| `Delivery` | Are events delivered in order and in the end, and do entities follow alerts, vanishing only with their ending heard or where the store is silent by its rules? | two alerts, one with a disabled entity, one reload or boot, two held events each |
| `NaadRecovery` | Is what is applied the live set, are the repository's fetches bounded, do superseded alerts stay gone, and does what an outage missed arrive or get given up on? | an alert of the region and the revision of it that moves off, one lost connection, one restart, two attempts, one item read ahead |
| `Triggers` | Do timers follow the onsets shown, is a start announced once per instant and reached in the end, do the event triggers agree with the severity? | one incident, onsets at two instants, three severities, an automation set up, retargeted and removed at any time |
| `Geometry` | Are the bytes charged those stored and within budget, and does the store hold what the last batch listed? | two entries, two alerts, a small and a large polygon, the budget of two small ones |
| `ConfigFlow` | Does an entry that a flow wrote share its scope with no other, and was what it committed agreed to? | four providers with every kind of form, two entries that may be twins, a flow, zones in both orders, a place and a base that nobody serves |
| `Entries` | Of what is written while the listener is there: does what runs equal what is configured, do the cards tell it, and is an update applied in the end? | one entry, two ECCC scopes and one of another provider, two intervals, both sunsets |
| `Polls` | Do failures take nothing, does a cancellation stay findable, does what is over leave? | one setup or more for each source (`MCSetups`), a warning without expiry that may be revised beside one that expires |
| `StoreRevival` | A violation, see [Findings and departures](#findings-and-departures) | an ended ancestor seen again after its successor went live |

**Bounds.** Two ids and two identifiers are the least in which an ending can
reach another id through its lineage; a third alert adds no new relation,
because every rule of `process` is about one id and the identifiers its
references name. Three ticks cover before, at and after an idle time of two and
an expiry of one or two. One restart is enough for what a boot reads from the
session before; what a second boot reads is what the first one saved. Three
moves go out of a scope, back and away again, with one to spare for a lost
location; a larger instance of `Delivery` (`MaxHeld = 3`, `MaxRestarts = 2`) and
the cache's safety properties with three callers pass too. Counters that grow for ever are bounded
by the guards `now < MaxTime`, `moves < MaxMoves`, `restarts < MaxRestarts`,
`drops < MaxDrops`, `Len(held[a]) < MaxHeld` and `Len(wire) < MaxWire`. In
`NaadIngest` two documents are an alert and what supersedes it; with a third,
unrelated one and no restart the safety properties pass too, and so do all of
them when the index also lists the document off the region.

Triggers of one incident share nothing with another's; three severities are
below, at and above a threshold. Entries share nothing in `EntryLifecycle`, so
one is enough. The providers that the instance of `ConfigFlow` leaves out have
forms of the kinds it has (checked, free, a click). In `Polls` two warnings are
one that a failure is about and one that it is not; some setups have one warning
alone, and one revision where the order of revisions is not at stake, to keep
the sum over the sources small; a setup may also drop a revision by its level
floor, and a mirror may be gone for good. One ECCC setup has a warning whose first
revision has ended at the place and whose second takes it up again. A poll is
short beside a tick: time passes between polls, and what a source does after the last read of a poll is
seen by the next one. Look-back, intervals and the mirror's streak are one or two
ticks, their order being what matters.

The bounds are only for TLC: the theorems below hold for every value of them.

**Fairness.** `StoreRestart` assumes weak fairness of `Fetch` and `Tick`: polls
come on a timer (`update_interval`) and the clock advances; that one of the
polls succeeds is assumed, and with an upstream that is down for ever the
promises are void. `CacheShared` assumes weak fairness of each caller's
`Finish`: every request carries a time-out, so an answer or a failure comes.
`Delivery` assumes that Home Assistant finishes starting (`Start`), that its
loop runs what is scheduled (`Drain`, `Release`), that setup goes on
(`PlatformUp`) and that polls come (`Fetch`).
`NaadRecovery` assumes that both tasks run on (`Poll`, `Start`, `Acquire`,
`Fetching`, `Applying`, `Reading`), that a connect succeeds (`Connect`: the
client retries for ever), that heartbeats come (`Heartbeat`: each minute, by
NAAD's own rules), and, strongly, that the repository is not down each time it
is asked (`Recovering`); it may lack any document for ever.
`Triggers` assumes that the clock goes on and that the loop runs a timer that is
due. `Entries` assumes that Home Assistant goes on with setups, retries and
reloads, that of the first refreshes it retries some succeed (strong fairness of
`ComesUp`), and that it is not restarted for ever (`<>[][~Restart]_vars`).
`Polls` assumes that a poll under way goes on (each read has a time limit), that
time passes and polls without a failure come again and again (strong fairness of
`Tick` and `Begin(FALSE)`: each is disabled while a poll runs), and that a source
in the end drops the records of what is over (`DropOld`); a source may drop a
live warning (`Wavering`) and list it again at any time.
Nothing is assumed of reloads, backfills that succeed, moves, cancellations,
withdrawals or the stream: they may never happen.

**Deadlock** is checked in every run.

## Theorems

Each proof follows one pattern: an invariant that is inductive, one lemma per
action that preserves it, and the property from the invariant.

`AlertStoreProofs`. `TypeCorrect` (`TypeOK`) and `ConsistentAlways`
(`StoreConsistent`) rest on `Consistent`: `TypeOK`, the agreement of the parts
of the store, and what the restore file holds (each saved record is a stale
entry without text). The file's part is needed because `Restart` makes tracked
entries of it. `EndingsAnnouncedOnce` (`NoRepeatedEnding`) adds
`HistoryRemembered`: a remembered ending younger than the idle time has a
tombstone that is as young, for ids and for identifiers. `GraceCountsFetches`
(`GraceIsTwoFetches`) and `OldEndingsSilent` (`OldEndingsStaySilent`) follow from
the counter's part of `StoreConsistent`: before the first fetch the store is
`booting`, whatever it rebuilt.
`StoreImplementsIncident` is the refinement: initial states map to initial
states and each step, with the invariant, to a step of `Incident` or a stutter.
`LoopIsClosedForm` (`LoopAgrees`) says that the closed forms those theorems are
about are what `process` computes turn by turn. Each pass is a recursive function
over the positions of a sequence. Its closed form at each position (`BatchPassIs`,
`AbsencePassIs`, `BootPassIs`) satisfies the recursion, one lemma per branch of a
turn, and a recursion over `0 .. n` has one solution (`OneSolution`: of two, the
first position at which they differ follows one at which they agree). The
absence pass and the boot pass run over enumerations of what the store tracks and
knows; that these sets are finite is an invariant of its own, `FiniteStore`
(`StoreStaysFinite`), for the registry and the restore file as well.

`ByteLRUProofs` holds no theorem a reader needs by itself but what both caches
rest on: sums of sizes over finite sets (`SumOfOneMore`, `SumOfSubset` …), that
the order of use stays a strict linear order (`Orders`), and that what `Trimmed`
leaves fits the budget or is nothing.

`FetchProofs`, first about `CapContentCache`. `CacheInv`: the calls have their
types, `_inflight` names the fetching caller of each URL (`FetchShared`), and a
caller that waits knows of the host what its fetch's owner knows (`FetchKnows`).
The last part is what makes `WithdrawalSeen` inductive: a body is handed to all
who joined, and its age is the owner's. `FullInv` adds the maps of the LRU in
step with each other (`LruInv`, of which `BudgetKept` is a part) and that a body
stored under a URL being fetched was found by the fetch's owner, who found
whatever those who joined found (`FoundKnown`): hence `WarningKept`. A caller
that goes without is in one step with an owner that found nothing either, or that
is cancelled, or it is itself answered 304 for a body evicted since; the two
exceptions are where the code breaks its promise (see the known departures).

Then about `SourcePolls`: `CancellationsFound` (`CancellationsFindable`). Between
the lookup of a poll and its delivery the ids that were found have left
`_tracked` while the store still holds their alerts, and the alerts of the batch
are not yet held while their ids are asked for; `FindableInv` says both
(`AskedInv`), over the shape of the records that a poll is made of.

And about every source: `FailuresTakeNone` (`FailuresTakeNothing`). Its invariant
`PollsInv` says what a delivery relies on by the time it comes: each document that
a poll has read, or a provider remembers, was published, so none is newer than its
warning (`PolledInv`); a poll that is past its indexes has an answer from one of
them (`AnswersAt`, which for WMO needs that the mirror is skipped only beside the
authority's feed); an alert that is held was issued, publishes an expiry exactly
if its kind does, and lies in the entry's scope (`SourceInv`, `EntryInv`); and GDACS
remembers a shape of whatever it was shipped with one (`ShownAt`). The delivery is
then a matter of cases: an ending that was read is the warning's last word, or on
ECCC that of a revision whose successor was not read (`EndsTrue`); an alert kept
without an expiry whose documents were all read has a last one, which no other
references, and that one passes every filter (`LastIsLeaf`, `ReadIsInBatch`). The
exception for ECCC is a disjunct of the property, `EndedAsRead`: nothing is assumed
of what later revisions say of a region.

The same invariant carries `PollsTypeCorrect` (`PollsTypeOK`). What it leaves open
is in `RangesInv`: the streak of 404s stops at its limit, the age of the stand-in
and the time to the next probe stay in their ranges through failures, ticks and
reloads, and whatever has a shape was read in the same poll.

`GeometryStoreProofs`. `GeometryInv`: every ref is stored under the shape it
names (`NamedByShape`, whence `RefImmutable`), the charged bytes are the sum of
the stored ones and within the budget (`StoreInv`), and the refs of the batch
being applied are the last of their entry to go, so that none of them went while
they fit the budget together (`BatchLast`). The last part is what a
reconciliation of several alerts needs to end in `StoreMatchesEntities`, which
for the other entries holds throughout (`OthersMatch`).

`ScopeCycleProofs`. `IInv`: the line of the lock lists the open tasks once each,
only its head is past the lock, and its last member's scope is the
coordinator's key (`LineInv`); and, while no change was cut off, the open tasks
resolved the current key, the flag tells whether what is tracked was found
under it, and the records of the file were found in the scope it names
(`SettledInv`). The four results follow from it. The proofs hold with and
without a stream.

`ProviderProofs`, first about `NaadIngest`. `IInv`: only the head of the line is past the lock
(`LockInv`); what entered the live set left it by age alone, and after everything
older (`AdmittedInv`); and what is about to be applied is what the live set makes
(`AppliesCurrent`). The second part is why pruning brings nothing back:
`NoResurrection` is about a revision that may long be gone, and a document it
supersedes is older, so it went no later. That some leaf exists in every set of
documents follows from the order of publication: the newest has no successor
(`NewestIsLeaf`).
`RepositoryBounded` rests on a second invariant, `FetchInv`. What the heartbeats
list only moves on, on the wire as at the sender (`WireInv`); so the code's count
of a document's misses is the true one until the document is seen, too old or
past every list to come (`CountInv`). The reset of the counts in
`_on_stream_heartbeat` is harmless for that reason: it forgets only what no
heartbeat names again.

`TriggersProofs`. `IInv` says what each timer waits for and that each onset to
come has its timer (`TimersInv`), that announced starts lie behind and no armed
one was announced (`StartedInv`), and what the light tells (`LightInv`).
`ListenFacts` is the lemma under every action: an entity written is armed on what
it shows, one not written keeps its timer, one that left has none.

`ProviderProofs` on `ECCCRegion`, about documents of any length. `EndsOnlyWhereOver`: a
document without threat areas ends the alert exactly when each matching block
has ended. `EndsByItsBlock`: every alert that a document makes comes from the block
selected for one of its languages, and it is ended exactly when each matching block
of that language has ended or, at a point, threat areas of the selected block cover
it and all of these have ended. `AdmittedIsBuilt`: what the socket admits is
built, unless only some blocks have a language, in which case a document can be
admitted for a block that no language's pass looks at. `ConfirmedIsRead`: the
envelope filter loses no document, given that boxes of intersecting outlines
meet and threat areas lie within their block's polygons.

`ProviderProofs` on `Episodes`, about feeds of any size. `EpisodesApart` says that the episodes
of a fetch have distinct ids, `InEffectKeepsId` that a message in effect keeps
its id from one fetch to another. The first rests on `RunsApart` (two runs of a
group differ in the window that names them), the second on `BegunIsFirst` (a run
that has begun has none before it), both on windows that are `Regular`:
MeteoFrance's days end by the day after, FMI's windows have an end and none
before it begins. The other three need no such condition. `RunsFollowTheLoops`:
the runs, defined with quantifiers, are those that `_calendar_day_runs` and
`_contiguous_window_runs` find; the members of a group have places in the order
of windows (`OrderedFacts`), after each of them the loop holds what is begun
and what is complete (`Placed`), and a message joins the run at hand exactly
where it starts none (`JoinsUnlessStarts`: for FMI because whatever reaches the
message from an earlier run would have reached the start of the last one).
`LiveWarningsCovered` and `EpisodesGrounded` state the two other assumptions of
`MCEpisodes` for finite feeds of any length: each live warning has an episode as
severe that begins by its day and spans the window of the message it is shown
by, and no episode claims what no live message says. They rest on `RunsPartition`
(each member is in one run and no second), `DayHasItsMessage` (a day's message
is the strongest) and `MergedRun`, all on `FiniteHasLeast`: a strict order has a
least element on each finite set.

`ProviderProofs` on `GuidPrefilter`. `PrefilterIsLossless` and `PrefilterFailsNothing`: with
guids that carry the body's one area code and envelopes that do not expire before
their bodies, an entry narrowed by prefixes shows what it would show had it read
everything, and no poll fails that would not have failed.

`EntryProofs` is about a config entry, in three parts.

* `EntityDelivery`. `DeliveryInv`: what is owed to the bus is what the
  coordinator holds and, behind it, what the store parked (`WaysInv`); who waits
  for what (`RegistryInv`); a held removal has an entity to name (`NamedInv`); and
  an entity without an alert that nothing waits for has had its ending as its
  last event, delivered or under way, or is one the store let go without an event
  (`AnnouncedInv`). `StepSound` is what one
  step may do to the bus and the registry; `InOrder`, `RemovalsNamed` and
  `EndingsAnnounced` are its three parts (`DeliveredInOrder`,
  `RemovalNamesEntity`, `UnregisteredIsAnnounced`), `EntitiesAlwaysMatch` a part
  of the invariant.
* `EntryLifecycle`. `LifeInv` adds to `RunsConfigured` and `CardsTellConfig` that
  already in setup, once it is built, a coordinator is what was configured unless
  a write found no listener (`BuiltInv`), and that an entry without a setup has no
  configuration (`PresentInv`).
* `ConfigFlow`. `FlowsInv`: a flow past the menus has a provider, at the forms of
  a base it has picked one that the provider agreed to, and the form it is in is
  one it was offered (`StandsInv`), through edges back and refused answers. This
  is what `CommitsServed` needs, since a commit uses what was picked earlier;
  `ScopesApart` follows from the check in `Commit` and from `Setup`'s.

**Assumptions** are those of the modules: `Absent`, `Never`, `Nobody`,
`Nowhere`, `NoKey` are none of the values they stand beside, the published
records are records, the idle time is positive, there is at least one URL,
languages are positive numbers, a day has a length.

**Only model-checked**: liveness (`BootPendingResolves`, `StaleResolves`,
`EveryCallEnds`, `EventsArrive`, `EntitiesLeave`, `GapCloses`, `OnsetReached`,
`UpdatesArrive`, `OverLeaves`), which is out of the provers' reach. Every safety
invariant and action property of the passing runs is a theorem, and so is what the
recursive definitions compute: the sums of sizes, the passes of `AlertStoreLoop`
and the loops of `Episodes` are recursive functions, taken from their definitions
by a least counterexample (`FS_StrictSubsetOrderingWellFounded`,
`NatLessThanWellFounded`, `WFMin`), which needs no induction theorem with an
operator for its parameter. Type invariants (`TypeOK`) are proved for
every component except `ConfigFlow`, where the shape of the records suffices.

## Findings and departures

One run is refuted by TLC; `PROJECT.json` quotes the comment the code departs
from.

* `StoreRevival` (`store.py:280`). Every sighting of an ended ancestor renews its
  tombstone, also after its successor went live, so the successor's own ending
  is taken for old news. This is why `Incident` lets `Recognise` happen to a
  live alert. The same property fails a second way, at `store.py:423`: an alert
  is let go silently because an incoming record references it, for the reason
  that this record fired an update; a terminal one whose ending is already
  remembered fires nothing.

Known departures, which the models keep but no run is about:

* Store (`store.py:289`). After a boot, a held alert that was ended by a successor
  revision while the process was down is dropped with no event, against
  docs/events.md:225-226: the terminal successor counts as begun and ended
  unseen, and the held record as superseded.
* Content cache (`providers/cap_content_cache.py:263`). When the owner of a
  shared request is cancelled, those who joined are told there is no document,
  although a body is cached, against the docstring at 184-187.
* Content cache (`providers/cap_content_cache.py:223`). A body evicted while its
  revalidation is in flight makes the 304 raise `KeyError` (`NotModified` ends
  `"broken"`), against the docstring at 182-183. `WarningKept` makes room for this
  step (`EvictedMeanwhile`) and the one above (`OwnerCancelled`), and for nothing
  else: without either disjunct TLC refutes it.
* Coordinator (`coordinator.py:496`). The first poll after a scope change
  consumes the change even if its fetch fails; the next one retains the alerts
  of the old scope to their expiry, against docs/events.md:95-97. A heartbeat
  that resolves while a backfill holds the lock (`providers/eccc_ingest.py:298`)
  and a stop between resolution and reconciliation (`coordinator.py:570`, against
  542-546) do the same. The variable `settled` of `ScopeCycle` is true as long as
  none of this has happened; without it TLC refutes `SettledScopeLeaves` by each of
  the three.
* NAAD ingest (`providers/eccc_ingest.py:207`). Documents recovered in one batch
  are screened against the live set before any of them is in it, so that a
  revision that moved off the region does not supersede the alert recovered
  beside it, as it would have, streamed (docstring of `_admit`, 184-186).
* Geometry. `async_apply` purges the polygon of an alert that is merely retained
  (`coordinator.py:883`), while docs/frontend_hints.md has a card take the 404
  for the alert's end; polygons of unloaded and deleted entries are never purged.
  `StoreMatchesEntities` is therefore about what the last batch listed.
* Triggers. An onset rendered anew (another offset, the same instant) keeps its
  timer, whose callback then finds another text and announces no start
  (`trigger.py:307-310`, `326-329`); the instance has one rendering per instant.
  An alert at the threshold whose terminal revision has a lower severity fires
  neither ended nor downgraded.
* Entries. What is written between the building of the coordinator and the
  subscription of the listener is applied by nobody (`__init__.py:147`), and the
  repair cards are not evaluated again when an entry is written during its setup or
  between its retries, against `issues.py:19-21`; `unheard` marks both, and without
  it TLC refutes `RunsConfigured` and `CardsTellConfig`. A reconfigure to another
  provider keeps the options of the old one.
* NWS. A restart empties `_tracked`: an alert restored from the file and
  cancelled while the process was down is not looked up, and without an expiry
  it stays; so does one whose lookups failed for the whole look-back. `Pinned`
  names the two. A cancellation that the entry's options drop is found once and
  then asked for no more (`providers/nws.py:350-365`), so that its alert stays, too.
* BBK. A channel index that fails ends that channel's warnings without expiry by
  absence (`providers/bbk.py:434`); in GPS mode so does a shape that cannot be
  read.
* GDACS. `_last_shapes` is not pruned when nothing is listed. The level filter
  runs before the indexes are merged, so an older, higher item of one index
  stands while the other lists a newer one below the floor.
* WMO. The streak of mirror 404s is not broken by another failure in between.
* MeteoAlarm. When the first of two runs finishes, the later one takes over the
  id without a window; its old id stays, stale, to its expiry, so that one
  warning is shown twice meanwhile.
* ECCC. At a point, `_select_region_info` prefers a going block by the block's own
  stage alone; if that block's threat areas have ended at the point, the alert
  ends although another matching block goes on. And a warning that ends in a region
  by one revision and takes it up again by the next is removed when the body of the
  later one cannot be read: the chain is resolved over the documents that were
  (`providers/eccc.py:1014`), of which the ended one is a leaf (`EndedAsRead`).
* Store. An alert that an incoming record supersedes, or whose ending is one already
  announced, goes without an event of its own (docs/events.md:330-332); its entity
  vanishes all the same. `UnregisteredIsAnnounced` names this exception
  (`silenced`).

## What is not modelled

* Parsing of XML, JSON and Atom, geometry on floating-point numbers, icons,
  translations, payload layout, diagnostics and the logbook: data or rendering
  with no state. Whether a polygon covers a point is a constant.
* In `SourcePolls`: the cap on ids per NWS cancellation lookup and the limit on
  its pages, the resolution of a WMO registry record, 304 replays (which leave
  the answer as it was), the ECCC circuit that skips a dead host for a while, the
  choice of a language outside ECCC, and the geocode filter that fails a poll,
  which is in `GuidPrefilter` alone.
* In `ConfigFlow`: titles, labels and defaults; the options form is in
  `EntryLifecycle` without its three checks of values.
* The stream client's back-off and the reassembly of frames (`_extract_docs`).
* `scripts/`: probes that a maintainer runs by hand against the live feeds.
* The order of ids within one batch when two alerts end up under one id: the
  coordinator's dictionary makes ids distinct before the store sees them.
* Alerts whose first sighting is already terminal, in `EntityDelivery`: the
  store decides on them (`AlertStore`), they get no entity. This includes a terminal
  successor under an id of its own; what it supersedes is in the model.
* Crashes in `EntityDelivery`: reloads and boots there are orderly; what a crash
  loses is in `ScopeCycle` and `AlertStore`.
* Home Assistant's own tasks between an entity's creation and its registration:
  the platform adds entities eagerly, so that the registration falls in the
  sync's turn of the loop and only the release waits for the next one.
