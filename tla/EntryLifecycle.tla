---------------------------- MODULE EntryLifecycle -----------------------------
(***************************************************************************)
(* A config entry from its creation to its removal (__init__.py): the      *)
(* setup, which reads the configuration at two moments and listens to      *)
(* updates only at its end; the update listener, which owns every decision *)
(* to reload; and the repair cards of the two ECCC sunsets (issues.py)     *)
(* with the flows that fix them (repairs.py).                              *)
(***************************************************************************)
EXTENDS FiniteSets

CONSTANTS
  Entry,
  Scope, Gone,   \* entry data; no entry
  Eccc,          \* the data of an ECCC entry
  Interval, DefaultInterval

ASSUME ScopeAssumption == Eccc \subseteq Scope /\ Gone \notin Scope
ASSUME IntervalAssumption == DefaultInterval \in Interval

VARIABLES
  config,   \* the entry: its data and options
  state,    \* where its setup stands
  run,      \* what its coordinator was built from, or was told since
  reload,   \* the entries that a reload is scheduled for
  cards,    \* the repair issues on show
  fixing,   \* the open fix flows
  unheard   \* what a write without a listener has left behind, by entry

lifeVars == <<config, state, run, reload, cards, fixing, unheard>>

Stem == {"streaming_off", "feed_source_pelmorex"}
State == {"none", "waiting", "starting", "setup", "retry", "loaded", "unloading"}

Configs == [data : Scope, streaming : BOOLEAN, pelmorex : BOOLEAN, interval : Interval]
NoConfig == [data |-> Gone, streaming |-> TRUE, pelmorex |-> FALSE, interval |-> DefaultInterval]

\* What a coordinator takes from a configuration: only ECCC streams, and while
\* it does its interval is that of the resync.
Wanted(c) ==
  LET streaming == c.data \in Eccc /\ c.streaming
  IN [data |-> c.data, streaming |-> streaming,
      interval |-> IF streaming THEN DefaultInterval ELSE c.interval]

NotRunning == Wanted(NoConfig)

\* async_sync_issues
Owed(c) ==
  {stem \in Stem : /\ c.data \in Eccc
                   /\ \/ stem = "streaming_off" /\ ~c.streaming
                      \/ stem = "feed_source_pelmorex" /\ c.pelmorex}

Shown(e) == {stem \in Stem : <<e, stem>> \in cards}

\* Mutant: a card is raised and never cleared.
SyncedRaising(e, c) == cards \cup {<<e, stem>> : stem \in Owed(c)}

\* _sync, for each stem.
Synced(e, c) == {card \in cards : card[1] # e} \cup {<<e, stem>> : stem \in Owed(c)}

Present(e) == config[e].data # Gone
Listens(e) == state[e] \in {"loaded", "unloading"}

-----------------------------------------------------------------------------
(* Setup                                                                   *)

\* Up to its first await, setup shows the cards (async_setup_entry).
SetUp(e) ==
  /\ state[e] \in {"waiting", "retry"} /\ Present(e)
  /\ state' = [state EXCEPT ![e] = "starting"]
  /\ cards' = Synced(e, config[e])
  /\ unheard' = {left \in unheard : left[1] # e}
  /\ UNCHANGED <<config, run, reload, fixing>>

\* Then the coordinator is built, and reads the entry.
Build(e) ==
  /\ state[e] = "starting"
  /\ state' = [state EXCEPT ![e] = "setup"]
  /\ run' = [run EXCEPT ![e] = Wanted(config[e])]
  /\ unheard' = unheard \ {<<e, "run">>}
  /\ UNCHANGED <<config, reload, cards, fixing>>

\* The first refresh fails (ConfigEntryNotReady): Home Assistant tries again.
NotReady(e) ==
  /\ state[e] = "setup"
  /\ state' = [state EXCEPT ![e] = "retry"]
  /\ run' = [run EXCEPT ![e] = NotRunning]
  /\ UNCHANGED <<config, reload, cards, fixing, unheard>>

\* Restored, refreshed, platforms and stream up; last comes the listener.
ComesUp(e) ==
  /\ state[e] = "setup"
  /\ state' = [state EXCEPT ![e] = "loaded"]
  /\ UNCHANGED <<config, run, reload, cards, fixing, unheard>>

\* A scheduled reload has the lock of the entry.
BeginReload(e) ==
  /\ e \in reload /\ state[e] \in {"loaded", "retry"}
  /\ state' = [state EXCEPT ![e] = IF state[e] = "loaded" THEN "unloading" ELSE "waiting"]
  /\ reload' = reload \ {e}
  /\ UNCHANGED <<config, run, cards, fixing, unheard>>

\* The platforms are unloaded, the listener is gone.
Unloaded(e) ==
  /\ state[e] = "unloading"
  /\ state' = [state EXCEPT ![e] = "waiting"]
  /\ run' = [run EXCEPT ![e] = NotRunning]
  /\ UNCHANGED <<config, reload, cards, fixing, unheard>>

-----------------------------------------------------------------------------
(* Updates                                                                 *)

\* Mutant: a toggled stream is applied in place.
ReloadsForData(e, c) == c.data # run[e].data

\* Mutant: a reconfigure is applied in place.
ReloadsForStream(e, c) == Wanted(c).streaming # run[e].streaming

\* entry_data_changed, streaming_enabled
NeedsReload(e, c) == c.data # run[e].data \/ Wanted(c).streaming # run[e].streaming

\* _async_entry_updated decides between a reload and what is set in place.
Decided(e, c) ==
  IF NeedsReload(e, c)
  THEN reload' = reload \cup {e} /\ UNCHANGED run
  ELSE run' = [run EXCEPT ![e].interval = Wanted(c).interval] /\ UNCHANGED reload

\* Home Assistant calls the listener, if there is one, with what has changed;
\* then the manager of a fix flow takes away the card that was fixed.
Write(e, c, fixed) ==
  /\ Present(e)
  /\ config' = [config EXCEPT ![e] = c]
  /\ IF Listens(e) /\ c # config[e]
     THEN /\ cards' = Synced(e, c) \ fixed
          /\ Decided(e, c)
          /\ unheard' = {left \in unheard : left[1] # e}
     ELSE /\ cards' = cards \ fixed
          /\ unheard' = IF c = config[e] THEN unheard
                        ELSE unheard \cup {<<e, "cards">>, <<e, "run">>}
          /\ UNCHANGED <<run, reload>>
  /\ UNCHANGED state

\* The options form of the provider; what it does not show is not kept.
SaveOptions(e, c) ==
  /\ c.data = config[e].data
  /\ c.data \notin Eccc => c.streaming /\ ~c.pelmorex
  /\ Write(e, c, {})
  /\ UNCHANGED fixing

\* A reconfigure rewrites the data and keeps the options.
Reconfigure(e, data) ==
  /\ Write(e, [config[e] EXCEPT !.data = data], {})
  /\ UNCHANGED fixing

-----------------------------------------------------------------------------
(* Repairs                                                                 *)

OpenFix(e, stem) ==
  /\ <<e, stem>> \in cards \ fixing
  /\ fixing' = fixing \cup {<<e, stem>>}
  /\ UNCHANGED <<config, state, run, reload, cards, unheard>>

Fixed(c, stem) ==
  IF stem = "streaming_off" THEN [c EXCEPT !.streaming = TRUE] ELSE [c EXCEPT !.pelmorex = FALSE]

\* What is fixed already is written again, which nobody is told of.
SubmitFix(e, stem) ==
  /\ <<e, stem>> \in fixing
  /\ Write(e, Fixed(config[e], stem), {<<e, stem>>})
  /\ fixing' = fixing \ {<<e, stem>>}

CloseFix(e, stem) ==
  /\ <<e, stem>> \in fixing
  /\ fixing' = fixing \ {<<e, stem>>}
  /\ UNCHANGED <<config, state, run, reload, cards, unheard>>

-----------------------------------------------------------------------------
(* Entries come and go                                                     *)

Create(e, data) ==
  /\ ~Present(e)
  /\ config' = [config EXCEPT ![e] = [NoConfig EXCEPT !.data = data]]
  /\ state' = [state EXCEPT ![e] = "waiting"]
  /\ UNCHANGED <<run, reload, cards, fixing, unheard>>

\* async_remove_entry, once nothing has the lock.  A fix flow that is still
\* open finds no entry to write.
Remove(e) ==
  /\ Present(e) /\ state[e] \in {"waiting", "retry", "loaded"}
  /\ config' = [config EXCEPT ![e] = NoConfig]
  /\ state' = [state EXCEPT ![e] = "none"]
  /\ run' = [run EXCEPT ![e] = NotRunning]
  /\ reload' = reload \ {e}
  /\ cards' = {card \in cards : card[1] # e}
  /\ fixing' = {fix \in fixing : fix[1] # e}
  /\ unheard' = {left \in unheard : left[1] # e}

\* A restart keeps the entries alone.
RestartAll ==
  /\ state' = [e \in Entry |-> IF Present(e) THEN "waiting" ELSE "none"]
  /\ run' = [e \in Entry |-> NotRunning]
  /\ reload' = {} /\ cards' = {} /\ fixing' = {} /\ unheard' = {}
  /\ UNCHANGED config

LifeInit ==
  /\ config = [e \in Entry |-> NoConfig]
  /\ state = [e \in Entry |-> "none"]
  /\ run = [e \in Entry |-> NotRunning]
  /\ reload = {} /\ cards = {} /\ fixing = {} /\ unheard = {}

LifeNext ==
  \/ \E e \in Entry :
       \/ SetUp(e) \/ Build(e) \/ NotReady(e) \/ ComesUp(e)
       \/ BeginReload(e) \/ Unloaded(e)
       \/ \E c \in Configs : SaveOptions(e, c)
       \/ \E data \in Scope : Reconfigure(e, data) \/ Create(e, data)
       \/ \E stem \in Stem : OpenFix(e, stem) \/ SubmitFix(e, stem) \/ CloseFix(e, stem)
       \/ Remove(e)
  \/ RestartAll

LifeSpec == LifeInit /\ [][LifeNext]_lifeVars

\* Home Assistant goes on with setups, retries and reloads, and of the first
\* refreshes it tries some succeed; it is not restarted for ever.
LifeFairSpec ==
  /\ LifeSpec
  /\ <>[][~RestartAll]_lifeVars
  /\ \A e \in Entry :
       /\ WF_lifeVars(SetUp(e)) /\ WF_lifeVars(Build(e)) /\ SF_lifeVars(ComesUp(e))
       /\ WF_lifeVars(BeginReload(e)) /\ WF_lifeVars(Unloaded(e))

-----------------------------------------------------------------------------
(* Properties                                                              *)

LifeTypeOK ==
  /\ config \in [Entry -> Configs \cup {NoConfig}]
  /\ state \in [Entry -> State]
  /\ run \in [Entry -> [data : Scope \cup {Gone}, streaming : BOOLEAN, interval : Interval]]
  /\ reload \subseteq Entry
  /\ cards \subseteq Entry \X Stem
  /\ fixing \subseteq Entry \X Stem
  /\ unheard \subseteq Entry \X {"cards", "run"}

\* "This listener is the sole owner of reload decisions ... anything the flow
\* used to reload for has to be recognised here": an entry that is up and not
\* about to be reloaded runs what it is configured for, through reconfigures,
\* options, fixes and reloads that overtake each other (_async_entry_updated).
\* Excepted is an entry written while nobody listened, between the building of its
\* coordinator and the listener, and not written since: nobody applies that write.
RunsConfigured ==
  \A e \in Entry :
    state[e] = "loaded" /\ e \notin reload /\ <<e, "run">> \notin unheard
      => run[e] = Wanted(config[e])

\* From the moment setup begins, also while the first refresh fails, the cards on
\* show are those owed by the configuration that setup found or the listener was
\* told of last; fixes take away their own card and no other, and an entry that
\* was deleted leaves none (async_sync_issues, async_delete_issues,
\* OptionRepairFlow).  Excepted is an entry written while nobody listened, during
\* setup or between its retries, against "re-evaluated ... on every entry update":
\* its cards stay behind until setup begins anew or the listener hears of a later
\* write.
CardsTellConfig ==
  \A e \in Entry :
    IF state[e] \in {"starting", "setup", "retry", "loaded", "unloading"}
    THEN <<e, "cards">> \notin unheard => Shown(e) = Owed(config[e])
    ELSE ~Present(e) => Shown(e) = {}

\* An entry that is there comes to run its configuration again and again, or has
\* again and again been written last while nobody listened: no order of writes and
\* reloads that the listener hears of leaves it behind for ever
\* (async_schedule_reload, async_setup_entry).
UpdatesArrive ==
  \A e \in Entry :
    []<>(\/ ~Present(e) \/ <<e, "run">> \in unheard
         \/ state[e] = "loaded" /\ run[e] = Wanted(config[e]))

=============================================================================
