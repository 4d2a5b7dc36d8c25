------------------------------ MODULE NaadIngest ------------------------------
(***************************************************************************)
(* Real-time ingestion of the Canadian feed: the socket client             *)
(* (custom_components/cap_alerts/providers/naad_stream.py) and the live    *)
(* document set it feeds (providers/eccc_ingest.py).                       *)
(*                                                                         *)
(* Documents reach the live set on three ways: as they are streamed; from  *)
(* the GeoRSS index, on reconnects and on the safety resync; and from the  *)
(* repository, when a heartbeat lists one that was not seen.  The reader   *)
(* of the socket handles one document at a time and is one task, the       *)
(* resync another; the ingest lock stands between them.                    *)
(*                                                                         *)
(* A document is its place in the order of publication.  The back-off      *)
(* between two connections is time, which the model does not count.        *)
(***************************************************************************)
EXTENDS Naturals, Sequences

CONSTANTS
  N,             \* how many documents are published
  Refs,          \* the earlier documents each one references
  InRegion,      \* documents that cover the configured region
  Actual,        \* documents that are no test or exercise
  Indexed,       \* documents that pass the index's coarse test of the region
  Window,        \* how many documents a heartbeat lists
  Attempts,      \* NAAD_REPOSITORY_FETCH_ATTEMPTS
  MaxWire, MaxDrops, MaxRestarts   \* bounds of the exploration

Doc == 1 .. N

ASSUME DocAssumption == N \in Nat /\ InRegion \subseteq Doc /\ Actual \subseteq Doc
ASSUME IndexAssumption == Actual \cap InRegion \subseteq Indexed /\ Indexed \subseteq Actual
ASSUME RefsAssumption == Refs \in [Doc -> SUBSET Doc] /\ \A d \in Doc : Refs[d] \subseteq 1 .. (d - 1)
ASSUME AttemptsAssumption == Window \in Nat /\ Attempts \in Nat \ {0}
ASSUME BoundAssumption == MaxWire \in Nat /\ MaxDrops \in Nat /\ MaxRestarts \in Nat

VARIABLES
  published,   \* external: documents 1 .. published are out
  aged,        \* external: documents 1 .. aged are past the 48 h window
  located,     \* external: whether the scope resolves
  link,        \* external: the connection
  wire,        \* external: what it has delivered and nobody read yet
  task,        \* how far the reader and the resync have come
  line,        \* _ingest_lock: its holder and, in order, who waits for it
  live,        \* _live_docs
  seen,        \* _seen
  attempts,    \* _repository_attempts
  recent,      \* _last_backfill_at is within the reconnect throttle
  first,       \* the client has not connected yet
  seeded,      \* the first refresh has reconciled
  shown,       \* the documents behind the alerts of the last async_apply
  drops, restarts,   \* bound the lost connections and the restarts
  admitted,    \* auxiliary: every document that ever entered the live set
  fetched, missed    \* auxiliary: what the repository has answered for each

world == <<published, aged, located>>
socket == <<link, wire, first>>
documents == <<live, seen, shown>>
repository == <<attempts, fetched, missed>>
vars == <<world, socket, task, line, documents, recent, repository, seeded,
          drops, restarts, admitted>>

Task == {"poll", "reader"}

\* docs: what a task is about to ingest, or asks the repository for.  built:
\* the alerts it applies.
TaskRecord ==
  [pc : {"off", "idle", "down", "reading", "recovering", "waiting", "fetching", "applying"},
   backfill : BOOLEAN, docs : SUBSET Doc, built : SUBSET Doc]

At(pc) == [pc |-> pc, backfill |-> FALSE, docs |-> {}, built |-> {}]
Resting(t) == IF t = "poll" THEN At("idle") ELSE At("reading")

Item == [heartbeat : {FALSE}, last : Doc] \cup [heartbeat : {TRUE}, last : 0 .. N]
Streamed(d) == [heartbeat |-> FALSE, last |-> d]
Beat(last) == [heartbeat |-> TRUE, last |-> last]

-----------------------------------------------------------------------------
(* The live set                                                            *)

\* _admit: screened against the live set as it is before the batch.
Admits(docs) ==
  {d \in docs \cap Actual : d \in InRegion \/ Refs[d] \cap live # {}}

\* Mutant: what only supersedes is dropped with what is stale.
FreshInRegion(docs) == {d \in docs : d > aged /\ d \in InRegion}

\* What the 48 h prune of _merge_docs leaves.
Fresh(docs) == {d \in docs : d > aged}

\* build_alerts_from_cap_docs: the leaves of the chains that cover the region.
Visible(docs) ==
  LET actual == docs \cap Actual
      leaves == {d \in actual : \A other \in actual : d \notin Refs[other]}
  IN (IF leaves = {} THEN actual ELSE leaves) \cap InRegion

\* _merge_docs and the build that follows it under the same lock.
Merge(t, docs) ==
  /\ live' = Fresh(live \cup docs)
  /\ seen' = {d \in seen \cup docs : d > aged}
  /\ admitted' = admitted \cup {d \in docs : d > aged}
  /\ task' = [task EXCEPT ![t] =
       [@ EXCEPT !.pc = "applying", !.docs = {}, !.built = Visible(live')]]

\* Mutant: the lock keeps nobody waiting.
NoWaiting(t) == TRUE

Holds(t) == line # <<>> /\ Head(line) = t

Acquire(t) ==
  /\ task[t].pc = "waiting"
  /\ Holds(t)
  /\ IF task[t].backfill
     THEN /\ recent' = TRUE
          /\ task' = [task EXCEPT ![t].pc = "fetching"]
          /\ UNCHANGED <<live, seen, admitted>>
     ELSE Merge(t, Admits(task[t].docs)) /\ UNCHANGED recent
  /\ UNCHANGED <<world, socket, line, shown, repository, seeded, drops, restarts>>

\* The index lists documents near the region and omits some of them.
Feed(t, docs) ==
  /\ task[t].pc = "fetching"
  /\ docs \subseteq (1 .. published) \cap Indexed
  /\ Merge(t, docs)
  /\ UNCHANGED <<world, socket, line, shown, recent, repository, seeded, drops, restarts>>

Leaves(t, record) ==
  /\ task' = [task EXCEPT ![t] = record]
  /\ line' = Tail(line)

\* A ProviderError: the resync reports it, the reconnect goes on without.
FeedFails(t) ==
  /\ task[t].pc = "fetching"
  /\ Leaves(t, Resting(t))
  /\ UNCHANGED <<world, socket, documents, recent, repository, seeded, drops,
                 restarts, admitted>>

\* async_apply, and the push of what it returns.
Apply(t) ==
  /\ task[t].pc = "applying"
  /\ shown' = task[t].built
  /\ seeded' = TRUE
  /\ Leaves(t, Resting(t))
  /\ UNCHANGED <<world, socket, live, seen, recent, repository, drops, restarts, admitted>>

\* async_apply raises.  Out of a streamed document this is a read error to the
\* client: it drops the connection, and with it what it had read ahead.
ApplyFails(t) ==
  /\ task[t].pc = "applying"
  /\ IF t = "poll" \/ task[t].backfill
     THEN Leaves(t, Resting(t)) /\ UNCHANGED <<link, wire, drops>>
     ELSE /\ drops < MaxDrops /\ drops' = drops + 1
          /\ Leaves(t, At("down")) /\ link' = "none" /\ wire' = <<>>
  /\ UNCHANGED <<world, first, documents, recent, repository, seeded, restarts, admitted>>

-----------------------------------------------------------------------------
(* The resync and the reader of the socket                                 *)

Waits(t, backfill, docs) ==
  /\ task' = [task EXCEPT ![t] =
       [pc |-> "waiting", backfill |-> backfill, docs |-> docs, built |-> {}]]
  /\ line' = Append(line, t)

\* async_backfill from the coordinator's timer; setup's first refresh is one.
Poll ==
  /\ task["poll"].pc = "idle"
  /\ located
  /\ Waits("poll", TRUE, {})
  /\ UNCHANGED <<world, socket, documents, recent, repository, seeded, drops,
                 restarts, admitted>>

\* async_start, once setup's first refresh has succeeded.
Start ==
  /\ task["reader"].pc = "off"
  /\ seeded
  /\ task' = [task EXCEPT !["reader"] = At("down")]
  /\ UNCHANGED <<world, socket, line, documents, recent, repository, seeded,
                 drops, restarts, admitted>>

\* _on_backfill_needed is called on a reconnect and does nothing when a backfill
\* was attempted a short while ago, whether it succeeded or not.
NeedsBackfill == ~first /\ ~recent /\ located

Connect ==
  /\ task["reader"].pc = "down"
  /\ link' = "live" /\ wire' = <<>> /\ first' = FALSE
  /\ IF NeedsBackfill THEN Waits("reader", TRUE, {})
     ELSE task' = [task EXCEPT !["reader"] = At("reading")] /\ UNCHANGED line
  /\ UNCHANGED <<world, documents, recent, repository, seeded, drops, restarts, admitted>>

\* async_ingest_docs up to the lock; with no scope the push is dropped.
Ingest(docs) ==
  IF located THEN Waits("reader", FALSE, docs)
  ELSE task' = [task EXCEPT !["reader"] = At("reading")] /\ UNCHANGED line

Read == task["reader"].pc = "reading" /\ wire # <<>> /\ wire' = Tail(wire)

\* _on_stream_alert_doc: seen before it is admitted.
ReadDocument ==
  /\ Read
  /\ ~Head(wire).heartbeat
  /\ seen' = seen \cup {Head(wire).last}
  /\ Ingest({Head(wire).last})
  /\ UNCHANGED <<world, link, first, live, shown, recent, repository, seeded,
                 drops, restarts, admitted>>

Listed(last) == {d \in 1 .. last : d + Window > last}

\* Mutant: a reference past the window is fetched, too.
UnseenOfAnyAge(docs) == docs \ seen

\* _unseen_references
Unseen(docs) == {d \in docs \ seen : d > aged}

\* _on_stream_heartbeat: asks the repository, or rebuilds at once.
ReadHeartbeat ==
  /\ Read
  /\ Head(wire).heartbeat
  /\ LET listed == Listed(Head(wire).last) IN
       /\ attempts' = [d \in Doc |-> IF d \in listed THEN attempts[d] ELSE 0]
       /\ IF Unseen(listed) = {} THEN Ingest({})
          ELSE /\ task' = [task EXCEPT !["reader"] =
                            [At("recovering") EXCEPT !.docs = Unseen(listed)]]
               /\ UNCHANGED line
  /\ UNCHANGED <<world, link, first, documents, recent, fetched, missed, seeded,
                 drops, restarts, admitted>>

\* Mutant: a miss is not counted.
MissesUncounted(d) == attempts[d]

Misses(d) == attempts[d] + 1

GivesUp(d) == Misses(d) >= Attempts

\* The auxiliary counts stop one past the limit that RepositoryBounded sets.
Counted(n, one, limit) == IF one /\ n <= limit THEN n + 1 ELSE n

\* _recover_from_repository, when it answers: with some of the bodies.  What it
\* has failed to serve too often is taken for seen.
Recover(served) ==
  LET asked == task["reader"].docs
      givenUp == {d \in asked \ served : GivesUp(d)}
  IN /\ task["reader"].pc = "recovering"
     /\ served \subseteq asked
     /\ seen' = seen \cup served \cup givenUp
     /\ attempts' = [d \in Doc |->
          IF d \in asked THEN IF d \in served \cup givenUp THEN 0 ELSE Misses(d)
          ELSE attempts[d]]
     /\ fetched' = [d \in Doc |-> Counted(fetched[d], d \in served, 1)]
     /\ missed' = [d \in Doc |-> Counted(missed[d], d \in asked \ served, Attempts)]
     /\ Ingest(served)
     /\ UNCHANGED <<world, socket, live, shown, recent, seeded, drops, restarts, admitted>>

\* A time-out or a client error of the whole batch.
RepositoryDown ==
  /\ task["reader"].pc = "recovering"
  /\ Ingest({})
  /\ UNCHANGED <<world, socket, documents, recent, repository, seeded, drops,
                 restarts, admitted>>

\* The end of the stream, a reset, or the watchdog's time without a byte.
Disconnect ==
  /\ task["reader"].pc = "reading"
  /\ link = "silent"
  /\ link' = "none" /\ wire' = <<>>
  /\ task' = [task EXCEPT !["reader"] = At("down")]
  /\ UNCHANGED <<world, first, line, documents, recent, repository, seeded,
                 drops, restarts, admitted>>

-----------------------------------------------------------------------------
(* The world                                                               *)

Sends(item) == wire' = IF link = "live" THEN Append(wire, item) ELSE wire
Room == link = "live" => Len(wire) < MaxWire

Publish ==
  /\ published < N /\ Room
  /\ published' = published + 1
  /\ Sends(Streamed(published + 1))
  /\ UNCHANGED <<aged, located, link, first, task, line, documents, recent,
                 repository, seeded, drops, restarts, admitted>>

Heartbeat ==
  /\ link = "live" /\ Room
  /\ Sends(Beat(published))
  /\ UNCHANGED <<world, link, first, task, line, documents, recent, repository,
                 seeded, drops, restarts, admitted>>

\* The connection dies, with a reset or without a word.
Break ==
  /\ link = "live"
  /\ drops < MaxDrops /\ drops' = drops + 1
  /\ link' = "silent"
  /\ UNCHANGED <<world, wire, first, task, line, documents, recent, repository,
                 seeded, restarts, admitted>>

Age ==
  /\ aged < published
  /\ aged' = aged + 1
  /\ UNCHANGED <<published, located, socket, task, line, documents, recent,
                 repository, seeded, drops, restarts, admitted>>

Locate ==
  /\ located' = ~located
  /\ UNCHANGED <<published, aged, socket, task, line, documents, recent,
                 repository, seeded, drops, restarts, admitted>>

Lapse ==
  /\ recent
  /\ recent' = FALSE
  /\ UNCHANGED <<world, socket, task, line, documents, repository, seeded,
                 drops, restarts, admitted>>

\* async_stop, and a new coordinator with a new ingest.
Restart ==
  /\ restarts < MaxRestarts
  /\ restarts' = restarts + 1
  /\ link' = "none" /\ wire' = <<>> /\ first' = TRUE
  /\ task' = [t \in Task |-> IF t = "poll" THEN At("idle") ELSE At("off")]
  /\ line' = <<>>
  /\ live' = {} /\ seen' = {} /\ shown' = {} /\ admitted' = {}
  /\ attempts' = [d \in Doc |-> 0]
  /\ fetched' = [d \in Doc |-> 0] /\ missed' = [d \in Doc |-> 0]
  /\ recent' = FALSE /\ seeded' = FALSE
  /\ UNCHANGED <<world, drops>>

Init ==
  /\ published = 0 /\ aged = 0 /\ located = TRUE
  /\ link = "none" /\ wire = <<>> /\ first = TRUE
  /\ task = [t \in Task |-> IF t = "poll" THEN At("idle") ELSE At("off")]
  /\ line = <<>>
  /\ live = {} /\ seen = {} /\ shown = {} /\ admitted = {}
  /\ attempts = [d \in Doc |-> 0]
  /\ fetched = [d \in Doc |-> 0] /\ missed = [d \in Doc |-> 0]
  /\ recent = FALSE /\ seeded = FALSE
  /\ drops = 0 /\ restarts = 0

Fetching(t) == (\E docs \in SUBSET Doc : Feed(t, docs)) \/ FeedFails(t)
Applying(t) == Apply(t) \/ ApplyFails(t)
Reading == ReadDocument \/ ReadHeartbeat \/ Disconnect
Recovering == \E served \in SUBSET Doc : Recover(served)

Next ==
  \/ \E t \in Task : Acquire(t) \/ Fetching(t) \/ Applying(t)
  \/ Poll \/ Start \/ Connect \/ Reading \/ Recovering \/ RepositoryDown
  \/ Publish \/ Heartbeat \/ Break \/ Age \/ Locate \/ Lapse \/ Restart

Spec == Init /\ [][Next]_vars

-----------------------------------------------------------------------------
(* Properties                                                              *)

TypeOK ==
  /\ published \in 0 .. N /\ aged \in 0 .. published /\ located \in BOOLEAN
  /\ link \in {"none", "live", "silent"} /\ wire \in Seq(Item)
  /\ task \in [Task -> TaskRecord] /\ line \in Seq(Task)
  /\ live \subseteq Doc /\ seen \subseteq Doc /\ shown \subseteq Doc
  /\ admitted \subseteq Doc
  /\ attempts \in [Doc -> 0 .. (Attempts - 1)]
  /\ fetched \in [Doc -> Nat] /\ missed \in [Doc -> Nat]
  /\ recent \in BOOLEAN /\ first \in BOOLEAN /\ seeded \in BOOLEAN
  /\ drops \in Nat /\ restarts \in Nat

\* "A streamed document cannot land between the merge and the apply"
\* (async_backfill): whoever applies, applies what the live set holds now.
AppliesCurrent ==
  \A t \in Task : task[t].pc = "applying" => task[t].built = Visible(live)

\* Once a revision is in the live set, what it supersedes does not come back:
\* not from the index, which may still list it, not from the repository, and
\* not when the revision ages out (_merge_docs, superseded_identifiers).
NoResurrection ==
  [][\A d \in shown' \ shown : \A s \in admitted : d \notin Refs[s]]_vars

\* Recovery is bounded: the repository serves a document once and is asked for
\* one it does not have NAAD_REPOSITORY_FETCH_ATTEMPTS times, however long the
\* heartbeats list it and whatever it is pruned from meanwhile.
RepositoryBounded ==
  \A d \in Doc : fetched[d] <= 1 /\ missed[d] <= Attempts

-----------------------------------------------------------------------------
(* Liveness.  The tasks run; a connect succeeds and heartbeats come; and    *)
(* the repository is not down each time it is asked.                        *)

FairSpec ==
  /\ Spec
  /\ WF_vars(Poll) /\ WF_vars(Start) /\ WF_vars(Connect) /\ WF_vars(Reading)
  /\ WF_vars(Heartbeat) /\ SF_vars(Recovering)
  /\ \A t \in Task : WF_vars(Acquire(t)) /\ WF_vars(Fetching(t)) /\ WF_vars(Applying(t))

\* Recovery closes the gap of an outage: what the heartbeats list and nobody
\* has seen is received, or given up on, unless newer documents or its age take
\* it off the list first (_on_stream_heartbeat, issue #164).
Open(d) == seeded /\ d \in Unseen(Listed(published))
GapCloses == \A d \in Doc : Open(d) ~> ~Open(d)
=============================================================================
