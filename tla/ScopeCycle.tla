------------------------------ MODULE ScopeCycle ------------------------------
(***************************************************************************)
(* The scope of an entry (custom_components/cap_alerts/coordinator.py): a  *)
(* tracker, zone or option set resolves to the query a reconciliation      *)
(* answers.  An alert missing from the answer to the same query went       *)
(* unobserved and is retained; one missing from the answer to another      *)
(* query went out of scope and is removed.  _resolve_config tells the two  *)
(* apart before the fetch, async_apply acts on it after.                   *)
(*                                                                         *)
(* Two tasks resolve and reconcile: the poll, and under real-time          *)
(* ingestion the stream's read loop, whose turns are rebuilds and          *)
(* reconnect backfills.  The ingest lock orders their reconciliations but  *)
(* not their resolutions (providers/eccc_ingest.py).                       *)
(***************************************************************************)
EXTENDS Naturals, Sequences

CONSTANTS
  Scope,         \* resolved queries: config and options after resolution
  Nowhere,       \* what an unresolvable tracker resolves to
  NoKey,         \* no _scope_key yet
  Alert,         \* alerts whose sender's absence policy retains them
  Covers,        \* the alerts each scope's query can return
  NoFile,        \* no restore file, or no write scheduled
  Streaming,     \* whether the entry has a push ingest
  MaxMoves, MaxRestarts   \* bounds of the exploration

ASSUME ScopeAssumption == Nowhere \notin Scope /\ NoKey \notin Scope
ASSUME CoversAssumption == Covers \in [Scope -> SUBSET Alert]
ASSUME BoundAssumption ==
  Streaming \in BOOLEAN /\ MaxMoves \in Nat /\ MaxRestarts \in Nat

VARIABLES
  where,         \* external: what the configuration resolves to now
  scopeKey,      \* _scope_key
  scopeChanged,  \* _scope_changed
  task,          \* how far each task has come between resolving and reconciling
  line,          \* _ingest_lock: its holder and, in order, who waits for it
  foundIn,       \* the tracked alerts; auxiliary, the scope that last listed each
  reconciled,    \* _last_reconciled_at is set
  file,          \* the restore file
  scheduled,     \* the delayed write of it
  moves, restarts,   \* bound the scope changes and the restarts
  settled        \* auxiliary: no scope change has been cut off so far

coordinator == <<scopeKey, scopeChanged, foundIn, reconciled>>
vars == <<where, coordinator, task, line, file, scheduled, moves, restarts, settled>>

Task == IF Streaming THEN {"poll", "stream"} ELSE {"poll"}
NotTracked == NoKey

\* rebuild: the stream task's heartbeat, which reads no feed.
TaskRecord ==
  [pc : {"idle", "waiting", "fetching", "applying"},
   scope : Scope \cup {NoKey}, rebuild : BOOLEAN]
Idle == [pc |-> "idle", scope |-> NoKey, rebuild |-> FALSE]

Document == [key : Scope \cup {NoKey}, foundIn : [Alert -> Scope \cup {NotTracked}]]

Tracked == {a \in Alert : foundIn[a] # NotTracked}
Records(document) ==
  IF document = NoFile THEN {} ELSE {a \in Alert : document.foundIn[a] # NotTracked}

Open(t) == task[t].pc # "idle"
Alone(t) == \A other \in Task \ {t} : ~Open(other)

-----------------------------------------------------------------------------
\* Mutant: the key of the first resolution is kept.
FirstKey(scope) == IF scopeKey = NoKey THEN scope ELSE scopeKey

KeyOf(scope) == scope

\* The end of _resolve_config.  The change it finds is kept in a flag of the
\* coordinator that the next resolution overwrites.
ResolvesTo(scope) ==
  /\ scopeChanged' = (scopeKey # NoKey /\ scope # scopeKey)
  /\ scopeKey' = KeyOf(scope)

\* Mutant: the ingest lock keeps nobody waiting.
NoWaiting(t) == TRUE

Holds(t) == Head(line) = t

Turn(rebuild) == IF rebuild THEN "applying" ELSE "fetching"

Resolvable == where # Nowhere

\* A poll comes on its timer; the stream starts after setup's first refresh,
\* and a task takes one turn at a time.
Ready(t) == task[t].pc = "idle" /\ (t = "stream" => reconciled)

\* A tracker with no location ends the turn before anything changes.
Unresolved(t) == Ready(t) /\ ~Resolvable /\ UNCHANGED vars

\* A task starts its turn: it resolves, and gets in line for the ingest lock.
\* (A polling entry has one task and no lock: it is always first in line.)
Resolve(t, rebuild) ==
  /\ Ready(t)
  /\ rebuild => t = "stream"
  /\ Resolvable
  /\ ResolvesTo(where)
  /\ line' = Append(line, t)
  /\ task' = [task EXCEPT ![t] =
       [pc |-> "waiting", scope |-> where, rebuild |-> rebuild]]
  /\ settled' = (settled /\ (Alone(t) \/ (where = scopeKey /\ ~scopeChanged)))
  /\ UNCHANGED <<where, foundIn, reconciled, file, scheduled, moves, restarts>>

Acquire(t) ==
  /\ task[t].pc = "waiting"
  /\ Holds(t)
  /\ task' = [task EXCEPT ![t].pc = Turn(task[t].rebuild)]
  /\ UNCHANGED <<where, coordinator, line, file, scheduled, moves, restarts, settled>>

\* The feed has answered.  What follows awaits the geometry store before the
\* diff, so the other task may resolve in between.
Fetched(t) ==
  /\ task[t].pc = "fetching"
  /\ task' = [task EXCEPT ![t].pc = "applying"]
  /\ UNCHANGED <<where, coordinator, line, file, scheduled, moves, restarts, settled>>

\* A fetch that times out or is refused, a scope the provider cannot query, or
\* geocode prefixes the feed carries no codes for.
Fail(t) ==
  /\ task[t].pc \in {"fetching", "applying"}
  /\ task' = [task EXCEPT ![t] = Idle]
  /\ line' = Tail(line)
  /\ settled' = (settled /\ ~scopeChanged)
  /\ UNCHANGED <<where, coordinator, file, scheduled, moves, restarts>>

Retains == ~scopeChanged

\* async_apply: the diff with the flag as it is now, and the save when the set
\* of records moved.  The answer may be any part of what the query covers, the
\* filters of the options in force now included.
Apply(t, answer) ==
  /\ task[t].pc = "applying"
  /\ answer \subseteq Covers[task[t].scope]
  /\ foundIn' = [a \in Alert |->
       IF a \in answer THEN task[t].scope
       ELSE IF Retains THEN foundIn[a] ELSE NotTracked]
  /\ scopeChanged' = FALSE
  /\ reconciled' = TRUE
  /\ LET written == IF scheduled = NoFile THEN file ELSE scheduled
         now == {a \in Alert : foundIn'[a] # NotTracked}
     IN scheduled' = IF now = Records(written) THEN scheduled
                     ELSE [key |-> scopeKey, foundIn |-> foundIn']
  /\ task' = [task EXCEPT ![t] = Idle]
  /\ line' = Tail(line)
  /\ UNCHANGED <<where, scopeKey, file, moves, restarts, settled>>

-----------------------------------------------------------------------------
\* The tracker moves or loses its location, or the options change.
Move(scope) ==
  /\ moves < MaxMoves
  /\ scope # where
  /\ where' = scope
  /\ moves' = moves + 1
  /\ UNCHANGED <<coordinator, task, line, file, scheduled, restarts, settled>>

\* The delayed write of the restore file.
Write ==
  /\ scheduled # NoFile
  /\ file' = scheduled
  /\ scheduled' = NoFile
  /\ UNCHANGED <<where, coordinator, task, line, moves, restarts, settled>>

\* async_save_restore_state, skipped when nothing has reconciled since setup or
\* there is nothing to say and no file to say it in.
SavedNow ==
  IF \/ ~reconciled
     \/ Tracked = {} /\ file = NoFile /\ scheduled = NoFile
  THEN file
  ELSE [key |-> scopeKey, foundIn |-> foundIn]

\* Mutant: the restored set comes without the scope it was found in.
KeyForgotten(document) == NoKey

RestoredKey(document) == IF document = NoFile THEN NoKey ELSE document.key

\* A new coordinator over the file: after an unload or a stop, which saves, or
\* after a crash, which loses the scheduled write.
Restart(saves) ==
  LET document == IF saves THEN SavedNow ELSE file IN
    /\ restarts < MaxRestarts
    /\ restarts' = restarts + 1
    /\ file' = document
    /\ scheduled' = NoFile
    /\ scopeKey' = RestoredKey(document)
    /\ scopeChanged' = FALSE
    /\ foundIn' = IF document = NoFile THEN [a \in Alert |-> NotTracked]
                  ELSE document.foundIn
    /\ reconciled' = FALSE
    /\ task' = [t \in Task |-> Idle]
    /\ line' = <<>>
    /\ settled' = (settled /\ ~(saves /\ scopeChanged))
    /\ UNCHANGED <<where, moves>>

Init ==
  /\ where \in Scope
  /\ scopeKey = NoKey
  /\ scopeChanged = FALSE
  /\ task = [t \in Task |-> Idle]
  /\ line = <<>>
  /\ foundIn = [a \in Alert |-> NotTracked]
  /\ reconciled = FALSE
  /\ file = NoFile
  /\ scheduled = NoFile
  /\ moves = 0
  /\ restarts = 0
  /\ settled = TRUE

Next ==
  \/ \E t \in Task, rebuild \in BOOLEAN : Resolve(t, rebuild)
  \/ \E t \in Task, answer \in SUBSET Alert : Apply(t, answer)
  \/ \E t \in Task : Unresolved(t) \/ Acquire(t) \/ Fetched(t) \/ Fail(t)
  \/ \E scope \in Scope \cup {Nowhere} : Move(scope)
  \/ Write
  \/ \E saves \in BOOLEAN : Restart(saves)

Spec == Init /\ [][Next]_vars

-----------------------------------------------------------------------------
(* Properties                                                              *)

TypeOK ==
  /\ where \in Scope \cup {Nowhere}
  /\ scopeKey \in Scope \cup {NoKey}
  /\ scopeChanged \in BOOLEAN
  /\ task \in [Task -> TaskRecord]
  /\ line \in Seq(Task)
  /\ foundIn \in [Alert -> Scope \cup {NotTracked}]
  /\ reconciled \in BOOLEAN
  /\ file \in Document \cup {NoFile}
  /\ scheduled \in Document \cup {NoFile}
  /\ moves \in Nat /\ restarts \in Nat
  /\ settled \in BOOLEAN

\* The step in which a task reconciles.
Reconciles(t) == task[t].pc = "applying" /\ \E answer \in SUBSET Alert : Apply(t, answer)

OutOfScopeLeavesAt(t) ==
  Reconciles(t) => \A a \in Alert : foundIn'[a] \in {task[t].scope, NotTracked}

\* "A change of scope suspends retention for that cycle, because those alerts
\* have gone out of scope rather than unobserved" (docs/events.md): what is
\* tracked after a reconciliation was found in the scope it answered for, as
\* long as no resolution that found a change was cut off from its own
\* reconciliation: through moves there and back, lost locations, restarts that
\* saved and crashes that did not.
SettledScopeLeaves == [][settled => \A t \in Task : OutOfScopeLeavesAt(t)]_vars

\* And until then a feed that drops an alert does not end it: one the same
\* scope listed before stays, also over a restart (process, the absence rule).
SettledDropoutRetained ==
  [][settled => \A t \in Task :
       Reconciles(t) => \A a \in Tracked : foundIn[a] = task[t].scope => foundIn'[a] # NotTracked]_vars

\* The ingest lock hands the reconciliations over in the order of their
\* resolutions, failures and restarts included: the last task left open answers
\* for the key the coordinator holds, and so does the file it then writes.
LastResolvedAnswersLast ==
  \A t \in Task : Open(t) /\ Alone(t) => task[t].scope = scopeKey
=============================================================================
