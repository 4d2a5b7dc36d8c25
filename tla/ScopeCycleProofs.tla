--------------------------- MODULE ScopeCycleProofs ---------------------------
(***************************************************************************)
(* Proofs about ScopeCycle, for any scopes, alerts and number of moves and *)
(* restarts, with and without a stream.                                    *)
(***************************************************************************)
EXTENDS ScopeCycle, TLAPS

\* The line is the open tasks in the order of their resolutions: only its head
\* is past the lock, and its last member's scope is the coordinator's key.
Queued(t) == \E i \in DOMAIN line : line[i] = t
LineInv ==
  /\ \A t \in Task : Open(t) <=> Queued(t)
  /\ \A i, j \in DOMAIN line : line[i] = line[j] => i = j
  /\ \A t \in Task : task[t].pc \in {"fetching", "applying"} => line # <<>> /\ Head(line) = t
  /\ \A t \in Task : Open(t) => task[t].scope \in Scope
  /\ line # <<>> => task[line[Len(line)]].scope = scopeKey

\* A document's records were found in the scope it names.
Honest(document) ==
  document # NoFile => \A a \in Alert : document.foundIn[a] \in {document.key, NotTracked}

\* While no change has been cut off, the open tasks resolved the current key,
\* and the flag tells whether what is tracked was found under it.
SettledInv ==
  settled =>
    /\ \A t \in Task : Open(t) => task[t].scope = scopeKey
    /\ scopeChanged => /\ \E t \in Task : Open(t)
                       /\ \A a \in Alert : foundIn[a] # scopeKey
    /\ ~scopeChanged => \A a \in Alert : foundIn[a] \in {scopeKey, NotTracked}
    /\ Honest(file) /\ Honest(scheduled)

IInv == TypeOK /\ LineInv /\ SettledInv

-----------------------------------------------------------------------------
LEMMA InitIInv == Init => IInv
<1> SUFFICES ASSUME Init PROVE IInv
  OBVIOUS
<1> USE DEF Init
<1>1. TypeOK
  <2>1. Idle \in TaskRecord
    BY DEF Idle, TaskRecord
  <2>2. task \in [Task -> TaskRecord]
    BY <2>1
  <2>3. foundIn \in [Alert -> Scope \cup {NotTracked}]
    BY DEF NotTracked
  <2>4. line \in Seq(Task) /\ moves \in Nat /\ restarts \in Nat
    OBVIOUS
  <2>5. scopeChanged \in BOOLEAN /\ reconciled \in BOOLEAN /\ settled \in BOOLEAN
    OBVIOUS
  <2>6. /\ where \in Scope \cup {Nowhere} /\ scopeKey \in Scope \cup {NoKey}
        /\ file \in Document \cup {NoFile} /\ scheduled \in Document \cup {NoFile}
    OBVIOUS
  <2> QED
    BY <2>2, <2>3, <2>4, <2>5, <2>6 DEF TypeOK
<1>2. LineInv
  BY DEF LineInv, Queued, Open, Idle
<1>3. SettledInv
  BY DEF SettledInv, Honest, Open, Idle, NotTracked
<1> QED BY <1>1, <1>2, <1>3 DEF IInv

\* The task at the head of the line leaves it when its turn ends.
LEMMA LeaveLine ==
  ASSUME IInv, NEW t \in Task, task[t].pc \in {"fetching", "applying"},
         task' = [task EXCEPT ![t] = Idle], line' = Tail(line), scopeKey' = scopeKey
  PROVE  /\ task' \in [Task -> TaskRecord]
         /\ line' \in Seq(Task)
         /\ LineInv'
         /\ \A u \in Task : Open(u)' <=> Open(u) /\ u # t
         /\ \A u \in Task : Open(u)' => task'[u] = task[u]
<1> USE DEF IInv, LineInv
<1>1. line \in Seq(Task) /\ line # <<>> /\ Head(line) = t /\ line[1] = t /\ Len(line) \in Nat \ {0}
  BY DEF TypeOK
<1>2. /\ line' \in Seq(Task) /\ Len(line') = Len(line) - 1
      /\ \A i \in DOMAIN line' : i + 1 \in DOMAIN line /\ line'[i] = line[i + 1]
  BY <1>1
<1>3. Idle \in TaskRecord /\ task' \in [Task -> TaskRecord]
  BY DEF TypeOK, Idle, TaskRecord
<1>4. \A u \in Task : Open(u)' <=> Open(u) /\ u # t
  BY <1>3 DEF TypeOK, Open, Idle
<1>5. \A u \in Task : u # t => task'[u] = task[u]
  BY DEF TypeOK
<1>6. ASSUME NEW u \in Task PROVE Open(u)' <=> Queued(u)'
  <2>1. ASSUME Open(u), u # t PROVE Queued(u)'
    <3>1. PICK i \in DOMAIN line : line[i] = u
      BY <2>1 DEF Queued
    <3>2. i # 1 /\ i \in 1 .. Len(line)
      BY <1>1, <2>1, <3>1
    <3>3. i - 1 \in DOMAIN line' /\ line'[i - 1] = u
      BY <1>1, <1>2, <3>1, <3>2
    <3> QED
      BY <3>3 DEF Queued
  <2>2. ASSUME Queued(u)' PROVE Open(u) /\ u # t
    <3>1. PICK i \in DOMAIN line' : line'[i] = u
      BY <2>2 DEF Queued
    <3>2. i + 1 \in DOMAIN line /\ line[i + 1] = u /\ i \in Nat \ {0}
      BY <1>2, <3>1
    <3>3. Open(u)
      BY <3>2 DEF Queued
    <3>4. u # t
      <4>1. 1 \in DOMAIN line
        BY <1>1
      <4> QED
        BY <1>1, <3>2, <4>1
    <3> QED
      BY <3>3, <3>4
  <2> QED
    BY <1>4, <2>1, <2>2
<1>7. \A i, j \in DOMAIN line' : line'[i] = line'[j] => i = j
  <2>1. \A i \in DOMAIN line' : i \in Nat
    BY <1>2
  <2> QED
    BY <1>2, <2>1
<1>8. \A u \in Task : task'[u].pc \notin {"fetching", "applying"}
  BY <1>1, <1>3, <1>5 DEF Idle, TypeOK
<1>9. \A u \in Task : Open(u)' => task'[u].scope \in Scope
  BY <1>4, <1>5
<1>10. line' # <<>> => task'[line'[Len(line')]].scope = scopeKey'
  <2> SUFFICES ASSUME line' # <<>> PROVE task'[line'[Len(line')]].scope = scopeKey'
    OBVIOUS
  <2>1. Len(line') \in DOMAIN line' /\ line'[Len(line')] = line[Len(line)]
    BY <1>1, <1>2
  <2>2. Len(line) \in DOMAIN line /\ Len(line) # 1 /\ line[Len(line)] \in Task
    BY <1>1, <1>2, <2>1
  <2>3. line[Len(line)] # t
    <3>1. 1 \in DOMAIN line
      BY <1>1
    <3> QED
      BY <1>1, <2>2, <3>1
  <2> QED
    BY <1>1, <1>5, <2>1, <2>2, <2>3
<1>11. LineInv'
  BY <1>6, <1>7, <1>8, <1>9, <1>10 DEF LineInv
<1> QED
  BY <1>2, <1>3, <1>4, <1>5, <1>11

\* A turn starts: the task gets in line behind whoever is open.
LEMMA ResolveIInv ==
  ASSUME IInv, NEW t \in Task, NEW rebuild \in BOOLEAN, Resolve(t, rebuild)
  PROVE  IInv'
<1> DEFINE joined == [pc |-> "waiting", scope |-> where, rebuild |-> rebuild]
<1> USE DEF IInv
<1>1. /\ ~Open(t) /\ where \in Scope /\ line' = Append(line, t)
      /\ task' = [task EXCEPT ![t] = joined]
      /\ scopeKey' = where
      /\ scopeChanged' = (scopeKey # NoKey /\ where # scopeKey)
      /\ settled' = (settled /\ (Alone(t) \/ (where = scopeKey /\ ~scopeChanged)))
      /\ UNCHANGED <<where, foundIn, reconciled, file, scheduled, moves, restarts>>
  BY DEF Resolve, Ready, Resolvable, ResolvesTo, KeyOf, Open, TypeOK
<1>2. joined \in TaskRecord /\ task' \in [Task -> TaskRecord] /\ task'[t] = joined
  BY <1>1 DEF TypeOK, TaskRecord
<1>3. \A u \in Task : u # t => task'[u] = task[u]
  BY <1>1 DEF TypeOK
<1>4. \A u \in Task : Open(u)' <=> Open(u) \/ u = t
  BY <1>2, <1>3 DEF Open
<1>5. /\ line \in Seq(Task) /\ line' \in Seq(Task) /\ Len(line') = Len(line) + 1
      /\ Len(line) \in Nat /\ line'[Len(line')] = t
      /\ \A i \in DOMAIN line : i \in DOMAIN line' /\ line'[i] = line[i]
      /\ \A i \in DOMAIN line' : i \in DOMAIN line \/ i = Len(line')
  BY <1>1 DEF TypeOK
<1>6. \A i \in DOMAIN line : line[i] # t
  BY <1>1 DEF LineInv, Queued
<1>7. TypeOK'
  BY <1>1, <1>2, <1>5 DEF TypeOK
<1>8. LineInv'
  <2>1. \A u \in Task : Open(u)' <=> Queued(u)'
    <3>1. ASSUME NEW u \in Task, Open(u)' PROVE Queued(u)'
      <4>1. CASE u = t
        <5>1. Len(line') \in DOMAIN line'
          BY <1>5
        <5> QED
          BY <1>5, <4>1, <5>1 DEF Queued
      <4>2. CASE u # t
        BY <1>4, <1>5, <3>1, <4>2 DEF LineInv, Queued
      <4> QED
        BY <4>1, <4>2
    <3>2. ASSUME NEW u \in Task, Queued(u)' PROVE Open(u)'
      BY <1>4, <1>5, <3>2 DEF LineInv, Queued
    <3> QED
      BY <3>1, <3>2
  <2>2. \A i, j \in DOMAIN line' : line'[i] = line'[j] => i = j
    BY <1>5, <1>6 DEF LineInv
  <2>3. \A u \in Task : task'[u].pc \in {"fetching", "applying"} => line' # <<>> /\ Head(line') = u
    <3> SUFFICES ASSUME NEW u \in Task, task'[u].pc \in {"fetching", "applying"}
                 PROVE  line' # <<>> /\ Head(line') = u
      OBVIOUS
    <3>1. u # t
      BY <1>2
    <3>2. line # <<>> /\ Head(line) = u
      BY <1>3, <3>1 DEF LineInv
    <3> QED
      BY <1>1, <1>5, <3>2
  <2>4. \A u \in Task : Open(u)' => task'[u].scope \in Scope
    BY <1>1, <1>2, <1>3, <1>4 DEF LineInv
  <2>5. task'[line'[Len(line')]].scope = scopeKey'
    BY <1>1, <1>2, <1>5
  <2> QED
    BY <2>1, <2>2, <2>3, <2>4, <2>5 DEF LineInv
<1>9. SettledInv'
  <2> SUFFICES ASSUME settled'
               PROVE /\ \A u \in Task : Open(u)' => task'[u].scope = scopeKey'
                     /\ scopeChanged' => /\ \E u \in Task : Open(u)'
                                         /\ \A a \in Alert : foundIn'[a] # scopeKey'
                     /\ ~scopeChanged' => \A a \in Alert : foundIn'[a] \in {scopeKey', NotTracked}
                     /\ Honest(file)' /\ Honest(scheduled)'
    BY DEF SettledInv
  <2>1. settled /\ (Alone(t) \/ (where = scopeKey /\ ~scopeChanged))
    BY <1>1
  <2>2. Honest(file)' /\ Honest(scheduled)'
    BY <1>1, <2>1 DEF SettledInv, Honest
  <2>3. Alone(t) => ~scopeChanged
    BY <1>1, <2>1 DEF SettledInv, Alone
  <2>4. ~scopeChanged /\ \A a \in Alert : foundIn[a] \in {scopeKey, NotTracked}
    BY <2>1, <2>3 DEF SettledInv
  <2>5. \A u \in Task : Open(u)' => task'[u].scope = scopeKey'
    BY <1>1, <1>2, <1>3, <1>4, <2>1 DEF Alone, SettledInv
  <2>6. scopeChanged' => (\E u \in Task : Open(u)') /\ \A a \in Alert : foundIn'[a] # scopeKey'
    BY <1>1, <1>4, <2>4, ScopeAssumption DEF NotTracked
  <2>7. ~scopeChanged' => \A a \in Alert : foundIn'[a] \in {scopeKey', NotTracked}
    BY <1>1, <2>4 DEF NotTracked
  <2> QED
    BY <2>2, <2>5, <2>6, <2>7
<1> QED
  BY <1>7, <1>8, <1>9

\* The head of the line passes the lock, or its feed answers.
LEMMA ProceedIInv ==
  ASSUME IInv, NEW t \in Task, Acquire(t) \/ Fetched(t)
  PROVE  IInv'
<1> USE DEF IInv
<1>1. PICK pc \in {"fetching", "applying"} : task' = [task EXCEPT ![t].pc = pc]
  BY DEF Acquire, Fetched, Turn
<1>2. /\ Open(t) /\ line # <<>> /\ Head(line) = t
      /\ UNCHANGED <<where, coordinator, line, file, scheduled, moves, restarts, settled>>
  <2>1. CASE Acquire(t)
    <3>1. Open(t)
      BY <2>1 DEF Acquire, Open
    <3>2. line # <<>>
      BY <3>1 DEF LineInv, Queued
    <3> QED
      BY <2>1, <3>1, <3>2 DEF Acquire, Holds
  <2>2. CASE Fetched(t)
    BY <2>2 DEF Fetched, Open, LineInv
  <2> QED
    BY <2>1, <2>2
<1>3. task[t] \in TaskRecord /\ task'[t] = [task[t] EXCEPT !.pc = pc]
  BY <1>1 DEF TypeOK
<1>4. task'[t] \in TaskRecord /\ task'[t].pc = pc /\ task'[t].scope = task[t].scope
  BY <1>3 DEF TaskRecord
<1>5. task' \in [Task -> TaskRecord] /\ \A u \in Task : u # t => task'[u] = task[u]
  BY <1>1, <1>4 DEF TypeOK
<1>6. \A u \in Task : (Open(u)' <=> Open(u)) /\ task'[u].scope = task[u].scope
  BY <1>2, <1>4, <1>5 DEF Open
<1>7. TypeOK'
  BY <1>2, <1>5 DEF TypeOK, coordinator
<1>8. LineInv'
  <2>1. \A u \in Task : Queued(u)' <=> Queued(u)
    BY <1>2 DEF Queued
  <2>2. line # <<>> => line[Len(line)] \in Task
    BY DEF TypeOK
  <2>3. scopeKey' = scopeKey
    BY <1>2 DEF coordinator
  <2> QED
    BY <1>2, <1>5, <1>6, <2>1, <2>2, <2>3 DEF LineInv
<1>9. SettledInv'
  BY <1>2, <1>6 DEF SettledInv, Honest, coordinator
<1> QED
  BY <1>7, <1>8, <1>9

LEMMA FailIInv ==
  ASSUME IInv, NEW t \in Task, Fail(t)
  PROVE  IInv'
<1>1. /\ task[t].pc \in {"fetching", "applying"} /\ task' = [task EXCEPT ![t] = Idle]
      /\ line' = Tail(line) /\ settled' = (settled /\ ~scopeChanged)
      /\ UNCHANGED <<where, scopeKey, scopeChanged, foundIn, reconciled, file, scheduled, moves, restarts>>
  BY DEF Fail, coordinator
<1>2. /\ task' \in [Task -> TaskRecord] /\ line' \in Seq(Task) /\ LineInv'
      /\ \A u \in Task : Open(u)' <=> Open(u) /\ u # t
      /\ \A u \in Task : Open(u)' => task'[u] = task[u]
  BY <1>1, LeaveLine
<1>3. TypeOK'
  BY <1>1, <1>2 DEF IInv, TypeOK
<1>4. SettledInv'
  BY <1>1, <1>2 DEF IInv, SettledInv, Honest
<1> QED
  BY <1>2, <1>3, <1>4 DEF IInv

\* What a reconciliation makes of the tracked alerts while nothing was cut off.
LEMMA ApplySettled ==
  ASSUME IInv, settled, NEW t \in Task, NEW answer \in SUBSET Alert, Apply(t, answer)
  PROVE  /\ task[t].scope = scopeKey /\ scopeKey \in Scope
         /\ \A a \in Alert : foundIn'[a] \in {scopeKey, NotTracked}
         /\ \A a \in Alert : foundIn[a] = scopeKey => foundIn'[a] = scopeKey
<1>1. Open(t) /\ task[t].scope = scopeKey /\ scopeKey \in Scope
  BY DEF Apply, Open, IInv, SettledInv, LineInv
<1>2. \A a \in Alert : foundIn'[a] = IF a \in answer THEN scopeKey
                                    ELSE IF ~scopeChanged THEN foundIn[a] ELSE NotTracked
  BY <1>1 DEF Apply, Retains
<1> QED
  BY <1>1, <1>2 DEF IInv, SettledInv

LEMMA ApplyIInv ==
  ASSUME IInv, NEW t \in Task, NEW answer \in SUBSET Alert, Apply(t, answer)
  PROVE  IInv'
<1>1. /\ task[t].pc \in {"fetching", "applying"} /\ task' = [task EXCEPT ![t] = Idle]
      /\ line' = Tail(line) /\ scopeChanged' = FALSE /\ reconciled' = TRUE
      /\ UNCHANGED <<where, scopeKey, file, moves, restarts, settled>>
  BY DEF Apply
<1>2. /\ task' \in [Task -> TaskRecord] /\ line' \in Seq(Task) /\ LineInv'
      /\ \A u \in Task : Open(u)' <=> Open(u) /\ u # t
      /\ \A u \in Task : Open(u)' => task'[u] = task[u]
  BY <1>1, LeaveLine
<1>3. foundIn' \in [Alert -> Scope \cup {NotTracked}]
  <2>1. task[t].scope \in Scope
    BY <1>1 DEF IInv, LineInv, Open
  <2>2. foundIn \in [Alert -> Scope \cup {NotTracked}]
    BY DEF IInv, TypeOK
  <2> QED
    BY <2>1, <2>2 DEF Apply
<1>4. scheduled' \in {scheduled, [key |-> scopeKey, foundIn |-> foundIn']}
  BY DEF Apply
<1>5. TypeOK'
  <2>1. [key |-> scopeKey, foundIn |-> foundIn'] \in Document
    BY <1>3 DEF IInv, TypeOK, Document
  <2> QED
    BY <1>1, <1>2, <1>3, <1>4, <2>1 DEF IInv, TypeOK
<1>6. SettledInv'
  <2> SUFFICES ASSUME settled'
               PROVE /\ \A u \in Task : Open(u)' => task'[u].scope = scopeKey'
                     /\ \A a \in Alert : foundIn'[a] \in {scopeKey', NotTracked}
                     /\ Honest(file)' /\ Honest(scheduled)'
    BY <1>1 DEF SettledInv
  <2>1. settled /\ \A a \in Alert : foundIn'[a] \in {scopeKey, NotTracked}
    BY <1>1, ApplySettled
  <2>2. \A u \in Task : Open(u)' => task'[u].scope = scopeKey'
    BY <1>1, <1>2, <2>1 DEF IInv, SettledInv
  <2>3. Honest(file)'
    BY <1>1, <2>1 DEF IInv, SettledInv, Honest
  <2>4. Honest(scheduled)'
    BY <1>4, <2>1 DEF IInv, SettledInv, Honest
  <2> QED
    BY <1>1, <2>1, <2>2, <2>3, <2>4
<1> QED
  BY <1>2, <1>5, <1>6 DEF IInv

\* The new coordinator starts from a document its scope key belongs to.
LEMMA RestartIInv ==
  ASSUME IInv, NEW saves \in BOOLEAN, Restart(saves)
  PROVE  IInv'
<1> DEFINE document == IF saves THEN SavedNow ELSE file
<1>1. /\ restarts' = restarts + 1 /\ file' = document /\ scheduled' = NoFile
      /\ scopeKey' = (IF document = NoFile THEN NoKey ELSE document.key)
      /\ scopeChanged' = FALSE /\ reconciled' = FALSE /\ line' = <<>>
      /\ foundIn' = (IF document = NoFile THEN [a \in Alert |-> NotTracked] ELSE document.foundIn)
      /\ task' = [t \in Task |-> Idle]
      /\ settled' = (settled /\ ~(saves /\ scopeChanged))
      /\ UNCHANGED <<where, moves>>
  BY DEF Restart, RestoredKey
<1>2. document \in Document \cup {NoFile}
  BY DEF IInv, TypeOK, SavedNow, Document
<1>3. TypeOK'
  <2>1. task' \in [Task -> TaskRecord]
    BY <1>1 DEF Idle, TaskRecord
  <2>2. /\ scopeKey' \in Scope \cup {NoKey}
        /\ foundIn' \in [Alert -> Scope \cup {NotTracked}]
    BY <1>1, <1>2 DEF Document, NotTracked
  <2>3. line' \in Seq(Task)
    BY <1>1
  <2>4. scopeChanged' \in BOOLEAN /\ reconciled' \in BOOLEAN /\ settled' \in BOOLEAN
    BY <1>1
  <2>5. /\ file' \in Document \cup {NoFile} /\ scheduled' \in Document \cup {NoFile}
        /\ where' \in Scope \cup {Nowhere} /\ moves' \in Nat /\ restarts' \in Nat
    BY <1>1, <1>2 DEF IInv, TypeOK
  <2> QED
    BY <2>1, <2>2, <2>3, <2>4, <2>5 DEF TypeOK
<1>4. LineInv'
  BY <1>1 DEF LineInv, Queued, Open, Idle
<1>5. SettledInv'
  <2> SUFFICES ASSUME settled' PROVE SettledInv'
    BY DEF SettledInv
  <2>1. Honest(document)
    BY <1>1 DEF IInv, SettledInv, Honest, SavedNow
  <2>2. \A t \in Task : ~Open(t)'
    BY <1>1 DEF Open, Idle
  <2>3. \A a \in Alert : foundIn'[a] \in {scopeKey', NotTracked}
    BY <1>1, <2>1 DEF Honest
  <2>4. Honest(file)' /\ Honest(scheduled)'
    BY <1>1, <2>1 DEF Honest
  <2> QED
    BY <1>1, <2>2, <2>3, <2>4 DEF SettledInv
<1> QED
  BY <1>3, <1>4, <1>5 DEF IInv

LEMMA NextIInv == IInv /\ [Next]_vars => IInv'
<1> SUFFICES ASSUME IInv, [Next]_vars PROVE IInv'
  OBVIOUS
<1>1. ASSUME NEW t \in Task, NEW rebuild \in BOOLEAN, Resolve(t, rebuild) PROVE IInv'
  BY <1>1, ResolveIInv
<1>2. ASSUME NEW t \in Task, NEW answer \in SUBSET Alert, Apply(t, answer) PROVE IInv'
  BY <1>2, ApplyIInv
<1>3. ASSUME NEW t \in Task, Acquire(t) \/ Fetched(t) PROVE IInv'
  BY <1>3, ProceedIInv
<1>4. ASSUME NEW t \in Task, Fail(t) PROVE IInv'
  BY <1>4, FailIInv
<1>5. ASSUME NEW scope \in Scope \cup {Nowhere}, Move(scope) PROVE IInv'
  <2>1. /\ where' = scope /\ moves' = moves + 1
        /\ UNCHANGED <<coordinator, task, line, file, scheduled, restarts, settled>>
    BY <1>5 DEF Move
  <2>2. TypeOK'
    BY <2>1 DEF IInv, TypeOK, coordinator
  <2>3. LineInv' /\ SettledInv'
    BY <2>1 DEF IInv, LineInv, SettledInv, Queued, Open, Honest, coordinator
  <2> QED
    BY <2>2, <2>3 DEF IInv
<1>6. ASSUME Write PROVE IInv'
  <2>1. /\ file' = scheduled /\ scheduled' = NoFile
        /\ UNCHANGED <<where, coordinator, task, line, moves, restarts, settled>>
    BY <1>6 DEF Write
  <2>2. TypeOK'
    BY <2>1 DEF IInv, TypeOK, coordinator
  <2>3. LineInv' /\ SettledInv'
    BY <2>1 DEF IInv, LineInv, SettledInv, Queued, Open, Honest, coordinator
  <2> QED
    BY <2>2, <2>3 DEF IInv
<1>7. ASSUME NEW saves \in BOOLEAN, Restart(saves) PROVE IInv'
  BY <1>7, RestartIInv
<1>8. ASSUME UNCHANGED vars PROVE IInv'
  BY <1>8 DEF IInv, TypeOK, LineInv, SettledInv, Queued, Open, Honest, vars, coordinator
<1>9. ASSUME NEW t \in Task, Unresolved(t) PROVE IInv'
  BY <1>8, <1>9 DEF Unresolved
<1> QED
  BY <1>1, <1>2, <1>3, <1>4, <1>5, <1>6, <1>7, <1>8, <1>9 DEF Next

THEOREM Inductive == Spec => []IInv
<1> QED
  BY InitIInv, NextIInv, PTL DEF Spec

-----------------------------------------------------------------------------
(* The properties                                                          *)

\* The state of the coordinator, its tasks and the restore file keeps its type.
THEOREM TypeCorrect == Spec => []TypeOK
<1>1. IInv => TypeOK
  BY DEF IInv
<1> QED
  BY <1>1, Inductive, PTL

\* The ingest lock makes reconciliations answer in the order of resolution.
THEOREM LastAnswersLast == Spec => []LastResolvedAnswersLast
<1>1. IInv => LastResolvedAnswersLast
  <2> SUFFICES ASSUME IInv, NEW t \in Task, Open(t), Alone(t)
               PROVE  task[t].scope = scopeKey
    BY DEF LastResolvedAnswersLast
  <2> USE DEF IInv, LineInv
  <2>1. line # <<>> /\ line \in Seq(Task)
    BY DEF Queued, TypeOK
  <2>2. Len(line) \in DOMAIN line /\ line[Len(line)] \in Task
    BY <2>1
  <2>3. line[Len(line)] = t
    BY <2>2 DEF Queued, Alone
  <2> QED
    BY <2>1, <2>3
<1> QED
  BY <1>1, Inductive, PTL

\* As long as no scope change was cut off, what a reconciliation leaves tracked
\* was found in the scope it answered for.
THEOREM OutOfScopeRemoved == Spec => SettledScopeLeaves
<1>1. IInv => (settled => \A t \in Task : OutOfScopeLeavesAt(t))
  BY ApplySettled DEF OutOfScopeLeavesAt, Reconciles
<1>2. IInv => [settled => \A t \in Task : OutOfScopeLeavesAt(t)]_vars
  BY <1>1
<1> QED
  BY <1>2, Inductive, PTL DEF SettledScopeLeaves

\* And an alert the same scope listed before outlives a feed's omission.
THEOREM DropoutOutlived == Spec => SettledDropoutRetained
<1>1. ASSUME IInv, settled, NEW t \in Task, Reconciles(t),
             NEW a \in Tracked, foundIn[a] = task[t].scope
      PROVE  foundIn'[a] # NotTracked
  <2>1. PICK answer \in SUBSET Alert : Apply(t, answer)
    BY <1>1 DEF Reconciles
  <2>2. a \in Alert /\ foundIn'[a] = scopeKey /\ scopeKey \in Scope
    BY <1>1, <2>1, ApplySettled DEF Tracked
  <2> QED
    BY <2>2, ScopeAssumption DEF NotTracked
<1>2. IInv => [settled => \A t \in Task : Reconciles(t) =>
                 \A a \in Tracked : foundIn[a] = task[t].scope => foundIn'[a] # NotTracked]_vars
  BY <1>1
<1> QED
  BY <1>2, Inductive, PTL DEF SettledDropoutRetained
=============================================================================
