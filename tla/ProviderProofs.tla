---------------------------- MODULE ProviderProofs ----------------------------
(***************************************************************************)
(* What the providers promise.  The NAAD ingest (NaadIngest), for any      *)
(* documents, references, region and bounds; and three decisions, for      *)
(* every document, feed and clock: the selection of an ECCC document's     *)
(* blocks (eccc.py), the merge of MeteoAlarm messages into episodes        *)
(* (meteoalarm_conventions.py) and the prefilter of a WMO feed by guid     *)
(* (wmo.py).                                                               *)
(***************************************************************************)
EXTENDS NaadIngest, ECCCRegion, Episodes, GuidPrefilter,
        FiniteSetTheorems, WellFoundedInduction, TLAPS

-----------------------------------------------------------------------------
(* NAAD: documents, the lock and the live set.                             *)

\* Only the head of the line is past the lock.
LockInv ==
  \A t \in Task : task[t].pc \in {"fetching", "applying"} => line # <<>> /\ Head(line) = t

\* What entered the live set left it by age alone, after everything older.
AdmittedInv ==
  /\ admitted \subseteq Actual
  /\ \A s \in admitted \ live : s <= aged /\ \A d \in live : d > s

IInv == TypeOK /\ LockInv /\ AdmittedInv /\ AppliesCurrent

-----------------------------------------------------------------------------
LEMMA Numbers == N \in Nat /\ Doc \subseteq Nat
BY DocAssumption DEF Doc

LEMMA VisibleType == \A docs : Visible(docs) \subseteq Doc /\ Visible(docs) \subseteq docs
BY DocAssumption DEF Visible

LEMMA AtType == \A pc \in {"off", "idle", "down", "reading", "recovering", "waiting",
                           "fetching", "applying"} : At(pc) \in TaskRecord
BY DEF At, TaskRecord

LEMMA EmptyWire == <<>> \in Seq(Item)
OBVIOUS

LEMMA BuiltType ==
  ASSUME NEW record \in TaskRecord, NEW built \in SUBSET Doc
  PROVE  [record EXCEPT !.pc = "applying", !.docs = {}, !.built = built] \in TaskRecord
BY DEF TaskRecord

\* Documents reference earlier ones only, so the newest of some has no
\* successor among them.
LEMMA NewestIsLeaf ==
  ASSUME NEW docs \in SUBSET Doc, docs # {}
  PROVE  \E leaf \in docs : \A other \in docs : leaf \notin Refs[other]
<1> DEFINE Less == OpToRel(<, Nat)
           ages == {N - d : d \in docs}
<1>1. N \in Nat /\ \A d \in docs : d \in Nat /\ N - d \in Nat
  <2>1. \A d \in docs : d \in 1 .. N
    BY DEF Doc
  <2> QED BY <2>1, DocAssumption
<1>2. ages \subseteq Nat /\ ages # {}
  BY <1>1
<1>3. PICK age \in ages : \A other \in ages : ~(<<other, age>> \in Less)
  <2> HIDE DEF Less, ages
  <2>1. IsWellFoundedOn(Less, Nat)
    BY NatLessThanWellFounded DEF Less
  <2> QED BY <1>2, <2>1, WFMin
<1>4. \A other \in ages : ~(other < age)
  BY <1>2, <1>3 DEF OpToRel
<1>5. PICK leaf \in docs : age = N - leaf
  OBVIOUS
<1>6. ASSUME NEW other \in docs, leaf \in Refs[other] PROVE FALSE
  <2>1. leaf \in 1 .. (other - 1)
    BY <1>6, RefsAssumption
  <2>2. N - other \in ages /\ N - other < age
    BY <1>1, <1>5, <2>1
  <2> QED BY <1>4, <2>2
<1> QED BY <1>5, <1>6

\* What a document supersedes is not built beside it.
LEMMA SupersededHidden ==
  ASSUME NEW docs \in SUBSET Doc, NEW s \in docs \cap Actual, NEW d \in Refs[s]
  PROVE  d \notin Visible(docs)
<1> DEFINE actual == docs \cap Actual
<1>1. actual \in SUBSET Doc /\ actual # {}
  OBVIOUS
<1>2. \E leaf \in actual : \A other \in actual : leaf \notin Refs[other]
  BY <1>1, NewestIsLeaf
<1> QED
  BY <1>2 DEF Visible

-----------------------------------------------------------------------------
LEMMA InitIInv == Init => IInv
<1> SUFFICES ASSUME Init PROVE IInv
  OBVIOUS
<1> USE DEF Init
<1>1. task \in [Task -> TaskRecord]
  BY AtType DEF Task
<1>2. attempts \in [Doc -> 0 .. (Attempts - 1)]
  BY AttemptsAssumption
<1>3. published \in 0 .. N /\ aged \in 0 .. published
  BY Numbers
<1>4. fetched \in [Doc -> Nat] /\ missed \in [Doc -> Nat] /\ drops \in Nat /\ restarts \in Nat
  OBVIOUS
<1>5. wire \in Seq(Item) /\ line \in Seq(Task)
  OBVIOUS
<1>6. TypeOK
  BY <1>1, <1>2, <1>3, <1>4, <1>5 DEF TypeOK
<1>7. LockInv /\ AppliesCurrent
  BY DEF LockInv, AppliesCurrent, Task, At
<1>8. AdmittedInv
  BY DEF AdmittedInv
<1> QED
  BY <1>6, <1>7, <1>8 DEF IInv

-----------------------------------------------------------------------------
(* The lock                                                                *)

\* A task joins the line.
LEMMA JoinLine ==
  ASSUME IInv, NEW t \in Task, NEW backfill \in BOOLEAN, NEW docs \in SUBSET Doc,
         task[t].pc \notin {"fetching", "applying"}, Waits(t, backfill, docs)
  PROVE  /\ task' \in [Task -> TaskRecord] /\ line' \in Seq(Task) /\ LockInv'
         /\ \A u \in Task : task'[u].pc = "applying" => task'[u] = task[u]
<1> USE DEF IInv, TypeOK
<1>1. [pc |-> "waiting", backfill |-> backfill, docs |-> docs, built |-> {}] \in TaskRecord
  BY DEF TaskRecord
<1>2. task' \in [Task -> TaskRecord] /\ line' = Append(line, t)
  BY <1>1 DEF Waits
<1>3. line' \in Seq(Task) /\ (line # <<>> => line' # <<>> /\ Head(line') = Head(line))
  BY <1>2
<1>4. \A u \in Task : task'[u].pc \in {"fetching", "applying"} => u # t /\ task'[u] = task[u]
  BY <1>2 DEF Waits
<1>5. LockInv'
  BY <1>3, <1>4 DEF LockInv
<1> QED
  BY <1>2, <1>3, <1>4, <1>5

\* A task that is not past the lock goes on beside it.
LEMMA Beside ==
  ASSUME IInv, NEW t \in Task, NEW record \in TaskRecord,
         task[t].pc \notin {"fetching", "applying"},
         record.pc \notin {"fetching", "applying"},
         task' = [task EXCEPT ![t] = record], line' = line
  PROVE  /\ task' \in [Task -> TaskRecord] /\ line' \in Seq(Task) /\ LockInv'
         /\ \A u \in Task : task'[u].pc = "applying" => task'[u] = task[u]
<1> USE DEF IInv, TypeOK
<1>1. task' \in [Task -> TaskRecord]
  OBVIOUS
<1>2. \A u \in Task : task'[u].pc \in {"fetching", "applying"} => u # t /\ task'[u] = task[u]
  OBVIOUS
<1>3. LockInv'
  BY <1>2 DEF LockInv
<1> QED
  BY <1>1, <1>2, <1>3

\* A task leaves the line, and nobody is past the lock.
LEMMA LeaveLine ==
  ASSUME IInv, NEW t \in Task, NEW record \in TaskRecord,
         task[t].pc \in {"fetching", "applying"},
         record.pc \notin {"fetching", "applying"}, Leaves(t, record)
  PROVE  /\ task' \in [Task -> TaskRecord] /\ line' \in Seq(Task) /\ LockInv'
         /\ \A u \in Task : task'[u].pc # "applying"
<1> USE DEF IInv, TypeOK
<1>1. line # <<>> /\ Head(line) = t
  BY DEF LockInv
<1>2. task' \in [Task -> TaskRecord] /\ line' \in Seq(Task)
  BY <1>1 DEF Leaves
<1>3. \A u \in Task : task'[u].pc \notin {"fetching", "applying"}
  BY <1>1 DEF Leaves, LockInv
<1> QED
  BY <1>2, <1>3 DEF LockInv

\* async_ingest_docs, up to the lock.
LEMMA Ingests ==
  ASSUME IInv, NEW docs \in SUBSET Doc, Ingest(docs),
         task["reader"].pc \notin {"fetching", "applying"}
  PROVE  /\ task' \in [Task -> TaskRecord] /\ line' \in Seq(Task) /\ LockInv'
         /\ \A u \in Task : task'[u].pc = "applying" => task'[u] = task[u]
<1>1. "reader" \in Task
  BY DEF Task
<1>2. CASE located
  BY <1>1, <1>2, JoinLine DEF Ingest
<1>3. CASE ~located
  <2>1. At("reading") \in TaskRecord /\ At("reading").pc = "reading"
    BY AtType DEF At
  <2> QED
    BY <1>1, <1>3, <2>1, Beside DEF Ingest
<1> QED
  BY <1>2, <1>3

\* _merge_docs and the build, by the task that has the lock.
LEMMA Merges ==
  ASSUME IInv, NEW t \in Task, NEW docs \in SUBSET (Doc \cap Actual), Merge(t, docs),
         line # <<>>, Head(line) = t, UNCHANGED <<world, line>>,
         \A u \in Task : task[u].pc \in {"fetching", "applying"} => u = t
  PROVE  /\ live' \subseteq Doc /\ seen' \subseteq Doc /\ admitted' \subseteq Doc
         /\ task' \in [Task -> TaskRecord]
         /\ LockInv' /\ AdmittedInv' /\ AppliesCurrent'
<1> USE DEF IInv, TypeOK
<1>1. live' \subseteq Doc /\ seen' \subseteq Doc /\ admitted' \subseteq Doc
  BY DEF Merge, Fresh
<1>2. task' \in [Task -> TaskRecord]
  <2>1. [task[t] EXCEPT !.pc = "applying", !.docs = {}, !.built = Visible(live')]
          \in TaskRecord
    BY VisibleType, BuiltType
  <2>2. task' = [task EXCEPT ![t] =
          [task[t] EXCEPT !.pc = "applying", !.docs = {}, !.built = Visible(live')]]
    BY DEF Merge
  <2> QED
    BY <2>1, <2>2
<1>3. \A u \in Task : /\ u # t => task'[u] = task[u]
                      /\ u = t => task'[u].built = Visible(live')
  BY DEF Merge, TaskRecord
<1>4. LockInv'
  BY <1>3 DEF LockInv, world
<1>5. AppliesCurrent'
  BY <1>3 DEF AppliesCurrent
<1>6. admitted' \subseteq Actual
  BY DEF Merge, AdmittedInv
<1>7. ASSUME NEW s \in admitted' \ live' PROVE s <= aged' /\ \A d \in live' : d > s
  <2>1. aged' = aged /\ aged \in Nat /\ s \in Nat /\ live \subseteq Nat /\ docs \subseteq Nat
    BY <1>1, Numbers DEF world
  <2>2. s \in admitted
    BY <1>7 DEF Merge, Fresh
  <2>3. s <= aged
    <3>1. CASE s \in live
      BY <1>7, <2>1, <3>1 DEF Merge, Fresh
    <3>2. CASE s \notin live
      BY <2>2, <3>2 DEF AdmittedInv
    <3> QED
      BY <3>1, <3>2
  <2>4. \A d \in live' : d > aged /\ d \in Nat
    BY <2>1 DEF Merge, Fresh
  <2> QED
    BY <2>1, <2>3, <2>4
<1> QED
  BY <1>1, <1>2, <1>4, <1>5, <1>6, <1>7 DEF AdmittedInv

\* Nothing entered or left the live set.
LEMMA SameSet ==
  ASSUME IInv, UNCHANGED <<live, admitted>>, aged' >= aged, aged' \in Nat,
         \A u \in Task : task'[u].pc = "applying" => task'[u] = task[u]
  PROVE  AdmittedInv' /\ AppliesCurrent'
<1>1. AdmittedInv'
  <2>1. \A s \in admitted : s \in Nat
    BY Numbers DEF IInv, TypeOK
  <2>2. aged \in Nat
    BY Numbers DEF IInv, TypeOK
  <2> QED
    BY <2>1, <2>2 DEF IInv, AdmittedInv
<1>2. AppliesCurrent'
  BY DEF IInv, AppliesCurrent
<1> QED
  BY <1>1, <1>2
-----------------------------------------------------------------------------
(* The steps                                                               *)

\* The lock is for one.
LEMMA OneHolder ==
  ASSUME IInv, NEW t \in Task, line # <<>>, Head(line) = t
  PROVE  \A u \in Task : task[u].pc \in {"fetching", "applying"} => u = t
BY DEF IInv, LockInv

LEMMA StepAcquire ==
  ASSUME IInv, NEW t \in Task, Acquire(t)
  PROVE  IInv'
<1> USE DEF IInv, TypeOK
<1>1. line # <<>> /\ Head(line) = t
  BY DEF Acquire, Holds
<1>2. CASE task[t].backfill
  <2>1. [task[t] EXCEPT !.pc = "fetching"] \in TaskRecord
    BY DEF TaskRecord
  <2>2. task' = [task EXCEPT ![t] = [task[t] EXCEPT !.pc = "fetching"]]
    BY <1>2 DEF Acquire
  <2>3. task' \in [Task -> TaskRecord] /\ recent' \in BOOLEAN
    BY <1>2, <2>1, <2>2 DEF Acquire
  <2>4. UNCHANGED <<live, seen, admitted, world, socket, line, shown, repository,
                    seeded, drops, restarts>>
    BY <1>2 DEF Acquire
  <2>5. TypeOK'
    BY <2>3, <2>4 DEF world, socket, repository
  <2>6. \A u \in Task : u # t => task'[u] = task[u]
    BY <2>2
  <2>7. task'[t].pc = "fetching"
    BY <2>2, <2>1
  <2>8. LockInv'
    BY <1>1, <2>4, <2>6 DEF LockInv
  <2>9. AdmittedInv' /\ AppliesCurrent'
    BY <2>4, <2>6, <2>7, SameSet, Numbers DEF world
  <2> QED
    BY <2>5, <2>8, <2>9
<1>3. CASE ~task[t].backfill
  <2>1. Admits(task[t].docs) \in SUBSET (Doc \cap Actual) /\ Merge(t, Admits(task[t].docs))
    BY <1>3 DEF Acquire, Admits, TaskRecord
  <2>2. UNCHANGED <<recent, world, socket, line, shown, repository, seeded, drops, restarts>>
    BY <1>3 DEF Acquire
  <2>3. /\ live' \subseteq Doc /\ seen' \subseteq Doc /\ admitted' \subseteq Doc
        /\ task' \in [Task -> TaskRecord] /\ LockInv' /\ AdmittedInv' /\ AppliesCurrent'
    BY <1>1, <2>1, <2>2, Merges, OneHolder
  <2>4. TypeOK'
    BY <2>2, <2>3 DEF world, socket, repository
  <2> QED
    BY <2>3, <2>4
<1> QED
  BY <1>2, <1>3

LEMMA StepFeed ==
  ASSUME IInv, NEW t \in Task, NEW docs \in SUBSET Doc, Feed(t, docs)
  PROVE  IInv'
<1> USE DEF IInv, TypeOK
<1>1. line # <<>> /\ Head(line) = t
  BY DEF Feed, LockInv
<1>2. docs \in SUBSET (Doc \cap Actual) /\ Merge(t, docs)
  BY IndexAssumption DEF Feed
<1>3. UNCHANGED <<recent, world, socket, line, shown, repository, seeded, drops, restarts>>
  BY DEF Feed
<1>4. /\ live' \subseteq Doc /\ seen' \subseteq Doc /\ admitted' \subseteq Doc
      /\ task' \in [Task -> TaskRecord] /\ LockInv' /\ AdmittedInv' /\ AppliesCurrent'
  BY <1>1, <1>2, <1>3, Merges, OneHolder
<1>5. TypeOK'
  BY <1>3, <1>4 DEF world, socket, repository
<1> QED
  BY <1>4, <1>5

\* The ends of a turn: FeedFails, Apply and ApplyFails.
LEMMA StepLeave ==
  ASSUME IInv, NEW t \in Task, FeedFails(t) \/ Apply(t) \/ ApplyFails(t)
  PROVE  IInv'
<1> USE DEF IInv, TypeOK
<1> DEFINE Left == /\ task' \in [Task -> TaskRecord] /\ line' \in Seq(Task) /\ LockInv'
                   /\ \A u \in Task : task'[u].pc # "applying"
<1>1. /\ Resting(t) \in TaskRecord /\ Resting(t).pc \notin {"fetching", "applying"}
      /\ At("down") \in TaskRecord /\ At("down").pc \notin {"fetching", "applying"}
  BY AtType DEF Resting, At
<1>2. task[t].pc \in {"fetching", "applying"}
  BY DEF FeedFails, Apply, ApplyFails
<1>3. Leaves(t, Resting(t)) \/ Leaves(t, At("down"))
  BY DEF FeedFails, Apply, ApplyFails
<1>4. Left
  BY <1>1, <1>2, <1>3, LeaveLine
<1>5. /\ UNCHANGED <<world, first, live, seen, recent, repository, restarts, admitted>>
      /\ link' \in {"none", link} /\ wire' \in {<<>>, wire} /\ drops' \in {drops, drops + 1}
      /\ seeded' \in {TRUE, seeded} /\ shown' \in {task[t].built, shown}
  BY DEF FeedFails, Apply, ApplyFails, documents, repository, socket
<1>6. task[t].built \subseteq Doc
  BY DEF TaskRecord
<1>7. TypeOK'
  <2>1. /\ link' \in {"none", "live", "silent"} /\ drops' \in Nat
        /\ wire' = <<>> \/ wire' = wire
    BY <1>5
  <2>2. shown' \subseteq Doc /\ seeded' \in BOOLEAN
    BY <1>5, <1>6
  <2> QED
    BY <1>4, <1>5, <2>1, <2>2, EmptyWire DEF world, repository
<1>8. AdmittedInv' /\ AppliesCurrent'
  BY <1>4, <1>5, SameSet, Numbers DEF world
<1> QED
  BY <1>4, <1>7, <1>8
LEMMA StepPollStartConnect ==
  ASSUME IInv, Poll \/ Start \/ Connect
  PROVE  IInv'
<1> USE DEF IInv, TypeOK
<1>1. "poll" \in Task /\ "reader" \in Task
  BY DEF Task
<1>2. At("down") \in TaskRecord /\ At("down").pc = "down"
  BY AtType DEF At
<1>3. At("reading") \in TaskRecord /\ At("reading").pc = "reading"
  BY AtType DEF At
<1>4. /\ task' \in [Task -> TaskRecord] /\ line' \in Seq(Task) /\ LockInv'
      /\ \A u \in Task : task'[u].pc = "applying" => task'[u] = task[u]
  <2>1. CASE Poll
    <3>1. Waits("poll", TRUE, {}) /\ task["poll"].pc = "idle" /\ {} \in SUBSET Doc
      BY <2>1 DEF Poll
    <3> QED
      BY <1>1, <3>1, JoinLine
  <2>2. CASE Start
    BY <1>1, <1>2, <2>2, Beside DEF Start
  <2>3. CASE Connect /\ NeedsBackfill
    <3>1. Waits("reader", TRUE, {}) /\ task["reader"].pc = "down" /\ {} \in SUBSET Doc
      BY <2>3 DEF Connect
    <3> QED
      BY <1>1, <3>1, JoinLine
  <2>4. CASE Connect /\ ~NeedsBackfill
    BY <1>1, <1>3, <2>4, Beside DEF Connect
  <2> QED
    BY <2>1, <2>2, <2>3, <2>4
<1>5. /\ UNCHANGED <<world, documents, recent, repository, seeded, drops, restarts, admitted>>
      /\ link' \in {"live", link} /\ wire' \in {<<>>, wire} /\ first' \in {FALSE, first}
  BY DEF Poll, Start, Connect, socket
<1>6. TypeOK'
  <2>1. /\ link' \in {"none", "live", "silent"} /\ first' \in BOOLEAN
        /\ wire' = <<>> \/ wire' = wire
    BY <1>5
  <2> QED
    BY <1>4, <1>5, <2>1, EmptyWire DEF world, documents, repository
<1>7. AdmittedInv' /\ AppliesCurrent'
  BY <1>4, <1>5, SameSet, Numbers DEF world, documents
<1> QED
  BY <1>4, <1>6, <1>7

LEMMA StepReading ==
  ASSUME IInv, Reading
  PROVE  IInv'
<1> USE DEF IInv, TypeOK
<1>1. "reader" \in Task /\ task["reader"].pc = "reading"
  BY DEF Task, Reading, ReadDocument, ReadHeartbeat, Disconnect, Read
<1>2. At("down") \in TaskRecord /\ At("down").pc = "down"
  BY AtType DEF At
<1>3. CASE ReadDocument
  <2>1. Head(wire) \in Item /\ wire' \in Seq(Item)
    BY <1>3 DEF ReadDocument, Read
  <2>2. {Head(wire).last} \in SUBSET Doc
    BY <1>3, <2>1 DEF ReadDocument, Item
  <2>3. Ingest({Head(wire).last}) /\ seen' \subseteq Doc
    BY <1>3, <2>2 DEF ReadDocument
  <2>4. /\ task' \in [Task -> TaskRecord] /\ line' \in Seq(Task) /\ LockInv'
        /\ \A u \in Task : task'[u].pc = "applying" => task'[u] = task[u]
    BY <1>1, <2>2, <2>3, Ingests
  <2>5. UNCHANGED <<world, link, first, live, shown, recent, repository, seeded,
                    drops, restarts, admitted>>
    BY <1>3 DEF ReadDocument
  <2>6. TypeOK'
    BY <2>1, <2>3, <2>4, <2>5 DEF world, repository
  <2>7. AdmittedInv' /\ AppliesCurrent'
    BY <2>4, <2>5, SameSet, Numbers DEF world
  <2> QED
    BY <2>4, <2>6, <2>7
<1>4. CASE ReadHeartbeat
  <2> DEFINE last == Head(wire).last
             asked == [At("recovering") EXCEPT !.docs = Unseen(Listed(last))]
  <2>1. Head(wire) \in Item /\ wire' \in Seq(Item)
    BY <1>4 DEF ReadHeartbeat, Read
  <2>2. last \in 0 .. N
    BY <1>4, <2>1 DEF ReadHeartbeat, Item
  <2>3. Unseen(Listed(last)) \in SUBSET Doc
    BY <2>2, Numbers DEF Unseen, Listed, Doc
  <2>4. asked \in TaskRecord /\ asked.pc = "recovering"
    BY <2>3 DEF At, TaskRecord
  <2>5. attempts' \in [Doc -> 0 .. (Attempts - 1)]
    BY <1>4, AttemptsAssumption DEF ReadHeartbeat
  <2>6. /\ task' \in [Task -> TaskRecord] /\ line' \in Seq(Task) /\ LockInv'
        /\ \A u \in Task : task'[u].pc = "applying" => task'[u] = task[u]
    <3>1. CASE Unseen(Listed(last)) = {}
      <4>1. Ingest({}) /\ {} \in SUBSET Doc
        BY <1>4, <3>1 DEF ReadHeartbeat
      <4> QED
        BY <1>1, <4>1, Ingests
    <3>2. CASE Unseen(Listed(last)) # {}
      <4>1. task' = [task EXCEPT !["reader"] = asked] /\ line' = line
        BY <1>4, <3>2 DEF ReadHeartbeat
      <4> QED
        BY <1>1, <2>4, <4>1, Beside
    <3> QED
      BY <3>1, <3>2
  <2>7. UNCHANGED <<world, link, first, documents, recent, fetched, missed, seeded,
                    drops, restarts, admitted>>
    BY <1>4 DEF ReadHeartbeat
  <2>8. TypeOK'
    BY <2>1, <2>5, <2>6, <2>7 DEF world, documents
  <2>9. AdmittedInv' /\ AppliesCurrent'
    BY <2>6, <2>7, SameSet, Numbers DEF world, documents
  <2> QED
    BY <2>6, <2>8, <2>9
<1>5. CASE Disconnect
  <2>1. /\ task' \in [Task -> TaskRecord] /\ line' \in Seq(Task) /\ LockInv'
        /\ \A u \in Task : task'[u].pc = "applying" => task'[u] = task[u]
    BY <1>1, <1>2, <1>5, Beside DEF Disconnect
  <2>2. TypeOK'
    BY <1>5, <2>1 DEF Disconnect, world, documents, repository
  <2>3. AdmittedInv' /\ AppliesCurrent'
    BY <1>5, <2>1, SameSet, Numbers DEF Disconnect, world, documents
  <2> QED
    BY <2>1, <2>2, <2>3
<1> QED
  BY <1>3, <1>4, <1>5 DEF Reading

LEMMA StepRecovering ==
  ASSUME IInv, Recovering \/ RepositoryDown
  PROVE  IInv'
<1> USE DEF IInv, TypeOK
<1>1. "reader" \in Task /\ task["reader"].pc = "recovering"
  BY DEF Task, Recovering, Recover, RepositoryDown
<1>2. ASSUME NEW served \in SUBSET Doc, Recover(served) PROVE IInv'
  <2> DEFINE asked == task["reader"].docs
             givenUp == {d \in asked \ served : GivesUp(d)}
  <2>1. asked \in SUBSET Doc /\ seen' \subseteq Doc
    BY <1>1, <1>2 DEF Recover, TaskRecord
  <2>2. attempts' \in [Doc -> 0 .. (Attempts - 1)]
    <3>1. attempts' = [d \in Doc |->
            IF d \in asked THEN IF d \in served \cup givenUp THEN 0 ELSE Misses(d)
            ELSE attempts[d]]
      BY <1>2 DEF Recover
    <3>2. \A d \in Doc : d \in asked /\ d \notin served \cup givenUp =>
                           Misses(d) \in 0 .. (Attempts - 1)
      BY AttemptsAssumption DEF GivesUp, Misses
    <3> QED
      BY <3>1, <3>2, AttemptsAssumption
  <2>3. fetched' \in [Doc -> Nat] /\ missed' \in [Doc -> Nat]
    BY <1>2 DEF Recover, Counted
  <2>4. Ingest(served)
    BY <1>2 DEF Recover
  <2>5. /\ task' \in [Task -> TaskRecord] /\ line' \in Seq(Task) /\ LockInv'
        /\ \A u \in Task : task'[u].pc = "applying" => task'[u] = task[u]
    BY <1>1, <2>4, Ingests
  <2>6. UNCHANGED <<world, socket, live, shown, recent, seeded, drops, restarts, admitted>>
    BY <1>2 DEF Recover
  <2>7. TypeOK'
    BY <2>1, <2>2, <2>3, <2>5, <2>6 DEF world, socket
  <2>8. AdmittedInv' /\ AppliesCurrent'
    BY <2>5, <2>6, SameSet, Numbers DEF world
  <2> QED
    BY <2>5, <2>7, <2>8
<1>3. CASE RepositoryDown
  <2>1. Ingest({}) /\ {} \in SUBSET Doc
    BY <1>3 DEF RepositoryDown
  <2>2. /\ task' \in [Task -> TaskRecord] /\ line' \in Seq(Task) /\ LockInv'
        /\ \A u \in Task : task'[u].pc = "applying" => task'[u] = task[u]
    BY <1>1, <2>1, Ingests
  <2>3. UNCHANGED <<world, socket, documents, recent, repository, seeded, drops,
                    restarts, admitted>>
    BY <1>3 DEF RepositoryDown
  <2>4. TypeOK'
    BY <2>2, <2>3 DEF world, socket, documents, repository
  <2>5. AdmittedInv' /\ AppliesCurrent'
    BY <2>2, <2>3, SameSet, Numbers DEF world, documents
  <2> QED
    BY <2>2, <2>4, <2>5
<1> QED
  BY <1>2, <1>3 DEF Recovering

LEMMA StepWorld ==
  ASSUME IInv, Publish \/ Heartbeat \/ Break \/ Age \/ Locate \/ Lapse
  PROVE  IInv'
<1> USE DEF IInv, TypeOK
<1>1. UNCHANGED <<first, task, line, documents, repository, seeded, restarts, admitted>>
  BY DEF Publish, Heartbeat, Break, Age, Locate, Lapse, world, socket
<1>2. published' \in 0 .. N /\ aged' \in 0 .. published' /\ aged' >= aged /\ aged' \in Nat
  BY Numbers DEF Publish, Heartbeat, Break, Age, Locate, Lapse, world
<1>3. wire' \in Seq(Item)
  <2>1. CASE Publish
    <3>1. Streamed(published + 1) \in Item
      BY <2>1, Numbers DEF Publish, Streamed, Item, Doc
    <3> QED
      BY <2>1, <3>1 DEF Publish, Sends
  <2>2. CASE Heartbeat
    <3>1. Beat(published) \in Item
      BY DEF Beat, Item
    <3> QED
      BY <2>2, <3>1 DEF Heartbeat, Sends
  <2>3. CASE Break \/ Age \/ Locate \/ Lapse
    BY <2>3 DEF Break, Age, Locate, Lapse, socket
  <2> QED
    BY <2>1, <2>2, <2>3
<1>4. link' \in {"none", "live", "silent"} /\ recent' \in BOOLEAN /\ drops' \in Nat
  <2>1. CASE Break
    BY <2>1 DEF Break
  <2>2. CASE Publish \/ Heartbeat \/ Age \/ Locate
    BY <2>2 DEF Publish, Heartbeat, Age, Locate, socket
  <2>3. CASE Lapse
    BY <2>3 DEF Lapse, socket
  <2> QED
    BY <2>1, <2>2, <2>3
<1>8. located' \in BOOLEAN
  BY DEF Publish, Heartbeat, Break, Age, Locate, Lapse, world
<1>5. TypeOK'
  BY <1>1, <1>2, <1>3, <1>4, <1>8 DEF documents, repository
<1>6. LockInv'
  BY <1>1 DEF LockInv
<1>7. AdmittedInv' /\ AppliesCurrent'
  BY <1>1, <1>2, SameSet DEF documents
<1> QED
  BY <1>5, <1>6, <1>7

LEMMA StepRestart ==
  ASSUME IInv, Restart
  PROVE  IInv'
<1> USE DEF IInv, TypeOK
<1>1. \A t \in Task : task'[t].pc \in {"idle", "off"}
  BY DEF Restart, At
<1>2. task' \in [Task -> TaskRecord]
  BY AtType DEF Restart
<1>3. line' \in Seq(Task) /\ wire' \in Seq(Item) /\ restarts' \in Nat
  BY DEF Restart
<1>4. attempts' \in [Doc -> 0 .. (Attempts - 1)]
  BY AttemptsAssumption DEF Restart
<1>5. TypeOK'
  BY <1>2, <1>3, <1>4 DEF Restart, world
<1>6. LockInv' /\ AppliesCurrent'
  BY <1>1 DEF LockInv, AppliesCurrent
<1>7. AdmittedInv'
  BY DEF Restart, AdmittedInv
<1> QED
  BY <1>5, <1>6, <1>7

LEMMA StepIInv == IInv /\ [Next]_vars => IInv'
<1> SUFFICES ASSUME IInv, [Next]_vars PROVE IInv'
  OBVIOUS
<1>1. CASE UNCHANGED vars
  BY <1>1 DEF IInv, TypeOK, LockInv, AdmittedInv, AppliesCurrent, vars, world, socket,
              documents, repository
<1>2. CASE Next
  <2>1. ASSUME NEW t \in Task, Acquire(t) \/ Fetching(t) \/ Applying(t) PROVE IInv'
    BY <2>1, StepAcquire, StepFeed, StepLeave DEF Fetching, Applying
  <2>2. CASE Poll \/ Start \/ Connect
    BY <2>2, StepPollStartConnect
  <2>3. CASE Reading
    BY <2>3, StepReading
  <2>4. CASE Recovering \/ RepositoryDown
    BY <2>4, StepRecovering
  <2>5. CASE Publish \/ Heartbeat \/ Break \/ Age \/ Locate \/ Lapse
    BY <2>5, StepWorld
  <2>6. CASE Restart
    BY <2>6, StepRestart
  <2> QED
    BY <1>2, <2>1, <2>2, <2>3, <2>4, <2>5, <2>6 DEF Next
<1> QED
  BY <1>1, <1>2

LEMMA AlwaysIInv == Spec => []IInv
BY InitIInv, StepIInv, PTL DEF Spec

-----------------------------------------------------------------------------
\* The state of the client and the ingest keeps its type.
THEOREM TypeCorrect == Spec => []TypeOK
<1>1. IInv => TypeOK
  BY DEF IInv
<1> QED
  BY <1>1, AlwaysIInv, PTL

\* Whoever applies, applies what the live set holds: no document lands between
\* the merge and the apply (async_backfill, async_ingest_docs).
THEOREM AppliesTheLiveSet == Spec => []AppliesCurrent
<1>1. IInv => AppliesCurrent
  BY DEF IInv
<1> QED
  BY <1>1, AlwaysIInv, PTL

\* What a document of the live set supersedes is never shown again, whatever the
\* index and the repository still list and whenever the document is pruned
\* (_merge_docs, build_alerts_from_cap_docs).
THEOREM SupersededStaysGone == Spec => NoResurrection
<1>1. ASSUME IInv, [Next]_vars, NEW d \in shown' \ shown, NEW s \in admitted
      PROVE  d \notin Refs[s]
  <2> USE DEF IInv, TypeOK
  <2>1. PICK t \in Task : Apply(t)
    BY <1>1 DEF Next, Acquire, Fetching, Feed, FeedFails, Applying, ApplyFails, Poll, Start,
                Connect, Reading, ReadDocument, ReadHeartbeat, Disconnect, Recovering,
                Recover, RepositoryDown, Publish, Heartbeat, Break, Age, Locate, Lapse,
                Restart, vars, documents
  <2>2. d \in Visible(live) /\ d \in live
    BY <1>1, <2>1, VisibleType DEF Apply, AppliesCurrent
  <2>3. SUFFICES ASSUME d \in Refs[s] PROVE FALSE
    OBVIOUS
  <2>4. s \in Doc /\ s \in Nat /\ d \in Nat /\ s \in Actual
    BY <1>1, <2>2, Numbers DEF AdmittedInv
  <2>5. CASE s \in live
    <3>1. live \in SUBSET Doc /\ s \in live \cap Actual
      BY <1>1, <2>4, <2>5
    <3> QED
      BY <2>2, <2>3, <3>1, SupersededHidden
  <2>6. CASE s \notin live
    <3>1. d > s
      BY <1>1, <2>2, <2>6 DEF AdmittedInv
    <3>2. d < s
      BY <2>3, <2>4, RefsAssumption
    <3> QED
      BY <2>4, <3>1, <3>2
  <2> QED
    BY <2>5, <2>6
<1>2. IInv /\ [Next]_vars => [\A d \in shown' \ shown : \A s \in admitted : d \notin Refs[s]]_vars
  BY <1>1
<1> QED
  BY <1>2, AlwaysIInv, PTL DEF Spec, NoResurrection

-----------------------------------------------------------------------------
(* The bounds of the recovery                                              *)

IsBeat(i) == i \in DOMAIN wire /\ wire[i].heartbeat

\* What the heartbeats that are still to be read list only moves on.
WireInv ==
  /\ \A i \in DOMAIN wire : IsBeat(i) => wire[i].last <= published
  /\ \A i, j \in DOMAIN wire : IsBeat(i) /\ IsBeat(j) /\ i < j => wire[i].last <= wire[j].last

\* Every heartbeat to come reports n or later.
Passed(n) == n <= published /\ \A i \in DOMAIN wire : IsBeat(i) => n <= wire[i].last

\* No heartbeat to come lists d, and none is older than d.
Gone(d) == Passed(d + Window)
Out(d) == Passed(d)

Recovered(d) == task["reader"].pc = "recovering" /\ d \in task["reader"].docs

\* A document that was fetched is seen or too old; the code's count of its
\* misses is the true one until it is seen, too old or past the lists; and what
\* is being asked for is none of these.
CountInv ==
  \A d \in Doc :
    /\ fetched[d] <= 1 /\ missed[d] <= Attempts
    /\ fetched[d] > 0 => d \in seen \/ d <= aged
    /\ missed[d] = attempts[d] \/ d \in seen \/ d <= aged \/ Gone(d)
    /\ missed[d] > 0 => Out(d)
    /\ Recovered(d) => fetched[d] = 0 /\ missed[d] = attempts[d] /\ Out(d)

FetchInv == WireInv /\ CountInv

\* How far the wire may have moved: on, to nothing, or by what is sent now.
WireMoves ==
  \/ wire' = wire
  \/ wire' = <<>>
  \/ wire # <<>> /\ wire' = Tail(wire)
  \/ \E item \in Item : wire' = Append(wire, item) /\ (item.heartbeat => item.last = published)

LEMMA WireTypes ==
  ASSUME TypeOK
  PROVE  /\ published \in Nat /\ aged \in Nat /\ Window \in Nat /\ Doc \subseteq Nat
         /\ Len(wire) \in Nat /\ DOMAIN wire = 1 .. Len(wire)
         /\ \A i \in DOMAIN wire : wire[i].last \in Nat
<1>1. \A item \in Item : item.last \in Nat
  <2>1. \A item \in [heartbeat : {FALSE}, last : Doc] : item.last \in Nat
    BY Numbers
  <2>2. \A item \in [heartbeat : {TRUE}, last : 0 .. N] : item.last \in Nat
    BY Numbers
  <2> QED
    BY <2>1, <2>2 DEF Item
<1>2. wire \in Seq(Item)
  BY DEF TypeOK
<1>3. published \in Nat /\ aged \in Nat
  BY Numbers DEF TypeOK
<1> QED
  BY <1>1, <1>2, <1>3, Numbers, AttemptsAssumption

\* Every heartbeat on the wire was there or lists what is published now.
LEMMA WireStep ==
  ASSUME TypeOK, WireInv, WireMoves, published' \in Nat, published' >= published
  PROVE  /\ WireInv'
         /\ \A i \in DOMAIN wire' : wire'[i].heartbeat =>
              (\E j \in DOMAIN wire : wire[j] = wire'[i]) \/ wire'[i].last = published
<1> USE DEF TypeOK, WireInv, IsBeat
<1>1. /\ published \in Nat /\ Len(wire) \in Nat /\ DOMAIN wire = 1 .. Len(wire)
      /\ \A i \in DOMAIN wire : wire[i].last \in Nat
  BY WireTypes
<1>2. CASE wire' = wire
  BY <1>1, <1>2
<1>3. CASE wire' = <<>>
  BY <1>3
<1>4. CASE wire # <<>> /\ wire' = Tail(wire)
  <2>1. \A i \in DOMAIN wire' : i \in Nat /\ i + 1 \in DOMAIN wire /\ wire'[i] = wire[i + 1]
    BY <1>1, <1>4
  <2>2. \A i, j \in DOMAIN wire' : i < j => i + 1 < j + 1
    BY <2>1
  <2> QED
    BY <1>1, <2>1, <2>2
<1>5. ASSUME NEW item \in Item, wire' = Append(wire, item),
             item.heartbeat => item.last = published
      PROVE  /\ WireInv'
             /\ \A i \in DOMAIN wire' : wire'[i].heartbeat =>
                  (\E j \in DOMAIN wire : wire[j] = wire'[i]) \/ wire'[i].last = published
  <2>1. wire \in Seq(Item) /\ DOMAIN wire' = 1 .. Len(wire) + 1
    BY <1>1, <1>5
  <2>2. /\ \A i \in 1 .. Len(wire) : wire'[i] = wire[i]
        /\ wire'[Len(wire) + 1] = item
    BY <1>1, <1>5, <2>1
  <2>3. \A i \in DOMAIN wire' : /\ i \in Nat
                                /\ \/ i \in DOMAIN wire /\ wire'[i] = wire[i]
                                   \/ i = Len(wire) + 1 /\ wire'[i] = item
    BY <1>1, <2>1, <2>2
  <2>4. \A i \in DOMAIN wire : i <= Len(wire)
    BY <1>1
  <2> QED
    BY <1>1, <1>5, <2>3, <2>4
<1> QED
  BY <1>2, <1>3, <1>4, <1>5 DEF WireMoves

\* The steps that count nothing.
LEMMA SameCounts ==
  ASSUME TypeOK, FetchInv, WireMoves, published' \in Nat, published' >= published,
         aged' \in Nat, aged' >= aged, UNCHANGED repository,
         \A d \in seen : d \in seen' \/ d <= aged',
         \A d \in Doc : Recovered(d)' => Recovered(d)
  PROVE  FetchInv'
<1> USE DEF TypeOK, FetchInv
<1>1. /\ WireInv'
      /\ \A i \in DOMAIN wire' : wire'[i].heartbeat =>
           (\E j \in DOMAIN wire : wire[j] = wire'[i]) \/ wire'[i].last = published
  BY WireStep
<1>2. /\ published \in Nat /\ aged \in Nat /\ Window \in Nat /\ Doc \subseteq Nat
      /\ \A i \in DOMAIN wire : wire[i].last \in Nat
  BY WireTypes
<1>3. ASSUME NEW n \in Nat, Passed(n) PROVE Passed(n)'
  <2>1. n <= published'
    BY <1>2, <1>3 DEF Passed
  <2>2. ASSUME NEW i \in DOMAIN wire', wire'[i].heartbeat PROVE n <= wire'[i].last
    <3>1. CASE wire'[i].last = published
      BY <1>3, <3>1 DEF Passed
    <3>2. CASE \E j \in DOMAIN wire : wire[j] = wire'[i]
      BY <1>3, <2>2, <3>2 DEF Passed, IsBeat
    <3> QED
      BY <1>1, <2>2, <3>1, <3>2
  <2> QED
    BY <2>1, <2>2 DEF Passed, IsBeat
<1>4. \A d \in Doc : (Gone(d) => Gone(d)') /\ (Out(d) => Out(d)')
  <2>1. \A d \in Doc : d \in Nat /\ d + Window \in Nat
    BY <1>2
  <2> QED
    BY <1>3, <2>1 DEF Gone, Out
<1>5. CountInv'
  <2> SUFFICES ASSUME NEW d \in Doc
               PROVE  /\ fetched'[d] <= 1 /\ missed'[d] <= Attempts
                      /\ fetched'[d] > 0 => d \in seen' \/ d <= aged'
                      /\ missed'[d] = attempts'[d] \/ d \in seen' \/ d <= aged' \/ Gone(d)'
                      /\ missed'[d] > 0 => Out(d)'
                      /\ Recovered(d)' => fetched'[d] = 0 /\ missed'[d] = attempts'[d] /\ Out(d)'
    BY DEF CountInv
  <2>1. d \in Nat /\ (d <= aged => d <= aged')
    BY <1>2
  <2>2. fetched' = fetched /\ missed' = missed /\ attempts' = attempts
    BY DEF repository
  <2> QED
    BY <1>3, <1>4, <2>1, <2>2 DEF CountInv
<1> QED
  BY <1>1, <1>5

LEMMA InitFetchInv == Init => FetchInv
<1> SUFFICES ASSUME Init PROVE FetchInv
  OBVIOUS
<1>1. WireInv
  BY DEF Init, WireInv
<1>2. task["reader"].pc = "off"
  BY DEF Init, Task, At
<1>3. CountInv
  BY <1>2, AttemptsAssumption DEF Init, CountInv, Recovered
<1> QED
  BY <1>1, <1>3 DEF FetchInv

\* The tasks' steps under the lock.
LEMMA FetchLocked ==
  ASSUME IInv, FetchInv, NEW t \in Task, Acquire(t) \/ Fetching(t) \/ Applying(t)
  PROVE  FetchInv'
<1> USE DEF IInv, TypeOK
<1>1. UNCHANGED <<published, aged, repository>>
  BY DEF Acquire, Fetching, Feed, FeedFails, Applying, Apply, ApplyFails, world
<1>2. wire' = wire \/ wire' = <<>>
  BY DEF Acquire, Fetching, Feed, FeedFails, Applying, Apply, ApplyFails, socket
<1>3. \A d \in seen : d \in seen' \/ d <= aged'
  <2>1. \A d \in seen : d \in Nat /\ aged \in Nat
    BY Numbers
  <2>2. CASE seen' = seen
    BY <2>2
  <2>3. CASE \E docs : Merge(t, docs)
    BY <1>1, <2>1, <2>3 DEF Merge
  <2> QED
    BY <2>2, <2>3 DEF Acquire, Fetching, Feed, FeedFails, Applying, Apply, ApplyFails, documents
<1>4. \A d \in Doc : Recovered(d)' => Recovered(d)
  <2>1. Resting(t).pc # "recovering" /\ At("down").pc # "recovering"
    BY DEF Resting, At
  <2>2. task'[t].pc # "recovering" /\ \A u \in Task : u # t => task'[u] = task[u]
    <3>1. CASE Acquire(t)
      BY <3>1 DEF Acquire, Merge, TaskRecord
    <3>2. CASE \E docs \in SUBSET Doc : Feed(t, docs)
      BY <3>2 DEF Feed, Merge, TaskRecord
    <3>3. CASE FeedFails(t) \/ Applying(t)
      BY <2>1, <3>3 DEF FeedFails, Applying, Apply, ApplyFails, Leaves
    <3> QED
      BY <3>1, <3>2, <3>3 DEF Fetching
  <2>3. "reader" \in Task
    BY DEF Task
  <2> QED
    BY <2>2, <2>3 DEF Recovered
<1> QED
  BY <1>1, <1>2, <1>3, <1>4, WireTypes, SameCounts DEF WireMoves

\* async_ingest_docs asks the repository for nothing.
LEMMA IngestAsksNothing ==
  ASSUME IInv, NEW docs, Ingest(docs)
  PROVE  task'["reader"].pc # "recovering"
<1>1. "reader" \in Task
  BY DEF Task
<1> QED
  BY <1>1 DEF IInv, TypeOK, Ingest, Waits, At

LEMMA FetchBeside ==
  ASSUME IInv, FetchInv,
         Poll \/ Start \/ Connect \/ ReadDocument \/ Disconnect \/ RepositoryDown
  PROVE  FetchInv'
<1> USE DEF IInv, TypeOK
<1>1. UNCHANGED <<published, aged, repository>>
  BY DEF Poll, Start, Connect, ReadDocument, Disconnect, RepositoryDown, world
<1>2. wire' = wire \/ wire' = <<>> \/ (wire # <<>> /\ wire' = Tail(wire))
  BY DEF Poll, Start, Connect, ReadDocument, Read, Disconnect, RepositoryDown, socket
<1>3. seen \subseteq seen'
  BY DEF Poll, Start, Connect, ReadDocument, Disconnect, RepositoryDown, documents
<1>4. \A d \in Doc : Recovered(d)' => Recovered(d)
  <2>1. "poll" \in Task /\ "reader" \in Task /\ "poll" # "reader"
    BY DEF Task
  <2>2. CASE Poll
    BY <2>1, <2>2 DEF Poll, Waits, Recovered
  <2>3. CASE Start \/ Connect \/ Disconnect
    BY <2>1, <2>3 DEF Start, Connect, Disconnect, Waits, At, Recovered
  <2>4. CASE ReadDocument \/ RepositoryDown
    BY <2>4, IngestAsksNothing DEF ReadDocument, RepositoryDown, Recovered
  <2> QED
    BY <2>2, <2>3, <2>4
<1> QED
  BY <1>1, <1>2, <1>3, <1>4, WireTypes, SameCounts DEF WireMoves

LEMMA FetchWorld ==
  ASSUME IInv, FetchInv, Publish \/ Heartbeat \/ Break \/ Age \/ Locate \/ Lapse
  PROVE  FetchInv'
<1> USE DEF IInv, TypeOK
<1>1. UNCHANGED <<task, documents, repository>>
  BY DEF Publish, Heartbeat, Break, Age, Locate, Lapse
<1>2. published' \in Nat /\ published' >= published /\ aged' \in Nat /\ aged' >= aged
  BY WireTypes DEF Publish, Heartbeat, Break, Age, Locate, Lapse, world
<1>3. WireMoves
  <2>1. CASE Publish
    <3>1. Streamed(published + 1) \in Item /\ ~Streamed(published + 1).heartbeat
      BY <2>1, Numbers DEF Publish, Streamed, Item, Doc
    <3> QED
      BY <2>1, <3>1 DEF Publish, Sends, WireMoves
  <2>2. CASE Heartbeat
    <3>1. Beat(published) \in Item /\ Beat(published).last = published
      BY DEF Beat, Item
    <3> QED
      BY <2>2, <3>1 DEF Heartbeat, Sends, WireMoves
  <2>3. CASE Break \/ Age \/ Locate \/ Lapse
    BY <2>3 DEF Break, Age, Locate, Lapse, socket, WireMoves
  <2> QED
    BY <2>1, <2>2, <2>3
<1>4. (\A d \in seen : d \in seen' \/ d <= aged') /\ \A d \in Doc : Recovered(d)' => Recovered(d)
  BY <1>1 DEF documents, Recovered
<1> QED
  BY <1>1, <1>2, <1>3, <1>4, SameCounts

\* A heartbeat resets the counts of what it no longer lists.
LEMMA FetchHeartbeat ==
  ASSUME IInv, FetchInv, ReadHeartbeat
  PROVE  FetchInv'
<1> USE DEF IInv, TypeOK, FetchInv
<1> DEFINE last == Head(wire).last
<1>1. /\ published \in Nat /\ aged \in Nat /\ Window \in Nat /\ Doc \subseteq Nat
      /\ Len(wire) \in Nat /\ DOMAIN wire = 1 .. Len(wire)
      /\ \A i \in DOMAIN wire : wire[i].last \in Nat
  BY WireTypes
<1>2. /\ wire # <<>> /\ wire' = Tail(wire) /\ Head(wire).heartbeat
      /\ UNCHANGED <<published, aged, seen, fetched, missed>>
  BY DEF ReadHeartbeat, Read, world, documents
<1>3. 1 \in DOMAIN wire /\ IsBeat(1) /\ wire[1].last = last /\ last \in Nat /\ last <= published
  BY <1>1, <1>2 DEF IsBeat, WireInv
<1>4. /\ WireInv'
      /\ \A i \in DOMAIN wire' : wire'[i].heartbeat =>
           \E j \in DOMAIN wire : wire[j] = wire'[i] /\ last <= wire[j].last
  <2>1. WireInv'
    BY <1>1, <1>2, WireStep DEF WireMoves
  <2>2. \A i \in DOMAIN wire' : i + 1 \in DOMAIN wire /\ wire'[i] = wire[i + 1] /\ 1 < i + 1
    BY <1>1, <1>2
  <2>3. \A j \in DOMAIN wire : wire[j].heartbeat /\ 1 < j => last <= wire[j].last
    BY <1>3 DEF WireInv, IsBeat
  <2> QED
    BY <2>1, <2>2, <2>3
<1>5. \A n \in Nat : (Passed(n) => n <= last) /\ (n <= last => Passed(n)')
  <2> SUFFICES ASSUME NEW n \in Nat PROVE (Passed(n) => n <= last) /\ (n <= last => Passed(n)')
    OBVIOUS
  <2>1. Passed(n) => n <= last
    BY <1>3 DEF Passed
  <2>2. ASSUME n <= last PROVE Passed(n)'
    <3>1. \A i \in DOMAIN wire' : wire'[i].heartbeat =>
            wire'[i].last \in Nat /\ last <= wire'[i].last
      BY <1>1, <1>4
    <3>2. published' \in Nat /\ last <= published' /\ last \in Nat
      BY <1>1, <1>2, <1>3
    <3> HIDE DEF last
    <3>3. \A i \in DOMAIN wire' : wire'[i].heartbeat => n <= wire'[i].last
      BY <2>2, <3>1, <3>2
    <3>4. n <= published'
      BY <2>2, <3>2
    <3> QED
      BY <3>3, <3>4 DEF Passed, IsBeat
  <2> QED
    BY <2>1, <2>2
<1>6. \A d \in Doc : /\ d + Window <= last => Gone(d)'
                     /\ d <= last => Out(d)'
                     /\ Gone(d) => Gone(d)' /\ d + Window <= last
                     /\ Out(d) => Out(d)' /\ d <= last
  <2>1. \A d \in Doc : d \in Nat /\ d + Window \in Nat
    BY <1>1
  <2> HIDE DEF last
  <2> QED
    BY <1>5, <2>1 DEF Gone, Out
<1>7. \A d \in Doc : /\ d \in Listed(last) <=> d <= last /\ ~(d + Window <= last)
                     /\ attempts'[d] = IF d \in Listed(last) THEN attempts[d] ELSE 0
  BY <1>1, <1>3 DEF ReadHeartbeat, Listed, Doc
<1>8. \A d \in Doc : Recovered(d)' => d \in Listed(last) /\ d \notin seen /\ d > aged
  <2>1. "reader" \in Task
    BY DEF Task
  <2>2. CASE Unseen(Listed(last)) = {}
    BY <2>2, IngestAsksNothing DEF ReadHeartbeat, Recovered
  <2>3. CASE Unseen(Listed(last)) # {}
    BY <2>1, <2>3 DEF ReadHeartbeat, Recovered, Unseen, At
  <2> QED
    BY <2>2, <2>3
<1>9. CountInv'
  <2> SUFFICES ASSUME NEW d \in Doc
               PROVE  /\ fetched'[d] <= 1 /\ missed'[d] <= Attempts
                      /\ fetched'[d] > 0 => d \in seen' \/ d <= aged'
                      /\ missed'[d] = attempts'[d] \/ d \in seen' \/ d <= aged' \/ Gone(d)'
                      /\ missed'[d] > 0 => Out(d)'
                      /\ Recovered(d)' => fetched'[d] = 0 /\ missed'[d] = attempts'[d] /\ Out(d)'
    BY DEF CountInv
  <2>1. /\ fetched[d] <= 1 /\ missed[d] <= Attempts
        /\ fetched[d] > 0 => d \in seen \/ d <= aged
        /\ missed[d] = attempts[d] \/ d \in seen \/ d <= aged \/ Gone(d)
        /\ missed[d] > 0 => Out(d)
    BY DEF CountInv
  <2>2. d \in Nat /\ fetched[d] \in Nat /\ missed[d] \in Nat
    BY <1>1
  <2>3. missed'[d] = attempts'[d] \/ d \in seen' \/ d <= aged' \/ Gone(d)'
    <3>1. CASE d \in Listed(last)
      BY <1>2, <1>6, <1>7, <2>1, <3>1
    <3>2. CASE d \notin Listed(last) /\ d + Window <= last
      BY <1>6, <3>2
    <3>3. CASE d \notin Listed(last) /\ ~(d <= last)
      BY <1>2, <1>6, <1>7, <2>1, <2>2, <3>3
    <3> QED
      BY <1>7, <3>1, <3>2, <3>3
  <2>4. Recovered(d)' => fetched'[d] = 0 /\ missed'[d] = attempts'[d] /\ Out(d)'
    <3> SUFFICES ASSUME Recovered(d)'
                 PROVE  fetched'[d] = 0 /\ missed'[d] = attempts'[d] /\ Out(d)'
      OBVIOUS
    <3>1. d \in Listed(last) /\ d \notin seen /\ ~(d <= aged)
      BY <1>1, <1>8, <2>2
    <3> QED
      BY <1>2, <1>6, <1>7, <2>1, <2>2, <3>1
  <2> QED
    BY <1>2, <1>6, <2>1, <2>3, <2>4
<1> QED
  BY <1>4, <1>9

\* The repository's answer counts what it asked for, and nothing else.
LEMMA FetchRecover ==
  ASSUME IInv, FetchInv, NEW served \in SUBSET Doc, Recover(served)
  PROVE  FetchInv'
<1> USE DEF IInv, TypeOK, FetchInv
<1> DEFINE asked == task["reader"].docs
           givenUp == {d \in asked \ served : GivesUp(d)}
<1>1. UNCHANGED <<published, aged, wire>>
  BY DEF Recover, world, socket
<1>2. WireInv' /\ \A d \in Doc : (Gone(d) <=> Gone(d)') /\ (Out(d) <=> Out(d)')
  BY <1>1 DEF WireInv, Gone, Out, Passed, IsBeat
<1>3. \A d \in Doc : ~Recovered(d)'
  BY IngestAsksNothing DEF Recover, Recovered
<1>4. seen' = seen \cup served \cup givenUp
  BY DEF Recover
<1>5. \A d \in Doc : /\ d \in asked <=> Recovered(d)
                     /\ attempts'[d] = IF d \in asked
                                       THEN IF d \in served \cup givenUp THEN 0 ELSE Misses(d)
                                       ELSE attempts[d]
                     /\ fetched'[d] = Counted(fetched[d], d \in served, 1)
                     /\ missed'[d] = Counted(missed[d], d \in asked \ served, Attempts)
  BY DEF Recover, Recovered
<1>6. served \subseteq asked
  BY DEF Recover
<1>7. CountInv'
  <2> SUFFICES ASSUME NEW d \in Doc
               PROVE  /\ fetched'[d] <= 1 /\ missed'[d] <= Attempts
                      /\ fetched'[d] > 0 => d \in seen' \/ d <= aged'
                      /\ missed'[d] = attempts'[d] \/ d \in seen' \/ d <= aged' \/ Gone(d)'
                      /\ missed'[d] > 0 => Out(d)'
    BY <1>3 DEF CountInv
  <2>1. /\ fetched[d] <= 1 /\ missed[d] <= Attempts
        /\ fetched[d] > 0 => d \in seen \/ d <= aged
        /\ missed[d] = attempts[d] \/ d \in seen \/ d <= aged \/ Gone(d)
        /\ missed[d] > 0 => Out(d)
        /\ Recovered(d) => fetched[d] = 0 /\ missed[d] = attempts[d] /\ Out(d)
    BY DEF CountInv
  <2>2. /\ fetched[d] \in Nat /\ missed[d] \in Nat
        /\ attempts[d] \in Nat /\ attempts[d] <= Attempts - 1 /\ Attempts \in Nat
    BY AttemptsAssumption
  <2>3. CASE d \notin asked
    BY <1>1, <1>2, <1>4, <1>5, <1>6, <2>1, <2>3 DEF Counted
  <2>4. CASE d \in served
    <3>1. d \in asked /\ d \in seen' /\ fetched[d] = 0 /\ (Out(d) <=> Out(d)')
      BY <1>2, <1>4, <1>5, <1>6, <2>1, <2>4
    <3>2. fetched'[d] = 1 /\ missed'[d] = missed[d]
      BY <1>5, <2>4, <3>1 DEF Counted
    <3> QED
      BY <2>1, <3>1, <3>2
  <2>5. CASE d \in asked \ served
    <3>1. missed'[d] = missed[d] + 1 /\ fetched'[d] = 0 /\ missed[d] = attempts[d]
      BY <1>5, <1>6, <2>1, <2>2, <2>5 DEF Counted
    <3>2. d \in givenUp \/ attempts'[d] = missed'[d]
      BY <1>5, <2>5, <3>1 DEF Misses
    <3> QED
      BY <1>2, <1>4, <1>5, <2>1, <2>2, <2>5, <3>1, <3>2
  <2> QED
    BY <2>3, <2>4, <2>5
<1> QED
  BY <1>2, <1>7

LEMMA FetchRestart ==
  ASSUME IInv, FetchInv, Restart
  PROVE  FetchInv'
<1>1. WireInv'
  BY DEF Restart, WireInv
<1>2. task'["reader"].pc = "off"
  BY DEF Restart, Task, At
<1>3. CountInv'
  BY <1>2, AttemptsAssumption DEF Restart, CountInv, Recovered
<1> QED
  BY <1>1, <1>3 DEF FetchInv

LEMMA StepFetchInv == IInv /\ FetchInv /\ [Next]_vars => FetchInv'
<1> SUFFICES ASSUME IInv, FetchInv, [Next]_vars PROVE FetchInv'
  OBVIOUS
<1>1. CASE UNCHANGED vars
  <2>1. /\ WireMoves /\ UNCHANGED <<published, aged, repository, seen, task>>
        /\ TypeOK
    BY <1>1 DEF vars, world, socket, documents, WireMoves, IInv
  <2> QED
    BY <2>1, WireTypes, SameCounts DEF Recovered
<1>2. CASE Next
  <2>1. ASSUME NEW t \in Task, Acquire(t) \/ Fetching(t) \/ Applying(t) PROVE FetchInv'
    BY <2>1, FetchLocked
  <2>2. CASE Poll \/ Start \/ Connect \/ ReadDocument \/ Disconnect \/ RepositoryDown
    BY <2>2, FetchBeside
  <2>3. CASE ReadHeartbeat
    BY <2>3, FetchHeartbeat
  <2>4. CASE Recovering
    BY <2>4, FetchRecover DEF Recovering
  <2>5. CASE Publish \/ Heartbeat \/ Break \/ Age \/ Locate \/ Lapse
    BY <2>5, FetchWorld
  <2>6. CASE Restart
    BY <2>6, FetchRestart
  <2> QED
    BY <1>2, <2>1, <2>2, <2>3, <2>4, <2>5, <2>6 DEF Next, Reading
<1> QED
  BY <1>1, <1>2

\* However long the heartbeats list a document and whatever is pruned, the
\* repository hands it over once at most and is asked in vain a bounded number
\* of times (_unseen_references, _recover_from_repository).
THEOREM RecoveryBounded == Spec => []RepositoryBounded
<1>1. FetchInv => RepositoryBounded
  BY DEF FetchInv, CountInv, RepositoryBounded
<1> QED
  BY <1>1, InitIInv, StepIInv, InitFetchInv, StepFetchInv, PTL DEF Spec

-----------------------------------------------------------------------------
(* ECCC: a document ends an alert only where all of it is over, and one    *)
(* that the socket admits is built.                                        *)

\* The envelope is coarse and drops nothing that the body would confirm
\* (_prefilter_entries: "survivors are still confirmed by SGC"): where the
\* box of a province's polygons meets its padded box, and threat areas lie
\* within the polygons of their block, a document of the region is read.
THEOREM ConfirmedIsRead ==
  ASSUME NEW doc \in Seq(Block), NEW scope \in Scopes,
         \A i \in DOMAIN doc :
           /\ doc[i].province => doc[i].boxed
           /\ \A area \in doc[i].threats : area.covers => doc[i].covers,
         DocMatchesRegion(doc, scope)
  PROVE  BodyIsRead(doc, scope)
<1>1. PICK i \in DOMAIN doc : InfoMatchesRegion(doc[i], scope)
  BY DEF DocMatchesRegion
<1>2. EntrySurvives(doc[i], scope)
  <2>1. CASE scope = "province"
    BY <1>1, <2>1 DEF InfoMatchesRegion, EntrySurvives
  <2>2. CASE scope = "point"
    BY <1>1, <2>2 DEF InfoMatchesRegion, EntrySurvives
  <2> QED BY <2>1, <2>2 DEF Scopes
<1> QED BY <1>2 DEF BodyIsRead

\* The first of some indexes is one of them, and the least.
LEMMA FirstIsLeast ==
  ASSUME NEW I \in SUBSET Nat, I # {}
  PROVE  First(I) \in I /\ \A i \in I : First(I) =< i
<1> DEFINE Less == OpToRel(<, Nat)
<1>1. PICK i \in I : \A j \in I : ~(<<j, i>> \in Less)
  <2> HIDE DEF Less
  <2>1. IsWellFoundedOn(Less, Nat)
    BY NatLessThanWellFounded DEF Less
  <2> QED BY <2>1, WFMin
<1>2. \A j \in I : ~(j < i)
  BY <1>1 DEF OpToRel
<1>3. \A j \in I : i =< j
  BY <1>2
<1> QED BY <1>3 DEF First

LEMMA FirstIsOne ==
  ASSUME NEW I \in SUBSET Nat, I # {}
  PROVE  First(I) \in I
BY FirstIsLeast

\* The blocks that a selection looks at and the one it picks.
LEMMA SelectedIsMatch ==
  ASSUME NEW doc \in Seq(Block), NEW lang, NEW scope,
         Matches(doc, lang, scope) # {}
  PROVE  /\ Matches(doc, lang, scope) \in SUBSET Nat
         /\ Matches(doc, lang, scope) \subseteq DOMAIN doc
         /\ SelectRegionInfo(doc, lang, scope) \in Matches(doc, lang, scope)
         /\ Active(doc, Matches(doc, lang, scope)) # {} =>
              ~doc[SelectRegionInfo(doc, lang, scope)].ended
<1> DEFINE M == Matches(doc, lang, scope)
<1>1. M \subseteq DOMAIN doc /\ DOMAIN doc \subseteq Nat
  BY DEF Matches, Candidates
<1>2. Active(doc, M) \subseteq M /\ \A i \in Active(doc, M) : ~doc[i].ended
  BY DEF Active
<1>3. CASE Active(doc, M) # {}
  <2>1. First(Active(doc, M)) \in Active(doc, M)
    BY <1>1, <1>2, <1>3, FirstIsOne
  <2> QED BY <1>1, <1>2, <1>3, <2>1 DEF SelectRegionInfo
<1>4. CASE Active(doc, M) = {}
  <2>1. First(M) \in M
    BY <1>1, FirstIsOne
  <2> QED BY <1>1, <1>4, <2>1 DEF SelectRegionInfo
<1> QED BY <1>3, <1>4

\* "If every region-matching block has ended, the alert is terminal here"
\* (_select_region_info), and only then: the block selected for a language
\* says the alert is over exactly when each block of that language that
\* matches the region is.  In a province, and at a point for documents
\* without threat areas, whose blocks keep their own stage there.
THEOREM EndsOnlyWhereOver ==
  ASSUME NEW doc \in Seq(Block), NEW lang, NEW scope \in Scopes,
         Matches(doc, lang, scope) # {},
         scope = "province" \/ \A i \in DOMAIN doc : doc[i].threats = {}
  PROVE  IsTerminal(doc[SelectRegionInfo(doc, lang, scope)], scope)
           <=> \A i \in Matches(doc, lang, scope) : doc[i].ended
<1> DEFINE i == SelectRegionInfo(doc, lang, scope)
<1>1. i \in Matches(doc, lang, scope) /\ i \in DOMAIN doc
  BY SelectedIsMatch
<1>2. ~EndedAtPoint(doc[i], scope)
  BY <1>1 DEF EndedAtPoint
<1>3. IsTerminal(doc[i], scope) <=> doc[i].ended
  BY <1>2 DEF IsTerminal
<1>4. ASSUME doc[i].ended PROVE \A j \in Matches(doc, lang, scope) : doc[j].ended
  BY <1>4, SelectedIsMatch DEF Active
<1> QED BY <1>1, <1>3, <1>4

\* The alert of a key is made of one of the blocks selected for it: the preferred
\* language's or the one of the least language (_merge_languages).
LEMMA PrimaryIsSelected ==
  ASSUME NEW doc \in Seq(Block), NEW scope, NEW preferred, NEW key,
         Variants(doc, scope, key) # {},
         Variants(doc, scope, key) \subseteq DOMAIN doc
  PROVE  Primary(doc, scope, preferred, key) \in Variants(doc, scope, key)
<1> DEFINE V == Variants(doc, scope, key)
           own == {i \in V : doc[i].lang = preferred}
<1>1. V # {} /\ V \subseteq DOMAIN doc /\ DOMAIN doc \subseteq Nat
  OBVIOUS
<1>2. \A i \in V : doc[i].lang \in Nat
  <2>1. \A i \in DOMAIN doc : doc[i] \in Block
    OBVIOUS
  <2>2. ASSUME NEW block \in Block PROVE block.lang \in Nat
    <3>1. block.lang \in Languages \cup {Untagged}
      BY DEF Block
    <3>2. Languages \cup {Untagged} \subseteq Nat
      BY LanguageAssumption DEF Untagged
    <3> QED BY <3>1, <3>2, Zenon
  <2> QED BY <1>1, <2>1, <2>2
<1>3. Primary(doc, scope, preferred, key) =
        IF own # {} THEN First(own) ELSE CHOOSE i \in V : \A j \in V : doc[i].lang =< doc[j].lang
  BY DEF Primary, MergeLanguages
<1>4. own # {} => First(own) \in own
  <2>1. own \in SUBSET Nat
    BY <1>1
  <2> HIDE DEF own
  <2> QED BY <2>1, FirstIsOne
<1>5. \E i \in V : \A j \in V : doc[i].lang =< doc[j].lang
  <2> DEFINE tags == {doc[i].lang : i \in V}
  <2>1. tags \in SUBSET Nat /\ tags # {}
    BY <1>1, <1>2
  <2>2. First(tags) \in tags /\ \A tag \in tags : First(tags) =< tag
    <3> HIDE DEF tags
    <3> QED BY <2>1, FirstIsLeast
  <2> QED BY <2>2
<1>6. own \subseteq V
  OBVIOUS
<1>7. (CHOOSE i \in V : \A j \in V : doc[i].lang =< doc[j].lang) \in V
  <2> HIDE DEF V
  <2> QED BY <1>5, Zenon
<1> HIDE DEF own
<1> QED BY <1>3, <1>4, <1>6, <1>7

\* "If every region-matching block has ended, the alert is terminal here", and
\* "The threat being somewhere else too is not an all-clear here"
\* (_select_region_info, _dlc_status_at, build_alerts_from_cap_docs): an alert of
\* a document comes from the block selected for one of its languages, and the
\* document ends it here exactly when each block of that language that matches
\* the region has ended by its own stage or, at a point, threat areas of the
\* selected block cover it and every one of these has ended.
THEOREM EndsByItsBlock ==
  ASSUME NEW doc \in Seq(Block), NEW scope \in Scopes, NEW preferred,
         NEW alert \in AlertsOf(doc, scope, preferred)
  PROVE  \E lang \in LanguagesOf(doc), i \in DOMAIN doc :
           /\ Matches(doc, lang, scope) # {} /\ i = SelectRegionInfo(doc, lang, scope)
           /\ doc[i].key = alert.key
           /\ alert.ends <=>
                \/ \A j \in Matches(doc, lang, scope) : doc[j].ended
                \/ /\ scope = "point" /\ \E area \in doc[i].threats : area.covers
                   /\ \A area \in doc[i].threats : area.covers => area.ended
<1> DEFINE selected == SelectRegionInfos(doc, scope)
<1>1. PICK key \in {doc[i].key : i \in selected} :
        alert = [key |-> key, ends |-> IsTerminal(doc[Primary(doc, scope, preferred, key)], scope)]
  BY DEF AlertsOf
<1>2. selected \subseteq DOMAIN doc
  BY SelectedIsMatch DEF SelectRegionInfos
<1>3. Variants(doc, scope, key) # {} /\ Variants(doc, scope, key) \subseteq selected
  BY <1>1 DEF Variants
<1>4. PICK i \in selected : i = Primary(doc, scope, preferred, key) /\ doc[i].key = key
  BY <1>2, <1>3, PrimaryIsSelected DEF Variants
<1>5. PICK lang \in LanguagesOf(doc) :
        Matches(doc, lang, scope) # {} /\ i = SelectRegionInfo(doc, lang, scope)
  BY <1>4 DEF SelectRegionInfos
<1>6. /\ Matches(doc, lang, scope) \subseteq DOMAIN doc /\ i \in Matches(doc, lang, scope)
      /\ Active(doc, Matches(doc, lang, scope)) # {} => ~doc[i].ended
  BY <1>5, SelectedIsMatch
<1>7. doc[i].ended <=> \A j \in Matches(doc, lang, scope) : doc[j].ended
  BY <1>6 DEF Active
<1>8. alert.key = key /\ alert.ends = IsTerminal(doc[i], scope)
  BY <1>1, <1>4
<1>9. alert.ends <=> doc[i].ended \/ EndedAtPoint(doc[i], scope)
  BY <1>8 DEF IsTerminal
<1> QED BY <1>4, <1>5, <1>6, <1>7, <1>8, <1>9 DEF EndedAtPoint

\* What the socket admits (doc_matches_region) the build makes an alert of:
\* a document in which a block matches the region yields one, unless only
\* some of its blocks have a language.
THEOREM AdmittedIsBuilt ==
  ASSUME NEW doc \in Seq(Block), NEW scope \in Scopes, NEW preferred,
         DocMatchesRegion(doc, scope),
         \/ \A i \in DOMAIN doc : doc[i].lang = Untagged
         \/ \A i \in DOMAIN doc : doc[i].lang # Untagged
  PROVE  AlertsOf(doc, scope, preferred) # {}
<1>1. PICK i \in DOMAIN doc : InfoMatchesRegion(doc[i], scope)
  BY DEF DocMatchesRegion
<1>2. PICK lang \in LanguagesOf(doc) : i \in Matches(doc, lang, scope)
  <2>1. CASE \A j \in DOMAIN doc : doc[j].lang = Untagged
    <3>1. Untagged \in LanguagesOf(doc)
      BY <2>1 DEF LanguagesOf
    <3>2. i \in Matches(doc, Untagged, scope)
      BY <1>1 DEF Matches, Candidates
    <3> QED BY <3>1, <3>2
  <2>2. CASE \A j \in DOMAIN doc : doc[j].lang # Untagged
    <3>1. doc[i].lang \in LanguagesOf(doc)
      BY <1>1, <2>2 DEF LanguagesOf
    <3>2. i \in Matches(doc, doc[i].lang, scope)
      BY <1>1 DEF Matches, Candidates
    <3> QED BY <3>1, <3>2
  <2> QED BY <2>1, <2>2
<1>3. SelectRegionInfo(doc, lang, scope) \in SelectRegionInfos(doc, scope)
  BY <1>2 DEF SelectRegionInfos
<1>4. doc[SelectRegionInfo(doc, lang, scope)].key
        \in {doc[j].key : j \in SelectRegionInfos(doc, scope)}
  BY <1>3
<1> QED BY <1>4 DEF AlertsOf

-----------------------------------------------------------------------------
(* MeteoAlarm: no two runs share an id, and the run in effect has the one  *)
(* without a window, so it keeps it from fetch to fetch.                   *)

Dialects == {"meteofrance", "fmi"}

\* The members of a group: messages at places of their own, regular, live.
GroupOf(s, R, now) ==
  /\ R \subseteq Message
  /\ \A m, n \in R : m.pos = n.pos => m = n
  /\ \A m \in R : m.sender = s /\ Regular(m) /\ ~IsFinished(m, now)
  /\ s = "meteofrance" => \A m, n \in R : Day(m) = Day(n) => m = n

LEMMA MessageFields ==
  ASSUME NEW m \in Message
  PROVE  /\ m.onset \in Nat /\ m.expires \in Nat \cup {None} /\ m.sent \in Nat
         /\ m.severity \in Nat /\ m.pos \in Nat /\ m.sender \in Dialects
         /\ m.regions \in SUBSET Regions /\ m.hazard \in Hazards
BY DEF Message, Dialects

\* A forecast day begins at or before each instant of it, and days follow
\* their instants.
LEMMA DayFacts ==
  ASSUME NEW m \in Message
  PROVE  Day(m) \in Nat /\ Day(m) * DayLength =< m.onset
                        /\ m.onset < (Day(m) + 1) * DayLength
BY EpisodeAssumption, MessageFields, Z3 DEF Day

LEMMA Products ==
  \A i, j, d \in Nat : i =< j => i * d =< j * d
BY Z3

LEMMA DaysInOrder ==
  ASSUME NEW m \in Message, NEW n \in Message, n.onset =< m.onset
  PROVE  Day(n) =< Day(m)
<1>1. /\ Day(m) \in Nat /\ Day(n) \in Nat /\ DayLength \in Nat \ {0}
      /\ m.onset \in Nat /\ n.onset \in Nat
  BY DayFacts, EpisodeAssumption, MessageFields
<1>2. SUFFICES ASSUME Day(m) + 1 =< Day(n) PROVE FALSE
  BY <1>1
<1>3. (Day(m) + 1) * DayLength =< Day(n) * DayLength
  BY <1>1, <1>2, Products
<1>4. m.onset < n.onset
  BY <1>1, <1>3, DayFacts
<1> QED BY <1>1, <1>4

\* The order of windows is total on messages with places of their own.
LEMMA OrderTotal ==
  ASSUME NEW R \in SUBSET Message, \A m, n \in R : m.pos = n.pos => m = n,
         NEW m \in R, NEW n \in R, m # n
  PROVE  Before(m, n) \/ Before(n, m)
<1>1. m.pos # n.pos
  OBVIOUS
<1>2. /\ m.onset \in Nat /\ n.onset \in Nat /\ m.pos \in Nat /\ n.pos \in Nat
      /\ m.expires \in Nat \cup {None} /\ n.expires \in Nat \cup {None}
  BY MessageFields
<1>3. Edge(m) # Edge(n) => Sooner(Edge(m), Edge(n)) \/ Sooner(Edge(n), Edge(m))
  BY <1>2 DEF Edge, Instant, Sooner, None
<1> QED BY <1>1, <1>2, <1>3 DEF Before

\* Of two messages with one window, one is before the other, so the later
\* goes on with the earlier.
LEMMA SameWindowContinues ==
  ASSUME NEW now, NEW R, GroupOf("fmi", R, now), NEW b \in Starts("fmi", R),
         NEW c \in Starts("fmi", R), b.onset = c.onset, b.expires = c.expires
  PROVE  b = c
<1>1. /\ b \in Message /\ c \in Message /\ R \in SUBSET Message /\ b \in R /\ c \in R
  BY DEF GroupOf, Starts
<1>2. SUFFICES ASSUME b # c PROVE FALSE
  OBVIOUS
<1>3. Before(b, c) \/ Before(c, b)
  BY <1>1, <1>2, OrderTotal DEF GroupOf
<1>4. Reaches(b, c) /\ Reaches(c, b)
  BY <1>1 DEF GroupOf, Regular, Reaches
<1> QED BY <1>1, <1>3, <1>4 DEF Starts, Continues

\* Runs of one group have ids of their own.
LEMMA RunsApart ==
  ASSUME NEW s \in Dialects, NEW key, NEW now, NEW R, GroupOf(s, R, now),
         NEW b \in Starts(s, R), NEW c \in Starts(s, R),
         EpisodeId(s, key, R, b) = EpisodeId(s, key, R, c)
  PROVE  b = c
<1>1. b \in R /\ c \in R /\ R \in SUBSET Message
  BY DEF GroupOf, Starts
<1>2. (IF IsFirst(b, R) THEN <<>> ELSE WindowKey(s, b))
        = (IF IsFirst(c, R) THEN <<>> ELSE WindowKey(s, c))
  BY DEF EpisodeId
<1>3. WindowKey(s, b) # <<>> /\ WindowKey(s, c) # <<>>
  BY DEF WindowKey
<1>4. CASE IsFirst(b, R) /\ IsFirst(c, R)
  BY <1>1, <1>4, OrderTotal DEF IsFirst, GroupOf
<1>5. CASE ~IsFirst(b, R) /\ ~IsFirst(c, R)
  <2>1. WindowKey(s, b) = WindowKey(s, c)
    BY <1>2, <1>5
  <2>2. CASE s = "meteofrance"
    <3>1. Day(b) = Day(c)
      BY <2>1, <2>2 DEF WindowKey
    <3> QED BY <1>1, <2>2, <3>1 DEF GroupOf
  <2>3. CASE s = "fmi"
    <3>1. b.onset = c.onset /\ b.expires = c.expires
      BY <2>1, <2>3 DEF WindowKey
    <3> QED BY <2>3, <3>1, SameWindowContinues
  <2> QED BY <2>2, <2>3 DEF Dialects
<1> QED BY <1>2, <1>3, <1>4, <1>5

\* A run that has begun is the first: what came before has finished.
LEMMA BegunIsFirst ==
  ASSUME NEW s \in Dialects, NEW now \in Nat, NEW R, GroupOf(s, R, now),
         NEW b \in Starts(s, R), b.onset =< now
  PROVE  IsFirst(b, R)
<1>1. SUFFICES ASSUME NEW n \in R, Before(n, b) PROVE FALSE
  BY DEF IsFirst
<1>2. /\ b \in R /\ b \in Message /\ n \in Message /\ Regular(n) /\ n.sender = s
      /\ ~IsFinished(n, now) /\ ~Continues(s, b, R)
  BY DEF GroupOf, Starts
<1>3. /\ b.onset \in Nat /\ n.onset \in Nat /\ n.expires \in Nat \cup {None}
      /\ n.onset =< b.onset
  BY <1>1, <1>2, MessageFields DEF Before
<1>4. n.expires \in Nat /\ now < n.expires
  BY <1>2, <1>3 DEF Regular, IsFinished
<1>5. CASE s = "fmi"
  BY <1>1, <1>2, <1>3, <1>4, <1>5 DEF Continues, Reaches, None
<1>6. CASE s = "meteofrance"
  <2>1. Day(n) =< Day(b) /\ Day(n) \in Nat /\ Day(b) \in Nat
    BY <1>2, <1>3, DaysInOrder, DayFacts
  <2>2. Day(n) # Day(b) - 1
    BY <1>2, <1>6 DEF Continues
  <2>3. Day(n) # Day(b)
    <3>1. n # b
      BY <1>1, <1>3, <1>2 DEF Before, Sooner, Edge, Instant, None, Message
    <3> QED BY <1>2, <1>6, <3>1 DEF GroupOf
  <2>4. Day(n) + 2 =< Day(b)
    BY <2>1, <2>2, <2>3
  <2>5. (Day(n) + 2) * DayLength =< Day(b) * DayLength
    BY <2>1, <2>4, Products, EpisodeAssumption
  <2>6. n.expires =< (Day(n) + 2) * DayLength
    BY <1>2, <1>6 DEF Regular
  <2>7. Day(b) * DayLength =< b.onset
    BY <1>2, DayFacts
  <2>8. (Day(n) + 2) * DayLength \in Nat /\ Day(b) * DayLength \in Nat
    BY <2>1, EpisodeAssumption
  <2> QED BY <1>3, <1>4, <2>5, <2>6, <2>7, <2>8
<1> QED BY <1>5, <1>6 DEF Dialects

-----------------------------------------------------------------------------
(* The groups of a fetch are such members. *)

\* A message is exploded into one copy a region, so within a group the
\* copies keep places of their own.
LEMMA ExplodedApart ==
  ASSUME NEW M, IsFeed(M), NEW wanted \in SUBSET Regions,
         NEW m \in Explode(M, wanted), NEW n \in Explode(M, wanted),
         m.pos = n.pos, GroupKey(m) = GroupKey(n)
  PROVE  m = n
<1>1. CASE wanted = {}
  BY <1>1 DEF Explode, IsFeed
<1>2. CASE wanted # {}
  <2>1. PICK m0 \in M, r \in Regions : m = [m0 EXCEPT !.regions = {r}]
    BY <1>2 DEF Explode
  <2>2. PICK n0 \in M, q \in Regions : n = [n0 EXCEPT !.regions = {q}]
    BY <1>2 DEF Explode
  <2>3. m0 \in Message /\ n0 \in Message
    BY DEF IsFeed
  <2>4. m0.pos = n0.pos
    BY <2>1, <2>2, <2>3 DEF Message
  <2>5. m0 = n0
    BY <2>4 DEF IsFeed
  <2>6. m.regions = n.regions
    BY DEF GroupKey
  <2>7. {r} = {q}
    BY <2>1, <2>2, <2>3, <2>6 DEF Message
  <2> QED BY <2>1, <2>2, <2>5, <2>7
<1> QED BY <1>1, <1>2

LEMMA ExplodedMessages ==
  ASSUME NEW M, IsFeed(M), NEW wanted \in SUBSET Regions
  PROVE  Explode(M, wanted) \in SUBSET Message
<1>1. CASE wanted = {}
  BY <1>1 DEF Explode, IsFeed
<1>2. CASE wanted # {}
  <2> SUFFICES ASSUME NEW m \in Explode(M, wanted) PROVE m \in Message
    OBVIOUS
  <2>1. PICK m0 \in M, r \in Regions : m = [m0 EXCEPT !.regions = {r}]
    BY <1>2 DEF Explode
  <2> QED BY <2>1 DEF IsFeed, Message
<1> QED BY <1>1, <1>2

LEMMA GroupsAreMembers ==
  ASSUME NEW M, IsFeed(M), NEW wanted \in SUBSET Regions, NEW now \in Nat,
         NEW key, key[1] \in Dialects,
         \A m \in Explode(M, wanted) : Regular(m)
  PROVE  GroupOf(key[1], Members(key[1], Group(M, wanted, key, now)), now)
<1> DEFINE G == Group(M, wanted, key, now)
           R == Members(key[1], G)
<1>1. R \subseteq G
  BY DEF Members, ByDay
<1>2. G \subseteq Explode(M, wanted) /\ \A m \in G : GroupKey(m) = key
  BY DEF Group
<1>3. R \subseteq Message
  BY <1>1, <1>2, ExplodedMessages
<1>4. \A m, n \in R : m.pos = n.pos => m = n
  BY <1>1, <1>2, ExplodedApart
<1>5. \A m \in R : m.sender = key[1] /\ Regular(m) /\ ~IsFinished(m, now)
  BY <1>1, <1>2 DEF Group, GroupKey
<1>6. ASSUME key[1] = "meteofrance", NEW m \in R, NEW n \in R, Day(m) = Day(n)
      PROVE  m = n
  <2>1. SUFFICES ASSUME m # n PROVE FALSE
    OBVIOUS
  <2>2. m \in ByDay(G) /\ n \in ByDay(G)
    BY <1>6 DEF Members
  <2>3. Outranks(m, n) /\ Outranks(n, m)
    BY <1>6, <2>1, <2>2 DEF ByDay
  <2>4. /\ m.severity \in Nat /\ n.severity \in Nat /\ m.sent \in Nat /\ n.sent \in Nat
        /\ m.pos \in Nat /\ n.pos \in Nat
    BY <1>3, MessageFields
  <2> QED BY <2>3, <2>4 DEF Outranks
<1> QED BY <1>3, <1>4, <1>5, <1>6 DEF GroupOf

\* "Either way the runs must not collide on a single id, because the alert
\* store keys by id and would silently drop one" (_merge_episodes): two
\* episodes of a fetch that have one id are one run of one group.
THEOREM EpisodesApart ==
  ASSUME NEW M, IsFeed(M), NEW wanted \in SUBSET Regions, NEW now \in Nat,
         \A m \in Explode(M, wanted) : Regular(m),
         NEW k, NEW l, k[1] \in Dialects, l[1] \in Dialects,
         NEW b \in Starts(k[1], Members(k[1], Group(M, wanted, k, now))),
         NEW c \in Starts(l[1], Members(l[1], Group(M, wanted, l, now))),
         EpisodeId(k[1], k, Members(k[1], Group(M, wanted, k, now)), b)
           = EpisodeId(l[1], l, Members(l[1], Group(M, wanted, l, now)), c)
  PROVE  k = l /\ b = c
<1>1. k = l
  BY DEF EpisodeId
<1>2. GroupOf(k[1], Members(k[1], Group(M, wanted, k, now)), now)
  BY GroupsAreMembers
<1> QED BY <1>1, <1>2, RunsApart

\* "The earliest run keeps the window-free id", and a later one "churns only
\* the pending entity and never the one currently in effect": whatever else
\* two fetches list, and whenever they come, a message in effect at both is
\* shown under one id, that of its hazard and region alone.
THEOREM InEffectKeepsId ==
  ASSUME NEW key, key[1] \in Dialects, NEW wanted \in SUBSET Regions, NEW m,
         NEW M, IsFeed(M), \A x \in Explode(M, wanted) : Regular(x), NEW now \in Nat,
         NEW L, IsFeed(L), \A x \in Explode(L, wanted) : Regular(x), NEW later \in Nat,
         m.onset =< now, m.onset =< later,
         NEW b \in Starts(key[1], Members(key[1], Group(M, wanted, key, now))),
         m \in Run(key[1], Members(key[1], Group(M, wanted, key, now)), b),
         NEW c \in Starts(key[1], Members(key[1], Group(L, wanted, key, later))),
         m \in Run(key[1], Members(key[1], Group(L, wanted, key, later)), c)
  PROVE  /\ EpisodeId(key[1], key, Members(key[1], Group(M, wanted, key, now)), b)
              = EpisodeId(key[1], key, Members(key[1], Group(L, wanted, key, later)), c)
         /\ EpisodeId(key[1], key, Members(key[1], Group(M, wanted, key, now)), b)
              = [key |-> key, window |-> <<>>]
<1> DEFINE R(F, t) == Members(key[1], Group(F, wanted, key, t))
<1>1. ASSUME NEW F, IsFeed(F), \A x \in Explode(F, wanted) : Regular(x), NEW t \in Nat,
             m.onset =< t, NEW d \in Starts(key[1], R(F, t)), m \in Run(key[1], R(F, t), d)
      PROVE  IsFirst(d, R(F, t))
  <2>1. GroupOf(key[1], R(F, t), t)
    BY <1>1, GroupsAreMembers
  <2>2. m \in Message /\ d \in Message /\ ~Before(m, d)
    BY <1>1, <2>1 DEF GroupOf, Starts, Run
  <2>3. m.onset \in Nat /\ d.onset \in Nat /\ d.onset =< m.onset
    BY <2>2, MessageFields DEF Before
  <2>4. d.onset =< t
    BY <1>1, <2>3
  <2> QED BY <1>1, <2>1, <2>4, BegunIsFirst
<1>2. IsFirst(b, R(M, now)) /\ IsFirst(c, R(L, later))
  BY <1>1
<1> QED BY <1>2 DEF EpisodeId

-----------------------------------------------------------------------------
(* MeteoAlarm: the merge loses no warning and adds none, for feeds of any  *)
(* length.  What the merge chooses is the least of finitely many.          *)

\* A strict order has a least element on each finite set.
LEMMA FiniteHasLeast ==
  ASSUME NEW S, IsFiniteSet(S), S # {}, NEW lt,
         \A x \in S : <<x, x>> \notin lt,
         \A x, y, z \in S : <<x, y>> \in lt /\ <<y, z>> \in lt => <<x, z>> \in lt
  PROVE  \E x \in S : \A y \in S : <<y, x>> \notin lt
<1> DEFINE Bad == {T \in SUBSET S : T # {} /\ \A x \in T : \E y \in T : <<y, x>> \in lt}
<1>1. SUFFICES ASSUME Bad # {} PROVE FALSE
  BY DEF Bad
<1>2. Bad \subseteq FiniteSubsetsOf(S)
  BY FS_Subset DEF FiniteSubsetsOf
<1>3. PICK T \in Bad : \A U \in Bad : ~(<<U, T>> \in StrictSubsetOrdering(S))
  <2> HIDE DEF Bad
  <2> QED BY <1>1, <1>2, FS_StrictSubsetOrderingWellFounded, WFMin
<1>4. PICK x \in T : TRUE
  OBVIOUS
<1> DEFINE U == {y \in T : <<y, x>> \in lt}
<1>5. U # {} /\ \A y \in U : \E z \in U : <<z, y>> \in lt
  OBVIOUS
<1>6. U \in SUBSET S /\ U \subseteq T /\ U # T
  OBVIOUS
<1>7. U \in Bad
  <2> HIDE DEF U
  <2> QED BY <1>5, <1>6
<1>8. <<U, T>> \in StrictSubsetOrdering(S)
  <2> HIDE DEF U
  <2> QED BY <1>6 DEF StrictSubsetOrdering
<1> QED BY <1>3, <1>7, <1>8

\* Messages have an order of windows.
LEMMA BeforeIsStrict ==
  ASSUME NEW m \in Message, NEW n \in Message, NEW o \in Message
  PROVE  ~Before(m, m) /\ (Before(m, n) /\ Before(n, o) => Before(m, o))
<1>1. /\ m.onset \in Nat /\ n.onset \in Nat /\ o.onset \in Nat
      /\ m.pos \in Nat /\ n.pos \in Nat /\ o.pos \in Nat
      /\ m.expires \in Nat \cup {None} /\ n.expires \in Nat \cup {None}
      /\ o.expires \in Nat \cup {None}
  BY MessageFields
<1>2. /\ ~Sooner(Edge(m), Edge(m))
      /\ Sooner(Edge(m), Edge(n)) /\ Sooner(Edge(n), Edge(o)) => Sooner(Edge(m), Edge(o))
  BY <1>1 DEF Edge, Instant, Sooner, None
<1> QED BY <1>1, <1>2 DEF Before

\* Of finitely many messages one is before none and one is after none.
LEMMA Foremost ==
  ASSUME NEW S \in SUBSET Message, IsFiniteSet(S), S # {}
  PROVE  \E m \in S : \A n \in S : ~Before(n, m)
<1> DEFINE lt == {p \in Message \X Message : Before(p[1], p[2])}
<1>1. \A m, n \in Message : <<m, n>> \in lt <=> Before(m, n)
  OBVIOUS
<1> HIDE DEF lt
<1>2. /\ \A x \in S : <<x, x>> \notin lt
      /\ \A x, y, z \in S : <<x, y>> \in lt /\ <<y, z>> \in lt => <<x, z>> \in lt
  BY <1>1, BeforeIsStrict
<1>3. \E m \in S : \A n \in S : <<n, m>> \notin lt
  BY <1>2, FiniteHasLeast
<1> QED BY <1>1, <1>3

LEMMA Hindmost ==
  ASSUME NEW S \in SUBSET Message, IsFiniteSet(S), S # {}
  PROVE  \E m \in S : \A n \in S : ~Before(m, n)
<1> DEFINE lt == {p \in Message \X Message : Before(p[2], p[1])}
<1>1. \A m, n \in Message : <<m, n>> \in lt <=> Before(n, m)
  OBVIOUS
<1> HIDE DEF lt
<1>2. /\ \A x \in S : <<x, x>> \notin lt
      /\ \A x, y, z \in S : <<x, y>> \in lt /\ <<y, z>> \in lt => <<x, z>> \in lt
  BY <1>1, BeforeIsStrict
<1>3. \E m \in S : \A n \in S : <<n, m>> \notin lt
  BY <1>2, FiniteHasLeast
<1> QED BY <1>1, <1>3

\* One speaks for all: of the most severe the first.
LEMMA Dominant ==
  ASSUME NEW S \in SUBSET Message, IsFiniteSet(S), S # {}
  PROVE  \E m \in S : \A n \in S : Dominates(m, n)
<1> DEFINE Over(m, n) == m.severity > n.severity \/ (m.severity = n.severity /\ Before(m, n))
           lt == {p \in Message \X Message : Over(p[1], p[2])}
<1>1. \A m, n \in Message : <<m, n>> \in lt <=> Over(m, n)
  OBVIOUS
<1> HIDE DEF lt
<1>2. \A m \in Message : m.severity \in Nat
  BY MessageFields
<1>3. /\ \A x \in S : <<x, x>> \notin lt
      /\ \A x, y, z \in S : <<x, y>> \in lt /\ <<y, z>> \in lt => <<x, z>> \in lt
  <2>1. \A x \in S : ~Over(x, x)
    BY <1>2, BeforeIsStrict
  <2>2. \A x, y, z \in S : Over(x, y) /\ Over(y, z) => Over(x, z)
    BY <1>2, BeforeIsStrict
  <2> HIDE DEF Over
  <2> QED BY <1>1, <2>1, <2>2
<1>4. PICK m \in S : \A n \in S : <<n, m>> \notin lt
  BY <1>3, FiniteHasLeast
<1>5. \A n \in S : ~Over(n, m)
  BY <1>1, <1>4
<1>6. \A n \in S : Dominates(m, n)
  BY <1>2, <1>5 DEF Dominates
<1> QED BY <1>6

\* For each day of a group one message outranks the others.
LEMMA DayHasItsMessage ==
  ASSUME NEW G \in SUBSET Message, IsFiniteSet(G), NEW m \in G,
         \A x, y \in G : x.pos = y.pos => x = y
  PROVE  \E n \in ByDay(G) : Day(n) = Day(m) /\ n.severity >= m.severity
<1> DEFINE S == {n \in G : Day(n) = Day(m)}
           lt == {p \in Message \X Message : Outranks(p[1], p[2])}
<1>1. \A x, y \in Message : <<x, y>> \in lt <=> Outranks(x, y)
  OBVIOUS
<1>2. S \in SUBSET Message /\ S \in SUBSET G /\ m \in S /\ IsFiniteSet(S)
  BY FS_Subset
<1>3. \A x \in Message : x.severity \in Nat /\ x.sent \in Nat /\ x.pos \in Nat
  BY MessageFields
<1>4. \A x \in Message : ~Outranks(x, x)
  BY <1>3 DEF Outranks
<1>5. \A x, y, z \in Message : Outranks(x, y) /\ Outranks(y, z) => Outranks(x, z)
  BY <1>3 DEF Outranks
<1> HIDE DEF lt
<1>6. PICK n \in S : \A y \in S : <<y, n>> \notin lt
  <2> HIDE DEF S
  <2>1. /\ \A x \in S : <<x, x>> \notin lt
        /\ \A x, y, z \in S : <<x, y>> \in lt /\ <<y, z>> \in lt => <<x, z>> \in lt
    BY <1>1, <1>2, <1>4, <1>5
  <2> QED BY <1>2, <2>1, FiniteHasLeast
<1>7. \A y \in S \ {n} : Outranks(n, y)
  <2> SUFFICES ASSUME NEW y \in S \ {n} PROVE Outranks(n, y)
    OBVIOUS
  <2>1. ~Outranks(y, n) /\ y \in Message /\ n \in Message /\ y.pos # n.pos
    BY <1>1, <1>2, <1>6
  <2> QED BY <1>3, <2>1 DEF Outranks
<1>8. n \in ByDay(G) /\ Day(n) = Day(m)
  BY <1>7 DEF ByDay
<1>9. n.severity >= m.severity
  <2>1. m = n \/ Outranks(n, m)
    BY <1>2, <1>7
  <2> QED BY <1>2, <1>3, <2>1 DEF Outranks
<1> QED BY <1>8, <1>9

\* A group is finite with its feed: its members differ from messages of the
\* feed by the region they are for, and that is the group's.
LEMMA GroupFinite ==
  ASSUME NEW M, IsFeed(M), IsFiniteSet(M), NEW wanted \in SUBSET Regions,
         NEW key, NEW now
  PROVE  /\ IsFiniteSet(Group(M, wanted, key, now))
         /\ Group(M, wanted, key, now) \in SUBSET Message
         /\ \A x, y \in Group(M, wanted, key, now) : x.pos = y.pos => x = y
         /\ \A m \in Group(M, wanted, key, now) : m.sender = key[1]
<1> DEFINE G == Group(M, wanted, key, now)
           at == [m \in M |-> [m EXCEPT !.regions = key[3]]]
           Copies == {at[m] : m \in M}
<1>1. G \subseteq Explode(M, wanted) /\ \A m \in G : GroupKey(m) = key
  BY DEF Group
<1>2. G \in SUBSET Message
  BY <1>1, ExplodedMessages
<1>3. \A x, y \in G : x.pos = y.pos => x = y
  BY <1>1, ExplodedApart
<1>4. \A m \in G : m.sender = key[1] /\ m.regions = key[3]
  BY <1>1 DEF GroupKey
<1>5. IsFiniteSet(Copies)
  <2>1. at \in Surjection(M, Copies)
    BY DEF Surjection
  <2> HIDE DEF at, Copies
  <2> QED BY <2>1, FS_Surjection
<1>6. G \subseteq M \cup Copies
  <2>1. CASE wanted = {}
    BY <1>1, <2>1 DEF Explode
  <2>2. CASE wanted # {}
    <3> SUFFICES ASSUME NEW m \in G PROVE m \in Copies
      OBVIOUS
    <3>1. PICK m0 \in M, r \in Regions : m = [m0 EXCEPT !.regions = {r}]
      BY <1>1, <2>2 DEF Explode
    <3>2. m.regions = {r}
      BY <3>1 DEF IsFeed, Message
    <3>3. m = at[m0]
      BY <1>4, <3>1, <3>2
    <3> QED BY <3>3
  <2> QED BY <2>1, <2>2
<1>7. IsFiniteSet(M \cup Copies)
  <2> HIDE DEF Copies
  <2> QED BY <1>5, FS_Union
<1>8. IsFiniteSet(G)
  <2> HIDE DEF Copies, G
  <2> QED BY <1>6, <1>7, FS_Subset
<1> QED BY <1>2, <1>3, <1>4, <1>8

\* Each member of a group is in one of its runs and in no second.
LEMMA RunsPartition ==
  ASSUME NEW s \in Dialects, NEW R \in SUBSET Message, IsFiniteSet(R),
         \A x, y \in R : x.pos = y.pos => x = y, NEW r \in R
  PROVE  /\ \E b \in Starts(s, R) : r \in Run(s, R, b)
         /\ \A b, c \in Starts(s, R) : r \in Run(s, R, b) /\ r \in Run(s, R, c) => b = c
<1> DEFINE Past == {n \in R : ~Before(r, n)}
           Openers == {b \in Starts(s, R) : ~Before(r, b)}
<1>1. r \in Past /\ Past \in SUBSET Message /\ Past \in SUBSET R
  BY BeforeIsStrict
<1>2. Starts(s, R) \subseteq R
  BY DEF Starts
<1>3. PICK foremost \in Past : \A n \in Past : ~Before(n, foremost)
  <2>1. IsFiniteSet(Past)
    BY <1>1, FS_Subset
  <2> HIDE DEF Past
  <2> QED BY <1>1, <2>1, Foremost
<1>4. \A n \in R : ~Before(n, foremost)
  <2> SUFFICES ASSUME NEW n \in R, Before(n, foremost) PROVE FALSE
    OBVIOUS
  <2>1. Before(r, n)
    BY <1>3
  <2>2. Before(r, foremost)
    BY <1>1, <2>1, BeforeIsStrict
  <2> QED BY <2>2
<1>5. foremost \in Starts(s, R)
  <2>1. SUFFICES ASSUME Continues(s, foremost, R) PROVE FALSE
    BY DEF Starts
  <2>2. CASE s = "fmi"
    BY <1>4, <2>1, <2>2 DEF Continues
  <2>3. CASE s = "meteofrance"
    <3>1. PICK n \in R : Day(n) = Day(foremost) - 1
      BY <2>1, <2>3 DEF Continues
    <3>2. /\ n \in Message /\ foremost \in Message /\ n.onset \in Nat /\ foremost.onset \in Nat
          /\ Day(n) \in Nat /\ Day(foremost) \in Nat
      BY <1>1, DayFacts, MessageFields
    <3>3. n.onset < foremost.onset
      BY <3>1, <3>2, DaysInOrder
    <3> QED BY <1>4, <3>3 DEF Before
  <2> QED BY <2>2, <2>3 DEF Dialects
<1>6. PICK b \in Openers : \A c \in Openers : ~Before(b, c)
  <2>1. foremost \in Openers
    BY <1>5
  <2>2. Openers \in SUBSET Message /\ Openers \in SUBSET R
    BY <1>2
  <2>3. IsFiniteSet(Openers)
    BY <2>2, FS_Subset
  <2> HIDE DEF Openers
  <2> QED BY <2>1, <2>2, <2>3, Hindmost
<1>7. r \in Run(s, R, b)
  BY <1>6 DEF Run
<1>8. ASSUME NEW c \in Starts(s, R), NEW d \in Starts(s, R),
             r \in Run(s, R, c), r \in Run(s, R, d), c # d
      PROVE  FALSE
  <2>1. Before(c, d) \/ Before(d, c)
    BY <1>2, <1>8, OrderTotal
  <2> QED BY <1>8, <2>1 DEF Run
<1> QED BY <1>6, <1>7, <1>8

LEMMA EarliestIsOne ==
  ASSUME NEW T \in SUBSET Nat, T # {}
  PROVE  Earliest(T) \in T /\ \A u \in T : Earliest(T) =< u
<1> DEFINE Less == OpToRel(<, Nat)
<1>1. PICK t \in T : \A u \in T : ~(<<u, t>> \in Less)
  <2> HIDE DEF Less
  <2>1. IsWellFoundedOn(Less, Nat)
    BY NatLessThanWellFounded DEF Less
  <2> QED BY <2>1, WFMin
<1>2. \A u \in T : ~(u < t)
  BY <1>1 DEF OpToRel
<1>3. \A u \in T : t =< u
  BY <1>2
<1> QED BY <1>3 DEF Earliest

LEMMA LatestIsOne ==
  ASSUME NEW T \in SUBSET Nat, IsFiniteSet(T), T # {}
  PROVE  Latest(T) \in T /\ \A u \in T : Latest(T) >= u
<1> DEFINE lt == {p \in Nat \X Nat : p[1] > p[2]}
<1>1. \A t, u \in Nat : <<t, u>> \in lt <=> t > u
  OBVIOUS
<1> HIDE DEF lt
<1>2. /\ \A x \in T : <<x, x>> \notin lt
      /\ \A x, y, z \in T : <<x, y>> \in lt /\ <<y, z>> \in lt => <<x, z>> \in lt
  BY <1>1
<1>3. PICK t \in T : \A u \in T : <<u, t>> \notin lt
  BY <1>2, FiniteHasLeast
<1>4. \A u \in T : ~(u > t)
  BY <1>1, <1>3
<1>5. \A u \in T : t >= u
  BY <1>4
<1> QED BY <1>5 DEF Latest

LEMMA EndsFinite ==
  ASSUME NEW run, IsFiniteSet(run)
  PROVE  IsFiniteSet({m.expires : m \in run} \ {None})
<1> DEFINE end == [m \in run |-> m.expires]
           Ends == {m.expires : m \in run}
<1>1. end \in Surjection(run, Ends)
  BY DEF Surjection
<1> HIDE DEF end, Ends
<1>2. IsFiniteSet(Ends)
  BY <1>1, FS_Surjection
<1>3. IsFiniteSet(Ends \ {None})
  BY <1>2, FS_RemoveElement
<1> QED BY <1>3 DEF Ends

\* What the merge of a run chooses: its greatest severity, first onset and
\* last end, each that of a member.
LEMMA MergedRun ==
  ASSUME NEW s \in Dialects, NEW key, NEW R \in SUBSET Message, IsFiniteSet(R),
         NEW b \in Starts(s, R)
  PROVE  LET e == MergeRun(s, key, R, b)
             run == Run(s, R, b)
         IN  /\ e.id = EpisodeId(s, key, R, b)
             /\ \E m \in run : m.severity = e.severity
             /\ \E m \in run : m.onset = e.onset
             /\ \E m \in run : m.expires = e.expires
             /\ \A m \in run : /\ e.severity >= m.severity
                               /\ e.onset =< m.onset
                               /\ m.expires # None => e.expires >= m.expires
<1> DEFINE run == Run(s, R, b)
           onsets == {m.onset : m \in run}
           ends == {m.expires : m \in run} \ {None}
           e == MergeRun(s, key, R, b)
<1>1. /\ b \in run /\ run \in SUBSET R /\ run \in SUBSET Message /\ IsFiniteSet(run)
  <2>1. run \in SUBSET R
    BY DEF Run
  <2>2. b \in R
    BY DEF Starts
  <2>3. b \in run
    BY <2>2, BeforeIsStrict DEF Run
  <2>4. IsFiniteSet(run)
    <3> HIDE DEF run
    <3> QED BY <2>1, FS_Subset
  <2> QED BY <2>1, <2>3, <2>4
<1>2. /\ onsets \in SUBSET Nat /\ b.onset \in onsets
      /\ ends \in SUBSET Nat /\ None \notin ends
  <2>1. \A m \in run : m.onset \in Nat /\ m.expires \in Nat \cup {None}
    BY <1>1, MessageFields
  <2> HIDE DEF run
  <2> QED BY <1>1, <2>1
<1>3. /\ e.id = EpisodeId(s, key, R, b)
      /\ e.severity = (CHOOSE m \in run : \A n \in run : Dominates(m, n)).severity
      /\ e.onset = Earliest(onsets)
      /\ e.expires = IF ends = {} THEN None ELSE Latest(ends)
  BY DEF MergeRun
<1>4. PICK m \in run : /\ \A n \in run : Dominates(m, n)
                       /\ e.severity = m.severity
  <2> HIDE DEF run, e
  <2>1. \E m \in run : \A n \in run : Dominates(m, n)
    BY <1>1, Dominant
  <2> QED BY <1>3, <2>1
<1>5. \A n \in run : e.severity >= n.severity
  <2>1. \A n \in run : n.severity \in Nat
    BY <1>1, MessageFields
  <2> HIDE DEF run, e
  <2> QED BY <1>4, <2>1 DEF Dominates
<1>6. e.onset \in onsets /\ \A t \in onsets : e.onset =< t
  <2> HIDE DEF onsets, e
  <2> QED BY <1>2, <1>3, EarliestIsOne
<1>7. ends # {} => e.expires \in ends /\ \A t \in ends : e.expires >= t
  <2> HIDE DEF run
  <2>1. IsFiniteSet(ends)
    BY <1>1, EndsFinite
  <2> HIDE DEF ends, e
  <2> QED BY <1>2, <1>3, <2>1, LatestIsOne
<1>8. ends = {} => e.expires = None /\ \A n \in run : n.expires = None
  <2> HIDE DEF run, e
  <2> QED BY <1>3
<1>9. \A n \in run : n.expires # None => e.expires >= n.expires
  <2> HIDE DEF run, e
  <2> QED BY <1>7
<1>10. \E n \in run : n.expires = e.expires
  <2> HIDE DEF run, e
  <2>1. CASE ends = {}
    BY <1>1, <1>8, <2>1
  <2>2. CASE ends # {}
    BY <1>7, <2>2
  <2> QED BY <2>1, <2>2
<1>11. \E n \in run : n.onset = e.onset
  <2> HIDE DEF run, e
  <2> QED BY <1>6
<1> HIDE DEF run, e
<1>12. /\ e.id = EpisodeId(s, key, R, b)
       /\ \E n \in run : n.severity = e.severity
       /\ \E n \in run : n.onset = e.onset
       /\ \E n \in run : n.expires = e.expires
       /\ \A n \in run : /\ e.severity >= n.severity
                         /\ e.onset =< n.onset
                         /\ n.expires # None => e.expires >= n.expires
  <2> HIDE DEF onsets, ends
  <2>1. \A n \in run : n.onset \in onsets
    BY DEF onsets
  <2> QED BY <1>3, <1>4, <1>5, <1>6, <1>9, <1>10, <1>11, <2>1
<1> QED BY <1>12 DEF run, e

\* The episodes of a fetch are the merged runs of its groups.
LEMMA EpisodesOfGroups ==
  ASSUME NEW M, NEW wanted, NEW now, NEW e
  PROVE  e \in MergeEpisodes(M, wanted, now) <=>
           \E m \in Explode(M, wanted) :
             LET key == GroupKey(m)
                 R == Members(key[1], Group(M, wanted, key, now))
             IN  \E b \in Starts(key[1], R) : e = MergeRun(key[1], key, R, b)
BY DEF MergeEpisodes

LEMMA GroupMembers ==
  ASSUME NEW M, IsFeed(M), IsFiniteSet(M), NEW wanted \in SUBSET Regions,
         NEW key, NEW now
  PROVE  LET G == Group(M, wanted, key, now)
             R == Members(key[1], G)
         IN  /\ R \in SUBSET G /\ R \in SUBSET Message /\ IsFiniteSet(R)
             /\ \A x, y \in R : x.pos = y.pos => x = y
<1> DEFINE G == Group(M, wanted, key, now)
           R == Members(key[1], G)
<1>1. R \in SUBSET G
  BY DEF Members, ByDay
<1>2. /\ IsFiniteSet(G) /\ G \in SUBSET Message
      /\ \A x, y \in G : x.pos = y.pos => x = y
  BY GroupFinite
<1> HIDE DEF R, G
<1>3. IsFiniteSet(R)
  BY <1>1, <1>2, FS_Subset
<1>4. /\ R \in SUBSET G /\ R \in SUBSET Message /\ IsFiniteSet(R)
      /\ \A x, y \in R : x.pos = y.pos => x = y
  BY <1>1, <1>2, <1>3
<1> QED BY <1>4 DEF R, G

\* No live warning goes unshown, however many messages a feed has
\* (build_episode_alerts): an alert of its hazard and region is at least as
\* severe and begins by its day; by its window, and lasts as long, where
\* windows are kept apart; and where days are, as the day's own message says.
THEOREM LiveWarningsCovered ==
  ASSUME NEW M, IsFeed(M), IsFiniteSet(M), NEW wanted \in SUBSET Regions,
         NEW now \in Nat, NEW m \in Explode(M, wanted),
         IsLiveWarning(m), ~IsFinished(m, now)
  PROVE  \E e \in MergeEpisodes(M, wanted, now) :
           /\ e.id.key = GroupKey(m)
           /\ e.severity >= m.severity /\ Day(e) =< Day(m)
           /\ \E n \in Members(m.sender, Group(M, wanted, GroupKey(m), now)) :
                /\ m.sender = "fmi" => n = m
                /\ Day(n) = Day(m) /\ n.severity >= m.severity
                /\ e.onset =< n.onset
                /\ n.expires # None => e.expires >= n.expires
<1> DEFINE key == GroupKey(m)
           s == m.sender
           G == Group(M, wanted, key, now)
           R == Members(s, G)
<1>1. key[1] = s /\ m \in G
  BY DEF GroupKey, Group
<1>2. /\ R \in SUBSET G /\ R \in SUBSET Message /\ IsFiniteSet(R)
      /\ \A x, y \in R : x.pos = y.pos => x = y
  BY <1>1, GroupMembers
<1>3. /\ IsFiniteSet(G) /\ G \in SUBSET Message
      /\ \A x, y \in G : x.pos = y.pos => x = y
  BY GroupFinite
<1>4. m \in Message /\ s \in Dialects /\ m.severity \in Nat
  BY <1>1, <1>3, MessageFields
<1> HIDE DEF G
<1>5. PICK n \in R : (s = "fmi" => n = m) /\ Day(n) = Day(m) /\ n.severity >= m.severity
  <2>1. CASE s = "fmi"
    <3>1. m \in R
      BY <1>1, <2>1 DEF Members
    <3>2. m.severity >= m.severity
      BY <1>4
    <3> QED BY <3>1, <3>2
  <2>2. CASE s = "meteofrance"
    <3>1. R = ByDay(G)
      BY <2>2 DEF Members
    <3>2. \E n \in ByDay(G) : Day(n) = Day(m) /\ n.severity >= m.severity
      BY <1>1, <1>3, DayHasItsMessage
    <3> QED BY <2>2, <3>1, <3>2
  <2> QED BY <1>4, <2>1, <2>2 DEF Dialects
<1> HIDE DEF R
<1>6. PICK b \in Starts(s, R) : n \in Run(s, R, b)
  BY <1>2, <1>4, RunsPartition
<1> DEFINE e == MergeRun(s, key, R, b)
<1>7. /\ e.id = EpisodeId(s, key, R, b)
      /\ \E q \in Run(s, R, b) : q.severity = e.severity
      /\ \E q \in Run(s, R, b) : q.onset = e.onset
      /\ e.severity >= n.severity /\ e.onset =< n.onset
      /\ n.expires # None => e.expires >= n.expires
  BY <1>2, <1>4, <1>6, MergedRun
<1>8. e \in MergeEpisodes(M, wanted, now)
  BY <1>1, <1>6, EpisodesOfGroups DEF R, G
<1> HIDE DEF e
<1>9. e.id.key = key
  BY <1>7 DEF EpisodeId
<1>10. Day(e) =< Day(m) /\ e.severity >= m.severity
  <2>1. PICK q \in R : q.onset = e.onset
    BY <1>7 DEF Run
  <2>2. Day(q) =< Day(n)
    BY <1>2, <1>7, <2>1, DaysInOrder
  <2>3. Day(e) = Day(q)
    BY <2>1 DEF Day
  <2>4. PICK p \in R : p.severity = e.severity
    BY <1>7 DEF Run
  <2>5. p.severity \in Nat /\ n.severity \in Nat
    BY <1>2, MessageFields
  <2>6. e.severity >= m.severity
    BY <1>4, <1>5, <1>7, <2>4, <2>5
  <2>7. Day(e) =< Day(m)
    BY <1>5, <2>2, <2>3
  <2> QED BY <2>6, <2>7
<1> QED BY <1>5, <1>7, <1>8, <1>9, <1>10 DEF R, G

\* Nor does an alert claim more than a live message of its hazard and region
\* says, and none is over when it is made (_merge_episode_run).
THEOREM EpisodesGrounded ==
  ASSUME NEW M, IsFeed(M), IsFiniteSet(M), NEW wanted \in SUBSET Regions,
         NEW now \in Nat, NEW e \in MergeEpisodes(M, wanted, now)
  PROVE  /\ \E m \in Group(M, wanted, e.id.key, now) : m.severity = e.severity
         /\ \E m \in Group(M, wanted, e.id.key, now) : m.onset = e.onset
         /\ \E m \in Group(M, wanted, e.id.key, now) : m.expires = e.expires
         /\ ~IsFinished(e, now)
<1>1. PICK m \in Explode(M, wanted) :
        \E b \in Starts(GroupKey(m)[1],
                        Members(GroupKey(m)[1], Group(M, wanted, GroupKey(m), now))) :
          e = MergeRun(GroupKey(m)[1], GroupKey(m),
                       Members(GroupKey(m)[1], Group(M, wanted, GroupKey(m), now)), b)
  BY EpisodesOfGroups
<1> DEFINE key == GroupKey(m)
           s == key[1]
           G == Group(M, wanted, key, now)
           R == Members(s, G)
<1>2. PICK b \in Starts(s, R) : e = MergeRun(s, key, R, b)
  BY <1>1
<1>3. R \in SUBSET G /\ R \in SUBSET Message /\ IsFiniteSet(R)
  BY GroupMembers
<1>4. s \in Dialects
  <2>1. m \in Message
    BY ExplodedMessages
  <2> QED BY <2>1, MessageFields DEF GroupKey
<1> HIDE DEF key, s, G, R
<1>5. /\ e.id = EpisodeId(s, key, R, b)
      /\ \E q \in Run(s, R, b) : q.severity = e.severity
      /\ \E q \in Run(s, R, b) : q.onset = e.onset
      /\ \E q \in Run(s, R, b) : q.expires = e.expires
  BY <1>2, <1>3, <1>4, MergedRun
<1>6. e.id.key = key
  BY <1>5 DEF EpisodeId
<1>7. Run(s, R, b) \subseteq G
  BY <1>3 DEF Run
<1>8. \A q \in G : ~IsFinished(q, now)
  BY DEF G, Group
<1>9. ~IsFinished(e, now)
  BY <1>5, <1>7, <1>8 DEF IsFinished
<1> QED BY <1>5, <1>6, <1>7, <1>9 DEF G

-----------------------------------------------------------------------------
(* MeteoAlarm: the runs are what the loops of the code find.               *)

\* A recursion over 0..n has one solution.
LEMMA OneSolution ==
  ASSUME NEW n \in Nat, NEW f, NEW g, f[0] = g[0],
         \A i \in 1 .. n : f[i - 1] = g[i - 1] => f[i] = g[i]
  PROVE  f[n] = g[n]
<1> DEFINE Bad == {i \in 0 .. n : f[i] # g[i]}
           Order == OpToRel(<, Nat)
<1>1. SUFFICES ASSUME Bad # {} PROVE FALSE
  OBVIOUS
<1>2. PICK i \in Bad : \A j \in Bad : ~(<<j, i>> \in Order)
  <2>1. IsWellFoundedOn(Order, Nat)
    BY NatLessThanWellFounded
  <2>2. Bad \subseteq Nat
    OBVIOUS
  <2> HIDE DEF Order, Bad
  <2> QED BY <1>1, <2>1, <2>2, WFMin
<1>3. Bad \subseteq Nat /\ i \in Nat
  OBVIOUS
<1>4. ASSUME NEW j \in Bad PROVE ~(j < i)
  <2> HIDE DEF Bad
  <2>1. j \in Nat /\ i \in Nat
    BY <1>3
  <2>2. <<j, i>> \notin Order
    <3> HIDE DEF Order
    <3> QED BY <1>2
  <2> QED BY <2>1, <2>2 DEF OpToRel
<1>5. i \in 1 .. n
  OBVIOUS
<1>6. i - 1 \notin Bad /\ i - 1 \in 0 .. n
  BY <1>4, <1>5
<1> QED BY <1>5, <1>6

\* Members of one run rule: windows in a total order and, for MeteoFrance,
\* one message a day.
RunMembers(s, R) ==
  /\ R \subseteq Message /\ IsFiniteSet(R)
  /\ \A m, n \in R : m.pos = n.pos => m = n
  /\ s = "meteofrance" => \A m, n \in R : Day(m) = Day(n) => m = n

\* The order lists each member, every one at its place.
LEMMA OrderedFacts ==
  ASSUME NEW s, NEW R, RunMembers(s, R)
  PROVE  /\ Cardinality(R) \in Nat
         /\ Ordered(R) \in [1 .. Cardinality(R) -> R]
         /\ \A m \in R : \E i \in 1 .. Cardinality(R) : Ordered(R)[i] = m
         /\ \A i, j \in 1 .. Cardinality(R) :
              Before(Ordered(R)[i], Ordered(R)[j]) <=> i < j
<1> DEFINE c == Cardinality(R)
           Ahead(m) == {n \in R : Before(n, m)}
           place == [m \in R |-> Cardinality(Ahead(m)) + 1]
<1>1. R \in SUBSET Message /\ IsFiniteSet(R) /\ \A m, n \in R : m.pos = n.pos => m = n
  BY DEF RunMembers
<1>2. c \in Nat
  BY <1>1, FS_CardinalityType
<1>3. \A m \in R : /\ IsFiniteSet(Ahead(m)) /\ Cardinality(Ahead(m)) \in Nat
                   /\ Cardinality(Ahead(m)) + 1 =< c
  <2> SUFFICES ASSUME NEW m \in R
               PROVE  /\ IsFiniteSet(Ahead(m)) /\ Cardinality(Ahead(m)) \in Nat
                      /\ Cardinality(Ahead(m)) + 1 =< c
    OBVIOUS
  <2>1. Ahead(m) \in SUBSET R /\ m \notin Ahead(m)
    BY <1>1, BeforeIsStrict
  <2> HIDE DEF Ahead
  <2>2. IsFiniteSet(Ahead(m)) /\ Cardinality(Ahead(m)) =< c /\ Cardinality(Ahead(m)) # c
    BY <1>1, <2>1, FS_Subset
  <2>3. Cardinality(Ahead(m)) \in Nat
    BY <2>2, FS_CardinalityType
  <2> QED BY <1>2, <2>2, <2>3
<1>4. \A m, n \in R : Before(m, n) => Cardinality(Ahead(m)) < Cardinality(Ahead(n))
  <2> SUFFICES ASSUME NEW m \in R, NEW n \in R, Before(m, n)
               PROVE  Cardinality(Ahead(m)) < Cardinality(Ahead(n))
    OBVIOUS
  <2>1. Ahead(m) \in SUBSET Ahead(n) /\ m \in Ahead(n) /\ m \notin Ahead(m)
    BY <1>1, BeforeIsStrict
  <2> HIDE DEF Ahead
  <2>2. /\ Cardinality(Ahead(m)) =< Cardinality(Ahead(n))
        /\ Cardinality(Ahead(m)) # Cardinality(Ahead(n))
    BY <1>3, <2>1, FS_Subset
  <2> QED BY <1>3, <2>2
<1>5. \A m, n \in R : Cardinality(Ahead(m)) = Cardinality(Ahead(n)) => m = n
  <2> HIDE DEF Ahead
  <2>1. \A m, n \in R : m # n => Before(m, n) \/ Before(n, m)
    BY <1>1, OrderTotal
  <2> QED BY <1>3, <1>4, <2>1
<1>6. place \in Injection(R, 1 .. c)
  <2> HIDE DEF Ahead
  <2>1. place \in [R -> 1 .. c]
    BY <1>2, <1>3
  <2>2. \A m, n \in R : place[m] = place[n] => m = n
    BY <1>3, <1>5
  <2> HIDE DEF place
  <2> QED BY <2>1, <2>2 DEF Injection, IsInjective
<1>7. place \in Surjection(R, 1 .. c)
  <2>1. IsFiniteSet(1 .. c) /\ Cardinality(1 .. c) = c
    BY <1>2, FS_Interval
  <2> HIDE DEF place
  <2> QED BY <1>1, <1>6, <2>1, FS_Injection
<1>8. \A i \in 1 .. c : \E m \in R : Cardinality(Ahead(m)) = i - 1
  <2> SUFFICES ASSUME NEW i \in 1 .. c PROVE \E m \in R : Cardinality(Ahead(m)) = i - 1
    OBVIOUS
  <2>1. PICK m \in R : place[m] = i
    <3> HIDE DEF place
    <3> QED BY <1>7 DEF Surjection
  <2> HIDE DEF Ahead
  <2>2. Cardinality(Ahead(m)) + 1 = i
    BY <2>1
  <2>3. Cardinality(Ahead(m)) = i - 1
    BY <1>3, <2>2
  <2> QED BY <2>3
<1>9. Ordered(R) = [i \in 1 .. c |-> CHOOSE m \in R : Cardinality(Ahead(m)) = i - 1]
  BY DEF Ordered
<1> HIDE DEF Ahead, c
<1>10. \A i \in 1 .. c : Ordered(R)[i] \in R /\ Cardinality(Ahead(Ordered(R)[i])) = i - 1
  BY <1>8, <1>9
<1>11. Ordered(R) \in [1 .. c -> R]
  BY <1>9, <1>10
<1>12. ASSUME NEW m \in R PROVE \E i \in 1 .. c : Ordered(R)[i] = m
  <2>1. PICK i \in Int : i = Cardinality(Ahead(m)) + 1
    BY <1>3
  <2>2. i \in 1 .. c /\ Cardinality(Ahead(m)) = i - 1
    BY <1>2, <1>3, <2>1
  <2> QED BY <1>5, <1>10, <2>2
<1>13. ASSUME NEW i \in 1 .. c, NEW j \in 1 .. c
       PROVE  Before(Ordered(R)[i], Ordered(R)[j]) <=> i < j
  <2>1. PICK m \in R, n \in R : m = Ordered(R)[i] /\ n = Ordered(R)[j]
    BY <1>10
  <2>2. Cardinality(Ahead(m)) = i - 1 /\ Cardinality(Ahead(n)) = j - 1
    BY <1>10, <2>1
  <2>3. Before(m, n) => i < j
    BY <1>2, <1>4, <2>2
  <2>4. i < j => m # n
    BY <1>2, <2>2
  <2>5. m # n => Before(m, n) \/ Before(n, m)
    BY <1>1, OrderTotal
  <2>6. Before(n, m) => j < i
    BY <1>2, <1>4, <2>2
  <2>7. Before(m, n) <=> i < j
    BY <1>2, <2>3, <2>4, <2>5, <2>6
  <2> QED BY <2>1, <2>7
<1> QED BY <1>2, <1>11, <1>12, <1>13 DEF c

\* The run at hand when the messages up to q have been placed.
Begun(s, R, b, q) == {m \in Run(s, R, b) : ~Before(q, m)}
Opener(s, R, q) == CHOOSE b \in Starts(s, R) : q \in Run(s, R, b)
Loop(runs, opener, run) == [runs |-> runs, first |-> opener, run |-> run]
StartsBefore(s, R, b) == {c \in Starts(s, R) : Before(c, b)}
RunsFrom(s, R, B) == {<<b, Run(s, R, b)>> : b \in B}
Placed(s, R, q) ==
  Loop(RunsFrom(s, R, StartsBefore(s, R, Opener(s, R, q))), Opener(s, R, q),
       Begun(s, R, Opener(s, R, q), q))

\* q is the last member before m.
Precedes(R, q, m) ==
  Before(q, m) /\ \A x \in R : ~(Before(q, x) /\ Before(x, m))

LEMMA MemberFacts ==
  ASSUME NEW s \in Dialects, NEW R, RunMembers(s, R)
  PROVE  /\ R \in SUBSET Message /\ Starts(s, R) \in SUBSET R
         /\ \A m \in R : ~Before(m, m)
         /\ \A m, n, o \in R : Before(m, n) /\ Before(n, o) => Before(m, o)
         /\ \A m, n \in R : m # n => Before(m, n) \/ Before(n, m)
         /\ \A m, n \in R : Before(m, n) => m.onset =< n.onset
         /\ \A m \in R : m.onset \in Nat /\ m.expires \in Nat \cup {None}
<1>1. R \in SUBSET Message /\ \A m, n \in R : m.pos = n.pos => m = n
  BY DEF RunMembers
<1>2. Starts(s, R) \in SUBSET R
  BY DEF Starts
<1>3. /\ \A m \in R : ~Before(m, m)
      /\ \A m, n, o \in R : Before(m, n) /\ Before(n, o) => Before(m, o)
  BY <1>1, BeforeIsStrict
<1>4. \A m, n \in R : m # n => Before(m, n) \/ Before(n, m)
  BY <1>1, OrderTotal
<1>5. \A m \in R : m.onset \in Nat /\ m.expires \in Nat \cup {None}
  BY <1>1, MessageFields
<1>6. \A m, n \in R : Before(m, n) => m.onset =< n.onset
  BY <1>5 DEF Before
<1> QED BY <1>1, <1>2, <1>3, <1>4, <1>5, <1>6

\* A member has one opener; a start is its own.
LEMMA OpenerFacts ==
  ASSUME NEW s \in Dialects, NEW R, RunMembers(s, R), NEW q \in R
  PROVE  /\ Opener(s, R, q) \in Starts(s, R)
         /\ q \in Run(s, R, Opener(s, R, q))
         /\ \A b \in Starts(s, R) : q \in Run(s, R, b) => Opener(s, R, q) = b
         /\ q \in Starts(s, R) => q \in Run(s, R, q)
<1>1. /\ \E b \in Starts(s, R) : q \in Run(s, R, b)
      /\ \A b, c \in Starts(s, R) : q \in Run(s, R, b) /\ q \in Run(s, R, c) => b = c
  BY RunsPartition DEF RunMembers
<1>2. Opener(s, R, q) \in Starts(s, R) /\ q \in Run(s, R, Opener(s, R, q))
  BY <1>1 DEF Opener
<1>3. q \in Starts(s, R) => q \in Run(s, R, q)
  BY MemberFacts DEF Run
<1> QED BY <1>1, <1>2, <1>3

\* A message joins the run at hand where it starts none.
LEMMA JoinsUnlessStarts ==
  ASSUME NEW s \in Dialects, NEW R, RunMembers(s, R), NEW m \in R, NEW q \in R,
         Precedes(R, q, m)
  PROVE  Joins(s, m, Begun(s, R, Opener(s, R, q), q), q) <=> m \notin Starts(s, R)
<1> DEFINE b == Opener(s, R, q)
           run == Begun(s, R, b, q)
           ends == {x.expires : x \in run} \ {None}
<1>1. /\ R \in SUBSET Message /\ Starts(s, R) \in SUBSET R
      /\ \A x \in R : ~Before(x, x)
      /\ \A x, y, z \in R : Before(x, y) /\ Before(y, z) => Before(x, z)
      /\ \A x, y \in R : x # y => Before(x, y) \/ Before(y, x)
      /\ \A x, y \in R : Before(x, y) => x.onset =< y.onset
      /\ \A x \in R : x.onset \in Nat /\ x.expires \in Nat \cup {None}
  BY MemberFacts
<1>2. /\ Before(q, m)
      /\ \A x \in R : Before(x, m) => x = q \/ Before(x, q)
  BY <1>1 DEF Precedes
<1>3. b \in Starts(s, R) /\ b \in R /\ q \in Run(s, R, b)
  BY <1>1, OpenerFacts
<1>4. m \notin Starts(s, R) <=> Continues(s, m, R)
  BY DEF Starts
<1> HIDE DEF b
<1>5. q \in run /\ run \in SUBSET R
  BY <1>1, <1>3 DEF Begun, Run
<1>6. ASSUME s = "meteofrance" PROVE Joins(s, m, run, q) <=> m \notin Starts(s, R)
  <2>1. /\ \A x \in R : Day(x) \in Nat
        /\ \A x, y \in R : x.onset =< y.onset => Day(x) =< Day(y)
        /\ \A x, y \in R : Day(x) = Day(y) => x = y
    <3>1. \A x \in R : Day(x) \in Nat
      BY <1>1, DayFacts
    <3>2. \A x, y \in R : x.onset =< y.onset => Day(x) =< Day(y)
      BY <1>1, DaysInOrder
    <3> QED BY <1>6, <3>1, <3>2 DEF RunMembers
  <2>2. Joins(s, m, run, q) <=> Day(m) - Day(q) =< 1
    BY <1>6 DEF Joins
  <2>3. Day(q) < Day(m)
    <3>1. q # m
      BY <1>1, <1>2
    <3>2. Day(q) =< Day(m) /\ Day(q) # Day(m)
      BY <1>1, <1>2, <2>1, <3>1
    <3> QED BY <2>1, <3>2
  <2>4. ASSUME Day(m) - Day(q) =< 1 PROVE Continues(s, m, R)
    <3>1. Day(q) = Day(m) - 1
      BY <2>1, <2>3, <2>4
    <3> QED BY <1>6, <3>1 DEF Continues
  <2>5. ASSUME Continues(s, m, R) PROVE Day(m) - Day(q) =< 1
    <3>1. PICK n \in R : Day(n) = Day(m) - 1
      BY <1>6, <2>5 DEF Continues
    <3>2. n.onset < m.onset
      BY <1>1, <2>1, <3>1
    <3>3. n = q \/ Before(n, q)
      BY <1>2, <3>2 DEF Before
    <3>4. Day(n) =< Day(q)
      BY <1>1, <2>1, <3>3
    <3> QED BY <2>1, <3>1, <3>4
  <2> QED BY <1>4, <2>2, <2>4, <2>5
<1>7. ASSUME s = "fmi" PROVE Joins(s, m, run, q) <=> m \notin Starts(s, R)
  <2> HIDE DEF run
  <2>1. IsFiniteSet(run)
    BY <1>5, FS_Subset DEF RunMembers
  <2>2. IsFiniteSet(ends) /\ ends \in SUBSET Nat /\ None \notin Nat
    <3>1. ends \in SUBSET Nat
      BY <1>1, <1>5
    <3>2. None \notin Nat
      BY DEF None
    <3> QED BY <2>1, <3>1, <3>2, EndsFinite
  <2>3. Reach(run) = IF ends = {} THEN None ELSE Latest(ends)
    BY DEF Reach
  <2>4. ends # {} => Latest(ends) \in ends /\ \A t \in ends : Latest(ends) >= t
    <3> HIDE DEF ends
    <3> QED BY <2>2, LatestIsOne
  <2>5. Joins(s, m, run, q) <=> Reach(run) # None /\ m.onset =< Reach(run)
    BY <1>7 DEF Joins
  <2>6. Continues(s, m, R) <=> \E n \in R : Before(n, m) /\ Reaches(n, m)
    BY <1>7 DEF Continues
  <2>7. ASSUME Joins(s, m, run, q) PROVE Continues(s, m, R)
    <3>1. ends # {} /\ m.onset =< Latest(ends)
      BY <2>3, <2>5, <2>7
    <3>2. PICK n \in run : n.expires = Latest(ends) /\ n.expires # None
      BY <2>4, <3>1
    <3>3. n \in R /\ ~Before(q, n)
      BY <1>5 DEF run, Begun
    <3>4. Before(n, m)
      BY <1>1, <1>2, <3>3
    <3>5. Reaches(n, m)
      BY <1>1, <3>1, <3>2, <3>3 DEF Reaches
    <3> QED BY <2>6, <3>3, <3>4, <3>5
  <2>8. ASSUME Continues(s, m, R) PROVE Joins(s, m, run, q)
    <3>1. PICK n \in R : Before(n, m) /\ n.expires # None /\ n.expires >= m.onset
      BY <2>6, <2>8 DEF Reaches
    <3>2. ~Before(q, n)
      BY <1>1, <1>2, <3>1
    <3>3. ~Before(n, b)
      <4> SUFFICES ASSUME Before(n, b) PROVE FALSE
        OBVIOUS
      <4>1. ~Before(q, b)
        BY <1>3 DEF Run
      <4>2. b.onset =< m.onset
        BY <1>1, <1>2, <1>3, <4>1
      <4>3. Reaches(n, b)
        BY <1>1, <1>3, <3>1, <4>2 DEF Reaches
      <4> QED BY <1>3, <1>7, <4>3 DEF Starts, Continues
    <3>4. ASSUME NEW c \in Starts(s, R), Before(b, c) PROVE Before(n, c)
      <4>1. Before(q, c)
        BY <1>3, <3>4 DEF Run
      <4> QED BY <1>1, <3>2, <4>1
    <3>5. n \in run
      BY <3>2, <3>3, <3>4 DEF run, Begun, Run
    <3>6. n.expires \in ends
      BY <3>1, <3>5
    <3>7. ends # {} /\ Latest(ends) >= n.expires /\ Latest(ends) \in Nat
      BY <2>2, <2>4, <3>6
    <3>8. m.onset =< Latest(ends)
      BY <1>1, <3>1, <3>7
    <3> QED BY <2>2, <2>3, <2>5, <3>7, <3>8
  <2> QED BY <1>4, <2>7, <2>8
<1> QED BY <1>6, <1>7 DEF b, Dialects

LEMMA FirstPlaced ==
  ASSUME NEW s \in Dialects, NEW R, RunMembers(s, R), NEW q \in R, IsFirst(q, R)
  PROVE  Placed(s, R, q) = Loop({}, q, {q})
<1>1. /\ R \in SUBSET Message /\ Starts(s, R) \in SUBSET R
      /\ \A x \in R : ~Before(x, x)
      /\ \A x, y \in R : x # y => Before(x, y) \/ Before(y, x)
  BY MemberFacts
<1>2. \A x \in R : ~Before(x, q)
  BY DEF IsFirst
<1>3. PICK b \in Starts(s, R) : b = Opener(s, R, q) /\ q \in Run(s, R, b)
  BY OpenerFacts
<1>4. b = q
  BY <1>1, <1>2, <1>3 DEF Run
<1>5. StartsBefore(s, R, q) = {}
  BY <1>1, <1>2 DEF StartsBefore
<1>6. RunsFrom(s, R, {}) = {}
  BY DEF RunsFrom
<1>7. Begun(s, R, q, q) = {q}
  BY <1>1, <1>2, <1>3, <1>4 DEF Begun, Run
<1> QED BY <1>3, <1>4, <1>5, <1>6, <1>7 DEF Placed

LEMMA OneMoreRun ==
  ASSUME NEW s, NEW R, NEW B, NEW b
  PROVE  RunsFrom(s, R, B \cup {b}) = RunsFrom(s, R, B) \cup {<<b, Run(s, R, b)>>}
BY DEF RunsFrom

LEMMA LoopFields ==
  ASSUME NEW runs, NEW opener, NEW run
  PROVE  /\ Loop(runs, opener, run).runs = runs
         /\ Loop(runs, opener, run).first = opener
         /\ Loop(runs, opener, run).run = run
         /\ run # {} => Closed(Loop(runs, opener, run)) = runs \cup {<<opener, run>>}
         /\ run = {} => Closed(Loop(runs, opener, run)) = runs
BY DEF Loop, Closed

\* The next message goes where its run has it.
LEMMA NextPlaced ==
  ASSUME NEW s \in Dialects, NEW R, RunMembers(s, R), NEW m \in R, NEW q \in R,
         Precedes(R, q, m)
  PROVE  NextMessage(s, Placed(s, R, q), m, q) = Placed(s, R, m)
<1>1. /\ R \in SUBSET Message /\ Starts(s, R) \in SUBSET R
      /\ \A x \in R : ~Before(x, x)
      /\ \A x, y, z \in R : Before(x, y) /\ Before(y, z) => Before(x, z)
      /\ \A x, y \in R : x # y => Before(x, y) \/ Before(y, x)
  BY MemberFacts
<1>2. /\ Before(q, m)
      /\ \A x \in R : Before(x, m) => x = q \/ Before(x, q)
      /\ \A x \in R : Before(q, x) => x = m \/ Before(m, x)
  BY <1>1 DEF Precedes
<1>3. PICK b \in Starts(s, R) : b = Opener(s, R, q) /\ q \in Run(s, R, b)
  BY OpenerFacts
<1>4. PICK runs, run : /\ runs = RunsFrom(s, R, StartsBefore(s, R, b))
                       /\ run = Begun(s, R, b, q)
  OBVIOUS
<1>5. Placed(s, R, q) = Loop(runs, b, run)
  BY <1>3, <1>4 DEF Placed
<1>6. q \in run /\ run # {}
  BY <1>1, <1>3, <1>4 DEF Begun
<1>7. Joins(s, m, run, q) <=> m \notin Starts(s, R)
  BY <1>3, <1>4, JoinsUnlessStarts
<1>8. b \in R /\ ~Before(q, b) /\ \A c \in Starts(s, R) : Before(b, c) => Before(q, c)
  BY <1>1, <1>3 DEF Run
<1>9. Before(b, m)
  BY <1>1, <1>2, <1>8
<1>10. CASE m \notin Starts(s, R)
  <2>1. NextMessage(s, Loop(runs, b, run), m, q) = Loop(runs, b, run \cup {m})
    BY <1>6, <1>7, <1>10, LoopFields DEF NextMessage, Loop
  <2>2. m \in Run(s, R, b)
    BY <1>1, <1>2, <1>8, <1>9, <1>10 DEF Run
  <2>3. Opener(s, R, m) = b
    BY <2>2, OpenerFacts
  <2>4. Begun(s, R, b, m) = run \cup {m}
    <3>1. Run(s, R, b) \in SUBSET R
      BY DEF Run
    <3> QED BY <1>1, <1>2, <1>4, <2>2, <3>1 DEF Begun
  <2>5. Placed(s, R, m) = Loop(runs, b, run \cup {m})
    BY <1>4, <2>3, <2>4 DEF Placed
  <2> QED BY <1>5, <2>1, <2>5
<1>11. CASE m \in Starts(s, R)
  <2>1. NextMessage(s, Loop(runs, b, run), m, q)
          = Loop(runs \cup {<<b, run>>}, m, {m})
    <3>1. PICK at : at = Loop(runs, b, run)
      OBVIOUS
    <3>2. at.run = run /\ Closed(at) = runs \cup {<<b, run>>}
      BY <1>6, <3>1, LoopFields
    <3>3. NextMessage(s, at, m, q) = Loop(Closed(at), m, {m})
      BY <1>7, <1>11, <3>2 DEF NextMessage, Loop
    <3> QED BY <3>1, <3>2, <3>3
  <2>2. Opener(s, R, m) = m
    BY <1>11, OpenerFacts
  <2>3. run = Run(s, R, b)
    <3>1. \A x \in Run(s, R, b) : x \in R /\ Before(x, m)
      BY <1>9, <1>11 DEF Run
    <3>2. \A x \in Run(s, R, b) : ~Before(q, x)
      BY <1>1, <1>2, <3>1
    <3> QED BY <1>4, <3>2 DEF Begun
  <2>4. StartsBefore(s, R, m) = StartsBefore(s, R, b) \cup {b}
    <3>1. ASSUME NEW c \in Starts(s, R), Before(c, m) PROVE c = b \/ Before(c, b)
      BY <1>1, <1>2, <1>8, <3>1
    <3>2. ASSUME NEW c \in Starts(s, R), Before(c, b) PROVE Before(c, m)
      BY <1>1, <1>8, <1>9, <3>2
    <3> QED BY <1>9, <3>1, <3>2 DEF StartsBefore
  <2>5. RunsFrom(s, R, StartsBefore(s, R, m)) = runs \cup {<<b, run>>}
    BY <1>4, <2>3, <2>4, OneMoreRun
  <2>6. Begun(s, R, m, m) = {m}
    <3>1. m \in Run(s, R, m) /\ \A x \in Run(s, R, m) : x \in R /\ ~Before(x, m)
      BY <1>11, OpenerFacts DEF Run
    <3> QED BY <1>1, <3>1 DEF Begun
  <2>7. Placed(s, R, m) = Loop(runs \cup {<<b, run>>}, m, {m})
    BY <2>2, <2>5, <2>6 DEF Placed
  <2> QED BY <1>5, <2>1, <2>7
<1> QED BY <1>10, <1>11

\* With the last message the run at hand is the last.
LEMMA LastPlaced ==
  ASSUME NEW s \in Dialects, NEW R, RunMembers(s, R), NEW q \in R,
         \A x \in R : ~Before(q, x)
  PROVE  Closed(Placed(s, R, q)) = RunsFrom(s, R, Starts(s, R))
<1>1. /\ R \in SUBSET Message /\ Starts(s, R) \in SUBSET R
      /\ \A x, y \in R : x # y => Before(x, y) \/ Before(y, x)
  BY MemberFacts
<1>2. PICK b \in Starts(s, R) : b = Opener(s, R, q) /\ q \in Run(s, R, b)
  BY OpenerFacts
<1>3. Begun(s, R, b, q) = Run(s, R, b)
  BY DEF Begun, Run
<1>4. Starts(s, R) = StartsBefore(s, R, b) \cup {b}
  <2>1. ASSUME NEW c \in Starts(s, R), c # b PROVE Before(c, b)
    <3>1. ~Before(b, c)
      BY <1>1, <1>2 DEF Run
    <3> QED BY <1>1, <2>1, <3>1
  <2> QED BY <2>1 DEF StartsBefore
<1>5. PICK runs, run : /\ runs = RunsFrom(s, R, StartsBefore(s, R, b))
                       /\ run = Run(s, R, b)
  OBVIOUS
<1>6. Placed(s, R, q) = Loop(runs, b, run)
  BY <1>2, <1>3, <1>5 DEF Placed
<1>7. Closed(Loop(runs, b, run)) = runs \cup {<<b, run>>}
  BY <1>2, <1>5, LoopFields
<1>8. RunsFrom(s, R, Starts(s, R)) = runs \cup {<<b, run>>}
  BY <1>4, <1>5, OneMoreRun
<1> QED BY <1>6, <1>7, <1>8

\* Over the whole of a group the loop finds the runs.
LEMMA LoopFindsRuns ==
  ASSUME NEW s \in Dialects, NEW R, RunMembers(s, R)
  PROVE  /\ RunsLoop(s, R) = RunsFrom(s, R, Starts(s, R))
         /\ \A b \in R : IsFirst(b, R) <=> b = Ordered(R)[1]
<1>1. PICK n, o : n = Cardinality(R) /\ o = Ordered(R)
  OBVIOUS
<1>2. /\ n \in Nat /\ o \in [1 .. n -> R]
      /\ \A m \in R : \E i \in 1 .. n : o[i] = m
      /\ \A i, j \in 1 .. n : Before(o[i], o[j]) <=> i < j
  BY <1>1, OrderedFacts
<1> DEFINE Step(f, i) == IF i = 0 THEN Loop({}, None, {})
                         ELSE NextMessage(s, f[i - 1], o[i], o[i - 1])
           Turns(f) == f = [i \in 0 .. n |-> Step(f, i)]
           turns == CHOOSE f : Turns(f)
           closed == [i \in 0 .. n |-> IF i = 0 THEN Loop({}, None, {})
                                       ELSE Placed(s, R, o[i])]
<1>3. RunsLoop(s, R) = Closed(turns[n])
  BY <1>1 DEF RunsLoop, Loop
<1>4. ASSUME NEW i \in 1 .. n
      PROVE  NextMessage(s, closed[i - 1], o[i], o[i - 1]) = Placed(s, R, o[i])
  <2>1. CASE i = 1
    <3>1. closed[i - 1] = Loop({}, None, {})
      BY <1>2, <2>1
    <3>2. PICK at, q, m : at = Loop({}, None, {}) /\ q = o[0] /\ m = o[1]
      OBVIOUS
    <3>3. at.run = {} /\ Closed(at) = {}
      BY <3>2, LoopFields
    <3>4. NextMessage(s, at, m, q) = Loop({}, m, {m})
      BY <3>3 DEF NextMessage, Loop
    <3>5. IsFirst(m, R)
      <4>1. \A j \in 1 .. n : ~Before(o[j], o[1])
        BY <1>2, <2>1
      <4> QED BY <1>2, <3>2, <4>1 DEF IsFirst
    <3>6. Placed(s, R, m) = Loop({}, m, {m})
      <4>1. m \in R
        BY <1>2, <2>1, <3>2
      <4> QED BY <3>5, <4>1, FirstPlaced
    <3> QED BY <2>1, <3>1, <3>2, <3>4, <3>6
  <2>2. CASE i # 1
    <3>1. i - 1 \in 1 .. n /\ i - 1 # 0 /\ i - 1 \in 0 .. n /\ i - 1 < i
      BY <1>2, <2>2
    <3>2. closed[i - 1] = Placed(s, R, o[i - 1])
      BY <3>1
    <3>3. PICK m \in R, q \in R : m = o[i] /\ q = o[i - 1]
      BY <1>2, <3>1
    <3>4. Precedes(R, q, m)
      <4>1. Before(q, m)
        BY <1>2, <3>1, <3>3
      <4>2. ASSUME NEW j \in 1 .. n, Before(q, o[j]), Before(o[j], m) PROVE FALSE
        BY <1>2, <3>1, <3>3, <4>2
      <4> QED BY <1>2, <4>1, <4>2 DEF Precedes
    <3>5. NextMessage(s, Placed(s, R, q), m, q) = Placed(s, R, m)
      BY <3>4, NextPlaced
    <3> QED BY <3>2, <3>3, <3>5
  <2> QED BY <2>1, <2>2
<1>5. ASSUME NEW i \in 0 .. n
      PROVE  closed[i] = Step(closed, i)
  <2>1. CASE i = 0
    BY <2>1
  <2>2. CASE i # 0
    <3>1. i \in 1 .. n
      BY <1>2, <2>2
    <3>2. closed[i] = Placed(s, R, o[i])
      BY <2>2
    <3>3. Step(closed, i) = NextMessage(s, closed[i - 1], o[i], o[i - 1])
      BY <2>2
    <3> HIDE DEF closed, Step
    <3> QED BY <1>4, <3>1, <3>2, <3>3
  <2> QED BY <2>1, <2>2
<1>6. Turns(closed)
  <2> HIDE DEF Step
  <2> QED BY <1>5
<1>7. Turns(turns)
  <2> HIDE DEF Turns, closed
  <2> QED BY <1>6
<1> HIDE DEF turns
<1>8. turns[0] = closed[0]
  <2>1. 0 \in 0 .. n
    BY <1>2
  <2>2. turns[0] = Step(turns, 0)
    BY <1>7, <2>1
  <2>3. closed[0] = Step(closed, 0)
    BY <1>5, <2>1
  <2> QED BY <2>2, <2>3
<1>9. ASSUME NEW i \in 1 .. n, turns[i - 1] = closed[i - 1]
      PROVE  turns[i] = closed[i]
  <2>1. i \in 0 .. n /\ i # 0
    BY <1>2
  <2>2. turns[i] = NextMessage(s, turns[i - 1], o[i], o[i - 1])
    BY <1>7, <2>1
  <2>3. closed[i] = NextMessage(s, closed[i - 1], o[i], o[i - 1])
    BY <1>5, <2>1
  <2> QED BY <1>9, <2>2, <2>3
<1>10. turns[n] = closed[n]
  <2> HIDE DEF closed
  <2> QED BY <1>2, <1>8, <1>9, OneSolution
<1>11. Closed(closed[n]) = RunsFrom(s, R, Starts(s, R))
  <2>1. CASE n = 0
    <3>1. R = {}
      BY <1>2, <2>1
    <3>2. Starts(s, R) = {}
      BY <3>1 DEF Starts
    <3>3. RunsFrom(s, R, {}) = {}
      BY DEF RunsFrom
    <3>4. closed[n] = Loop({}, None, {})
      BY <1>2, <2>1
    <3> HIDE DEF closed
    <3> QED BY <3>2, <3>3, <3>4, LoopFields
  <2>2. CASE n # 0
    <3>1. n \in 1 .. n /\ n \in 0 .. n
      BY <1>2, <2>2
    <3>2. closed[n] = Placed(s, R, o[n])
      BY <2>2, <3>1
    <3>3. o[n] \in R /\ \A x \in R : ~Before(o[n], x)
      <4>1. \A j \in 1 .. n : ~Before(o[n], o[j])
        BY <1>2, <3>1
      <4> QED BY <1>2, <3>1, <4>1
    <3> HIDE DEF closed
    <3> QED BY <3>2, <3>3, LastPlaced
  <2> QED BY <2>1, <2>2
<1>12. ASSUME NEW b \in R PROVE IsFirst(b, R) <=> b = o[1]
  <2>1. PICK i \in 1 .. n : o[i] = b
    BY <1>2
  <2>2. 1 \in 1 .. n /\ o[1] \in R
    BY <1>2
  <2>3. IsFirst(b, R) => i = 1
    BY <1>2, <2>1, <2>2 DEF IsFirst
  <2>4. \A j \in 1 .. n : ~Before(o[j], o[1])
    BY <1>2, <2>2
  <2>5. IsFirst(o[1], R)
    BY <1>2, <2>4 DEF IsFirst
  <2> QED BY <2>1, <2>3, <2>5
<1> HIDE DEF closed
<1> QED BY <1>1, <1>3, <1>10, <1>11, <1>12

\* _calendar_day_runs and _contiguous_window_runs, which put one message after
\* the other into the run at hand or a new one, find the runs of Episodes in
\* every feed, each beginning with the message that its id is made of, and the
\* run that keeps the id without a window is the one they find first.
THEOREM RunsFollowTheLoops ==
  ASSUME NEW M, IsFeed(M), IsFiniteSet(M), NEW wanted \in SUBSET Regions,
         NEW now \in Nat, NEW key, key[1] \in Dialects
  PROVE  LET R == Members(key[1], Group(M, wanted, key, now))
         IN  /\ RunsLoop(key[1], R) = {<<b, Run(key[1], R, b)>> : b \in Starts(key[1], R)}
             /\ \A b \in Starts(key[1], R) : IsFirst(b, R) <=> b = Ordered(R)[1]
<1> DEFINE G == Group(M, wanted, key, now)
           R == Members(key[1], G)
<1>1. /\ R \in SUBSET G /\ R \in SUBSET Message /\ IsFiniteSet(R)
      /\ \A x, y \in R : x.pos = y.pos => x = y
  BY GroupMembers
<1>2. ASSUME key[1] = "meteofrance", NEW m \in R, NEW n \in R, Day(m) = Day(n)
      PROVE  m = n
  <2>1. m \in ByDay(G) /\ n \in ByDay(G)
    BY <1>2 DEF Members
  <2>2. m # n => Outranks(m, n) /\ Outranks(n, m)
    BY <1>2, <2>1 DEF ByDay
  <2>3. /\ m.severity \in Nat /\ n.severity \in Nat /\ m.sent \in Nat /\ n.sent \in Nat
        /\ m.pos \in Nat /\ n.pos \in Nat
    BY <1>1, MessageFields
  <2> QED BY <2>2, <2>3 DEF Outranks
<1>3. RunMembers(key[1], R)
  BY <1>1, <1>2 DEF RunMembers
<1> HIDE DEF R
<1>4. /\ RunsLoop(key[1], R) = {<<b, Run(key[1], R, b)>> : b \in Starts(key[1], R)}
      /\ \A b \in Starts(key[1], R) : IsFirst(b, R) <=> b = Ordered(R)[1]
  BY <1>3, LoopFindsRuns DEF RunsFrom, Starts
<1> QED BY <1>4 DEF R

-----------------------------------------------------------------------------
(* WMO: the prefilter is an optimisation: an entry narrowed by it shows    *)
(* what it would show if every body were read.                             *)

\* "Both are the same GB/T 2260 code" (_prefilter_by_guid): a guid that has
\* an area code has that of each geocode of the body, and the body has some.
SameCode(item) ==
  item.shaped =>
    /\ Len(item.area) = AreaWidth
    /\ item.codes # {}
    /\ \A code \in item.codes : StartsWith(code, item.area)

\* A prefix within the area code matches the code when it matches the area.
LEMMA PrefixOfArea ==
  ASSUME NEW code \in Code, NEW area \in Code, NEW p \in Code,
         StartsWith(code, area), Len(p) =< Len(area)
  PROVE  StartsWith(code, p) <=> StartsWith(area, p)
<1>1. Len(p) \in Nat /\ Len(area) \in Nat /\ Len(code) \in Nat
  BY DEF Code
<1>2. /\ Len(area) =< Len(code)
      /\ \A k \in 1..Len(area) : code[k] = area[k]
  BY DEF StartsWith
<1>3. 1..Len(p) \subseteq 1..Len(area) /\ Len(p) =< Len(code)
  BY <1>1, <1>2
<1>4. \A k \in 1..Len(p) : code[k] = area[k]
  BY <1>2, <1>3
<1> QED BY <1>3, <1>4 DEF StartsWith

\* "The optimization can only ever be lossless" (_prefilter_by_guid): the
\* alerts of an entry with prefixes are those of its feed with every body
\* read, given that guids carry the body's area code and that no envelope
\* expires before its body.
THEOREM PrefilterIsLossless ==
  ASSUME NEW items \in SUBSET FeedItem, NEW prefixes \in SUBSET Code,
         \A item \in items : SameCode(item) /\ (item.past => item.over)
  PROVE  FilterByPrefixes(Alerts(items, prefixes), prefixes)
           = FilterByPrefixes({item \in items : item.linked /\ DocIsLive(item)},
                              prefixes)
<1> DEFINE every == {item \in items : item.linked /\ DocIsLive(item)}
<1>1. PrefilterByGuid(items, prefixes) \subseteq items
  BY DEF PrefilterByGuid, InArea
<1>2. Alerts(items, prefixes)
        = {item \in PrefilterByGuid(items, prefixes) : item.linked /\ DocIsLive(item)}
  BY <1>1 DEF Alerts, ParseFeedLinks, DocIsLive
<1>3. CASE PrefilterByGuid(items, prefixes) = items
  BY <1>2, <1>3
<1>4. CASE PrefilterByGuid(items, prefixes) # items
  <2>1. /\ Trusted(prefixes)
        /\ \A item \in items : item.shaped
        /\ PrefilterByGuid(items, prefixes) = InArea(items, prefixes)
    BY <1>4 DEF PrefilterByGuid
  <2>2. \A item \in items : MatchesPrefixes(item, prefixes) => item \in InArea(items, prefixes)
    <3> SUFFICES ASSUME NEW item \in items, MatchesPrefixes(item, prefixes)
                 PROVE  \E p \in prefixes : StartsWith(item.area, p)
      BY DEF InArea
    <3>1. PICK code \in item.codes, p \in prefixes : StartsWith(code, p)
      BY DEF MatchesPrefixes
    <3>2. code \in Code /\ item.area \in Code /\ p \in Code
      BY DEF FeedItem
    <3>3. StartsWith(code, item.area) /\ Len(p) =< Len(item.area)
      BY <2>1, <3>1 DEF SameCode, Trusted
    <3> QED BY <3>1, <3>2, <3>3, PrefixOfArea
  <2>3. prefixes # {}
    BY <2>1 DEF Trusted
  <2> QED BY <1>1, <1>2, <2>1, <2>2, <2>3 DEF FilterByPrefixes
<1> QED BY <1>3, <1>4

\* Nor does it fail a poll that would not have failed: bodies with area codes
\* in their guids have codes, so that a batch without any is a source's.
THEOREM PrefilterFailsNothing ==
  ASSUME NEW items \in SUBSET FeedItem, NEW prefixes \in SUBSET Code,
         \A item \in items : SameCode(item) /\ (item.past => item.over),
         FilterFails(Alerts(items, prefixes), prefixes)
  PROVE  FilterFails({item \in items : item.linked /\ DocIsLive(item)}, prefixes)
<1>1. PrefilterByGuid(items, prefixes) \subseteq items
  BY DEF PrefilterByGuid, InArea
<1>2. Alerts(items, prefixes)
        = {item \in PrefilterByGuid(items, prefixes) : item.linked /\ DocIsLive(item)}
  BY <1>1 DEF Alerts, ParseFeedLinks, DocIsLive
<1>3. PICK item \in Alerts(items, prefixes) : item.codes = {}
  BY DEF FilterFails
<1>4. item \in items /\ ~item.shaped
  BY <1>1, <1>2, <1>3 DEF SameCode
<1>5. PrefilterByGuid(items, prefixes) = items
  BY <1>4 DEF PrefilterByGuid
<1> QED BY <1>2, <1>5 DEF FilterFails
=============================================================================
