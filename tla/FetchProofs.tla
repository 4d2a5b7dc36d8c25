----------------------------- MODULE FetchProofs ------------------------------
(***************************************************************************)
(* Proofs about what the providers fetch.  The content cache that they     *)
(* share (CapContentCache), for any number of callers and URLs, any sizes  *)
(* and any budget, with and without cancelled owners; and what an NWS      *)
(* entry's provider asks for between its polls (SourcePolls), for any      *)
(* alerts, options, failures and bounds.                                   *)
(***************************************************************************)
EXTENDS CapContentCache, SourcePolls, ByteLRUProofs

Fetches(c) == call[c].pc \in {"fetching", "reading"}
Unsettled(c) == call[c].pc \in {"fetching", "reading", "waiting"}

CallsTyped ==
  /\ inflight \in [Url -> Caller \cup {Nobody}]
  /\ call \in [Caller -> CallRecord]
  /\ host \in [Url -> {"live", "archived", "gone"}]

\* What a caller will know of the host: nothing older than the fetch it shares.
FetchKnows ==
  /\ \A c \in Caller : Unsettled(c) /\ host[call[c].url] = "live" => call[c].servedSince
  /\ \A c \in Caller : call[c].pc = "reading" => call[c].servedSince
  /\ \A c \in Caller : call[c].pc = "waiting" =>
       call[inflight[call[c].url]].servedSince = call[c].servedSince

CacheInv == CallsTyped /\ FetchShared /\ FetchKnows /\ WithdrawalSeen

-----------------------------------------------------------------------------
LEMMA FreeType == Free \in CallRecord
  BY UrlAssumption DEF Free, CallRecord, Result

LEMMA InitCacheInv == Init => CacheInv
<1> SUFFICES ASSUME Init PROVE CacheInv
  OBVIOUS
<1>1. CallsTyped
  BY FreeType DEF Init, CallsTyped
<1>2. \A c \in Caller : call[c].pc = "idle"
  BY DEF Init, Free
<1>3. FetchShared
  BY <1>2, CallerAssumption DEF Init, FetchShared
<1>4. FetchKnows /\ WithdrawalSeen
  BY <1>2 DEF FetchKnows, WithdrawalSeen, Unsettled
<1> QED
  BY <1>1, <1>3, <1>4 DEF CacheInv

\* Whoever waits on a URL waits on one caller, which is fetching it.
LEMMA OwnerFacts ==
  ASSUME CacheInv, NEW w \in Caller, call[w].pc = "waiting"
  PROVE  /\ inflight[call[w].url] \in Caller
         /\ Fetches(inflight[call[w].url])
         /\ call[inflight[call[w].url]].url = call[w].url
<1>1. call[w].url \in Url
  BY DEF CacheInv, CallsTyped, CallRecord
<1>2. inflight[call[w].url] \in Caller
  BY <1>1 DEF CacheInv, CallsTyped, FetchShared
<1> QED
  BY <1>1, <1>2 DEF CacheInv, FetchShared, Fetches

\* The end of a fetch keeps the bookkeeping, whatever it is; and what a caller
\* is handed is true of the host if it is true for the fetch's owner.
LEMMA SettleInv ==
  ASSUME CacheInv, NEW c \in Caller, Fetches(c),
         NEW own \in Result, NEW shared \in Result, NEW unanswered \in BOOLEAN,
         own = "body" => shared = "body",
         shared = "body" => call[c].servedSince \/ unanswered,
         Settle(c, own, shared, unanswered)
  PROVE  CacheInv'
<1> DEFINE url == call[c].url
<1> USE DEF CacheInv
<1>1. url \in Url /\ inflight[url] = c
  BY DEF CallsTyped, CallRecord, FetchShared, Fetches
<1>2. /\ call' = [w \in Caller |-> IF w = c THEN Done(w, own, unanswered)
                    ELSE IF w \in Waiters(url) THEN Done(w, shared, unanswered)
                    ELSE call[w]]
      /\ inflight' = [inflight EXCEPT ![url] = Nobody]
      /\ host' = host
  BY DEF Settle
<1>3. ASSUME NEW w \in Caller, NEW result \in Result
      PROVE  /\ Done(w, result, unanswered) \in CallRecord
             /\ Done(w, result, unanswered).pc = "done"
             /\ Done(w, result, unanswered).url = call[w].url
             /\ Done(w, result, unanswered).result = result
             /\ Done(w, result, unanswered).unanswered = unanswered
             /\ Done(w, result, unanswered).servedSince = call[w].servedSince
  BY DEF Done, CallsTyped, CallRecord
<1>4. CallsTyped'
  <2>1. call' \in [Caller -> CallRecord]
    BY <1>2, <1>3 DEF CallsTyped
  <2>2. inflight' \in [Url -> Caller \cup {Nobody}]
    BY <1>2 DEF CallsTyped
  <2> QED
    BY <1>2, <2>1, <2>2 DEF CallsTyped
<1> DEFINE ends == {c} \cup Waiters(url)
<1>5. /\ \A w \in Caller \ ends : call'[w] = call[w]
      /\ \A w \in ends : call'[w].pc = "done" /\ call'[w].url = url
      /\ ends \subseteq Caller
  BY <1>2, <1>3 DEF Waiters
<1>6. \A u \in Url : inflight'[u] = IF u = url THEN Nobody ELSE inflight[u]
  BY <1>1, <1>2 DEF CallsTyped
<1>7. \A w \in Caller \ ends : Unsettled(w) => call[w].url # url
  BY <1>1 DEF FetchShared, Waiters, Unsettled
<1>8. FetchShared'
  <2>1. ASSUME NEW w \in Caller, NEW u \in Url
        PROVE  inflight'[u] = w <=> call'[w].pc \in {"fetching", "reading"} /\ call'[w].url = u
    <3>1. CASE w \in ends
      BY <1>1, <1>5, <1>6, <3>1, CallerAssumption DEF FetchShared, Waiters
    <3>2. CASE w \notin ends
      BY <1>1, <1>5, <1>6, <1>7, <3>2, CallerAssumption DEF FetchShared, Unsettled
    <3> QED
      BY <3>1, <3>2
  <2>2. ASSUME NEW w \in Caller, call'[w].pc = "waiting"
        PROVE  inflight'[call'[w].url] # Nobody
    <3>1. w \notin ends /\ call'[w] = call[w] /\ call[w].url # url /\ call[w].url \in Url
      BY <1>5, <1>7, <2>2 DEF Unsettled, CallsTyped, CallRecord
    <3> QED
      BY <1>6, <2>2, <3>1 DEF FetchShared
  <2> QED
    BY <2>1, <2>2 DEF FetchShared
<1>9. FetchKnows'
  <2>1. \A w \in Caller : Unsettled(w)' => w \notin ends /\ Unsettled(w) /\ call'[w] = call[w]
    BY <1>5 DEF Unsettled
  <2>2. \A w \in Caller : Unsettled(w)' /\ host'[call'[w].url] = "live" => call'[w].servedSince
    BY <1>2, <2>1 DEF FetchKnows
  <2>3. \A w \in Caller : call'[w].pc = "reading" => call'[w].servedSince
    BY <2>1 DEF FetchKnows, Unsettled
  <2>4. ASSUME NEW w \in Caller, call'[w].pc = "waiting"
        PROVE  call'[inflight'[call'[w].url]].servedSince = call'[w].servedSince
    <3>1. w \notin ends /\ call'[w] = call[w] /\ call[w].url # url /\ call[w].url \in Url
      BY <1>7, <2>1, <2>4 DEF Unsettled, CallsTyped, CallRecord
    <3>2. inflight'[call'[w].url] = inflight[call[w].url]
      BY <1>6, <3>1
    <3>3. inflight[call[w].url] \in Caller /\ Fetches(inflight[call[w].url])
          /\ call[inflight[call[w].url]].url # url
      BY <2>4, <3>1, OwnerFacts
    <3>4. inflight[call[w].url] \notin ends
      BY <3>3 DEF Waiters
    <3> QED
      BY <1>5, <2>4, <3>1, <3>2, <3>3, <3>4 DEF FetchKnows
  <2> QED
    BY <2>2, <2>3, <2>4 DEF FetchKnows
<1>10. WithdrawalSeen'
  <2>1. ASSUME NEW w \in Waiters(url), shared = "body"
        PROVE  call[w].servedSince \/ unanswered
    BY <1>1, <2>1 DEF FetchKnows, Waiters
  <2>2. ASSUME NEW w \in Caller, call'[w].pc = "done", call'[w].result = "body",
               call'[w].url \in Revalidated
        PROVE  call'[w].servedSince \/ call'[w].unanswered
    <3>1. CASE w = c
      BY <1>2, <1>3, <2>2, <3>1
    <3>2. CASE w # c /\ w \in Waiters(url)
      BY <1>2, <1>3, <2>1, <2>2, <3>2
    <3>3. CASE w \notin ends
      BY <1>5, <2>2, <3>3 DEF WithdrawalSeen
    <3> QED
      BY <3>1, <3>2, <3>3
  <2> QED
    BY <2>2 DEF WithdrawalSeen
<1> QED
  BY <1>4, <1>8, <1>9, <1>10

\* A call begins: it is served, joins a fetch, or starts one.
LEMMA CallingInv ==
  ASSUME CacheInv, NEW c \in Caller, NEW url \in Url,
         Hit(c, url) \/ Join(c, url) \/ Request(c, url)
  PROVE  CacheInv'
<1> USE DEF CacheInv
<1>1. /\ call[c].pc = "idle" /\ host' = host
      /\ \A w \in Caller : inflight[call[w].url] = c => call[w].pc # "waiting"
  <2>1. call[c].pc = "idle" /\ host' = host
    BY DEF Hit, Join, Request
  <2> QED
    BY <2>1, OwnerFacts DEF Fetches
<1>2. PICK record \in CallRecord :
        /\ call' = [call EXCEPT ![c] = record] /\ record.url = url
        /\ \/ /\ record.pc = "done" /\ inflight' = inflight /\ url \notin Revalidated
           \/ /\ record.pc = "waiting" /\ inflight' = inflight /\ inflight[url] # Nobody
              /\ record.servedSince = call[inflight[url]].servedSince
           \/ /\ record.pc = "fetching" /\ inflight' = [inflight EXCEPT ![url] = c]
              /\ inflight[url] = Nobody /\ record.servedSince = (host[url] = "live")
  <2> DEFINE record(pc, result, since) ==
        [pc |-> pc, url |-> url, cached |-> url \in stored,
         conditional |-> pc = "fetching" /\ url \in stored \cap validated,
         result |-> result, servedSince |-> since, unanswered |-> FALSE]
  <2>1. ASSUME NEW pc \in {"done", "waiting", "fetching"}, NEW result \in Result, NEW since \in BOOLEAN
        PROVE  record(pc, result, since) \in CallRecord
    <3>1. (url \in stored) \in BOOLEAN /\ (pc = "fetching" /\ url \in stored \cap validated) \in BOOLEAN
      OBVIOUS
    <3> QED
      BY <3>1 DEF CallRecord
  <2>2. CASE Hit(c, url)
    <3>1. /\ call' = [call EXCEPT ![c] = record("done", "body", host[url] = "live")]
          /\ inflight' = inflight /\ url \notin Revalidated
      BY <2>2 DEF Hit, Calling, ServedFromCache
    <3>2. (host[url] = "live") \in BOOLEAN /\ "body" \in Result
      BY DEF Result
    <3>3. record("done", "body", host[url] = "live") \in CallRecord
      BY <2>1, <3>2
    <3> QED
      BY <3>1, <3>3
  <2>3. CASE Join(c, url)
    <3>1. inflight[url] \in Caller
      BY <2>3 DEF Join, CallsTyped
    <3> DEFINE since == call[inflight[url]].servedSince
    <3>2. since \in BOOLEAN /\ "none" \in Result
      BY <3>1 DEF CallsTyped, CallRecord, Result
    <3>3. record("waiting", "none", since) \in CallRecord
      BY <2>1, <3>2
    <3>4. /\ call' = [call EXCEPT ![c] = record("waiting", "none", since)]
          /\ inflight' = inflight /\ inflight[url] # Nobody
      BY <2>3 DEF Join, Calling
    <3> QED
      BY <3>3, <3>4
  <2>4. CASE Request(c, url)
    <3>1. (host[url] = "live") \in BOOLEAN /\ "none" \in Result
      BY DEF Result
    <3>2. record("fetching", "none", host[url] = "live") \in CallRecord
      BY <2>1, <3>1
    <3>3. /\ call' = [call EXCEPT ![c] = record("fetching", "none", host[url] = "live")]
          /\ inflight' = [inflight EXCEPT ![url] = c] /\ inflight[url] = Nobody
      BY <2>4 DEF Request, Calling
    <3> QED
      BY <3>2, <3>3
  <2> QED
    BY <2>2, <2>3, <2>4
<1>3. /\ call'[c] = record /\ call' \in [Caller -> CallRecord]
      /\ \A w \in Caller : w # c => call'[w] = call[w]
  BY <1>2 DEF CallsTyped
<1>4. inflight' \in [Url -> Caller \cup {Nobody}]
      /\ \A u \in Url : inflight'[u] = IF record.pc = "fetching" /\ u = url THEN c ELSE inflight[u]
  BY <1>2 DEF CallsTyped
<1>5. CallsTyped'
  BY <1>1, <1>3, <1>4 DEF CallsTyped
<1>6. FetchShared'
  <2>1. \A w \in Caller : call[w].url \in Url
    BY DEF CallsTyped, CallRecord
  <2>2. ASSUME NEW w \in Caller, NEW u \in Url
        PROVE  inflight'[u] = w <=> call'[w].pc \in {"fetching", "reading"} /\ call'[w].url = u
    <3>1. CASE w = c
      BY <1>1, <1>2, <1>3, <1>4, <3>1 DEF FetchShared
    <3>2. CASE w # c
      BY <1>2, <1>3, <1>4, <3>2, CallerAssumption DEF FetchShared
    <3> QED
      BY <3>1, <3>2
  <2>3. ASSUME NEW w \in Caller, call'[w].pc = "waiting"
        PROVE  inflight'[call'[w].url] # Nobody
    BY <1>2, <1>3, <1>4, <2>1, <2>3, CallerAssumption DEF FetchShared
  <2> QED
    BY <2>2, <2>3 DEF FetchShared
<1>7. FetchKnows'
  <2>1. ASSUME NEW w \in Caller, Unsettled(w)', host'[call'[w].url] = "live"
        PROVE  call'[w].servedSince
    <3>1. CASE w # c
      BY <1>1, <1>3, <2>1, <3>1 DEF FetchKnows, Unsettled
    <3>2. CASE w = c /\ record.pc = "waiting"
      <4>1. inflight[url] \in Caller /\ Fetches(inflight[url]) /\ call[inflight[url]].url = url
        BY <1>2, <3>2 DEF CallsTyped, FetchShared, Fetches
      <4> QED
        BY <1>1, <1>2, <1>3, <2>1, <3>2, <4>1 DEF FetchKnows, Unsettled, Fetches
    <3>3. CASE w = c /\ record.pc # "waiting"
      BY <1>1, <1>2, <1>3, <2>1, <3>3 DEF Unsettled
    <3> QED
      BY <3>1, <3>2, <3>3
  <2>2. \A w \in Caller : call'[w].pc = "reading" => call'[w].servedSince
    BY <1>2, <1>3 DEF FetchKnows
  <2>3. ASSUME NEW w \in Caller, call'[w].pc = "waiting"
        PROVE  call'[inflight'[call'[w].url]].servedSince = call'[w].servedSince
    <3>1. CASE w # c
      <4>1. /\ call'[w] = call[w] /\ inflight[call[w].url] \in Caller
            /\ Fetches(inflight[call[w].url]) /\ call[w].url \in Url
        BY <1>3, <2>3, <3>1, OwnerFacts DEF CallsTyped, CallRecord
      <4>2. inflight[call[w].url] # c /\ inflight'[call[w].url] = inflight[call[w].url]
        BY <1>1, <1>2, <1>4, <4>1, CallerAssumption DEF Fetches
      <4> QED
        BY <1>3, <2>3, <4>1, <4>2 DEF FetchKnows
    <3>2. CASE w = c
      <4>1. /\ record.pc = "waiting" /\ inflight'[url] = inflight[url]
            /\ inflight[url] \in Caller /\ Fetches(inflight[url])
        BY <1>2, <1>3, <2>3, <3>2 DEF CallsTyped, FetchShared, Fetches
      <4> QED
        BY <1>1, <1>2, <1>3, <3>2, <4>1 DEF Fetches
    <3> QED
      BY <3>1, <3>2
  <2> QED
    BY <2>1, <2>2, <2>3 DEF FetchKnows
<1>8. WithdrawalSeen'
  BY <1>2, <1>3 DEF WithdrawalSeen
<1> QED
  BY <1>5, <1>6, <1>7, <1>8

\* A 200 has come: the fetch goes on to read the body.
LEMMA OkInv ==
  ASSUME CacheInv, NEW c \in Caller, Ok(c)
  PROVE  CacheInv'
<1> USE DEF CacheInv
<1>1. /\ call[c].pc = "fetching" /\ host[call[c].url] = "live"
      /\ call' = [call EXCEPT ![c].pc = "reading"] /\ inflight' = inflight /\ host' = host
  BY DEF Ok
<1>2. /\ call'[c] \in CallRecord /\ call'[c].pc = "reading" /\ call'[c].url = call[c].url
      /\ call'[c].servedSince = call[c].servedSince
      /\ call' \in [Caller -> CallRecord] /\ \A w \in Caller : w # c => call'[w] = call[w]
  BY <1>1 DEF CallsTyped, CallRecord
<1>3. CallsTyped' /\ FetchShared' /\ WithdrawalSeen'
  BY <1>1, <1>2 DEF CallsTyped, FetchShared, WithdrawalSeen
<1>4. \A w \in Caller : call'[w].servedSince = call[w].servedSince /\ call'[w].url = call[w].url
  BY <1>2
<1>5. FetchKnows'
  <2>1. \A w \in Caller : call'[w].pc = "waiting" => call[w].pc = "waiting"
    BY <1>2
  <2>2. \A w \in Caller : call'[w].pc = "waiting" => inflight[call[w].url] \in Caller
    BY <2>1, OwnerFacts
  <2>3. call[c].servedSince
    BY <1>1 DEF FetchKnows, Unsettled
  <2> QED
    BY <1>1, <1>2, <1>4, <2>1, <2>2, <2>3 DEF FetchKnows, Unsettled
<1> QED
  BY <1>3, <1>5

\* A caller that leaves, having returned or waited no longer, is owed nothing.
LEMMA LeaveInv ==
  ASSUME CacheInv, NEW c \in Caller, CancelWaiter(c) \/ Return(c)
  PROVE  CacheInv'
<1> USE DEF CacheInv
<1>1. /\ call[c].pc \in {"waiting", "done"} /\ call' = [call EXCEPT ![c] = Free]
      /\ inflight' = inflight /\ host' = host
  BY DEF CancelWaiter, Return
<1>2. /\ call'[c] = Free /\ Free.pc = "idle" /\ call' \in [Caller -> CallRecord]
      /\ \A w \in Caller : w # c => call'[w] = call[w]
  BY <1>1, FreeType DEF CallsTyped, Free
<1>3. CallsTyped' /\ FetchShared' /\ WithdrawalSeen'
  BY <1>1, <1>2 DEF CallsTyped, FetchShared, WithdrawalSeen
<1>4. \A w \in Caller : call'[w].pc = "waiting" =>
        w # c /\ inflight[call[w].url] \in Caller /\ inflight[call[w].url] # c
  BY <1>1, <1>2, OwnerFacts DEF Fetches
<1>5. FetchKnows'
  BY <1>1, <1>2, <1>4 DEF FetchKnows, Unsettled
<1> QED
  BY <1>3, <1>5

LEMMA FinishInv ==
  ASSUME CacheInv, NEW c \in Caller, Finish(c) \/ CancelOwner(c)
  PROVE  CacheInv'
<1> USE DEF CacheInv
<1>1. {"body", "nothing", "redirected", "cancelled", "broken"} \subseteq Result
  BY DEF Result
<1>2. ASSUME Ok(c) PROVE CacheInv'
  BY <1>2, OkInv
<1>3. ASSUME ~Ok(c) PROVE Fetches(c)
  BY <1>3 DEF Finish, NotModified, Read, Redirect, NotFound, ServerError, Fail, CancelOwner, Fetches
<1>4. ASSUME NotModified(c) PROVE CacheInv'
  <2>1. Fetches(c) /\ call[c].servedSince
    BY <1>4 DEF NotModified, FetchKnows, Unsettled, Fetches
  <2>2. \/ Settle(c, "body", "body", FALSE) \/ Settle(c, "broken", "body", FALSE)
    BY <1>4 DEF NotModified
  <2> QED
    BY <1>1, <2>1, <2>2, SettleInv
<1>5. ASSUME Read(c) PROVE CacheInv'
  <2>1. Fetches(c) /\ call[c].servedSince /\ Settle(c, "body", "body", FALSE)
    BY <1>5 DEF Read, FetchKnows, Fetches
  <2> QED
    BY <1>1, <2>1, SettleInv
<1>6. ASSUME Redirect(c) \/ NotFound(c) PROVE CacheInv'
  <2>1. /\ Fetches(c)
        /\ Settle(c, "redirected", "redirected", FALSE) \/ Settle(c, "nothing", "nothing", FALSE)
    BY <1>6 DEF Redirect, NotFound, Fetches
  <2> QED
    BY <1>1, <2>1, SettleInv
<1>7. ASSUME ServerError(c) \/ Fail(c) PROVE CacheInv'
  <2>1. Fetches(c)
    BY <1>7 DEF ServerError, Fail, Fetches
  <2>2. Settle(c, "body", "body", TRUE) \/ Settle(c, "nothing", "nothing", TRUE)
    BY <1>7 DEF ServerError, Fail, AnswerOfFailure
  <2> QED
    BY <1>1, <2>1, <2>2, SettleInv
<1>8. ASSUME CancelOwner(c) PROVE CacheInv'
  <2>1. Fetches(c) /\ Settle(c, "cancelled", "nothing", TRUE)
    BY <1>8 DEF CancelOwner, Fetches
  <2> QED
    BY <1>1, <2>1, SettleInv
<1> QED
  BY <1>2, <1>4, <1>5, <1>6, <1>7, <1>8 DEF Finish

LEMMA NextCacheInv == CacheInv /\ [Next]_vars => CacheInv'
<1> SUFFICES ASSUME CacheInv, [Next]_vars PROVE CacheInv'
  OBVIOUS
<1>1. ASSUME NEW c \in Caller, NEW url \in Url, Hit(c, url) \/ Join(c, url) \/ Request(c, url)
      PROVE  CacheInv'
  BY <1>1, CallingInv
<1>2. ASSUME NEW c \in Caller, Finish(c) \/ CancelOwner(c) PROVE CacheInv'
  BY <1>2, FinishInv
<1>3. ASSUME NEW c \in Caller, CancelWaiter(c) \/ Return(c) PROVE CacheInv'
  BY <1>3, LeaveInv
<1>4. ASSUME NEW url \in Url, Withdraw(url) PROVE CacheInv'
  <2>1. /\ host[url] = "live" /\ UNCHANGED <<inflight, call>>
        /\ \E answer \in {"archived", "gone"} : host' = [host EXCEPT ![url] = answer]
    BY <1>4 DEF Withdraw
  <2>2. \A u \in Url : host'[u] = "live" => host[u] = "live"
    BY <2>1 DEF CacheInv, CallsTyped
  <2>3. \A c \in Caller : call[c].url \in Url
    BY DEF CacheInv, CallsTyped, CallRecord
  <2>4. CallsTyped'
    BY <2>1 DEF CacheInv, CallsTyped
  <2>5. FetchShared' /\ FetchKnows' /\ WithdrawalSeen'
    BY <2>1, <2>2, <2>3 DEF CacheInv, FetchShared, FetchKnows, WithdrawalSeen, Unsettled
  <2> QED
    BY <2>4, <2>5 DEF CacheInv
<1>5. ASSUME UNCHANGED vars PROVE CacheInv'
  BY <1>5 DEF vars, CacheInv, CallsTyped, FetchShared, FetchKnows, WithdrawalSeen, Unsettled
<1> QED
  BY <1>1, <1>2, <1>3, <1>4, <1>5 DEF Next

THEOREM CacheInductive == Spec => []CacheInv
<1> QED
  BY InitCacheInv, NextCacheInv, PTL DEF Spec

\* One request per URL, and whoever waits has a fetch to wait for: through
\* joins, failures and cancellations of any of the callers.
THEOREM OneFetchPerUrl == Spec => []FetchShared
<1>1. CacheInv => FetchShared
  BY DEF CacheInv
<1> QED
  BY <1>1, CacheInductive, PTL

\* No caller that revalidates is handed a body the host had withdrawn before
\* the fetch it shares began, unless the host gave no answer.
THEOREM WithdrawalsSeen == Spec => []WithdrawalSeen
<1>1. CacheInv => WithdrawalSeen
  BY DEF CacheInv
<1> QED
  BY <1>1, CacheInductive, PTL

-----------------------------------------------------------------------------
(* The LRU                                                                 *)

\* A cache whose maps are in step.
InStep(c) ==
  /\ c.stored \subseteq Url /\ IsFiniteSet(c.stored) /\ Orders(c.older, c.stored)
  /\ c.total = Bytes(c.stored, Size) /\ c.total \in Nat /\ c.total <= MaxBytes
  /\ c.validated \subseteq c.stored

LEMMA SizesAreNat == \A url \in Url : Size[url] \in Nat
BY SizeAssumption

LEMMA EvictInStep ==
  ASSUME NEW c, InStep(c), NEW url
  PROVE  /\ InStep(Evict(c, url)) /\ url \notin Evict(c, url).stored
         /\ Evict(c, url).stored \subseteq c.stored
<1> DEFINE rest == c.stored \ {url}
           e == Evict(c, url)
<1>1. /\ e.stored = rest /\ e.older = Among(rest, c.older)
      /\ e.total = IF url \in c.stored THEN c.total - Size[url] ELSE c.total
      /\ e.validated = c.validated \ {url}
  BY DEF Evict
<1>2. IsFiniteSet(rest) /\ \A u \in rest : Size[u] \in Nat
  BY FS_Subset, SizesAreNat DEF InStep
<1>3. Orders(Among(rest, c.older), rest)
  <2>1. rest \subseteq c.stored
    OBVIOUS
  <2> HIDE DEF rest
  <2> QED BY <2>1, AmongOrders DEF InStep
<1>4. Bytes(rest, Size) \in Nat
  <2> HIDE DEF rest
  <2> QED BY <1>2, SumType
<1>5. e.total = Bytes(rest, Size)
  <2>1. CASE url \in c.stored
    <3>1. c.stored = rest \cup {url} /\ url \notin rest /\ \A u \in rest \cup {url} : Size[u] \in Nat
      BY <2>1, SizesAreNat DEF InStep
    <3> HIDE DEF rest
    <3>2. Bytes(rest \cup {url}, Size) = Bytes(rest, Size) + Size[url]
      BY <1>2, <3>1, SumOfOneMore
    <3>3. Size[url] \in Nat /\ c.total = Bytes(rest, Size) + Size[url]
      BY <3>1, <3>2 DEF InStep
    <3> QED BY <1>1, <1>4, <2>1, <3>3
  <2>2. CASE url \notin c.stored
    <3>1. rest = c.stored
      BY <2>2
    <3> QED BY <1>1, <2>2, <3>1 DEF InStep
  <2> QED BY <2>1, <2>2
<1>6. Bytes(rest, Size) =< Bytes(c.stored, Size)
  <2>1. rest \subseteq c.stored /\ IsFiniteSet(c.stored) /\ \A u \in c.stored : Size[u] \in Nat
    BY SizesAreNat DEF InStep
  <2> HIDE DEF rest
  <2> QED BY <2>1, SumOfSubset
<1>7. e.total <= MaxBytes
  <2> HIDE DEF rest, e
  <2> QED BY <1>4, <1>5, <1>6, SizeAssumption DEF InStep
<1>8. e.stored \subseteq Url /\ e.validated \subseteq e.stored /\ url \notin e.stored
  BY <1>1 DEF InStep
<1>9. rest \subseteq c.stored
  OBVIOUS
<1> HIDE DEF rest
<1> QED BY <1>1, <1>2, <1>3, <1>4, <1>5, <1>7, <1>8, <1>9 DEF InStep

\* A new body goes in under the budget.
LEMMA InsertInStep ==
  ASSUME NEW c, InStep(c), NEW url \in Url, url \notin c.stored
  PROVE  InStep(Insert(c, url)) /\ Insert(c, url).stored \subseteq c.stored \cup {url}
<1> DEFINE items == c.stored \cup {url}
           order == Promoted(url, c.stored, c.older)
           full == c.total + Size[url]
           gone == Trimmed(items, full, MaxBytes, Size, order)
           rest == items \ gone
           n == Insert(c, url)
<1>1. /\ n.stored = rest /\ n.older = Among(rest, order)
      /\ n.total = full - Bytes(gone, Size)
      /\ n.validated = (c.validated \cup ({url} \cap Validating)) \ gone
  BY DEF Insert
<1>2. IsFiniteSet(items) /\ items \subseteq Url /\ \A u \in items : Size[u] \in Nat
  BY FS_AddElement, SizesAreNat DEF InStep
<1>3. Orders(order, items)
  BY PromotedOrders DEF InStep
<1>4. full = Bytes(items, Size)
  <2>1. Bytes(c.stored \cup {url}, Size) = Bytes(c.stored, Size) + Size[url]
    BY <1>2, SumOfOneMore DEF InStep
  <2> QED BY <2>1 DEF InStep
<1> HIDE DEF items, order, full
<1>5. Bytes(items, Size) \in Nat /\ full \in Int /\ MaxBytes \in Int
  <2>1. Bytes(items, Size) \in Nat
    BY <1>2, SumType
  <2> QED BY <1>4, <2>1, SizeAssumption
<1>6. /\ gone \subseteq items /\ Bytes(gone, Size) \in Nat
      /\ full - Bytes(gone, Size) <= MaxBytes \/ gone = items
  BY <1>2, <1>3, <1>5, TrimmedFacts
<1> HIDE DEF gone
<1>7. IsFiniteSet(rest) /\ \A u \in rest : Size[u] \in Nat
  BY <1>2, FS_Subset
<1>8. Bytes(rest, Size) = full - Bytes(gone, Size) /\ Bytes(rest, Size) \in Nat
  <2>1. Bytes(items \ gone, Size) = Bytes(items, Size) - Bytes(gone, Size)
    BY <1>2, <1>6, SumOfSubset
  <2>2. Bytes(rest, Size) \in Nat
    <3> HIDE DEF rest
    <3> QED BY <1>7, SumType
  <2> QED BY <1>4, <2>1, <2>2
<1>9. Bytes(rest, Size) <= MaxBytes
  <2>1. CASE gone = items
    <3>1. rest = {}
      BY <2>1
    <3> HIDE DEF rest
    <3> QED BY <3>1, SumOfNone, SizeAssumption
  <2>2. CASE full - Bytes(gone, Size) <= MaxBytes
    BY <1>8, <2>2
  <2> QED BY <1>6, <2>1, <2>2
<1>10. Orders(Among(rest, order), rest)
  <2>1. rest \subseteq items
    OBVIOUS
  <2> HIDE DEF rest
  <2> QED BY <1>3, <2>1, AmongOrders
<1>11. n.stored \subseteq Url /\ n.validated \subseteq n.stored /\ n.stored \subseteq items
  BY <1>1, <1>2 DEF InStep, items
<1> HIDE DEF rest, n
<1>12. InStep(n) /\ n.stored \subseteq items
  BY <1>1, <1>7, <1>8, <1>9, <1>10, <1>11 DEF InStep
<1> QED BY <1>12 DEF n, items

LEMMA StoreInStep ==
  ASSUME NEW c, InStep(c), NEW url \in Url
  PROVE  InStep(Store(c, url)) /\ Store(c, url).stored \subseteq c.stored \cup {url}
<1> DEFINE e == Evict(c, url)
<1>1. InStep(e) /\ url \notin e.stored /\ e.stored \subseteq c.stored
  BY EvictInStep
<1> HIDE DEF e
<1>2. InStep(Insert(e, url)) /\ Insert(e, url).stored \subseteq e.stored \cup {url}
  BY <1>1, InsertInStep
<1>3. Store(c, url) = e \/ Store(c, url) = Insert(e, url)
  BY DEF Store, e
<1> QED BY <1>1, <1>2, <1>3

-----------------------------------------------------------------------------
(* The cache and the calls                                                 *)

LruInv == InStep(TheCache)

\* What is held was held when the fetch of its URL began, and its owner found
\* whatever those who joined it found.
FoundKnown ==
  /\ \A c \in Caller : Fetches(c) /\ call[c].url \in stored => call[c].cached
  /\ \A c \in Caller : call[c].pc = "waiting" /\ call[c].cached =>
       call[inflight[call[c].url]].cached

FullInv == CacheInv /\ LruInv /\ FoundKnown

\* What of the cache a step may change.
CacheSteps(url) ==
  LruInv' /\ stored' \subseteq stored \cup {url}

LEMMA TouchSteps == ASSUME LruInv, NEW url, url \in stored, Touch(url) PROVE LruInv' /\ stored' = stored
<1>1. /\ older' = Promoted(url, stored, older)
      /\ stored' = stored /\ total' = total /\ validated' = validated
  BY DEF Touch
<1>2. Orders(Promoted(url, stored, older), stored \cup {url}) /\ stored \cup {url} = stored
  BY PromotedOrders DEF LruInv, InStep, TheCache
<1>3. Orders(older', stored')
  BY <1>1, <1>2
<1> QED BY <1>1, <1>3 DEF LruInv, InStep, TheCache

LEMMA BecomesSteps ==
  ASSUME NEW c, InStep(c), Becomes(c)
  PROVE  LruInv' /\ stored' = c.stored
BY DEF Becomes, LruInv, InStep, TheCache

LEMMA SameCache == ASSUME LruInv, UNCHANGED cache PROVE LruInv' /\ stored' = stored
BY DEF LruInv, TheCache, cache

\* A fetch that ends: what it is found to be, and what that does to the cache.
LEMMA FinishSettles ==
  ASSUME CacheInv, LruInv, NEW c \in Caller, Finish(c) \/ CancelOwner(c), ~Ok(c)
  PROVE  /\ Fetches(c) /\ LruInv' /\ stored' \subseteq stored \cup {call[c].url}
         /\ \E own, shared \in Result, unanswered \in BOOLEAN :
              /\ Settle(c, own, shared, unanswered)
              /\ \/ own = "cancelled"
                 \/ shared = "body"
                 \/ host[call[c].url] # "live"
                 \/ ~call[c].cached
              /\ \/ own \in {"cancelled", "body", "broken"}
                 \/ host[call[c].url] # "live"
                 \/ ~call[c].cached
              /\ own = "broken" => call[c].conditional /\ call[c].url \notin stored
<1> DEFINE url == call[c].url
<1>1. url \in Url
  BY DEF CacheInv, CallsTyped, CallRecord
<1>2. {"body", "nothing", "redirected", "cancelled", "broken"} \subseteq Result
  BY DEF Result
<1>3. InStep(TheCache) /\ TheCache.stored = stored
  BY DEF LruInv, TheCache
<1> HIDE DEF url
<1>4. CASE NotModified(c)
  <2>1. /\ Fetches(c)
        /\ \/ url \in stored /\ Touch(url) /\ Settle(c, "body", "body", FALSE)
           \/ /\ UNCHANGED cache /\ Settle(c, "broken", "body", FALSE)
              /\ call[c].conditional /\ url \notin stored
    BY <1>4 DEF NotModified, Fetches, url
  <2>2. LruInv' /\ stored' = stored
    BY <2>1, TouchSteps, SameCache
  <2> QED BY <1>2, <2>1, <2>2 DEF url
<1>5. CASE Read(c)
  <2>1. Fetches(c) /\ Becomes(Store(TheCache, url)) /\ Settle(c, "body", "body", FALSE)
    BY <1>5 DEF Read, Fetches, url
  <2>2. InStep(Store(TheCache, url)) /\ Store(TheCache, url).stored \subseteq stored \cup {url}
    BY <1>1, <1>3, StoreInStep
  <2>3. LruInv' /\ stored' \subseteq stored \cup {url}
    BY <2>1, <2>2, BecomesSteps
  <2> QED BY <1>2, <2>1, <2>3 DEF url
<1>6. InStep(Evict(TheCache, url)) /\ Evict(TheCache, url).stored \subseteq stored
  BY <1>3, EvictInStep
<1>7. CASE Redirect(c)
  <2>1. /\ Fetches(c) /\ Becomes(Evict(TheCache, url)) /\ host[url] # "live"
        /\ Settle(c, "redirected", "redirected", FALSE)
    BY <1>7 DEF Redirect, Fetches, url
  <2>2. LruInv' /\ stored' \subseteq stored
    BY <1>6, <2>1, BecomesSteps
  <2> QED BY <1>2, <2>1, <2>2 DEF url
<1>8. CASE NotFound(c)
  <2>1. /\ Fetches(c) /\ Becomes(Evict(TheCache, url)) /\ host[url] # "live"
        /\ Settle(c, "nothing", "nothing", FALSE)
    BY <1>8 DEF NotFound, Fetches, url
  <2>2. LruInv' /\ stored' \subseteq stored
    BY <1>6, <2>1, BecomesSteps
  <2> QED BY <1>2, <2>1, <2>2 DEF url
<1>9. CASE ServerError(c)
  <2>1. Fetches(c)
    BY <1>9 DEF ServerError, Fetches
  <2>2. CASE call[c].cached
    <3>1. Settle(c, "body", "body", TRUE) /\ UNCHANGED cache
      BY <1>9, <2>2 DEF ServerError
    <3> QED BY <1>2, <2>1, <3>1, SameCache
  <2>3. CASE ~call[c].cached
    <3>1. Settle(c, "nothing", "nothing", TRUE) /\ Becomes(Evict(TheCache, url))
      BY <1>9, <2>3 DEF ServerError, url
    <3>2. LruInv' /\ stored' \subseteq stored
      BY <1>6, <3>1, BecomesSteps
    <3> QED BY <1>2, <2>1, <2>3, <3>1, <3>2
  <2> QED BY <2>2, <2>3
<1>10. CASE Fail(c)
  <2>1. /\ Fetches(c) /\ UNCHANGED cache
        /\ \/ Settle(c, "body", "body", TRUE)
           \/ ~call[c].cached /\ Settle(c, "nothing", "nothing", TRUE)
    BY <1>10 DEF Fail, Fetches, AnswerOfFailure
  <2> QED BY <1>2, <2>1, SameCache
<1>11. CASE CancelOwner(c)
  <2>1. Fetches(c) /\ UNCHANGED cache /\ Settle(c, "cancelled", "nothing", TRUE)
    BY <1>11 DEF CancelOwner, Fetches
  <2> QED BY <1>2, <2>1, SameCache
<1> QED BY <1>4, <1>5, <1>7, <1>8, <1>9, <1>10, <1>11 DEF Finish

\* Who is told of the end of a fetch, and what stays as it is.
LEMMA SettleFacts ==
  ASSUME CacheInv, NEW c \in Caller, Fetches(c),
         NEW own, NEW shared, NEW unanswered, Settle(c, own, shared, unanswered)
  PROVE  LET url == call[c].url IN
           /\ url \in Url /\ inflight[url] = c /\ inflight'[url] = Nobody
           /\ \A u \in Url \ {url} : inflight'[u] = inflight[u]
           /\ \A w \in Caller : \/ /\ w = c \/ w \in Waiters(url)
                                   /\ call'[w].pc = "done" /\ call'[w].url = url
                                   /\ call'[w].cached = call[w].cached
                                   /\ call'[w].result = IF w = c THEN own ELSE shared
                                \/ /\ w # c /\ w \notin Waiters(url)
                                   /\ call'[w] = call[w]
<1> DEFINE url == call[c].url
<1>1. url \in Url /\ inflight[url] = c
  BY DEF CacheInv, CallsTyped, CallRecord, FetchShared, Fetches
<1>2. /\ call' = [w \in Caller |-> IF w = c THEN Done(w, own, unanswered)
                    ELSE IF w \in Waiters(url) THEN Done(w, shared, unanswered)
                    ELSE call[w]]
      /\ inflight' = [inflight EXCEPT ![url] = Nobody]
  BY DEF Settle
<1>3. /\ inflight'[url] = Nobody
      /\ \A u \in Url \ {url} : inflight'[u] = inflight[u]
  BY <1>1, <1>2 DEF CacheInv, CallsTyped
<1>4. ASSUME NEW w \in Caller, NEW result
      PROVE  /\ Done(w, result, unanswered).pc = "done"
             /\ Done(w, result, unanswered).url = call[w].url
             /\ Done(w, result, unanswered).cached = call[w].cached
             /\ Done(w, result, unanswered).result = result
  BY DEF Done, CacheInv, CallsTyped, CallRecord
<1>5. \A w \in Waiters(url) : call[w].url = url
  BY DEF Waiters
<1>6. ASSUME NEW w \in Caller
      PROVE  \/ /\ w = c \/ w \in Waiters(url)
                /\ call'[w].pc = "done" /\ call'[w].url = url
                /\ call'[w].cached = call[w].cached
                /\ call'[w].result = IF w = c THEN own ELSE shared
             \/ /\ w # c /\ w \notin Waiters(url)
                /\ call'[w] = call[w]
  BY <1>2, <1>4, <1>5
<1> QED BY <1>1, <1>3, <1>6

LEMMA SettleFound ==
  ASSUME CacheInv, FoundKnown, NEW c \in Caller, Fetches(c),
         NEW own, NEW shared, NEW unanswered, Settle(c, own, shared, unanswered),
         stored' \subseteq stored \cup {call[c].url}
  PROVE  FoundKnown'
<1> DEFINE url == call[c].url
<1>1. /\ url \in Url /\ inflight[url] = c
      /\ \A u \in Url \ {url} : inflight'[u] = inflight[u]
      /\ \A w \in Caller : Unsettled(w)' => w # c /\ w \notin Waiters(url) /\ call'[w] = call[w]
  BY SettleFacts DEF Unsettled
<1>2. \A w \in Caller : Unsettled(w)' => Unsettled(w) /\ call[w].url \in Url /\ call[w].url # url
  BY <1>1 DEF CacheInv, FetchShared, Waiters, Unsettled, CallsTyped, CallRecord
<1> HIDE DEF url
<1>3. ASSUME NEW w \in Caller, Fetches(w)', call'[w].url \in stored'
      PROVE  call'[w].cached
  <2>1. call'[w] = call[w] /\ call[w].url # url /\ Fetches(w)
    BY <1>1, <1>2, <1>3 DEF Fetches, Unsettled
  <2> QED BY <1>3, <2>1 DEF FoundKnown, url
<1>4. ASSUME NEW w \in Caller, call'[w].pc = "waiting", call'[w].cached
      PROVE  call'[inflight'[call'[w].url]].cached
  <2>1. call'[w] = call[w] /\ call[w].url # url /\ call[w].url \in Url
    BY <1>1, <1>2, <1>4 DEF Unsettled
  <2> DEFINE owner == inflight[call[w].url]
  <2>2. owner \in Caller /\ Fetches(owner) /\ call[owner].url = call[w].url
    BY <1>4, <2>1, OwnerFacts
  <2>3. call'[owner] = call[owner]
    <3>1. owner # c /\ owner \notin Waiters(url)
      BY <2>1, <2>2 DEF url, Waiters, Fetches
    <3> QED BY <2>2, <3>1, SettleFacts DEF url
  <2> QED BY <1>1, <1>4, <2>1, <2>3 DEF FoundKnown
<1> QED BY <1>3, <1>4 DEF FoundKnown

\* A call that begins, or a caller that leaves, finds the fetches as they are.
LEMMA OthersFound ==
  ASSUME CacheInv, CacheInv', FoundKnown, NEW c \in Caller, stored' = stored,
         ~Fetches(c), \A w \in Caller \ {c} : call'[w] = call[w],
         Fetches(c)' => (call'[c].url \in stored => call'[c].cached),
         call'[c].pc = "waiting" /\ call'[c].cached =>
           call'[c].url \in stored /\ inflight'[call'[c].url] # c,
         \A u \in Url : inflight'[u] = inflight[u] \/ inflight[u] = Nobody
  PROVE  FoundKnown'
<1>1. \A w \in Caller : Fetches(w)' /\ call'[w].url \in stored' => call'[w].cached
  BY DEF FoundKnown, Fetches
<1>2. ASSUME NEW w \in Caller, call'[w].pc = "waiting", call'[w].cached
      PROVE  call'[inflight'[call'[w].url]].cached
  <2>1. PICK owner \in Caller :
          /\ owner = inflight'[call'[w].url]
          /\ Fetches(owner)' /\ call'[owner].url = call'[w].url
    BY <1>2 DEF CacheInv, CallsTyped, CallRecord, FetchShared, Fetches
  <2>2. CASE w = c
    BY <1>1, <1>2, <2>1, <2>2
  <2>3. CASE w # c
    <3>1. call'[w] = call[w] /\ call[w].pc = "waiting" /\ call[w].url \in Url
      BY <1>2, <2>3 DEF CacheInv, CallsTyped, CallRecord
    <3>2. inflight[call[w].url] \in Caller /\ Fetches(inflight[call[w].url])
      BY <3>1, OwnerFacts
    <3>3. owner = inflight[call[w].url] /\ owner # c
      BY <2>1, <3>1, <3>2, CallerAssumption
    <3> QED BY <1>2, <2>1, <3>1, <3>3 DEF FoundKnown
  <2> QED BY <2>2, <2>3
<1> QED BY <1>1, <1>2 DEF FoundKnown

LEMMA NextFullInv == FullInv /\ [Next]_vars => FullInv'
<1> SUFFICES ASSUME FullInv, [Next]_vars PROVE LruInv' /\ FoundKnown'
  BY NextCacheInv DEF FullInv
<1>1. CacheInv /\ LruInv /\ FoundKnown /\ CacheInv'
  BY NextCacheInv DEF FullInv
<1>2. ASSUME NEW c \in Caller, NEW url \in Url, Hit(c, url) \/ Join(c, url) \/ Request(c, url)
      PROVE  LruInv' /\ FoundKnown'
  <2>1. LruInv' /\ stored' = stored
    <3>1. CASE Hit(c, url)
      BY <1>1, <3>1, TouchSteps DEF Hit, ServedFromCache
    <3>2. CASE Join(c, url) \/ Request(c, url)
      BY <1>1, <3>2, SameCache DEF Join, Request
    <3> QED BY <1>2, <3>1, <3>2
  <2>2. /\ ~Fetches(c) /\ \A w \in Caller \ {c} : call'[w] = call[w]
        /\ call'[c].url = url /\ call'[c].cached = (url \in stored)
    BY <1>1, <1>2 DEF CacheInv, CallsTyped, Hit, Join, Request, Calling, Fetches
  <2>3. \A u \in Url : inflight'[u] = inflight[u] \/ inflight[u] = Nobody
    BY <1>1, <1>2 DEF CacheInv, CallsTyped, Hit, Join, Request
  <2>4. call'[c].pc = "waiting" => inflight'[url] # c
    BY <1>1, <1>2 DEF CacheInv, FetchShared, CallsTyped, Hit, Join, Request, Calling
  <2> QED BY <1>1, <2>1, <2>2, <2>3, <2>4, OthersFound
<1>3. ASSUME NEW c \in Caller, Finish(c) \/ CancelOwner(c) PROVE LruInv' /\ FoundKnown'
  <2>1. CASE ~Ok(c)
    BY <1>1, <1>3, <2>1, FinishSettles, SettleFound
  <2>2. CASE Ok(c)
    <3>1. /\ LruInv' /\ stored' = stored /\ inflight' = inflight
          /\ Fetches(c)
          /\ \A w \in Caller : /\ call'[w].url = call[w].url /\ call'[w].cached = call[w].cached
                               /\ Fetches(w)' => Fetches(w)
                               /\ call'[w].pc = "waiting" => call[w].pc = "waiting"
      BY <1>1, <2>2, SameCache DEF Ok, Fetches, CacheInv, CallsTyped, CallRecord
    <3>2. \A w \in Caller : call[w].pc = "waiting" => inflight[call[w].url] \in Caller
      BY <1>1, OwnerFacts
    <3> QED BY <1>1, <3>1, <3>2 DEF FoundKnown
  <2> QED BY <2>1, <2>2
<1>4. ASSUME NEW c \in Caller, CancelWaiter(c) \/ Return(c) PROVE LruInv' /\ FoundKnown'
  <2>1. LruInv' /\ stored' = stored /\ inflight' = inflight
    BY <1>1, <1>4, SameCache DEF CancelWaiter, Return
  <2>2. /\ ~Fetches(c) /\ \A w \in Caller \ {c} : call'[w] = call[w]
        /\ call'[c].pc = "idle"
    BY <1>1, <1>4 DEF CacheInv, CallsTyped, CancelWaiter, Return, Fetches, Free
  <2> QED BY <1>1, <2>1, <2>2, OthersFound DEF Fetches
<1>5. ASSUME NEW url \in Url, Withdraw(url) PROVE LruInv' /\ FoundKnown'
  <2>1. UNCHANGED <<cache, inflight, call>>
    BY <1>5 DEF Withdraw
  <2> QED BY <1>1, <2>1, SameCache DEF FoundKnown, Fetches
<1>6. ASSUME UNCHANGED vars PROVE LruInv' /\ FoundKnown'
  BY <1>1, <1>6, SameCache DEF vars, FoundKnown, Fetches
<1> QED
  BY <1>2, <1>3, <1>4, <1>5, <1>6 DEF Next

LEMMA InitFullInv == Init => FullInv
<1> SUFFICES ASSUME Init PROVE LruInv /\ FoundKnown
  BY InitCacheInv DEF FullInv
<1>1. LruInv
  BY FS_EmptySet, SumOfNone, SizeAssumption DEF Init, LruInv, InStep, TheCache, Orders
<1> QED BY <1>1 DEF Init, FoundKnown, Fetches, Free

\* On top of who waits for whom: the LRU's maps are in step, and no caller finds
\* a body that the owner of the fetch it shares has not found.
THEOREM FullInductive == Spec => []FullInv
<1> QED BY InitFullInv, NextFullInv, PTL DEF Spec

\* For any sizes, whatever the callers store, touch and evict in between: the
\* running total is the size of what is held, within the budget, and no
\* validators outlive their body (_store, _evict).
THEOREM BudgetAlwaysKept == Spec => []BudgetKept
<1>1. FullInv => BudgetKept
  BY DEF FullInv, LruInv, InStep, TheCache, BudgetKept
<1> QED BY <1>1, FullInductive, PTL

\* The types of the cache's variables.
THEOREM TypeCorrect == Spec => []TypeOK
<1>1. FullInv => TypeOK
  BY DEF FullInv, LruInv, InStep, TheCache, CacheInv, CallsTyped, TypeOK, Orders
<1> QED BY <1>1, FullInductive, PTL

\* A held warning the host still serves is lost to a caller only in the step
\* that cancels the caller whose request it shares, or in a 304 of its own for a
\* body that was evicted in the meantime; no failure of the host and no answer
\* takes it away (get_or_fetch).
THEOREM WarningsKept == Spec => WarningKept
<1> DEFINE Keeps == \A c \in Caller :
             Deprived(c) => OwnerCancelled(call'[c].url) \/ EvictedMeanwhile(c)
<1>1. FullInv /\ [Next]_vars => Keeps
  <2> SUFFICES ASSUME FullInv, [Next]_vars, NEW w \in Caller,
                      call[w].pc # "done", call'[w].pc = "done",
                      call'[w].cached, host[call'[w].url] = "live",
                      call'[w].result \in {"nothing", "redirected", "broken"}
               PROVE  OwnerCancelled(call'[w].url) \/ EvictedMeanwhile(w)
    BY DEF Deprived
  <2>1. CacheInv /\ LruInv /\ FoundKnown
    BY DEF FullInv
  <2>2. ASSUME NEW c \in Caller, Finish(c) \/ CancelOwner(c), ~Ok(c)
        PROVE  OwnerCancelled(call'[w].url) \/ EvictedMeanwhile(w)
    <3>1. PICK own, shared \in Result, unanswered \in BOOLEAN :
            /\ Settle(c, own, shared, unanswered)
            /\ \/ own = "cancelled" \/ shared = "body"
               \/ host[call[c].url] # "live" \/ ~call[c].cached
            /\ \/ own \in {"cancelled", "body", "broken"}
               \/ host[call[c].url] # "live" \/ ~call[c].cached
            /\ own = "broken" => call[c].conditional /\ call[c].url \notin stored
      BY <2>1, <2>2, FinishSettles
    <3>2. Fetches(c)
      BY <2>1, <2>2, FinishSettles
    <3> DEFINE url == call[c].url
    <3>3. /\ call[c].url \in Url /\ inflight[call[c].url] = c
          /\ call'[c].result = own
          /\ w = c \/ (w \in Waiters(call[c].url) /\ call'[w].result = shared)
          /\ call'[w].url = call[c].url /\ call'[w].cached = call[w].cached
      <4>1. /\ url \in Url /\ inflight[url] = c
            /\ \A v \in Caller : \/ /\ v = c \/ v \in Waiters(url)
                                    /\ call'[v].pc = "done" /\ call'[v].url = url
                                    /\ call'[v].cached = call[v].cached
                                    /\ call'[v].result = IF v = c THEN own ELSE shared
                                 \/ /\ v # c /\ v \notin Waiters(url)
                                    /\ call'[v] = call[v]
        BY <2>1, <3>1, <3>2, SettleFacts
      <4> QED BY <4>1
    <3>4. call[c].cached
      BY <2>1, <3>3 DEF FoundKnown, Waiters
    <3>5. own = "cancelled" \/ (own = "broken" /\ w = c)
      BY <3>1, <3>3, <3>4
    <3>6. own = "cancelled" => OwnerCancelled(call'[w].url)
      BY <3>3 DEF OwnerCancelled
    <3>7. own = "broken" /\ w = c => EvictedMeanwhile(w)
      BY <3>1, <3>3 DEF EvictedMeanwhile
    <3> QED BY <3>5, <3>6, <3>7
  <2>3. ASSUME NEW c \in Caller, NEW url \in Url, Hit(c, url) \/ Join(c, url) \/ Request(c, url)
        PROVE  FALSE
    <3>1. \/ call' = [call EXCEPT ![c] = [call'[c] EXCEPT !.pc = "done"]] /\ call'[c].result = "body"
          \/ \A v \in Caller : call'[v].pc = "done" => call[v].pc = "done"
      BY <2>1, <2>3 DEF CacheInv, CallsTyped, Hit, Join, Request, Calling
    <3> QED BY <2>1, <2>3, <3>1 DEF CacheInv, CallsTyped, Hit, Join, Request, Calling
  <2>4. ASSUME NEW c \in Caller, Ok(c) \/ CancelWaiter(c) \/ Return(c)
        PROVE  FALSE
    BY <2>1, <2>4 DEF CacheInv, CallsTyped, CallRecord, Ok, CancelWaiter, Return, Free
  <2>5. ASSUME NEW url \in Url, Withdraw(url) PROVE FALSE
    BY <2>5 DEF Withdraw
  <2>6. ASSUME UNCHANGED vars PROVE FALSE
    BY <2>6 DEF vars
  <2> QED
    BY <2>2, <2>3, <2>4, <2>5, <2>6 DEF Next
<1>2. FullInv /\ [Next]_vars => [Keeps]_vars
  BY <1>1
<1> QED BY <1>2, FullInductive, PTL DEF Spec, WarningKept

-----------------------------------------------------------------------------
(* NWS: the cancellation of an alert that is held can be found (SourcePolls) *)

\* The id an alert is asked for by, and those whose cancellation is of use.
IdOf(a) == EventId([alert |-> a, rev |-> 1])
Due(a) == left[a] # 0 /\ [alert |-> a, rev |-> Final] \in setup.wanted

PollShape ==
  /\ poll = [phase |-> poll.phase, faulty |-> poll.faulty, got |-> poll.got,
             listed |-> poll.listed, text |-> poll.text, drawn |-> poll.drawn,
             found |-> poll.found]
  /\ mem = [asked |-> mem.asked, shapes |-> mem.shapes, bulletins |-> mem.bulletins,
            resolved |-> mem.resolved, read |-> mem.read, links |-> mem.links,
            age |-> mem.age, gone |-> mem.gone, probe |-> mem.probe]
  /\ left = [a \in Alerts |-> left[a]] /\ feed = [i \in Indexes |-> feed[i]]

DocsInv ==
  /\ \A i \in Indexes : feed[i] \subseteq Doc
  /\ poll.listed \subseteq Doc /\ poll.text \subseteq Doc
  /\ held \subseteq Alerts
  /\ poll.phase \in {"idle", "index", "lookup", "deliver"}

\* From the lookup until the batch is delivered, what was found is asked for no
\* more and is held still; what the poll listed is asked for already.
AskedInv ==
  /\ \A a \in held \ restored :
       Due(a) => IdOf(a) \in mem.asked \/ (poll.phase = "deliver" /\ a \in poll.found)
  /\ poll.phase = "deliver" => \A d \in poll.text : EventId(d) \in mem.asked

FindableInv == setup.provider = "nws" => PollShape /\ DocsInv /\ AskedInv

LEMMA IdFacts ==
  /\ \A d \in Doc : d.alert \in Alerts /\ EventId(d) = IdOf(d.alert)
  /\ \A a : IdOf(a) = [alert |-> a, rev |-> 0] /\ IdOf(a).alert = a
<1>1. \A a : IdOf(a) = [alert |-> a, rev |-> 0]
  BY DEF IdOf, EventId
<1>2. ASSUME NEW d \in Doc PROVE d.alert \in Alerts /\ EventId(d) = [alert |-> d.alert, rev |-> 0]
  BY DEF Doc, EventId
<1> QED BY <1>1, <1>2

\* A step before the delivery that leaves what the entry holds and what the
\* provider asks for.
LEMMA PollGoesOn ==
  ASSUME FindableInv, setup' = setup, setup.provider = "nws", PollShape', DocsInv',
         held' = held, restored' = restored, mem'.asked = mem.asked,
         \A a \in Alerts : left'[a] # 0 => left[a] # 0,
         poll.phase # "deliver", poll'.phase # "deliver"
  PROVE  FindableInv'
<1>1. DocsInv /\ AskedInv
  BY DEF FindableInv
<1>2. ASSUME NEW a \in held' \ restored', Due(a)' PROVE IdOf(a) \in mem'.asked
  <2>1. a \in held \ restored /\ a \in Alerts
    BY <1>1, <1>2 DEF DocsInv
  <2>2. Due(a)
    BY <1>2, <2>1 DEF Due
  <2> QED BY <1>1, <2>1, <2>2 DEF AskedInv
<1>3. AskedInv'
  BY <1>2 DEF AskedInv, IdOf, EventId
<1> QED BY <1>3 DEF FindableInv

\* The steps of the source, and of time.
LEMMA SourceKeeps ==
  ASSUME FindableInv, setup.provider = "nws",
         \/ Happens
         \/ Tick
  PROVE  FindableInv'
<1>1. PollShape /\ DocsInv
  BY DEF FindableInv
<1>2. CASE Tick
  <2>1. /\ poll.phase = "idle" /\ left' = [a \in Alerts |-> Less(left[a])]
        /\ mem' = [mem EXCEPT !.age = IF mem.read /\ @ < StandIn THEN @ + 1 ELSE @,
                              !.probe = Less(@)]
        /\ setup' = setup /\ feed' = feed /\ poll' = poll /\ held' = held /\ restored' = restored
    BY <1>2 DEF Tick, entry
  <2>2. \A a \in Alerts : left'[a] # 0 => left[a] # 0
    BY <2>1 DEF Less
  <2>3. PICK age, probe : mem' = [mem EXCEPT !.age = age, !.probe = probe]
    BY <2>1
  <2>4. /\ mem'.asked = mem.asked
        /\ mem' = [asked |-> mem'.asked, shapes |-> mem'.shapes, bulletins |-> mem'.bulletins,
                   resolved |-> mem'.resolved, read |-> mem'.read, links |-> mem'.links,
                   age |-> mem'.age, gone |-> mem'.gone, probe |-> mem'.probe]
    BY <1>1, <2>3 DEF PollShape
  <2>5. PollShape' /\ DocsInv'
    BY <1>1, <2>1, <2>4 DEF PollShape, DocsInv
  <2> QED BY <2>1, <2>2, <2>4, <2>5, PollGoesOn
<1>3. CASE Happens
  <2>1. /\ setup' = setup /\ mem' = mem /\ poll' = poll /\ held' = held /\ restored' = restored
        /\ poll.phase \in {"idle", "index"}
    BY <1>3 DEF Happens, Issue, End, List, Drop, Source, entry
  <2>2. /\ \A a \in Alerts : left'[a] # 0 => left[a] # 0
        /\ left' = [a \in Alerts |-> left'[a]]
        /\ feed' = [i \in Indexes |-> feed'[i]]
        /\ \A i \in Indexes : feed'[i] \subseteq Doc
    <3>1. CASE \E a \in Alerts : Issue(a) \/ End(a)
      <4>1. PICK a \in Alerts : Issue(a) \/ End(a)
        BY <3>1
      <4>2. /\ feed' = feed /\ \/ left' = left
                               \/ left' = [left EXCEPT ![a] = Life(P, a)] /\ left[a] # 0
        BY <4>1 DEF Issue, End
      <4> QED BY <1>1, <4>2 DEF PollShape, DocsInv
    <3>2. CASE \E i \in Indexes, d \in Doc : List(i, d) \/ Drop(i, d)
      <4>1. PICK i \in Indexes, d \in Doc : List(i, d) \/ Drop(i, d)
        BY <3>2
      <4>2. left' = left
        BY <4>1 DEF List, Drop
      <4>3. PICK D : D \subseteq Doc /\ feed' = [feed EXCEPT ![i] = D]
        <5>1. CASE Drop(i, d)
          <6>1. feed' = [feed EXCEPT ![i] = feed[i] \ {d}]
            BY <1>1, <5>1 DEF Drop, PollShape
          <6> QED BY <1>1, <6>1 DEF DocsInv
        <5>2. CASE List(i, d)
          <6>1. feed' = [feed EXCEPT ![i] =
                  (IF Alert(P, d).id = EventId(d)
                   THEN {e \in feed[i] : e.alert # d.alert} ELSE feed[i]) \cup {d}]
            BY <1>1, <5>2 DEF List, PollShape
          <6>2. (IF Alert(P, d).id = EventId(d)
                   THEN {e \in feed[i] : e.alert # d.alert} ELSE feed[i]) \cup {d} \subseteq Doc
            BY <1>1 DEF DocsInv
          <6> QED BY <6>1, <6>2
        <5> QED BY <4>1, <5>1, <5>2
      <4>4. /\ feed' = [j \in Indexes |-> feed'[j]]
            /\ \A j \in Indexes : feed'[j] \subseteq Doc
        BY <1>1, <4>3 DEF PollShape, DocsInv
      <4> QED BY <1>1, <4>2, <4>4 DEF PollShape
    <3> QED BY <1>3, <3>1, <3>2 DEF Happens
  <2>3. PollShape' /\ DocsInv'
    BY <1>1, <2>1, <2>2 DEF PollShape, DocsInv
  <2> QED BY <2>1, <2>2, <2>3, PollGoesOn
<1> QED BY <1>2, <1>3

\* The steps of a fetch up to its lookup.
LEMMA FetchKeeps ==
  ASSUME FindableInv, setup.provider = "nws",
         \/ \E faulty \in BOOLEAN : Begin(faulty)
         \/ \E i \in Indexes : NWSPage(i)
         \/ IndexesIn
         \/ TimesOut
  PROVE  FindableInv'
<1>1. PollShape /\ DocsInv
  BY DEF FindableInv
<1>2. NoPoll = [phase |-> "idle", faulty |-> FALSE, got |-> [i \in Indexes |-> "unasked"],
                      listed |-> {}, text |-> {}, drawn |-> {}, found |-> {}]
  BY DEF NoPoll
<1>9. ASSUME mem' = mem
      PROVE  /\ mem'.asked = mem.asked
             /\ mem' = [asked |-> mem'.asked, shapes |-> mem'.shapes, bulletins |-> mem'.bulletins,
                         resolved |-> mem'.resolved, read |-> mem'.read, links |-> mem'.links,
                         age |-> mem'.age, gone |-> mem'.gone, probe |-> mem'.probe]
  BY <1>1, <1>9 DEF PollShape
\* What the source and the entry have is left alone; the poll goes on.
<1>3. ASSUME NEW phase, NEW faulty, NEW got, NEW listed, NEW text, NEW drawn, NEW found,
             UNCHANGED <<setup, left, feed, held, restored>>, mem'.asked = mem.asked,
             poll' = [phase |-> phase, faulty |-> faulty, got |-> got, listed |-> listed,
                      text |-> text, drawn |-> drawn, found |-> found],
             mem' = [asked |-> mem'.asked, shapes |-> mem'.shapes, bulletins |-> mem'.bulletins,
                     resolved |-> mem'.resolved, read |-> mem'.read, links |-> mem'.links,
                     age |-> mem'.age, gone |-> mem'.gone, probe |-> mem'.probe],
             phase \in {"idle", "index", "lookup"}, poll.phase # "deliver",
             listed \subseteq Doc, text \subseteq Doc
      PROVE  FindableInv'
  <2>1. /\ setup' = setup /\ left' = left /\ feed' = feed /\ held' = held /\ restored' = restored
    BY <1>3
  <2>2. /\ poll'.phase = phase /\ poll'.listed = listed /\ poll'.text = text
        /\ poll' = [phase |-> poll'.phase, faulty |-> poll'.faulty, got |-> poll'.got,
                    listed |-> poll'.listed, text |-> poll'.text, drawn |-> poll'.drawn,
                    found |-> poll'.found]
    BY <1>3
  <2>3. PollShape' /\ DocsInv'
    BY <1>1, <1>3, <2>1, <2>2 DEF PollShape, DocsInv
  <2> QED BY <1>3, <2>1, <2>2, <2>3, PollGoesOn
<1>4. ASSUME Raise, mem'.asked = mem.asked, poll.phase # "deliver",
             mem' = [asked |-> mem'.asked, shapes |-> mem'.shapes, bulletins |-> mem'.bulletins,
                     resolved |-> mem'.resolved, read |-> mem'.read, links |-> mem'.links,
                     age |-> mem'.age, gone |-> mem'.gone, probe |-> mem'.probe]
      PROVE  FindableInv'
  <2>1. poll' = NoPoll /\ UNCHANGED <<setup, left, feed, held, restored>>
    BY <1>4 DEF Raise, upstream, entry
  <2>2. PICK no, got : poll' = [phase |-> "idle", faulty |-> no, got |-> got, listed |-> {},
                                text |-> {}, drawn |-> {}, found |-> {}]
    BY <1>2, <2>1
  <2> QED BY <1>3, <1>4, <2>1, <2>2
<1>5. CASE \E faulty \in BOOLEAN : Begin(faulty)
  <2>1. PICK faulty \in BOOLEAN : Begin(faulty)
    BY <1>5
  <2>2. /\ poll.phase = "idle" /\ mem' = mem /\ UNCHANGED <<setup, left, feed, held, restored>>
        /\ poll' = [NoPoll EXCEPT !.phase = "index", !.faulty = faulty,
                      !.got = [i \in Indexes |-> IF i \in Reads THEN "pending" ELSE "unasked"]]
    BY <2>1 DEF Begin, Quiet, upstream, entry
  <2>3. PICK s, no, none, yes, got :
           /\ s = [phase |-> "idle", faulty |-> no, got |-> none, listed |-> {}, text |-> {},
                   drawn |-> {}, found |-> {}]
           /\ poll' = [s EXCEPT !.phase = "index", !.faulty = yes, !.got = got]
    BY <1>2, <2>2
  <2>4. poll' = [phase |-> "index", faulty |-> yes, got |-> got, listed |-> {}, text |-> {},
                 drawn |-> {}, found |-> {}]
    BY <2>3
  <2>5. UNCHANGED <<setup, left, feed, held, restored>> /\ mem' = mem /\ poll.phase # "deliver"
    BY <2>2
  <2> QED BY <1>3, <1>9, <2>4, <2>5
<1>6. CASE \E i \in Indexes : NWSPage(i)
  <2>1. PICK i \in Indexes : NWSPage(i)
    BY <1>6
  <2>2. poll.phase = "index" /\ (Answers(i) \/ Raises)
    BY <2>1 DEF NWSPage, Next2Read
  <2>3. CASE Raises
    BY <1>4, <1>9, <2>2, <2>3 DEF Raises
  <2>4. CASE Answers(i)
    <3>1. /\ mem' = mem /\ UNCHANGED <<setup, left, feed, held, restored>>
          /\ poll' = [poll EXCEPT !.got[i] = "read", !.listed = @ \cup feed[i]]
      BY <2>4 DEF Answers, Lists, Quiet, upstream, entry
    <3>2. PICK got, listed : /\ poll' = [poll EXCEPT !.got = got, !.listed = listed]
                             /\ listed = poll.listed \cup feed[i]
      BY <1>1, <3>1 DEF PollShape
    <3>3. poll' = [phase |-> poll.phase, faulty |-> poll.faulty, got |-> got, listed |-> listed,
                   text |-> poll.text, drawn |-> poll.drawn, found |-> poll.found]
      BY <1>1, <3>2 DEF PollShape
    <3>4. listed \subseteq Doc /\ poll.text \subseteq Doc
      BY <1>1, <3>2 DEF DocsInv
    <3>5. poll.phase \in {"idle", "index", "lookup"}
      BY <2>2
    <3>6. UNCHANGED <<setup, left, feed, held, restored>> /\ mem' = mem /\ poll.phase # "deliver"
      BY <2>2, <3>1
    <3> QED BY <1>3, <1>9, <3>3, <3>4, <3>5, <3>6
  <2> QED BY <2>2, <2>3, <2>4
<1>7. CASE IndexesIn
  <2>1. poll.phase = "index" /\ mem' = mem
    BY <1>7 DEF IndexesIn, AllIn
  <2>2. CASE Raise
    BY <1>4, <1>9, <2>1, <2>2
  <2>3. CASE ~ Raise
    <3>1. After = "lookup" /\ Entries = CollapseReissues(poll.listed)
      BY DEF After, Entries, P
    <3>2. /\ UNCHANGED <<setup, left, feed, held, restored>>
          /\ poll' = [poll EXCEPT !.phase = After, !.listed = Entries,
                         !.text = IF P = "twc" THEN @ ELSE Entries,
                         !.drawn = IF P = "gdacs" THEN {} ELSE Entries]
      BY <1>7, <2>3 DEF IndexesIn, Quiet, upstream, entry
    <3>3. PICK listed, text, drawn :
             /\ listed = CollapseReissues(poll.listed) /\ text = listed
             /\ poll' = [poll EXCEPT !.phase = "lookup", !.listed = listed, !.text = text,
                                     !.drawn = drawn]
      <4>1. P = "nws"
        BY DEF P
      <4>2. poll' = [poll EXCEPT !.phase = "lookup", !.listed = Entries,
                         !.text = Entries, !.drawn = Entries]
        BY <3>1, <3>2, <4>1
      <4> QED BY <3>1, <4>2
    <3>4. poll' = [phase |-> "lookup", faulty |-> poll.faulty, got |-> poll.got,
                   listed |-> listed, text |-> text, drawn |-> drawn, found |-> poll.found]
      BY <1>1, <3>3 DEF PollShape
    <3>5. listed \subseteq Doc /\ text \subseteq Doc
      BY <1>1, <3>3 DEF DocsInv, CollapseReissues
    <3>6. UNCHANGED <<setup, left, feed, held, restored>> /\ mem' = mem /\ poll.phase # "deliver"
      BY <2>1, <3>2
    <3> QED BY <1>3, <1>9, <3>4, <3>5, <3>6
  <2> QED BY <2>2, <2>3
<1>8. CASE TimesOut
  <2>1. /\ poll.phase \notin {"idle", "deliver"} /\ Raise
        /\ \E read \in SUBSET Leaves :
             mem' = [mem EXCEPT !.shapes = @ \cup {EventId(d) : d \in read}]
    BY <1>8 DEF TimesOut
  <2>2. PICK shapes : mem' = [mem EXCEPT !.shapes = shapes]
    <3>1. PICK read \in SUBSET Leaves :
             mem' = [mem EXCEPT !.shapes = @ \cup {EventId(d) : d \in read}]
      BY <2>1
    <3> QED BY <1>1, <3>1 DEF PollShape
  <2>3. /\ mem'.asked = mem.asked
        /\ mem' = [asked |-> mem'.asked, shapes |-> mem'.shapes, bulletins |-> mem'.bulletins,
                   resolved |-> mem'.resolved, read |-> mem'.read, links |-> mem'.links,
                   age |-> mem'.age, gone |-> mem'.gone, probe |-> mem'.probe]
    BY <1>1, <2>2 DEF PollShape
  <2> QED BY <1>4, <2>1, <2>3
<1> QED BY <1>5, <1>6, <1>7, <1>8

\* What the lookup found is no longer asked for; the rest still is.
LEMMA LookUpKeeps ==
  ASSUME FindableInv, setup.provider = "nws", NWSLookUp
  PROVE  FindableInv'
<1>1. PollShape /\ DocsInv /\ AskedInv
  BY DEF FindableInv
<1> DEFINE active == Ids("nws", poll.text)
<1>2. PICK found \in {{}, Cancelled(active)} :
        /\ poll' = [poll EXCEPT !.phase = "deliver", !.found = {id.alert : id \in found}]
        /\ mem' = [mem EXCEPT !.asked = Tracked(active, found)]
  BY DEF NWSLookUp
<1>3. poll.phase = "lookup" /\ UNCHANGED <<setup, left, feed, held, restored>>
  BY DEF NWSLookUp, Quiet, upstream, entry
<1>4. \A d \in poll.text : EventId(d) \in active
  BY DEF Ids, Alert, NWSAlert, NWSId, Built
<1>5. /\ active \subseteq Tracked(active, found)
      /\ \A a \in Alerts : left[a] # 0 /\ IdOf(a) \in mem.asked =>
           IdOf(a) \in Tracked(active, found) \/ a \in {id.alert : id \in found}
  <2>1. active \subseteq Tracked(active, found)
    BY DEF Tracked
  <2>2. ASSUME NEW a \in Alerts, left[a] # 0, IdOf(a) \in mem.asked, IdOf(a) \notin found
        PROVE  IdOf(a) \in Tracked(active, found)
    <3>1. IdOf(a).alert = a
      BY IdFacts
    <3> QED BY <2>2, <3>1 DEF Tracked, StillCancellable
  <2>3. ASSUME NEW a \in Alerts, IdOf(a) \in found
        PROVE  a \in {id.alert : id \in found}
    <3>1. IdOf(a).alert = a
      BY IdFacts
    <3> QED BY <2>3, <3>1
  <2> QED BY <2>1, <2>2, <2>3
<1>6. PICK ids, alerts : ids = Tracked(active, found) /\ alerts = {id.alert : id \in found}
  OBVIOUS
<1> HIDE DEF active
<1>7. /\ poll' = [phase |-> "deliver", faulty |-> poll.faulty, got |-> poll.got,
                  listed |-> poll.listed, text |-> poll.text, drawn |-> poll.drawn,
                  found |-> alerts]
      /\ mem' = [asked |-> ids, shapes |-> mem.shapes, bulletins |-> mem.bulletins,
                 resolved |-> mem.resolved, read |-> mem.read, links |-> mem.links,
                 age |-> mem.age, gone |-> mem.gone, probe |-> mem.probe]
  BY <1>1, <1>2, <1>6 DEF PollShape
<1>8. /\ poll'.phase = "deliver" /\ poll'.text = poll.text /\ poll'.listed = poll.listed
      /\ poll'.found = alerts /\ mem'.asked = ids
      /\ setup' = setup /\ left' = left /\ feed' = feed /\ held' = held /\ restored' = restored
  BY <1>3, <1>7
<1>9. PollShape' /\ DocsInv'
  BY <1>1, <1>7, <1>8 DEF PollShape, DocsInv
<1>10. ASSUME NEW a \in held' \ restored', Due(a)' PROVE IdOf(a) \in mem'.asked \/ a \in poll'.found
  <2>1. a \in held \ restored /\ a \in Alerts /\ left[a] # 0 /\ Due(a)
    BY <1>1, <1>8, <1>10 DEF DocsInv, Due
  <2>2. IdOf(a) \in mem.asked
    BY <1>1, <1>3, <2>1 DEF AskedInv
  <2> QED BY <1>5, <1>6, <1>8, <2>1, <2>2
<1>11. \A d \in poll'.text : EventId(d) \in mem'.asked
  BY <1>4, <1>5, <1>6, <1>8
<1>12. AskedInv'
  <2>1. \A a : IdOf(a)' = IdOf(a)
    BY DEF IdOf, EventId
  <2>2. \A d : EventId(d)' = EventId(d)
    BY DEF EventId
  <2> QED BY <1>8, <1>10, <1>11, <2>1, <2>2 DEF AskedInv
<1> QED BY <1>9, <1>12 DEF FindableInv

\* The batch is delivered: what the entry keeps of it is asked for.
LEMMA DeliverKeeps ==
  ASSUME FindableInv, setup.provider = "nws", Deliver
  PROVE  FindableInv'
<1>1. PollShape /\ DocsInv /\ AskedInv
  BY DEF FindableInv
<1>2. /\ ~ FiltersByShape /\ Leaves = poll.text
      /\ Filtered = poll.text \cap setup.wanted
  BY DEF FiltersByShape, P, Leaves, InScope, Filtered
<1>3. PICK batch : batch = poll.text \cap setup.wanted
  OBVIOUS
<1>4. /\ poll.phase = "deliver"
      /\ held' = Reconciled(batch)
      /\ restored' = (restored \cap held') \ Of(batch)
      /\ poll' = NoPoll /\ mem' = mem
      /\ UNCHANGED <<setup, left, feed>>
  BY <1>2, <1>3 DEF Deliver, upstream
<1>5. setup' = setup /\ left' = left /\ feed' = feed /\ mem' = mem
  BY <1>4
<1>6. PICK no, got : poll' = [phase |-> "idle", faulty |-> no, got |-> got, listed |-> {},
                              text |-> {}, drawn |-> {}, found |-> {}]
  BY <1>4 DEF NoPoll
<1>7. Of(batch) \subseteq Alerts /\ \A a \in Of(batch) : IdOf(a) \in mem.asked
  <2>1. ASSUME NEW a \in Of(batch) PROVE a \in Alerts /\ IdOf(a) \in mem.asked
    <3>1. PICK d \in batch : a = d.alert
      BY <2>1 DEF Of
    <3>2. d \in poll.text /\ d \in Doc
      BY <1>1, <1>3, <3>1 DEF DocsInv
    <3>3. EventId(d) \in mem.asked
      BY <1>1, <1>4, <3>2 DEF AskedInv
    <3> QED BY <3>1, <3>2, <3>3, IdFacts
  <2> QED BY <2>1
<1>8. held' \subseteq Alerts
  BY <1>1, <1>4, <1>7 DEF Reconciled, DocsInv
<1>9. PollShape' /\ DocsInv'
  BY <1>1, <1>5, <1>6, <1>8 DEF PollShape, DocsInv
<1>10. ASSUME NEW a \in held' \ restored', Due(a)' PROVE IdOf(a) \in mem'.asked
  <2>1. CASE a \in Of(batch)
    BY <1>5, <1>7, <2>1
  <2>2. CASE a \notin Of(batch)
    <3>1. a \in held /\ a \notin Ended(batch) /\ a \notin restored
      BY <1>4, <1>10, <2>2 DEF Reconciled
    <3>2. Due(a)
      BY <1>5, <1>10 DEF Due
    <3>3. a \notin poll.found
      BY <3>1, <3>2 DEF Ended, Found, Due
    <3> QED BY <1>1, <1>4, <1>5, <3>1, <3>2, <3>3 DEF AskedInv
  <2> QED BY <2>1, <2>2
<1>11. AskedInv'
  <2>1. \A a : IdOf(a)' = IdOf(a)
    BY DEF IdOf, EventId
  <2>2. poll'.phase = "idle"
    BY <1>6
  <2> QED BY <1>10, <2>1, <2>2 DEF AskedInv
<1> QED BY <1>9, <1>11 DEF FindableInv

\* A new provider asks for nothing yet; all that is held comes from the file.
LEMMA ReloadKeeps ==
  ASSUME FindableInv, setup.provider = "nws", Reload
  PROVE  FindableInv'
<1>1. PollShape /\ DocsInv
  BY DEF FindableInv
<1>2. /\ setup' = setup /\ left' = left /\ feed' = feed /\ poll' = poll /\ held' = held
      /\ restored' = held /\ mem' = NewInstance /\ poll.phase = "idle"
  BY DEF Reload, upstream, P
<1>3. PICK m, no, zero : /\ mem' = m /\ no = FALSE /\ zero = 0
                         /\ m = [asked |-> {}, shapes |-> {}, bulletins |-> {}, resolved |-> no,
                                 read |-> no, links |-> {}, age |-> zero, gone |-> zero,
                                 probe |-> zero]
  BY <1>2 DEF NewInstance
<1>4. PollShape' /\ DocsInv'
  BY <1>1, <1>2, <1>3 DEF PollShape, DocsInv
<1>5. AskedInv'
  BY <1>2 DEF AskedInv
<1> QED BY <1>4, <1>5 DEF FindableInv

\* As long as an NWS entry holds an alert that can still be cancelled, the
\* provider asks for its cancellation or has just found it (NWSProvider._tracked,
\* through polls that fail or are cut off, and alerts that go and come back).
THEOREM FindableInductive == PollsSpec => []FindableInv
<1>1. PollsInit => FindableInv
  <2> SUFFICES ASSUME PollsInit PROVE FindableInv
    OBVIOUS
  <2>1. /\ left = [a \in Alerts |-> Never] /\ feed = [i \in Indexes |-> {}]
        /\ mem = NewInstance /\ poll = NoPoll /\ held = {}
    BY DEF PollsInit
  <2>2. /\ mem = [asked |-> mem.asked, shapes |-> mem.shapes, bulletins |-> mem.bulletins,
                  resolved |-> mem.resolved, read |-> mem.read, links |-> mem.links,
                  age |-> mem.age, gone |-> mem.gone, probe |-> mem.probe]
    <3>1. PICK no, zero : mem = [asked |-> {}, shapes |-> {}, bulletins |-> {}, resolved |-> no,
                                 read |-> no, links |-> {}, age |-> zero, gone |-> zero,
                                 probe |-> zero]
      BY <2>1 DEF NewInstance
    <3> QED BY <3>1
  <2>3. PICK no, got : poll = [phase |-> "idle", faulty |-> no, got |-> got, listed |-> {},
                               text |-> {}, drawn |-> {}, found |-> {}]
    BY <2>1 DEF NoPoll
  <2>4. PollShape /\ DocsInv
    BY <2>1, <2>2, <2>3 DEF PollShape, DocsInv
  <2>5. AskedInv
    BY <2>1, <2>3 DEF AskedInv
  <2> QED BY <2>4, <2>5 DEF FindableInv
<1>2. FindableInv /\ [PollsNext]_pollsVars => FindableInv'
  <2> SUFFICES ASSUME FindableInv, [PollsNext]_pollsVars PROVE FindableInv'
    OBVIOUS
  <2>1. CASE UNCHANGED pollsVars
    <3>1. /\ setup' = setup /\ left' = left /\ feed' = feed /\ mem' = mem /\ poll' = poll
          /\ held' = held /\ restored' = restored
      BY <2>1 DEF pollsVars, upstream, entry
    <3> QED BY <3>1 DEF FindableInv, PollShape, DocsInv, AskedInv, Due, IdOf, EventId
  <2>2. CASE PollsNext
    <3>1. setup' = setup
      BY <2>2 DEF PollsNext, Proceed, Happens, Begin, Reload, Tick,
         Issue, End, List, Drop, Source, ReadIndex, NWSPage,
         GDACSIndex, BBKIndex, ECCCHost, TWCSlot, AUFeed,
         GeoSphereFeed, MeteoAlarmFeed, WMORegistry, WMOAuthority,
         WMOMirror, IndexesIn, BBKDocuments, WMODocuments,
         ECCCDocuments, BBKShapes, GDACSShapes, NWSLookUp, TimesOut,
         Deliver, Bodies, Answers, Fails, Raises, Raise,
         Quiet, Lists, Lacks
    <3>2. CASE setup.provider # "nws"
      BY <3>1, <3>2 DEF FindableInv
    <3>3. CASE setup.provider = "nws"
      <4>1. \/ Happens \/ Tick \/ Reload
            \/ \E faulty \in BOOLEAN : Begin(faulty)
            \/ \E i \in Indexes : NWSPage(i)
            \/ IndexesIn \/ TimesOut \/ NWSLookUp \/ Deliver
        BY <2>2, <3>3 DEF PollsNext, Proceed, ReadIndex, P,
           GDACSIndex, BBKIndex, ECCCHost, TWCSlot, AUFeed,
           GeoSphereFeed, MeteoAlarmFeed, WMORegistry, WMOAuthority,
           WMOMirror, BBKDocuments, WMODocuments, ECCCDocuments,
           BBKShapes, GDACSShapes
      <4> QED BY <3>3, <4>1, SourceKeeps, FetchKeeps, LookUpKeeps, DeliverKeeps, ReloadKeeps
    <3> QED BY <3>2, <3>3
  <2> QED BY <2>1, <2>2
<1> QED BY <1>1, <1>2, PTL DEF PollsSpec

\* CancellationsFindable, for any alerts, options, failures and bounds.
THEOREM CancellationsFound == PollsSpec => []CancellationsFindable
<1>1. FindableInv => CancellationsFindable
  BY DEF FindableInv, AskedInv, Due, IdOf, CancellationsFindable, P
<1> QED BY <1>1, FindableInductive, PTL
-----------------------------------------------------------------------------
(* Every source: a read that fails takes nothing (SourcePolls)             *)

Docs == feed["one"] \cup feed["two"] \cup mem.links \cup poll.listed \cup poll.text

MemRecord ==
  /\ mem = [asked |-> mem.asked, shapes |-> mem.shapes, bulletins |-> mem.bulletins,
            resolved |-> mem.resolved, read |-> mem.read, links |-> mem.links,
            age |-> mem.age, gone |-> mem.gone, probe |-> mem.probe]
  /\ \A id \in mem.asked : id.alert \in Alerts
PollRecord ==
  poll = [phase |-> poll.phase, faulty |-> poll.faulty, got |-> poll.got,
          listed |-> poll.listed, text |-> poll.text, drawn |-> poll.drawn,
          found |-> poll.found]

\* An expiry is published with the first message or never, and only what has
\* ended can be cancelled.
SourceInv ==
  /\ setup \in Setups
  /\ life \in [Alerts -> 0..Final]
  /\ left \in [Alerts -> Nat \cup {Never}] /\ window \in [Alerts -> Nat]
  /\ feed \in [Indexes -> SUBSET Doc]
  /\ \A a \in Alerts : life[a] > 0 => (left[a] = Never <=> Life(P, a) = Never)
  /\ \A a \in Alerts : window[a] > 0 => life[a] = Final

\* What a poll has read was published; what it found had ended.
PolledInv ==
  /\ \A d \in Docs : d \in Doc /\ d.rev <= life[d.alert]
  /\ \A a \in poll.found : a \in Alerts /\ life[a] = Final
  /\ P # "twc" => poll.text \subseteq poll.listed
  /\ poll.phase \in {"idle", "index", "lookup", "bodies", "shapes", "deliver"}

\* The entry holds what was issued and lies in its scope.
EntryInv ==
  \A a \in held : a \in Alerts /\ life[a] > 0 /\ (FiltersByShape => Inside[a])

\* A poll that is past its indexes has the answer of one.  No index is left
\* out of a poll unless the other one is asked: the authority's is while the
\* registry cannot be read, the mirror is only beside the authority's.
AnswersAt(phase, got, resolved) ==
  /\ got \in [Indexes -> {"pending", "unasked", "failed", "read"}]
  /\ phase = "index" /\ got["one"] = "unasked" =>
       P = "wmo" /\ ~resolved /\ got["two"] # "unasked"
  /\ phase = "index" /\ got["one"] = "pending" /\ P = "wmo" => got["two"] # "unasked"
  /\ phase \notin {"idle", "index"} => \E i \in Indexes : got[i] = "read"

\* GDACS remembers a shape of whatever was shipped with one, until a batch
\* without it; the batch to come ships one again of what is listed still.
ShownAt(phase, text, drawn, shapes) ==
  P = "gdacs" /\ ~setup.gps =>
    IF phase = "deliver"
    THEN /\ \A d \in text : d.alert \in shown => d \in drawn
         /\ \A d \in drawn : EventId(d) \in shapes
    ELSE \A a \in shown : IdOf(a) \in shapes

PollsInv ==
  /\ PollRecord /\ MemRecord /\ SourceInv /\ PolledInv /\ EntryInv
  /\ AnswersAt(poll.phase, poll.got, mem.resolved)
  /\ ShownAt(poll.phase, poll.text, poll.drawn, mem.shapes)

LEMMA MemSame == ASSUME MemRecord, mem' = mem PROVE MemRecord'
BY DEF MemRecord

\* A step of the poll, by what it leaves in the poll and in the provider.
LEMMA StepKeeps ==
  ASSUME PollsInv, UNCHANGED <<setup, upstream, held, shown>>,
         NEW phase, NEW faulty, NEW got, NEW listed, NEW text, NEW drawn, NEW found,
         poll' = [phase |-> phase, faulty |-> faulty, got |-> got, listed |-> listed,
                  text |-> text, drawn |-> drawn, found |-> found],
         MemRecord',
         NEW links, NEW resolved, NEW shapes,
         mem'.links = links, mem'.resolved = resolved, mem'.shapes = shapes,
         phase \in {"idle", "index", "lookup", "bodies", "shapes", "deliver"},
         listed \subseteq Docs, text \subseteq Docs, links \subseteq Docs,
         P # "twc" => text \subseteq listed,
         \A a \in found : a \in Alerts /\ life[a] = Final,
         AnswersAt(phase, got, resolved), ShownAt(phase, text, drawn, shapes)
  PROVE  PollsInv'
<1>1. /\ setup' = setup /\ life' = life /\ left' = left /\ window' = window /\ feed' = feed
      /\ held' = held /\ shown' = shown
  BY DEF upstream
<1>2. /\ poll'.phase = phase /\ poll'.got = got /\ poll'.listed = listed /\ poll'.text = text
      /\ poll'.drawn = drawn /\ poll'.found = found /\ PollRecord'
  BY DEF PollRecord
<1>3. SourceInv' /\ EntryInv'
  BY <1>1 DEF PollsInv, SourceInv, EntryInv, P, FiltersByShape, Life, Alert, NWSAlert,
     GDACSAlert, BBKAlert, WMOAlert, AUAlert, GeoSphereAlert, MeteoAlarmAlert, TWCAlert,
     ECCCAlert, Built
<1>4. Docs' \subseteq Docs
  BY <1>1, <1>2 DEF Docs
<1>5. PolledInv'
  BY <1>1, <1>2, <1>4 DEF PollsInv, PolledInv, P
<1>6. AnswersAt(phase, got, resolved)' /\ ShownAt(phase, text, drawn, shapes)'
  BY <1>1 DEF AnswersAt, ShownAt, P, IdOf, EventId
<1>7. AnswersAt(poll.phase, poll.got, mem.resolved)' /\ ShownAt(poll.phase, poll.text, poll.drawn, mem.shapes)'
  BY <1>2, <1>6
<1> QED BY <1>2, <1>3, <1>5, <1>7 DEF PollsInv

\* The poll is given up; GDACS keeps at least the shapes it had.
LEMMA RaiseKeeps ==
  ASSUME PollsInv, Raise, poll.phase # "deliver" \/ setup.gps \/ P # "gdacs",
         MemRecord', mem'.links = mem.links, mem'.resolved = mem.resolved,
         mem.shapes \subseteq mem'.shapes \/ poll.phase = "deliver"
  PROVE  PollsInv'
<1>1. UNCHANGED <<setup, upstream, held, shown>>
  BY DEF Raise, entry
<1>2. PICK no, got :
        /\ poll' = [phase |-> "idle", faulty |-> no, got |-> got, listed |-> {},
                    text |-> {}, drawn |-> {}, found |-> {}]
        /\ got = [i \in Indexes |-> "unasked"]
  BY DEF Raise, NoPoll
<1>3. AnswersAt("idle", got, mem.resolved)
  BY <1>2 DEF AnswersAt
<1>4. PICK shapes : shapes = mem'.shapes
  OBVIOUS
<1>5. ShownAt("idle", {}, {}, shapes)
  BY <1>4 DEF PollsInv, ShownAt
<1>6. PICK links, resolved : links = mem.links /\ resolved = mem.resolved
  OBVIOUS
<1>7. /\ mem'.shapes = shapes /\ mem'.links = links /\ mem'.resolved = resolved
      /\ links \subseteq Docs /\ AnswersAt("idle", got, resolved)
  BY <1>3, <1>4, <1>6 DEF Docs
<1>8. poll' = [phase |-> "idle", faulty |-> no, got |-> got, listed |-> {},
               text |-> {}, drawn |-> {}, found |-> {}]
  BY <1>2
<1> QED BY <1>1, <1>5, <1>7, <1>8, StepKeeps

\* An index answers, fails, or is left out.
LEMMA ReadKeeps ==
  ASSUME PollsInv, UNCHANGED <<setup, upstream, held, shown>>,
         NEW i \in Indexes, NEW why \in {"read", "failed", "unasked"}, NEW listed, NEW text,
         Next2Read(i),
         poll' = [phase |-> poll.phase, faulty |-> poll.faulty,
                  got |-> [poll.got EXCEPT ![i] = why], listed |-> listed, text |-> text,
                  drawn |-> poll.drawn, found |-> poll.found],
         MemRecord', mem'.resolved = mem.resolved, mem'.shapes = mem.shapes,
         mem'.links \subseteq Docs, listed \subseteq Docs, text \subseteq Docs,
         P # "twc" => text \subseteq listed,
         why = "unasked" => P = "wmo" /\ (i = "one" <=> ~mem.resolved)
  PROVE  PollsInv'
<1>1. /\ poll.phase = "index" /\ poll.got[i] = "pending"
      /\ i = "two" /\ P = "wmo" => poll.got["one"] # "pending"
  BY DEF Next2Read
<1>2. PICK got : got = [poll.got EXCEPT ![i] = why]
  OBVIOUS
<1>3. AnswersAt("index", got, mem.resolved)
  <2>1. /\ poll.got \in [Indexes -> {"pending", "unasked", "failed", "read"}]
        /\ poll.got["one"] = "unasked" =>
             P = "wmo" /\ ~mem.resolved /\ poll.got["two"] # "unasked"
        /\ poll.got["one"] = "pending" /\ P = "wmo" => poll.got["two"] # "unasked"
    BY <1>1 DEF PollsInv, AnswersAt
  <2>2. CASE i = "one"
    BY <1>1, <1>2, <2>1, <2>2 DEF AnswersAt, Indexes
  <2>3. CASE i = "two"
    BY <1>1, <1>2, <2>1, <2>3 DEF AnswersAt, Indexes
  <2> QED BY <2>2, <2>3 DEF Indexes
<1>4. ShownAt("index", text, poll.drawn, mem.shapes)
  BY <1>1 DEF PollsInv, ShownAt
<1>5. \A a \in poll.found : a \in Alerts /\ life[a] = Final
  BY DEF PollsInv, PolledInv
<1>6. PICK links : links = mem'.links
  OBVIOUS
<1>7. /\ poll' = [phase |-> "index", faulty |-> poll.faulty, got |-> got, listed |-> listed,
                  text |-> text, drawn |-> poll.drawn, found |-> poll.found]
      /\ mem'.links = links /\ links \subseteq Docs
  BY <1>1, <1>2, <1>6
<1> QED BY <1>3, <1>4, <1>5, <1>7, StepKeeps

LEMMA PollFields ==
  ASSUME PollsInv
  PROVE  /\ PollRecord /\ MemRecord
         /\ poll.listed \subseteq Docs /\ poll.text \subseteq Docs /\ mem.links \subseteq Docs
         /\ \A i \in Indexes : feed[i] \subseteq Docs
         /\ P # "twc" => poll.text \subseteq poll.listed
BY DEF PollsInv, PolledInv, Docs, Indexes

\* The index is read as it is, or as a provider filters it.
LEMMA ListsKeeps ==
  ASSUME PollsInv, NEW i \in Indexes, Next2Read(i), NEW D, D \subseteq Docs, Lists(i, D),
         MemRecord', mem'.resolved = mem.resolved, mem'.shapes = mem.shapes,
         mem'.links \subseteq Docs
  PROVE  PollsInv'
<1>1. /\ poll' = [poll EXCEPT !.got[i] = "read", !.listed = @ \cup D]
      /\ UNCHANGED <<setup, upstream, held, shown>>
  BY DEF Lists, Quiet, entry
<1>2. PICK listed : listed = poll.listed \cup D
  OBVIOUS
<1>3. poll' = [phase |-> poll.phase, faulty |-> poll.faulty, got |-> [poll.got EXCEPT ![i] = "read"],
               listed |-> listed, text |-> poll.text, drawn |-> poll.drawn, found |-> poll.found]
  BY <1>1, <1>2, PollFields DEF PollRecord
<1>4. listed \subseteq Docs /\ poll.text \subseteq Docs /\ (P # "twc" => poll.text \subseteq listed)
  BY <1>2, PollFields
<1> QED BY <1>1, <1>3, <1>4, ReadKeeps

LEMMA LacksKeeps ==
  ASSUME PollsInv, NEW i \in Indexes, Next2Read(i), NEW why \in {"failed", "unasked"}, Lacks(i, why),
         why = "unasked" => P = "wmo" /\ (i = "one" <=> ~mem.resolved),
         MemRecord', mem'.resolved = mem.resolved, mem'.shapes = mem.shapes,
         mem'.links \subseteq Docs
  PROVE  PollsInv'
<1>1. /\ poll' = [poll EXCEPT !.got[i] = why]
      /\ UNCHANGED <<setup, upstream, held, shown>>
  BY DEF Lacks, Quiet, entry
<1>2. poll' = [phase |-> poll.phase, faulty |-> poll.faulty, got |-> [poll.got EXCEPT ![i] = why],
               listed |-> poll.listed, text |-> poll.text, drawn |-> poll.drawn, found |-> poll.found]
  BY <1>1, PollFields DEF PollRecord
<1>3. /\ why \in {"read", "failed", "unasked"}
      /\ poll.listed \subseteq Docs /\ poll.text \subseteq Docs
      /\ P # "twc" => poll.text \subseteq poll.listed
  BY PollFields
<1> QED BY <1>1, <1>2, <1>3, ReadKeeps

\* The indexes of the nine sources, read by read.
LEMMA IndexReadsKeep ==
  ASSUME PollsInv,
         \/ \E i \in Indexes : ReadIndex(i)
         \/ AUFeed \/ GeoSphereFeed \/ MeteoAlarmFeed
         \/ WMORegistry \/ WMOAuthority \/ WMOMirror
  PROVE  PollsInv'
<1>1. "one" \in Indexes /\ "two" \in Indexes
  BY DEF Indexes
<1>2. ASSUME mem' = mem
      PROVE  /\ MemRecord' /\ mem'.resolved = mem.resolved /\ mem'.shapes = mem.shapes
             /\ mem'.links = mem.links /\ mem'.links \subseteq Docs
  BY <1>2, PollFields, MemSame
<1>3. ASSUME NEW i \in Indexes, Next2Read(i), Answers(i) PROVE PollsInv'
  BY <1>2, <1>3, PollFields, ListsKeeps DEF Answers
<1>4. ASSUME NEW i \in Indexes, Next2Read(i), Lacks(i, "failed"), mem' = mem PROVE PollsInv'
  BY <1>2, <1>4, LacksKeeps
<1>5. ASSUME NEW i \in Indexes, Next2Read(i), Raises PROVE PollsInv'
  <2>1. Raise /\ mem' = mem /\ poll.phase # "deliver"
    BY <1>5 DEF Raises, Next2Read
  <2> QED BY <1>2, <2>1, RaiseKeeps
<1>6. CASE \E i \in Indexes : ReadIndex(i)
  <2>1. PICK i \in Indexes : ReadIndex(i)
    BY <1>6
  <2>2. CASE NWSPage(i)
    BY <1>3, <1>5, <2>2 DEF NWSPage
  <2>3. CASE GDACSIndex(i)
    <3>1. feed[i] \cap setup.wanted \subseteq Docs
      BY PollFields
    <3> QED BY <1>2, <1>4, <2>3, <3>1, ListsKeeps DEF GDACSIndex
  <2>4. CASE BBKIndex(i)
    BY <1>3, <1>4, <2>4 DEF BBKIndex, Fails
  <2>5. CASE ECCCHost(i)
    BY <1>3, <1>4, <2>5 DEF ECCCHost, Fails
  <2>6. CASE TWCSlot(i)
    <3>1. Next2Read(i) /\ P = "twc"
      BY <2>6 DEF TWCSlot
    <3>2. CASE Raises
      BY <1>5, <3>1, <3>2
    <3>3. CASE ~Raises
      <4>1. PICK lost \in SUBSET (feed[i] \ mem.bulletins) :
              /\ poll' = [poll EXCEPT !.got[i] = "read", !.listed = @ \cup feed[i],
                                      !.text = @ \cup (feed[i] \ lost)]
              /\ mem' = [mem EXCEPT !.bulletins =
                   IF feed[i] \ lost = {} THEN @
                   ELSE {d \in @ : Slot[d.alert] # i} \cup feed[i]]
              /\ UNCHANGED <<setup, upstream, held, shown>>
        BY <2>6, <3>3 DEF TWCSlot, Quiet, entry
      <4>2. PICK bulletins : mem' = [mem EXCEPT !.bulletins = bulletins]
        BY <4>1, PollFields DEF MemRecord
      <4>3. /\ MemRecord' /\ mem'.resolved = mem.resolved /\ mem'.shapes = mem.shapes
            /\ mem'.links \subseteq Docs
        BY <4>2, PollFields DEF MemRecord
      <4>4. PICK listed, text : listed = poll.listed \cup feed[i] /\ text = poll.text \cup (feed[i] \ lost)
        OBVIOUS
      <4>5. poll' = [phase |-> poll.phase, faulty |-> poll.faulty,
                     got |-> [poll.got EXCEPT ![i] = "read"], listed |-> listed, text |-> text,
                     drawn |-> poll.drawn, found |-> poll.found]
        BY <4>1, <4>4, PollFields DEF PollRecord
      <4>6. listed \subseteq Docs /\ text \subseteq Docs
        BY <4>4, PollFields
      <4>7. UNCHANGED <<setup, upstream, held, shown>>
        BY <4>1
      <4> QED BY <3>1, <4>3, <4>5, <4>6, <4>7, ReadKeeps
    <3> QED BY <3>2, <3>3
  <2> QED BY <2>1, <2>2, <2>3, <2>4, <2>5, <2>6 DEF ReadIndex
<1>7. CASE AUFeed \/ GeoSphereFeed \/ MeteoAlarmFeed
  BY <1>1, <1>3, <1>5, <1>7 DEF AUFeed, GeoSphereFeed, MeteoAlarmFeed
<1>8. CASE WMORegistry
  <2>1. P = "wmo" /\ ~mem.resolved /\ Next2Read("one")
    BY <1>8 DEF WMORegistry
  <2>2. CASE Lacks("one", "unasked") /\ mem' = mem
    BY <1>1, <1>2, <2>1, <2>2, LacksKeeps
  <2>3. CASE ~ (Lacks("one", "unasked") /\ mem' = mem)
    <3>1. /\ mem' = [mem EXCEPT !.resolved = TRUE] /\ poll' = poll
          /\ UNCHANGED <<setup, upstream, held, shown>>
      BY <1>8, <2>3 DEF WMORegistry, Quiet, entry
    <3>2. PICK resolved : resolved = TRUE
      OBVIOUS
    <3>3. mem' = [mem EXCEPT !.resolved = resolved]
      BY <3>1, <3>2
    <3>4. PICK links, shapes : links = mem.links /\ shapes = mem.shapes
      OBVIOUS
    <3>5. /\ MemRecord' /\ mem'.resolved = resolved /\ mem'.shapes = shapes
          /\ mem'.links = links /\ links \subseteq Docs
      BY <3>3, <3>4, PollFields DEF MemRecord
    <3>6. /\ AnswersAt(poll.phase, poll.got, resolved)
          /\ ShownAt(poll.phase, poll.text, poll.drawn, shapes)
          /\ \A a \in poll.found : a \in Alerts /\ life[a] = Final
          /\ poll.phase \in {"idle", "index", "lookup", "bodies", "shapes", "deliver"}
      BY <2>1, <3>4 DEF PollsInv, PolledInv, AnswersAt, Next2Read
    <3>7. poll' = [phase |-> poll.phase, faulty |-> poll.faulty, got |-> poll.got,
                   listed |-> poll.listed, text |-> poll.text, drawn |-> poll.drawn,
                   found |-> poll.found]
      BY <3>1, PollFields DEF PollRecord
    <3>8. /\ poll.listed \subseteq Docs /\ poll.text \subseteq Docs
          /\ P # "twc" => poll.text \subseteq poll.listed
      BY PollFields
    <3>9. UNCHANGED <<setup, upstream, held, shown>>
      BY <3>1
    <3> QED BY <3>5, <3>6, <3>7, <3>8, <3>9, StepKeeps
  <2> QED BY <2>2, <2>3
<1>9. CASE WMOAuthority
  <2>1. P = "wmo" /\ mem.resolved /\ Next2Read("one")
    BY <1>9 DEF WMOAuthority
  <2>2. CASE Lists("one", mem.links) /\ mem' = mem
    BY <1>1, <1>2, <2>1, <2>2, PollFields, ListsKeeps
  <2>3. CASE Fails("one")
    BY <1>1, <1>4, <2>1, <2>3 DEF Fails
  <2>4. CASE /\ Lists("one", feed["one"])
             /\ mem' = [mem EXCEPT !.read = TRUE, !.links = feed["one"], !.age = 0]
    <3>1. PICK read, links : links = feed["one"] /\ mem' = [mem EXCEPT !.read = read, !.links = links, !.age = 0]
      BY <2>4
    <3>2. /\ MemRecord' /\ mem'.resolved = mem.resolved /\ mem'.shapes = mem.shapes
          /\ mem'.links \subseteq Docs
      BY <1>1, <3>1, PollFields DEF MemRecord
    <3> QED BY <1>1, <2>1, <2>4, <3>2, PollFields, ListsKeeps
  <2> QED BY <1>9, <2>2, <2>3, <2>4 DEF WMOAuthority
<1>10. CASE WMOMirror
  <2>1. P = "wmo" /\ Next2Read("two")
    BY <1>10 DEF WMOMirror
  <2>2. CASE Beside /\ Lacks("two", "unasked") /\ mem' = mem
    BY <1>1, <1>2, <2>1, <2>2, LacksKeeps DEF Beside
  <2>3. CASE /\ Lists("two", feed["two"])
             /\ mem' = [mem EXCEPT !.gone = 0, !.probe = 0]
    <3>1. /\ MemRecord' /\ mem'.resolved = mem.resolved /\ mem'.shapes = mem.shapes
          /\ mem'.links \subseteq Docs
      BY <2>3, PollFields DEF MemRecord
    <3> QED BY <1>1, <2>1, <2>3, <3>1, PollFields, ListsKeeps
  <2>4. CASE Fails("two")
    BY <1>1, <1>4, <2>1, <2>4 DEF Fails
  <2>5. CASE /\ Lacks("two", "failed")
             /\ mem' = IF ~Beside THEN mem
                        ELSE [mem EXCEPT !.gone = IF @ < Streak THEN @ + 1 ELSE @,
                               !.probe = IF mem.gone + 1 >= Streak THEN Interval
                                         ELSE @]
    <3>1. \/ mem' = mem
          \/ \E gone, probe : mem' = [mem EXCEPT !.gone = gone, !.probe = probe]
      BY <2>5
    <3>2. CASE mem' = mem
      BY <1>1, <1>4, <2>1, <2>5, <3>2
    <3>3. CASE \E gone, probe : mem' = [mem EXCEPT !.gone = gone, !.probe = probe]
      <4>1. PICK gone, probe : mem' = [mem EXCEPT !.gone = gone, !.probe = probe]
        BY <3>3
      <4>2. /\ MemRecord' /\ mem'.resolved = mem.resolved /\ mem'.shapes = mem.shapes
            /\ mem'.links \subseteq Docs
        BY <4>1, PollFields DEF MemRecord
      <4> QED BY <1>1, <2>1, <2>5, <4>2, LacksKeeps
    <3> QED BY <3>1, <3>2, <3>3
  <2> QED BY <1>10, <2>2, <2>3, <2>4, <2>5 DEF WMOMirror
<1> QED BY <1>6, <1>7, <1>8, <1>9, <1>10

\* The rest of a fetch: the indexes are in, then documents, shapes and lookups.
LEMMA FetchGoesOn ==
  ASSUME PollsInv,
         \/ \E faulty \in BOOLEAN : Begin(faulty)
         \/ IndexesIn \/ BBKDocuments \/ WMODocuments \/ ECCCDocuments
         \/ BBKShapes \/ NWSLookUp
  PROVE  PollsInv'
<1>1. /\ PollRecord /\ MemRecord
      /\ poll.listed \subseteq Docs /\ poll.text \subseteq Docs /\ mem.links \subseteq Docs
      /\ P # "twc" => poll.text \subseteq poll.listed
  BY PollFields
<1>2. \A a \in poll.found : a \in Alerts /\ life[a] = Final
  BY DEF PollsInv, PolledInv
\* What the source and the entry have is left alone; so is what GDACS remembers.
<1>3. ASSUME NEW phase, NEW faulty, NEW got, NEW listed, NEW text, NEW drawn, NEW found,
             UNCHANGED <<setup, upstream, held, shown>>,
             poll' = [phase |-> phase, faulty |-> faulty, got |-> got, listed |-> listed,
                      text |-> text, drawn |-> drawn, found |-> found],
             MemRecord', mem'.links = mem.links, mem'.resolved = mem.resolved,
             mem'.shapes = mem.shapes,
             phase \in {"idle", "index", "lookup", "bodies", "shapes", "deliver"},
             listed \subseteq Docs, text \subseteq Docs, P # "twc" => text \subseteq listed,
             \A a \in found : a \in Alerts /\ life[a] = Final,
             AnswersAt(phase, got, mem.resolved),
             P = "gdacs" => phase # "deliver" /\ poll.phase # "deliver"
      PROVE  PollsInv'
  <2>1. PICK links, resolved, shapes :
          links = mem.links /\ resolved = mem.resolved /\ shapes = mem.shapes
    OBVIOUS
  <2>2. /\ mem'.links = links /\ mem'.resolved = resolved /\ mem'.shapes = shapes
        /\ links \subseteq Docs /\ AnswersAt(phase, got, resolved)
    BY <1>1, <1>3, <2>1
  <2>3. ShownAt(phase, text, drawn, shapes)
    BY <1>3, <2>1 DEF PollsInv, ShownAt
  <2> QED BY <1>3, <2>2, <2>3, StepKeeps
<1>4. ASSUME mem' = mem
      PROVE  /\ MemRecord' /\ mem'.resolved = mem.resolved /\ mem'.shapes = mem.shapes
             /\ mem'.links = mem.links
  BY <1>1, <1>4, MemSame
<1>5. CASE \E faulty \in BOOLEAN : Begin(faulty)
  <2>1. PICK faulty \in BOOLEAN : Begin(faulty)
    BY <1>5
  <2>2. /\ poll.phase = "idle" /\ mem' = mem /\ UNCHANGED <<setup, upstream, held, shown>>
        /\ poll' = [NoPoll EXCEPT !.phase = "index", !.faulty = faulty,
                      !.got = [i \in Indexes |-> IF i \in Reads THEN "pending" ELSE "unasked"]]
    BY <2>1 DEF Begin, Quiet, entry
  <2>3. PICK s, no, none, yes, got :
           /\ s = [phase |-> "idle", faulty |-> no, got |-> none, listed |-> {}, text |-> {},
                   drawn |-> {}, found |-> {}]
           /\ got = [i \in Indexes |-> IF i \in Reads THEN "pending" ELSE "unasked"]
           /\ poll' = [s EXCEPT !.phase = "index", !.faulty = yes, !.got = got]
    BY <2>2 DEF NoPoll
  <2>4. poll' = [phase |-> "index", faulty |-> yes, got |-> got, listed |-> {}, text |-> {},
                 drawn |-> {}, found |-> {}]
    BY <2>3
  <2>5. AnswersAt("index", got, mem.resolved)
    BY <2>3 DEF AnswersAt, Reads, Indexes, P
  <2>6. UNCHANGED <<setup, upstream, held, shown>> /\ mem' = mem /\ poll.phase # "deliver"
    BY <2>2
  <2> QED BY <1>3, <1>4, <2>4, <2>5, <2>6
<1>6. CASE IndexesIn
  <2>1. poll.phase = "index" /\ (\A i \in Indexes : poll.got[i] # "pending") /\ mem' = mem
    BY <1>6 DEF IndexesIn, AllIn
  <2>2. CASE Raise
    BY <1>4, <2>1, <2>2, RaiseKeeps
  <2>3. CASE ~Raise
    <3>1. /\ ~AllFailed(Asked, Answered) /\ UNCHANGED <<setup, upstream, held, shown>>
          /\ poll' = [poll EXCEPT !.phase = After, !.listed = Entries,
                       !.text = IF P = "twc" THEN @ ELSE Entries,
                       !.drawn = IF P = "gdacs" THEN {} ELSE Entries]
      BY <1>6, <2>3 DEF IndexesIn, Quiet, entry
    <3>2. After \in {"lookup", "bodies", "shapes", "deliver"} /\ (P = "gdacs" => After = "shapes")
      BY DEF After
    <3>3. Entries \subseteq poll.listed
      <4>1. /\ CollapseReissues(poll.listed) \subseteq poll.listed
            /\ MergeIndexes(poll.listed) \subseteq poll.listed
            /\ LiveDocs(poll.listed, left) \subseteq poll.listed
        BY DEF CollapseReissues, MergeIndexes, LiveDocs
      <4>2. poll.listed \cap ECCCReads[Region] \subseteq poll.listed
        OBVIOUS
      <4> QED BY <4>1, <4>2 DEF Entries
    <3>4. PICK phase, listed, text, drawn :
             /\ phase = After /\ listed = Entries
             /\ text = (IF P = "twc" THEN poll.text ELSE listed)
             /\ poll' = [poll EXCEPT !.phase = phase, !.listed = listed, !.text = text,
                                     !.drawn = drawn]
      BY <1>1, <3>1 DEF PollRecord
    <3>5. poll' = [phase |-> phase, faulty |-> poll.faulty, got |-> poll.got,
                   listed |-> listed, text |-> text, drawn |-> drawn, found |-> poll.found]
      BY <1>1, <3>4 DEF PollRecord
    <3>6. listed \subseteq Docs /\ text \subseteq Docs /\ (P # "twc" => text \subseteq listed)
      BY <1>1, <3>3, <3>4
    <3>7. Asked # {} /\ poll.got \in [Indexes -> {"pending", "unasked", "failed", "read"}]
      <4>1. AnswersAt(poll.phase, poll.got, mem.resolved)
        BY DEF PollsInv
      <4> QED BY <2>1, <4>1 DEF AnswersAt, Asked, Indexes
    <3>8. \E i \in Indexes : poll.got[i] = "read"
      BY <3>1, <3>7 DEF AllFailed, Answered
    <3>9. AnswersAt(phase, poll.got, mem.resolved)
      BY <3>2, <3>4, <3>7, <3>8 DEF AnswersAt
    <3>10. UNCHANGED <<setup, upstream, held, shown>> /\ poll.phase # "deliver"
           /\ (P = "gdacs" => phase # "deliver")
           /\ phase \in {"idle", "index", "lookup", "bodies", "shapes", "deliver"}
      BY <2>1, <3>1, <3>2, <3>4
    <3> QED BY <1>2, <1>3, <1>4, <2>1, <3>5, <3>6, <3>9, <3>10
  <2> QED BY <2>2, <2>3
<1>7. ASSUME NEW lost, NEW next \in {"shapes", "deliver"}, Bodies(lost, next), P # "gdacs" PROVE PollsInv'
  <2>1. /\ poll.phase = "bodies" /\ mem' = mem /\ UNCHANGED <<setup, upstream, held, shown>>
        /\ poll' = [poll EXCEPT !.phase = next, !.text = poll.listed \ lost,
                                !.drawn = IF next = "shapes" THEN {} ELSE poll.listed \ lost]
    BY <1>7 DEF Bodies, Quiet, entry
  <2>2. PICK text, drawn : /\ text = poll.listed \ lost
                           /\ poll' = [poll EXCEPT !.phase = next, !.text = text, !.drawn = drawn]
    BY <2>1
  <2>3. poll' = [phase |-> next, faulty |-> poll.faulty, got |-> poll.got,
                 listed |-> poll.listed, text |-> text, drawn |-> drawn, found |-> poll.found]
    BY <1>1, <2>2 DEF PollRecord
  <2>4. AnswersAt(next, poll.got, mem.resolved)
    BY <2>1 DEF PollsInv, AnswersAt
  <2>5. text \subseteq Docs /\ text \subseteq poll.listed
    BY <1>1, <2>2
  <2>6. /\ UNCHANGED <<setup, upstream, held, shown>> /\ mem' = mem
        /\ next \in {"idle", "index", "lookup", "bodies", "shapes", "deliver"}
    BY <2>1
  <2> QED BY <1>1, <1>2, <1>3, <1>4, <1>7, <2>3, <2>4, <2>5, <2>6
<1>8. CASE BBKDocuments \/ WMODocuments \/ ECCCDocuments
  <2>1. P # "gdacs" /\ \E lost \in SUBSET poll.listed : Bodies(lost, "shapes") \/ Bodies(lost, "deliver")
    BY <1>8 DEF BBKDocuments, WMODocuments, ECCCDocuments
  <2>2. PICK lost : Bodies(lost, "shapes") \/ Bodies(lost, "deliver")
    BY <2>1
  <2>3. CASE Bodies(lost, "shapes")
    BY <1>7, <2>1, <2>3
  <2>4. CASE Bodies(lost, "deliver")
    BY <1>7, <2>1, <2>4
  <2> QED BY <2>2, <2>3, <2>4
<1>9. CASE BBKShapes
  <2>1. PICK drawn : poll' = [poll EXCEPT !.phase = "deliver", !.drawn = drawn]
    BY <1>9 DEF BBKShapes
  <2>2. /\ poll.phase = "shapes" /\ mem' = mem /\ P = "bbk"
        /\ UNCHANGED <<setup, upstream, held, shown>>
    BY <1>9 DEF BBKShapes, Quiet, entry
  <2>3. poll' = [phase |-> "deliver", faulty |-> poll.faulty, got |-> poll.got,
                 listed |-> poll.listed, text |-> poll.text, drawn |-> drawn,
                 found |-> poll.found]
    BY <1>1, <2>1 DEF PollRecord
  <2>4. AnswersAt("deliver", poll.got, mem.resolved)
    BY <2>2 DEF PollsInv, AnswersAt
  <2>5. P # "gdacs" /\ mem' = mem /\ UNCHANGED <<setup, upstream, held, shown>>
    BY <2>2
  <2> QED BY <1>1, <1>2, <1>3, <1>4, <2>3, <2>4, <2>5
<1>10. CASE NWSLookUp
  <2> DEFINE active == Ids("nws", poll.text)
  <2>1. PICK found \in {{}, Cancelled(active)} :
          /\ poll' = [poll EXCEPT !.phase = "deliver", !.found = {id.alert : id \in found}]
          /\ mem' = [mem EXCEPT !.asked = Tracked(active, found)]
    BY <1>10 DEF NWSLookUp
  <2>2. P = "nws" /\ poll.phase = "lookup" /\ UNCHANGED <<setup, upstream, held, shown>>
    BY <1>10 DEF NWSLookUp, Quiet, entry
  <2>3. PICK ids, alerts : ids = Tracked(active, found) /\ alerts = {id.alert : id \in found}
    OBVIOUS
  <2>4. \A a \in alerts : a \in Alerts /\ life[a] = Final
    <3>1. ASSUME NEW id \in found PROVE id.alert \in Alerts /\ window[id.alert] > 0
      BY <1>1, <2>1, <3>1 DEF Cancelled, MemRecord
    <3> QED BY <2>3, <3>1 DEF PollsInv, SourceInv
  <2>5. \A id \in ids : id.alert \in Alerts
    <3>1. \A d \in poll.text : d.alert \in Alerts
      BY <1>1 DEF PollsInv, PolledInv, Doc
    <3>2. ASSUME NEW id \in active PROVE id.alert \in Alerts
      <4>1. PICK d \in poll.text : id = EventId(d)
        BY <3>2 DEF Ids, Alert, NWSAlert, NWSId, Built
      <4>2. d \in Doc
        BY <1>1 DEF PollsInv, PolledInv
      <4> QED BY <3>1, <4>1, <4>2 DEF EventId, Doc
    <3> HIDE DEF active
    <3> QED BY <1>1, <2>3, <3>2 DEF Tracked, MemRecord
  <2> HIDE DEF active
  <2>6. /\ poll' = [phase |-> "deliver", faulty |-> poll.faulty, got |-> poll.got,
                    listed |-> poll.listed, text |-> poll.text, drawn |-> poll.drawn,
                    found |-> alerts]
        /\ mem' = [asked |-> ids, shapes |-> mem.shapes, bulletins |-> mem.bulletins,
                   resolved |-> mem.resolved, read |-> mem.read, links |-> mem.links,
                   age |-> mem.age, gone |-> mem.gone, probe |-> mem.probe]
    BY <1>1, <2>1, <2>3 DEF PollRecord, MemRecord
  <2>7. /\ MemRecord' /\ mem'.links = mem.links /\ mem'.resolved = mem.resolved
        /\ mem'.shapes = mem.shapes
    BY <2>5, <2>6 DEF MemRecord
  <2>8. AnswersAt("deliver", poll.got, mem.resolved) /\ P # "gdacs"
    BY <2>2 DEF PollsInv, AnswersAt
  <2>9. UNCHANGED <<setup, upstream, held, shown>>
    BY <2>2
  <2> QED BY <1>1, <1>3, <2>4, <2>6, <2>7, <2>8, <2>9
<1> QED BY <1>5, <1>6, <1>8, <1>9, <1>10

\* GDACS draws the batch: what it has shown it remembers a shape of.
LEMMA ShapesKeep ==
  ASSUME PollsInv, GDACSShapes
  PROVE  PollsInv'
<1>1. /\ PollRecord /\ MemRecord
      /\ poll.listed \subseteq Docs /\ poll.text \subseteq Docs /\ mem.links \subseteq Docs
      /\ P # "twc" => poll.text \subseteq poll.listed
  BY PollFields
<1>2. /\ P = "gdacs" /\ poll.phase = "shapes" /\ UNCHANGED <<setup, upstream, held, shown>>
      /\ Leaves = poll.text
  BY DEF GDACSShapes, Quiet, entry, Leaves
<1>3. PICK read \in SUBSET Leaves :
        /\ poll' = [poll EXCEPT !.phase = "deliver", !.drawn = Remembered(read)]
        /\ mem' = [mem EXCEPT !.shapes = IF Leaves = {} THEN @
                                         ELSE {EventId(d) : d \in Remembered(read)}]
  BY DEF GDACSShapes
<1>4. PICK drawn, shapes :
        /\ drawn = read \cup {d \in poll.text : EventId(d) \in mem.shapes}
        /\ shapes = IF poll.text = {} THEN mem.shapes ELSE {EventId(d) : d \in drawn}
        /\ poll' = [poll EXCEPT !.phase = "deliver", !.drawn = drawn]
        /\ mem' = [mem EXCEPT !.shapes = shapes]
  BY <1>2, <1>3 DEF Remembered
<1>5. \A d \in drawn : EventId(d) \in shapes /\ d \in poll.text
  BY <1>2, <1>3, <1>4
<1>6. ASSUME ~setup.gps, NEW d \in poll.text, d.alert \in shown PROVE d \in drawn
  <2>1. IdOf(d.alert) \in mem.shapes
    BY <1>2, <1>6 DEF PollsInv, ShownAt
  <2>2. d \in Doc
    BY <1>1 DEF PollsInv, PolledInv
  <2> QED BY <1>4, <2>1, <2>2, IdFacts
<1>7. ShownAt("deliver", poll.text, drawn, shapes)
  BY <1>5, <1>6 DEF ShownAt
<1>8. /\ poll' = [phase |-> "deliver", faulty |-> poll.faulty, got |-> poll.got,
                  listed |-> poll.listed, text |-> poll.text, drawn |-> drawn,
                  found |-> poll.found]
      /\ mem' = [asked |-> mem.asked, shapes |-> shapes, bulletins |-> mem.bulletins,
                 resolved |-> mem.resolved, read |-> mem.read, links |-> mem.links,
                 age |-> mem.age, gone |-> mem.gone, probe |-> mem.probe]
  BY <1>1, <1>4 DEF PollRecord, MemRecord
<1>9. PICK links, resolved : links = mem.links /\ resolved = mem.resolved
  OBVIOUS
<1>10. /\ MemRecord' /\ mem'.links = links /\ mem'.resolved = resolved /\ mem'.shapes = shapes
       /\ links \subseteq Docs
  BY <1>1, <1>8, <1>9 DEF MemRecord
<1>11. /\ AnswersAt("deliver", poll.got, resolved)
       /\ \A a \in poll.found : a \in Alerts /\ life[a] = Final
  BY <1>2, <1>9 DEF PollsInv, PolledInv, AnswersAt
<1>12. UNCHANGED <<setup, upstream, held, shown>>
  BY <1>2
<1> QED BY <1>1, <1>7, <1>8, <1>10, <1>11, <1>12, StepKeeps

\* The fetch is cut off.
LEMMA CutOffKeeps ==
  ASSUME PollsInv, TimesOut
  PROVE  PollsInv'
<1>1. /\ MemRecord /\ Raise /\ poll.phase # "deliver"
  BY PollFields DEF TimesOut
<1>2. PICK shapes : mem' = [mem EXCEPT !.shapes = shapes] /\ mem.shapes \subseteq shapes
  BY <1>1 DEF TimesOut, MemRecord
<1>3. /\ MemRecord' /\ mem'.links = mem.links /\ mem'.resolved = mem.resolved
      /\ mem.shapes \subseteq mem'.shapes
  BY <1>1, <1>2 DEF MemRecord
<1> QED BY <1>1, <1>3, RaiseKeeps

LEMMA BatchRead == Leaves \subseteq poll.text /\ Filtered \subseteq Leaves \cap setup.wanted
<1>1. Leaves \subseteq poll.text
  BY DEF Leaves, ChainLeaves, LiveDocs
<1>2. InScope \subseteq Leaves
  BY DEF InScope, ByPolygon
<1> QED BY <1>1, <1>2 DEF Filtered

\* What is left in scope by its shape has one, and the point lies in it.
LEMMA BatchShaped == FiltersByShape => \A d \in Filtered : d \in poll.drawn /\ Inside[d.alert]
BY DEF Filtered, InScope, ByPolygon

\* The source, what it published and what the entry's scope is are as before.
LEMMA SourceSame ==
  ASSUME SourceInv, UNCHANGED <<setup, upstream>>
  PROVE  SourceInv'
<1>1. setup' = setup /\ life' = life /\ left' = left /\ window' = window /\ feed' = feed
  BY DEF upstream
<1> QED BY <1>1 DEF SourceInv, P, Life, Alert, NWSAlert, GDACSAlert, BBKAlert, WMOAlert, AUAlert,
     GeoSphereAlert, MeteoAlarmAlert, TWCAlert, ECCCAlert, Built

\* The batch is delivered: the entry holds what was read of it, or what it held.
LEMMA DeliveryKeeps ==
  ASSUME PollsInv, Deliver
  PROVE  PollsInv'
<1>1. PollRecord /\ MemRecord /\ mem' = mem /\ poll.phase = "deliver"
  BY PollFields DEF Deliver
<1>2. MemRecord' /\ mem'.links = mem.links /\ mem'.resolved = mem.resolved /\ mem'.shapes = mem.shapes
  BY <1>1, MemSame
<1>3. CASE Raise /\ FiltersByShape
  <2>1. setup.gps
    BY <1>3 DEF FiltersByShape
  <2> QED BY <1>1, <1>2, <1>3, <2>1, RaiseKeeps
<1>4. CASE ~(Raise /\ FiltersByShape)
  <2>1. /\ held' = Reconciled(Filtered) /\ poll' = NoPoll
        /\ shown' = IF P = "gdacs" THEN held' \cap Of(Filtered \cap poll.drawn) ELSE {}
        /\ UNCHANGED <<setup, upstream>>
    BY <1>4 DEF Deliver
  <2>2. /\ setup' = setup /\ life' = life /\ left' = left /\ window' = window /\ feed' = feed
        /\ mem' = mem
    BY <1>1, <2>1 DEF upstream
  <2>3. PICK batch, drawn : batch = Filtered /\ drawn = poll.drawn
    OBVIOUS
  <2>4. ASSUME NEW a \in Of(batch)
        PROVE  a \in Alerts /\ life[a] > 0 /\ (FiltersByShape => Inside[a])
    <3>1. PICK d \in batch : a = d.alert
      BY <2>4 DEF Of
    <3>2. d \in poll.text
      BY <2>3, <3>1, BatchRead
    <3>3. d \in Doc /\ d.rev <= life[a]
      BY <3>1, <3>2, PollFields DEF PollsInv, PolledInv
    <3>4. a \in Alerts /\ d.rev >= 1 /\ d.rev \in Int /\ life[a] \in Int
      BY <3>1, <3>3, SourceAssumption DEF Doc, Final, PollsInv, SourceInv
    <3>5. FiltersByShape => Inside[a]
      BY <2>3, <3>1, BatchShaped
    <3> QED BY <3>3, <3>4, <3>5
  <2>5. EntryInv'
    <3>1. ASSUME NEW a \in held' PROVE a \in Of(batch) \/ a \in held
      BY <2>1, <2>3, <3>1 DEF Reconciled
    <3>2. \A a \in held : a \in Alerts /\ life[a] > 0 /\ (FiltersByShape => Inside[a])
      BY DEF PollsInv, EntryInv
    <3>3. FiltersByShape' <=> FiltersByShape
      BY <2>2 DEF FiltersByShape, P
    <3> QED BY <2>2, <2>4, <3>1, <3>2, <3>3 DEF EntryInv
  <2>6. PICK no, got :
          /\ poll' = [phase |-> "idle", faulty |-> no, got |-> got, listed |-> {},
                      text |-> {}, drawn |-> {}, found |-> {}]
          /\ got = [i \in Indexes |-> "unasked"]
    BY <2>1 DEF NoPoll
  <2>7. PollRecord' /\ SourceInv'
    BY <2>1, <2>6, SourceSame DEF PollRecord, PollsInv
  <2>8. PolledInv'
    <3>1. Docs' \subseteq Docs
      BY <2>2, <2>6 DEF Docs
    <3> QED BY <2>2, <2>6, <3>1 DEF PollsInv, PolledInv, P
  <2>9. AnswersAt(poll.phase, poll.got, mem.resolved)'
    BY <2>6 DEF AnswersAt
  <2>10. ShownAt(poll.phase, poll.text, poll.drawn, mem.shapes)'
    <3>1. ASSUME P = "gdacs", ~setup.gps, NEW a \in shown' PROVE IdOf(a) \in mem.shapes
      <4>1. PICK d \in batch \cap drawn : a = d.alert
        BY <2>1, <2>3, <3>1 DEF Of
      <4>2. d \in Doc
        BY <2>3, <4>1, BatchRead, PollFields DEF PollsInv, PolledInv
      <4>3. EventId(d) \in mem.shapes
        BY <1>1, <2>3, <3>1, <4>1 DEF PollsInv, ShownAt
      <4> QED BY <4>1, <4>2, <4>3, IdFacts
    <3>2. \A a : IdOf(a)' = IdOf(a)
      BY DEF IdOf, EventId
    <3> QED BY <2>2, <2>6, <3>1, <3>2 DEF ShownAt, P
  <2> QED BY <1>2, <2>5, <2>7, <2>8, <2>9, <2>10 DEF PollsInv
<1> QED BY <1>3, <1>4

\* A new provider remembers nothing, and no shape is shown.
LEMMA NewProviderKeeps ==
  ASSUME PollsInv, Reload
  PROVE  PollsInv'
<1>1. /\ mem' = NewInstance /\ shown' = {} /\ poll' = poll /\ held' = held /\ poll.phase = "idle"
      /\ UNCHANGED <<setup, upstream>>
  BY DEF Reload
<1>2. setup' = setup /\ life' = life /\ left' = left /\ window' = window /\ feed' = feed
  BY <1>1 DEF upstream
<1>3. PICK m, no, zero : /\ mem' = m
                         /\ m = [asked |-> {}, shapes |-> {}, bulletins |-> {}, resolved |-> no,
                                 read |-> no, links |-> {}, age |-> zero, gone |-> zero,
                                 probe |-> zero]
  BY <1>1 DEF NewInstance
<1>4. MemRecord' /\ PollRecord'
  BY <1>1, <1>3 DEF PollsInv, MemRecord, PollRecord
<1>5. SourceInv' /\ EntryInv'
  BY <1>1, <1>2, SourceSame DEF PollsInv, EntryInv, FiltersByShape, P
<1>6. PolledInv'
  <2>1. Docs' \subseteq Docs
    BY <1>1, <1>2, <1>3 DEF Docs
  <2> QED BY <1>1, <1>2, <2>1 DEF PollsInv, PolledInv, P
<1>7. AnswersAt(poll.phase, poll.got, mem.resolved)' /\ ShownAt(poll.phase, poll.text, poll.drawn, mem.shapes)'
  BY <1>1, <1>2 DEF PollsInv, AnswersAt, ShownAt
<1> QED BY <1>4, <1>5, <1>6, <1>7 DEF PollsInv

LEMMA LifeIs ==
  ASSUME setup \in Setups, NEW a \in Alerts
  PROVE  /\ Life(P, a) \in Nat \cup {Never}
         /\ setup.revs[a] \in Nat /\ setup.revs[a] <= Revisions
<1>1. P \in {"nws", "gdacs", "bbk", "wmo", "au", "geosphere", "meteoalarm", "twc", "eccc"}
  BY PollAssumption DEF P
<1>2. Lifetime[a] \in Nat \cup {Never} /\ DefaultLife \in Nat /\ Revisions \in Nat
  BY SourceAssumption
<1>3. PICK d : d = [alert |-> a, rev |-> 1]
  OBVIOUS
<1>4. d.alert = a /\ Life(P, a) = Alert(P, d).life
  BY <1>3 DEF Life
<1>5. Life(P, a) \in {Lifetime[a], Never, DefaultLife}
  BY <1>1, <1>4 DEF Alert, NWSAlert, GDACSAlert, BBKAlert, WMOAlert, AUAlert,
     GeoSphereAlert, MeteoAlarmAlert, TWCAlert, ECCCAlert, Built
<1>6. setup.revs \in [Alerts -> 0..Revisions]
  BY PollAssumption
<1> QED BY <1>2, <1>5, <1>6

\* A step of the source, by what it does to its warnings.
LEMMA UpstreamKeeps ==
  ASSUME PollsInv, UNCHANGED <<setup, poll, held, shown>>, SourceInv', MemRecord',
         mem'.links = mem.links, mem'.resolved = mem.resolved, mem'.shapes = mem.shapes,
         \A a \in Alerts : life[a] <= life'[a] /\ (life[a] = Final => life'[a] = Final),
         \A i \in Indexes : \A d \in feed'[i] : d \in feed[i] \/ (d \in Doc /\ d.rev <= life'[d.alert])
  PROVE  PollsInv'
<1>1. setup' = setup /\ poll' = poll /\ held' = held /\ shown' = shown
  OBVIOUS
<1>2. \A a \in Alerts : life[a] \in Int /\ life'[a] \in Int
  BY <1>1, SourceAssumption DEF PollsInv, SourceInv, Final
<1>3. ASSUME NEW d \in Docs' PROVE d \in Doc /\ d.rev <= life'[d.alert]
  <2>1. "one" \in Indexes /\ "two" \in Indexes
    BY DEF Indexes
  <2>2. d \in Docs \/ (d \in Doc /\ d.rev <= life'[d.alert])
    BY <1>1, <1>3, <2>1 DEF Docs
  <2>3. CASE d \in Docs
    <3>1. d \in Doc /\ d.rev <= life[d.alert]
      BY <2>3 DEF PollsInv, PolledInv
    <3>2. d.alert \in Alerts /\ d.rev \in Int
      BY <3>1 DEF Doc
    <3> QED BY <1>2, <3>1, <3>2
  <2> QED BY <2>2, <2>3
<1>4. PolledInv'
  BY <1>1, <1>3 DEF PollsInv, PolledInv, P
<1>5. EntryInv'
  <2>1. FiltersByShape' <=> FiltersByShape
    BY <1>1 DEF FiltersByShape, P
  <2> QED BY <1>1, <1>2, <2>1 DEF PollsInv, EntryInv
<1>6. PollRecord'
  BY <1>1 DEF PollsInv, PollRecord
<1>7. AnswersAt(poll.phase, poll.got, mem.resolved)' /\ ShownAt(poll.phase, poll.text, poll.drawn, mem.shapes)'
  BY <1>1 DEF PollsInv, AnswersAt, ShownAt, P, IdOf, EventId
<1> QED BY <1>4, <1>5, <1>6, <1>7 DEF PollsInv

\* The source issues, ends, lists and drops.
LEMMA HappensKeeps ==
  ASSUME PollsInv, Happens
  PROVE  PollsInv'
<1>1. UNCHANGED <<setup, poll, held, shown>> /\ mem' = mem
  BY DEF Happens, Issue, End, List, Drop, Source, entry
<1>2. setup' = setup
  BY <1>1
<1>3. /\ MemRecord' /\ mem'.links = mem.links /\ mem'.resolved = mem.resolved
      /\ mem'.shapes = mem.shapes
  BY <1>1, PollFields, MemSame
<1>4. SourceInv /\ setup \in Setups
  BY DEF PollsInv, SourceInv
<1>5. /\ Final = Revisions + 1 /\ Revisions \in Nat /\ Lookback \in Nat
      /\ \A a \in Alerts : /\ life[a] \in Nat /\ life[a] <= Final
                           /\ setup.revs[a] \in Nat /\ setup.revs[a] <= Revisions
                           /\ Life(P, a) \in Nat \cup {Never}
  <2>1. Final = Revisions + 1 /\ Revisions \in Nat /\ Lookback \in Nat
    BY SourceAssumption, PollAssumption DEF Final
  <2>2. \A a \in Alerts : life[a] \in Nat /\ life[a] <= Final
    BY <1>4, <2>1 DEF SourceInv
  <2> QED BY <1>4, <2>1, <2>2, LifeIs
<1>6. \A a : Life(P, a)' = Life(P, a)
  BY <1>2 DEF P, Life, Alert, NWSAlert, GDACSAlert, BBKAlert, WMOAlert, AUAlert,
     GeoSphereAlert, MeteoAlarmAlert, TWCAlert, ECCCAlert, Built
<1>7. /\ SourceInv'
      /\ \A a \in Alerts : life[a] <= life'[a] /\ (life[a] = Final => life'[a] = Final)
      /\ \A i \in Indexes : \A d \in feed'[i] : d \in feed[i] \/ (d \in Doc /\ d.rev <= life'[d.alert])
  <2>1. ASSUME NEW a \in Alerts, Issue(a) PROVE <1>7
    <3>1. PICK n : n = Life(P, a)
      OBVIOUS
    <3>2. /\ life[a] < setup.revs[a] /\ window' = window /\ feed' = feed
          /\ life' = [life EXCEPT ![a] = @ + 1]
          /\ left' = IF life[a] = 0 THEN [left EXCEPT ![a] = n] ELSE left
      BY <2>1, <3>1 DEF Issue
    <3>3. life' \in [Alerts -> 0..Final] /\ left' \in [Alerts -> Nat \cup {Never}]
      BY <1>4, <1>5, <3>1, <3>2 DEF SourceInv
    <3>4. \A b \in Alerts : life'[b] > 0 => (left'[b] = Never <=> Life(P, b) = Never)
      BY <1>4, <1>5, <3>1, <3>2 DEF SourceInv
    <3>5. \A b \in Alerts : window[b] > 0 => life'[b] = Final
      BY <1>4, <1>5, <3>2 DEF SourceInv
    <3>6. SourceInv'
      BY <1>2, <1>4, <1>6, <3>2, <3>3, <3>4, <3>5 DEF SourceInv
    <3>7. \A b \in Alerts : life[b] <= life'[b] /\ (life[b] = Final => life'[b] = Final)
      BY <1>4, <1>5, <3>2 DEF SourceInv
    <3> QED BY <3>2, <3>6, <3>7
  <2>2. ASSUME NEW a \in Alerts, End(a) PROVE <1>7
    <3>1. PICK n \in Nat : window' = [window EXCEPT ![a] = n]
      <4>1. window' = [window EXCEPT ![a] = IF P = "nws" THEN Lookback ELSE 0]
        BY <2>2 DEF End
      <4> QED BY <1>5, <4>1
    <3>2. life' = [life EXCEPT ![a] = Final] /\ left' = left /\ feed' = feed
      BY <2>2 DEF End
    <3>3. life' \in [Alerts -> 0..Final] /\ window' \in [Alerts -> Nat]
      BY <1>4, <1>5, <3>1, <3>2 DEF SourceInv
    <3>4. \A b \in Alerts : life'[b] > 0 => (left[b] = Never <=> Life(P, b) = Never)
      <4>1. life[a] \in 1..Revisions
        BY <2>2 DEF End
      <4> QED BY <1>4, <1>5, <3>2, <4>1 DEF SourceInv
    <3>5. \A b \in Alerts : window'[b] > 0 => life'[b] = Final
      BY <1>4, <1>5, <3>1, <3>2 DEF SourceInv
    <3>6. SourceInv'
      BY <1>2, <1>4, <1>6, <3>2, <3>3, <3>4, <3>5 DEF SourceInv
    <3>7. \A b \in Alerts : life[b] <= life'[b] /\ (life[b] = Final => life'[b] = Final)
      BY <1>4, <1>5, <3>2 DEF SourceInv
    <3> QED BY <3>2, <3>6, <3>7
  <2>3. ASSUME NEW i \in Indexes, NEW d \in Doc, List(i, d) \/ Drop(i, d) PROVE <1>7
    <3>1. UNCHANGED <<life, left, window>>
      BY <2>3 DEF List, Drop
    <3>2. PICK D : /\ feed' = [feed EXCEPT ![i] = D]
                   /\ \A e \in D : e \in feed[i] \/ (e \in Doc /\ e.rev <= life[e.alert])
      <4>1. CASE Drop(i, d)
        <5>1. feed' = [feed EXCEPT ![i] = feed[i] \ {d}]
          BY <1>4, <4>1 DEF Drop, SourceInv
        <5> QED BY <5>1
      <4>2. CASE List(i, d)
        <5>1. feed' = [feed EXCEPT ![i] =
                (IF Alert(P, d).id = EventId(d)
                 THEN {e \in feed[i] : e.alert # d.alert} ELSE feed[i]) \cup {d}]
          BY <1>4, <4>2 DEF List, SourceInv
        <5>2. d.rev = life[d.alert] /\ d.alert \in Alerts
          BY <4>2 DEF List, Doc
        <5>3. d.rev <= life[d.alert]
          BY <1>5, <5>2
        <5> QED BY <5>1, <5>3
      <4> QED BY <2>3, <4>1, <4>2
    <3>3. feed' \in [Indexes -> SUBSET Doc]
      BY <1>4, <3>2 DEF SourceInv
    <3>4. life' = life /\ left' = left /\ window' = window
      BY <3>1
    <3>5. SourceInv'
      BY <1>2, <1>4, <1>6, <3>3, <3>4 DEF SourceInv
    <3>6. \A j \in Indexes : \A e \in feed'[j] : e \in feed[j] \/ (e \in Doc /\ e.rev <= life'[e.alert])
      BY <1>4, <3>2, <3>4 DEF SourceInv
    <3> QED BY <1>5, <3>4, <3>5, <3>6
  <2> QED BY <2>1, <2>2, <2>3 DEF Happens
<1> QED BY <1>1, <1>3, <1>7, UpstreamKeeps

\* Time passes.
LEMMA TickKeeps ==
  ASSUME PollsInv, Tick
  PROVE  PollsInv'
<1>1. /\ setup' = setup /\ poll' = poll /\ held' = held /\ shown' = shown
      /\ life' = life /\ feed' = feed
      /\ left' = [a \in Alerts |-> Less(left[a])]
      /\ window' = [a \in Alerts |-> Less(window[a])]
      /\ mem' = [mem EXCEPT !.age = IF mem.read /\ @ < StandIn THEN @ + 1 ELSE @,
                            !.probe = Less(@)]
  BY DEF Tick, entry
<1>2. PICK age, probe : mem' = [mem EXCEPT !.age = age, !.probe = probe]
  BY <1>1
<1>3. /\ MemRecord' /\ mem'.links = mem.links /\ mem'.resolved = mem.resolved
      /\ mem'.shapes = mem.shapes
  BY <1>2, PollFields DEF MemRecord
<1>4. \A a : Life(P, a)' = Life(P, a)
  BY <1>1 DEF P, Life, Alert, NWSAlert, GDACSAlert, BBKAlert, WMOAlert, AUAlert,
     GeoSphereAlert, MeteoAlarmAlert, TWCAlert, ECCCAlert, Built
<1>5. SourceInv
  BY DEF PollsInv
<1>6. \A a \in Alerts : /\ left'[a] \in Nat \cup {Never} /\ (left'[a] = Never <=> left[a] = Never)
                        /\ window'[a] \in Nat /\ (window'[a] > 0 => window[a] > 0)
  BY <1>1, <1>5 DEF SourceInv, Less, Never
<1>7. left' \in [Alerts -> Nat \cup {Never}] /\ window' \in [Alerts -> Nat]
  BY <1>1, <1>6
<1>8. SourceInv'
  BY <1>1, <1>4, <1>5, <1>6, <1>7 DEF SourceInv
<1>9. /\ \A a \in Alerts : life[a] <= life'[a] /\ (life[a] = Final => life'[a] = Final)
      /\ \A i \in Indexes : \A d \in feed'[i] : d \in feed[i]
  BY <1>1, <1>5, SourceAssumption DEF SourceInv, Final
<1>10. UNCHANGED <<setup, poll, held, shown>>
  BY <1>1
<1> QED BY <1>3, <1>8, <1>9, <1>10, UpstreamKeeps

LEMMA PollsStart == PollsInit => PollsInv
<1> SUFFICES ASSUME PollsInit PROVE PollsInv
  OBVIOUS
<1>1. /\ setup \in Setups /\ life = [a \in Alerts |-> 0] /\ left = [a \in Alerts |-> Never]
      /\ window = [a \in Alerts |-> 0] /\ feed = [i \in Indexes |-> {}]
      /\ mem = NewInstance /\ poll = NoPoll /\ held = {} /\ shown = {}
  BY DEF PollsInit
<1>2. PICK no, zero :
        mem = [asked |-> {}, shapes |-> {}, bulletins |-> {}, resolved |-> no, read |-> no,
               links |-> {}, age |-> zero, gone |-> zero, probe |-> zero]
  BY <1>1 DEF NewInstance
<1>3. PICK nil, got : /\ poll = [phase |-> "idle", faulty |-> nil, got |-> got, listed |-> {},
                                 text |-> {}, drawn |-> {}, found |-> {}]
                      /\ got = [i \in Indexes |-> "unasked"]
  BY <1>1 DEF NoPoll
<1>4. PollRecord /\ MemRecord
  BY <1>2, <1>3 DEF PollRecord, MemRecord
<1>5. SourceInv
  BY <1>1, SourceAssumption DEF SourceInv, Final
<1>6. Docs = {}
  BY <1>1, <1>2, <1>3 DEF Docs, Indexes
<1>7. PolledInv /\ EntryInv
  BY <1>1, <1>3, <1>6 DEF PolledInv, EntryInv
<1>8. AnswersAt(poll.phase, poll.got, mem.resolved) /\ ShownAt(poll.phase, poll.text, poll.drawn, mem.shapes)
  BY <1>1, <1>3 DEF AnswersAt, ShownAt
<1> QED BY <1>4, <1>5, <1>7, <1>8 DEF PollsInv

LEMMA PollsKeep == PollsInv /\ [PollsNext]_pollsVars => PollsInv'
<1> SUFFICES ASSUME PollsInv, [PollsNext]_pollsVars PROVE PollsInv'
  OBVIOUS
<1>1. CASE UNCHANGED pollsVars
  <2>1. /\ setup' = setup /\ life' = life /\ left' = left /\ window' = window /\ feed' = feed
        /\ mem' = mem /\ poll' = poll /\ held' = held /\ shown' = shown
        /\ UNCHANGED <<setup, upstream>>
    BY <1>1 DEF pollsVars, upstream, entry
  <2>2. SourceInv' /\ MemRecord'
    BY <2>1, SourceSame, MemSame DEF PollsInv
  <2>3. PolledInv'
    <3>1. Docs' = Docs
      BY <2>1 DEF Docs
    <3> QED BY <2>1, <3>1 DEF PollsInv, PolledInv, P
  <2>4. EntryInv' /\ PollRecord'
    BY <2>1 DEF PollsInv, EntryInv, FiltersByShape, P, PollRecord
  <2>5. AnswersAt(poll.phase, poll.got, mem.resolved)' /\ ShownAt(poll.phase, poll.text, poll.drawn, mem.shapes)'
    BY <2>1 DEF PollsInv, AnswersAt, ShownAt, P, IdOf, EventId
  <2> QED BY <2>2, <2>3, <2>4, <2>5 DEF PollsInv
<1>2. CASE PollsNext
  <2>1. \/ \E i \in Indexes : ReadIndex(i)
        \/ AUFeed \/ GeoSphereFeed \/ MeteoAlarmFeed
        \/ WMORegistry \/ WMOAuthority \/ WMOMirror
        \/ \E faulty \in BOOLEAN : Begin(faulty)
        \/ IndexesIn \/ BBKDocuments \/ WMODocuments \/ ECCCDocuments
        \/ BBKShapes \/ NWSLookUp
        \/ GDACSShapes \/ TimesOut \/ Deliver \/ Reload \/ Happens \/ Tick
    BY <1>2 DEF PollsNext, Proceed
  <2> QED BY <2>1, IndexReadsKeep, FetchGoesOn, ShapesKeep, CutOffKeeps, DeliveryKeeps,
             NewProviderKeeps, HappensKeeps, TickKeeps
<1> QED BY <1>1, <1>2

\* What a poll reads was published, a poll that goes on has an answer, and the
\* shapes GDACS ships again are of what the entry shows.
THEOREM PollsInductive == PollsSpec => []PollsInv
BY PollsStart, PollsKeep, PTL DEF PollsSpec

\* Of an alert's documents in a batch, the last is referenced by no other.
LEMMA LastIsLeaf ==
  ASSUME NEW D \in SUBSET Doc, NEW d \in D
  PROVE  \E e \in ChainLeaves(D) : e.alert = d.alert
<1> DEFINE Order == OpToRel(<, Nat)
           Mine == {e \in D : e.alert = d.alert}
           Below == {Final - e.rev : e \in Mine}
<1>1. \A e \in Mine : e.rev \in Int /\ Final - e.rev \in Nat
  BY SourceAssumption DEF Doc, Final
<1>2. PICK n \in Below : \A m \in Below : ~(<<m, n>> \in Order)
  <2> HIDE DEF Order, Mine
  <2>1. IsWellFoundedOn(Order, Nat)
    BY NatLessThanWellFounded DEF Order
  <2>2. Below \subseteq Nat
    BY <1>1
  <2>3. Below # {}
    BY DEF Mine
  <2> HIDE DEF Below
  <2> QED BY <2>1, <2>2, <2>3, WFMin
<1>3. \A m \in Below : ~(m < n)
  BY <1>1, <1>2 DEF OpToRel
<1>4. PICK e \in Mine : n = Final - e.rev
  BY <1>2
<1>5. ASSUME NEW f \in Mine PROVE ~(f.rev > e.rev)
  <2>1. ~(Final - f.rev < Final - e.rev)
    BY <1>3, <1>4
  <2>2. Final \in Int /\ e.rev \in Int /\ f.rev \in Int
    BY <1>1, SourceAssumption DEF Final
  <2> QED BY <2>1, <2>2
<1>6. e \in ChainLeaves(D)
  BY <1>5 DEF ChainLeaves
<1> QED BY <1>6

\* What a document that is read says of the end is so, or on ECCC was so until
\* a revision this poll did not read.
LEMMA EndsTrue ==
  ASSUME PollsInv, NEW d \in Leaves, d \in poll.text, Ends(d)
  PROVE  Over(d.alert) \/ EndedAsRead(d.alert)
<1>1. d \in Doc /\ d.rev <= life[d.alert]
  BY PollFields DEF PollsInv, PolledInv
<1>2. /\ d.alert \in Alerts /\ d.rev \in 1..Final /\ life[d.alert] \in 0..Final
      /\ Final \in Nat
  BY <1>1, SourceAssumption DEF Doc, Final, PollsInv, SourceInv
<1>3. PICK e : e = [alert |-> d.alert, rev |-> life[d.alert]]
  OBVIOUS
<1>4. CASE P = "eccc"
  <2>1. d \in ChainLeaves(poll.text)
    BY <1>4 DEF Leaves
  <2>2. CASE e \in poll.text
    <3>1. ~(e.rev > d.rev) /\ e.alert = d.alert
      BY <1>3, <2>1, <2>2 DEF ChainLeaves
    <3>2. e = d
      BY <1>1, <1>2, <1>3, <3>1 DEF Doc
    <3> QED BY <1>1, <1>2, <1>3, <1>4, <3>2 DEF Over
  <2>3. CASE e \notin poll.text
    BY <1>3, <1>4, <2>1, <2>3 DEF EndedAsRead
  <2> QED BY <2>2, <2>3
<1>5. CASE P # "eccc"
  <2>1. Alert(P, d).ends
    BY <1>5 DEF Ends
  <2>2. P \in {"nws", "gdacs", "bbk", "wmo", "au", "geosphere", "meteoalarm", "twc", "eccc"}
    BY PollAssumption DEF P, PollsInv, SourceInv
  <2>3. d.rev = Final
    BY <1>5, <2>1, <2>2 DEF Alert, NWSAlert, GDACSAlert, BBKAlert, WMOAlert, AUAlert,
       GeoSphereAlert, MeteoAlarmAlert, TWCAlert, Built
  <2> QED BY <1>1, <1>2, <2>3 DEF Over
<1> QED BY <1>4, <1>5

\* All that was read of an alert makes it part of the batch, unless some of it
\* could not be read or is not wanted.
LEMMA ReadIsInBatch ==
  ASSUME PollsInv, NEW a \in held, P \notin HasExit, left[a] = Never,
         ~Unlisted(a), ~Dropped(a), ~Hurt(a)
  PROVE  a \in Of(Filtered)
<1>1. \A i \in Carries(a) : poll.got[i] = "read"
  BY DEF Hurt
<1>2. PICK d \in poll.listed : d.alert = a
  BY <1>1 DEF Unlisted, Of
<1>3. \A e \in poll.listed : e.alert = a => e \in poll.text /\ e \in poll.drawn /\ e \in setup.wanted
  BY DEF Hurt, Dropped
<1>4. P \notin {"nws", "twc", "eccc"} /\ poll.text \subseteq poll.listed /\ poll.text \subseteq Doc
  BY PollFields DEF HasExit, PollsInv, PolledInv
<1>5. d \in poll.text
  BY <1>2, <1>3
<1>6. \E e \in Leaves : e.alert = a
  <2>1. CASE P = "bbk"
    <3>1. Leaves = ChainLeaves(poll.text)
      BY <2>1 DEF Leaves
    <3> QED BY <1>2, <1>4, <1>5, <3>1, LastIsLeaf
  <2>2. CASE P = "wmo"
    <3>1. PICK D : D = LiveDocs(poll.text, left)
      OBVIOUS
    <3>2. D \subseteq Doc /\ d \in D
      BY <1>2, <1>4, <1>5, <3>1 DEF LiveDocs, Never
    <3>3. Leaves = ChainLeaves(D)
      BY <2>2, <3>1 DEF Leaves
    <3> QED BY <1>2, <3>2, <3>3, LastIsLeaf
  <2>3. CASE P \notin {"bbk", "wmo"}
    <3>1. Leaves = poll.text
      BY <1>4, <2>3 DEF Leaves
    <3> QED BY <1>2, <1>5, <3>1
  <2> QED BY <2>1, <2>2, <2>3
<1>7. PICK e \in Leaves : e.alert = a
  BY <1>6
<1>8. e \in poll.drawn /\ e \in setup.wanted
  BY <1>3, <1>4, <1>7, BatchRead
<1>9. FiltersByShape => Inside[a]
  BY DEF PollsInv, EntryInv
<1>10. e \in InScope
  BY <1>4, <1>7, <1>8, <1>9 DEF InScope, ByPolygon
<1>11. e \in Filtered
  BY <1>8, <1>10 DEF Filtered
<1> QED BY <1>7, <1>11 DEF Of

\* Why an alert leaves the entry with a batch.
LEMMA LeavesOver ==
  ASSUME PollsInv, NEW a \in held, a \notin Reconciled(Filtered)
  PROVE  Over(a) \/ EndedAsRead(a) \/ (Life(P, a) = Never /\ (Unlisted(a) \/ Dropped(a) \/ Hurt(a)))
<1>1. a \in Alerts /\ life[a] > 0 /\ left[a] \in Nat \cup {Never}
      /\ (left[a] = Never <=> Life(P, a) = Never)
  BY DEF PollsInv, EntryInv, SourceInv
<1>2. CASE a \in Ended(Filtered)
  <2>1. CASE a \in Found
    BY <2>1 DEF Found, PollsInv, PolledInv, Over
  <2>2. CASE a \notin Found
    <3>1. PICK d \in Filtered : Ends(d) /\ d.alert = a
      BY <1>2, <2>2 DEF Ended, Of
    <3>2. d \in poll.text /\ d \in Leaves
      BY <3>1, BatchRead DEF Filtered, InScope, ByPolygon
    <3> QED BY <3>1, <3>2, EndsTrue
  <2> QED BY <2>1, <2>2
<1>3. CASE a \notin Ended(Filtered) /\ a \in Of(Filtered)
  <2>1. left[a] = 0
    BY <1>3 DEF Reconciled
  <2> QED BY <2>1 DEF Over
<1>4. CASE a \notin Ended(Filtered) /\ a \notin Of(Filtered)
  <2>1. ~RetainOnAbsence(P, left[a])
    BY <1>4 DEF Reconciled
  <2>2. CASE left[a] # Never
    <3>1. left[a] = 0
      BY <1>1, <2>1, <2>2 DEF RetainOnAbsence
    <3> QED BY <3>1 DEF Over
  <2>3. CASE left[a] = Never
    <3>1. P \notin HasExit
      BY <2>1, <2>3 DEF RetainOnAbsence
    <3> QED BY <1>1, <1>4, <2>3, <3>1, ReadIsInBatch
  <2> QED BY <2>2, <2>3
<1> QED BY <1>2, <1>3, <1>4

\* An event of GDACS stays shown as long as it is held.
LEMMA ShapeStays ==
  ASSUME PollsInv, Deliver, ~Raise, P = "gdacs", NEW a \in shown, a \notin shown'
  PROVE  a \notin held'
<1> SUFFICES ASSUME a \in held' PROVE FALSE
  OBVIOUS
<1>1. /\ poll.phase = "deliver" /\ held' = Reconciled(Filtered)
      /\ shown' = held' \cap Of(Filtered \cap poll.drawn)
  BY DEF Deliver
<1>2. a \in Of(Filtered)
  <2>1. SUFFICES ASSUME a \in held, RetainOnAbsence(P, left[a]) PROVE FALSE
    BY <1>1 DEF Reconciled
  <2>2. left[a] # Never
    BY <2>1 DEF RetainOnAbsence, HasExit
  <2>3. Life(P, a) = Never
    BY DEF Life, Alert, GDACSAlert, Built
  <2> QED BY <2>1, <2>2, <2>3 DEF PollsInv, EntryInv, SourceInv
<1>3. PICK d \in Filtered : d.alert = a
  BY <1>2 DEF Of
<1>4. d \in poll.text
  BY <1>3, BatchRead
<1>5. d \in poll.drawn
  <2>1. CASE setup.gps
    BY <1>3, <2>1, BatchShaped DEF FiltersByShape
  <2>2. CASE ~setup.gps
    BY <1>1, <1>3, <1>4, <2>2 DEF PollsInv, ShownAt
  <2> QED BY <2>1, <2>2
<1> QED BY <1>1, <1>3, <1>5 DEF Of

\* FailuresTakeNothing, for every source, scope, pattern of failures and bound:
\* only a delivery takes alerts, a delivery has an answer, and what it takes is
\* over, was read to end or was not in what the source answered.
THEOREM FailuresTakeNone == PollsSpec => FailuresTakeNothing
<1> DEFINE Takes == /\ \A a \in held \ held' :
                         /\ Answered # {}
                         /\ \/ Over(a) \/ EndedAsRead(a)
                            \/ Life(P, a) = Never /\ (Unlisted(a) \/ Dropped(a) \/ Hurt(a))
                    /\ \A a \in shown \ shown' :
                         P = "gdacs" /\ poll.phase = "deliver" => a \notin held'
<1>1. ASSUME PollsInv, [PollsNext]_pollsVars PROVE Takes
  <2>1. CASE held' = held /\ (shown' = shown \/ poll.phase # "deliver")
    BY <2>1
  <2>2. CASE Deliver /\ ~Raise
    <3>1. held' = Reconciled(Filtered) /\ poll.phase = "deliver"
      BY <2>2 DEF Deliver
    <3>2. Answered # {}
      BY <1>1, <3>1 DEF PollsInv, AnswersAt, Answered
    <3>3. ASSUME NEW a \in held, a \notin held'
          PROVE  Over(a) \/ EndedAsRead(a)
                 \/ (Life(P, a) = Never /\ (Unlisted(a) \/ Dropped(a) \/ Hurt(a)))
      BY <1>1, <3>1, <3>3, LeavesOver
    <3>4. ASSUME NEW a \in shown, a \notin shown', P = "gdacs" PROVE a \notin held'
      BY <1>1, <2>2, <3>4, ShapeStays
    <3> QED BY <3>2, <3>3, <3>4
  <2>3. CASE PollsNext /\ (Raise \/ ~Deliver)
    <3>1. held' = held /\ (shown' = shown \/ poll.phase # "deliver")
      BY <2>3 DEF PollsNext, Proceed, Happens, Begin, Reload, Tick,
         Issue, End, List, Drop, Source, ReadIndex, NWSPage,
         GDACSIndex, BBKIndex, ECCCHost, TWCSlot, AUFeed,
         GeoSphereFeed, MeteoAlarmFeed, WMORegistry, WMOAuthority,
         WMOMirror, IndexesIn, BBKDocuments, WMODocuments,
         ECCCDocuments, BBKShapes, GDACSShapes, NWSLookUp, TimesOut,
         Bodies, Answers, Fails, Raises, Raise, Quiet, Lists, Lacks, entry
    <3> QED BY <2>1, <3>1
  <2>4. CASE UNCHANGED pollsVars
    BY <2>1, <2>4 DEF pollsVars, entry
  <2> QED BY <1>1, <2>2, <2>3, <2>4
<1>2. PollsInv /\ [PollsNext]_pollsVars => [Takes]_pollsVars
  BY <1>1
<1> QED BY <1>2, PollsInductive, PTL DEF PollsSpec, FailuresTakeNothing

-----------------------------------------------------------------------------
(* Every source: what a poll, a provider and an entry hold keeps its type. *)

\* What PollsInv leaves open: WMO's counters stay in their ranges, and what
\* has a shape, was read from a slot or came back from the file was published.
RangesInv ==
  /\ window \in [Alerts -> 0..Lookback]
  /\ poll.drawn \subseteq Doc /\ mem.bulletins \subseteq Doc
  /\ shown \subseteq Alerts /\ restored \subseteq Alerts
  /\ mem.age \in 0..StandIn /\ mem.probe \in 0..Interval /\ mem.gone \in 0..Streak

LEMMA RangesStart == PollsInit => RangesInv
<1> SUFFICES ASSUME PollsInit PROVE RangesInv
  OBVIOUS
<1>1. Lookback \in Nat /\ StandIn \in Nat /\ Interval \in Nat /\ Streak \in Nat
  BY PollAssumption
<1>2. mem.bulletins = {} /\ mem.age = 0 /\ mem.probe = 0 /\ mem.gone = 0
  BY DEF PollsInit, NewInstance
<1>3. poll.drawn = {}
  BY DEF PollsInit, NoPoll
<1> QED BY <1>1, <1>2, <1>3 DEF PollsInit, RangesInv

\* The cancellation window opens with an ending and runs out.
LEMMA WindowRange ==
  ASSUME window \in [Alerts -> 0..Lookback], PollsNext
  PROVE  window' \in [Alerts -> 0..Lookback]
<1>1. Lookback \in Nat
  BY PollAssumption
<1>2. ASSUME NEW a \in Alerts, End(a) PROVE window' \in [Alerts -> 0..Lookback]
  <2>1. window' = [window EXCEPT ![a] = IF P = "nws" THEN Lookback ELSE 0]
    BY <1>2 DEF End
  <2>2. (IF P = "nws" THEN Lookback ELSE 0) \in 0..Lookback
    BY <1>1
  <2> QED BY <2>1, <2>2
<1>3. CASE Tick
  <2>1. window' = [a \in Alerts |-> Less(window[a])]
    BY <1>3 DEF Tick
  <2>2. \A n \in 0..Lookback : Less(n) \in 0..Lookback
    BY <1>1 DEF Less
  <2> QED BY <2>1, <2>2
<1>4. CASE window' = window
  BY <1>4
<1>5. PollsNext => window' = window \/ Tick \/ \E a \in Alerts : End(a)
  BY DEF PollsNext, Proceed, Happens, Begin, Reload, Deliver,
     Issue, List, Drop, ReadIndex, NWSPage,
     GDACSIndex, BBKIndex, ECCCHost, TWCSlot, AUFeed,
     GeoSphereFeed, MeteoAlarmFeed, WMORegistry, WMOAuthority,
     WMOMirror, IndexesIn, BBKDocuments, WMODocuments,
     ECCCDocuments, BBKShapes, GDACSShapes, NWSLookUp, TimesOut,
     Bodies, Answers, Fails, Raises, Raise, Quiet, Lists, Lacks, upstream
<1> QED BY <1>2, <1>3, <1>4, <1>5

\* Each part of the provider's memory, by the step that writes it.
LEMMA MemoryRange ==
  ASSUME PollsInv, RangesInv, PollsNext
  PROVE  /\ mem'.bulletins \subseteq Doc
         /\ mem'.age \in 0..StandIn /\ mem'.probe \in 0..Interval /\ mem'.gone \in 0..Streak
<1> DEFINE InRange(m) == /\ m.bulletins \subseteq Doc
                         /\ m.age \in 0..StandIn /\ m.probe \in 0..Interval
                         /\ m.gone \in 0..Streak
<1>1. /\ StandIn \in Nat /\ Interval \in Nat /\ Streak \in Nat /\ Streak > 0
      /\ \A i \in Indexes : feed[i] \subseteq Doc
  BY PollAssumption DEF PollsInv, SourceInv
<1>2. InRange(mem) /\ MemRecord
  BY DEF RangesInv, PollsInv
<1>3. CASE mem' = mem
  BY <1>2, <1>3
<1>4. ASSUME NEW i \in Indexes, TWCSlot(i) PROVE InRange(mem')
  <2>1. CASE Raises
    BY <1>2, <2>1 DEF Raises
  <2>2. CASE ~Raises
    <3>1. PICK lost : mem' = [mem EXCEPT !.bulletins =
                               IF feed[i] \ lost = {} THEN @
                               ELSE {d \in @ : Slot[d.alert] # i} \cup feed[i]]
      BY <1>4, <2>2 DEF TWCSlot
    <3>2. PICK bulletins : /\ mem' = [mem EXCEPT !.bulletins = bulletins]
                           /\ bulletins \subseteq mem.bulletins \cup feed[i]
      <4>1. CASE feed[i] \ lost = {}
        BY <3>1, <4>1
      <4>2. CASE feed[i] \ lost # {}
        BY <3>1, <4>2
      <4> QED BY <4>1, <4>2
    <3> QED BY <1>1, <1>2, <3>2 DEF MemRecord
  <2> QED BY <2>1, <2>2
<1>5. CASE WMORegistry
  <2>1. mem' = mem \/ \E yes : mem' = [mem EXCEPT !.resolved = yes]
    BY <1>5 DEF WMORegistry
  <2> QED BY <1>2, <2>1 DEF MemRecord
<1>6. CASE WMOAuthority
  <2>1. mem' = mem \/ \E yes, links : mem' = [mem EXCEPT !.read = yes, !.links = links, !.age = 0]
    BY <1>6 DEF WMOAuthority, Fails
  <2>2. 0 \in 0..StandIn
    BY <1>1
  <2> QED BY <1>2, <2>1, <2>2 DEF MemRecord
<1>7. CASE WMOMirror
  <2>1. \/ mem' = mem
        \/ \E gone \in 0..Streak, probe \in 0..Interval :
             mem' = [mem EXCEPT !.gone = gone, !.probe = probe]
    <3>1. \/ mem' = mem
          \/ mem' = [mem EXCEPT !.gone = 0, !.probe = 0]
          \/ mem' = [mem EXCEPT !.gone = IF @ < Streak THEN @ + 1 ELSE @,
                       !.probe = IF mem.gone + 1 >= Streak THEN Interval ELSE @]
      BY <1>7 DEF WMOMirror, Fails
    <3>2. 0 \in 0..Streak /\ 0 \in 0..Interval /\ Interval \in 0..Interval
      BY <1>1, PollAssumption
    <3>3. (IF mem.gone < Streak THEN mem.gone + 1 ELSE mem.gone) \in 0..Streak
      BY <1>1, <1>2
    <3>4. (IF mem.gone + 1 >= Streak THEN Interval ELSE mem.probe) \in 0..Interval
      BY <1>2, <3>2
    <3> QED BY <3>1, <3>2, <3>3, <3>4
  <2>2. CASE mem' = mem
    BY <1>2, <2>2
  <2>3. ASSUME NEW gone \in 0..Streak, NEW probe \in 0..Interval,
               mem' = [mem EXCEPT !.gone = gone, !.probe = probe]
        PROVE  InRange(mem')
    BY <1>2, <2>3 DEF MemRecord
  <2> QED BY <2>1, <2>2, <2>3
<1>8. CASE GDACSShapes \/ TimesOut
  <2>1. \E shapes : mem' = [mem EXCEPT !.shapes = shapes]
    BY <1>8 DEF GDACSShapes, TimesOut
  <2> QED BY <1>2, <2>1 DEF MemRecord
<1>9. CASE NWSLookUp
  <2>1. \E asked : mem' = [mem EXCEPT !.asked = asked]
    BY <1>9 DEF NWSLookUp
  <2> QED BY <1>2, <2>1 DEF MemRecord
<1>10. CASE Reload
  BY <1>1, <1>10 DEF Reload, NewInstance
<1>11. CASE Tick
  <2>1. PICK age, probe : /\ mem' = [mem EXCEPT !.age = age, !.probe = probe]
                          /\ age = mem.age \/ (mem.age < StandIn /\ age = mem.age + 1)
                          /\ probe = Less(mem.probe)
    BY <1>11, <1>2 DEF Tick, MemRecord
  <2>2. age \in 0..StandIn /\ probe \in 0..Interval
    BY <1>1, <1>2, <2>1 DEF Less
  <2> QED BY <1>2, <2>1, <2>2 DEF MemRecord
<1>12. \/ mem' = mem \/ (\E i \in Indexes : TWCSlot(i)) \/ WMORegistry \/ WMOAuthority
       \/ WMOMirror \/ GDACSShapes \/ TimesOut \/ NWSLookUp \/ Reload \/ Tick
  BY DEF PollsNext, Proceed, Happens, Begin, Deliver,
     Issue, End, List, Drop, Source, ReadIndex, NWSPage,
     GDACSIndex, BBKIndex, ECCCHost, AUFeed, GeoSphereFeed, MeteoAlarmFeed,
     IndexesIn, BBKDocuments, WMODocuments, ECCCDocuments, BBKShapes,
     Bodies, Answers, Fails, Raises
<1> QED BY <1>3, <1>4, <1>5, <1>6, <1>7, <1>8, <1>9, <1>10, <1>11, <1>12

\* What has a shape is among what was read.
LEMMA DrawnRange ==
  ASSUME PollsInv, PollsInv', RangesInv, PollsNext
  PROVE  poll'.drawn \subseteq Doc
<1>1. /\ PollRecord /\ poll.drawn \subseteq Doc
      /\ poll.text \subseteq Doc /\ poll'.listed \subseteq Doc /\ poll.listed \subseteq Doc
  BY DEF PollsInv, PolledInv, Docs, RangesInv
<1>2. Leaves \subseteq Doc
  BY <1>1, BatchRead
<1>3. ASSUME poll' = NoPoll PROVE poll'.drawn = {}
  BY <1>3 DEF NoPoll
<1>4. CASE \E f \in BOOLEAN : Begin(f)
  BY <1>4 DEF Begin, NoPoll
<1>5. ASSUME NEW i \in Indexes, NEW D, Lists(i, D) PROVE poll'.drawn = poll.drawn
  BY <1>1, <1>5 DEF Lists, PollRecord
<1>6. ASSUME NEW i \in Indexes, NEW why, Lacks(i, why) PROVE poll'.drawn = poll.drawn
  BY <1>1, <1>6 DEF Lacks, PollRecord
<1>7. ASSUME NEW i \in Indexes, TWCSlot(i) PROVE poll'.drawn \subseteq Doc
  <2>1. CASE Raises
    BY <1>3, <2>1 DEF Raises, Raise
  <2>2. CASE ~Raises
    <3>1. \E listed, text : poll' = [poll EXCEPT !.got[i] = "read", !.listed = listed, !.text = text]
      BY <1>7, <2>2 DEF TWCSlot
    <3> QED BY <1>1, <3>1 DEF PollRecord
  <2> QED BY <2>1, <2>2
<1>8. CASE IndexesIn
  <2>1. CASE Raise
    BY <1>3, <2>1 DEF Raise
  <2>2. CASE ~Raise
    <3>1. PICK phase, listed, text, drawn :
            /\ poll' = [poll EXCEPT !.phase = phase, !.listed = listed, !.text = text,
                                    !.drawn = drawn]
            /\ drawn \in {{}, listed}
      BY <1>8, <2>2 DEF IndexesIn
    <3>2. poll'.drawn = drawn /\ poll'.listed = listed
      BY <1>1, <3>1 DEF PollRecord
    <3> QED BY <1>1, <3>1, <3>2
  <2> QED BY <2>1, <2>2
<1>9. ASSUME NEW lost, NEW next, Bodies(lost, next) PROVE poll'.drawn \subseteq Doc
  <2>1. PICK text, drawn :
          /\ poll' = [poll EXCEPT !.phase = next, !.text = text, !.drawn = drawn]
          /\ drawn = IF next = "shapes" THEN {} ELSE poll.listed \ lost
    BY <1>9 DEF Bodies
  <2>2. poll'.drawn = drawn
    BY <1>1, <2>1 DEF PollRecord
  <2>3. drawn \subseteq poll.listed
    BY <2>1
  <2> QED BY <1>1, <2>2, <2>3
<1>10. CASE BBKShapes \/ GDACSShapes
  <2>1. PICK drawn : /\ poll' = [poll EXCEPT !.phase = "deliver", !.drawn = drawn]
                     /\ drawn \subseteq Leaves
    BY <1>10 DEF BBKShapes, GDACSShapes, Remembered
  <2> QED BY <1>1, <1>2, <2>1 DEF PollRecord
<1>11. CASE NWSLookUp
  <2>1. PICK found : poll' = [poll EXCEPT !.phase = "deliver", !.found = found]
    BY <1>11 DEF NWSLookUp
  <2> QED BY <1>1, <2>1 DEF PollRecord
<1>12. CASE TimesOut \/ Deliver
  BY <1>3, <1>12 DEF TimesOut, Deliver, Raise
<1>13. CASE poll' = poll
  BY <1>1, <1>13
<1>14. ASSUME NEW i \in Indexes, Answers(i) \/ Fails(i) \/ Raises
       PROVE  poll'.drawn \subseteq Doc
  BY <1>1, <1>3, <1>5, <1>6, <1>14 DEF Answers, Fails, Raises, Raise
<1>15. "one" \in Indexes /\ "two" \in Indexes
  BY DEF Indexes
<1>16. ASSUME NEW i \in Indexes, ReadIndex(i) PROVE poll'.drawn \subseteq Doc
  BY <1>1, <1>5, <1>6, <1>7, <1>14, <1>16
     DEF ReadIndex, NWSPage, GDACSIndex, BBKIndex, ECCCHost
<1>17. CASE AUFeed \/ GeoSphereFeed \/ MeteoAlarmFeed
  BY <1>14, <1>15, <1>17 DEF AUFeed, GeoSphereFeed, MeteoAlarmFeed
<1>18. CASE WMORegistry \/ WMOAuthority \/ WMOMirror
  BY <1>1, <1>5, <1>6, <1>13, <1>14, <1>15, <1>18 DEF WMORegistry, WMOAuthority, WMOMirror
<1>19. CASE BBKDocuments \/ WMODocuments \/ ECCCDocuments
  BY <1>9, <1>19 DEF BBKDocuments, WMODocuments, ECCCDocuments
<1>20. CASE Reload \/ Happens \/ Tick
  BY <1>13, <1>20 DEF Reload, Happens, Tick, Issue, End, List, Drop, Source
<1> QED
  BY <1>4, <1>8, <1>10, <1>11, <1>12, <1>16, <1>17, <1>18, <1>19, <1>20
     DEF PollsNext, Proceed

\* The entry remembers alerts it holds.
LEMMA EntryRange ==
  ASSUME PollsInv, PollsInv', RangesInv, PollsNext
  PROVE  shown' \subseteq Alerts /\ restored' \subseteq Alerts
<1>1. shown \subseteq Alerts /\ restored \subseteq Alerts /\ held \subseteq Alerts /\ held' \subseteq Alerts
  BY DEF PollsInv, EntryInv, RangesInv
<1>2. CASE Deliver
  BY <1>1, <1>2 DEF Deliver, Raise, entry
<1>3. CASE Reload
  BY <1>1, <1>3 DEF Reload
<1>4. CASE shown' = shown /\ restored' = restored
  BY <1>1, <1>4
<1>5. Deliver \/ Reload \/ (shown' = shown /\ restored' = restored)
  BY DEF PollsNext, Proceed, Happens, Begin, Tick,
     Issue, End, List, Drop, Source, ReadIndex, NWSPage,
     GDACSIndex, BBKIndex, ECCCHost, TWCSlot, AUFeed,
     GeoSphereFeed, MeteoAlarmFeed, WMORegistry, WMOAuthority,
     WMOMirror, IndexesIn, BBKDocuments, WMODocuments,
     ECCCDocuments, BBKShapes, GDACSShapes, NWSLookUp, TimesOut,
     Bodies, Answers, Fails, Raises, Raise, Quiet, Lists, Lacks, entry
<1> QED BY <1>2, <1>3, <1>4, <1>5

\* The poll, the providers' memories and the entry keep their types, for any
\* alerts, options, failures and bounds.
THEOREM PollsTypeCorrect == PollsSpec => []PollsTypeOK
<1>1. PollsInv /\ PollsInv' /\ RangesInv /\ [PollsNext]_pollsVars => RangesInv'
  <2> SUFFICES ASSUME PollsInv, PollsInv', RangesInv, [PollsNext]_pollsVars PROVE RangesInv'
    OBVIOUS
  <2>1. CASE PollsNext
    <3>1. window \in [Alerts -> 0..Lookback]
      BY DEF RangesInv
    <3> QED BY <2>1, <3>1, WindowRange, MemoryRange, DrawnRange, EntryRange DEF RangesInv
  <2>2. CASE UNCHANGED pollsVars
    BY <2>2 DEF RangesInv, pollsVars, upstream, entry
  <2> QED BY <2>1, <2>2
<1>2. PollsInv /\ RangesInv => PollsTypeOK
  <2> SUFFICES ASSUME PollsInv, RangesInv PROVE PollsTypeOK
    OBVIOUS
  <2>1. /\ SourceInv /\ PolledInv /\ EntryInv
        /\ AnswersAt(poll.phase, poll.got, mem.resolved)
    BY DEF PollsInv
  <2>2. /\ poll.listed \cup poll.text \cup poll.drawn \cup mem.bulletins \cup mem.links
             \subseteq Doc
    BY <2>1 DEF PolledInv, Docs, RangesInv
  <2>3. held \cup shown \cup restored \cup poll.found \subseteq Alerts
    BY <2>1 DEF PolledInv, EntryInv, RangesInv
  <2>4. feed \in [Indexes -> SUBSET Doc] /\ setup \in Setups
    BY <2>1 DEF SourceInv
  <2> QED BY <2>1, <2>2, <2>3, <2>4 DEF PollsTypeOK, SourceInv, PolledInv, AnswersAt, RangesInv
<1> QED BY <1>1, <1>2, RangesStart, PollsInductive, PTL DEF PollsSpec
=============================================================================
