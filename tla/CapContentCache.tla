--------------------------- MODULE CapContentCache ---------------------------
(***************************************************************************)
(* The body cache every provider of every entry shares                     *)
(* (custom_components/cap_alerts/providers/cap_content_cache.py): an LRU   *)
(* under a byte budget, one GET in flight per URL however many callers ask *)
(* for it, and conditional revalidation for a caller that has to see a     *)
(* document withdrawn.                                                     *)
(*                                                                         *)
(* get_or_fetch is split at its awaits: Call runs to the request or to the *)
(* shared future, Answer to the response's status, Read to its body.  In   *)
(* between, other callers insert and evict.                                *)
(***************************************************************************)
EXTENDS ByteLRU

CONSTANTS
  Caller,        \* tasks that fetch bodies, one call each at a time
  Url,
  Nobody,        \* no caller: the URL has no fetch in flight
  Revalidated,   \* URLs fetched with revalidate and without following redirects
  Validating,    \* URLs whose host sends ETag or Last-Modified
  Size,          \* the size of each body
  MaxBytes       \* the byte budget

ASSUME CallerAssumption == Nobody \notin Caller
ASSUME UrlAssumption ==
  Url # {} /\ Revalidated \subseteq Url /\ Validating \subseteq Url
ASSUME SizeAssumption == Size \in [Url -> Nat \ {0}] /\ MaxBytes \in Nat

VARIABLES
  stored,       \* _cache: the URLs with a body
  older,      \* _cache: their order of use
  total,      \* _total_bytes
  validated,  \* the URLs with validators
  inflight,   \* _inflight: the caller whose fetch the URL's callers share
  call,       \* what each caller's get_or_fetch has come to
  host        \* external: how each URL's host answers

cache == <<stored, older, total, validated>>
vars == <<cache, inflight, call, host>>

\* What a call can end in.  "broken" is an exception nobody expects.
Result == {"none", "body", "nothing", "redirected", "cancelled", "broken"}

\* cached is the local of that name: a body was held when the call was made;
\* conditional says its validators were sent.  servedSince is auxiliary: the
\* host still served the URL at some time since its fetch began.
CallRecord ==
  [pc : {"idle", "fetching", "reading", "waiting", "done"}, url : Url,
   cached : BOOLEAN, conditional : BOOLEAN, result : Result,
   servedSince : BOOLEAN, unanswered : BOOLEAN]

\* A caller between two calls.
Free ==
  [pc |-> "idle", url |-> CHOOSE url \in Url : TRUE, cached |-> FALSE,
   conditional |-> FALSE, result |-> "none", servedSince |-> FALSE,
   unanswered |-> FALSE]

-----------------------------------------------------------------------------
(* The LRU.  Each operator maps a cache record to the next one.            *)

TheCache == [stored |-> stored, older |-> older, total |-> total, validated |-> validated]

Evict(c, url) ==
  [stored |-> c.stored \ {url},
   older |-> Among(c.stored \ {url}, c.older),
   total |-> IF url \in c.stored THEN c.total - Size[url] ELSE c.total,
   validated |-> c.validated \ {url}]

\* The new body becomes the last, and what it leaves no room for goes.
Insert(c, url) ==
  LET items == c.stored \cup {url}
      order == Promoted(url, c.stored, c.older)
      full == c.total + Size[url]
      gone == Trimmed(items, full, MaxBytes, Size, order)
  IN [stored |-> items \ gone,
      older |-> Among(items \ gone, order),
      total |-> full - Bytes(gone, Size),
      validated |-> (c.validated \cup ({url} \cap Validating)) \ gone]

\* Mutant: the body held under the URL is not dropped first.
StoreOver(c, url) == Insert(c, url)

Store(c, url) ==
  IF Size[url] > MaxBytes THEN Evict(c, url) ELSE Insert(Evict(c, url), url)

Becomes(c) ==
  /\ stored' = c.stored /\ older' = c.older
  /\ total' = c.total /\ validated' = c.validated

\* move_to_end
Touch(url) == older' = Promoted(url, stored, older) /\ UNCHANGED <<stored, total, validated>>

-----------------------------------------------------------------------------
(* get_or_fetch                                                            *)

Waiters(url) == {w \in Caller : call[w].pc = "waiting" /\ call[w].url = url}

Done(w, result, unanswered) ==
  [call[w] EXCEPT !.pc = "done", !.conditional = FALSE, !.result = result,
                  !.unanswered = unanswered]

\* Mutant: the callers that share the fetch are not told of its end.
SettleOwner(c, own, shared, unanswered) ==
  /\ call' = [call EXCEPT ![c] = Done(c, own, unanswered)]
  /\ inflight' = [inflight EXCEPT ![call[c].url] = Nobody]
  /\ UNCHANGED host

\* The fetch ends: its owner returns or raises `own', everyone who joined it
\* is handed `shared', and the URL is free again.
Settle(c, own, shared, unanswered) ==
  /\ call' = [w \in Caller |->
       IF w = c THEN Done(w, own, unanswered)
       ELSE IF w \in Waiters(call[c].url) THEN Done(w, shared, unanswered)
       ELSE call[w]]
  /\ inflight' = [inflight EXCEPT ![call[c].url] = Nobody]
  /\ UNCHANGED host

\* Mutant: a held body is served without asking the host.
ServedFromCacheAlways(url) == url \in stored

ServedFromCache(url) == url \in stored /\ url \notin Revalidated

Calling(c, url, pc, result, servedSince) ==
  call' = [call EXCEPT ![c] =
    [pc |-> pc, url |-> url, cached |-> url \in stored,
     conditional |-> pc = "fetching" /\ url \in stored \cap validated,
     result |-> result, servedSince |-> servedSince, unanswered |-> FALSE]]

Hit(c, url) ==
  /\ call[c].pc = "idle"
  /\ ServedFromCache(url)
  /\ Touch(url)
  /\ Calling(c, url, "done", "body", host[url] = "live")
  /\ UNCHANGED <<inflight, host>>

Join(c, url) ==
  /\ call[c].pc = "idle"
  /\ ~ServedFromCache(url)
  /\ inflight[url] # Nobody
  /\ Calling(c, url, "waiting", "none", call[inflight[url]].servedSince)
  /\ UNCHANGED <<cache, inflight, host>>

Request(c, url) ==
  /\ call[c].pc = "idle"
  /\ ~ServedFromCache(url)
  /\ inflight[url] = Nobody
  /\ inflight' = [inflight EXCEPT ![url] = c]
  /\ Calling(c, url, "fetching", "none", host[url] = "live")
  /\ UNCHANGED <<cache, host>>

\* 304: the body is the one held when the call was made.  Moving it to the
\* recent end raises when another caller's insert has evicted it since.
NotModified(c) ==
  LET url == call[c].url IN
    /\ call[c].pc = "fetching"
    /\ call[c].conditional
    /\ host[url] = "live"
    /\ IF url \in stored
       THEN Touch(url) /\ Settle(c, "body", "body", FALSE)
       ELSE /\ Settle(c, "broken", "body", FALSE)
            /\ UNCHANGED cache

\* 200, and then its body is awaited.
Ok(c) ==
  /\ call[c].pc = "fetching"
  /\ host[call[c].url] = "live"
  /\ call' = [call EXCEPT ![c].pc = "reading"]
  /\ UNCHANGED <<cache, inflight, host>>

Read(c) ==
  /\ call[c].pc = "reading"
  /\ Becomes(Store(TheCache, call[c].url))
  /\ Settle(c, "body", "body", FALSE)

Redirect(c) ==
  /\ call[c].pc = "fetching"
  /\ host[call[c].url] = "archived"
  /\ Becomes(Evict(TheCache, call[c].url))
  /\ Settle(c, "redirected", "redirected", FALSE)

\* 404 or 410.
NotFound(c) ==
  /\ call[c].pc = "fetching"
  /\ host[call[c].url] = "gone"
  /\ Becomes(Evict(TheCache, call[c].url))
  /\ Settle(c, "nothing", "nothing", FALSE)

\* Any other status.
ServerError(c) ==
  /\ call[c].pc = "fetching"
  /\ IF call[c].cached
     THEN /\ Settle(c, "body", "body", TRUE)
          /\ UNCHANGED cache
     ELSE /\ Becomes(Evict(TheCache, call[c].url))
          /\ Settle(c, "nothing", "nothing", TRUE)

\* Mutant: a failed revalidation is taken for an answer.
AnswerOfFailureAlways(c) == "nothing"

AnswerOfFailure(c) == IF call[c].cached THEN "body" ELSE "nothing"

\* A network error, a timeout, or a body that does not decode.
Fail(c) ==
  /\ call[c].pc \in {"fetching", "reading"}
  /\ Settle(c, AnswerOfFailure(c), AnswerOfFailure(c), TRUE)
  /\ UNCHANGED cache

\* The poll this caller runs in times out or is unloaded.  A waiter is
\* shielded from the fetch; the fetch's owner hands over what it has: nothing.
CancelWaiter(c) ==
  /\ call[c].pc = "waiting"
  /\ call' = [call EXCEPT ![c] = Free]
  /\ UNCHANGED <<cache, inflight, host>>

CancelOwner(c) ==
  /\ call[c].pc \in {"fetching", "reading"}
  /\ Settle(c, "cancelled", "nothing", TRUE)
  /\ UNCHANGED cache

Return(c) ==
  /\ call[c].pc = "done"
  /\ call' = [call EXCEPT ![c] = Free]
  /\ UNCHANGED <<cache, inflight, host>>

\* The host takes a document out of service, for good.
Withdraw(url) ==
  /\ url \in Revalidated
  /\ host[url] = "live"
  /\ \E answer \in {"archived", "gone"} : host' = [host EXCEPT ![url] = answer]
  /\ UNCHANGED <<cache, inflight, call>>

-----------------------------------------------------------------------------
Init ==
  /\ stored = {} /\ older = {}
  /\ total = 0
  /\ validated = {}
  /\ inflight = [url \in Url |-> Nobody]
  /\ call = [c \in Caller |-> Free]
  /\ host = [url \in Url |-> "live"]

\* The response, or the lack of one: what the request's own timeout bounds.
Finish(c) ==
  NotModified(c) \/ Ok(c) \/ Read(c) \/ Redirect(c) \/ NotFound(c)
    \/ ServerError(c) \/ Fail(c)

Next ==
  \/ \E c \in Caller, url \in Url : Hit(c, url) \/ Join(c, url) \/ Request(c, url)
  \/ \E c \in Caller : Finish(c)
  \/ \E c \in Caller : CancelWaiter(c) \/ CancelOwner(c) \/ Return(c)
  \/ \E url \in Url : Withdraw(url)

Spec == Init /\ [][Next]_vars

-----------------------------------------------------------------------------
(* Properties                                                              *)

TypeOK ==
  /\ total \in Nat
  /\ stored \subseteq Url /\ older \subseteq stored \X stored
  /\ validated \subseteq Url
  /\ inflight \in [Url -> Caller \cup {Nobody}]
  /\ call \in [Caller -> CallRecord]
  /\ host \in [Url -> {"live", "archived", "gone"}]

\* The four maps of the cache stay in step through hits, stores and evictions
\* of any caller (_store, _evict): the running total is the size of what is
\* held and within the budget, and validators go with their body.
BudgetKept ==
  /\ total = Bytes(stored, Size) /\ total <= MaxBytes
  /\ validated \subseteq stored

\* One GET per URL, and nobody left behind: _inflight names the one caller that
\* is fetching a URL, and whoever waits on a URL waits on such a fetch.
FetchShared ==
  /\ \A c \in Caller, url \in Url :
       inflight[url] = c <=> call[c].pc \in {"fetching", "reading"} /\ call[c].url = url
  /\ \A c \in Caller : call[c].pc = "waiting" => inflight[call[c].url] # Nobody

\* A caller that must see a withdrawal does: it is handed a body only when the
\* host still served the document at some time since the fetch it shares began,
\* or gave no answer about it.
WithdrawalSeen ==
  \A c \in Caller :
    /\ call[c].pc = "done" /\ call[c].result = "body"
    /\ call[c].url \in Revalidated
    => call[c].servedSince \/ call[c].unanswered

\* The step ends the call without the body that the caller found when it called,
\* although the host still serves the document.
Deprived(c) ==
  /\ call[c].pc # "done" /\ call'[c].pc = "done"
  /\ call'[c].cached /\ host[call'[c].url] = "live"
  /\ call'[c].result \in {"nothing", "redirected", "broken"}

\* The step cancels the caller whose request those on the URL share.
OwnerCancelled(url) ==
  \E owner \in Caller : inflight[url] = owner /\ call'[owner].result = "cancelled"

\* The step is a 304 for a body that another caller's insert has evicted since.
EvictedMeanwhile(c) ==
  call[c].conditional /\ call'[c].result = "broken" /\ call'[c].url \notin stored

\* "A network error, timeout or other status is not an answer about the
\* document, so the cached body is served: for a source whose alerts end on
\* absence, a dropped request would otherwise end a live warning": a caller
\* that found a body when it called, of a document the host still serves, goes
\* without it in two kinds of step only, neither of them a failure of the host:
\* one that cancels the caller whose request it shares, and a 304 of its own
\* request for a body evicted in the meantime.
WarningKept ==
  [][\A c \in Caller :
       Deprived(c) => OwnerCancelled(call'[c].url) \/ EvictedMeanwhile(c)]_vars

-----------------------------------------------------------------------------
(* Liveness.  Every request has a timeout, so its response or its failure   *)
(* arrives; that is the fairness of Finish.                                 *)

FairSpec == Spec /\ \A c \in Caller : WF_vars(Finish(c))

\* Every call ends, the shared ones with the fetch they joined.
EveryCallEnds ==
  \A c \in Caller :
    call[c].pc \in {"fetching", "reading", "waiting"} ~> call[c].pc \in {"done", "idle"}
=============================================================================
