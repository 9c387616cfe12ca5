------------------------------- MODULE JsSdk -------------------------------
(***************************************************************************)
(* The browser SDK (sdk/analytics.js) in one page: calls put events into a *)
(* queue in memory, flushes send them one request each, and a request that *)
(* is rate limited or fails in the server is tried again after a pause.    *)
(* Requests are kept alive when the page goes; the queue and the pauses    *)
(* are not.  An event that JSON cannot express ends the flush that takes   *)
(* it, and takes the rest of the batch with it.                            *)
(***************************************************************************)
EXTENDS Naturals, Sequences, SequencesExt

CONSTANTS
    JsEvents,   \* calls of track and page; each is made at most once
    JsUsers,    \* users the page may identify
    NoUser,     \* _userId is null
    BatchSize,  \* BATCH_SIZE (20)
    MaxRetries  \* MAX_RETRIES (3)

ASSUME JsAssumption ==
    /\ NoUser \notin JsUsers
    /\ BatchSize \in Nat \ {0}
    /\ MaxRetries \in Nat \ {0}

VARIABLES
    jsPage,     \* loading, then ready (init was called), leaving, and closed or killed
    jsUser,     \* _userId
    jsStored,   \* localStorage[USER_KEY]
    jsQueue,    \* _queue
    jsAt,       \* where the event of each call is
    jsBy,       \* the userId the event carries
    jsTries,    \* requests made for it
    jsCopies,   \* copies of it in the server's log
    jsStray,    \* requests given up by a proxy or the network that may still land
    jsErrors,   \* answers with a 429 or a 5xx (history)
    jsLate      \* events of calls made after the page's last flush (history)

jsVars == <<jsPage, jsUser, jsStored, jsQueue, jsAt, jsBy, jsTries, jsCopies,
            jsStray, jsErrors, jsLate>>

jsPageVars   == <<jsPage, jsUser, jsStored>>
jsServerVars == <<jsCopies, jsStray>>

----------------------------------------------------------------------------
JsInit ==
    /\ jsPage = "loading"
    /\ jsUser = NoUser
    /\ jsStored \in JsUsers \cup {NoUser}
    /\ jsQueue = << >>
    /\ jsAt = [e \in JsEvents |-> "uncalled"]
    /\ jsBy = [e \in JsEvents |-> NoUser]
    /\ jsTries = [e \in JsEvents |-> 0]
    /\ jsCopies = [e \in JsEvents |-> 0]
    /\ jsStray = [e \in JsEvents |-> 0]
    /\ jsErrors = [e \in JsEvents |-> 0]
    /\ jsLate = {}

JsPlaces == {"uncalled", "ignored", "queued", "air", "landed", "pausing",
             "answered", "failed", "thrown", "dropped"}
JsOpen   == {"loading", "ready", "leaving"}

JsTypeOK ==
    /\ jsPage \in JsOpen \cup {"closed", "killed"}
    /\ jsUser \in JsUsers \cup {NoUser}
    /\ jsStored \in JsUsers \cup {NoUser}
    /\ jsQueue \in Seq(JsEvents)
    /\ jsAt \in [JsEvents -> JsPlaces]
    /\ jsBy \in [JsEvents -> JsUsers \cup {NoUser}]
    /\ jsTries \in [JsEvents -> 0 .. MaxRetries]
    /\ jsCopies \in [JsEvents -> 0 .. MaxRetries]
    /\ jsStray \in [JsEvents -> 0 .. MaxRetries]
    /\ jsErrors \in [JsEvents -> 0 .. MaxRetries]
    /\ jsLate \subseteq JsEvents

Least(m, n) == IF m < n THEN m ELSE n

----------------------------------------------------------------------------
(* Calls of the page *)

\* init: the user of an earlier visit is read back, the timer and the listeners
\* start.
JsStart ==
    /\ jsPage = "loading"
    /\ jsPage' = "ready"
    /\ jsUser' = jsStored
    /\ UNCHANGED <<jsStored, jsQueue, jsAt, jsBy, jsTries, jsServerVars, jsErrors, jsLate>>

\* Variant: splice(0, BATCH_SIZE) is slice, which leaves the queue as it is.
FlushedSlice(q, at) ==
    LET n == Least(Len(q), BatchSize) IN
    /\ jsQueue' = q
    /\ jsAt' = [e \in JsEvents |-> IF \E i \in 1 .. n : q[i] = e THEN "air" ELSE at[e]]
    /\ jsTries' = [e \in JsEvents |-> IF \E i \in 1 .. n : q[i] = e THEN 1 ELSE jsTries[e]]

\* flush, on a queue q of events at these places: the first BatchSize events
\* leave the queue and a request is made for each, up to the first that
\* JSON.stringify throws for.  The properties belong to the page, which may change
\* them as long as they wait, so that it may be any.  The error leaves through
\* forEach: the events behind it are in no queue and in no request.
Flushed(q, at) ==
    LET n              == Least(Len(q), BatchSize)
        Among(e, i, j) == \E m \in i .. j : q[m] = e
    IN
    /\ jsQueue' = SubSeq(q, n + 1, Len(q))
    /\ \E k \in 0 .. n :    \* the requests made
         /\ jsTries' = [e \in JsEvents |-> IF Among(e, 1, k) THEN 1 ELSE jsTries[e]]
         /\ jsAt' = [e \in JsEvents |->
               IF Among(e, 1, k) THEN "air"
               ELSE IF k < n /\ q[k + 1] = e THEN "thrown"
               ELSE IF Among(e, k + 2, n) THEN "dropped" ELSE at[e]]

\* _enqueue: a full queue is flushed at once.
Enqueued(e) ==
    LET q  == Append(jsQueue, e)
        at == [jsAt EXCEPT ![e] = "queued"]
    IN  IF Len(q) >= BatchSize
        THEN Flushed(q, at)
        ELSE jsQueue' = q /\ jsAt' = at /\ UNCHANGED jsTries

\* track and page.  A call before init is ignored.
JsTrack(e) ==
    /\ jsPage \in JsOpen
    /\ jsAt[e] = "uncalled"
    /\ IF jsPage = "loading"
       THEN /\ jsAt' = [jsAt EXCEPT ![e] = "ignored"]
            /\ UNCHANGED <<jsQueue, jsBy, jsTries, jsLate>>
       ELSE /\ Enqueued(e)
            /\ jsBy' = [jsBy EXCEPT ![e] = jsUser]
            /\ jsLate' = IF jsPage = "leaving" THEN jsLate \cup {e} ELSE jsLate
    /\ UNCHANGED <<jsPage, jsUser, jsStored, jsServerVars, jsErrors>>

\* identify: later events carry the user, in this page and in later ones, and
\* the identify event itself goes the way of the others.  When it fills the queue
\* and that flush throws, the user is already stored.
JsIdentify(e, u) ==
    /\ jsPage \in JsOpen \ {"loading"}
    /\ jsAt[e] = "uncalled"
    /\ jsUser' = u
    /\ jsStored' = u
    /\ Enqueued(e)
    /\ jsBy' = [jsBy EXCEPT ![e] = u]
    /\ jsLate' = IF jsPage = "leaving" THEN jsLate \cup {e} ELSE jsLate
    /\ UNCHANGED <<jsPage, jsServerVars, jsErrors>>

\* flush, called by the timer, by the page, or when the page is hidden.
JsFlush ==
    /\ jsPage \in JsOpen \ {"loading"}
    /\ jsQueue # << >>
    /\ Flushed(jsQueue, jsAt)
    /\ UNCHANGED <<jsPage, jsUser, jsStored, jsBy, jsServerVars, jsErrors, jsLate>>

----------------------------------------------------------------------------
(* Requests *)

\* The server stores the event.
JsLand(e) ==
    /\ jsAt[e] = "air"
    /\ jsAt' = [jsAt EXCEPT ![e] = "landed"]
    /\ jsCopies' = [jsCopies EXCEPT ![e] = @ + 1]
    /\ UNCHANGED <<jsPageVars, jsQueue, jsBy, jsTries, jsStray, jsErrors, jsLate>>

\* ... or it does so after the browser was told that the request failed.
JsLandLate(e) ==
    /\ jsStray[e] > 0
    /\ jsStray' = [jsStray EXCEPT ![e] = @ - 1]
    /\ jsCopies' = [jsCopies EXCEPT ![e] = @ + 1]
    /\ UNCHANGED <<jsPageVars, jsQueue, jsAt, jsBy, jsTries, jsErrors, jsLate>>

\* A request that has not landed is refused for good, or may land later.
Abandoned(e) ==
    IF jsAt[e] = "air"
    THEN \E n \in {0, 1} : jsStray' = [jsStray EXCEPT ![e] = @ + n]
    ELSE UNCHANGED jsStray

\* A final answer: success, or a 4xx for an event that is not stored.
JsAnswer(e) ==
    /\ jsPage \in JsOpen
    /\ jsAt[e] \in {"air", "landed"}
    /\ jsAt' = [jsAt EXCEPT ![e] = "answered"]
    /\ UNCHANGED <<jsPageVars, jsQueue, jsBy, jsTries, jsServerVars, jsErrors, jsLate>>

\* 429 or 5xx, which may hide that the event was stored: a pause follows, and
\* after the last attempt nothing.
JsError(e) ==
    /\ jsPage \in JsOpen
    /\ jsAt[e] \in {"air", "landed"}
    /\ jsAt' = [jsAt EXCEPT ![e] = IF jsTries[e] < MaxRetries THEN "pausing" ELSE "answered"]
    /\ jsErrors' = [jsErrors EXCEPT ![e] = @ + 1]
    /\ Abandoned(e)
    /\ UNCHANGED <<jsPageVars, jsQueue, jsBy, jsTries, jsCopies, jsLate>>

\* The pause is over: the same event is put into JSON and sent again.  When that
\* throws now, it does so in the timer's callback and the promise stays open.
JsAgain(e) ==
    /\ jsPage \in JsOpen
    /\ jsAt[e] = "pausing"
    /\ \/ /\ jsAt' = [jsAt EXCEPT ![e] = "air"]
          /\ jsTries' = [jsTries EXCEPT ![e] = @ + 1]
       \/ jsAt' = [jsAt EXCEPT ![e] = "thrown"] /\ UNCHANGED jsTries
    /\ UNCHANGED <<jsPageVars, jsQueue, jsBy, jsServerVars, jsErrors, jsLate>>

\* The network fails: a warning, and no retry.
JsNetworkFails(e) ==
    /\ jsPage \in JsOpen
    /\ jsAt[e] \in {"air", "landed"}
    /\ jsAt' = [jsAt EXCEPT ![e] = "failed"]
    /\ Abandoned(e)
    /\ UNCHANGED <<jsPageVars, jsQueue, jsBy, jsTries, jsCopies, jsErrors, jsLate>>

----------------------------------------------------------------------------
(* The end of the page *)

\* Variant: nobody listens to pagehide.
JsLeaveSilently ==
    /\ jsPage = "ready"
    /\ jsPage' = "leaving"
    /\ UNCHANGED <<jsUser, jsStored, jsQueue, jsAt, jsBy, jsTries, jsServerVars, jsErrors, jsLate>>

\* pagehide: the listener of init flushes; the page's own listeners run after it
\* and may still track.
JsLeave ==
    /\ jsPage = "ready"
    /\ jsPage' = "leaving"
    /\ Flushed(jsQueue, jsAt)
    /\ UNCHANGED <<jsUser, jsStored, jsBy, jsServerVars, jsErrors, jsLate>>

\* The page is gone, with what its memory held; the storage stays.
JsGo ==
    /\ jsPage \in JsOpen
    /\ jsPage' = IF jsPage = "ready" THEN "killed" ELSE "closed"
    /\ UNCHANGED <<jsUser, jsStored, jsQueue, jsAt, jsBy, jsTries, jsServerVars, jsErrors, jsLate>>

----------------------------------------------------------------------------
JsRequest(e) == JsAnswer(e) \/ JsError(e) \/ JsNetworkFails(e)

JsNext ==
    \/ JsStart \/ JsFlush \/ JsLeave \/ JsGo
    \/ \E e \in JsEvents :
         \/ JsTrack(e) \/ JsLand(e) \/ JsLandLate(e) \/ JsRequest(e) \/ JsAgain(e)
         \/ \E u \in JsUsers : JsIdentify(e, u)

JsSpec == JsInit /\ [][JsNext]_jsVars

\* The interval timer of an open page fires every two seconds, a pause ends, and
\* the browser settles every request, with an answer or an error.
JsFair ==
    /\ WF_jsVars(JsFlush)
    /\ \A e \in JsEvents : WF_jsVars(JsRequest(e)) /\ WF_jsVars(JsAgain(e))

JsFairSpec == JsSpec /\ JsFair

----------------------------------------------------------------------------
(* Properties *)

\* The server holds more copies of an event than one only for as many errors as
\* it answered for it: neither the timer, the size limit, a hidden page and the
\* last flush together, nor the retries, send an event again that went through
\* (analytics.js:74-94, 178-203).
JsNoNeedlessCopy == \A e \in JsEvents : jsCopies[e] <= 1 + jsErrors[e]

\* An event that was queued before the page began to leave is sent, and followed
\* to an answer or a network error within MaxRetries attempts unless the page
\* goes first; only a page that is killed leaves some of them unsent.  The one
\* other loss is that of an event that could not be put into JSON, and of those
\* that an event of this kind took with it out of its batch (analytics.js:79,
\* 181-188).
JsSettled ==
    \A e \in JsEvents :
        (jsAt[e] = "queued" /\ e \notin jsLate)
            ~> \/ jsAt[e] \in {"answered", "failed", "thrown"}
               \/ jsAt[e] = "dropped" /\ \E f \in JsEvents : jsAt[f] = "thrown"
               \/ jsPage = "closed" /\ jsTries[e] > 0
               \/ jsPage = "killed"
=============================================================================
