------------------------------ MODULE LivePage ------------------------------
(***************************************************************************)
(* The live feed: a stream of events read by one handler, aborted when     *)
(* another is started, started again 5 s after it broke.  A stream that is *)
(* asked for without a cursor, as every one of this page is, begins with   *)
(* the last events that are stored.  Events are numbered.                  *)
(***************************************************************************)
EXTENDS Naturals, Sequences

CONSTANTS
    History,    \* events a stream begins with
    MaxShown,   \* MAX_EVENTS of the page
    MaxIds, MaxStreams  \* bounds: events stored, streams started

ASSUME LiveAssumption == History \in Nat /\ MaxShown \in Nat /\ MaxIds \in Nat

VARIABLES
    atServer,    \* events the server has
    streams,    \* the streams started: where each is, and its last event read
    current,    \* the stream of abortRef, or 0
    timers,     \* reconnects that are due
    onPage,     \* the page is open
    connected, errored, paused,
    feed        \* what the page lists, newest first: events and their streams

liveVars == <<atServer, streams, current, timers, onPage, connected, errored, paused, feed>>

Reading(s) == streams[s].at \in {"asked", "refused", "open"}

----------------------------------------------------------------------------
\* Variant: the stream before is not aborted.
StartStreamBeside ==
    /\ Len(streams) < MaxStreams
    /\ streams' = Append(streams, [at |-> "asked", last |-> 0])
    /\ current' = Len(streams) + 1
    /\ errored' = FALSE
    /\ UNCHANGED connected

\* startStream: an aborted stream ends in silence, unless it was reading why it
\* was refused: then it reports that at once.
StartStream ==
    LET refused == current # 0 /\ streams[current].at = "refused" IN
    /\ Len(streams) < MaxStreams
    /\ streams' = Append([s \in DOMAIN streams |->
                             IF s = current /\ Reading(s)
                             THEN [streams[s] EXCEPT !.at = "aborted"] ELSE streams[s]],
                         [at |-> "asked", last |-> 0])
    /\ current' = Len(streams) + 1
    /\ errored' = refused
    /\ connected' = (connected /\ ~refused)

LiveInit ==
    /\ atServer \in 0 .. MaxIds
    /\ streams = <<[at |-> "asked", last |-> 0]>>
    /\ current = 1
    /\ timers = 0
    /\ onPage = TRUE
    /\ connected = FALSE /\ errored = FALSE /\ paused = FALSE
    /\ feed = << >>

Goes(s, at) == streams' = [streams EXCEPT ![s].at = at]

\* Somebody's event is stored.
Store ==
    /\ atServer < MaxIds
    /\ atServer' = atServer + 1
    /\ UNCHANGED <<streams, current, timers, onPage, connected, errored, paused, feed>>

\* The stream is open, and begins with the last events.
Connect(s) ==
    /\ streams[s].at = "asked"
    /\ streams' = [streams EXCEPT ![s] = [at |-> "open",
                       last |-> IF atServer > History THEN atServer - History ELSE 0]]
    /\ connected' = TRUE
    /\ UNCHANGED <<atServer, current, timers, onPage, errored, paused, feed>>

\* The next event of the stream arrives: it heads the list, unless the page is
\* paused, which reads it and drops it.
Frame(s) ==
    LET e == streams[s].last + 1 IN
    /\ streams[s].at = "open"
    /\ e <= atServer
    /\ streams' = [streams EXCEPT ![s].last = e]
    /\ IF paused \/ ~onPage
       THEN UNCHANGED feed
       ELSE LET all == <<[id |-> e, of |-> s]>> \o feed
            IN  feed' = SubSeq(all, 1, IF Len(all) < MaxShown THEN Len(all) ELSE MaxShown)
    /\ UNCHANGED <<atServer, current, timers, onPage, connected, errored, paused>>

\* The request is refused, and the page reads why; there is no reconnect.
Refuse(s) ==
    /\ streams[s].at = "asked"
    /\ Goes(s, "refused")
    /\ UNCHANGED <<atServer, current, timers, onPage, connected, errored, paused, feed>>

RefusalRead(s) ==
    /\ streams[s].at = "refused"
    /\ Goes(s, "over")
    /\ errored' = TRUE
    /\ connected' = FALSE
    /\ UNCHANGED <<atServer, current, timers, onPage, paused, feed>>

\* The connection breaks: a reconnect is due in 5 s, on the page or not.
Break(s) ==
    /\ streams[s].at \in {"asked", "open"}
    /\ Goes(s, "over")
    /\ errored' = TRUE
    /\ connected' = FALSE
    /\ timers' = timers + 1
    /\ UNCHANGED <<atServer, current, onPage, paused, feed>>

\* The server ends the stream: the page goes on saying that it is live.
End(s) ==
    /\ streams[s].at = "open"
    /\ Goes(s, "over")
    /\ UNCHANGED <<atServer, current, timers, onPage, connected, errored, paused, feed>>

Reconnect ==
    /\ timers > 0
    /\ timers' = timers - 1
    /\ StartStream
    /\ UNCHANGED <<atServer, onPage, paused, feed>>

\* The retry button, shown with an error; no timer is cancelled.
Retry ==
    /\ onPage
    /\ errored
    /\ StartStream
    /\ UNCHANGED <<atServer, timers, onPage, paused, feed>>

Pause ==
    /\ onPage
    /\ paused' = ~paused
    /\ UNCHANGED <<atServer, streams, current, timers, onPage, connected, errored, feed>>

Clear ==
    /\ onPage
    /\ feed' = << >>
    /\ UNCHANGED <<atServer, streams, current, timers, onPage, connected, errored, paused>>

\* The page is left: its stream is aborted, its timers are not.
Leave ==
    /\ onPage
    /\ onPage' = FALSE
    /\ IF Reading(current) THEN Goes(current, "aborted") ELSE UNCHANGED streams
    /\ UNCHANGED <<atServer, current, timers, connected, errored, paused, feed>>

LiveNext ==
    \/ Store \/ Reconnect \/ Retry \/ Pause \/ Clear \/ Leave
    \/ \E s \in DOMAIN streams :
          Connect(s) \/ Frame(s) \/ Refuse(s) \/ RefusalRead(s) \/ Break(s) \/ End(s)

LiveSpec == LiveInit /\ [][LiveNext]_liveVars

----------------------------------------------------------------------------
\* At most one stream is read at a time, whatever breaks, retries and reconnects
\* follow each other, and the page lists what each stream brought once and
\* newest first, later streams above earlier ones.
OneReader ==
    /\ \A s, u \in DOMAIN streams : (Reading(s) /\ Reading(u)) => s = u
    /\ \A i, j \in DOMAIN feed :
          i < j => \/ feed[i].of > feed[j].of
                   \/ feed[i].of = feed[j].of /\ feed[i].id > feed[j].id

\* What app/routers/stream.py:27-30 says of a reconnect, that it goes on after the
\* last event: no event is listed twice.
ListedOnce == \A i, j \in DOMAIN feed : feed[i].id = feed[j].id => i = j
=============================================================================
