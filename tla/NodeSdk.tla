------------------------------ MODULE NodeSdk ------------------------------
(***************************************************************************)
(* The server SDK (sdk/node/src/index.ts): track, identify and page make   *)
(* one request each and return a promise.  A timer aborts the request; it  *)
(* is cleared when the headers are there, before an error's body is read.  *)
(***************************************************************************)
EXTENDS Naturals

CONSTANTS
    NodeCalls,  \* calls of track, identify and page
    Timeout     \* options.timeout, in ticks of the clock

ASSUME NodeAssumption == Timeout \in Nat \ {0}

VARIABLES
    nodeAt,     \* where each call stands
    nodeTimer,  \* ticks left to its timer
    nodeCopies, \* copies of its event in the server's log
    nodeDropped \* calls whose event the server dropped: its user has opted out

nodeVars == <<nodeAt, nodeTimer, nodeCopies, nodeDropped>>
nodeServerVars == <<nodeCopies, nodeDropped>>

NodeInit ==
    /\ nodeAt = [c \in NodeCalls |-> "idle"]
    /\ nodeTimer = [c \in NodeCalls |-> Timeout]
    /\ nodeCopies = [c \in NodeCalls |-> 0]
    /\ nodeDropped = {}

NodeGoto(c, place) == nodeAt' = [nodeAt EXCEPT ![c] = place]

\* _send up to the await of fetch.
NodeSend(c) ==
    /\ nodeAt[c] = "idle"
    /\ NodeGoto(c, "sent")
    /\ UNCHANGED <<nodeTimer, nodeServerVars>>

\* The server stores the event, also after the client has given up.
NodeLand(c) ==
    /\ nodeAt[c] \in {"sent", "lost"}
    /\ nodeCopies[c] = 0 /\ c \notin nodeDropped
    /\ nodeCopies' = [nodeCopies EXCEPT ![c] = 1]
    /\ UNCHANGED <<nodeAt, nodeTimer, nodeDropped>>

\* ... or drops it, for a user who has opted out, and answers ok all the same.
NodeDrop(c) ==
    /\ nodeAt[c] \in {"sent", "lost"}
    /\ nodeCopies[c] = 0 /\ c \notin nodeDropped
    /\ nodeDropped' = nodeDropped \cup {c}
    /\ UNCHANGED <<nodeAt, nodeTimer, nodeCopies>>

\* Variant: a response is a success whatever its status.
NodeHeadersAny(c) ==
    /\ nodeAt[c] = "sent"
    /\ NodeGoto(c, "resolved")
    /\ UNCHANGED <<nodeTimer, nodeServerVars>>

\* fetch returns with the headers and the timer is cleared.  The server answers
\* ok for what it stored or dropped; an error may hide that it did.
NodeHeaders(c) ==
    /\ nodeAt[c] = "sent"
    /\ \/ (nodeCopies[c] = 1 \/ c \in nodeDropped) /\ NodeGoto(c, "resolved")
       \/ NodeGoto(c, "reading")
    /\ UNCHANGED <<nodeTimer, nodeServerVars>>

\* The body of an error, or the failure to read one, ends the call: it throws an
\* AnalyticsError.  Nothing bounds the wait for it.
NodeBody(c) ==
    /\ nodeAt[c] = "reading"
    /\ NodeGoto(c, "rejected")
    /\ UNCHANGED <<nodeTimer, nodeServerVars>>

\* The connection fails, or the timer has run down and aborts it: fetch throws.
NodeFails(c) ==
    /\ nodeAt[c] = "sent"
    /\ NodeGoto(c, "lost")
    /\ UNCHANGED <<nodeTimer, nodeServerVars>>
NodeAbort(c) == nodeTimer[c] = 0 /\ NodeFails(c)

\* setTimeout runs while fetch is awaited.
NodeTick(c) ==
    /\ nodeAt[c] = "sent"
    /\ nodeTimer[c] > 0
    /\ nodeTimer' = [nodeTimer EXCEPT ![c] = @ - 1]
    /\ UNCHANGED <<nodeAt, nodeServerVars>>

NodeNext ==
    \E c \in NodeCalls :
        \/ NodeSend(c) \/ NodeLand(c) \/ NodeDrop(c) \/ NodeHeaders(c) \/ NodeBody(c)
        \/ NodeFails(c) \/ NodeAbort(c) \/ NodeTick(c)

\* Time passes and a timer that is due fires.  No server has to answer, or to end
\* a body it has begun.
NodeFair ==
    \A c \in NodeCalls : WF_nodeVars(NodeTick(c)) /\ WF_nodeVars(NodeAbort(c))

NodeSpec == NodeInit /\ [][NodeNext]_nodeVars
NodeFairSpec == NodeSpec /\ NodeFair

\* A call leaves the network although no server need answer it: it ends, or it has
\* the headers of an error and reads on without a timer.  It ends well only for an
\* event that the server stored, once, or dropped because its user has opted out
\* (index.ts:94-123, ingest.py:203-209).
NodeTold ==
    \A c \in NodeCalls :
        nodeAt[c] = "sent" ~>
            \/ nodeAt[c] = "resolved" /\ (nodeCopies[c] = 1 \/ c \in nodeDropped)
            \/ nodeAt[c] \in {"rejected", "lost", "reading"}
=============================================================================
