--------------------------- MODULE ConnectionPool ---------------------------
(***************************************************************************)
(* The asyncpg pool of the API process (app/database.py) and the requests  *)
(* that share it.  Most routes hold one connection from their dependency   *)
(* (get_org_db in app/deps.py) until the handler returns.  The ingest      *)
(* route holds one the same way and, while it holds it, takes a second one *)
(* for the rate limit (_check_rate_limit_db in app/routers/ingest.py).     *)
(* An acquire waits without a timeout.                                     *)
(***************************************************************************)
EXTENDS Naturals, FiniteSets

CONSTANTS
    Conns,      \* connections of the pool (max_size = 10)
    Ingests,    \* ingest requests
    Plain,      \* requests of the other routes
    Nobody,     \* the owner of a connection that is in the pool
    NoConn      \* a request without a transaction

Requests == Ingests \cup Plain

ASSUME PoolAssumption ==
    /\ IsFiniteSet(Conns)
    /\ IsFiniteSet(Ingests)
    /\ Ingests \cap Plain = {}
    /\ Nobody \notin Requests
    /\ NoConn \notin Conns

VARIABLES
    pc,         \* where each request stands
    owner,      \* who has acquired each connection
    org         \* the connection that carries a request's transaction and org

vars == <<pc, owner, org>>

----------------------------------------------------------------------------
Init ==
    /\ pc = [r \in Requests |-> "new"]
    /\ owner = [c \in Conns |-> Nobody]
    /\ org = [r \in Requests |-> NoConn]

HeldBy(r) == {c \in Conns : owner[c] = r}
Free      == HeldBy(Nobody)

\* Places where a request has to own one connection, or two.
WithOne == {"scoped", "waiting", "handling"}
WithTwo == {"limiting"}
Over    == {"answered", "failed"}

TypeOK ==
    /\ pc \in [Requests -> {"new"} \cup WithOne \cup WithTwo \cup Over]
    /\ owner \in [Conns -> Requests \cup {Nobody}]
    /\ org \in [Requests -> Conns \cup {NoConn}]

Goto(r, label) == pc' = [pc EXCEPT ![r] = label]

\* Connections S go back to the pool.
Release(S) == owner' = [c \in Conns |-> IF c \in S THEN Nobody ELSE owner[c]]

----------------------------------------------------------------------------
\* The dependency acquires a connection, opens the transaction and sets the org.
Open(r) ==
    /\ pc[r] = "new"
    /\ \E c \in Free :
         /\ owner' = [owner EXCEPT ![c] = r]
         /\ org' = [org EXCEPT ![r] = c]
    /\ Goto(r, IF r \in Ingests THEN "scoped" ELSE "handling")

\* The ingest handler reads its org and asks the pool for another connection.
AskSecond(r) ==
    /\ pc[r] = "scoped"
    /\ Goto(r, "waiting")
    /\ UNCHANGED <<owner, org>>

\* pool.acquire of the limiter.
TakeSecond(r) ==
    /\ pc[r] = "waiting"
    /\ \E c \in Free : owner' = [owner EXCEPT ![c] = r]
    /\ Goto(r, "limiting")
    /\ UNCHANGED org

\* Variant: the limiter keeps its connection.
LimitKept(r) ==
    /\ pc[r] = "limiting"
    /\ Goto(r, "handling")
    /\ UNCHANGED <<owner, org>>

\* The limiter's transaction ends and its connection goes back.
FinishLimit(r) ==
    /\ pc[r] = "limiting"
    /\ Release(HeldBy(r) \ {org[r]})
    /\ Goto(r, "handling")
    /\ UNCHANGED org

\* The handler returns: commit, release, answer.
Answer(r) ==
    /\ pc[r] = "handling"
    /\ Release({org[r]})
    /\ org' = [org EXCEPT ![r] = NoConn]
    /\ Goto(r, "answered")

\* Variant: an exception skips the release.
FailKeeping(r) ==
    /\ \/ pc[r] \in {"scoped", "limiting", "handling"}
       \/ pc[r] \in {"new", "waiting"} /\ Free # {}
    /\ Goto(r, "failed")
    /\ UNCHANGED <<owner, org>>

\* Any exception, a 404 or a 429 among them: every block releases what it
\* acquired.  An acquire that got a connection may fail to set it up.
Fail(r) ==
    /\ \/ pc[r] \in {"scoped", "limiting", "handling"}
       \/ pc[r] \in {"new", "waiting"} /\ Free # {}
    /\ Release(HeldBy(r))
    /\ org' = [org EXCEPT ![r] = NoConn]
    /\ Goto(r, "failed")

RequestStep(r) ==
    \/ Open(r)
    \/ AskSecond(r)
    \/ TakeSecond(r)
    \/ FinishLimit(r)
    \/ Answer(r)
    \/ Fail(r)

Done == (\A r \in Requests : pc[r] \in Over) /\ UNCHANGED vars

Next == (\E r \in Requests : RequestStep(r)) \/ Done

Spec == Init /\ [][Next]_vars

\* The event loop gets back to every request whose await can return; statements
\* end within the 30 s command timeout.  An acquire returns only when there is a
\* connection.
FairSpec == Spec /\ \A r \in Requests : WF_vars(RequestStep(r))

----------------------------------------------------------------------------
(* Properties *)

\* A connection is out exactly while a request that needs it is in progress,
\* also when handlers fail half-way: nothing leaks, and the connection that
\* carries a request's org and transaction is its own until it is over.
Books(r) ==
    /\ pc[r] \in {"new"} \cup Over => HeldBy(r) = {}
    /\ pc[r] \in WithOne => org[r] \in Conns /\ HeldBy(r) = {org[r]}
    /\ pc[r] \in WithTwo => \E c \in HeldBy(r) : c # org[r] /\ HeldBy(r) = {c, org[r]}
Accounted == \A r \in Requests : Books(r)

\* Unless the pool has a connection to give, a request that owns one can still
\* go on and release it.  With this, waiting always ends.
SomebodyCanGoOn ==
    \/ Free # {}
    \/ \E r \in Requests : /\ HeldBy(r) # {}
                           /\ pc[r] \in {"scoped", "limiting", "handling"}

\* Every request gets an answer.
EveryRequestEnds == \A r \in Requests : <>(pc[r] \in Over)

\* ingest.py:175-176: the limiter's connection "does not interfere with" the one
\* the request holds: every ingest request that was given its connection ends.
IngestNotHeldUp == \A r \in Ingests : (pc[r] = "scoped") ~> (pc[r] \in Over)
=============================================================================
