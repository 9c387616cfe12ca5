------------------------------- MODULE Ingest -------------------------------
(***************************************************************************)
(* The ingest requests of one organisation (ingest_event in                *)
(* app/routers/ingest.py) as a composition: the connections they take from *)
(* the pool they share with other routes (ConnectionPool) and the token    *)
(* bucket they draw on meanwhile (RateLimit).  A request holds its second  *)
(* connection exactly while its limiter transaction is open, and a verdict *)
(* of the limiter decides how the request goes on.                         *)
(***************************************************************************)
EXTENDS ConnectionPool, Bucket

VARIABLES
    now, row, tx, txStart, lockAt, filled,      \* of the limiter, tx is its pc
    spent, waited, ideal,
    verdict     \* what _check_rate_limit_db returned to each ingest request

bucketVars == <<now, row, tx, txStart, lockAt, filled, spent, waited, ideal>>
poolVars   == <<pc, owner, org>>
ingestVars == <<poolVars, bucketVars, verdict>>

Limiter == INSTANCE RateLimit WITH Requests <- Ingests, pc <- tx

----------------------------------------------------------------------------
IngestInit ==
    /\ Init
    /\ Limiter!Init
    /\ verdict = [r \in Ingests |-> "none"]

\* What needs no limiter: the dependency, the question for a second connection.
Proceed(r) ==
    /\ Open(r) \/ AskSecond(r)
    /\ UNCHANGED <<bucketVars, verdict>>

\* async with pool.acquire, async with transaction.
BeginLimit(r) ==
    /\ TakeSecond(r)
    /\ Limiter!Begin(r)
    /\ UNCHANGED verdict

\* Variant: a request is denied when another one is drawing on the bucket.
LockRowOrDeny(r) ==
    /\ Limiter!Lock(r)
    /\ verdict' = [verdict EXCEPT ![r] =
                     IF \E q \in Ingests \ {r} : tx[q] = "waiting" THEN "denied"
                     ELSE IF filled'[r] < Cost THEN "denied" ELSE @]
    /\ UNCHANGED poolVars

\* With the row come its tokens: a request that cannot pay is denied by them,
\* however long its transaction still takes to commit.
LockRow(r) ==
    /\ Limiter!Lock(r)
    /\ verdict' = [verdict EXCEPT ![r] = IF filled'[r] < Cost THEN "denied" ELSE @]
    /\ UNCHANGED poolVars

\* The limiter commits, gives its connection back and returns its verdict.
Decide(r) ==
    /\ FinishLimit(r)
    /\ Limiter!Commit(r)
    /\ verdict' = [verdict EXCEPT ![r] = IF @ = "denied" THEN @ ELSE "admitted"]

\* A 429 is raised for a denied request, so only an admitted one is answered.
Return(r) ==
    /\ r \in Ingests => verdict[r] = "admitted"
    /\ Answer(r)
    /\ UNCHANGED <<bucketVars, verdict>>

\* An exception unwinds both blocks: the limiter's transaction rolls back with it.
Raise(r) ==
    /\ Fail(r)
    /\ IF pc[r] = "limiting" THEN Limiter!Abort(r) ELSE UNCHANGED bucketVars
    /\ UNCHANGED verdict

\* The clock of the limiter goes on whatever the requests do.
Pass == Limiter!Tick /\ UNCHANGED <<poolVars, verdict>>

Step(r) == Proceed(r) \/ Return(r) \/ Raise(r)
LimitStep(r) == BeginLimit(r) \/ LockRow(r) \/ Decide(r)

IngestDone == (\A r \in Requests : pc[r] \in Over) /\ UNCHANGED ingestVars

IngestNext ==
    \/ \E r \in Requests : Step(r)
    \/ \E r \in Ingests : LimitStep(r)
    \/ Pass
    \/ IngestDone

\* The event loop comes back to every request whose await can return, and the
\* database grants the row lock when it is free.
IngestSpec ==
    /\ IngestInit
    /\ [][IngestNext]_ingestVars
    /\ \A r \in Requests : WF_ingestVars(Step(r))
    /\ \A r \in Ingests : WF_ingestVars(LimitStep(r))

----------------------------------------------------------------------------
(* Properties *)

\* As in RateLimit, with the requests of the pool for its transactions.
OverdraftIsWaiting == Limiter!OverdraftIsWaiting
NeverTooStrict == Limiter!NeverTooStrict

\* Pool, limiter and handler together give the clients the admission control of
\* Admission: whatever waits, overtakes, fails and rolls back, each request is
\* judged once, and none is turned away (429, ingest.py:177-178) that an exact
\* bucket could have paid at that moment.
Promise == INSTANCE Admission WITH Requests <- Ingests, clock <- now, level <- ideal
AdmissionKept == Promise!Spec
=============================================================================
