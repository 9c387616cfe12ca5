----------------------------- MODULE RateLimit -----------------------------
(***************************************************************************)
(* The token bucket of one organisation (_check_rate_limit_db in           *)
(* app/routers/ingest.py): a row of rate_limits that concurrent requests,  *)
(* in one or several API processes, read and write under a row lock.       *)
(*                                                                         *)
(* Time advances in ticks.  Tokens are counted in what one tick refills,   *)
(* so a request costs Cost such units (the 1.0 of the code) and elapsed *  *)
(* _RATE is just the number of ticks elapsed.                              *)
(***************************************************************************)
EXTENDS Bucket

CONSTANT Requests   \* names for requests in flight; a name is reused

VARIABLES
    now,        \* the clock
    row,        \* the committed row: tokens and last_refill_at
    pc,         \* where each request stands
    txStart,    \* NOW() of the request's transaction: when it began
    lockAt,     \* when the request got the row lock and read the clock
    filled,     \* tokens after the refill it computed
    spent,      \* units that admitted requests have consumed (history)
    waited,     \* ticks that these and the denied ones took to get the lock (history)
    ideal       \* level of an exact bucket that the same requests drain (history)

dbVars   == <<now, row>>
reqVars  == <<pc, txStart, lockAt, filled>>
histVars == <<spent, waited, ideal>>
vars == <<dbVars, reqVars, histVars>>

----------------------------------------------------------------------------
Init ==
    /\ now = 0
    /\ row = NoRow
    /\ pc = [r \in Requests |-> "idle"]
    /\ txStart = [r \in Requests |-> 0]
    /\ lockAt = [r \in Requests |-> 0]
    /\ filled = [r \in Requests |-> 0]
    /\ spent = 0
    /\ waited = 0
    /\ ideal = Burst

TypeOK ==
    /\ now \in 0 .. MaxTime
    /\ row = NoRow \/ row \in [tokens : 0 .. Burst, refillAt : 0 .. now]
    /\ pc \in [Requests -> {"idle", "waiting", "locked"}]
    /\ txStart \in [Requests -> 0 .. now]
    /\ lockAt \in [Requests -> 0 .. now]
    /\ filled \in [Requests -> 0 .. Burst]
    /\ spent \in Nat
    /\ waited \in Nat
    /\ ideal \in Int

LockFree == \A r \in Requests : pc[r] # "locked"

----------------------------------------------------------------------------
\* The transaction begins: from here on NOW() is this moment.
Begin(r) ==
    /\ pc[r] = "idle"
    /\ pc' = [pc EXCEPT ![r] = "waiting"]
    /\ txStart' = [txStart EXCEPT ![r] = now]
    /\ UNCHANGED <<lockAt, filled, dbVars, histVars>>

\* The row as request r finds it: step 1 inserts it with the defaults of the
\* table, the last of them NOW(), when it is not there.
Seen(r) ==
    IF row = NoRow THEN [tokens |-> Burst, refillAt |-> txStart[r]] ELSE row

\* Variant: a plain SELECT does not wait for the lock.
LockNotTaken(r) ==
    /\ pc[r] = "waiting"
    /\ pc' = [pc EXCEPT ![r] = "locked"]
    /\ lockAt' = [lockAt EXCEPT ![r] = now]
    /\ filled' = [filled EXCEPT ![r] =
                    AtMostBurst(Seen(r).tokens + (now - Seen(r).refillAt))]
    /\ UNCHANGED <<txStart, dbVars, histVars>>

\* Steps 1 to 3: both the INSERT of a row another request is inserting and the
\* SELECT FOR UPDATE wait for that request; then the clock is read, not NOW().
Lock(r) ==
    /\ pc[r] = "waiting"
    /\ LockFree
    /\ pc' = [pc EXCEPT ![r] = "locked"]
    /\ lockAt' = [lockAt EXCEPT ![r] = now]
    /\ filled' = [filled EXCEPT ![r] =
                    AtMostBurst(Seen(r).tokens + (now - Seen(r).refillAt))]
    /\ UNCHANGED <<txStart, dbVars, histVars>>

Price(r) == IF filled[r] >= Cost THEN Cost ELSE 0

\* The request is over; its name may be used again.
Finish(r) ==
    /\ pc' = [pc EXCEPT ![r] = "idle"]
    /\ txStart' = [txStart EXCEPT ![r] = 0]
    /\ lockAt' = [lockAt EXCEPT ![r] = 0]
    /\ filled' = [filled EXCEPT ![r] = 0]

\* Variant: the refill is stamped with the moment of the commit.
CommitStampedLate(r) ==
    /\ pc[r] = "locked"
    /\ row' = [tokens |-> filled[r] - Price(r), refillAt |-> now]
    /\ spent' = spent + Price(r)
    /\ waited' = waited + (lockAt[r] - txStart[r])
    /\ ideal' = ideal - Price(r)
    /\ Finish(r)
    /\ UNCHANGED now

\* Step 4: consume or deny, store the level and stamp it with NOW(), which is
\* when this transaction began.  The commit releases the lock.
Commit(r) ==
    /\ pc[r] = "locked"
    /\ row' = [tokens |-> filled[r] - Price(r), refillAt |-> txStart[r]]
    /\ spent' = spent + Price(r)
    /\ waited' = waited + (lockAt[r] - txStart[r])
    /\ ideal' = ideal - Price(r)
    /\ Finish(r)
    /\ UNCHANGED now

\* The transaction rolls back: an error, a 30 s command timeout, a crash.
Abort(r) ==
    /\ pc[r] # "idle"
    /\ Finish(r)
    /\ UNCHANGED <<dbVars, histVars>>

Tick ==
    /\ now < MaxTime
    /\ now' = now + 1
    /\ ideal' = AtMostBurst(ideal + 1)
    /\ UNCHANGED <<row, reqVars, spent, waited>>

RequestStep(r) == Begin(r) \/ Lock(r) \/ Commit(r) \/ Abort(r)

Next == (\E r \in Requests : RequestStep(r)) \/ Tick

Spec == Init /\ [][Next]_vars

----------------------------------------------------------------------------
(* Properties *)

\* What the limiter admits is bounded by the burst, the refill since the start
\* and the time requests waited for the row lock: waiting is the only way it
\* gives out more than its rate, because a commit stamps the row with a moment
\* before the refill it stores (ingest.py:78 reads the clock, :90 uses NOW()).
OverdraftIsWaiting == spent <= Burst + now + waited

\* The bucket is never below the exact one, so no request is denied that the
\* documented rate allows, whatever the aborts and the order of the locks.
Level == IF row = NoRow
         THEN Burst
         ELSE AtMostBurst(row.tokens + (now - row.refillAt))
NeverTooStrict == Level >= ideal

\* ingest.py:4 and :28-34: a token bucket of this rate and burst, correct with
\* concurrent requests: no more is admitted than the burst plus the refill.
WithinRate == spent <= Burst + now
=============================================================================
