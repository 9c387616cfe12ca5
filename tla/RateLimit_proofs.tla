-------------------------- MODULE RateLimit_proofs --------------------------
(***************************************************************************)
(* Theorems about RateLimit for any burst, price, number of requests and   *)
(* length of run.                                                          *)
(***************************************************************************)
EXTENDS RateLimit, TLAPS

\* The row lock excludes, and its holder's transaction began before it got it.
LockInv ==
    /\ \A r, s \in Requests : pc[r] = "locked" /\ pc[s] = "locked" => r = s
    /\ \A r \in Requests : pc[r] = "locked" => txStart[r] <= lockAt[r]

\* The books: what was spent and what is left never exceed what the bucket
\* held at first, the refill up to the stamp of the row, and the waiting that
\* put the stamp behind the refill.
RowInv ==
    /\ row = NoRow => spent = 0 /\ waited = 0
    /\ row # NoRow => spent + row.tokens <= Burst + row.refillAt + waited

\* The same books for the level the holder of the lock has computed.
HeldInv ==
    \A r \in Requests : pc[r] = "locked" =>
        /\ spent + filled[r] <= Burst + lockAt[r] + waited
        /\ AtMostBurst(filled[r] + (now - lockAt[r])) >= ideal

IInv ==
    /\ TypeOK
    /\ LockInv
    /\ RowInv
    /\ HeldInv
    /\ NeverTooStrict
    /\ ideal <= Burst

----------------------------------------------------------------------------
\* The cap is the smaller of its argument and the burst, and it is monotonic.
LEMMA CapFacts ==
    /\ \A n \in Int : /\ AtMostBurst(n) \in Int
                      /\ AtMostBurst(n) <= n
                      /\ AtMostBurst(n) <= Burst
                      /\ n >= 0 => AtMostBurst(n) \in 0 .. Burst
    /\ \A m, n \in Int : m <= n => AtMostBurst(m) <= AtMostBurst(n)
  BY RateAssumption DEF AtMostBurst, RateAssumption

\* A row is not the absence of one.
LEMMA RowFacts ==
    ASSUME TypeOK
    PROVE  /\ now \in Nat
           /\ row # NoRow => /\ row.tokens \in 0 .. Burst
                             /\ row.refillAt \in 0 .. now
           /\ \A t \in 0 .. Burst, n \in 0 .. now :
                [tokens |-> t, refillAt |-> n] # NoRow
  BY RateAssumption DEF TypeOK, RateAssumption

\* An empty bucket table: nothing spent, nothing waited, a full exact bucket.
LEMMA InitIInv == Init => IInv
  <1> SUFFICES ASSUME Init PROVE IInv
    OBVIOUS
  <1>1. TypeOK
    BY RateAssumption DEF Init, TypeOK, RateAssumption
  <1>2. LockInv /\ RowInv /\ HeldInv
    BY DEF Init, LockInv, RowInv, HeldInv
  <1>3. NeverTooStrict /\ ideal <= Burst
    BY RateAssumption DEF Init, NeverTooStrict, Level, RateAssumption
  <1> QED BY <1>1, <1>2, <1>3 DEF IInv

\* Beginning a transaction touches neither the row nor its lock.
LEMMA BeginStep ==
    ASSUME IInv, NEW r \in Requests, Begin(r)
    PROVE  IInv'
  <1> USE DEF IInv, Begin, dbVars, histVars
  <1>1. TypeOK'
    BY DEF TypeOK
  <1>2. \A s \in Requests : pc'[s] = "locked" =>
            pc[s] = "locked" /\ s # r /\ txStart'[s] = txStart[s]
    BY DEF TypeOK
  <1>3. LockInv'
    BY <1>2 DEF LockInv
  <1>4. RowInv' /\ HeldInv'
    BY <1>2 DEF RowInv, HeldInv, AtMostBurst
  <1>5. NeverTooStrict' /\ (ideal <= Burst)'
    BY DEF NeverTooStrict, Level, AtMostBurst
  <1> QED BY <1>1, <1>3, <1>4, <1>5

\* Taking the lock: the refill is computed from the row and the clock.
LEMMA LockStep ==
    ASSUME IInv, NEW r \in Requests, Lock(r)
    PROVE  IInv'
  <1> USE DEF IInv, Lock, dbVars, histVars
  <1> DEFINE raw == Seen(r).tokens + (now - Seen(r).refillAt)
  <1>1. raw \in Int /\ raw >= 0
    BY RowFacts, RateAssumption DEF TypeOK, Seen, RateAssumption
  <1>2. AtMostBurst(raw) \in 0 .. Burst
    BY <1>1, CapFacts
  <1>3. TypeOK'
    BY <1>2 DEF TypeOK
  <1>4. \A s \in Requests : pc'[s] = "locked" => s = r
    BY DEF LockFree, TypeOK
  <1>5. lockAt'[r] = now /\ filled'[r] = AtMostBurst(raw) /\ txStart' = txStart
    BY DEF TypeOK
  <1>6. LockInv'
    BY <1>4, <1>5 DEF LockInv, TypeOK
  <1>7. RowInv'
    BY DEF RowInv
  <1>8. spent + AtMostBurst(raw) <= Burst + now + waited
    <2>1. CASE row = NoRow
      BY <2>1, <1>1, CapFacts, RateAssumption DEF RowInv, TypeOK, RateAssumption
    <2>2. CASE row # NoRow
      <3>1. raw = row.tokens + (now - row.refillAt)
        BY <2>2 DEF Seen
      <3>2. spent + row.tokens <= Burst + row.refillAt + waited
        BY <2>2 DEF RowInv
      <3>3. AtMostBurst(raw) <= raw /\ AtMostBurst(raw) \in Int
        BY <1>1, CapFacts
      <3> QED BY <3>1, <3>2, <3>3, <2>2, RowFacts, RateAssumption
              DEF TypeOK, RateAssumption
    <2> QED BY <2>1, <2>2
  <1>9. AtMostBurst(AtMostBurst(raw) + (now - now)) >= ideal
    <2>1. AtMostBurst(raw) >= ideal
      <3>1. CASE row = NoRow
        <4>1. raw >= Burst
          BY <3>1, RateAssumption DEF Seen, TypeOK, RateAssumption
        <4> QED BY <4>1, <1>1, RateAssumption DEF AtMostBurst, TypeOK, RateAssumption
      <3>2. CASE row # NoRow
        BY <3>2 DEF Seen, NeverTooStrict, Level
      <3> QED BY <3>1, <3>2
    <2> QED BY <2>1, <1>2, RowFacts, RateAssumption DEF AtMostBurst, RateAssumption
  <1>10. HeldInv'
    BY <1>4, <1>5, <1>8, <1>9 DEF HeldInv, AtMostBurst
  <1>11. NeverTooStrict' /\ (ideal <= Burst)'
    BY DEF NeverTooStrict, Level, AtMostBurst
  <1> QED BY <1>3, <1>6, <1>7, <1>10, <1>11

\* A request that is over leaves the others as they were.
LEMMA FinishFacts ==
    ASSUME TypeOK, NEW r \in Requests, Finish(r)
    PROVE  /\ pc' \in [Requests -> {"idle", "waiting", "locked"}]
           /\ txStart' \in [Requests -> 0 .. now]
           /\ lockAt' \in [Requests -> 0 .. now]
           /\ filled' \in [Requests -> 0 .. Burst]
           /\ \A s \in Requests : pc'[s] = "locked" =>
                /\ pc[s] = "locked"
                /\ s # r
                /\ txStart'[s] = txStart[s]
                /\ lockAt'[s] = lockAt[s]
                /\ filled'[s] = filled[s]
  BY RateAssumption, RowFacts DEF TypeOK, Finish, RateAssumption

\* The commit writes the level and stamps it with the start of the transaction:
\* the distance between the two is what goes on the account of waiting.
LEMMA CommitStep ==
    ASSUME IInv, NEW r \in Requests, Commit(r)
    PROVE  IInv'
  <1> USE DEF IInv, Commit
  <1>1. /\ Price(r) \in 0 .. filled[r]
        /\ filled[r] \in 0 .. Burst /\ filled[r] \in Int
        /\ txStart[r] \in 0 .. now /\ lockAt[r] \in 0 .. now
        /\ txStart[r] <= lockAt[r]
        /\ now \in Nat /\ Burst \in Nat
    BY RateAssumption, RowFacts DEF TypeOK, LockInv, Price, RateAssumption
  <1>2. row' = [tokens |-> filled[r] - Price(r), refillAt |-> txStart[r]]
    OBVIOUS
  <1>3. /\ row'.tokens = filled[r] - Price(r)
        /\ row'.refillAt = txStart[r]
        /\ row'.tokens \in 0 .. Burst
        /\ row' # NoRow
    BY <1>1, <1>2, RowFacts
  <1>4. /\ spent' = spent + Price(r)
        /\ waited' = waited + (lockAt[r] - txStart[r])
        /\ spent' \in Nat /\ waited' \in Nat
        /\ ideal' = ideal - Price(r)
        /\ ideal' \in Int /\ ideal' <= Burst
    BY <1>1 DEF TypeOK
  <1>5. TypeOK'
    <2>1. row' \in [tokens : 0 .. Burst, refillAt : 0 .. now']
      BY <1>1, <1>2, <1>3
    <2> QED BY <2>1, <1>4, FinishFacts DEF TypeOK
  <1>6. \A s \in Requests : pc'[s] # "locked"
    BY FinishFacts DEF LockInv
  <1>7. LockInv' /\ HeldInv'
    BY <1>6 DEF LockInv, HeldInv
  <1>8. RowInv'
    <2>1. spent + filled[r] <= Burst + lockAt[r] + waited
      BY DEF HeldInv
    <2> QED BY <2>1, <1>1, <1>3, <1>4 DEF RowInv, TypeOK
  <1>9. NeverTooStrict'
    <2>1. AtMostBurst(filled[r] + (now - lockAt[r])) >= ideal
      BY DEF HeldInv
    <2>2. AtMostBurst((filled[r] - Price(r)) + (now - txStart[r])) >= ideal - Price(r)
      BY <2>1, <1>1 DEF AtMostBurst, TypeOK
    <2>3. Level' = AtMostBurst((filled[r] - Price(r)) + (now - txStart[r]))
      BY <1>3 DEF Level, AtMostBurst
    <2> QED BY <2>2, <2>3, <1>4 DEF NeverTooStrict
  <1> QED BY <1>4, <1>5, <1>7, <1>8, <1>9

\* A rollback only releases the lock.
LEMMA AbortStep ==
    ASSUME IInv, NEW r \in Requests, Abort(r)
    PROVE  IInv'
  <1> USE DEF IInv, Abort, dbVars, histVars
  <1>1. TypeOK'
    BY FinishFacts DEF TypeOK
  <1>2. LockInv'
    BY FinishFacts DEF LockInv
  <1>3. RowInv' /\ HeldInv'
    BY FinishFacts DEF RowInv, HeldInv, AtMostBurst
  <1>4. NeverTooStrict' /\ (ideal <= Burst)'
    BY DEF NeverTooStrict, Level, AtMostBurst
  <1> QED BY <1>1, <1>2, <1>3, <1>4

\* One more tick refills the exact bucket by at most what it adds to a level.
LEMMA CapTick ==
    ASSUME NEW n \in Int, NEW i \in Int, AtMostBurst(n) >= i
    PROVE  AtMostBurst(n + 1) >= AtMostBurst(i + 1)
  BY RateAssumption DEF AtMostBurst, RateAssumption

\* The clock moves the committed row and the exact bucket together.
LEMMA TickStep ==
    ASSUME IInv, Tick
    PROVE  IInv'
  <1> USE DEF IInv, Tick, reqVars
  <1>0. now \in Nat /\ now' = now + 1 /\ Burst \in Nat /\ MaxTime \in Nat
        /\ now < MaxTime /\ ideal \in Int /\ ideal' = AtMostBurst(ideal + 1)
    BY RowFacts, RateAssumption DEF RateAssumption, TypeOK
  <1>1. ideal' \in Int /\ ideal' <= Burst
    BY <1>0, CapFacts
  <1>2. now' \in 0 .. MaxTime
    BY <1>0
  <1>3. 0 .. now \subseteq 0 .. now'
    BY <1>0
  <1>4. TypeOK'
    BY <1>1, <1>2, <1>3 DEF TypeOK
  <1>5. LockInv' /\ RowInv'
    BY DEF LockInv, RowInv
  <1>6. HeldInv'
    <2> SUFFICES ASSUME NEW r \in Requests, pc[r] = "locked"
                 PROVE  /\ spent + filled[r] <= Burst + lockAt[r] + waited
                        /\ AtMostBurst(filled[r] + (now' - lockAt[r])) >= ideal'
      BY DEF HeldInv, AtMostBurst
    <2>1. filled[r] \in Int /\ lockAt[r] \in Int
      BY <1>0, RateAssumption DEF TypeOK, RateAssumption
    <2>2. AtMostBurst((filled[r] + (now - lockAt[r])) + 1) >= ideal'
      BY <1>0, <2>1, CapTick DEF HeldInv
    <2>3. filled[r] + (now' - lockAt[r]) = (filled[r] + (now - lockAt[r])) + 1
      BY <1>0, <2>1
    <2> QED BY <2>2, <2>3 DEF HeldInv
  <1>7. NeverTooStrict'
    <2>1. CASE row = NoRow
      BY <2>1, <1>1 DEF NeverTooStrict, Level
    <2>2. CASE row # NoRow
      <3>1. row.tokens \in Int /\ row.refillAt \in Int
        BY <2>2, <1>0, RowFacts
      <3>2. AtMostBurst((row.tokens + (now - row.refillAt)) + 1) >= ideal'
        BY <1>0, <3>1, <2>2, CapTick DEF NeverTooStrict, Level
      <3>3. row.tokens + (now' - row.refillAt) = (row.tokens + (now - row.refillAt)) + 1
        BY <1>0, <3>1
      <3>4. Level' = AtMostBurst(row.tokens + (now' - row.refillAt))
        BY <2>2 DEF Level, AtMostBurst
      <3> QED BY <3>2, <3>3, <3>4 DEF NeverTooStrict
    <2> QED BY <2>1, <2>2
  <1> QED BY <1>1, <1>4, <1>5, <1>6, <1>7

LEMMA NextIInv == IInv /\ [Next]_vars => IInv'
  <1> SUFFICES ASSUME IInv, [Next]_vars PROVE IInv'
    OBVIOUS
  <1>1. ASSUME NEW r \in Requests, RequestStep(r) PROVE IInv'
    BY <1>1, BeginStep, LockStep, CommitStep, AbortStep DEF RequestStep
  <1>2. CASE Tick
    BY <1>2, TickStep
  <1>3. CASE UNCHANGED vars
    BY <1>3 DEF IInv, TypeOK, LockInv, RowInv, HeldInv, NeverTooStrict, Level,
                AtMostBurst, vars, dbVars, reqVars, histVars
  <1> QED BY <1>1, <1>2, <1>3 DEF Next

\* IInv is inductive, hence an invariant.
LEMMA Invariance == Spec => []IInv
  BY InitIInv, NextIInv, PTL DEF Spec

\* The stored level stays between nothing and the burst, and the stamp of the
\* row never lies in the future.
THEOREM TypeCorrect == Spec => []TypeOK
  <1>1. IInv => TypeOK
    BY DEF IInv
  <1> QED BY <1>1, Invariance, PTL

\* What the books of the row say of what was spent.
LEMMA BooksBound == IInv => OverdraftIsWaiting
  <1> SUFFICES ASSUME IInv PROVE OverdraftIsWaiting
    OBVIOUS
  <1>1. CASE row = NoRow
    BY <1>1, RateAssumption, RowFacts
    DEF IInv, TypeOK, RowInv, OverdraftIsWaiting, RateAssumption
  <1>2. CASE row # NoRow
    BY <1>2, RateAssumption, RowFacts
    DEF IInv, TypeOK, RowInv, OverdraftIsWaiting, RateAssumption
  <1> QED BY <1>1, <1>2

\* Whatever the interleaving of requests, replicas and rollbacks, the limiter
\* admits at most the burst, the refill and the time spent waiting for the lock.
THEOREM OverdraftBounded == Spec => []OverdraftIsWaiting
  BY BooksBound, Invariance, PTL

\* The limiter never holds less than an exact bucket would: it denies no
\* request that its documented rate and burst allow.
THEOREM NeverStricter == Spec => []NeverTooStrict
  <1>1. IInv => NeverTooStrict
    BY DEF IInv
  <1> QED BY <1>1, Invariance, PTL

\* The overdraft of the finding has one cause only: while every transaction got the
\* row lock within the tick it began in, the limiter keeps to its documented rate,
\* concurrent requests or not (ingest.py:4, :28-34).
COROLLARY WithinRateUnlessWaiting == Spec => [](waited = 0 => WithinRate)
  <1>1. IInv /\ OverdraftIsWaiting => (waited = 0 => WithinRate)
    BY RateAssumption DEF IInv, TypeOK, RateAssumption, OverdraftIsWaiting, WithinRate
  <1> QED BY <1>1, OverdraftBounded, Invariance, PTL
=============================================================================
