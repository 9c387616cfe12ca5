---------------------------- MODULE Ingest_proofs ----------------------------
(***************************************************************************)
(* Theorems about ConnectionPool, for a pool of any size and any requests, *)
(* and about Ingest, for any burst and price too: what is proved of the    *)
(* pool and of the limiter holds in their composition, and the composition *)
(* implements Admission.                                                   *)
(***************************************************************************)
EXTENDS Ingest, FiniteSetTheorems, TLAPS

(***************************************************************************)
(* The pool by itself                                                      *)
(***************************************************************************)

\* Only ingest requests ever wait for a second connection.
OnlyIngestsWait ==
    \A r \in Requests : pc[r] \in {"scoped", "waiting", "limiting"} => r \in Ingests

IInv == TypeOK /\ OnlyIngestsWait /\ Accounted

----------------------------------------------------------------------------
\* Nobody owns anything at first.
LEMMA InitIInv == Init => IInv
  BY PoolAssumption
  DEF Init, IInv, TypeOK, OnlyIngestsWait, Accounted, Books, HeldBy, WithOne, WithTwo,
      Over, PoolAssumption

\* Acquiring a free connection adds it to what the request owns and takes
\* nothing from the others.
LEMMA AcquireFacts ==
    ASSUME TypeOK, NEW r \in Requests, NEW c \in Free,
           owner' = [owner EXCEPT ![c] = r]
    PROVE  /\ owner' \in [Conns -> Requests \cup {Nobody}]
           /\ c \in Conns
           /\ HeldBy(r)' = HeldBy(r) \cup {c}
           /\ c \notin HeldBy(r)
           /\ \A s \in Requests : s # r => HeldBy(s)' = HeldBy(s)
  BY PoolAssumption DEF TypeOK, Free, HeldBy, PoolAssumption

\* Releasing does the opposite.
LEMMA ReleaseFacts ==
    ASSUME TypeOK, NEW r \in Requests, NEW S \in SUBSET HeldBy(r), Release(S)
    PROVE  /\ owner' \in [Conns -> Requests \cup {Nobody}]
           /\ HeldBy(r)' = HeldBy(r) \ S
           /\ \A s \in Requests : s # r => HeldBy(s)' = HeldBy(s)
  BY PoolAssumption DEF TypeOK, Release, HeldBy, PoolAssumption

\* A step of one request leaves alone what Accounted says of the others.
LEMMA OthersAccounted ==
    ASSUME IInv, NEW r \in Requests,
           \A s \in Requests : s # r => HeldBy(s)' = HeldBy(s),
           \A s \in Requests : s # r => pc'[s] = pc[s] /\ org'[s] = org[s],
           Books(r)'
    PROVE  Accounted'
  <1> SUFFICES ASSUME NEW s \in Requests, s # r PROVE Books(s)'
    BY DEF Accounted
  <1>1. Books(s)
    BY DEF IInv, Accounted
  <1> QED BY <1>1 DEF Books

\* Every step of a request keeps the books.
LEMMA StepPreserves ==
    ASSUME IInv, NEW r \in Requests, RequestStep(r)
    PROVE  IInv'
  <1> USE DEF Goto
  <1>0. TypeOK /\ OnlyIngestsWait
    BY DEF IInv
  <1>1. CASE Open(r)
    <2>1. PICK c \in Free : /\ owner' = [owner EXCEPT ![c] = r]
                            /\ org' = [org EXCEPT ![r] = c]
      BY <1>1 DEF Open
    <2>2. TypeOK'
      BY <1>0, <1>1, <2>1, AcquireFacts DEF Open, TypeOK, WithOne
    <2>3. OnlyIngestsWait'
      BY <1>0, <1>1 DEF Open, TypeOK, OnlyIngestsWait
    <2>4. HeldBy(r) = {}
      BY <1>1 DEF IInv, Accounted, Books, Open
    <2>a. owner' = [owner EXCEPT ![c] = r]
      BY <2>1
    <2>b. /\ c \in Conns /\ HeldBy(r)' = HeldBy(r) \cup {c}
          /\ \A s \in Requests : s # r => HeldBy(s)' = HeldBy(s)
      BY <1>0, <2>a, AcquireFacts
    <2>5. /\ c \in Conns /\ HeldBy(r)' = {c}
          /\ \A s \in Requests : s # r => HeldBy(s)' = HeldBy(s)
      BY <2>4, <2>b
    <2>6. org'[r] = c /\ \A s \in Requests : s # r => org'[s] = org[s] /\ pc'[s] = pc[s]
      BY <1>0, <1>1, <2>1 DEF Open, TypeOK
    <2>7. pc'[r] \in WithOne /\ pc'[r] \notin {"new"} \cup Over \cup WithTwo
      BY <1>0, <1>1 DEF Open, TypeOK, WithOne, WithTwo, Over
    <2>8. Books(r)'
      BY <2>5, <2>6, <2>7 DEF Books
    <2>9. Accounted'
      BY <2>5, <2>6, <2>8, OthersAccounted
    <2> QED BY <2>2, <2>3, <2>9 DEF IInv
  <1>2. CASE AskSecond(r)
    <2>1. TypeOK' /\ OnlyIngestsWait'
      BY <1>0, <1>2 DEF AskSecond, TypeOK, OnlyIngestsWait, WithOne
    <2>2. org[r] \in Conns /\ HeldBy(r) = {org[r]}
      BY <1>2 DEF IInv, Accounted, Books, AskSecond, WithOne
    <2>3. \A s \in Requests : HeldBy(s)' = HeldBy(s)
      BY <1>2 DEF AskSecond, HeldBy
    <2>4. Books(r)'
      BY <1>0, <1>2, <2>2, <2>3 DEF AskSecond, TypeOK, Books, WithOne, WithTwo, Over
    <2>5. \A s \in Requests : s # r => pc'[s] = pc[s] /\ org'[s] = org[s]
      BY <1>0, <1>2 DEF AskSecond, TypeOK
    <2>6. Accounted'
      BY <2>3, <2>4, <2>5, OthersAccounted
    <2> QED BY <2>1, <2>6 DEF IInv
  <1>3. CASE TakeSecond(r)
    <2>1. PICK c \in Free : owner' = [owner EXCEPT ![c] = r]
      BY <1>3 DEF TakeSecond
    <2>2. TypeOK'
      BY <1>0, <1>3, <2>1, AcquireFacts DEF TakeSecond, TypeOK, WithTwo
    <2>3. OnlyIngestsWait'
      BY <1>0, <1>3 DEF TakeSecond, TypeOK, OnlyIngestsWait
    <2>4. org[r] \in Conns /\ HeldBy(r) = {org[r]}
      BY <1>3 DEF IInv, Accounted, Books, TakeSecond, WithOne
    <2>a. /\ HeldBy(r)' = HeldBy(r) \cup {c} /\ c \notin HeldBy(r)
          /\ \A s \in Requests : s # r => HeldBy(s)' = HeldBy(s)
      BY <1>0, <2>1, AcquireFacts
    <2>5. /\ c \in HeldBy(r)' /\ c # org[r] /\ HeldBy(r)' = {c, org[r]}
          /\ \A s \in Requests : s # r => HeldBy(s)' = HeldBy(s)
      BY <2>4, <2>a
    <2>6. org' = org /\ \A s \in Requests : s # r => pc'[s] = pc[s]
      BY <1>0, <1>3 DEF TakeSecond, TypeOK
    <2>7. pc'[r] \in WithTwo /\ pc'[r] \notin {"new"} \cup Over \cup WithOne
      BY <1>0, <1>3 DEF TakeSecond, TypeOK, WithOne, WithTwo, Over
    <2>8. Books(r)'
      BY <2>5, <2>6, <2>7 DEF Books
    <2>9. Accounted'
      BY <2>5, <2>6, <2>8, OthersAccounted
    <2> QED BY <2>2, <2>3, <2>9 DEF IInv
  <1>4. CASE FinishLimit(r)
    <2> DEFINE S == HeldBy(r) \ {org[r]}
    <2>1. PICK c \in HeldBy(r) : c # org[r] /\ HeldBy(r) = {c, org[r]}
      BY <1>4 DEF IInv, Accounted, Books, FinishLimit, WithTwo
    <2>2. Release(S) /\ S \in SUBSET HeldBy(r) /\ HeldBy(r) \ S = {org[r]}
      BY <1>4, <2>1 DEF FinishLimit
    <2>3. org[r] \in Conns
      BY <2>1 DEF HeldBy
    <2>4. TypeOK'
      BY <1>0, <1>4, <2>2, ReleaseFacts DEF FinishLimit, TypeOK, WithOne
    <2>5. OnlyIngestsWait'
      BY <1>0, <1>4 DEF FinishLimit, TypeOK, OnlyIngestsWait
    <2>6. HeldBy(r)' = {org[r]} /\ \A s \in Requests : s # r => HeldBy(s)' = HeldBy(s)
      BY <1>0, <2>2, ReleaseFacts
    <2>7. Books(r)'
      BY <1>0, <1>4, <2>3, <2>6 DEF FinishLimit, TypeOK, Books, WithOne, WithTwo, Over
    <2>8. \A s \in Requests : s # r => pc'[s] = pc[s] /\ org'[s] = org[s]
      BY <1>0, <1>4 DEF FinishLimit, TypeOK
    <2>9. Accounted'
      BY <2>6, <2>7, <2>8, OthersAccounted
    <2> QED BY <2>4, <2>5, <2>9 DEF IInv
  <1>5. CASE Answer(r)
    <2>1. org[r] \in Conns /\ HeldBy(r) = {org[r]}
      BY <1>5 DEF IInv, Accounted, Books, Answer, WithOne
    <2>2. Release({org[r]}) /\ {org[r]} \in SUBSET HeldBy(r)
      BY <1>5, <2>1 DEF Answer
    <2>3. TypeOK'
      BY <1>0, <1>5, <2>2, ReleaseFacts DEF Answer, TypeOK, Over
    <2>4. OnlyIngestsWait'
      BY <1>0, <1>5 DEF Answer, TypeOK, OnlyIngestsWait
    <2>5. HeldBy(r)' = {} /\ \A s \in Requests : s # r => HeldBy(s)' = HeldBy(s)
      BY <1>0, <2>1, <2>2, ReleaseFacts
    <2>6. Books(r)'
      BY <1>0, <1>5, <2>5 DEF Answer, TypeOK, Books, WithOne, WithTwo, Over
    <2>7. \A s \in Requests : s # r => pc'[s] = pc[s] /\ org'[s] = org[s]
      BY <1>0, <1>5 DEF Answer, TypeOK
    <2>8. Accounted'
      BY <2>5, <2>6, <2>7, OthersAccounted
    <2> QED BY <2>3, <2>4, <2>8 DEF IInv
  <1>6. CASE Fail(r)
    <2>1. Release(HeldBy(r)) /\ HeldBy(r) \in SUBSET HeldBy(r)
      BY <1>6 DEF Fail
    <2>2. TypeOK'
      BY <1>0, <1>6, <2>1, ReleaseFacts DEF Fail, TypeOK, Over
    <2>3. OnlyIngestsWait'
      BY <1>0, <1>6 DEF Fail, TypeOK, OnlyIngestsWait
    <2>4. HeldBy(r)' = {} /\ \A s \in Requests : s # r => HeldBy(s)' = HeldBy(s)
      BY <1>0, <2>1, ReleaseFacts
    <2>5. Books(r)'
      BY <1>0, <1>6, <2>4 DEF Fail, TypeOK, Books, WithOne, WithTwo, Over
    <2>6. \A s \in Requests : s # r => pc'[s] = pc[s] /\ org'[s] = org[s]
      BY <1>0, <1>6 DEF Fail, TypeOK
    <2>7. Accounted'
      BY <2>4, <2>5, <2>6, OthersAccounted
    <2> QED BY <2>2, <2>3, <2>7 DEF IInv
  <1> QED BY <1>1, <1>2, <1>3, <1>4, <1>5, <1>6 DEF RequestStep

LEMMA NextIInv == IInv /\ [Next]_vars => IInv'
  <1> SUFFICES ASSUME IInv, [Next]_vars PROVE IInv'
    OBVIOUS
  <1>1. CASE UNCHANGED vars
    BY <1>1 DEF vars, IInv, TypeOK, OnlyIngestsWait, Accounted, Books, HeldBy
  <1> QED BY <1>1, StepPreserves DEF Next, Done

\* IInv is inductive, hence an invariant.
LEMMA Invariance == Spec => []IInv
  BY InitIInv, NextIInv, PTL DEF Spec

\* With fewer ingest requests than connections, not every connection can be
\* owned by a request that waits for another: a pigeon hole is left.
LEMMA NotAllWaiting ==
    ASSUME IInv, Cardinality(Ingests) < Cardinality(Conns)
    PROVE  SomebodyCanGoOn
  <1> SUFFICES ASSUME ~SomebodyCanGoOn PROVE FALSE
    OBVIOUS
  <1>1. ASSUME NEW c \in Conns
        PROVE  owner[c] \in Ingests /\ HeldBy(owner[c]) = {c}
    <2>1. owner[c] \in Requests /\ c \in HeldBy(owner[c])
      BY DEF IInv, TypeOK, SomebodyCanGoOn, Free, HeldBy
    <2>2. pc[owner[c]] = "waiting"
      BY <2>1 DEF IInv, TypeOK, Accounted, Books, SomebodyCanGoOn, WithOne, WithTwo, Over
    <2> QED BY <2>1, <2>2 DEF IInv, OnlyIngestsWait, Accounted, Books, WithOne
  <1>2. owner \in [Conns -> Ingests]
    BY <1>1 DEF IInv, TypeOK
  <1>3. PICK c, d \in Conns : c # d /\ owner[c] = owner[d]
    BY <1>2, PoolAssumption, FS_PigeonHole DEF PoolAssumption
  <1> QED BY <1>1, <1>3

----------------------------------------------------------------------------
\* For a pool of any size and any requests, failing anywhere, no connection
\* leaks and none is shared.
THEOREM NothingLeaks == Spec => []Accounted
  <1>1. IInv => Accounted
    BY DEF IInv
  <1> QED BY <1>1, Invariance, PTL

\* As long as fewer ingest requests are in progress than the pool has
\* connections, the pool never seizes up.
THEOREM PoolNeverSeizes ==
    ASSUME Cardinality(Ingests) < Cardinality(Conns)
    PROVE  Spec => []SomebodyCanGoOn
  <1>1. IInv => SomebodyCanGoOn
    BY NotAllWaiting
  <1> QED BY <1>1, Invariance, PTL

----------------------------------------------------------------------------
(***************************************************************************)
(* The composition                                                         *)
(***************************************************************************)

LP == INSTANCE RateLimit_proofs WITH Requests <- Ingests, pc <- tx

\* Where the handler, the limiter's transaction and the verdict of a request
\* stand with each other.
TogetherInv ==
    /\ verdict \in [Ingests -> {"none", "admitted", "denied"}]
    /\ \A r \in Ingests :
         /\ pc[r] \in {"new", "scoped", "waiting"} => tx[r] = "idle" /\ verdict[r] = "none"
         /\ pc[r] = "limiting" => tx[r] # "idle"
         /\ pc[r] \in {"handling", "answered", "failed"} => tx[r] = "idle"
         /\ tx[r] = "waiting" => verdict[r] = "none"
         /\ tx[r] = "locked" => verdict[r] = IF filled[r] < Cost THEN "denied" ELSE "none"

WholeInv == IInv /\ LP!IInv /\ TogetherInv

----------------------------------------------------------------------------
\* Nobody has asked for anything.
LEMMA InitWhole == IngestInit => WholeInv
  <1> SUFFICES ASSUME IngestInit PROVE WholeInv
    OBVIOUS
  <1>1. IInv
    BY InitIInv DEF IngestInit
  <1>2. LP!Init
    BY DEF IngestInit, Limiter!Init, LP!Init
  <1>3. LP!IInv
    BY <1>2, LP!InitIInv, RateAssumption DEF RateAssumption, LP!RateAssumption
  <1>4. TogetherInv
    BY DEF IngestInit, Init, Limiter!Init, TogetherInv, Requests
  <1> QED
    BY <1>1, <1>3, <1>4 DEF WholeInv

\* The pool does only what ConnectionPool allows, ...
LEMMA PoolSteps == [IngestNext]_ingestVars => [Next]_vars
  <1> SUFFICES ASSUME [IngestNext]_ingestVars PROVE [Next]_vars
    OBVIOUS
  <1> QED
    BY DEF IngestNext, Step, LimitStep, Proceed, BeginLimit, LockRow, Decide, Return, Raise, Pass,
           IngestDone, ingestVars, poolVars, vars, Next, RequestStep, Requests

\* The composition takes the steps of RateLimit, by either name.
LEMMA SameSteps ==
    ASSUME NEW r
    PROVE  /\ Limiter!Begin(r) <=> LP!Begin(r)
           /\ Limiter!Lock(r) <=> LP!Lock(r)
           /\ Limiter!Commit(r) <=> LP!Commit(r)
           /\ Limiter!Abort(r) <=> LP!Abort(r)
           /\ Limiter!Tick <=> LP!Tick
  <1>1. Limiter!Begin(r) <=> LP!Begin(r)
    BY DEF Limiter!Begin, LP!Begin, Limiter!dbVars, LP!dbVars, Limiter!histVars, LP!histVars
  <1>2. Limiter!Lock(r) <=> LP!Lock(r)
    BY DEF Limiter!Lock, LP!Lock, Limiter!LockFree, LP!LockFree, Limiter!Seen, LP!Seen,
           Limiter!AtMostBurst, LP!AtMostBurst, 
           Limiter!dbVars, LP!dbVars, Limiter!histVars, LP!histVars
  <1>3. Limiter!Commit(r) <=> LP!Commit(r)
    BY DEF Limiter!Commit, LP!Commit, Limiter!Price, LP!Price, Limiter!Finish, LP!Finish
  <1>4. Limiter!Abort(r) <=> LP!Abort(r)
    BY DEF Limiter!Abort, LP!Abort, Limiter!Finish, LP!Finish, Limiter!dbVars, LP!dbVars,
           Limiter!histVars, LP!histVars
  <1>5. Limiter!Tick <=> LP!Tick
    BY DEF Limiter!Tick, LP!Tick, Limiter!AtMostBurst, LP!AtMostBurst, Limiter!reqVars, LP!reqVars
  <1> QED
    BY <1>1, <1>2, <1>3, <1>4, <1>5

\* ... and the limiter what RateLimit allows.
LEMMA LimiterSteps ==
    ASSUME IInv, [IngestNext]_ingestVars
    PROVE  [LP!Next]_(LP!vars)
  <1>1. ASSUME UNCHANGED bucketVars PROVE UNCHANGED LP!vars
    BY <1>1 DEF bucketVars, LP!vars, LP!dbVars, LP!reqVars, LP!histVars
  <1>2. ASSUME NEW r \in Ingests, LP!Begin(r) \/ LP!Lock(r) \/ LP!Commit(r) \/ LP!Abort(r)
        PROVE  LP!Next
    BY <1>2 DEF LP!Next, LP!RequestStep
  <1>3. ASSUME NEW r \in Requests, Step(r) PROVE LP!Next \/ UNCHANGED bucketVars
    <2>1. pc[r] = "limiting" => r \in Ingests
      BY DEF IInv, OnlyIngestsWait
    <2> QED
      BY <1>2, <1>3, <2>1, SameSteps DEF Step, Proceed, Return, Raise
  <1>4. ASSUME NEW r \in Ingests, LimitStep(r) PROVE LP!Next
    BY <1>2, <1>4, SameSteps DEF LimitStep, BeginLimit, LockRow, Decide
  <1>5. Pass => LP!Next
    BY SameSteps DEF Pass, LP!Next
  <1>6. UNCHANGED ingestVars => UNCHANGED bucketVars
    BY DEF ingestVars
  <1>7. LP!Next \/ UNCHANGED bucketVars
    BY <1>3, <1>4, <1>5, <1>6 DEF IngestNext, IngestDone
  <1> QED
    BY <1>1, <1>7

----------------------------------------------------------------------------
(* Handler, limiter and verdict stay together *)

\* What the two parts know of a request.
LEMMA Types ==
    ASSUME WholeInv
    PROVE  /\ pc \in [Requests -> {"new"} \cup WithOne \cup WithTwo \cup Over]
           /\ tx \in [Ingests -> {"idle", "waiting", "locked"}]
           /\ filled \in [Ingests -> 0 .. Burst] /\ lockAt \in [Ingests -> 0 .. now] /\ now \in Nat
           /\ verdict \in [Ingests -> {"none", "admitted", "denied"}]
           /\ ideal \in Int /\ Burst \in Nat /\ Cost \in Nat
           /\ Ingests \subseteq Requests
           /\ \A r \in Requests : pc[r] \in {"scoped", "waiting", "limiting"} => r \in Ingests
  BY RateAssumption
  DEF WholeInv, IInv, TypeOK, OnlyIngestsWait, LP!IInv, LP!TypeOK, TogetherInv, Requests, RateAssumption

\* The part of TogetherInv about one request.
Together(r) ==
    /\ pc[r] \in {"new", "scoped", "waiting"} => tx[r] = "idle" /\ verdict[r] = "none"
    /\ pc[r] = "limiting" => tx[r] # "idle"
    /\ pc[r] \in {"handling", "answered", "failed"} => tx[r] = "idle"
    /\ tx[r] = "waiting" => verdict[r] = "none"
    /\ tx[r] = "locked" => verdict[r] = IF filled[r] < Cost THEN "denied" ELSE "none"

\* A step of one request leaves the others as they were.
LEMMA OthersTogether ==
    ASSUME WholeInv, NEW r \in Requests,
           verdict' \in [Ingests -> {"none", "admitted", "denied"}],
           \A s \in Ingests : s # r => /\ pc'[s] = pc[s] /\ tx'[s] = tx[s]
                                       /\ filled'[s] = filled[s] /\ verdict'[s] = verdict[s],
           r \in Ingests => Together(r)'
    PROVE  TogetherInv'
  <1> SUFFICES ASSUME NEW s \in Ingests PROVE Together(s)'
    BY DEF TogetherInv, Together
  <1>1. CASE s = r
    BY <1>1
  <1>2. CASE s # r
    BY <1>2 DEF WholeInv, TogetherInv, Together
  <1> QED
    BY <1>1, <1>2

\* Steps of the handler alone, and errors.
LEMMA StepTogether ==
    ASSUME WholeInv, NEW r \in Requests, Step(r)
    PROVE  TogetherInv'
  <1>1. r \in Ingests => Together(r)
    BY DEF WholeInv, TogetherInv, Together
  <1>2. verdict' = verdict
    BY DEF Step, Proceed, Return, Raise
  <1>3. \A s \in Requests : s # r => pc'[s] = pc[s]
    BY Types DEF Step, Proceed, Return, Raise, Open, AskSecond, Answer, Fail, Goto
  <1>4. CASE Proceed(r) \/ Return(r)
    <2>1. UNCHANGED <<tx, filled>>
      BY <1>4 DEF Proceed, Return, bucketVars
    <2>2. \/ pc[r] = "new" /\ pc'[r] \in {"scoped", "handling"} /\ (r \in Ingests => pc'[r] = "scoped")
          \/ pc[r] = "scoped" /\ pc'[r] = "waiting"
          \/ pc[r] = "handling" /\ pc'[r] = "answered"
      BY <1>4, Types DEF Proceed, Return, Open, AskSecond, Answer, Goto
    <2>3. r \in Ingests => Together(r)'
      BY <1>1, <1>2, <2>1, <2>2 DEF Together
    <2> QED
      BY <1>2, <1>3, <2>1, <2>3, Types, OthersTogether
  <1>5. CASE Raise(r)
    <2>1. pc'[r] = "failed" /\ pc[r] \in {"new", "scoped", "waiting", "limiting", "handling"}
      BY <1>5, Types DEF Raise, Fail, Goto
    <2>2. CASE pc[r] = "limiting"
      <3>1. r \in Ingests /\ LP!Finish(r)
        BY <1>5, <2>2, Types, SameSteps DEF Raise, LP!Abort
      <3>2. tx'[r] = "idle" /\ \A s \in Ingests : s # r => tx'[s] = tx[s] /\ filled'[s] = filled[s]
        BY <3>1, Types DEF LP!Finish
      <3>3. Together(r)'
        BY <2>1, <3>2 DEF Together
      <3> QED
        BY <1>2, <1>3, <3>2, <3>3, Types, OthersTogether
    <2>3. CASE pc[r] # "limiting"
      <3>1. UNCHANGED <<tx, filled>>
        BY <1>5, <2>3 DEF Raise, bucketVars
      <3>2. r \in Ingests => Together(r)'
        BY <1>1, <1>2, <2>1, <2>3, <3>1 DEF Together
      <3> QED
        BY <1>2, <1>3, <3>1, <3>2, Types, OthersTogether
    <2> QED
      BY <2>2, <2>3
  <1> QED
    BY <1>4, <1>5 DEF Step

\* Steps of the limiter.
LEMMA LimitTogether ==
    ASSUME WholeInv, NEW r \in Ingests, LimitStep(r)
    PROVE  TogetherInv'
  <1>0. r \in Requests /\ Together(r)
    BY Types DEF WholeInv, TogetherInv, Together
  <1>1. CASE BeginLimit(r)
    <2>1. /\ pc[r] = "waiting" /\ pc' = [pc EXCEPT ![r] = "limiting"] /\ verdict' = verdict
          /\ tx' = [tx EXCEPT ![r] = "waiting"] /\ filled' = filled
      BY <1>1, SameSteps DEF BeginLimit, TakeSecond, Goto, LP!Begin
    <2>2. Together(r)'
      BY <1>0, <2>1, Types DEF Together
    <2> QED
      BY <1>0, <2>1, <2>2, Types, OthersTogether
  <1>2. CASE LockRow(r)
    <2>1. /\ tx[r] = "waiting" /\ tx' = [tx EXCEPT ![r] = "locked"] /\ pc' = pc
          /\ \E f : filled' = [filled EXCEPT ![r] = f]
          /\ verdict' = [verdict EXCEPT ![r] = IF filled'[r] < Cost THEN "denied" ELSE @]
      BY <1>2, SameSteps DEF LockRow, poolVars, LP!Lock
    <2>2. verdict[r] = "none" /\ pc[r] = "limiting"
      BY <1>0, <2>1, Types DEF Together, WithOne, WithTwo, Over
    <2>3. verdict'[r] = IF filled'[r] < Cost THEN "denied" ELSE "none"
      BY <2>1, <2>2, Types
    <2>4. Together(r)'
      BY <2>1, <2>2, <2>3, Types DEF Together
    <2> QED
      BY <1>0, <2>1, <2>4, Types, OthersTogether
  <1>3. CASE Decide(r)
    <2>1. /\ pc' = [pc EXCEPT ![r] = "handling"]
          /\ verdict' = [verdict EXCEPT ![r] = IF @ = "denied" THEN @ ELSE "admitted"]
          /\ LP!Finish(r)
      BY <1>3, SameSteps DEF Decide, FinishLimit, Goto, LP!Commit
    <2>2. tx'[r] = "idle" /\ \A s \in Ingests : s # r => tx'[s] = tx[s] /\ filled'[s] = filled[s]
      BY <2>1, Types DEF LP!Finish
    <2>3. Together(r)'
      BY <1>0, <2>1, <2>2, Types DEF Together
    <2> QED
      BY <1>0, <2>1, <2>2, <2>3, Types, OthersTogether
  <1> QED
    BY <1>1, <1>2, <1>3 DEF LimitStep

\* Every step of the composition.
LEMMA NextWhole == WholeInv /\ [IngestNext]_ingestVars => WholeInv'
  <1> SUFFICES ASSUME WholeInv, [IngestNext]_ingestVars PROVE WholeInv'
    OBVIOUS
  <1>1. IInv'
    BY PoolSteps, NextIInv DEF WholeInv
  <1>2. LP!IInv'
    BY LimiterSteps, LP!NextIInv, RateAssumption DEF WholeInv, RateAssumption, LP!RateAssumption
  <1>3. UNCHANGED <<pc, tx, filled, verdict>> => TogetherInv'
    BY DEF WholeInv, TogetherInv
  <1>4. Pass => TogetherInv'
    BY <1>3, SameSteps DEF Pass, poolVars, LP!Tick, LP!reqVars
  <1>5. UNCHANGED ingestVars => TogetherInv'
    BY <1>3 DEF ingestVars, poolVars, bucketVars
  <1>6. TogetherInv'
    BY <1>4, <1>5, StepTogether, LimitTogether DEF IngestNext, IngestDone
  <1> QED
    BY <1>1, <1>2, <1>6 DEF WholeInv

\* So what holds of the parts holds of the whole.
LEMMA WholeInvariant == IngestSpec => []WholeInv
  BY InitWhole, NextWhole, PTL DEF IngestSpec

----------------------------------------------------------------------------
(* The promise *)

\* A request that is denied when it gets the row is one that an exact bucket
\* could not pay at this moment.
LEMMA DeniedRightly ==
    ASSUME WholeInv, WholeInv', NEW r \in Ingests, LockRow(r), filled'[r] < Cost
    PROVE  ideal < Cost
  <1>1. tx'[r] = "locked" /\ lockAt'[r] = now /\ UNCHANGED <<now, ideal>>
    BY SameSteps, Types DEF LockRow, LP!Lock, LP!dbVars, LP!histVars
  <1>2. LP!AtMostBurst(filled'[r] + (now' - lockAt'[r])) >= ideal'
    BY <1>1 DEF WholeInv, LP!IInv, LP!HeldInv, LP!AtMostBurst
  <1>3. filled'[r] \in Int /\ now \in Int /\ ideal \in Int
    <2>1. filled' \in [Ingests -> 0 .. Burst]
      BY RateAssumption DEF WholeInv, LP!IInv, LP!TypeOK
    <2> QED
      BY <2>1, Types
  <1> QED
    BY <1>1, <1>2, <1>3, Types DEF LP!AtMostBurst

\* Every step of the composition is one of Admission, or none.
LEMMA StepsKept ==
    ASSUME WholeInv, WholeInv', [IngestNext]_ingestVars
    PROVE  [Promise!Next]_(Promise!vars)
  <1> USE DEF Promise!vars
  <1>1. ASSUME NEW r \in Requests, Step(r) PROVE UNCHANGED Promise!vars
    BY <1>1, SameSteps
    DEF Step, Proceed, Return, Raise, bucketVars, LP!Abort, LP!dbVars, LP!histVars
  <1>2. ASSUME NEW r \in Ingests, BeginLimit(r) PROVE UNCHANGED Promise!vars
    BY <1>2, SameSteps DEF BeginLimit, LP!Begin, LP!dbVars, LP!histVars
  <1>3. ASSUME NEW r \in Ingests, LockRow(r) PROVE [Promise!Next]_(Promise!vars)
    <2>1. UNCHANGED <<now, ideal>> /\ tx[r] = "waiting"
          /\ verdict' = [verdict EXCEPT ![r] = IF filled'[r] < Cost THEN "denied" ELSE @]
      BY <1>3, SameSteps DEF LockRow, LP!Lock, LP!dbVars, LP!histVars
    <2>2. verdict[r] = "none"
      BY <2>1 DEF WholeInv, TogetherInv
    <2>3. CASE filled'[r] < Cost
      BY <1>3, <2>1, <2>2, <2>3, DeniedRightly DEF Promise!Next, Promise!Deny
    <2>4. CASE ~(filled'[r] < Cost)
      BY <2>1, <2>4, Types
    <2> QED
      BY <2>3, <2>4
  <1>4. ASSUME NEW r \in Ingests, Decide(r) PROVE [Promise!Next]_(Promise!vars)
    <2>1. /\ tx[r] = "locked" /\ now' = now /\ ideal' = ideal - LP!Price(r)
          /\ verdict' = [verdict EXCEPT ![r] = IF @ = "denied" THEN @ ELSE "admitted"]
      BY <1>4, SameSteps DEF Decide, LP!Commit
    <2>2. verdict[r] = IF filled[r] < Cost THEN "denied" ELSE "none"
      BY <2>1 DEF WholeInv, TogetherInv
    <2>3. CASE filled[r] < Cost
      BY <2>1, <2>2, <2>3, Types DEF LP!Price
    <2>4. CASE ~(filled[r] < Cost)
      <3>1. verdict[r] = "none" /\ verdict' = [verdict EXCEPT ![r] = "admitted"]
        BY <2>1, <2>2, <2>4
      <3>2. ideal' = ideal - Cost
        BY <2>1, <2>4, Types DEF LP!Price
      <3> QED
        BY <2>1, <3>1, <3>2 DEF Promise!Next, Promise!Admit
    <2> QED
      BY <2>3, <2>4
  <1>5. CASE Pass
    BY <1>5, SameSteps
    DEF Pass, LP!Tick, LP!AtMostBurst, Promise!Next, Promise!Tick, Promise!AtMostBurst
  <1>6. UNCHANGED ingestVars => UNCHANGED Promise!vars
    BY DEF ingestVars, bucketVars
  <1> QED
    BY <1>1, <1>2, <1>3, <1>4, <1>5, <1>6 DEF IngestNext, LimitStep, IngestDone

\* Pool, limiter and handler implement the admission control: whatever waits,
\* overtakes, fails and rolls back, each request is judged once and none is
\* denied that an exact bucket could pay (ingest.py:175-178).
THEOREM Implements == IngestSpec => AdmissionKept
  <1>1. IngestInit => Promise!Init
    BY DEF IngestInit, Limiter!Init, Promise!Init
  <1> QED
    BY <1>1, WholeInvariant, StepsKept, PTL DEF IngestSpec, AdmissionKept, Promise!Spec

\* The pool's books hold with the limiter inside the requests.
THEOREM WholeNothingLeaks == IngestSpec => []Accounted
  <1>1. WholeInv => Accounted
    BY DEF WholeInv, IInv
  <1> QED
    BY WholeInvariant, <1>1, PTL

\* With fewer ingest requests than connections nobody waits in vain for the
\* limiter's connection.
THEOREM WholeNeverSeizes ==
    ASSUME Cardinality(Ingests) < Cardinality(Conns)
    PROVE  IngestSpec => []SomebodyCanGoOn
  <1>1. WholeInv => SomebodyCanGoOn
    BY NotAllWaiting DEF WholeInv
  <1> QED
    BY WholeInvariant, <1>1, PTL

\* The limiter keeps its bounds with the pool, its failures and the handler
\* around it: what it gives out beyond its rate is time spent waiting for the
\* row lock, ...
THEOREM WholeOverdraftBounded == IngestSpec => []OverdraftIsWaiting
  <1>1. WholeInv => OverdraftIsWaiting
    BY LP!BooksBound, RateAssumption
    DEF WholeInv, OverdraftIsWaiting, Limiter!OverdraftIsWaiting, LP!OverdraftIsWaiting,
        RateAssumption, LP!RateAssumption
  <1> QED
    BY WholeInvariant, <1>1, PTL

\* ... and it never holds less than an exact bucket.
THEOREM WholeNeverStricter == IngestSpec => []NeverTooStrict
  <1>1. WholeInv => NeverTooStrict
    BY DEF WholeInv, LP!IInv, NeverTooStrict, Limiter!NeverTooStrict, LP!NeverTooStrict,
           Limiter!Level, LP!Level, Limiter!AtMostBurst, LP!AtMostBurst
  <1> QED
    BY WholeInvariant, <1>1, PTL
=============================================================================
