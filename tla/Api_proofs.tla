----------------------------- MODULE Api_proofs -----------------------------
(***************************************************************************)
(* Theorems about what the API answers: the dashboard's cache, for any     *)
(* organisations, queries, entries and ages, and the invites of a team,    *)
(* for any invites, addresses and requests.                                *)
(***************************************************************************)
EXTENDS DashboardCache, Team, FiniteSetTheorems, TLAPS

----------------------------------------------------------------------------
(* The cache *)

\* What is in the cache under a key, or about to be, is the org's own.
OwnInv ==
    /\ \A k \in Keys : cache[k] # None => cache[k].org = k[1]
    /\ \A q \in Requests : got[q] # None => got[q].org = asks[q][1]

\* Data is as old as its fetch took and the time to live it has used up.
AgeInv ==
    /\ \A k \in Keys : cache[k] # None => left[k] > 0 /\ cache[k].age + left[k] <= TTL + Slow
    /\ \A q \in Requests : got[q] # None => got[q].age <= Slow

\* Data a drop has passed by was being read at the time.
PassInv ==
    /\ \A k \in Keys : cache[k] # None => (cache[k].passed => cache[k].raced)
    /\ \A q \in Requests : got[q] # None => (got[q].passed => got[q].raced)

IInv == TypeOK /\ OwnInv /\ AgeInv /\ PassInv /\ OwnDataOnly /\ StalenessBounded

----------------------------------------------------------------------------
\* The cache starts empty.
LEMMA InitIInv == Init => IInv
  <1> SUFFICES ASSUME Init PROVE IInv
    OBVIOUS
  <1>1. Stored = {}
    BY DEF Init, Stored
  <1>2. IsFiniteSet(Stored) /\ Cardinality(Stored) <= MaxSize
    BY <1>1, FS_EmptySet, CacheAssumption
  <1>3. TypeOK
    BY <1>2, CacheAssumption DEF Init, TypeOK
  <1> QED
    BY <1>3, CacheAssumption
    DEF Init, IInv, OwnInv, AgeInv, PassInv, OwnDataOnly, StalenessBounded, Answered

\* Dropping entries keeps the cache within its size.
LEMMA FewerFit ==
    ASSUME TypeOK, Stored' \subseteq Stored
    PROVE  IsFiniteSet(Stored)' /\ (Cardinality(Stored) <= MaxSize)'
  <1>1. Cardinality(Stored') <= Cardinality(Stored) /\ IsFiniteSet(Stored')
    BY FS_Subset DEF TypeOK
  <1>2. Cardinality(Stored') \in Nat /\ Cardinality(Stored) \in Nat
    BY <1>1, FS_CardinalityType DEF TypeOK
  <1> QED BY <1>1, <1>2, CacheAssumption DEF TypeOK

\* A step that leaves the cache and the requests alone.
LEMMA NothingMoves ==
    ASSUME IInv, UNCHANGED <<cache, left, asks, got>>,
           dropping' \subseteq Orgs, answer' \in {None, Failed}
    PROVE  IInv'
  <1>1. Stored' = Stored
    BY DEF Stored
  <1>2. TypeOK'
    BY <1>1 DEF IInv, TypeOK
  <1>3. OwnInv' /\ AgeInv' /\ PassInv'
    BY DEF IInv, OwnInv, AgeInv, PassInv
  <1> QED BY <1>2, <1>3 DEF IInv, OwnDataOnly, StalenessBounded, Answered

\* An answer from the cache is the org's own and not too old.
LEMMA HitPreserves ==
    ASSUME IInv, NEW o \in Orgs, NEW v \in Views, Hit(o, v)
    PROVE  IInv'
  <1> DEFINE k == <<o, v>>
  <1>1. k \in Keys /\ cache[k] # None /\ cache[k] \in Data
    BY DEF IInv, TypeOK, Hit, Stored, CacheKey, Keys
  <1>2. CASE answer' = Failed
    <2>1. UNCHANGED <<cache, left, asks, got>> /\ dropping' \subseteq Orgs
      BY DEF Hit, IInv, TypeOK
    <2> QED BY <1>2, <2>1, NothingMoves
  <1>3. CASE answer' = [key |-> k, data |-> cache[k]]
    <2>1. Stored' = Stored
      BY DEF Hit, Stored
    <2>2. TypeOK'
      BY <1>1, <1>3, <2>1 DEF Hit, IInv, TypeOK
    <2>3. OwnInv' /\ AgeInv' /\ PassInv'
      BY DEF Hit, IInv, OwnInv, AgeInv, PassInv
    <2>4. OwnDataOnly'
      BY <1>1, <1>3 DEF IInv, OwnInv, OwnDataOnly
    <2>5. cache[k].age \in Nat /\ left[k] \in Nat /\ TTL \in Nat /\ Slow \in Nat
      BY <1>1, CacheAssumption DEF IInv, TypeOK, Data
    <2>6. StalenessBounded'
      BY <1>1, <1>3, <2>5 DEF IInv, AgeInv, StalenessBounded
    <2> QED BY <2>2, <2>3, <2>4, <2>6 DEF IInv
  <1> QED BY <1>2, <1>3 DEF Hit, Answer, CacheKey

\* Data is read in the context of the org that asks.
LEMMA MissPreserves ==
    ASSUME IInv, NEW q \in Requests, NEW o \in Orgs, NEW v \in Views, Miss(q, o, v)
    PROVE  IInv'
  <1> DEFINE d == [org |-> o, age |-> 0, passed |-> FALSE, raced |-> FALSE]
  <1>1. d \in Data /\ <<o, v>> \in Keys /\ d # None /\ <<o, v>> # None
    <2>1. d \in Data /\ <<o, v>> \in Keys
      BY DEF Data, Keys
    <2> QED BY <2>1, CacheAssumption
  <1>2. Stored' = Stored
    BY DEF Miss, Stored
  <1>3. /\ got' = [got EXCEPT ![q] = d]
        /\ asks' = [asks EXCEPT ![q] = <<o, v>>]
        /\ UNCHANGED <<cache, left, dropping>>
        /\ answer' = None
    BY DEF Miss
  <1>4. TypeOK'
    BY <1>1, <1>2, <1>3 DEF IInv, TypeOK
  <1>5. OwnInv'
    BY <1>1, <1>3 DEF IInv, TypeOK, OwnInv
  <1>6. AgeInv' /\ PassInv'
    BY <1>1, <1>3, CacheAssumption DEF IInv, TypeOK, AgeInv, PassInv
  <1> QED BY <1>3, <1>4, <1>5, <1>6 DEF IInv, OwnDataOnly, StalenessBounded, Answered

\* A full cache gives up an entry for a new one.
LEMMA StoreFits ==
    ASSUME TypeOK, NEW q \in Requests, Store(q)
    PROVE  IsFiniteSet(Stored)' /\ (Cardinality(Stored) <= MaxSize)'
  <1> DEFINE k == CacheKey(asks[q][1], asks[q][2])
             Full == k \notin Stored /\ Cardinality(Stored) >= MaxSize
  <1>1. PICK out \in SUBSET Stored :
          /\ IF Full THEN Cardinality(out) = 1 ELSE out = {}
          /\ cache' = [j \in Keys |-> IF j = k THEN got[q]
                                      ELSE IF j \in out THEN None ELSE cache[j]]
    BY DEF Store
  <1>2. Stored' \subseteq (Stored \ out) \cup {k}
    BY <1>1 DEF Stored
  <1>3. IsFiniteSet(Stored) /\ IsFiniteSet(out) /\ Cardinality(Stored) \in Nat
    BY FS_Subset, FS_CardinalityType DEF TypeOK
  <1>4. /\ IsFiniteSet(Stored \ out)
        /\ Cardinality(Stored \ out) = Cardinality(Stored) - Cardinality(Stored \cap out)
    BY <1>3, FS_Difference
  <1>5. Stored \cap out = out
    BY <1>1
  <1>6. Cardinality(Stored \ out) \in Nat
    BY <1>4, FS_CardinalityType
  <1>7. /\ IsFiniteSet((Stored \ out) \cup {k})
        /\ Cardinality((Stored \ out) \cup {k}) \in Nat
        /\ Cardinality((Stored \ out) \cup {k}) <= Cardinality(Stored \ out) + 1
        /\ k \in Stored \ out => (Stored \ out) \cup {k} = Stored \ out
    <2> DEFINE S == Stored \ out
    <2>1. IsFiniteSet(S) /\ Cardinality(S) \in Nat
      BY <1>4, <1>6
    <2> HIDE DEF S, k
    <2>2. /\ IsFiniteSet(S \cup {k})
          /\ Cardinality(S \cup {k}) = Cardinality(S) \/ Cardinality(S \cup {k}) = Cardinality(S) + 1
      BY <2>1, FS_AddElement
    <2>3. Cardinality(S \cup {k}) \in Nat /\ Cardinality(S \cup {k}) <= Cardinality(S) + 1
      BY <2>1, <2>2
    <2>4. k \in S => S \cup {k} = S
      OBVIOUS
    <2> QED BY <2>2, <2>3, <2>4 DEF S
  <1>8. Cardinality((Stored \ out) \cup {k}) <= MaxSize
    <2>1. CASE Full
      <3>1. Cardinality(Stored \ out) <= MaxSize - 1
        <4>1. Cardinality(Stored \cap out) = 1
          BY <2>1, <1>1, <1>5
        <4>2. Cardinality(Stored) <= MaxSize
          BY DEF TypeOK
        <4> QED BY <4>1, <4>2, <1>3, <1>4, CacheAssumption
      <3> QED BY <3>1, <1>6, <1>7, CacheAssumption
    <2>2. CASE ~Full
      <3>1. out = {} /\ Stored \ out = Stored
        BY <2>2, <1>1
      <3>2. CASE k \in Stored
        BY <3>1, <3>2, <1>7 DEF TypeOK
      <3>3. CASE k \notin Stored
        <4>1. Cardinality(Stored) < MaxSize
          BY <2>2, <3>3, <1>3, CacheAssumption
        <4> QED BY <4>1, <3>1, <1>3, <1>7, CacheAssumption
      <3> QED BY <3>2, <3>3
    <2> QED BY <2>1, <2>2
  <1>9. IsFiniteSet(Stored') /\ Cardinality(Stored') <= Cardinality((Stored \ out) \cup {k})
    BY <1>2, <1>7, FS_Subset
  <1>10. Cardinality(Stored') \in Nat
    BY <1>9, FS_CardinalityType
  <1> QED BY <1>7, <1>8, <1>9, <1>10, CacheAssumption

\* What was read is stored under the key that asked for it, with a whole time to
\* live.
LEMMA StorePreserves ==
    ASSUME IInv, NEW q \in Requests, Store(q)
    PROVE  IInv'
  <1> DEFINE k == asks[q]
  <1>1. got[q] # None /\ got[q] \in Data /\ k \in Keys
    BY DEF IInv, TypeOK, Store, InProgress
  <1>2. k = <<k[1], k[2]>> /\ CacheKey(k[1], k[2]) = k
    BY <1>1 DEF Keys, CacheKey
  <1>3. PICK out \in SUBSET Stored :
          cache' = [j \in Keys |-> IF j = k THEN got[q]
                                   ELSE IF j \in out THEN None ELSE cache[j]]
    BY <1>2 DEF Store
  <1>4. /\ left' = [left EXCEPT ![k] = TTL]
        /\ answer' = [key |-> k, data |-> got[q]]
        /\ got' = [got EXCEPT ![q] = None]
        /\ asks' = [asks EXCEPT ![q] = None]
        /\ UNCHANGED dropping
    BY <1>2 DEF Store, Answer
  <1>5. IsFiniteSet(Stored)' /\ (Cardinality(Stored) <= MaxSize)'
    BY StoreFits DEF IInv
  <1>6. cache' \in [Keys -> Data \cup {None}]
    BY <1>1, <1>3 DEF IInv, TypeOK
  <1>7. /\ left' \in [Keys -> 0 .. TTL] /\ asks' \in [Requests -> Keys \cup {None}]
        /\ got' \in [Requests -> Data \cup {None}] /\ dropping' \subseteq Orgs
        /\ answer' \in [key : Keys, data : Data] \cup {None, Failed}
    BY <1>1, <1>4, CacheAssumption DEF IInv, TypeOK
  <1>8. \A p \in Requests : asks'[p] = None <=> got'[p] = None
    BY <1>4 DEF IInv, TypeOK
  <1>9. TypeOK'
    BY <1>5, <1>6, <1>7, <1>8 DEF TypeOK
  <1>10. OwnInv'
    BY <1>1, <1>3, <1>4 DEF IInv, TypeOK, OwnInv
  <1>11. got[q].age \in Nat /\ got[q].age <= Slow /\ TTL \in Nat \ {0} /\ Slow \in Nat
    BY <1>1, CacheAssumption DEF Data, IInv, AgeInv
  <1>12. \A j \in Keys : cache'[j] # None =>
             left'[j] > 0 /\ cache'[j].age + left'[j] <= TTL + Slow
    <2> SUFFICES ASSUME NEW j \in Keys, cache'[j] # None
                 PROVE  left'[j] > 0 /\ cache'[j].age + left'[j] <= TTL + Slow
      OBVIOUS
    <2>1. CASE j = k
      <3>1. cache'[j] = got[q] /\ left'[j] = TTL
        BY <2>1, <1>3, <1>4 DEF IInv, TypeOK
      <3> QED BY <3>1, <1>11
    <2>2. CASE j # k
      <3>1. cache'[j] = cache[j] /\ left'[j] = left[j]
        BY <2>2, <1>3, <1>4 DEF IInv, TypeOK
      <3> QED BY <3>1 DEF IInv, AgeInv
    <2> QED BY <2>1, <2>2
  <1>13. AgeInv'
    BY <1>12, <1>4 DEF IInv, TypeOK, AgeInv
  <1>14. PassInv'
    BY <1>1, <1>3, <1>4 DEF IInv, TypeOK, PassInv
  <1>15. OwnDataOnly'
    BY <1>1, <1>4 DEF IInv, OwnInv, OwnDataOnly
  <1>16. StalenessBounded'
    BY <1>4, <1>11 DEF StalenessBounded
  <1> QED BY <1>9, <1>10, <1>13, <1>14, <1>15, <1>16 DEF IInv

\* A request that fails stores nothing.
LEMMA FetchFailsPreserves ==
    ASSUME IInv, NEW q \in Requests, FetchFails(q)
    PROVE  IInv'
  <1>1. Stored' = Stored
    BY DEF FetchFails, Stored
  <1>2. TypeOK'
    BY <1>1 DEF FetchFails, IInv, TypeOK
  <1>3. OwnInv' /\ AgeInv' /\ PassInv'
    BY DEF FetchFails, IInv, TypeOK, OwnInv, AgeInv, PassInv
  <1> QED
    BY <1>2, <1>3 DEF FetchFails, IInv, OwnDataOnly, StalenessBounded, Answered

\* Entries of the org go; requests in progress are marked.
LEMMA InvalidatePreserves ==
    ASSUME IInv, NEW o \in Orgs, Invalidate(o)
    PROVE  IInv'
  <1>1. \A k \in Keys : cache'[k] = None \/ (cache'[k] = cache[k] /\ k[1] # o)
    BY DEF Invalidate, Passed, IInv, OwnInv
  <1>2. \A q \in Requests :
          \/ got'[q] = got[q]
          \/ got[q] # None /\ got'[q] = [got[q] EXCEPT !.passed = TRUE, !.raced = TRUE]
    BY DEF Invalidate, Raced
  <1>3. \A q \in Requests : got[q] # None =>
          /\ got[q] \in Data
          /\ [got[q] EXCEPT !.passed = TRUE, !.raced = TRUE] \in Data
    BY DEF IInv, TypeOK, Data
  <1>4. Stored' \subseteq Stored
    BY <1>1 DEF Stored
  <1>5. IsFiniteSet(Stored)' /\ (Cardinality(Stored) <= MaxSize)'
    BY <1>4, FewerFit DEF IInv
  <1>6. cache' \in [Keys -> Data \cup {None}] /\ got' \in [Requests -> Data \cup {None}]
    <2>1. DOMAIN cache' = Keys /\ DOMAIN got' = Requests
      BY DEF Invalidate
    <2>2. \A q \in Requests : got'[q] \in Data \cup {None}
      BY <1>2, <1>3 DEF IInv, TypeOK
    <2>3. \A k \in Keys : cache'[k] \in Data \cup {None}
      BY <1>1 DEF IInv, TypeOK
    <2> QED BY <2>1, <2>2, <2>3 DEF Invalidate
  <1>7. \A q \in Requests : got'[q] = None <=> got[q] = None
    BY <1>2, <1>3, CacheAssumption
  <1>8. TypeOK'
    BY <1>5, <1>6, <1>7 DEF Invalidate, IInv, TypeOK
  <1>9. \A q \in Requests : got'[q] # None =>
          /\ got'[q].org = got[q].org /\ got'[q].age = got[q].age
          /\ got'[q].passed => got'[q].raced
    <2> SUFFICES ASSUME NEW q \in Requests, got'[q] # None
                 PROVE  /\ got'[q].org = got[q].org /\ got'[q].age = got[q].age
                        /\ got'[q].passed => got'[q].raced
      OBVIOUS
    <2>1. CASE got'[q] = got[q]
      BY <2>1 DEF IInv, PassInv
    <2>2. CASE got'[q] = [got[q] EXCEPT !.passed = TRUE, !.raced = TRUE]
      BY <2>2, <1>3, <1>7 DEF Data
    <2> QED BY <1>2, <2>1, <2>2
  <1>10. OwnInv' /\ AgeInv' /\ PassInv'
    BY <1>1, <1>7, <1>9 DEF Invalidate, IInv, OwnInv, AgeInv, PassInv
  <1> QED
    BY <1>8, <1>10 DEF Invalidate, IInv, OwnDataOnly, StalenessBounded, Answered

\* Every entry ages as its time to live runs down.
LEMMA TickPreserves ==
    ASSUME IInv, Tick
    PROVE  IInv'
  <1>1. \A d \in Data : /\ Older(d) = [d EXCEPT !.age = @ + 1]
                        /\ Older(d) \in Data /\ Older(d) # None
                        /\ Older(d).age = d.age + 1 /\ Older(d).org = d.org
                        /\ Older(d).passed = d.passed /\ Older(d).raced = d.raced
    BY CacheAssumption DEF Older, Data
  <1>2. Older(None) = None
    BY DEF Older
  <1>3. \A k \in Keys : cache'[k] # None =>
          cache[k] # None /\ left[k] > 1 /\ cache'[k] = Older(cache[k])
                          /\ left'[k] = left[k] - 1
    BY <1>2 DEF Tick, IInv, TypeOK
  <1>4. \A q \in Requests : got'[q] = Older(got[q]) /\ (got'[q] = None <=> got[q] = None)
    <2>1. \A q \in Requests : got'[q] = Older(got[q])
      BY DEF Tick, Older
    <2>2. \A q \in Requests : got[q] \in Data \cup {None}
      BY DEF IInv, TypeOK
    <2> QED BY <1>1, <1>2, <2>1, <2>2
  <1>5. Stored' \subseteq Stored
    BY <1>3 DEF Stored
  <1>6. IsFiniteSet(Stored)' /\ (Cardinality(Stored) <= MaxSize)'
    BY <1>5, FewerFit DEF IInv
  <1>7. cache' \in [Keys -> Data \cup {None}]
    <2>1. \A k \in Keys : Older(cache[k]) \in Data \cup {None}
      BY <1>1, <1>2 DEF IInv, TypeOK
    <2> QED BY <2>1 DEF Tick
  <1>8. got' \in [Requests -> Data \cup {None}]
    <2>1. \A q \in Requests : Older(got[q]) \in Data \cup {None}
      BY <1>1, <1>2 DEF IInv, TypeOK
    <2> QED BY <2>1 DEF Tick
  <1>9. left' \in [Keys -> 0 .. TTL]
    <2>1. \A k \in Keys : (IF left[k] = 0 THEN 0 ELSE left[k] - 1) \in 0 .. TTL
      BY CacheAssumption DEF IInv, TypeOK
    <2> QED BY <2>1 DEF Tick
  <1>10. TypeOK'
    BY <1>4, <1>6, <1>7, <1>8, <1>9 DEF Tick, IInv, TypeOK
  <1>11. \A k \in Keys : cache[k] # None => cache[k] \in Data
    BY DEF IInv, TypeOK
  <1>12. \A q \in Requests : got[q] # None => got[q] \in Data
    BY DEF IInv, TypeOK
  <1>13. OwnInv' /\ PassInv'
    BY <1>1, <1>3, <1>4, <1>11, <1>12 DEF Tick, IInv, OwnInv, PassInv
  <1>14. \A k \in Keys : cache'[k] # None =>
           left'[k] > 0 /\ cache'[k].age + left'[k] <= TTL + Slow
    <2> SUFFICES ASSUME NEW k \in Keys, cache'[k] # None
                 PROVE  left'[k] > 0 /\ cache'[k].age + left'[k] <= TTL + Slow
      OBVIOUS
    <2>1. /\ cache[k].age \in Nat /\ left[k] \in Nat /\ TTL \in Nat /\ Slow \in Nat
          /\ cache[k].age + left[k] <= TTL + Slow
      BY <1>3, <1>11, CacheAssumption DEF Data, IInv, TypeOK, AgeInv
    <2>2. cache'[k].age = cache[k].age + 1 /\ left'[k] = left[k] - 1 /\ left[k] > 1
      BY <1>1, <1>3, <1>11
    <2> QED BY <2>1, <2>2
  <1>15. \A q \in Requests : got'[q] # None => got'[q].age <= Slow
    <2> SUFFICES ASSUME NEW q \in Requests, got'[q] # None
                 PROVE  got'[q].age <= Slow
      OBVIOUS
    <2>1. got[q] # None /\ got[q] \in Data
      BY <1>4, <1>12
    <2>2. got[q].age \in Nat /\ Slow \in Nat /\ got[q].age < Slow
      BY <2>1, CacheAssumption DEF Data, Tick, InProgress
    <2> QED BY <1>1, <1>4, <2>1, <2>2
  <1> QED
    BY <1>10, <1>13, <1>14, <1>15
    DEF Tick, IInv, AgeInv, OwnDataOnly, StalenessBounded, Answered

\* One step of the specification.
LEMMA StepPreserves == IInv /\ [Next]_vars => IInv'
  <1> SUFFICES ASSUME IInv, [Next]_vars PROVE IInv'
    OBVIOUS
  <1>1. ASSUME NEW o \in Orgs, NEW v \in Views, Hit(o, v) PROVE IInv'
    BY <1>1, HitPreserves
  <1>2. ASSUME NEW q \in Requests, NEW o \in Orgs, NEW v \in Views, Miss(q, o, v)
        PROVE  IInv'
    BY <1>2, MissPreserves
  <1>3. ASSUME NEW q \in Requests, Store(q) \/ FetchFails(q) PROVE IInv'
    BY <1>3, StorePreserves, FetchFailsPreserves
  <1>4. ASSUME NEW o \in Orgs, SyncCommits(o) \/ NotDropped(o) PROVE IInv'
    <2>1. UNCHANGED <<cache, left, asks, got>> /\ dropping' \subseteq Orgs /\ answer' = None
      BY <1>4 DEF SyncCommits, NotDropped, IInv, TypeOK
    <2> QED BY <2>1, NothingMoves
  <1>5. ASSUME NEW o \in Orgs, Invalidate(o) PROVE IInv'
    BY <1>5, InvalidatePreserves
  <1>6. CASE Tick
    BY <1>6, TickPreserves
  <1>7. CASE UNCHANGED vars
    <2>1. Stored' = Stored
      BY <1>7 DEF vars, Stored
    <2> QED
      BY <1>7, <2>1 DEF vars, IInv, TypeOK, OwnInv, AgeInv, PassInv, OwnDataOnly,
                        StalenessBounded, Answered
  <1> QED BY <1>1, <1>2, <1>3, <1>4, <1>5, <1>6, <1>7 DEF Next, RequestStep

\* The invariant holds throughout.
LEMMA Inductive == Spec => []IInv
  <1> QED BY InitIInv, StepPreserves, PTL DEF Spec

\* Every variable keeps its type, and the cache its size: eviction keeps up with
\* any number of requests.
THEOREM TypeCorrect == Spec => []TypeOK
  <1>1. IInv => TypeOK
    BY DEF IInv
  <1> QED BY <1>1, Inductive, PTL

\* The tenants of the one cache never see each other's numbers.
THEOREM Isolation == Spec => []OwnDataOnly
  <1>1. IInv => OwnDataOnly
    BY DEF IInv
  <1> QED BY <1>1, Inductive, PTL

\* Whatever the timing of requests, syncs, expiry and eviction, an answer was read
\* at most a time to live and a fetch ago.
THEOREM Freshness == Spec => []StalenessBounded
  <1>1. IInv => StalenessBounded
    BY DEF IInv
  <1> QED BY <1>1, Inductive, PTL

\* Data older than a completed sync comes back only through a request that was
\* reading when the sync dropped its org's entries.
THEOREM SyncsShow == Spec => []SyncShows
  <1>1. IInv => SyncShows
    BY DEF IInv, PassInv, SyncShows, Stored
  <1> QED BY <1>1, Inductive, PTL

----------------------------------------------------------------------------
(* The team *)

\* What a request in progress knows of its invite and its address.
FlightInv ==
    \A r \in TeamRequests :
        /\ at[r] = "idle" => on[r] = NoInvite
        /\ at[r] \in {"signing", "removing"} => on[r] = NoInvite
        /\ at[r] \in {"found", "claimed", "mailing", "cancelling"} => on[r] \in Invites
        /\ at[r] # "idle" => who[r] \in Emails
        /\ at[r] = "found" => invite[on[r]] # "unsent"
        /\ at[r] = "mailing" => invite[on[r]] = "unsent"
        /\ at[r] = "cancelling" => invite[on[r]] \in {"pending", "accepted"}
        /\ (at[r] \in Claiming /\ on[r] \in Invites) => invite[on[r]] = "pending"

\* Rows are written by one transaction at a time.
AloneInv ==
    \A r, q \in TeamRequests :
        (r # q /\ on[r] \in Invites /\ on[r] = on[q]) =>
            /\ at[r] # "mailing"
            /\ at[r] \in Claiming \cup {"cancelling"} =>
                   at[q] \notin Claiming \cup {"cancelling"}

\* Every invite that was sent has an address.
SentInv == \A i \in Invites : invite[i] # "unsent" => sentTo[i] \in Emails

TeamIInv == TeamTypeOK /\ FlightInv /\ AloneInv /\ SentInv /\ InvitesHonest

----------------------------------------------------------------------------
\* Nobody has invited anybody.
LEMMA TeamInitIInv == TeamInit => TeamIInv
  BY TeamAssumption
  DEF TeamAssumption, TeamInit, TeamIInv, TeamTypeOK, FlightInv, AloneInv, SentInv, InvitesHonest,
      Places, Claiming

\* A transaction that begins writes nothing yet.
LEMMA StartsKeeps ==
    ASSUME TeamIInv, NEW r \in TeamRequests, NEW place \in Places \ (Claiming \cup {"idle"}),
           NEW i \in Invites \cup {NoInvite}, NEW e \in Emails,
           Starts(r, place, i, e), UNCHANGED <<rowVars, made>>,
           place \in {"signing", "removing"} <=> i = NoInvite,
           place = "found" => invite[i] # "unsent",
           place = "mailing" => invite[i] = "unsent" /\ \A q \in TeamRequests : on[q] # i,
           place = "cancelling" => invite[i] \in {"pending", "accepted"} /\ InviteFree(r, i)
    PROVE  TeamIInv'
  <1> USE DEF Starts, rowVars
  <1>1. TeamTypeOK'
    BY DEF TeamIInv, TeamTypeOK
  <1>2. FlightInv'
    BY TeamAssumption DEF TeamAssumption, TeamIInv, TeamTypeOK, FlightInv, Places, Claiming
  <1>3. AloneInv'
    BY TeamAssumption
    DEF TeamAssumption, TeamIInv, TeamTypeOK, FlightInv, AloneInv, Places, Claiming, InviteFree
  <1>4. SentInv' /\ InvitesHonest'
    BY DEF TeamIInv, SentInv, InvitesHonest
  <1> QED
    BY <1>1, <1>2, <1>3, <1>4 DEF TeamIInv

\* A transaction that ends without an effect leaves the rows to the others.
LEMMA OverKeeps ==
    ASSUME TeamIInv, NEW r \in TeamRequests, Over(r), UNCHANGED <<rowVars, made>>
    PROVE  TeamIInv'
  <1> USE DEF Over, rowVars
  <1>1. TeamTypeOK'
    BY DEF TeamIInv, TeamTypeOK, Places
  <1>2. FlightInv'
    BY TeamAssumption DEF TeamAssumption, TeamIInv, TeamTypeOK, FlightInv, Claiming
  <1>3. AloneInv'
    BY TeamAssumption DEF TeamAssumption, TeamIInv, TeamTypeOK, AloneInv, Claiming
  <1>4. SentInv' /\ InvitesHonest'
    BY DEF TeamIInv, SentInv, InvitesHonest
  <1> QED
    BY <1>1, <1>2, <1>3, <1>4 DEF TeamIInv

----------------------------------------------------------------------------
\* What admins begin, and an invite or a look for one that begins.
LEMMA BeginStep ==
    ASSUME TeamIInv, NEW r \in TeamRequests,
           \/ \E i \in Invites : FindInvite(r, i) \/ Cancel(r, i)
           \/ \E i \in Invites, e \in Emails : Draft(r, i, e)
           \/ \E e \in Emails : Remove(r, e) \/ SignUp(r, e)
    PROVE  TeamIInv'
  <1> USE TeamAssumption DEF TeamAssumption, Places, Claiming
  <1>1. ASSUME NEW i \in Invites, FindInvite(r, i) PROVE TeamIInv'
    <2>1. sentTo[i] \in Emails
      BY <1>1 DEF TeamIInv, SentInv, FindInvite
    <2> QED
      BY <1>1, <2>1, StartsKeeps DEF FindInvite
  <1>2. ASSUME NEW i \in Invites, Cancel(r, i) PROVE TeamIInv'
    <2>1. sentTo[i] \in Emails
      BY <1>2 DEF TeamIInv, SentInv, Cancel
    <2> QED
      BY <1>2, <2>1, StartsKeeps DEF Cancel
  <1>3. ASSUME NEW i \in Invites, NEW e \in Emails, Draft(r, i, e) PROVE TeamIInv'
    BY <1>3, StartsKeeps DEF Draft
  <1>4. ASSUME NEW e \in Emails, Remove(r, e) PROVE TeamIInv'
    BY <1>4, StartsKeeps DEF Remove
  <1>5. ASSUME NEW e \in Emails, SignUp(r, e) PROVE TeamIInv'
    BY <1>5, StartsKeeps DEF SignUp
  <1> QED
    BY <1>1, <1>2, <1>3, <1>4, <1>5

\* The commits of admins.
LEMMA CommitStep ==
    ASSUME TeamIInv, NEW r \in TeamRequests, Post(r) \/ Cancelled(r) \/ Removed(r)
    PROVE  TeamIInv'
  <1> USE TeamAssumption DEF TeamAssumption, Over
  <1>1. CASE Post(r)
    <2>1. on[r] \in Invites /\ who[r] \in Emails /\ invite[on[r]] = "unsent"
      BY <1>1 DEF TeamIInv, FlightInv, Post
    <2>2. TeamTypeOK'
      BY <1>1, <2>1 DEF TeamIInv, TeamTypeOK, Post, Places
    <2>3. FlightInv'
      BY <1>1, <2>1 DEF TeamIInv, TeamTypeOK, FlightInv, AloneInv, Post, Claiming
    <2>4. AloneInv'
      BY <1>1 DEF TeamIInv, TeamTypeOK, AloneInv, Post, Claiming
    <2>5. SentInv' /\ InvitesHonest'
      BY <1>1, <2>1 DEF TeamIInv, TeamTypeOK, SentInv, InvitesHonest, Post
    <2> QED
      BY <2>2, <2>3, <2>4, <2>5 DEF TeamIInv
  <1>2. CASE Cancelled(r)
    <2>1. on[r] \in Invites /\ invite[on[r]] \in {"pending", "accepted"}
      BY <1>2 DEF TeamIInv, FlightInv, Cancelled
    <2>2. TeamTypeOK'
      BY <1>2, <2>1 DEF TeamIInv, TeamTypeOK, Cancelled, Places
    <2>3. FlightInv'
      BY <1>2, <2>1 DEF TeamIInv, TeamTypeOK, FlightInv, AloneInv, Cancelled, Claiming
    <2>4. AloneInv'
      BY <1>2 DEF TeamIInv, TeamTypeOK, AloneInv, Cancelled, Claiming
    <2>5. SentInv' /\ InvitesHonest'
      BY <1>2, <2>1 DEF TeamIInv, TeamTypeOK, SentInv, InvitesHonest, Cancelled
    <2> QED
      BY <2>2, <2>3, <2>4, <2>5 DEF TeamIInv
  <1>3. CASE Removed(r)
    <2>1. TeamTypeOK'
      BY <1>3 DEF TeamIInv, TeamTypeOK, Removed, Places
    <2>2. FlightInv'
      BY <1>3 DEF TeamIInv, TeamTypeOK, FlightInv, Removed, Claiming
    <2>3. AloneInv'
      BY <1>3 DEF TeamIInv, TeamTypeOK, AloneInv, Removed, Claiming
    <2>4. SentInv' /\ InvitesHonest'
      BY <1>3 DEF TeamIInv, SentInv, InvitesHonest, Removed
    <2> QED
      BY <2>1, <2>2, <2>3, <2>4 DEF TeamIInv
  <1> QED
    BY <1>1, <1>2, <1>3

\* The seven days of an invite end.
LEMMA ExpireStep ==
    ASSUME TeamIInv, NEW i \in Invites, Expire(i)
    PROVE  TeamIInv'
  BY DEF TeamIInv, TeamTypeOK, FlightInv, AloneInv, SentInv, InvitesHonest, Expire

\* A transaction goes on to a place where it holds no row that it must not.
LEMMA GoesKeeps ==
    ASSUME TeamIInv, NEW r \in TeamRequests, NEW place \in Claiming,
           Goes(r, place), UNCHANGED <<rowVars, made>>,
           at[r] \in {"found", "signing"} \cup Claiming,
           place = "claimed" => on[r] \in Invites,
           on[r] \in Invites => invite[on[r]] = "pending" /\ InviteFree(r, on[r])
    PROVE  TeamIInv'
  <1> USE DEF Goes, rowVars
  <1>1. TeamTypeOK'
    BY DEF TeamIInv, TeamTypeOK, Places
  <1>2. FlightInv'
    BY DEF TeamIInv, TeamTypeOK, FlightInv, Claiming
  <1>3. AloneInv'
    BY DEF TeamIInv, TeamTypeOK, AloneInv, Claiming, InviteFree
  <1>4. SentInv' /\ InvitesHonest'
    BY DEF TeamIInv, SentInv, InvitesHonest
  <1> QED
    BY <1>1, <1>2, <1>3, <1>4 DEF TeamIInv

\* A claim is exclusive, and holds until the account is inserted.
LEMMA ClaimStep ==
    ASSUME TeamIInv, NEW r \in TeamRequests, Claim(r) \/ LookForAccount(r) \/ InsertUser(r)
    PROVE  TeamIInv'
  <1>1. (at[r] \in Claiming /\ on[r] \in Invites) =>
            invite[on[r]] = "pending" /\ InviteFree(r, on[r])
    BY DEF TeamIInv, FlightInv, AloneInv, InviteFree
  <1>2. CASE Claim(r)
    <2>1. on[r] \in Invites
      BY <1>2 DEF TeamIInv, FlightInv, Claim
    <2> QED
      BY <1>2, <2>1, OverKeeps, GoesKeeps DEF Claim, Claiming
  <1>3. CASE LookForAccount(r)
    <2>1. at[r] = "signing" => on[r] \notin Invites
      BY TeamAssumption DEF TeamAssumption, TeamIInv, FlightInv
    <2> QED
      BY <1>1, <1>3, <2>1, OverKeeps, GoesKeeps DEF LookForAccount, Claiming
  <1>4. CASE InsertUser(r)
    BY <1>1, <1>4, OverKeeps, GoesKeeps DEF InsertUser, Claiming
  <1> QED
    BY <1>2, <1>3, <1>4

\* Whoever joins by an invite finds it pending, and leaves it accepted.
LEMMA JoinStep ==
    ASSUME TeamIInv, NEW r \in TeamRequests, Join(r)
    PROVE  TeamIInv'
  <1> USE TeamAssumption DEF TeamAssumption, Over, Join
  <1>1. who[r] \in Emails /\ on[r] \in Invites \cup {NoInvite}
    BY DEF TeamIInv, TeamTypeOK, FlightInv
  <1>2. on[r] \in Invites => invite[on[r]] = "pending" /\ made[on[r]] = 0
    BY DEF TeamIInv, FlightInv, InvitesHonest, Claiming
  <1>3. TeamTypeOK'
    BY <1>1 DEF TeamIInv, TeamTypeOK, Places
  <1>4. FlightInv'
    BY <1>1, <1>2 DEF TeamIInv, TeamTypeOK, FlightInv, AloneInv, Claiming
  <1>5. AloneInv'
    BY DEF TeamIInv, TeamTypeOK, AloneInv, Claiming
  <1>6. SentInv' /\ InvitesHonest'
    BY <1>1, <1>2 DEF TeamIInv, TeamTypeOK, SentInv, InvitesHonest
  <1> QED
    BY <1>3, <1>4, <1>5, <1>6 DEF TeamIInv

----------------------------------------------------------------------------
\* The invariant holds in every reachable state.
LEMMA Invariance == TeamSpec => []TeamIInv
  <1>1. TeamIInv /\ [TeamNext]_teamVars => TeamIInv'
    <2> SUFFICES ASSUME TeamIInv, [TeamNext]_teamVars PROVE TeamIInv'
      OBVIOUS
    <2>1. CASE UNCHANGED teamVars
      BY <2>1 DEF teamVars, rowVars, TeamIInv, TeamTypeOK, FlightInv, AloneInv, SentInv, InvitesHonest
    <2>2. ASSUME NEW r \in TeamRequests, AdminStep(r) PROVE TeamIInv'
      BY <2>2, BeginStep, CommitStep DEF AdminStep
    <2>3. ASSUME NEW r \in TeamRequests, GuestStep(r) PROVE TeamIInv'
      BY <2>3, BeginStep, ClaimStep, JoinStep DEF GuestStep
    <2>4. ASSUME NEW r \in TeamRequests, RollBack(r) PROVE TeamIInv'
      BY <2>4, OverKeeps DEF RollBack
    <2>5. ASSUME NEW i \in Invites, Expire(i) PROVE TeamIInv'
      BY <2>5, ExpireStep
    <2> QED
      BY <2>1, <2>2, <2>3, <2>4, <2>5 DEF TeamNext
  <1> QED
    BY <1>1, TeamInitIInv, PTL DEF TeamSpec

\* For any number of invites, addresses and transactions at a time, an invite is
\* accepted exactly when its one account was made.
THEOREM InvitesAreHonest == TeamSpec => []InvitesHonest
  <1>1. TeamIInv => InvitesHonest
    BY DEF TeamIInv
  <1> QED
    BY <1>1, Invariance, PTL

\* A cancelled invite never makes an account again.
THEOREM CancelIsFinal == TeamSpec => CancelHolds
  <1> DEFINE Holds == \A i \in Invites : invite[i] = "gone" => made'[i] = made[i]
  <1>1. TeamIInv /\ [TeamNext]_teamVars => [Holds]_teamVars
    <2> SUFFICES ASSUME TeamIInv, TeamNext PROVE Holds
      OBVIOUS
    <2>1. ASSUME NEW r \in TeamRequests, Join(r) PROVE Holds
      <3>1. on[r] \in Invites => invite[on[r]] = "pending"
        BY <2>1 DEF TeamIInv, FlightInv, Join, Claiming
      <3> QED
        BY <2>1, <3>1 DEF TeamIInv, TeamTypeOK, Join
    <2>2. CASE UNCHANGED made
      BY <2>2
    <2> QED
      BY <2>1, <2>2
      DEF TeamNext, AdminStep, GuestStep, Cancel, Draft, Remove, Post, Cancelled, Removed,
          FindInvite, SignUp, Claim, LookForAccount, InsertUser, RollBack, Expire
  <1> QED
    BY <1>1, Invariance, PTL DEF TeamSpec, CancelHolds
=============================================================================
