--------------------------- MODULE DashboardCache ---------------------------
(***************************************************************************)
(* The in-process cache of dashboard answers in the API process            *)
(* (app/routers/dashboard.py): requests that look into it, query the       *)
(* database and store the answer, and the syncs that drop an org's entries *)
(* when they complete (app/connectors/sync.py).                            *)
(*                                                                         *)
(* The scheduler imports the same module, so a sync it runs drops entries  *)
(* of a cache of its own that nobody reads; ingest and webhooks drop none. *)
(*                                                                         *)
(* Time is counted in ticks, as ages and as time left, which keeps the     *)
(* model finite without a bound on time.                                   *)
(***************************************************************************)
EXTENDS Naturals, FiniteSets

CONSTANTS
    Orgs,
    Views,      \* endpoint, days and filter of a request
    Requests,   \* requests that can be in progress at a time
    TTL,        \* ttl = 300 s, in ticks
    Slow,       \* longest time a fetch takes, in ticks
    MaxSize,    \* maxsize = 200
    None,       \* no entry, no data, no answer
    Failed      \* an answer that is an error

Keys == Orgs \X Views

\* Data read from the database: whose it is, how long ago it was read, whether the
\* org's entries have been dropped since, and whether they were while the request
\* that read it was in progress.
Data == [org : Orgs, age : Nat, passed : BOOLEAN, raced : BOOLEAN]

ASSUME CacheAssumption ==
    /\ TTL \in Nat \ {0}
    /\ Slow \in Nat
    /\ MaxSize \in Nat \ {0}
    /\ None \notin Keys /\ None \notin Data /\ None \notin [key : Keys, data : Data]

VARIABLES
    cache,      \* the entries
    left,       \* ticks until an entry expires
    asks,       \* the key of a request in progress
    got,        \* the data it has read
    dropping,   \* orgs with a committed sync that has yet to drop their entries
    answer      \* the answer given in this step, and to which key

vars == <<cache, left, asks, got, dropping, answer>>

Stored == {k \in Keys : cache[k] # None}

\* The entries fit.
TypeOK ==
    /\ cache \in [Keys -> Data \cup {None}]
    /\ left \in [Keys -> 0 .. TTL]
    /\ asks \in [Requests -> Keys \cup {None}]
    /\ \A q \in Requests : asks[q] = None <=> got[q] = None
    /\ got \in [Requests -> Data \cup {None}]
    /\ dropping \subseteq Orgs
    /\ IsFiniteSet(Stored) /\ Cardinality(Stored) <= MaxSize
    /\ answer \in [key : Keys, data : Data] \cup {None, Failed}

Init ==
    /\ cache = [k \in Keys |-> None]
    /\ left = [k \in Keys |-> 0]
    /\ asks = [q \in Requests |-> None]
    /\ got = [q \in Requests |-> None]
    /\ dropping = {}
    /\ answer = None

----------------------------------------------------------------------------
InProgress == {q \in Requests : got[q] # None}

\* Variant: the org is not part of the key.
KeyOfView(o, v) == <<CHOOSE any \in Orgs : TRUE, v>>

\* _cache_key.
CacheKey(o, v) == <<o, v>>

\* An answer to a request for view v by org o.
Answer(o, v, data) == answer' = [key |-> <<o, v>>, data |-> data]

----------------------------------------------------------------------------
(* Requests *)

\* Variant: a hit starts the time to live anew.
HitRenews(o, v) ==
    LET k == CacheKey(o, v) IN
    /\ k \in Stored
    /\ left' = [left EXCEPT ![k] = TTL]
    /\ Answer(o, v, cache[k])
    /\ UNCHANGED <<cache, asks, got, dropping>>

\* The key is in the cache.  It may expire between the test and the access: then
\* the access raises an error.
Hit(o, v) ==
    LET k == CacheKey(o, v) IN
    /\ k \in Stored
    /\ \/ Answer(o, v, cache[k])
       \/ left[k] = 1 /\ answer' = Failed
    /\ UNCHANGED <<cache, left, asks, got, dropping>>

\* The key is not in the cache: the database is queried in the org's context.
Miss(q, o, v) ==
    /\ q \notin InProgress
    /\ CacheKey(o, v) \notin Stored
    /\ asks' = [asks EXCEPT ![q] = <<o, v>>]
    /\ got' = [got EXCEPT ![q] = [org |-> o, age |-> 0, passed |-> FALSE,
                                  raced |-> FALSE]]
    /\ answer' = None
    /\ UNCHANGED <<cache, left, dropping>>

\* Variant: nothing is given up.
StoreAll(q) ==
    LET k == CacheKey(asks[q][1], asks[q][2]) IN
    /\ q \in InProgress
    /\ cache' = [cache EXCEPT ![k] = got[q]]
    /\ left' = [left EXCEPT ![k] = TTL]
    /\ Answer(asks[q][1], asks[q][2], got[q])
    /\ got' = [got EXCEPT ![q] = None]
    /\ asks' = [asks EXCEPT ![q] = None]
    /\ UNCHANGED dropping

\* The answer is stored, whatever has happened since the query; a full cache
\* gives up another entry for a new key.
Store(q) ==
    LET o == asks[q][1]
        v == asks[q][2]
        k == CacheKey(o, v)
        Full == k \notin Stored /\ Cardinality(Stored) >= MaxSize
    IN
    /\ q \in InProgress
    /\ \E out \in SUBSET Stored :
         /\ IF Full THEN Cardinality(out) = 1 ELSE out = {}
         /\ cache' = [j \in Keys |-> IF j = k THEN got[q]
                                     ELSE IF j \in out THEN None ELSE cache[j]]
    /\ left' = [left EXCEPT ![k] = TTL]
    /\ Answer(o, v, got[q])
    /\ got' = [got EXCEPT ![q] = None]
    /\ asks' = [asks EXCEPT ![q] = None]
    /\ UNCHANGED dropping

\* A query fails.
FetchFails(q) ==
    /\ q \in InProgress
    /\ got' = [got EXCEPT ![q] = None]
    /\ asks' = [asks EXCEPT ![q] = None]
    /\ answer' = Failed
    /\ UNCHANGED <<cache, left, dropping>>

----------------------------------------------------------------------------
(* Syncs, and time *)

Raced(d, o)     == IF d # None /\ d.org = o
                     THEN [d EXCEPT !.passed = TRUE, !.raced = TRUE] ELSE d
Passed(d, o)    == IF d # None /\ d.org = o THEN [d EXCEPT !.passed = TRUE] ELSE d
Older(d)        == IF d = None THEN None ELSE [d EXCEPT !.age = @ + 1]

\* A sync of this process commits rows of the org.
SyncCommits(o) ==
    /\ dropping' = dropping \cup {o}
    /\ answer' = None
    /\ UNCHANGED <<cache, left, asks, got>>

\* Variant: one entry is dropped.
InvalidateOne(o) ==
    /\ o \in dropping
    /\ dropping' = dropping \ {o}
    /\ \E k \in Stored :
         /\ k[1] = o
         /\ cache' = [j \in Keys |-> IF j = k THEN None ELSE Passed(cache[j], o)]
    /\ answer' = None
    /\ UNCHANGED <<left, asks, got>>

\* invalidate_org_cache: the entries of the org are dropped.  Requests in progress
\* have read their data before.
Invalidate(o) ==
    /\ o \in dropping
    /\ dropping' = dropping \ {o}
    /\ cache' = [k \in Keys |-> IF k[1] = o THEN None ELSE Passed(cache[k], o)]
    /\ got' = [q \in Requests |-> Raced(got[q], o)]
    /\ answer' = None
    /\ UNCHANGED <<left, asks>>

\* The sync fails to mark its run, and so does not get to it.
NotDropped(o) ==
    /\ o \in dropping
    /\ dropping' = dropping \ {o}
    /\ answer' = None
    /\ UNCHANGED <<cache, left, asks, got>>

\* Time passes; entries expire.  A fetch takes at most Slow ticks: every query in
\* it times out.
Tick ==
    /\ \A q \in InProgress : got[q].age < Slow
    /\ left' = [k \in Keys |-> IF left[k] = 0 THEN 0 ELSE left[k] - 1]
    /\ cache' = [k \in Keys |-> IF left[k] <= 1 THEN None ELSE Older(cache[k])]
    /\ got' = [q \in Requests |-> Older(got[q])]
    /\ answer' = None
    /\ UNCHANGED <<asks, dropping>>

----------------------------------------------------------------------------
RequestStep ==
    \/ \E o \in Orgs, v \in Views : Hit(o, v) \/ \E q \in Requests : Miss(q, o, v)
    \/ \E q \in Requests : Store(q) \/ FetchFails(q)

Next ==
    \/ RequestStep
    \/ \E o \in Orgs : SyncCommits(o) \/ Invalidate(o) \/ NotDropped(o)
    \/ Tick

Spec == Init /\ [][Next]_vars

----------------------------------------------------------------------------
(* Properties *)

Answered == answer \notin {None, Failed}

\* No org is ever answered with the data of another one, although all share one
\* cache.
OwnDataOnly == Answered => answer.data.org = answer.key[1]

\* An answer was read from the database within the time to live and one fetch,
\* whatever has been stored, dropped and asked for in between.
StalenessBounded == Answered => answer.data.age < TTL + Slow + 1

\* Once a sync of this process has dropped the entries of its org, only a request
\* that had read the database before can bring older data back.
SyncShows == \A k \in Stored : cache[k].passed => cache[k].raced
=============================================================================
