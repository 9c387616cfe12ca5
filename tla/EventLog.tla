------------------------------ MODULE EventLog ------------------------------
(***************************************************************************)
(* The events of one organisation: the ingest transactions that add them   *)
(* (app/routers/ingest.py), the admin transactions that archive and erase  *)
(* them (storage.py, gdpr.py), and the live feed that streams them to      *)
(* browsers by a cursor on their ids (stream.py and the live page).        *)
(*                                                                         *)
(* Ids come from a sequence when a row is inserted, and the row is seen by *)
(* others when its transaction commits, maybe in another order.  Every     *)
(* transaction is READ COMMITTED: a statement sees what was committed when *)
(* it began, and the locks on the rows it deletes end with the commit.     *)
(***************************************************************************)
EXTENDS Naturals, FiniteSets

CONSTANTS
    Ingests,    \* POST /api/ingest requests; each inserts at most one event
    Users,      \* users named in events
    Anonymous,  \* the event has no userId
    UserOf,     \* UserOf[i] is the userId of the event of i
    Admins,     \* archive and forget requests in progress, by name
    Pages,      \* live feed pages open in a browser
    Batch,      \* _BATCH_SIZE: events per poll
    Replay      \* events replayed when a page connects (50 in the code)

ASSUME EventAssumption ==
    /\ Anonymous \notin Users
    /\ UserOf \in [Ingests -> Users \cup {Anonymous}]
    /\ Batch \in Nat \ {0}
    /\ Replay \in Nat

VARIABLES
    seq,        \* last value of the sequence of events.id
    pc,         \* where each ingest request stands
    eid,        \* id of the event an ingest inserted, 0 before
    hot,        \* ingests whose event is committed in events
    archived,   \* ... or in archived_events
    erased,     \* ... or was deleted by a forget request (history)
    optOuts,    \* gdpr_opt_outs
    inFlight,   \* ingests that had passed their check when the user's opt-out
                \* was committed (history)
    job,        \* the archive or forget transaction of each admin
    live,       \* pages with an open stream
    cursor,     \* cursor of each stream
    buffer,     \* events fetched for a page and not yet sent
    sent,       \* events sent over the page's present connection (history)
    before      \* events there were when the page connected (history)

logVars    == <<seq, pc, eid>>
tableVars  == <<hot, archived, erased>>
gdprVars   == <<optOuts, inFlight>>
streamVars == <<live, cursor, buffer, sent, before>>
vars == <<logVars, tableVars, gdprVars, job, streamVars>>

----------------------------------------------------------------------------
NoJob == [kind |-> "none", user |-> Anonymous, rows |-> {}, optOut |-> {}]

Init ==
    /\ seq = 0
    /\ pc = [i \in Ingests |-> "new"]
    /\ eid = [i \in Ingests |-> 0]
    /\ hot = {} /\ archived = {} /\ erased = {}
    /\ optOuts \in SUBSET Users
    /\ inFlight = {}
    /\ job = [a \in Admins |-> NoJob]
    /\ live = {}
    /\ cursor = [p \in Pages |-> 0]
    /\ buffer = [p \in Pages |-> {}]
    /\ sent = [p \in Pages |-> {}]
    /\ before = [p \in Pages |-> {}]

Job == [kind : {"none", "archive", "forget", "forgetting"},
        user : Users \cup {Anonymous}, rows : SUBSET Ingests, optOut : SUBSET Users]

TypeOK ==
    /\ seq \in Nat
    /\ pc \in [Ingests -> {"new", "checked", "inserted", "stored", "dropped", "failed"}]
    /\ eid \in [Ingests -> 0 .. seq]
    /\ hot \subseteq Ingests /\ archived \subseteq Ingests /\ erased \subseteq Ingests
    /\ optOuts \subseteq Users
    /\ inFlight \subseteq Ingests
    /\ job \in [Admins -> Job]
    /\ live \subseteq Pages
    /\ cursor \in [Pages -> 0 .. seq]
    /\ \A f \in {buffer, sent, before} : f \in [Pages -> SUBSET Ingests]

----------------------------------------------------------------------------
(* Ingest *)

Goto(i, label) == pc' = [pc EXCEPT ![i] = label]

\* Variant: the opt-out table is not consulted.
CheckSkipped(i) ==
    /\ pc[i] = "new"
    /\ Goto(i, "checked")
    /\ UNCHANGED <<seq, eid, tableVars, gdprVars, job, streamVars>>

\* The opt-out check: an opted-out user's event is dropped with an ok.
CheckOptOut(i) ==
    /\ pc[i] = "new"
    /\ Goto(i, IF UserOf[i] \in optOuts THEN "dropped" ELSE "checked")
    /\ UNCHANGED <<seq, eid, tableVars, gdprVars, job, streamVars>>

\* Variant: the id is not taken from the sequence.
InsertAhead(i) ==
    /\ pc[i] = "checked"
    /\ Goto(i, "inserted")
    /\ eid' = [eid EXCEPT ![i] = seq + 1]
    /\ UNCHANGED <<seq, tableVars, gdprVars, job, streamVars>>

\* INSERT takes the next id; the row is not visible yet.
Insert(i) ==
    /\ pc[i] = "checked"
    /\ Goto(i, "inserted")
    /\ seq' = seq + 1
    /\ eid' = [eid EXCEPT ![i] = seq + 1]
    /\ UNCHANGED <<tableVars, gdprVars, job, streamVars>>

\* The dependency's transaction commits when the handler has returned.
CommitIngest(i) ==
    /\ pc[i] = "inserted"
    /\ Goto(i, "stored")
    /\ hot' = hot \cup {i}
    /\ UNCHANGED <<seq, eid, archived, erased, gdprVars, job, streamVars>>

\* Rate limit, CORS or validation refuses the request, or the database fails:
\* everything but the sequence rolls back.
FailIngest(i) ==
    /\ pc[i] \in {"new", "checked", "inserted"}
    /\ Goto(i, "failed")
    /\ UNCHANGED <<seq, eid, tableVars, gdprVars, job, streamVars>>

----------------------------------------------------------------------------
(* GDPR and storage requests *)

OptOut(u) ==
    /\ optOuts' = optOuts \cup {u}
    /\ inFlight' = inFlight \cup
         {i \in Ingests : UserOf[i] = u /\ pc[i] \in {"checked", "inserted"}}
    /\ UNCHANGED <<logVars, tableVars, job, streamVars>>

\* 404 when there is no opt-out.
RemoveOptOut(u) ==
    /\ u \in optOuts
    /\ optOuts' = optOuts \ {u}
    /\ UNCHANGED <<inFlight, logVars, tableVars, job, streamVars>>

\* Forget, first statement: DELETE the committed events of the user.
ForgetEvents(a, u) ==
    /\ job[a] = NoJob
    /\ job' = [job EXCEPT ![a] =
                 [kind |-> "forget", user |-> u, optOut |-> {},
                  rows |-> {i \in hot : UserOf[i] = u}]]
    /\ UNCHANGED <<logVars, tableVars, gdprVars, streamVars>>

\* Forget, second statement: DELETE the user's opt-out.
ForgetOptOut(a) ==
    /\ job[a].kind = "forget"
    /\ job' = [job EXCEPT ![a].kind = "forgetting",
                          ![a].optOut = optOuts \cap {job[a].user}]
    /\ UNCHANGED <<logVars, tableVars, gdprVars, streamVars>>

\* A row that another transaction deleted first is skipped.
CommitForget(a) ==
    /\ job[a].kind = "forgetting"
    /\ hot' = hot \ job[a].rows
    /\ erased' = erased \cup (hot \cap job[a].rows)
    /\ optOuts' = optOuts \ job[a].optOut
    /\ job' = [job EXCEPT ![a] = NoJob]
    /\ UNCHANGED <<archived, inFlight, logVars, streamVars>>

\* Archive is one statement that deletes the events older than a date and
\* inserts what it deleted; any set of them may be that old.
ArchiveEvents(a) ==
    /\ job[a] = NoJob
    /\ \E S \in SUBSET hot :
         job' = [job EXCEPT ![a] =
                   [kind |-> "archive", user |-> Anonymous, rows |-> S, optOut |-> {}]]
    /\ UNCHANGED <<logVars, tableVars, gdprVars, streamVars>>

\* Variant: the rows to insert are selected before they are deleted.
ArchiveSelected(a) ==
    /\ job[a].kind = "archive"
    /\ hot' = hot \ job[a].rows
    /\ archived' = archived \cup job[a].rows
    /\ job' = [job EXCEPT ![a] = NoJob]
    /\ UNCHANGED <<erased, gdprVars, logVars, streamVars>>

\* What arrives in archived_events is what the DELETE returned.
CommitArchive(a) ==
    /\ job[a].kind = "archive"
    /\ hot' = hot \ job[a].rows
    /\ archived' = archived \cup (hot \cap job[a].rows)
    /\ job' = [job EXCEPT ![a] = NoJob]
    /\ UNCHANGED <<erased, gdprVars, logVars, streamVars>>

\* An error, a crash, or a deadlock between two such transactions.
RollbackJob(a) ==
    /\ job[a] # NoJob
    /\ job' = [job EXCEPT ![a] = NoJob]
    /\ UNCHANGED <<logVars, tableVars, gdprVars, streamVars>>

----------------------------------------------------------------------------
(* The live feed *)

Newest(S, n) == {i \in S : Cardinality({j \in S : eid[j] > eid[i]}) < n}
Oldest(S, n) == {i \in S : Cardinality({j \in S : eid[j] < eid[i]}) < n}

\* A page connects without a cursor, the first time and after an error alike:
\* the last events are fetched for replay and the cursor is the newest id.
Connect(p) ==
    LET replay == Newest(hot, Replay) IN
    /\ p \notin live
    /\ live' = live \cup {p}
    /\ \E k \in {0} \cup {eid[i] : i \in replay} :
         /\ \A i \in replay : eid[i] <= k
         /\ cursor' = [cursor EXCEPT ![p] = k]
    /\ buffer' = [buffer EXCEPT ![p] = replay]
    /\ sent' = [sent EXCEPT ![p] = {}]
    /\ before' = [before EXCEPT ![p] = hot]
    /\ UNCHANGED <<logVars, tableVars, gdprVars, job>>

\* Variant: ORDER BY id DESC.
FetchedNewest(p) == Newest({i \in hot : eid[i] > cursor[p]}, Batch)

\* WHERE id > cursor ORDER BY id LIMIT Batch.
Fetched(p) == Oldest({i \in hot : eid[i] > cursor[p]}, Batch)

\* The next turn of the loop, once everything fetched is sent.
Poll(p) ==
    /\ p \in live
    /\ buffer[p] = {}
    /\ Fetched(p) # {}
    /\ buffer' = [buffer EXCEPT ![p] = Fetched(p)]
    /\ UNCHANGED <<live, cursor, sent, before, logVars, tableVars, gdprVars, job>>

\* Variant: the cursor stays where it was.
SendOnly(p) ==
    /\ p \in live
    /\ \E i \in buffer[p] :
         /\ \A j \in buffer[p] : eid[i] <= eid[j]
         /\ buffer' = [buffer EXCEPT ![p] = @ \ {i}]
         /\ sent' = [sent EXCEPT ![p] = @ \cup {i}]
    /\ UNCHANGED <<live, cursor, before, logVars, tableVars, gdprVars, job>>

\* One event is yielded, lowest id first.  A replayed one is not above the
\* cursor, and does not move it.
Send(p) ==
    /\ p \in live
    /\ \E i \in buffer[p] :
         /\ \A j \in buffer[p] : eid[i] <= eid[j]
         /\ buffer' = [buffer EXCEPT ![p] = @ \ {i}]
         /\ cursor' = [cursor EXCEPT ![p] = IF eid[i] > @ THEN eid[i] ELSE @]
         /\ sent' = [sent EXCEPT ![p] = @ \cup {i}]
    /\ UNCHANGED <<live, before, logVars, tableVars, gdprVars, job>>

\* The connection breaks anywhere; what was fetched is gone.
Disconnect(p) ==
    /\ p \in live
    /\ live' = live \ {p}
    /\ buffer' = [buffer EXCEPT ![p] = {}]
    /\ UNCHANGED <<cursor, sent, before, logVars, tableVars, gdprVars, job>>

----------------------------------------------------------------------------
IngestStep(i) == \/ CheckOptOut(i) \/ Insert(i) \/ CommitIngest(i) \/ FailIngest(i)
GdprStep(u)   == OptOut(u) \/ RemoveOptOut(u)
AdminStep(a)  == \/ \E u \in Users : ForgetEvents(a, u)
                 \/ ForgetOptOut(a) \/ CommitForget(a)
                 \/ ArchiveEvents(a) \/ CommitArchive(a)
                 \/ RollbackJob(a)
PageStep(p)   == Connect(p) \/ Poll(p) \/ Send(p) \/ Disconnect(p)

Next ==
    \/ \E i \in Ingests : IngestStep(i)
    \/ \E u \in Users : GdprStep(u)
    \/ \E a \in Admins : AdminStep(a)
    \/ \E p \in Pages : PageStep(p)

Spec == Init /\ [][Next]_vars

\* The generator of an open stream wakes up every three seconds and sends what
\* it fetched; nobody is obliged to connect or to ingest.
FairSpec == Spec /\ \A p \in Pages : WF_vars(Poll(p)) /\ WF_vars(Send(p))

----------------------------------------------------------------------------
(* Properties *)

\* Every stored event is in exactly one place: archive and forget requests that
\* race for the same rows neither lose an event, nor keep it twice, nor bring an
\* erased one back (storage.py:51-65, gdpr.py:103-106).
EventsConserved ==
    /\ \A i \in Ingests : pc[i] = "stored" <=> i \in hot \cup archived \cup erased
    /\ hot \cap archived = {} /\ hot \cap erased = {} /\ archived \cap erased = {}

\* An opt-out lets through only events whose request was past its check when it
\* was committed, and only one request long (ingest.py:202-209).
OptOutWindow ==
    [][\A i \in Ingests : i \notin hot /\ i \in hot' /\ UserOf[i] \in optOuts =>
          i \in inFlight]_vars

\* Over one connection no event is sent twice, and ids only go up: replay, polls
\* and the cursor fit together (stream.py:65-147).
Ascends(p) == \E i \in Ingests : /\ sent'[p] = sent[p] \cup {i}
                                 /\ \A j \in sent[p] : eid[j] < eid[i]
SendsAscend == \A p \in Pages : Send(p) => Ascends(p)
SentInOrder == [][SendsAscend]_vars

\* An event above the cursor of an open stream, and above what the stream has
\* fetched, is sent in the end, however many there are and whatever the batch
\* size, unless it is archived or erased or the connection breaks.
LiveDelivery ==
    \A p \in Pages, i \in Ingests :
        (/\ p \in live /\ i \in hot
         /\ eid[i] > cursor[p]
         /\ \A j \in buffer[p] : eid[j] < eid[i])
            ~> (i \in sent[p] \/ i \notin hot \/ p \notin live)

\* stream.py:4: the stream carries new events "as they arrive".  An event
\* committed while the stream is open is not passed over by its cursor.
NothingSkipped ==
    \A p \in live : \A i \in hot \ before[p] :
        eid[i] <= cursor[p] => i \in sent[p]
=============================================================================
