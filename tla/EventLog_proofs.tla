-------------------------- MODULE EventLog_proofs --------------------------
(***************************************************************************)
(* Theorems about EventLog for any requests, users, pages and batch sizes. *)
(***************************************************************************)
EXTENDS EventLog, FiniteSetTheorems, TLAPS

\* An id belongs to one inserted event; what is not inserted has none.
IdInv ==
    /\ \A i \in Ingests : pc[i] \in {"inserted", "stored"} => eid[i] > 0
    /\ \A i \in Ingests : pc[i] \in {"new", "checked"} => eid[i] = 0
    /\ \A i, j \in Ingests : eid[i] = eid[j] /\ eid[i] > 0 => i = j

\* A job deletes rows that were once committed.
JobInv == \A a \in Admins : \A i \in job[a].rows : pc[i] = "stored"

\* Where each open stream stands: all it holds is committed, what is still to
\* be sent comes after what was sent, and the cursor has not fallen behind.
StreamInv ==
    \A p \in Pages :
        /\ \A i \in buffer[p] \cup sent[p] : pc[i] = "stored"
        /\ \A i \in sent[p] : eid[i] <= cursor[p]
        /\ \A i \in sent[p], j \in buffer[p] : eid[i] < eid[j]

\* An ingest past its check belongs to a user who has not opted out, or whose
\* opt-out came later.
WindowInv ==
    \A i \in Ingests : pc[i] \in {"checked", "inserted"} /\ UserOf[i] \in optOuts
        => i \in inFlight

IInv == TypeOK /\ IdInv /\ JobInv /\ EventsConserved /\ StreamInv /\ WindowInv

----------------------------------------------------------------------------
\* The tables start empty and no stream is open.
LEMMA InitIInv == Init => IInv
  <1> SUFFICES ASSUME Init PROVE IInv
    OBVIOUS
  <1>1. TypeOK
    BY DEF Init, TypeOK, Job, NoJob
  <1>2. IdInv /\ JobInv /\ EventsConserved
    BY DEF Init, IdInv, JobInv, NoJob, EventsConserved
  <1>3. StreamInv /\ WindowInv
    BY DEF Init, StreamInv, WindowInv
  <1> QED BY <1>1, <1>2, <1>3 DEF IInv

\* An ingest moves on: its own row is in no table, job or stream yet.
LEMMA IngestPreserves ==
    ASSUME IInv, NEW i \in Ingests, IngestStep(i)
    PROVE  IInv'
  <1> USE DEF IInv, Goto, tableVars, gdprVars, streamVars
  <1>1. CASE CheckOptOut(i)
    <2>1. TypeOK'
      BY <1>1 DEF CheckOptOut, TypeOK
    <2>2. IdInv' /\ JobInv' /\ EventsConserved'
      BY <1>1 DEF CheckOptOut, TypeOK, IdInv, JobInv, Job, EventsConserved
    <2>3. StreamInv' /\ WindowInv'
      BY <1>1 DEF CheckOptOut, TypeOK, StreamInv, WindowInv
    <2> QED BY <2>1, <2>2, <2>3
  <1>2. CASE Insert(i)
    <2> USE <1>2 DEF Insert
    <2>1. seq \in Nat /\ seq' = seq + 1 /\ 0 .. seq \subseteq 0 .. seq'
          /\ seq + 1 \in 0 .. seq' /\ \A j \in Ingests : eid[j] \in 0 .. seq
      BY DEF TypeOK
    <2>2. TypeOK'
      <3>1. eid' \in [Ingests -> 0 .. seq']
        BY <2>1 DEF TypeOK
      <3>2. cursor' \in [Pages -> 0 .. seq']
        BY <2>1 DEF TypeOK
      <3> QED BY <2>1, <3>1, <3>2 DEF TypeOK
    <2>3. IdInv'
      BY <2>1 DEF TypeOK, IdInv
    <2>4. JobInv' /\ EventsConserved'
      BY DEF TypeOK, JobInv, Job, EventsConserved
    <2>5. \A p \in Pages : \A j \in buffer[p] \cup sent[p] :
            j # i /\ j \in Ingests /\ eid'[j] = eid[j] /\ pc'[j] = pc[j]
      BY DEF TypeOK, StreamInv
    <2>6. StreamInv'
      BY <2>5 DEF StreamInv
    <2>7. WindowInv'
      BY DEF TypeOK, WindowInv
    <2> QED BY <2>2, <2>3, <2>4, <2>6, <2>7
  <1>3. CASE CommitIngest(i)
    <2> USE <1>3 DEF CommitIngest
    <2>1. TypeOK'
      BY DEF TypeOK
    <2>2. IdInv' /\ JobInv'
      BY DEF TypeOK, IdInv, JobInv, Job
    <2>3. EventsConserved'
      BY DEF TypeOK, EventsConserved
    <2>4. StreamInv' /\ WindowInv'
      BY DEF TypeOK, StreamInv, WindowInv
    <2> QED BY <2>1, <2>2, <2>3, <2>4
  <1>4. CASE FailIngest(i)
    <2> USE <1>4 DEF FailIngest
    <2>1. TypeOK'
      BY DEF TypeOK
    <2>2. IdInv' /\ JobInv' /\ EventsConserved'
      BY DEF TypeOK, IdInv, JobInv, Job, EventsConserved
    <2>3. StreamInv' /\ WindowInv'
      BY DEF TypeOK, StreamInv, WindowInv
    <2> QED BY <2>1, <2>2, <2>3
  <1> QED BY <1>1, <1>2, <1>3, <1>4 DEF IngestStep

\* Opting out notes the requests already past their check.
LEMMA GdprPreserves ==
    ASSUME IInv, NEW u \in Users, GdprStep(u)
    PROVE  IInv'
  <1> USE DEF IInv, GdprStep, OptOut, RemoveOptOut, logVars, tableVars, streamVars
  <1>1. TypeOK'
    BY DEF TypeOK
  <1>2. IdInv' /\ JobInv' /\ EventsConserved' /\ StreamInv'
    BY DEF IdInv, JobInv, EventsConserved, StreamInv
  <1>3. WindowInv'
    BY DEF WindowInv
  <1> QED BY <1>1, <1>2, <1>3

\* Two jobs after the same row: the one that commits first gets it.
LEMMA AdminPreserves ==
    ASSUME IInv, NEW a \in Admins, AdminStep(a)
    PROVE  IInv'
  <1> USE DEF IInv, logVars, tableVars, gdprVars, streamVars
  <1>0. /\ job[a] \in Job /\ NoJob \in Job
        /\ \A i \in hot : pc[i] = "stored"
    BY DEF TypeOK, EventsConserved, Job, NoJob
  <1>1. ASSUME NEW j \in Job, job' = [job EXCEPT ![a] = j],
               \A i \in j.rows : pc[i] = "stored",
               UNCHANGED <<logVars, tableVars, gdprVars, streamVars>>
        PROVE  IInv'
    <2>1. TypeOK'
      BY <1>1 DEF TypeOK
    <2>2. JobInv'
      BY <1>1 DEF TypeOK, JobInv
    <2>3. IdInv' /\ EventsConserved' /\ StreamInv' /\ WindowInv'
      BY <1>1 DEF IdInv, EventsConserved, StreamInv, WindowInv
    <2> QED BY <2>1, <2>2, <2>3
  <1>2. ASSUME NEW u \in Users, ForgetEvents(a, u) PROVE IInv'
    <2> DEFINE j == [kind |-> "forget", user |-> u, optOut |-> {},
                     rows |-> {i \in hot : UserOf[i] = u}]
    <2>1. j \in Job /\ \A i \in j.rows : pc[i] = "stored"
      BY <1>0 DEF TypeOK, Job
    <2>2. job' = [job EXCEPT ![a] = j]
          /\ UNCHANGED <<logVars, tableVars, gdprVars, streamVars>>
      BY <1>2 DEF ForgetEvents
    <2> QED BY <2>1, <2>2, <1>1
  <1>3. CASE ForgetOptOut(a)
    <2> DEFINE j == [job[a] EXCEPT !.kind = "forgetting",
                                   !.optOut = optOuts \cap {job[a].user}]
    <2>1. j \in Job /\ \A i \in j.rows : pc[i] = "stored"
      BY <1>0 DEF TypeOK, Job, JobInv
    <2>2. job' = [job EXCEPT ![a] = j]
          /\ UNCHANGED <<logVars, tableVars, gdprVars, streamVars>>
      BY <1>3 DEF ForgetOptOut, TypeOK
    <2> QED BY <2>1, <2>2, <1>1
  <1>4. CASE ArchiveEvents(a)
    <2>1. PICK S \in SUBSET hot :
            job' = [job EXCEPT ![a] =
              [kind |-> "archive", user |-> Anonymous, rows |-> S, optOut |-> {}]]
      BY <1>4 DEF ArchiveEvents
    <2> DEFINE j == [kind |-> "archive", user |-> Anonymous, rows |-> S, optOut |-> {}]
    <2>2. j \in Job /\ \A i \in j.rows : pc[i] = "stored"
      BY <1>0 DEF TypeOK, Job
    <2>3. UNCHANGED <<logVars, tableVars, gdprVars, streamVars>>
      BY <1>4 DEF ArchiveEvents
    <2> QED BY <2>1, <2>2, <2>3, <1>1
  <1>5. CASE RollbackJob(a)
    <2>1. \A i \in NoJob.rows : pc[i] = "stored"
      BY DEF NoJob
    <2> QED BY <1>0, <1>1, <1>5, <2>1 DEF RollbackJob
  <1>6. CASE CommitForget(a)
    <2> USE <1>6 DEF CommitForget
    <2>1. TypeOK'
      BY <1>0 DEF TypeOK
    <2>2. JobInv'
      BY DEF TypeOK, JobInv, NoJob
    <2>3. EventsConserved'
      BY DEF TypeOK, EventsConserved
    <2>4. IdInv' /\ StreamInv' /\ WindowInv'
      BY DEF IdInv, StreamInv, WindowInv
    <2> QED BY <2>1, <2>2, <2>3, <2>4
  <1>7. CASE CommitArchive(a)
    <2> USE <1>7 DEF CommitArchive
    <2>1. TypeOK'
      BY <1>0 DEF TypeOK
    <2>2. JobInv'
      BY DEF TypeOK, JobInv, NoJob
    <2>3. EventsConserved'
      BY DEF TypeOK, EventsConserved
    <2>4. IdInv' /\ StreamInv' /\ WindowInv'
      BY DEF IdInv, StreamInv, WindowInv
    <2> QED BY <2>1, <2>2, <2>3, <2>4
  <1> QED BY <1>2, <1>3, <1>4, <1>5, <1>6, <1>7 DEF AdminStep

\* What a stream fetches lies above its cursor, hence above all it has sent.
LEMMA PagePreserves ==
    ASSUME IInv, NEW p \in Pages, PageStep(p)
    PROVE  IInv'
  <1> USE DEF IInv, logVars, tableVars, gdprVars
  <1>0. /\ \A i \in hot : pc[i] = "stored" /\ i \in Ingests
        /\ \A i \in Ingests : eid[i] \in 0 .. seq
        /\ cursor[p] \in 0 .. seq /\ seq \in Nat
        /\ buffer[p] \in SUBSET Ingests /\ sent[p] \in SUBSET Ingests
    BY DEF TypeOK, EventsConserved
  <1>1. UNCHANGED <<logVars, tableVars, gdprVars, job>>
    BY DEF PageStep, Connect, Poll, Send, Disconnect
  <1>2. IdInv' /\ JobInv' /\ EventsConserved' /\ WindowInv'
    BY <1>1 DEF IdInv, JobInv, EventsConserved, WindowInv
  <1>3. CASE Connect(p)
    <2> DEFINE replay == Newest(hot, Replay)
    <2>1. replay \subseteq hot
      BY DEF Newest
    <2>2. PICK k \in {0} \cup {eid[i] : i \in replay} :
            cursor' = [cursor EXCEPT ![p] = k]
      BY <1>3 DEF Connect
    <2>3. k \in 0 .. seq
      BY <2>1, <2>2, <1>0
    <2>4. TypeOK'
      <3>1. buffer' \in [Pages -> SUBSET Ingests] /\ sent' \in [Pages -> SUBSET Ingests]
            /\ before' \in [Pages -> SUBSET Ingests]
        BY <1>3, <2>1, <1>0 DEF Connect, TypeOK
      <3>2. cursor' \in [Pages -> 0 .. seq'] /\ live' \subseteq Pages
        BY <1>3, <2>2, <2>3 DEF Connect, TypeOK
      <3> QED BY <1>1, <3>1, <3>2 DEF TypeOK
    <2>5. StreamInv'
      BY <1>3, <2>1, <1>0 DEF Connect, TypeOK, StreamInv
    <2> QED BY <1>2, <2>4, <2>5
  <1>4. CASE Poll(p)
    <2>1. \A i \in Fetched(p) : i \in hot /\ eid[i] > cursor[p]
      BY DEF Fetched, Oldest
    <2>2. TypeOK'
      BY <1>0, <1>4, <2>1 DEF Poll, TypeOK
    <2>3. StreamInv'
      <3>1. ASSUME NEW i \in sent[p], NEW j \in Fetched(p) PROVE eid[i] < eid[j]
        BY <2>1, <1>0 DEF StreamInv
      <3> QED BY <3>1, <1>0, <1>4, <2>1 DEF Poll, TypeOK, StreamInv
    <2> QED BY <1>2, <2>2, <2>3
  <1>5. CASE Send(p)
    <2>1. PICK i \in buffer[p] :
            /\ \A j \in buffer[p] : eid[i] <= eid[j]
            /\ buffer' = [buffer EXCEPT ![p] = @ \ {i}]
            /\ cursor' = [cursor EXCEPT ![p] = IF eid[i] > @ THEN eid[i] ELSE @]
            /\ sent' = [sent EXCEPT ![p] = @ \cup {i}]
      BY <1>5 DEF Send
    <2>2. i \in Ingests /\ eid[i] \in 0 .. seq
      BY <1>0
    <2>3. TypeOK'
      <3>1. cursor' \in [Pages -> 0 .. seq']
        BY <1>1, <2>1, <2>2 DEF TypeOK
      <3>2. buffer' \in [Pages -> SUBSET Ingests] /\ sent' \in [Pages -> SUBSET Ingests]
        BY <2>1, <2>2 DEF TypeOK
      <3> QED BY <1>1, <1>5, <3>1, <3>2 DEF Send, TypeOK
    <2>4. ASSUME NEW j \in buffer[p], j # i PROVE eid[i] < eid[j]
      <3>1. pc[i] = "stored" /\ pc[j] = "stored" /\ j \in Ingests
        BY <1>0 DEF StreamInv
      <3>2. eid[i] # eid[j]
        BY <3>1, <2>2, <2>4 DEF IdInv
      <3> QED BY <2>1, <2>2, <3>1, <3>2, <1>0
    <2>5. StreamInv'
      <3> SUFFICES ASSUME NEW q \in Pages
                   PROVE  /\ \A j \in buffer'[q] \cup sent'[q] : pc[j] = "stored"
                          /\ \A j \in sent'[q] : eid[j] <= cursor'[q]
                          /\ \A j \in sent'[q], k \in buffer'[q] : eid[j] < eid[k]
        BY <1>1 DEF StreamInv
      <3>1. CASE q # p
        BY <3>1, <2>1 DEF TypeOK, StreamInv
      <3>2. CASE q = p
        <4>1. buffer'[p] = buffer[p] \ {i} /\ sent'[p] = sent[p] \cup {i}
          BY <2>1 DEF TypeOK
        <4>2. cursor'[p] \in 0 .. seq /\ cursor'[p] >= cursor[p] /\ cursor'[p] >= eid[i]
          BY <2>1, <2>2, <1>0 DEF TypeOK
        <4>3. \A j \in buffer'[p] \cup sent'[p] : pc[j] = "stored"
          BY <4>1 DEF StreamInv
        <4>4. \A j \in sent'[p] : eid[j] <= cursor'[p]
          BY <4>1, <4>2, <1>0, <2>2 DEF StreamInv
        <4>5. \A j \in sent'[p], k \in buffer'[p] : eid[j] < eid[k]
          BY <4>1, <2>4 DEF StreamInv
        <4> QED BY <3>2, <4>3, <4>4, <4>5
      <3> QED BY <3>1, <3>2
    <2> QED BY <1>2, <2>3, <2>5
  <1>6. CASE Disconnect(p)
    <2>1. TypeOK'
      BY <1>6 DEF Disconnect, TypeOK
    <2>2. StreamInv'
      BY <1>6 DEF Disconnect, TypeOK, StreamInv
    <2> QED BY <1>2, <2>1, <2>2
  <1> QED BY <1>3, <1>4, <1>5, <1>6 DEF PageStep

LEMMA NextIInv == IInv /\ [Next]_vars => IInv'
  <1> SUFFICES ASSUME IInv, [Next]_vars PROVE IInv'
    OBVIOUS
  <1>1. CASE UNCHANGED vars
    BY <1>1 DEF IInv, TypeOK, IdInv, JobInv, EventsConserved, StreamInv, WindowInv,
                vars, logVars, tableVars, gdprVars, streamVars
  <1> QED BY <1>1, IngestPreserves, GdprPreserves, AdminPreserves, PagePreserves DEF Next

\* IInv is inductive, hence an invariant.
LEMMA Invariance == Spec => []IInv
  BY InitIInv, NextIInv, PTL DEF Spec

----------------------------------------------------------------------------
\* Every variable keeps its type; in particular no cursor runs ahead of the
\* sequence.
THEOREM TypeCorrect == Spec => []TypeOK
  <1>1. IInv => TypeOK
    BY DEF IInv
  <1> QED BY <1>1, Invariance, PTL

\* However many archive and forget requests race, a stored event is in exactly
\* one of events, archived_events and the erased.
THEOREM Conservation == Spec => []EventsConserved
  <1>1. IInv => EventsConserved
    BY DEF IInv
  <1> QED BY <1>1, Invariance, PTL

\* Only an ingest commit makes a row visible, and past an opt-out only that of a
\* request that had been checked before it.
THEOREM OptOutIsBounded == Spec => OptOutWindow
  <1>1. IInv /\ [Next]_vars =>
          [\A i \in Ingests : i \notin hot /\ i \in hot' /\ UserOf[i] \in optOuts =>
             i \in inFlight]_vars
    <2> SUFFICES ASSUME IInv, Next, NEW i \in Ingests, i \notin hot, i \in hot',
                        UserOf[i] \in optOuts
                 PROVE  i \in inFlight
      BY DEF vars, logVars, tableVars
    <2>1. ASSUME NEW j \in Ingests, IngestStep(j) PROVE CommitIngest(i)
      BY <2>1 DEF IngestStep, CheckOptOut, Insert, CommitIngest, FailIngest, tableVars
    <2>2. ASSUME NEW u \in Users, GdprStep(u) PROVE FALSE
      BY <2>2 DEF GdprStep, OptOut, RemoveOptOut, tableVars
    <2>3. ASSUME NEW a \in Admins, AdminStep(a) PROVE FALSE
      BY <2>3 DEF AdminStep, ForgetEvents, ForgetOptOut, CommitForget, ArchiveEvents,
                  CommitArchive, RollbackJob, tableVars
    <2>4. ASSUME NEW p \in Pages, PageStep(p) PROVE FALSE
      BY <2>4 DEF PageStep, Connect, Poll, Send, Disconnect, tableVars
    <2>5. CommitIngest(i)
      BY <2>1, <2>2, <2>3, <2>4 DEF Next
    <2> QED BY <2>5 DEF IInv, WindowInv, CommitIngest
  <1> QED BY <1>1, Invariance, PTL DEF Spec, OptOutWindow

\* For any batch and replay size and any order of commits, what a connection
\* sends is strictly ascending: nothing is sent twice.
THEOREM StreamAscends == Spec => SentInOrder
  <1>1. IInv /\ [Next]_vars => [SendsAscend]_vars
    <2> SUFFICES ASSUME IInv, NEW p \in Pages, Send(p) PROVE Ascends(p)
      BY DEF SendsAscend
    <2>1. PICK i \in buffer[p] : sent' = [sent EXCEPT ![p] = @ \cup {i}]
      BY DEF Send
    <2>2. i \in Ingests /\ sent'[p] = sent[p] \cup {i}
      BY <2>1 DEF IInv, TypeOK
    <2>3. \A j \in sent[p] : eid[j] < eid[i]
      BY DEF IInv, StreamInv
    <2> QED BY <2>2, <2>3 DEF Ascends
  <1> QED BY <1>1, Invariance, PTL DEF Spec, SentInOrder

----------------------------------------------------------------------------
\* An event the stream is going to send: above its cursor, and fetched already or
\* above everything fetched.
OnItsWay(p, i) ==
    /\ eid[i] > cursor[p]
    /\ i \in buffer[p] \/ \A j \in buffer[p] : eid[j] < eid[i]

\* Ids are told apart and at most seq, so there are finitely many stored events.
LEMMA FiniteHot ==
    ASSUME IInv, NEW S \in SUBSET hot
    PROVE  IsFiniteSet(S)
  <1> DEFINE f == [i \in S |-> eid[i]]
  <1>1. \A i \in S : i \in Ingests /\ pc[i] = "stored" /\ eid[i] \in 0 .. seq
    BY DEF IInv, TypeOK, EventsConserved
  <1>2. \A i, j \in S : eid[i] = eid[j] => i = j
    BY <1>1 DEF IInv, IdInv
  <1>3. f \in Injection(S, 0 .. seq)
    BY <1>1, <1>2 DEF Injection, IsInjective
  <1>4. IsFiniteSet(0 .. seq)
    BY FS_Interval DEF IInv, TypeOK
  <1> QED BY <1>3, <1>4, FS_Injection

\* What is fetched comes first: an event that was left out lies above it.
LEMMA OldestFirst ==
    ASSUME IInv, NEW S \in SUBSET hot, NEW n \in Nat,
           NEW i \in S, i \notin Oldest(S, n), NEW j \in Oldest(S, n)
    PROVE  eid[j] < eid[i]
  <1> DEFINE Below(k) == {l \in S : eid[l] < eid[k]}
  <1>1. \A k \in S : eid[k] \in Nat
    BY DEF IInv, TypeOK
  <1>2. SUFFICES ASSUME eid[i] <= eid[j] PROVE FALSE
    BY <1>1 DEF Oldest
  <1>3. Below(i) \subseteq Below(j)
    BY <1>1, <1>2 DEF Oldest
  <1>4. IsFiniteSet(Below(i)) /\ IsFiniteSet(Below(j))
    BY FiniteHot
  <1>5. Cardinality(Below(i)) <= Cardinality(Below(j))
    BY <1>3, <1>4, FS_Subset
  <1>6. Cardinality(Below(i)) \in Nat /\ Cardinality(Below(j)) \in Nat
    BY <1>4, FS_CardinalityType
  <1>7. Cardinality(Below(j)) < n /\ ~(Cardinality(Below(i)) < n)
    BY DEF Oldest
  <1> QED BY <1>5, <1>6, <1>7

\* A step of an open stream sends what is on its way, or keeps it there.
LEMMA StreamKeeps ==
    ASSUME IInv, NEW p \in live, NEW q \in Pages, PageStep(q), p \in live',
           NEW i \in hot, OnItsWay(p, i)
    PROVE  i \in sent'[p] \/ OnItsWay(p, i)'
  <1> USE DEF OnItsWay
  <1>0. /\ eid' = eid /\ p \in Pages /\ i \in Ingests /\ Batch \in Nat
        /\ \A j \in Ingests : eid[j] \in Nat
        /\ cursor[p] \in Nat /\ buffer[p] \in SUBSET Ingests
    BY EventAssumption
       DEF IInv, TypeOK, PageStep, Connect, Poll, Send, Disconnect, logVars
  <1>1. CASE q # p \/ Connect(q) \/ Disconnect(q)
    BY <1>0, <1>1 DEF IInv, TypeOK, PageStep, Connect, Poll, Send, Disconnect
  <1>2. CASE Poll(p)
    <2> DEFINE S == {k \in hot : eid[k] > cursor[p]}
    <2>1. i \in S /\ S \subseteq hot
      OBVIOUS
    <2>2. buffer'[p] = Oldest(S, Batch) /\ cursor' = cursor
      BY <1>0, <1>2 DEF Poll, Fetched, IInv, TypeOK
    <2>3. CASE i \in Oldest(S, Batch)
      BY <1>0, <2>2, <2>3
    <2>4. CASE i \notin Oldest(S, Batch)
      <3>1. \A j \in Oldest(S, Batch) : eid[j] < eid[i]
        BY <1>0, <2>1, <2>4, OldestFirst
      <3> QED BY <1>0, <2>2, <3>1
    <2> QED BY <2>3, <2>4
  <1>3. CASE Send(p)
    <2>1. PICK j \in buffer[p] :
            /\ \A k \in buffer[p] : eid[j] <= eid[k]
            /\ buffer' = [buffer EXCEPT ![p] = @ \ {j}]
            /\ cursor' = [cursor EXCEPT ![p] = IF eid[j] > @ THEN eid[j] ELSE @]
            /\ sent' = [sent EXCEPT ![p] = @ \cup {j}]
      BY <1>3 DEF Send
    <2>2. buffer'[p] = buffer[p] \ {j} /\ sent'[p] = sent[p] \cup {j}
          /\ cursor'[p] \in {cursor[p], eid[j]}
      BY <1>0, <2>1 DEF IInv, TypeOK
    <2>3. CASE i = j
      BY <2>2, <2>3
    <2>4. CASE i # j
      <3>1. j \in Ingests /\ pc[j] = "stored" /\ pc[i] = "stored"
        BY <1>0 DEF IInv, StreamInv, EventsConserved
      <3>2. eid[j] # eid[i]
        BY <1>0, <2>4, <3>1 DEF IInv, IdInv
      <3>3. eid[j] <= eid[i]
        BY <1>0, <2>1, <3>1
      <3>4. eid[j] < eid[i]
        BY <1>0, <3>1, <3>2, <3>3
      <3> QED BY <1>0, <2>2, <2>4, <3>4
    <2> QED BY <2>3, <2>4
  <1> QED BY <1>1, <1>2, <1>3 DEF PageStep

\* The other steps touch no stream and no id of a stored event.
LEMMA OthersKeep ==
    ASSUME IInv, Next, ~ \E q \in Pages : PageStep(q)
    PROVE  /\ UNCHANGED streamVars
           /\ \A i \in Ingests : pc[i] = "stored" => eid'[i] = eid[i] /\ pc'[i] = "stored"
  <1>1. ASSUME NEW j \in Ingests, IngestStep(j)
        PROVE  /\ UNCHANGED streamVars
               /\ \A i \in Ingests : pc[i] = "stored" => eid'[i] = eid[i] /\ pc'[i] = "stored"
    BY <1>1 DEF IngestStep, CheckOptOut, Insert, CommitIngest, FailIngest, Goto, IInv, TypeOK
  <1>2. ASSUME NEW u \in Users, GdprStep(u)
        PROVE  UNCHANGED <<logVars, streamVars>>
    BY <1>2 DEF GdprStep, OptOut, RemoveOptOut
  <1>3. ASSUME NEW a \in Admins, AdminStep(a)
        PROVE  UNCHANGED <<logVars, streamVars>>
    BY <1>3 DEF AdminStep, ForgetEvents, ForgetOptOut, CommitForget, ArchiveEvents,
                CommitArchive, RollbackJob
  <1> QED BY <1>1, <1>2, <1>3 DEF Next, logVars

\* Whatever happens, an event on its way over an open stream is sent by the next
\* step, or still on its way after it.
LEMMA KeepsOnItsWay ==
    ASSUME IInv, Next, NEW p \in live, p \in live', NEW i \in hot, OnItsWay(p, i)
    PROVE  i \in sent'[p] \/ OnItsWay(p, i)'
  <1>1. CASE \E q \in Pages : PageStep(q)
    BY <1>1, StreamKeeps
  <1>2. CASE ~ \E q \in Pages : PageStep(q)
    <2>1. i \in Ingests /\ pc[i] = "stored" /\ p \in Pages
          /\ \A j \in buffer[p] : j \in Ingests /\ pc[j] = "stored"
      BY DEF IInv, TypeOK, EventsConserved, StreamInv
    <2> QED BY <1>2, <2>1, OthersKeep DEF OnItsWay, streamVars
  <1> QED BY <1>1, <1>2

\* No step loses an event that a stream has yet to send: batches, replay, commits,
\* archive and forget requests only delay it.  This is the part of LiveDelivery
\* that no fairness is needed for.
THEOREM NoneLostOnTheWay ==
    Spec => [][\A p \in live, i \in hot : OnItsWay(p, i) =>
                 p \notin live' \/ i \notin hot' \/ i \in sent'[p] \/ OnItsWay(p, i)']_vars
  <1> DEFINE Kept == \A p \in live, i \in hot : OnItsWay(p, i) =>
                       p \notin live' \/ i \notin hot' \/ i \in sent'[p] \/ OnItsWay(p, i)'
  <1>1. IInv /\ [Next]_vars => [Kept]_vars
    BY KeepsOnItsWay
  <1> QED BY <1>1, Invariance, PTL DEF Spec

----------------------------------------------------------------------------
\* Ingest transactions commit in the order of their ids.
CommitsInOrder ==
    \A i, k \in Ingests : i \notin hot /\ i \in hot' /\ pc[k] = "inserted" => eid[i] <= eid[k]

\* With it, ids yet to be committed lie above all that are, a cursor is the id of a
\* committed event, and what came after a page connected was sent or is on its way.
OrderInv ==
    \A i, k \in Ingests : pc[i] = "stored" /\ pc[k] = "inserted" => eid[i] < eid[k]
CursorInv ==
    \A p \in live : cursor[p] = 0 \/ \E j \in Ingests : pc[j] = "stored" /\ eid[j] = cursor[p]
SentOrOnItsWay ==
    \A p \in live : \A i \in hot \ before[p] : i \in sent[p] \/ OnItsWay(p, i)

OrderedInv == OrderInv /\ CursorInv /\ SentOrOnItsWay

LEMMA InitOrdered == Init => OrderedInv
  BY DEF Init, OrderedInv, OrderInv, CursorInv, SentOrOnItsWay

\* A step commits above all that is stored, or commits nothing.
LEMMA OrderStep ==
    ASSUME IInv, OrderInv, CommitsInOrder, Next
    PROVE  /\ OrderInv'
           /\ \A i \in hot' \ hot : /\ i \in Ingests /\ UNCHANGED streamVars
                                    /\ \A j \in Ingests : pc[j] = "stored" => eid'[j] < eid'[i]
  <1> USE DEF IInv
  <1>0. \A i \in Ingests : eid[i] \in 0 .. seq
    BY DEF TypeOK
  <1>1. ASSUME NEW j \in Ingests, CheckOptOut(j) \/ FailIngest(j)
        PROVE  OrderInv' /\ hot' = hot
    BY <1>1 DEF CheckOptOut, FailIngest, Goto, OrderInv, tableVars, TypeOK
  <1>2. ASSUME NEW j \in Ingests, Insert(j)
        PROVE  OrderInv' /\ hot' = hot
    <2>1. seq \in Nat /\ eid' = [eid EXCEPT ![j] = seq + 1] /\ pc' = [pc EXCEPT ![j] = "inserted"]
      BY <1>2 DEF Insert, Goto, TypeOK
    <2>2. \A i \in Ingests : pc'[i] = "stored" => i # j /\ pc[i] = "stored" /\ eid'[i] = eid[i]
      BY <2>1 DEF TypeOK
    <2>3. \A k \in Ingests : pc'[k] = "inserted" =>
            \/ k = j /\ eid'[k] = seq + 1
            \/ pc[k] = "inserted" /\ eid'[k] = eid[k]
      BY <2>1 DEF TypeOK
    <2>4. OrderInv'
      BY <1>0, <2>1, <2>2, <2>3 DEF OrderInv
    <2> QED BY <1>2, <2>4 DEF Insert, tableVars
  <1>3. ASSUME NEW j \in Ingests, CommitIngest(j)
        PROVE  /\ OrderInv' /\ hot' = hot \cup {j} /\ UNCHANGED streamVars
               /\ \A i \in Ingests : pc[i] = "stored" => eid'[i] < eid'[j]
    <2>1. /\ pc[j] = "inserted" /\ pc' = [pc EXCEPT ![j] = "stored"]
          /\ hot' = hot \cup {j} /\ eid' = eid /\ UNCHANGED streamVars
      BY <1>3 DEF CommitIngest, Goto
    <2>2. j \notin hot
      BY <2>1 DEF EventsConserved
    <2>3. \A k \in Ingests : pc[k] = "inserted" /\ k # j => eid[j] < eid[k]
      <3>1. \A k \in Ingests : pc[k] = "inserted" => eid[j] <= eid[k]
        BY <2>1, <2>2 DEF CommitsInOrder
      <3>2. \A k \in Ingests : pc[k] = "inserted" /\ k # j => eid[j] # eid[k]
        BY <2>1 DEF IdInv
      <3> QED BY <1>0, <3>1, <3>2
    <2>4. OrderInv'
      BY <2>1, <2>3 DEF OrderInv, TypeOK
    <2> QED BY <2>1, <2>4 DEF OrderInv
  <1>4. ASSUME NEW u \in Users, GdprStep(u)
        PROVE  OrderInv' /\ hot' = hot
    BY <1>4 DEF GdprStep, OptOut, RemoveOptOut, OrderInv, logVars, tableVars
  <1>5. ASSUME NEW a \in Admins, AdminStep(a)
        PROVE  OrderInv' /\ hot' \subseteq hot
    BY <1>5 DEF AdminStep, ForgetEvents, ForgetOptOut, CommitForget, ArchiveEvents,
                CommitArchive, RollbackJob, OrderInv, logVars, tableVars
  <1>6. ASSUME NEW p \in Pages, PageStep(p)
        PROVE  OrderInv' /\ hot' = hot
    BY <1>6 DEF PageStep, Connect, Poll, Send, Disconnect, OrderInv, logVars, tableVars
  <1> QED BY <1>1, <1>2, <1>3, <1>4, <1>5, <1>6 DEF Next, IngestStep

\* A cursor stays on an event that was committed.
LEMMA CursorStep ==
    ASSUME IInv, CursorInv, Next
    PROVE  CursorInv'
  <1> USE DEF IInv
  <1>1. CASE ~ \E q \in Pages : PageStep(q)
    BY <1>1, OthersKeep DEF CursorInv, streamVars
  <1>2. ASSUME NEW q \in Pages, PageStep(q)
        PROVE  CursorInv'
    <2>1. /\ pc' = pc /\ eid' = eid /\ live \subseteq Pages
          /\ \A i \in hot \cup buffer[q] : i \in Ingests /\ pc[i] = "stored"
      BY <1>2 DEF PageStep, Connect, Poll, Send, Disconnect, logVars, TypeOK,
                  EventsConserved, StreamInv
    <2>2. \A p \in Pages : p # q => cursor'[p] = cursor[p] /\ (p \in live' => p \in live)
      BY <1>2 DEF PageStep, Connect, Poll, Send, Disconnect, TypeOK
    <2>3. q \in live' => cursor'[q] = 0 \/ \E j \in Ingests : pc[j] = "stored" /\ eid[j] = cursor'[q]
      <3>1. CASE Connect(q)
        <4>1. PICK k \in {0} \cup {eid[i] : i \in Newest(hot, Replay)} :
                cursor' = [cursor EXCEPT ![q] = k]
          BY <3>1 DEF Connect
        <4> QED BY <2>1, <4>1 DEF Newest, TypeOK
      <3>2. CASE Poll(q) \/ Disconnect(q)
        BY <3>2 DEF Poll, Disconnect, CursorInv
      <3>3. CASE Send(q)
        <4>1. PICK i \in buffer[q] : cursor' = [cursor EXCEPT ![q] = IF eid[i] > @ THEN eid[i] ELSE @]
          BY <3>3 DEF Send
        <4>2. q \in live /\ cursor'[q] \in {cursor[q], eid[i]}
          BY <3>3, <4>1 DEF Send, TypeOK
        <4> QED BY <2>1, <4>2 DEF CursorInv
      <3> QED BY <1>2, <3>1, <3>2, <3>3 DEF PageStep
    <2>4. live' \subseteq Pages
      BY <1>2 DEF PageStep, Connect, Poll, Send, Disconnect, TypeOK
    <2> QED BY <2>1, <2>2, <2>3, <2>4 DEF CursorInv
  <1> QED BY <1>1, <1>2

\* An event committed during a connection starts out on its way, and stays so.
LEMMA SentStep ==
    ASSUME IInv, OrderedInv, CommitsInOrder, Next
    PROVE  SentOrOnItsWay'
  <1> USE DEF OrderedInv
  <1> SUFFICES ASSUME NEW p \in live', NEW i \in hot' \ before'[p]
               PROVE  i \in sent'[p] \/ OnItsWay(p, i)'
    BY DEF SentOrOnItsWay
  <1>1. CASE i \notin hot
    <2>1. /\ i \in Ingests /\ UNCHANGED streamVars
          /\ \A j \in Ingests : pc[j] = "stored" => eid'[j] < eid'[i]
      BY <1>1, OrderStep
    <2>2. p \in live /\ p \in Pages
      BY <2>1 DEF streamVars, IInv, TypeOK
    <2>3. \A j \in buffer'[p] : eid'[j] < eid'[i]
      BY <2>1, <2>2 DEF streamVars, IInv, TypeOK, StreamInv
    <2>4. eid'[i] > cursor'[p]
      <3>1. eid'[i] \in Nat /\ eid'[i] > 0
        <4>1. IInv'
          BY NextIInv
        <4>2. pc'[i] = "stored"
          BY <2>1, <4>1 DEF IInv, EventsConserved
        <4> QED BY <2>1, <4>1, <4>2 DEF IInv, IdInv, TypeOK
      <3>2. ASSUME NEW j \in Ingests, pc[j] = "stored", eid[j] = cursor[p]
            PROVE  eid'[j] = eid[j]
        <4>1. ~ \E q \in Pages : PageStep(q)
          BY <1>1 DEF PageStep, Connect, Poll, Send, Disconnect, tableVars
        <4> QED BY <3>2, <4>1, OthersKeep
      <3> QED BY <2>1, <2>2, <3>1, <3>2 DEF CursorInv, streamVars
    <2> QED BY <2>3, <2>4 DEF OnItsWay
  <1>2. CASE i \in hot
    <2>1. CASE p \notin live
      <3>1. \E q \in Pages : PageStep(q)
        BY <2>1, OthersKeep DEF streamVars
      <3>2. p \in Pages /\ Connect(p)
        BY <2>1, <3>1 DEF PageStep, Connect, Poll, Send, Disconnect
      <3>3. before'[p] = hot /\ hot' = hot
        BY <3>2 DEF Connect, tableVars, IInv, TypeOK
      <3> QED BY <3>3
    <2>2. CASE p \in live
      <3>1. before'[p] = before[p] /\ sent[p] \subseteq sent'[p]
        <4>1. CASE ~ \E q \in Pages : PageStep(q)
          BY <4>1, OthersKeep DEF streamVars
        <4>2. ASSUME NEW q \in Pages, PageStep(q)
              PROVE  before'[p] = before[p] /\ sent[p] \subseteq sent'[p]
          BY <2>2, <4>2 DEF PageStep, Connect, Poll, Send, Disconnect, IInv, TypeOK
        <4> QED BY <4>1, <4>2
      <3>2. i \in sent[p] \/ OnItsWay(p, i)
        BY <1>2, <2>2, <3>1 DEF SentOrOnItsWay
      <3> QED BY <1>2, <2>2, <3>1, <3>2, KeepsOnItsWay
    <2> QED BY <2>1, <2>2
  <1> QED BY <1>1, <1>2

\* The skipped event of the finding has one cause only: a transaction that commits
\* after one with a higher id.  Where ids are committed in order, no stream passes
\* over an event committed while it is open, whatever else happens.
THEOREM SkipsOnlyOutOfOrder ==
    Spec /\ [][CommitsInOrder]_vars => []NothingSkipped
  <1>1. IInv /\ OrderedInv /\ [Next]_vars /\ [CommitsInOrder]_vars => OrderedInv'
    <2> SUFFICES ASSUME IInv, OrderedInv, [Next]_vars, [CommitsInOrder]_vars PROVE OrderedInv'
      OBVIOUS
    <2>1. CASE UNCHANGED vars
      BY <2>1 DEF OrderedInv, OrderInv, CursorInv, SentOrOnItsWay, OnItsWay,
                  vars, logVars, tableVars, streamVars
    <2>2. CASE Next /\ CommitsInOrder
      BY <2>2, OrderStep, CursorStep, SentStep DEF OrderedInv
    <2> QED BY <2>1, <2>2
  <1>2. IInv /\ OrderedInv => NothingSkipped
    BY DEF IInv, TypeOK, OrderedInv, SentOrOnItsWay, OnItsWay, NothingSkipped
  <1> QED BY <1>1, <1>2, InitOrdered, Invariance, PTL DEF Spec
=============================================================================
