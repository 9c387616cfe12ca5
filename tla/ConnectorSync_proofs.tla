----------------------- MODULE ConnectorSync_proofs -----------------------
(***************************************************************************)
(* Theorems about ConnectorSync for any connectors, syncs, files, orders   *)
(* and crashes.                                                            *)
(***************************************************************************)
EXTENDS ConnectorSync, TLAPS

\* How the place a task stands in bounds the status of its run: a task that has
\* not begun has no run, one between steps 1 and 5 has one, and while the run
\* is young nobody but the task itself can have given it a verdict.
PhaseInv ==
    \A t \in Syncs :
        /\ pc[t] \in {"idle", "created"} => run[t] = "none" /\ t \notin orphans
        /\ pc[t] \in {"fetch", "upsert", "mark", "failing", "blaming"} => run[t] # "none"
        /\ t \in orphans => run[t] # "none" /\ old[t]
        /\ run[t] = "running" => pc[t] \notin {"idle", "created", "blaming", "done"}
        /\ pc[t] \in {"fetch", "upsert", "mark", "failing"} /\ ~old[t]
             => run[t] \in {"running", "deleted"}

\* A sync lands only after it fetched a file, and success comes after landing.
LandInv ==
    \A t \in Syncs :
        /\ run[t] = "success" => t \in landed
        /\ pc[t] = "mark" => t \in landed
        /\ pc[t] = "upsert" => file[t] \in Files
        /\ t \in landed =>
             file[t] \in Files /\ pc[t] \notin {"idle", "created", "fetch", "upsert"}

IInv == TypeOK /\ PhaseInv /\ LandInv /\ NothingOfDeleted /\ OrdersIdempotent

----------------------------------------------------------------------------
\* The upsert keeps the table a table of orders, keeps the order id
\* a key, loses no order, and stores every order of the file.
LEMMA UpsertFacts ==
    ASSUME NEW table \in SUBSET [id : OrderIds, by : Syncs],
           NEW ids \in SUBSET OrderIds, NEW t \in Syncs,
           \A r1, r2 \in table : r1.id = r2.id => r1 = r2
    PROVE  /\ UpsertOrders(table, ids, t) \subseteq [id : OrderIds, by : Syncs]
           /\ \A r1, r2 \in UpsertOrders(table, ids, t) : r1.id = r2.id => r1 = r2
           /\ {row.id : row \in table} \subseteq {row.id : row \in UpsertOrders(table, ids, t)}
           /\ ids \subseteq {row.id : row \in UpsertOrders(table, ids, t)}
  <1> DEFINE new == [id : ids, by : {t}]
  <1>1. UpsertOrders(table, ids, t) \subseteq [id : OrderIds, by : Syncs]
    BY DEF UpsertOrders
  <1>2. \A r1, r2 \in UpsertOrders(table, ids, t) : r1.id = r2.id => r1 = r2
    <2> SUFFICES ASSUME NEW r1 \in UpsertOrders(table, ids, t),
                        NEW r2 \in UpsertOrders(table, ids, t),
                        r1.id = r2.id
                 PROVE  r1 = r2
      OBVIOUS
    <2>1. CASE r1 \in new /\ r2 \in new
      BY <2>1
    <2>2. CASE r1 \notin new /\ r2 \notin new
      BY <2>2 DEF UpsertOrders
    <2>3. CASE (r1 \in new) # (r2 \in new)
      BY <2>3 DEF UpsertOrders
    <2> QED BY <2>1, <2>2, <2>3
  <1>3. \A i \in ids : \E row \in UpsertOrders(table, ids, t) : row.id = i
    <2> TAKE i \in ids
    <2>1. [id |-> i, by |-> t] \in UpsertOrders(table, ids, t)
      BY DEF UpsertOrders
    <2> QED BY <2>1
  <1>4. \A old_ \in table : \E row \in UpsertOrders(table, ids, t) : row.id = old_.id
    BY <1>3 DEF UpsertOrders
  <1> QED BY <1>1, <1>2, <1>3, <1>4

----------------------------------------------------------------------------
\* The connectors are created with no run, no task and empty tables.
LEMMA InitIInv == Init => IInv
  <1> SUFFICES ASSUME Init PROVE IInv
    OBVIOUS
  <1>1. TypeOK
    BY ConstantsAssumption
    DEF Init, TypeOK, Config, Target, NewConfig, RunState, LivePC, FinalPC
  <1>2. PhaseInv /\ LandInv
    BY DEF Init, PhaseInv, LandInv
  <1>3. NothingOfDeleted /\ OrdersIdempotent
    BY DEF Init, NothingOfDeleted, OrdersIdempotent, Verdicts
  <1> QED BY <1>1, <1>2, <1>3 DEF IInv

\* Steps that leave tasks, runs and tables alone keep what is said of them, as
\* long as no connector disappears.
LEMMA DataUntouched ==
    ASSUME IInv, TypeOK', UNCHANGED <<taskVars, runVars, dataVars, orphans>>,
           \A c \in Connectors : Exists(c) => Exists(c)'
    PROVE  IInv'
  <1>1. PhaseInv' /\ LandInv'
    BY DEF IInv, PhaseInv, LandInv, taskVars, runVars, dataVars
  <1>2. NothingOfDeleted'
    BY DEF IInv, TypeOK, NothingOfDeleted, Exists, taskVars, runVars, dataVars
  <1>3. OrdersIdempotent'
    BY DEF IInv, OrdersIdempotent, taskVars, runVars, dataVars
  <1> QED BY <1>1, <1>2, <1>3 DEF IInv

\* What the requests do to the connector row alone.
LEMMA RowRequests ==
    ASSUME IInv, NEW c \in Connectors,
           \/ \E s \in {"active", "paused", "error"} : PatchStatus(c, s)
           \/ PatchInterval(c)
           \/ \E target \in Target : CreateConnector(c, target)
           \/ \E target \in Target : PatchConfig(c, target)
           \/ UploadRead(c)
           \/ IntervalElapses(c)
    PROVE  IInv'
  <1> USE DEF PatchStatus, PatchInterval, CreateConnector, PatchConfig,
              UploadRead, IntervalElapses
  <1>1. UNCHANGED <<taskVars, runVars, dataVars, procVars>>
    OBVIOUS
  <1>2. \A target \in Target : [target |-> target, blob |-> NoFile] \in Config
    BY DEF Config
  <1>3. status' \in [Connectors -> {"absent", "active", "paused", "error", "deleted"}]
    BY DEF IInv, TypeOK
  <1>4. lastSync' \in [Connectors -> {"never", "stale", "fresh"}]
    BY DEF IInv, TypeOK
  <1>5. config' \in [Connectors -> Config]
    BY <1>2 DEF IInv, TypeOK
  <1>6. upload' \in [Connectors -> Config \cup {NoConfig}]
    BY DEF IInv, TypeOK
  <1>7. TypeOK'
    BY <1>1, <1>3, <1>4, <1>5, <1>6
    DEF IInv, TypeOK, taskVars, runVars, dataVars, procVars
  <1>8. \A d \in Connectors : Exists(d) => Exists(d)'
    BY DEF IInv, TypeOK, Exists
  <1> QED BY <1>1, <1>7, <1>8, DataUntouched DEF procVars

\* DELETE removes exactly what refers to the connector by a foreign key.
LEMMA DeleteStep ==
    ASSUME IInv, NEW c \in Connectors, DeleteConnector(c)
    PROVE  IInv'
  <1> USE DEF IInv, DeleteConnector, taskVars, procVars
  <1>1. TypeOK'
    BY DEF TypeOK, RunState
  <1>2. PhaseInv' /\ LandInv'
    BY DEF TypeOK, PhaseInv, LandInv
  <1>3. NothingOfDeleted'
    BY DEF TypeOK, NothingOfDeleted, Exists, Verdicts
  <1>4. OrdersIdempotent'
    BY DEF OrdersIdempotent
  <1> QED BY <1>1, <1>2, <1>3, <1>4

\* A new task takes a name that has no run and no landed rows.
LEMMA SpawnStep ==
    ASSUME IInv, NEW t \in Syncs, NEW c \in Connectors, NEW p \in {"app", "scheduler"},
           NEW cfg \in Config, Spawn(t, c, p, cfg),
           config' \in [Connectors -> Config], upload' \in [Connectors -> Config \cup {NoConfig}],
           UNCHANGED <<status, lastSync, runVars, dataVars, procVars>>
    PROVE  IInv'
  <1> USE DEF IInv, Spawn, runVars, dataVars, procVars
  <1>1. TypeOK'
    BY DEF TypeOK, LivePC
  <1>2. PhaseInv' /\ LandInv'
    BY DEF TypeOK, PhaseInv, LandInv
  <1>3. NothingOfDeleted'
    BY DEF TypeOK, PhaseInv, NothingOfDeleted, Exists, Verdicts
  <1>4. OrdersIdempotent'
    BY DEF TypeOK, LandInv, OrdersIdempotent
  <1> QED BY <1>1, <1>2, <1>3, <1>4

LEMMA TriggerStep ==
    ASSUME IInv, NEW t \in Syncs, NEW c \in Connectors, TriggerSync(t, c)
    PROVE  IInv'
  <1>1. config[c] \in Config /\ config' \in [Connectors -> Config]
        /\ upload' \in [Connectors -> Config \cup {NoConfig}]
    BY DEF IInv, TypeOK, TriggerSync, connVars
  <1> QED BY <1>1, SpawnStep DEF TriggerSync, connVars

LEMMA UploadStep ==
    ASSUME IInv, NEW t \in Syncs, NEW c \in Connectors, NEW f \in Files,
           UploadWrite(t, c, f)
    PROVE  IInv'
  <1> DEFINE cfg == [upload[c] EXCEPT !.blob = f]
  <1>1. upload[c] \in Config
    BY DEF IInv, TypeOK, UploadWrite
  <1>2. cfg \in Config
    BY <1>1 DEF Config
  <1>3. upload' \in [Connectors -> Config \cup {NoConfig}]
    BY DEF IInv, TypeOK, UploadWrite
  <1> HIDE DEF cfg
  <1>4. CASE Exists(c)
    <2>1. config' \in [Connectors -> Config] /\ Spawn(t, c, "app", cfg)
      BY <1>2, <1>4 DEF IInv, TypeOK, UploadWrite, cfg
    <2> QED BY <1>2, <1>3, <2>1, SpawnStep DEF UploadWrite
  <1>5. CASE ~Exists(c)
    <2>1. UNCHANGED <<status, lastSync, config, taskVars, runVars, dataVars, procVars>>
      BY <1>5 DEF UploadWrite
    <2>2. TypeOK'
      BY <1>3, <2>1 DEF IInv, TypeOK, taskVars, runVars, dataVars, procVars
    <2> QED BY <2>1, <2>2, DataUntouched DEF Exists, procVars
  <1> QED BY <1>4, <1>5

----------------------------------------------------------------------------
(* The steps of a sync task *)

LEMMA BeginStep ==
    ASSUME IInv, NEW t \in Syncs, BeginRun(t)
    PROVE  IInv'
  <1> USE DEF IInv, BeginRun, Goto, connVars, dataVars, procVars
  <1>1. TypeOK'
    BY DEF TypeOK, LivePC, FinalPC, RunState
  <1>2. PhaseInv' /\ LandInv'
    BY DEF TypeOK, PhaseInv, LandInv
  <1>3. NothingOfDeleted'
    BY DEF TypeOK, NothingOfDeleted, Exists, Verdicts
  <1>4. OrdersIdempotent'
    BY DEF OrdersIdempotent
  <1> QED BY <1>1, <1>2, <1>3, <1>4

LEMMA FetchStep ==
    ASSUME IInv, NEW t \in Syncs, Fetch(t)
    PROVE  IInv'
  <1> USE DEF IInv, Fetch, Goto, connVars, runVars, dataVars, procVars
  <1>1. TypeOK'
    BY DEF TypeOK, LivePC
  <1>2. PhaseInv' /\ LandInv'
    BY DEF TypeOK, PhaseInv, LandInv
  <1>3. NothingOfDeleted'
    BY DEF TypeOK, NothingOfDeleted, Exists, Verdicts
  <1>4. OrdersIdempotent'
    <2>1. \A u \in landed : file'[u] = file[u] /\ snap'[u] = snap[u]
      BY DEF TypeOK, LandInv
    <2>2. orders' = orders /\ landed' = landed
      OBVIOUS
    <2> QED BY <2>1, <2>2 DEF OrdersIdempotent
  <1> QED BY <1>1, <1>2, <1>3, <1>4

\* The one step that writes the tables; UpsertFacts says what the upsert does.
LEMMA CommitStep ==
    ASSUME IInv, NEW t \in Syncs, CommitRows(t)
    PROVE  IInv'
  <1> USE DEF IInv, CommitRows, Goto, runVars, procVars
  <1>1. /\ of[t] \in Connectors
        /\ file[t] \in Files
        /\ t \notin landed
    BY DEF TypeOK, LandInv
  <1>2. /\ status' \in [Connectors -> {"absent", "active", "paused", "error", "deleted"}]
        /\ lastSync' \in [Connectors -> {"never", "stale", "fresh"}]
        /\ \A c \in Connectors : Exists(c) => Exists(c)'
    BY <1>1 DEF TypeOK, Updated, Exists
  <1>3. /\ orders' \subseteq [id : OrderIds, by : Syncs]
        /\ \A r1, r2 \in orders' : r1.id = r2.id => r1 = r2
        /\ {row.id : row \in orders} \subseteq {row.id : row \in orders'}
        /\ snap[t].target = "orders" =>
             Content[file[t]] \subseteq {row.id : row \in orders'}
    <2>1. CASE snap[t].target = "orders"
      <3>1. orders' = UpsertOrders(orders, Content[file[t]], t)
        BY <2>1
      <3>2. Content[file[t]] \in SUBSET OrderIds
        BY <1>1, ConstantsAssumption DEF ConstantsAssumption
      <3> QED BY <3>1, <3>2, UpsertFacts DEF TypeOK, OrdersIdempotent
    <2>2. CASE snap[t].target # "orders"
      BY <2>2 DEF TypeOK, OrdersIdempotent
    <2> QED BY <2>1, <2>2
  <1>4. TypeOK'
    BY <1>1, <1>2, <1>3 DEF TypeOK, LivePC
  <1>5. PhaseInv' /\ LandInv'
    BY <1>1 DEF TypeOK, PhaseInv, LandInv
  <1>6. NothingOfDeleted'
    <2>1. \A row \in custom' : Exists(row[1])'
      BY <1>1, <1>2 DEF TypeOK, NothingOfDeleted
    <2> QED BY <1>2, <2>1 DEF TypeOK, NothingOfDeleted, Verdicts
  <1>7. OrdersIdempotent'
    BY <1>1, <1>3 DEF OrdersIdempotent
  <1> QED BY <1>4, <1>5, <1>6, <1>7

\* The steps that only give the run a verdict, or record a failure.
LEMMA VerdictStep ==
    ASSUME IInv, NEW t \in Syncs, CommitFails(t) \/ MarkSuccess(t) \/ MarkFailed(t)
    PROVE  IInv'
  <1> USE DEF IInv, CommitFails, MarkSuccess, MarkFailed, RunSet, Goto, connVars,
              runVars, dataVars, procVars
  <1>1. TypeOK'
    BY DEF TypeOK, LivePC, FinalPC, RunState
  <1>2. PhaseInv'
    BY DEF TypeOK, PhaseInv
  <1>3. LandInv'
    BY DEF TypeOK, LandInv
  <1>4. NothingOfDeleted'
    BY DEF TypeOK, PhaseInv, NothingOfDeleted, Exists, Verdicts, RunState
  <1>5. OrdersIdempotent'
    BY DEF OrdersIdempotent
  <1> QED BY <1>1, <1>2, <1>3, <1>4, <1>5

LEMMA ErrorStep ==
    ASSUME IInv, NEW t \in Syncs, MarkConnectorError(t)
    PROVE  IInv'
  <1> USE DEF IInv, MarkConnectorError, Goto, runVars, dataVars, procVars
  <1>1. /\ status' \in [Connectors -> {"absent", "active", "paused", "error", "deleted"}]
        /\ \A c \in Connectors : Exists(c) => Exists(c)'
    BY DEF TypeOK, Updated, Exists
  <1>2. TypeOK'
    BY <1>1 DEF TypeOK, LivePC, FinalPC
  <1>3. PhaseInv' /\ LandInv'
    BY DEF TypeOK, PhaseInv, LandInv
  <1>4. NothingOfDeleted'
    BY <1>1 DEF TypeOK, NothingOfDeleted
  <1>5. OrdersIdempotent'
    BY DEF OrdersIdempotent
  <1> QED BY <1>2, <1>3, <1>4, <1>5

----------------------------------------------------------------------------
(* The steps of the scheduler, crashes and time *)

\* The tasks a poll creates take names that have no run and no landed rows.
LEMMA PollStep ==
    ASSUME IInv, ConnectorPoll
    PROVE  IInv'
  <1> USE DEF IInv, ConnectorPoll, connVars, runVars, dataVars, procVars
  <1>1. PICK S \in SUBSET Idle : \E g \in Bijection(S, Due) :
          /\ pc' = [t \in Syncs |-> IF t \in S THEN "created" ELSE pc[t]]
          /\ of' = [t \in Syncs |-> IF t \in S THEN g[t] ELSE of[t]]
          /\ proc' = [t \in Syncs |-> IF t \in S THEN "scheduler" ELSE proc[t]]
          /\ snap' = [t \in Syncs |-> IF t \in S THEN config[g[t]] ELSE snap[t]]
    OBVIOUS
  <1>2. PICK g \in Bijection(S, Due) :
          /\ pc' = [t \in Syncs |-> IF t \in S THEN "created" ELSE pc[t]]
          /\ of' = [t \in Syncs |-> IF t \in S THEN g[t] ELSE of[t]]
          /\ proc' = [t \in Syncs |-> IF t \in S THEN "scheduler" ELSE proc[t]]
          /\ snap' = [t \in Syncs |-> IF t \in S THEN config[g[t]] ELSE snap[t]]
    BY <1>1
  <1>3. \A t \in S : t \in Syncs /\ pc[t] = "idle" /\ g[t] \in Connectors
    BY DEF Idle, Due, Bijection, Injection, Surjection
  <1>4. TypeOK'
    BY <1>2, <1>3 DEF TypeOK, LivePC
  <1>5. PhaseInv'
    BY <1>2, <1>3 DEF TypeOK, PhaseInv
  <1>6. LandInv'
    BY <1>2, <1>3 DEF TypeOK, LandInv
  <1>7. NothingOfDeleted'
    BY <1>2, <1>3 DEF TypeOK, PhaseInv, NothingOfDeleted, Exists, Verdicts
  <1>8. OrdersIdempotent'
    BY <1>2, <1>3 DEF TypeOK, LandInv, OrdersIdempotent
  <1> QED BY <1>4, <1>5, <1>6, <1>7, <1>8

\* Recovery selects runs that are running and old, and fails them one by one.
LEMMA RecoveryStep ==
    ASSUME IInv,
           SchedulerStart \/ SchedulerReady \/ \E t \in Syncs : RecoverRun(t)
    PROVE  IInv'
  <1> USE DEF IInv, taskVars, connVars, dataVars
  <1>1. CASE SchedulerStart
    <2> USE <1>1 DEF SchedulerStart, runVars
    <2>1. TypeOK' /\ PhaseInv' /\ LandInv'
      BY DEF TypeOK, PhaseInv, LandInv
    <2>2. NothingOfDeleted' /\ OrdersIdempotent'
      BY DEF NothingOfDeleted, Exists, OrdersIdempotent
    <2> QED BY <2>1, <2>2
  <1>2. CASE SchedulerReady
    <2> USE <1>2 DEF SchedulerReady, runVars
    <2>1. TypeOK' /\ PhaseInv' /\ LandInv'
      BY DEF TypeOK, PhaseInv, LandInv
    <2>2. NothingOfDeleted' /\ OrdersIdempotent'
      BY DEF NothingOfDeleted, Exists, OrdersIdempotent
    <2> QED BY <2>1, <2>2
  <1>3. ASSUME NEW t \in Syncs, RecoverRun(t) PROVE IInv'
    <2> USE <1>3 DEF RecoverRun, RunSet
    <2>1. /\ status' \in [Connectors -> {"absent", "active", "paused", "error", "deleted"}]
          /\ \A c \in Connectors : Exists(c) => Exists(c)'
      BY DEF TypeOK, Updated, Exists
    <2>2. TypeOK'
      BY <2>1 DEF TypeOK, RunState
    <2>3. PhaseInv' /\ LandInv'
      BY DEF TypeOK, PhaseInv, LandInv
    <2>4. NothingOfDeleted'
      BY <2>1 DEF TypeOK, PhaseInv, NothingOfDeleted, Verdicts, RunState
    <2>5. OrdersIdempotent'
      BY DEF OrdersIdempotent
    <2> QED BY <2>2, <2>3, <2>4, <2>5
  <1> QED BY <1>1, <1>2, <1>3

\* A crash kills tasks and recovery where they are, and touches no table.
LEMMA CrashStep ==
    ASSUME IInv, NEW p \in {"app", "scheduler"}, Crash(p)
    PROVE  IInv'
  <1> USE DEF IInv, Crash, runVars, dataVars
  <1>1. TypeOK'
    BY DEF TypeOK, FinalPC
  <1>2. PhaseInv' /\ LandInv'
    BY DEF TypeOK, PhaseInv, LandInv, LivePC
  <1>3. NothingOfDeleted' /\ OrdersIdempotent'
    BY DEF NothingOfDeleted, Exists, OrdersIdempotent
  <1> QED BY <1>1, <1>2, <1>3

LEMMA AgeStep ==
    ASSUME IInv, NEW t \in Syncs, RunAges(t)
    PROVE  IInv'
  <1> USE DEF IInv, RunAges, connVars, taskVars, dataVars, procVars
  <1>1. TypeOK' /\ PhaseInv' /\ LandInv'
    BY DEF TypeOK, PhaseInv, LandInv
  <1>2. NothingOfDeleted' /\ OrdersIdempotent'
    BY DEF NothingOfDeleted, Exists, OrdersIdempotent
  <1> QED BY <1>1, <1>2

\* A task that stalls writes nothing.
LEMMA StallStep ==
    ASSUME IInv, NEW t \in Syncs, Stall(t)
    PROVE  IInv'
  <1> USE DEF IInv, Stall, Goto, connVars, runVars, dataVars, procVars
  <1>1. TypeOK'
    BY DEF TypeOK, FinalPC
  <1>2. PhaseInv' /\ LandInv'
    BY DEF TypeOK, PhaseInv, LandInv, LivePC
  <1>3. NothingOfDeleted' /\ OrdersIdempotent'
    BY DEF NothingOfDeleted, Exists, OrdersIdempotent
  <1> QED BY <1>1, <1>2, <1>3

LEMMA RetireStep ==
    ASSUME IInv, NEW t \in Syncs, Retire(t)
    PROVE  IInv'
  <1> USE DEF IInv, Retire, connVars, procVars
  <1>1. TypeOK'
    BY DEF TypeOK, RunState, NewConfig, Config, Target
  <1>2. PhaseInv' /\ LandInv'
    BY DEF TypeOK, PhaseInv, LandInv
  <1>3. NothingOfDeleted'
    BY DEF TypeOK, NothingOfDeleted, Exists, Verdicts
  <1>4. OrdersIdempotent'
    BY DEF TypeOK, OrdersIdempotent
  <1> QED BY <1>1, <1>2, <1>3, <1>4

----------------------------------------------------------------------------
\* Every step of the system keeps the invariant.
LEMMA NextIInv == IInv /\ [Next]_vars => IInv'
  <1> SUFFICES ASSUME IInv, [Next]_vars PROVE IInv'
    OBVIOUS
  <1>1. CASE UserStep
    BY <1>1, RowRequests, DeleteStep, TriggerStep, UploadStep DEF UserStep
  <1>2. ASSUME NEW t \in Syncs, SyncStep(t) PROVE IInv'
    BY <1>2, BeginStep, FetchStep, CommitStep, VerdictStep, ErrorStep DEF SyncStep
  <1>3. CASE SchedulerStep
    BY <1>3, PollStep, RecoveryStep DEF SchedulerStep
  <1>4. CASE SystemStep
    BY <1>2, <1>3, <1>4, AgeStep, StallStep, RetireStep, CrashStep, RowRequests DEF SystemStep
  <1>5. CASE UNCHANGED vars
    <2> USE <1>5 DEF vars, connVars, taskVars, runVars, dataVars, procVars
    <2>1. TypeOK' /\ PhaseInv' /\ LandInv'
      BY DEF IInv, TypeOK, PhaseInv, LandInv
    <2>2. NothingOfDeleted' /\ OrdersIdempotent'
      BY DEF IInv, NothingOfDeleted, Exists, OrdersIdempotent
    <2> QED BY <2>1, <2>2 DEF IInv
  <1> QED BY <1>1, <1>4, <1>5 DEF Next

THEOREM Invariance == Spec => []IInv
  BY InitIInv, NextIInv, PTL DEF Spec

\* Every variable keeps its type.
THEOREM TypeCorrect == Spec => []TypeOK
  <1>1. IInv => TypeOK
    BY DEF IInv
  <1> QED BY <1>1, Invariance, PTL

\* A run is only ever called a success if its transaction committed.
THEOREM SuccessIsLanded == Spec => []SuccessMeansLanded
  <1>1. IInv => SuccessMeansLanded
    BY DEF IInv, LandInv, SuccessMeansLanded
  <1> QED BY <1>1, Invariance, PTL

\* A sync that came to its end left no run 'running'.
THEOREM EndedRunsSettled == Spec => []NoRunLeftRunning
  <1>1. IInv => NoRunLeftRunning
    BY DEF IInv, PhaseInv, NoRunLeftRunning
  <1> QED BY <1>1, Invariance, PTL

\* Deletes racing with syncs leave no custom row and no run behind.
THEOREM ReferentialIntegrity == Spec => []NothingOfDeleted
  <1>1. IInv => NothingOfDeleted
    BY DEF IInv
  <1> QED BY <1>1, Invariance, PTL

\* Overlapping and repeated syncs keep order ids unique and lose no order.
THEOREM OrdersStayIdempotent == Spec => []OrdersIdempotent
  <1>1. IInv => OrdersIdempotent
    BY DEF IInv
  <1> QED BY <1>1, Invariance, PTL

\* The verdict on a run that recovery may not touch is final.
THEOREM YoungVerdicts == Spec => YoungVerdictFinal
  <1> DEFINE Final == \A t \in Syncs : run[t] \in Verdicts /\ ~old[t] =>
                        run'[t] \in {run[t], "deleted", "none"}
  <1>1. IInv /\ [Next]_vars => [Final]_vars
    <2> SUFFICES ASSUME IInv, Next PROVE Final
      OBVIOUS
    <2> USE DEF IInv, TypeOK
    <2>1. CASE UserStep
      BY <2>1 DEF UserStep, PatchStatus, PatchInterval, CreateConnector, PatchConfig,
         DeleteConnector, UploadRead, TriggerSync, UploadWrite, runVars
    <2>2. ASSUME NEW t \in Syncs, SyncStep(t) PROVE Final
      BY <2>2 DEF SyncStep, BeginRun, Fetch, CommitRows, CommitFails, MarkSuccess,
         MarkFailed, MarkConnectorError, RunSet, PhaseInv, Verdicts, runVars
    <2>3. CASE SchedulerStep
      BY <2>3 DEF SchedulerStep, ConnectorPoll, SchedulerStart, RecoverRun, RunSet,
         SchedulerReady, PhaseInv, runVars
    <2>4. CASE SystemStep
      BY <2>2, <2>3, <2>4 DEF SystemStep, Stall, RunAges, Retire, Crash, IntervalElapses, runVars
    <2> QED BY <2>1, <2>4 DEF Next
  <1> QED BY <1>1, Invariance, PTL DEF Spec, YoungVerdictFinal

----------------------------------------------------------------------------
\* Users who do nothing are some of the users.
LEMMA QuietIsSpec == QuietSpec => Spec
  <1>1. [SystemStep]_vars => [Next]_vars
    BY DEF Next
  <1> QED BY <1>1, PTL DEF QuietSpec, Spec

\* A connector whose status changes while none of its syncs is alive and none of
\* its runs is under recovery was changed by its own user: syncs, recoveries and
\* deletes of other connectors never touch its row, because every UPDATE names
\* the connector of its own task.
THEOREM QuietUntouched == Spec => QuietConnectorUntouched
  <1> DEFINE ByItsUser(c) == \/ \E s \in {"active", "paused", "error"} : PatchStatus(c, s)
                             \/ \E target \in Target : CreateConnector(c, target)
                             \/ DeleteConnector(c)
             Quiet == \A c \in Connectors : ~Busy(c) /\ status'[c] # status[c] => ByItsUser(c)
  <1>1. ASSUME IInv, Next
        PROVE  Quiet
    <2> SUFFICES ASSUME NEW c \in Connectors, ~Busy(c), status'[c] # status[c]
                 PROVE  ByItsUser(c)
      OBVIOUS
    <2> USE DEF IInv, TypeOK
    <2>1. CASE UserStep
      <3>1. ASSUME NEW d \in Connectors,
                   \/ \E s \in {"active", "paused", "error"} : PatchStatus(d, s)
                   \/ \E target \in Target : CreateConnector(d, target)
                   \/ DeleteConnector(d)
            PROVE  d = c
        <4>1. PICK s : status' = [status EXCEPT ![d] = s]
          BY <3>1 DEF PatchStatus, CreateConnector, DeleteConnector
        <4> QED BY <4>1
      <3>2. \A d \in Connectors : /\ PatchInterval(d) => status' = status
                                  /\ \A target \in Target : PatchConfig(d, target) => status' = status
                                  /\ UploadRead(d) => status' = status
        BY DEF PatchInterval, PatchConfig, UploadRead
      <3>3. \A t \in Syncs, d \in Connectors :
                /\ TriggerSync(t, d) => status' = status
                /\ \A f \in Files : UploadWrite(t, d, f) => status' = status
        BY DEF TriggerSync, UploadWrite, connVars
      <3> QED BY <2>1, <3>1, <3>2, <3>3 DEF UserStep
    <2>2. ASSUME NEW t \in Syncs, SyncStep(t)
          PROVE  FALSE
      <3>1. of[t] # c
        BY <2>2 DEF SyncStep, BeginRun, Fetch, CommitRows, CommitFails, MarkSuccess, MarkFailed,
                    MarkConnectorError, Busy, LivePC
      <3>2. CASE CommitRows(t) \/ MarkConnectorError(t)
        <4>1. PICK s : status' = Updated(status, of[t], s) \/ status' = status
          <5>1. CASE CommitRows(t)
            BY <5>1 DEF CommitRows
          <5>2. CASE MarkConnectorError(t)
            BY <5>2 DEF MarkConnectorError
          <5> QED BY <3>2, <5>1, <5>2
        <4> QED BY <1>1, <3>1, <4>1 DEF Updated
      <3>3. CASE ~(CommitRows(t) \/ MarkConnectorError(t))
        BY <2>2, <3>3 DEF SyncStep, BeginRun, Fetch, CommitFails, MarkSuccess, MarkFailed, connVars
      <3> QED BY <3>2, <3>3
    <2>3. ASSUME NEW t \in Syncs, RecoverRun(t)
          PROVE  FALSE
      BY <2>3 DEF RecoverRun, Updated, Busy
    <2>4. CASE SystemStep
      BY <2>2, <2>3, <2>4 DEF SystemStep, SchedulerStep, ConnectorPoll, SchedulerStart,
                              SchedulerReady, Stall, RunAges, Retire, Crash, IntervalElapses, connVars
    <2> QED BY <1>1, <2>1, <2>4 DEF Next
  <1>2. IInv /\ [Next]_vars => [Quiet]_vars
    BY <1>1
  <1> QED BY <1>2, Invariance, PTL DEF Spec, QuietConnectorUntouched

\* The same under the specification the run checks.
COROLLARY QuietUntouchedQuietly == QuietSpec => QuietConnectorUntouched
  BY QuietUntouched, QuietIsSpec, PTL

----------------------------------------------------------------------------
\* How far a sync is.
Stage(place) ==
    CASE place = "idle" -> 0     [] place = "created" -> 1 [] place = "fetch" -> 2
      [] place = "upsert" -> 3   [] place = "mark" -> 4    [] place = "failing" -> 5
      [] place = "blaming" -> 6  [] OTHER -> 7

\* A step moves a sync on, leaves it, or frees its name when it is over.
MovesOn ==
    \A t \in Syncs : \/ pc'[t] = pc[t]
                     \/ Stage(pc[t]) < Stage(pc'[t])
                     \/ pc[t] \in FinalPC /\ pc'[t] = "idle"

LEMMA StageValues ==
    /\ Stage("idle") = 0 /\ Stage("created") = 1 /\ Stage("fetch") = 2
    /\ Stage("upsert") = 3 /\ Stage("mark") = 4 /\ Stage("failing") = 5
    /\ Stage("blaming") = 6
    /\ \A place \in FinalPC : Stage(place) = 7
    /\ \A place \in LivePC : Stage(place) < 7
  BY DEF Stage, FinalPC, LivePC

\* When one sync moves on, all do as they should.
LEMMA OneMoves ==
  ASSUME TypeOK, NEW t \in Syncs, NEW label, pc' = [pc EXCEPT ![t] = label],
         Stage(pc[t]) < Stage(label) \/ (pc[t] \in FinalPC /\ label = "idle")
  PROVE  MovesOn
  <1>1. \A u \in Syncs : u # t => pc'[u] = pc[u]
    BY DEF TypeOK
  <1>2. pc'[t] = label
    BY DEF TypeOK
  <1> QED BY <1>1, <1>2 DEF MovesOn

\* No sync goes back to a step it has done: there is no retry within a sync, and
\* each ends after at most six steps of its own, however polls, recoveries,
\* crashes and users come in between.  With the fairness of the event loop this is
\* why EverySyncEnds holds.
THEOREM SyncsMoveOn == Spec => [][MovesOn]_vars
  <1>1. ASSUME IInv, Next
        PROVE  MovesOn
    <2> USE DEF IInv
    <2>0. ASSUME pc' = pc
          PROVE  MovesOn
      BY <2>0 DEF MovesOn
    <2>1. CASE UserStep
      <3>1. ASSUME NEW t \in Syncs, NEW c \in Connectors, NEW p, NEW cfg, Spawn(t, c, p, cfg)
            PROVE  MovesOn
        <4>1. Stage(pc[t]) < Stage("created")
          BY <3>1, StageValues DEF Spawn
        <4>2. pc' = [pc EXCEPT ![t] = "created"]
          BY <3>1 DEF Spawn
        <4> QED BY <1>1, <4>1, <4>2, OneMoves
      <3>2. CASE \E t \in Syncs, c \in Connectors : TriggerSync(t, c)
        BY <3>1, <3>2 DEF TriggerSync
      <3>3. CASE \E t \in Syncs, c \in Connectors, f \in Files : UploadWrite(t, c, f)
        BY <2>0, <3>1, <3>3 DEF UploadWrite, taskVars
      <3>4. CASE \E c \in Connectors :
                   \/ \E s \in {"active", "paused", "error"} : PatchStatus(c, s)
                   \/ PatchInterval(c)
                   \/ \E target \in Target :
                        CreateConnector(c, target) \/ PatchConfig(c, target)
                   \/ DeleteConnector(c)
                   \/ UploadRead(c)
        BY <2>0, <3>4 DEF PatchStatus, PatchInterval, CreateConnector, PatchConfig,
                          DeleteConnector, UploadRead, taskVars
      <3> QED BY <2>1, <3>2, <3>3, <3>4 DEF UserStep
    <2>2. ASSUME NEW t \in Syncs, SyncStep(t)
          PROVE  MovesOn
      <3>1. ASSUME NEW label, Goto(t, label), Stage(pc[t]) < Stage(label)
            PROVE  MovesOn
        BY <1>1, <3>1, OneMoves DEF Goto
      <3>2. "aborted" \in FinalPC /\ "done" \in FinalPC
        BY DEF FinalPC
      <3> USE <3>1, <3>2, StageValues
      <3>3. CASE BeginRun(t)
        BY <3>3 DEF BeginRun
      <3>4. CASE Fetch(t)
        BY <3>4 DEF Fetch
      <3>5. CASE CommitRows(t)
        BY <3>5 DEF CommitRows
      <3>6. CASE CommitFails(t)
        BY <3>6 DEF CommitFails
      <3>7. CASE MarkSuccess(t)
        BY <3>7 DEF MarkSuccess
      <3>8. CASE MarkFailed(t)
        BY <3>8 DEF MarkFailed
      <3>9. CASE MarkConnectorError(t)
        BY <3>9 DEF MarkConnectorError
      <3> QED BY <2>2, <3>3, <3>4, <3>5, <3>6, <3>7, <3>8, <3>9 DEF SyncStep
    <2>3. CASE SchedulerStep
      <3>1. CASE ConnectorPoll
        <4>1. \A t \in Syncs : pc'[t] = pc[t] \/ (pc[t] = "idle" /\ pc'[t] = "created")
          BY <3>1 DEF ConnectorPoll, Idle
        <4> QED BY <4>1, StageValues DEF MovesOn
      <3> QED BY <2>0, <2>3, <3>1 DEF SchedulerStep, SchedulerStart, RecoverRun, SchedulerReady, taskVars
    <2>4. ASSUME NEW p \in {"app", "scheduler"}, Crash(p)
          PROVE  MovesOn
      <3>1. \A t \in Syncs : pc'[t] = pc[t] \/ (pc[t] \in LivePC /\ pc'[t] = "dead")
        BY <2>4 DEF Crash
      <3>2. Stage("dead") = 7
        BY StageValues DEF FinalPC
      <3> QED BY <3>1, <3>2, StageValues DEF MovesOn
    <2>5. ASSUME NEW t \in Syncs, Retire(t)
          PROVE  MovesOn
      BY <1>1, <2>5, OneMoves DEF Retire
    <2>6. ASSUME NEW t \in Syncs, Stall(t)
          PROVE  MovesOn
      <3>1. "stalled" \in FinalPC /\ pc[t] \in LivePC
        BY <2>6 DEF FinalPC, Stall
      <3> QED BY <1>1, <2>6, <3>1, StageValues, OneMoves DEF Stall, Goto
    <2>7. CASE SystemStep
      BY <2>0, <2>2, <2>3, <2>4, <2>5, <2>6, <2>7 DEF SystemStep, RunAges, IntervalElapses, taskVars
    <2> QED BY <1>1, <2>1, <2>7 DEF Next
  <1>2. IInv /\ [Next]_vars => [MovesOn]_vars
    BY <1>1
  <1> QED BY <1>2, Invariance, PTL DEF Spec

\* A run that recovery has selected waits for it, in a scheduler that is recovering,
\* until it is settled or the scheduler stops.  With the fairness of the scheduler
\* this is why OrphansSettled holds.
THEOREM OrphansWait ==
    Spec => /\ [](orphans # {} => sched = "recovering")
            /\ [][\A t \in orphans : t \in orphans' \/ run'[t] # "running"
                                     \/ sched' = "down"]_vars
  <1> DEFINE Waits == \A t \in orphans : t \in orphans' \/ run'[t] # "running" \/ sched' = "down"
             InHand == orphans # {} => sched = "recovering"
  <1>1. Init => InHand
    BY DEF Init
  <1>2. InHand /\ [Next]_vars => InHand'
    <2> SUFFICES ASSUME InHand, [Next]_vars PROVE InHand'
      OBVIOUS
    <2>1. CASE UNCHANGED <<sched, orphans>>
      BY <2>1
    <2>2. CASE SchedulerStep
      BY <2>2 DEF SchedulerStep, ConnectorPoll, SchedulerStart, RecoverRun, SchedulerReady, procVars
    <2>3. CASE \E p \in {"app", "scheduler"} : Crash(p)
      BY <2>3 DEF Crash
    <2>4. CASE UserStep
      BY <2>1, <2>4 DEF UserStep, PatchStatus, PatchInterval, CreateConnector, PatchConfig,
         DeleteConnector, UploadRead, TriggerSync, UploadWrite, procVars
    <2>5. CASE \E t \in Syncs : SyncStep(t) \/ Stall(t) \/ RunAges(t) \/ Retire(t)
      BY <2>1, <2>5 DEF SyncStep, BeginRun, Fetch, CommitRows, CommitFails, MarkSuccess, MarkFailed,
         MarkConnectorError, Stall, RunAges, Retire, procVars
    <2>6. CASE (\E c \in Connectors : IntervalElapses(c)) \/ UNCHANGED vars
      BY <2>1, <2>6 DEF IntervalElapses, procVars, vars
    <2> QED BY <2>2, <2>3, <2>4, <2>5, <2>6 DEF Next, SystemStep
  <1>3. IInv /\ InHand /\ [Next]_vars => [Waits]_vars
    <2> SUFFICES ASSUME IInv, InHand, Next, NEW t \in orphans, t \notin orphans', sched' # "down"
                 PROVE  run'[t] # "running"
      OBVIOUS
    <2>1. PICK u \in Syncs : RecoverRun(u)
      <3>1. ~UserStep
        BY DEF UserStep, PatchStatus, PatchInterval, CreateConnector, PatchConfig,
           DeleteConnector, UploadRead, TriggerSync, UploadWrite, procVars
      <3>2. \A u \in Syncs : ~(SyncStep(u) \/ Stall(u) \/ RunAges(u) \/ Retire(u))
        BY DEF SyncStep, BeginRun, Fetch, CommitRows, CommitFails, MarkSuccess, MarkFailed,
           MarkConnectorError, Stall, RunAges, Retire, procVars
      <3>3. ~(\E c \in Connectors : IntervalElapses(c))
        BY DEF IntervalElapses, procVars
      <3>4. ~(\E p \in {"app", "scheduler"} : Crash(p))
        BY DEF Crash
      <3>5. ~ConnectorPoll /\ ~SchedulerReady
        BY DEF ConnectorPoll, SchedulerReady, procVars
      <3>6. ~SchedulerStart
        BY DEF SchedulerStart
      <3> QED BY <3>1, <3>2, <3>3, <3>4, <3>5, <3>6 DEF Next, SystemStep, SchedulerStep
    <2>2. t = u /\ run' = RunSet(t, "failed") /\ t \in Syncs
      BY <2>1 DEF RecoverRun, IInv, TypeOK
    <2> QED BY <2>2 DEF RunSet, IInv, TypeOK
  <1> QED BY <1>1, <1>2, <1>3, Invariance, PTL DEF Spec

----------------------------------------------------------------------------
\* In error, and no sync of it is on its way.
Stuck(c) == status[c] = "error" /\ \A t \in Syncs : of[t] = c => pc[t] \notin LivePC

\* The cause of the finding on retries: a connector that came to rest in error, by a
\* failed sync or by recovery, stays there while its users do nothing.  The poll takes
\* active connectors only (main.py:125), what other syncs do is none of its business,
\* and recovery can but set the same error again.
THEOREM NeverRetriedAlone ==
    QuietSpec => [][\A c \in Connectors : Stuck(c) => Stuck(c)']_vars
  <1> DEFINE Stays == \A c \in Connectors : Stuck(c) => Stuck(c)'
  <1>1. ASSUME IInv, SystemStep
        PROVE  Stays
    <2> SUFFICES ASSUME NEW c \in Connectors, Stuck(c)
                 PROVE  Stuck(c)'
      OBVIOUS
    <2>0. /\ status \in [Connectors -> {"absent", "active", "paused", "error", "deleted"}]
          /\ pc \in [Syncs -> {"idle"} \cup LivePC \cup FinalPC]
          /\ of \in [Syncs -> Connectors] /\ orphans \subseteq Syncs
      BY <1>1 DEF IInv, TypeOK
    <2>1. ASSUME UNCHANGED <<pc, of, status>> PROVE Stuck(c)'
      BY <2>1 DEF Stuck
    <2>2. ASSUME NEW t \in Syncs, SyncStep(t)
          PROVE  Stuck(c)'
      <3>1. of[t] # c
        BY <2>2 DEF Stuck, SyncStep, BeginRun, Fetch, CommitRows, CommitFails, MarkSuccess,
                    MarkFailed, MarkConnectorError, LivePC
      <3>2. of' = of /\ \A u \in Syncs : u # t => pc'[u] = pc[u]
        BY <2>0, <2>2 DEF SyncStep, BeginRun, Fetch, CommitRows, CommitFails, MarkSuccess,
                          MarkFailed, MarkConnectorError, Goto
      <3>3. PICK s : status' = Updated(status, of[t], s) \/ status' = status
        <4>1. CASE CommitRows(t)
          BY <4>1 DEF CommitRows
        <4>2. CASE MarkConnectorError(t)
          BY <4>2 DEF MarkConnectorError
        <4>3. CASE ~(CommitRows(t) \/ MarkConnectorError(t))
          BY <2>2, <4>3 DEF SyncStep, BeginRun, Fetch, CommitFails, MarkSuccess, MarkFailed, connVars
        <4> QED BY <4>1, <4>2, <4>3
      <3>4. status'[c] = "error"
        BY <2>0, <3>1, <3>3 DEF Updated, Stuck
      <3> QED BY <3>1, <3>2, <3>4 DEF Stuck
    <2>3. ASSUME NEW t \in Syncs, Stall(t) \/ RunAges(t) \/ Retire(t)
          PROVE  Stuck(c)'
      <3>1. status' = status /\ of' = of
        BY <2>3 DEF Stall, RunAges, Retire, Goto, connVars, taskVars
      <3>2. \A u \in Syncs : pc'[u] \in {pc[u], "idle", "stalled"}
        BY <2>0, <2>3 DEF Stall, RunAges, Retire, Goto, taskVars
      <3> QED BY <3>1, <3>2 DEF Stuck, LivePC
    <2>4. CASE ConnectorPoll
      <3>0. PICK S \in SUBSET Idle : \E g \in Bijection(S, Due) :
              /\ pc' = [t \in Syncs |-> IF t \in S THEN "created" ELSE pc[t]]
              /\ of' = [t \in Syncs |-> IF t \in S THEN g[t] ELSE of[t]]
        BY <2>4 DEF ConnectorPoll
      <3>1. PICK g \in Bijection(S, Due) :
              /\ pc' = [t \in Syncs |-> IF t \in S THEN "created" ELSE pc[t]]
              /\ of' = [t \in Syncs |-> IF t \in S THEN g[t] ELSE of[t]]
        BY <3>0
      <3>2. \A t \in S : g[t] # c
        <4>1. c \notin Due
          BY DEF Stuck, Due
        <4>2. \A t \in S : g[t] \in Due
          BY DEF Bijection, Injection, IsInjective
        <4> QED BY <4>1, <4>2
      <3>3. status' = status
        BY <2>4 DEF ConnectorPoll, connVars
      <3> QED BY <3>1, <3>2, <3>3 DEF Stuck
    <2>5. ASSUME NEW t \in Syncs, RecoverRun(t)
          PROVE  Stuck(c)'
      <3>1. pc' = pc /\ of' = of /\ status' = Updated(status, of[t], "error")
        BY <2>5 DEF RecoverRun, taskVars
      <3>2. status'[c] = "error"
        BY <2>0, <3>1 DEF Updated, Stuck
      <3> QED BY <3>1, <3>2 DEF Stuck
    <2>6. CASE SchedulerStart \/ SchedulerReady
      BY <2>1, <2>6 DEF SchedulerStart, SchedulerReady, connVars, taskVars
    <2>7. ASSUME NEW p \in {"app", "scheduler"}, Crash(p)
          PROVE  Stuck(c)'
      <3>1. status' = status /\ of' = of
        BY <2>7 DEF Crash
      <3>2. \A u \in Syncs : pc'[u] \in {pc[u], "dead"}
        BY <2>7 DEF Crash
      <3> QED BY <3>1, <3>2 DEF Stuck, LivePC
    <2>8. ASSUME NEW d \in Connectors, IntervalElapses(d)
          PROVE  Stuck(c)'
      BY <2>1, <2>8 DEF IntervalElapses, taskVars
    <2> QED BY <1>1, <2>2, <2>3, <2>4, <2>5, <2>6, <2>7, <2>8 DEF SystemStep, SchedulerStep
  <1>2. IInv /\ [SystemStep]_vars => [Stays]_vars
    BY <1>1
  <1>3. QuietSpec => []IInv
    BY QuietIsSpec, Invariance, PTL
  <1> QED BY <1>2, <1>3, PTL DEF QuietSpec
=============================================================================
