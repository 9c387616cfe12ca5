--------------------------- MODULE ConnectorSync ---------------------------
(***************************************************************************)
(* Pull connectors of one organisation: the connectors, sync_runs, orders  *)
(* and custom_rows tables, the scheduler process that polls for due        *)
(* connectors and recovers orphaned runs, the API process that starts      *)
(* syncs on request, and the sync tasks that both processes run.           *)
(*                                                                         *)
(* A sync is one call of sync_connector (app/connectors/sync.py).  Its     *)
(* steps are the points where the coroutine awaits: everything between two *)
(* awaits is one action, and every other task, user or crash may come in   *)
(* between.  Each sync has its own sync_runs row, so rows are named by the *)
(* sync that inserted them.                                                *)
(***************************************************************************)
EXTENDS Naturals, FiniteSets, Functions

CONSTANTS
    Connectors,   \* connectors of type sheets_csv or csv_upload
    Syncs,        \* names for sync tasks and their sync_runs rows
    Files,        \* CSV contents that can be fetched or uploaded
    OrderIds,     \* keys of the orders table
    NoFile,       \* config without pending_bytes_b64; nothing fetched yet
    NoConfig,     \* no upload request has read the config
    Kind,         \* Kind[c] is the type column of c
    Content,      \* Content[f] is the set of order ids in the rows of f
    MaxCrashes,   \* bound: process crashes in one behaviour
    Reuse         \* bound: may the name of a finished sync be used again

ASSUME ConstantsAssumption ==
    /\ NoFile \notin Files
    /\ Kind \in [Connectors -> {"sheets_csv", "csv_upload"}]
    /\ Content \in [Files -> SUBSET OrderIds]
    /\ MaxCrashes \in Nat
    /\ Reuse \in BOOLEAN

VARIABLES
    status,     \* connectors.status; "absent" before, "deleted" after the row
    lastSync,   \* connectors.last_synced_at against the sync interval
    config,     \* connectors.config: where rows go and the uploaded file
    upload,     \* config as read by an upload-csv request in progress
    pc,         \* where each sync task stands
    of,         \* connector a sync is for
    proc,       \* process a sync runs in
    snap,       \* config in the connector row the task was given
    file,       \* CSV the sync has fetched
    run,        \* sync_runs.status of each sync's row
    old,        \* the run started more than five minutes ago
    landed,     \* syncs whose rows were committed (history)
    orders,     \* orders table: rows [id, by], by being the last writer
    custom,     \* custom_rows table: <<connector, file>> with rows present
    sched,      \* the scheduler process
    orphans,    \* runs that startup recovery has selected and not yet marked
    crashes     \* crashes so far

connVars == <<status, lastSync, config, upload>>
taskVars == <<pc, of, proc, snap, file>>
runVars  == <<run, old>>
dataVars == <<landed, orders, custom>>
procVars == <<sched, orphans, crashes>>
vars == <<connVars, taskVars, runVars, dataVars, procVars>>

----------------------------------------------------------------------------
Target == {"orders", "custom_rows"}
Config == [target : Target, blob : Files \cup {NoFile}]

NewConfig == [target |-> "orders", blob |-> NoFile]

LivePC   == {"created", "fetch", "upsert", "mark", "failing", "blaming"}
FinalPC  == {"done", "aborted", "dead", "stalled"}
RunState == {"none", "running", "success", "failed", "deleted"}
Verdicts == {"success", "failed"}

TypeOK ==
    /\ status \in [Connectors -> {"absent", "active", "paused", "error", "deleted"}]
    /\ lastSync \in [Connectors -> {"never", "stale", "fresh"}]
    /\ config \in [Connectors -> Config]
    /\ upload \in [Connectors -> Config \cup {NoConfig}]
    /\ pc \in [Syncs -> {"idle"} \cup LivePC \cup FinalPC]
    /\ of \in [Syncs -> Connectors]
    /\ proc \in [Syncs -> {"app", "scheduler"}]
    /\ snap \in [Syncs -> Config]
    /\ file \in [Syncs -> Files \cup {NoFile}]
    /\ run \in [Syncs -> RunState]
    /\ old \in [Syncs -> BOOLEAN]
    /\ landed \subseteq Syncs
    /\ orders \subseteq [id : OrderIds, by : Syncs]
    /\ custom \subseteq Connectors \X Files
    /\ sched \in {"down", "recovering", "up"}
    /\ orphans \subseteq Syncs
    /\ crashes \in Nat

\* Some connectors exist and have never been synced; an upload connector has
\* no file yet.
Init ==
    /\ status \in [Connectors -> {"absent", "active"}]
    /\ lastSync = [c \in Connectors |-> "never"]
    /\ config \in [Connectors -> [target : Target, blob : {NoFile}]]
    /\ upload = [c \in Connectors |-> NoConfig]
    /\ pc = [t \in Syncs |-> "idle"]
    /\ of \in [Syncs -> Connectors]
    /\ proc = [t \in Syncs |-> "app"]
    /\ snap = [t \in Syncs |-> NewConfig]
    /\ file = [t \in Syncs |-> NoFile]
    /\ run = [t \in Syncs |-> "none"]
    /\ old = [t \in Syncs |-> FALSE]
    /\ landed = {}
    /\ orders = {}
    /\ custom = {}
    /\ sched = "up"
    /\ orphans = {}
    /\ crashes = 0

----------------------------------------------------------------------------
Exists(c) == status[c] \notin {"absent", "deleted"}
Idle      == {t \in Syncs : pc[t] = "idle"}

\* Variant: the UPDATE has lost its WHERE clause.
UpdatedEverywhere(column, c, value) ==
    IF Exists(c) THEN [d \in Connectors |-> value] ELSE column

\* Sets a field of the row of c, when the row is still there: an UPDATE with
\* WHERE id = c changes nothing otherwise.
Updated(column, c, value) ==
    IF Exists(c) THEN [column EXCEPT ![c] = value] ELSE column

\* Variant: the run is re-inserted when its row is gone.
RunReinserted(t, value) == [run EXCEPT ![t] = value]

\* The same for the sync_runs row of t, which a cascade may have removed.
RunSet(t, value) ==
    IF run[t] = "deleted" THEN run ELSE [run EXCEPT ![t] = value]

\* A task for c is created in process p with the row (and config) just read.
Spawn(t, c, p, cfg) ==
    /\ pc[t] = "idle"
    /\ pc' = [pc EXCEPT ![t] = "created"]
    /\ of' = [of EXCEPT ![t] = c]
    /\ proc' = [proc EXCEPT ![t] = p]
    /\ snap' = [snap EXCEPT ![t] = cfg]
    /\ UNCHANGED file

Goto(t, label) ==
    /\ pc' = [pc EXCEPT ![t] = label]
    /\ UNCHANGED <<of, proc, snap>>

----------------------------------------------------------------------------
(* Requests to the API *)

\* POST: the row starts active and never synced.  Ids are fresh, so a deleted
\* connector does not come back.
CreateConnector(c, target) ==
    /\ status[c] = "absent"
    /\ status' = [status EXCEPT ![c] = "active"]
    /\ config' = [config EXCEPT ![c] = [target |-> target, blob |-> NoFile]]
    /\ UNCHANGED <<lastSync, upload, taskVars, runVars, dataVars, procVars>>

\* PATCH with a status.
PatchStatus(c, s) ==
    /\ Exists(c)
    /\ status' = [status EXCEPT ![c] = s]
    /\ UNCHANGED <<lastSync, config, upload, taskVars, runVars, dataVars, procVars>>

\* PATCH with an interval: a synced connector may become due, or stop being.
PatchInterval(c) ==
    /\ Exists(c)
    /\ lastSync[c] # "never"
    /\ lastSync' = [lastSync EXCEPT ![c] = IF @ = "fresh" THEN "stale" ELSE "fresh"]
    /\ UNCHANGED <<status, config, upload, taskVars, runVars, dataVars, procVars>>

\* PATCH with a config replaces the whole column.  No response of the API
\* carries the config, so the client's new one has no pending file.
PatchConfig(c, target) ==
    /\ Exists(c)
    /\ config' = [config EXCEPT ![c] = [target |-> target, blob |-> NoFile]]
    /\ UNCHANGED <<status, lastSync, upload, taskVars, runVars, dataVars, procVars>>

\* DELETE cascades to the connector's sync_runs and custom_rows, not to orders.
DeleteConnector(c) ==
    /\ Exists(c)
    /\ status' = [status EXCEPT ![c] = "deleted"]
    /\ run' = [t \in Syncs |->
                 IF of[t] = c /\ run[t] # "none" THEN "deleted" ELSE run[t]]
    /\ custom' = {row \in custom : row[1] # c}
    /\ UNCHANGED <<lastSync, config, upload, taskVars, old, landed, orders, procVars>>

\* Manual sync: neither the status nor a sync in progress is looked at.
TriggerSync(t, c) ==
    /\ Exists(c)
    /\ Spawn(t, c, "app", config[c])
    /\ UNCHANGED <<connVars, runVars, dataVars, procVars>>

\* upload-csv reads the row, then awaits the request body ...
UploadRead(c) ==
    /\ Exists(c)
    /\ Kind[c] = "csv_upload"
    /\ upload[c] = NoConfig
    /\ upload' = [upload EXCEPT ![c] = config[c]]
    /\ UNCHANGED <<status, lastSync, config, taskVars, runVars, dataVars, procVars>>

\* ... and writes back the config it read with the file added, then starts a
\* sync with the row it re-reads.  On a connector deleted meanwhile the UPDATE
\* matches nothing and the task fails on the missing row before any write.
UploadWrite(t, c, f) ==
    LET cfg == [upload[c] EXCEPT !.blob = f] IN
    /\ upload[c] # NoConfig
    /\ upload' = [upload EXCEPT ![c] = NoConfig]
    /\ \/ /\ Exists(c)
          /\ config' = [config EXCEPT ![c] = cfg]
          /\ Spawn(t, c, "app", cfg)
       \/ /\ ~Exists(c)
          /\ UNCHANGED <<config, taskVars>>
    /\ UNCHANGED <<status, lastSync, runVars, dataVars, procVars>>

----------------------------------------------------------------------------
(* The sync task *)

\* Step 1: INSERT the run.  Its foreign key refuses a deleted connector, and
\* the statement is outside the try block: any error ends the task.
BeginRun(t) ==
    /\ pc[t] = "created"
    /\ \/ /\ Exists(of[t])
          /\ run' = [run EXCEPT ![t] = "running"]
          /\ Goto(t, "fetch")
       \/ /\ run' = run
          /\ Goto(t, "aborted")
    /\ UNCHANGED <<file, connVars, old, dataVars, procVars>>

\* Steps 2 and 3: fetch, parse and coerce.  An uploaded file is the one in the
\* row the task was given.  A bad row fails the whole file.
Fetch(t) ==
    /\ pc[t] = "fetch"
    /\ \/ \E f \in Files :
            /\ Kind[of[t]] = "csv_upload" => f = snap[t].blob
            /\ file' = [file EXCEPT ![t] = f]
            /\ Goto(t, "upsert")
       \/ /\ Goto(t, "failing")
          /\ UNCHANGED file
    /\ UNCHANGED <<connVars, runVars, dataVars, procVars>>

\* Variant: a plain INSERT.
InsertOrders(table, ids, t) == table \cup [id : ids, by : {t}]

\* ON CONFLICT (org_id, order_id) DO UPDATE.
UpsertOrders(table, ids, t) ==
    {row \in table : row.id \notin ids} \cup [id : ids, by : {t}]

\* Step 4: one transaction writes the rows and the connector's state.  Custom
\* rows have a foreign key on the connector; orders do not.
CommitRows(t) ==
    LET c == of[t] IN
    /\ pc[t] = "upsert"
    /\ \/ /\ snap[t].target = "orders"
          /\ orders' = UpsertOrders(orders, Content[file[t]], t)
          /\ UNCHANGED custom
       \/ /\ snap[t].target = "custom_rows"
          /\ Exists(c)
          /\ custom' = custom \cup {<<c, file[t]>>}
          /\ UNCHANGED orders
    /\ landed' = landed \cup {t}
    /\ lastSync' = Updated(lastSync, c, "fresh")
    /\ status' = Updated(status, c, "active")
    /\ Goto(t, "mark")
    /\ UNCHANGED <<file, config, upload, runVars, procVars>>

\* Variant: the error of the transaction is swallowed.
CommitFailureSwallowed(t) ==
    /\ pc[t] = "upsert"
    /\ Goto(t, "mark")
    /\ UNCHANGED <<file, connVars, runVars, dataVars, procVars>>

\* The transaction of step 4 rolls back.
CommitFails(t) ==
    /\ pc[t] = "upsert"
    /\ Goto(t, "failing")
    /\ UNCHANGED <<file, connVars, runVars, dataVars, procVars>>

\* Step 5: the run is marked, whatever its status has become.  A failure here
\* takes the except branch although the rows are committed.
MarkSuccess(t) ==
    /\ pc[t] = "mark"
    /\ \/ /\ run' = RunSet(t, "success")
          /\ Goto(t, "done")
       \/ /\ run' = run
          /\ Goto(t, "failing")
    /\ UNCHANGED <<file, connVars, old, dataVars, procVars>>

\* Variant: the except branch forgets the run.
OnlyConnectorBlamed(t) ==
    /\ pc[t] = "failing"
    /\ Goto(t, "blaming")
    /\ UNCHANGED <<file, connVars, runVars, dataVars, procVars>>

\* Variant: the except branch tries again instead.
RetriedForever(t) ==
    /\ pc[t] = "failing"
    /\ Goto(t, "fetch")
    /\ UNCHANGED <<file, connVars, runVars, dataVars, procVars>>

\* The except branch, first statement; an error inside it ends the task.
MarkFailed(t) ==
    /\ pc[t] = "failing"
    /\ \/ /\ run' = RunSet(t, "failed")
          /\ Goto(t, "blaming")
       \/ /\ run' = run
          /\ Goto(t, "aborted")
    /\ UNCHANGED <<file, connVars, old, dataVars, procVars>>

\* The except branch, second statement.
MarkConnectorError(t) ==
    /\ pc[t] = "blaming"
    /\ \/ /\ status' = Updated(status, of[t], "error")
          /\ Goto(t, "done")
       \/ /\ status' = status
          /\ Goto(t, "aborted")
    /\ UNCHANGED <<file, lastSync, config, upload, runVars, dataVars, procVars>>

SyncStep(t) ==
    \/ BeginRun(t)
    \/ Fetch(t)
    \/ CommitRows(t)
    \/ CommitFails(t)
    \/ MarkSuccess(t)
    \/ MarkFailed(t)
    \/ MarkConnectorError(t)

\* An await of the task never comes back.  httpx's timeout bounds each read of the
\* file and not the fetch, so an answer that drips in has no end; and the
\* scheduler's pool sets no command_timeout (the API's does), so a statement of
\* its tasks may wait for good.  The task writes nothing more.
Stall(t) ==
    /\ pc[t] \in LivePC
    /\ proc[t] = "scheduler" \/ pc[t] = "fetch"
    /\ Goto(t, "stalled")
    /\ UNCHANGED <<file, connVars, runVars, dataVars, procVars>>

----------------------------------------------------------------------------
(* The scheduler process *)

\* Active, and never synced or synced longer ago than the interval.
Due == {c \in Connectors : status[c] = "active" /\ lastSync[c] # "fresh"}

\* One poll starts a task for every due connector, also for one whose previous
\* sync is still in flight: last_synced_at moves only when a sync commits.
ConnectorPoll ==
    /\ sched = "up"
    /\ Due # {}
    /\ \E S \in SUBSET Idle : \E g \in Bijection(S, Due) :
         /\ pc' = [t \in Syncs |-> IF t \in S THEN "created" ELSE pc[t]]
         /\ of' = [t \in Syncs |-> IF t \in S THEN g[t] ELSE of[t]]
         /\ proc' = [t \in Syncs |-> IF t \in S THEN "scheduler" ELSE proc[t]]
         /\ snap' = [t \in Syncs |-> IF t \in S THEN config[g[t]] ELSE snap[t]]
    /\ UNCHANGED <<file, connVars, runVars, dataVars, procVars>>

\* Variant: the age of the run is not looked at.
SelectAllRunning ==
    /\ sched = "down"
    /\ sched' = "recovering"
    /\ orphans' = {t \in Syncs : run[t] = "running"}
    /\ UNCHANGED <<connVars, taskVars, runVars, dataVars, crashes>>

\* Startup: select the runs that look orphaned, whichever process runs them.
SchedulerStart ==
    /\ sched = "down"
    /\ sched' = "recovering"
    /\ orphans' = {t \in Syncs : run[t] = "running" /\ old[t]}
    /\ UNCHANGED <<connVars, taskVars, runVars, dataVars, crashes>>

\* Variant: the run gets the word the connectors table uses for a failure.
RunMarkedError(t) ==
    /\ sched = "recovering"
    /\ t \in orphans
    /\ run' = RunSet(t, "error")
    /\ status' = Updated(status, of[t], "error")
    /\ orphans' = orphans \ {t}
    /\ UNCHANGED <<lastSync, config, upload, taskVars, old, dataVars, sched, crashes>>

\* Variant: only the connector is updated.
RunNotRecovered(t) ==
    /\ sched = "recovering"
    /\ t \in orphans
    /\ status' = Updated(status, of[t], "error")
    /\ orphans' = orphans \ {t}
    /\ UNCHANGED <<lastSync, config, upload, taskVars, runVars, dataVars, sched, crashes>>

\* One transaction per selected run, with no second look at its status.
RecoverRun(t) ==
    /\ sched = "recovering"
    /\ t \in orphans
    /\ run' = RunSet(t, "failed")
    /\ status' = Updated(status, of[t], "error")
    /\ orphans' = orphans \ {t}
    /\ UNCHANGED <<lastSync, config, upload, taskVars, old, dataVars, sched, crashes>>

\* Recovery is over: the jobs are added and polling begins.
SchedulerReady ==
    /\ sched = "recovering"
    /\ orphans = {}
    /\ sched' = "up"
    /\ UNCHANGED <<connVars, taskVars, runVars, dataVars, orphans, crashes>>

----------------------------------------------------------------------------
(* Crashes and the passage of time *)

\* A process stops: its sync tasks vanish where they are.  A graceful stop of
\* the scheduler does the same to them, as the pool is closed under them.
Crash(p) ==
    /\ crashes < MaxCrashes
    /\ p = "scheduler" => sched # "down"
    /\ crashes' = crashes + 1
    /\ pc' = [t \in Syncs |->
                IF proc[t] = p /\ pc[t] \in LivePC THEN "dead" ELSE pc[t]]
    /\ \/ /\ p = "scheduler"
          /\ sched' = "down"
          /\ orphans' = {}
          /\ UNCHANGED upload
       \/ /\ p = "app"
          /\ upload' = [c \in Connectors |-> NoConfig]
          /\ UNCHANGED <<sched, orphans>>
    /\ UNCHANGED <<status, lastSync, config, of, proc, snap, file, runVars, dataVars>>

\* The sync interval of c has elapsed.
IntervalElapses(c) ==
    /\ lastSync[c] = "fresh"
    /\ lastSync' = [lastSync EXCEPT ![c] = "stale"]
    /\ UNCHANGED <<status, config, upload, taskVars, runVars, dataVars, procVars>>

\* Five minutes have passed since the run of t began.
RunAges(t) ==
    /\ run[t] = "running"
    /\ ~old[t]
    /\ old' = [old EXCEPT ![t] = TRUE]
    /\ UNCHANGED <<connVars, taskVars, run, dataVars, procVars>>

\* Bound: a finished sync is forgotten and its name used again.
Retire(t) ==
    /\ Reuse
    /\ pc[t] \in FinalPC
    /\ run[t] # "running"
    /\ t \notin orphans
    /\ pc' = [pc EXCEPT ![t] = "idle"]
    /\ proc' = [proc EXCEPT ![t] = "app"]
    /\ snap' = [snap EXCEPT ![t] = NewConfig]
    /\ file' = [file EXCEPT ![t] = NoFile]
    /\ run' = [run EXCEPT ![t] = "none"]
    /\ old' = [old EXCEPT ![t] = FALSE]
    /\ landed' = landed \ {t}
    /\ UNCHANGED <<of, connVars, orders, custom, procVars>>

----------------------------------------------------------------------------
UserStep ==
    \/ \E c \in Connectors :
         \/ \E s \in {"active", "paused", "error"} : PatchStatus(c, s)
         \/ PatchInterval(c)
         \/ \E target \in Target :
              CreateConnector(c, target) \/ PatchConfig(c, target)
         \/ DeleteConnector(c)
         \/ UploadRead(c)
    \/ \E t \in Syncs, c \in Connectors :
         \/ TriggerSync(t, c)
         \/ \E f \in Files : UploadWrite(t, c, f)

SchedulerStep ==
    \/ ConnectorPoll
    \/ SchedulerStart
    \/ \E t \in Syncs : RecoverRun(t)
    \/ SchedulerReady

SystemStep ==
    \/ \E t \in Syncs : SyncStep(t) \/ Stall(t) \/ RunAges(t) \/ Retire(t)
    \/ SchedulerStep
    \/ \E p \in {"app", "scheduler"} : Crash(p)
    \/ \E c \in Connectors : IntervalElapses(c)

Next == UserStep \/ SystemStep

Spec == Init /\ [][Next]_vars

\* A running event loop gets back to every task whose await has returned or raised;
\* nothing says that each does, and one that never does is Stall.  The container's
\* restart policy brings the scheduler back, and PostgreSQL answers the statements
\* of recovery and of the poll: an assumption, as their pool has no timeout of its
\* own.  Nothing obliges a user to act, a process to crash or a task to stall.
Fairness ==
    /\ \A t \in Syncs : WF_vars(SyncStep(t)) /\ WF_vars(Retire(t))
    /\ WF_vars(SchedulerStep)

FairSpec == Spec /\ Fairness

\* The same system while its users leave the connectors alone.
QuietSpec == Init /\ [][SystemStep]_vars /\ Fairness

----------------------------------------------------------------------------
(* Properties *)

\* A run is only ever called a success if its own transaction committed
\* (sync.py steps 4 and 5), whatever recovery, deletes and overlapping syncs do.
SuccessMeansLanded ==
    \A t \in Syncs : run[t] = "success" => t \in landed

\* A sync that came to its end left a verdict (or its row was deleted): only a
\* crash or an error in the except branch leaves a run 'running' for good.
NoRunLeftRunning ==
    \A t \in Syncs : run[t] = "running" => pc[t] \notin {"idle", "done"}

\* The foreign keys hold through deletes racing with syncs: no custom row and
\* no run of a deleted connector is ever left behind.
NothingOfDeleted ==
    /\ \A row \in custom : Exists(row[1])
    /\ \A t \in Syncs : run[t] \in {"running"} \cup Verdicts => Exists(of[t])

\* Overlapping and repeated syncs never store an order twice ("idempotent
\* re-runs", sync.py:49) and never lose an order that a sync has landed.
OrdersIdempotent ==
    /\ \A r1, r2 \in orders : r1.id = r2.id => r1 = r2
    /\ \A t \in landed : snap[t].target = "orders" =>
         Content[file[t]] \subseteq {row.id : row \in orders}

\* The verdict on a run younger than five minutes is final: startup recovery
\* is the only writer that can collide with a sync task's own verdict, and it
\* must leave young runs alone (main.py:63-70).
YoungVerdictFinal ==
    [][\A t \in Syncs : run[t] \in Verdicts /\ ~old[t] =>
          run'[t] \in {run[t], "deleted", "none"}]_vars

\* A connector with no sync in flight and no run under recovery changes status
\* only through its own user: syncs of other connectors never touch it.
Busy(c) == \/ \E t \in Syncs : of[t] = c /\ pc[t] \in LivePC
           \/ \E t \in orphans : of[t] = c
QuietConnectorUntouched ==
    [][\A c \in Connectors : ~Busy(c) /\ status'[c] # status[c] =>
          \/ \E s \in {"active", "paused", "error"} : PatchStatus(c, s)
          \/ \E target \in Target : CreateConnector(c, target)
          \/ DeleteConnector(c)]_vars

\* Every sync that recorded a run comes to its end, unless its process goes away or
\* one of its awaits never comes back: no answer, error or overlap makes the code
\* go round.
EverySyncEnds ==
    \A t \in Syncs : (pc[t] = "fetch") ~> (pc[t] \in {"idle"} \cup FinalPC)

\* A run that startup recovery selected does not stay 'running' unless the
\* scheduler stops again before it gets to it.
OrphansSettled ==
    \A t \in Syncs : (t \in orphans) ~> (run[t] # "running" \/ sched = "down")

\* main.py:9-11: recovery resets the connector "so the scheduler retries on
\* the next poll".  Whenever recovery has put a connector in error and its user
\* does nothing, a sync of it is started again.
Retried(c) == \E t \in Syncs : of[t] = c /\ pc[t] = "created"
OrphanRetriedOnPoll ==
    \A t \in Syncs, c \in Connectors :
        (t \in orphans /\ of[t] = c) ~> (Retried(c) \/ sched = "down")
=============================================================================
