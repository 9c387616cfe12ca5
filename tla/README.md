# Analytiq in TLA+

Analytiq is a self-hosted analytics product: a FastAPI application (one uvicorn
worker), a scheduler process (APScheduler on asyncio), PostgreSQL with row-level
security, a Next.js frontend, and SDKs that send it events. This directory holds its formal model: TLA+
modules translated from the code, TLC configurations that check them on small
instances, and proofs of the main results for every size, checked by TLAPS.

Paths below are relative to the root of the repository.

## 1. The system

### Components

| Component | State | Operations | Where |
|---|---|---|---|
| Connector sync | `connectors`, `sync_runs`, `orders`, `custom_rows`; tasks of both processes | create, patch, delete, trigger, upload; `sync_connector`; poll; orphan recovery | `app/connectors/sync.py`, `app/routers/connectors.py`, `scheduler/main.py` |
| Ingest rate limit | `rate_limits`, one row per org | refill and consume under a row lock | `app/routers/ingest.py:40-97` |
| Event log | `events`, `archived_events`, `gdpr_opt_outs`; a cursor per open stream | ingest, opt-out, forget, archive, live stream | `ingest.py`, `gdpr.py`, `storage.py`, `stream.py`, `frontend/src/app/live/page.tsx` |
| Connection pool | connections, their owners | acquire, release, one transaction per request | `app/database.py`, `app/deps.py` |
| Alert rules | `alert_rules` (state, last_triggered_at) | create, delete; a pass every minute | `app/routers/alerts.py`, `scheduler/alert_evaluator.py`, `scheduler/notifications.py` |
| Dashboard cache | an in-process `TTLCache` per process | hit, miss, store, invalidate | `app/routers/dashboard.py` |
| Team | `users`, `org_invites` | invite, cancel, accept, remove; signup | `app/routers/team.py`, `auth.py` |
| SDKs | a queue in the page, a call and its timer, an id on the device | track, flush, retry, identify, configure, reset | `sdk/analytics.js`, `sdk/node`, `sdk/mobile/analytiq_react_native.ts` |
| Frontend: lists | a list, dialogs, busy flags, messages | load, ask, send, tell, write, load again | 17 pages and panels of `frontend/src` |
| Frontend: queries | controls, the query asked, the answer shown | pick, ask, answer, fail | 19 parts of `frontend/src` |
| Frontend: session | token, key and org in localStorage | sign in, call, 401, log out | `lib/api.ts`, login, signup, invite, SSO, Sidebar |
| Frontend: live feed | the stream being read, timers, the list | start, break, reconnect, retry, pause, clear | `frontend/src/app/live/page.tsx` |
| Webhook ingest | `orders` | HMAC check, upsert in one transaction | `app/routers/webhook.py` |
| Request context and RLS | role and `app.org_id` of a transaction, policies | `get_org_db` and its variants | `app/deps.py`, `db/schema.sql`, `db/02_app_user.sh` |
| Accounts | `users`, `revoked_tokens` | login and lockout, logout, key rotation | `app/routers/auth.py` |
| SSO, API keys | provider settings, `api_keys` | login by OIDC/SAML, create, revoke, expire | `app/routers/sso.py`, `api_keys.py` |
| Flags, reports | `feature_flags`, `scheduled_reports` | create, patch, evaluate | `app/routers/flags.py`, `reports.py` |
| Anomaly detector | `anomaly_baselines`, `anomaly_events` | hourly baseline and detection | `scheduler/anomaly_detector.py` |
| Digest, metrics | none | aggregates and mails | `scheduler/digest.py`, `metrics.py` |
| Analytics queries | none (read only) | dashboard, funnels, paths, churn, people, heatmaps, warehouse, export | `app/routers/*.py` |
| Share links, embeds | `share_tokens`, `embed_tokens`, a cache | create, revoke, public read | `app/routers/share.py`, `embed.py` |

### How they interact

* **Shared tables.** Everything persistent is in Postgres; both processes and
  every request read and write it in READ COMMITTED transactions. A route opens
  one transaction in its dependency and commits it after the handler; a sync opens
  a transaction per step.
* **Tasks.** A sync is an asyncio task that its creator forgets
  (`asyncio.create_task`), in the API process for a trigger or an upload and in the
  scheduler for a poll. Nothing keeps two syncs of one connector apart.
* **Shared memory.** The dashboard cache and the pool belong to one process. The
  scheduler imports the cache's module, and has a cache of its own.
* **Calls.** The SDKs send events to the ingest route; nothing but the answer tells
  them what became of an event. The frontend goes through `request()` of `lib/api.ts`,
  which ends the session at a 401, or calls `fetch` itself.
* **Browser storage.** All tabs share localStorage; SWR keeps answers per page load.
* **Time.** Jobs fire every minute, statements of the API process time out after 30 s
  (those of the scheduler do not), each read of an HTTP fetch after 30 s (the whole
  does not), cache entries after 5 minutes; NOW() is the start of a transaction.

### Hard behaviours

`PROJECT.json` lists every hazard at its line. The ones that shape the models:
overlapping syncs and a scheduler that stops in the middle of them; a verdict on a
run written by its task and by recovery; checks before an await and effects after
it (opt-out, upload, cache); ids drawn in one order and committed in another;
a lock granted after the clock of the transaction has stopped; a request that holds
one connection and waits for another; a state committed before its message is
sent; a store that comes after the invalidation it should have seen; an invite read
before it is claimed. On the client side: answers that come late, in another order or
not at all; a page that goes, or an app that is killed, in the middle; handlers that
share a busy flag, a dialog or a load; tabs that share a session.

### What makes each modelled component correct

* *Connector sync*: a run called success has committed its rows; a sync that ends
  leaves a verdict; nothing of a deleted connector is left; repeated and
  overlapping syncs keep `orders` a table with one row per id and lose none; a
  young run's verdict is its task's own; every sync ends, unless one of its awaits never
  comes back; orphans are settled.
* *Rate limit*: never stricter than the documented bucket, and laxer only by the
  time requests waited for the lock.
* *Event log*: an event is in exactly one place; an opt-out is overtaken only by a
  request already past its check; a stream never repeats and delivers in the end.
* *Pool*: connections are out exactly while needed; waiting ends.
* *Alerts*: the destination knows the state of a rule, messages are true over the window
  that the pass measures, alarms are not repeated within a day, lasting trouble is heard.
* *Ingest as a whole*: pool, limiter and handler together give clients the admission
  control of an exact bucket, except that they may admit more.
* *Team*: an invite makes one account, exactly when it is marked accepted, and none
  once it was cancelled.
* *SDKs*: no copy of an event without need, an end for every event and call, one
  visitor per device, success only for what is stored or, for a user who has opted out,
  dropped.
* *Lists*: the screen shows what the server did, success is said only of what was
  done, a word asked for is typed in the dialog that is open, no button stays disabled.
* *Queries*: what is shown answers what was asked last, or is an earlier answer on the parts
  known to keep it. *Session*: token and org of one sign-in, or nothing at all.
  *Live feed*: one stream at a time, and each of its events listed once.
* *Cache*: answers are the own org's and of bounded age; a sync's invalidation is
  undone only by a request it raced with.

## 2. Modules

`MC*.tla` give the constants of each module small values for TLC, `*_proofs.tla`
hold the theorems. Definitions that begin with the comment *Variant* are
plausible wrong versions of the definition after them: a property must fail with
them in its place.

### ConnectorSync

A task's steps are the points where the coroutine awaits; its program counter
runs `created -> fetch -> upsert -> mark -> done`, with `failing -> blaming` for
the except branch, `aborted` for an error nobody catches and `dead` for a task
whose process is gone.

| Action | Code |
|---|---|
| `CreateConnector`, `PatchStatus`, `PatchInterval`, `PatchConfig`, `DeleteConnector`, `TriggerSync` | the routes of `connectors.py`; delete cascades to runs and custom rows |
| `UploadRead`, `UploadWrite` | `upload_csv` before and after it awaits the body: it writes back the config it read |
| `BeginRun`, `Fetch`, `CommitRows`, `CommitFails`, `MarkSuccess`, `MarkFailed`, `MarkConnectorError` | steps 1 to 5 and the except branch of `sync_connector` |
| `ConnectorPoll` | one poll: a task for every due connector, also one whose sync still runs |
| `SchedulerStart`, `RecoverRun`, `SchedulerReady` | `_recover_orphaned_runs`: the select, one transaction per run, the start of the jobs |
| `Stall` | an await that never comes back: a fetch whose answer drips in, as `timeout=30.0` bounds each read (`sync.py:307`), or a statement of the scheduler, whose pool has no `command_timeout` (`main.py:181-186`) |
| `Crash`, `IntervalElapses`, `RunAges` | a process stops, time passes |

A run's row has the name of its sync. A run is young or `old` (five minutes), a
connector's last sync is `never`, `fresh` or `stale` against its interval: nothing
else of time matters. `orders` rows carry their last writer, so a duplicate row
would show. `landed` is a history of committed syncs.

### RateLimit

Time is in ticks, tokens in what a tick refills, so `elapsed * _RATE` is a number of
ticks. `Begin` fixes `txStart`, what NOW() returns; `Lock` waits for the row lock
and reads the clock; `Commit` stores the level and stamps it with `txStart`;
`Abort` is any error. `spent`, `waited` and `ideal` (an exact bucket drained by
the same requests) are histories.

### EventLog

An ingest checks, inserts (and draws its id), and commits; the row is visible from
the commit on. Admin transactions select their rows when the statement runs
and take effect at the commit, skipping rows that are gone. The stream's buffer is
what a poll has fetched and not sent; reconnecting forgets the cursor, as the page
does.

### ConnectionPool

A request owns the connection of its dependency until it is over; an ingest takes a
second one for the limiter in between. An acquire waits without a timeout. Where a
request stands determines how many connections it has to own.

### Bucket, Ingest, Admission

`Bucket` has what the limiter and its specification share: the constants and the cap.
`Ingest` composes ConnectionPool with an instance of RateLimit whose program counter
is `tx`: a request has its second connection exactly while its limiter transaction
is open. `BeginLimit`, `Decide` and `Raise` are steps of both at once; `LockRow` is
one of the limiter, and fixes a denial, because the tokens the request gets with the
row decide it; `Return` answers an admitted request only.
`Admission` says what clients are promised: a bucket, verdicts that are given once,
and a denial only when the bucket cannot pay. Ingest implements it under
`clock <- now, level <- ideal`.

### Team

A request is a transaction: it reads what is committed, holds the rows it wrote until it
ends, and waits where another holds a row it needs (`InviteFree`, `EmailFree`).
Accepting takes the steps of `accept_invite`: `FindInvite`, `Claim`,
`LookForAccount`, `InsertUser`, `Join`; a signup joins it at the look for an account.
`RollBack` is any error. An account is known by the invite it came from, or is `Own`:
that of another organisation. `made` is a history. Roles and inviters are left out:
nothing here reads them.

### AlertRules

A metric has a value over each window (`value[m][w]`), and a rule a window of its own. A
pass loads the rules (`snap`), measures each metric once, over the widest window of the
rules it has loaded for it (`Widest`, `measured`), judges rule after rule by that value
(`Judge` commits the state, then `sending` holds the message), and delivers or loses it.
Metrics move and rules come and go at any moment. `heard`, `missed`, `rung` and `since` are
histories: what arrived, whose last message was lost, which alarms are younger than a day,
and what values a metric has had, over which window, since the pass began.

`NoFalseAlarm` and `TroubleIsHeard` speak of the widest window, by which the code judges;
the alerts page (`frontend/src/app/alerts/page.tsx:195`) shows a rule as a condition "over last"
its own hours, and a message need not be true of these (`alert_evaluator.py:110-116`).

### DashboardCache

Entries carry the age of their data, and whether the org's entries have been
dropped since (`passed`), also while the data was being fetched (`raced`).
`Hit` may fail where the entry expires between test and access; `Store` evicts
an arbitrary other entry where the library takes the least recently used one,
which covers any order of accesses.

### JsSdk, NodeSdk, RnSdk

*JsSdk* follows each event of one page through the queue, a request, its landing in
the server, the answer, and pauses before the next attempt. A flush may meet an event that
`JSON.stringify` throws for (`analytics.js:79`), out of `forEach` (`:187`): that one is
`thrown` and the rest of the batch, which has left the queue, `dropped`. A request may land
after the client has given it up. `JsGo` and `JsLeave` are a page that is killed and one
that leaves with its last flush. *NodeSdk* has a timer per call, which is cleared when
the headers are there; the server stores an event, or drops that of a user who has opted out
(`NodeDrop`) and answers ok all the same, and the body of an error need not end. *RnSdk* takes `configure` apart at its two awaits of the storage,
with events that wait for it and an app that may be killed and started again.

### ListPages and PageTables

All pages that list something and have buttons are one machine, run by a table: what
a handler asks first (`ask`), whether it looks at the answer (`checks`), when it tells
the user (`tells`), what it writes into the list (`writes`), whether and when it
loads the list again (`reloads`, `always`), the busy flag it sets (`lock`, `frees`);
which flags disable a button; how the page keeps its list (`cache`: SWR, a copy, or
by hand) and what a refused load does to it (`onRefusal`). `PageTables` has a row for
each handler. A list is the set of clicks whose effect is in it. SWR is external:
a load that is superseded, or during which the page wrote into the list, is dropped.

A dialog does not hold the focus, so clicks go on behind it: `dialogs` are the clicks whose
confirmation is open, `typed` those whose field holds the word. Where all rows share a dialog
(all pages but connectors and alerts, `apart`), a click behind it turns it to another row with
what is in its field; `AskedFirst` therefore asks for a word that was typed since the dialog
was opened, which may have been for the row before.

### QueryPages

A part has a kind (SWR by key, an effect, a button, once), its controls, the values
the query takes and those in the key. `answers` and `result` remember which values
an answer was for, so the screen can be compared with what was asked; `stays` says through
what an earlier answer stays there. The paths page draws its last answer while a newer query
is under way and after it failed (`paths/page.tsx:55-67`, `:120`), and takes the body of an
error for paths, which takes the page down (`Unreadable`, `down`). The archive browser asks
with the query of the press before (`lags`, `committed`; `storage/page.tsx:131-135`).

### Session

A sign-in is the number of its token; localStorage holds the sign-in that each of its
three entries is of. Every call of `lib/api.ts` is listed with how it is sent. A handler's
code without an await is one step in all tabs; a tab that loads /login is `leaving`.
`SessionWhole` says that the token and the org are of one sign-in, or both gone and the API key
with them; and that after a sign-in whose answer brings a key (a login, a signup, the demo) the
key is of that sign-in. An invite or a provider's sign-in brings none and leaves an earlier
sign-in's key beside the new token (`invite/[token]/page.tsx:35-36`,
`sso-success/page.tsx:31-32`). No code reads that key back.

### LivePage

Streams by number, with where each is and its last event; `current` is the one of
`abortRef`. A stream begins with the last events, as no caller passes a cursor.

## 3. What the runs check

| Run | Instance | Shows |
|---|---|---|
| `sync_lifecycle` | one upload connector, two syncs, one crash | type and safety invariants, `YoungVerdictFinal`, under all requests, overlaps, recovery and one crash |
| `sync_quiet` | two connectors, two reusable syncs, one crash, no user acts at all | a connector is not touched by another's sync; every sync ends or stalls; orphans are settled |
| `sync_retry` | one connector | **violated**: an orphan's connector is not retried |
| `ingest` | four connections, two ingests and another request, burst 3, price 2, 2 ticks | `Accounted`, `SomebodyCanGoOn`, `EveryRequestEnds`, `OverdraftIsWaiting`, `NeverTooStrict`, and the refinement `AdmissionKept` |
| `rate_limit` | three requests in flight, burst 2, price 2, 4 ticks | **violated**: more than burst plus rate is admitted |
| `pool_exhausted` | two connections, two ingests | **violated**: ingests wait for each other for ever |
| `events` | two ingests of one user, two admins, one page, batch 1, replay 2 | types, `EventsConserved`, `OptOutWindow`, `SentInOrder`, `LiveDelivery` |
| `events_skip` | two ingests, one page, replay 1 | **violated**: an event that commits late is never sent |
| `alert_rules` | two rules (below 1 over one hour, no data over two) on one metric with one value or none, two faults | `StateIsTold`, `NoFalseAlarm`, `AtMostDaily`, `TroubleIsHeard` |
| `api` | the cache: two orgs, two views, two requests, size 2, time to live 2, fetch 1; or the team: two invites, one address, three transactions | `OwnDataOnly`, `StalenessBounded`, `SyncShows`; `InvitesHonest`, `CancelHolds` |
| `clients` | one client per behaviour, see below | SDKs: `JsNoNeedlessCopy`, `JsSettled`, `NodeTold`, `RnOneVisitor`; frontend: `ScreenTrue`, `SaidDone`, `AskedFirst`, `FlagsFreed`, `SelectionShown`, `SessionWhole`, `OneReader` |
| `live_reconnect` | three streams, three events, history 1 | **violated**: a reconnect lists events a second time |

`clients` and `api` hold parts that share nothing. In each behaviour one of them runs,
which `client` or `part` names, and the others stand still in one of their initial
states: a run of all of them explores the sum of their states and not the product.

### Bounds, and why they are enough

* **Syncs (2)**. A race of verdicts or rows is between two syncs, or between a sync
  and recovery. In `sync_lifecycle` a name is used once; in `sync_quiet` names are
  used again (`Reuse`), which makes behaviours unbounded.
* **MaxCrashes (1)**. Recovery after one crash already meets tasks of the other
  process that are alive; a second crash only repeats it.
* **UploadsBeforeCrash** keeps an upload from being read after a crash in
  `sync_lifecycle`: it is the one constraint on states, and there is no temporal
  property in that run that looks past it.
* **MaxTime (4 and 2)**: a lock held over two ticks and refilled by another request fits.
* **Batch 1, Replay 1 and 2**: every event more than one is a batch boundary, and a
  replay smaller than the table and one as large both happen.
* **Pool**: more connections than ingests, and as many as ingests, are the two
  cases; the theorem covers the other numbers. With four, three requests are able to
  hold all that they may.
* **Team**: two invites to one address and three transactions are two that join and
  one that cancels or removes; other addresses share nothing with them, and the theorems
  cover them.
* **MaxFaults (2)**: any two of a lost alarm or resolution, a failed pass, and a crash.
* **Two windows, one hour and two**: a rule that is judged over its own window and one that
  is not; the theorems cover any.
* **TTL 2, Slow 1, MaxSize 2**: an entry is read, ages and expires in distinct
  steps; two entries of one org and one of another force eviction and partial
  invalidation. Ages replace absolute time, so no bound on time is needed.

* **SDKs**: two events with `BatchSize` 2 and `MaxRetries` 2 (20 and 3 in the code) make a
  flush by size, by timer and by leaving, and a first, middle and last attempt; two
  calls with a `Timeout` of 2 ticks; an app started up to three times (`MaxStarts`) makes an id, finds
  it, and loses it between the making and the storing.
* **MaxClicks 2, MaxRefresh 1**: two handlers on two rows or on one, a dialog turned from one
  to the other or two open at once, and a load of the page's own meanwhile. The theorems cover more.
* **MaxPicks 3, MaxAsks 2**: a selection is left, taken again and asked for twice.
* **Two tabs, MaxSignIns 2, MaxSends 2**: an older and a newer sign-in, and two
  requests whose answers overtake each other.
* **MaxShown, MaxIds, MaxStreams, History**: a stream that begins with an event, a list that
  overflows (2 events and 2 places, or 3 and 3), a break, a retry and a reconnect.

Symmetry is declared in `sync_lifecycle`, `rate_limit` and `api`, in the first with
`YoungVerdictFinal`, which speaks of single steps, and in the last for the cache only,
of which no temporal property is checked.

CHECK_DEADLOCK is off where a system may rightly stop: when all the syncs or
events of an instance are used up (`sync_*`, `events*`), when a client has made the calls
and clicks it may make (`clients`, `live_reconnect`), and in `pool_exhausted`, whose
property is about the seizure itself. In `ingest`, `rate_limit`, `alert_rules` and
`api` it is checked.

### Fairness

* *Syncs, recovery, poll*: weak fairness of each task's next step, of recovery and
  of the poll: the event loop returns to every task whose await has returned or raised,
  and the container restarts (`restart: unless-stopped`). That an await does return is not
  assumed of a sync: the API's pool has a `command_timeout` (`database.py:41`), the
  scheduler's has none, and a fetch has no end of its own, so a sync may `Stall` there, for
  good. It is assumed of the statements of recovery and of the poll. Users, crashes and
  stalls have no fairness. In `QuietSpec` no user acts: only the scheduler, the syncs,
  crashes and time.
* *Streams*: weak fairness of a stream's poll and send; the loop wakes every 3 s.
* *Ingest*: weak fairness of each request and of its limiter transaction: an acquire
  returns only when there is a connection, the database grants a row lock that is free.
* *SDKs*: of JsSdk, the flush timer and every request's end and retry; of NodeSdk, the clock
  and the abort by the timer. Nobody has to call, and a server has to answer, or to end what
  it answers, only where the client has no timer (JsSdk) and nothing is said of a call
  that reads an error's body without one (NodeSdk: `NodeTold` allows it to read for good). The
  rest of `clients` has no fairness.
* *Alerts*: weak fairness of the pass as a whole, and of a day's passing. Delivery
  is in the pass: it succeeds or consumes one of finitely many faults. A query that fails in
  every pass is thereby left out: the code does nothing to get past it, and no alarm of any
  rule is heard then.

### Divergences between the code and its documentation

With a run each (`findings` in `PROJECT.json`):

1. `scheduler/main.py:8-11` promises that an orphan's connector is retried on the next
   poll; the poll takes active connectors only, and recovery sets `error`.
2. `app/routers/ingest.py:4-7` promises 100 tokens per second under concurrency; the
   refill is computed with the clock after the lock and stamped with the clock
   before it.
3. `app/routers/stream.py:4` promises new events as they arrive; one that commits
   after a higher id was polled is passed over.
4. `app/routers/ingest.py:175` says the limiter's connection does not interfere with
   the request's; both come from one pool, and a full set of ingests seizes it.
5. `app/routers/stream.py:27-30` says that the frontend sends its cursor on a reconnect;
   `frontend/src/app/live/page.tsx:173` and `:239` start the stream without one, and
   the server begins it with the last 50 events, which are listed again.

Seen in the models without a run of their own:

* `frontend/src/app/alerts/page.tsx:195` shows an alert rule as a condition "over last" its own
  hours, and `scheduler/alert_evaluator.py:110-116` measures over the largest window of all
  rules on the metric: a message is true of that one (`MessagesAreTrue`), and may be false of
  the rule's own;
* recovery overwrites the verdict of an *old* run that finishes between its select and
  its update; a CSV waiting in a config is synced again by every later poll and trigger,
  as nothing clears it; an upload writes back the config it read and so undoes a PATCH
  in between;
* a page that reconnects misses more than 50 events; `forget` leaves the user's archived
  events; a live page whose stream ends (`done`) goes on saying "Live";
* a dashboard answer stored after an invalidation, and any sync of the scheduler,
  leave old numbers for a time to live, where `dashboard.py:45` says the next request
  reflects the new data;
* an invite is mailed before its transaction commits: a link clicked at once is not
  found;
* the repository's `README.md:255` lists buttons that ask for a typed word of which some (the
  revocation of an API key among them) use a plain dialog or the browser's;
* a wrong password is a 401, which `request()` takes for the end of a session: /login
  is loaded anew and the message is lost; the logout of the sidebar does not call
  the logout route;
* a dialog for a typed word that rows share keeps the word when the keyboard turns it to
  another row (`frontend/src/app/flags/page.tsx:377-385`, `ConfirmDialog.tsx:48-54`).

Some properties except what the code does otherwise, each by name: `ScreenTrue` the edit
of a flag that is refused (`Spoiled`) and lists that are copied or kept by hand;
`SaidDone` the handlers that do not look at the answer (`checks = "no"`);
`SelectionShown` the retention page and the archive browser (`Unordered`), and the answer that
the paths page and the copilot leave on the screen while a newer query is under way or has
failed (`Outlasted`); `JsSettled` events of a page that goes, and those of a flush that throws;
`NodeTold` a call that reads an error's body; `EverySyncEnds` a sync that stalls;
`SessionWhole` the key after an invite or a provider's sign-in. The hazards in
`PROJECT.json` say where.

## 4. What is proved

The proof modules show, for every value of the constants that satisfies the named
ASSUME of the module, that an inductive invariant (`IInv`, or one named for its
component where a module has several) holds and implies the properties. Each is a conjunction of named parts: the initial state satisfies it
(`InitIInv`), each action preserves it (one lemma per action or group), and the
temporal step combines these.

| Module | Theorems | What the invariant adds, and why |
|---|---|---|
| `ConnectorSync_proofs` | `TypeCorrect`, `SuccessIsLanded`, `EndedRunsSettled`, `ReferentialIntegrity`, `OrdersStayIdempotent`, `YoungVerdicts`, `QuietUntouched`, `SyncsMoveOn`, `OrphansWait`, `NeverRetriedAlone` | `PhaseInv` ties a task's place to its run's status: without it a young run could have a verdict its task does not know of. `LandInv` says a task about to mark has landed, and keeps the file it landed. `UpsertFacts` is the lemma on the orders table. `Stage` numbers the steps of a sync |
| `RateLimit_proofs` | `TypeCorrect`, `OverdraftBounded`, `NeverStricter`, `WithinRateUnlessWaiting` | `LockInv` excludes; `RowInv` and `HeldInv` are the books of the stored level and of the level the lock's holder has computed: the two inequalities are inductive only together |
| `Ingest_proofs` | `NothingLeaks`, `PoolNeverSeizes` of the pool alone; `Implements`, `WholeNothingLeaks`, `WholeNeverSeizes`, `WholeOverdraftBounded`, `WholeNeverStricter` of the composition | see below |
| `EventLog_proofs` | `TypeCorrect`, `Conservation`, `OptOutIsBounded`, `StreamAscends`, `NoneLostOnTheWay`, `SkipsOnlyOutOfOrder` | `IdInv` (ids are unique and drawn at the insert), `JobInv` (a job's rows were once committed), `StreamInv` (what was sent is below the cursor and below what is fetched), `WindowInv` (who may still pass an opt-out); for the last theorem `OrderInv`, `CursorInv` and `SentOrOnItsWay` |
| `AlertRules_proofs` | `TypeCorrect`, `DestinationKnows`, `MessagesAreTrue`, `DailyAtMost` | `TodoTold`: a rule still to be judged was told what the pass has loaded, the link between the stale snapshot and the table; `SendingInv`, `RungInv`, `PassInv` |
| `Api_proofs`, the cache | `TypeCorrect`, `Isolation`, `Freshness`, `SyncsShow` | `AgeInv`: age plus time left is at most time to live plus fetch, the quantity that expiry keeps; `OwnInv`, `PassInv`; `StoreFits` on eviction |
| `Api_proofs`, the team | `InvitesAreHonest`, `CancelIsFinal` | `FlightInv`: an invite that a transaction has claimed is pending until it commits; `AloneInv`: at most one transaction has written a row. Both are needed, as the claim and the commit are steps apart |
| `ListPages_proofs` | `TypeCorrect`, `SaidIsDone`, `WordAsked`, `NothingStuck`, `ScreenIsTrue` | `SafeInv` (what a handler has done at each phase, which dialogs are open and what was typed in them); `LoadInv`: a list that will be shown was read after every click that is finished; `ScreenInv`: the screen is in step, or a load or a handler that will bring it into step is under way |
| `Clients_proofs`, the SDKs | `NoNeedlessCopy`, `QueueIsBounded`, `LastFlushTakesAll`; `ResolvedIsHandled`, `EndsAreFinal`; `OneVisitor`, `DeviceIdKept`, `RnTypes` | JsSdk: `QueueInv` (the queue has each call once and less than a batch) and `BudgetInv`: copies, requests that may still land and the one in the air are at most the attempts, and every attempt but the first follows an error. `HeldInv`: a queued event is in the queue. RnSdk: `IdInv`, the id in memory, in the draft and in the events is the one on the disk |
| `Clients_proofs`, the screens | `WholeSession`, `SessionTypes`; `SelectionIsShown`, `QueryTypes`; `OneStreamRead`, `TwiceTakesTwoStreams`, `LiveTypes` | QueryPages: `InTurnInv`, all queries in the air of a part that asks in turn are for what it asked last. LivePage: `CurrentInv` (only the last stream is read), `ReadInv` and `FeedInv` (what the feed lists its stream has read, in order). Session: `SessionWhole` is inductive with its types, in which every token in storage and in a request is of a sign-in that was made, and with `KeyedBy`: a sign-in that brought a key has stored it with its token |

**The refinement.** `Implements` says that Ingest implements Admission: initial states map to
initial states, and each step to one of Admission or to a stutter (`StepsKept`). The
invariant is the conjunction of that of the pool, that of the limiter (the lemmas of
`RateLimit_proofs`, through an INSTANCE with `tx` for its program counter) and `TogetherInv`,
which ties the place of a request, its transaction and its verdict to each other. A
denial maps to `Deny` because the level the limiter has is never below that of the
exact bucket, and that is `NeverTooStrict`.

**The lists.** What the tables have in common, and the theorems rest on, is an assumption with
a name (`TableAssumption`), which TLC evaluates for the tables of all pages: on a page of
SWR, what writes ahead of the server or after it loads the list again, a handler
that keeps a result looks at the answer and no handler of its page loads, and a page that
takes a refusal for a list has neither.

**A connector left alone.** `QuietUntouched` is proved of `Spec`, in which the users of all
connectors act, and so (`QuietIsSpec`) of the `QuietSpec` that `sync_quiet` checks. Every
UPDATE of a status names the connector of its own task: a task that is in the middle of
a step keeps its connector busy, so the row it touches is another one.

**Liveness, the part that needs no fairness.** For most liveness properties there is a theorem
on what a step may not do, from which the property follows by the fairness of the
specification: a sync never goes back (`SyncsMoveOn`); a selected orphan waits in a
scheduler that is recovering (`OrphansWait`); an event on its way over a stream is not lost
from it (`NoneLostOnTheWay`, with `OldestFirst` on what a poll fetches); the last flush of
a page takes the whole queue (`LastFlushTakesAll`); the end of a call to the Node SDK is
true and final (`ResolvedIsHandled`, `EndsAreFinal`); some owner of connections can always
go on (`WholeNeverSeizes`).

**The causes of the findings.** A run shows that a documented promise fails; a theorem says
what it takes, and that nothing else does it.

* `sync_retry`: while users do nothing a connector at rest in error stays there
  (`NeverRetriedAlone`): the poll takes no connector in error, and recovery sets it again.
* `rate_limit`: the documented rate is kept while no transaction has waited for the lock
  (`WithinRateUnlessWaiting`, from `OverdraftBounded`).
* `pool_exhausted`: the pool never seizes up with fewer ingests than connections
  (`WholeNeverSeizes`).
* `events_skip`: where transactions commit in the order of their ids (`CommitsInOrder`),
  no stream passes over an event (`SkipsOnlyOutOfOrder`).
* `live_reconnect`: an event listed twice came over two streams (`TwiceTakesTwoStreams`).

Model-checked only: the liveness properties themselves (`EverySyncEnds`, `OrphansSettled`,
`LiveDelivery`, `EveryRequestEnds`, `TroubleIsHeard`, `JsSettled`, `NodeTold`), which rest on
fairness and are out of the prover's reach. Every other property of a passing run is
stated by a theorem.

### Assumptions

* Postgres: READ COMMITTED as documented; a commit either happens or raises.
  Ambiguous commits (an error after a commit took effect) are not modelled, except
  as "rows landed, run failed" in step 5 of a sync. Deadlocks between transactions
  appear as rollbacks.
* The scheduler's database role sees all orgs, as its comments say.
* One clock: application and database agree on the time.
* An org's data is separate from another's: ConnectorSync, RateLimit, Ingest and EventLog
  model one org; DashboardCache, where orgs share memory, models several, and so does
  Team, where they share the email addresses.
* SWR, the browser's fetch, AsyncStorage and localStorage do what the code expects of
  them; they are marked external in `PROJECT.json`.

## 5. What is not modelled, and the plan

Not modelled, with reasons per component in `PROJECT.json`: pure I/O (mail, chat,
exports), rendering, text processing (copilot, PII scan), scripts run by hand, and
read-only aggregates whose correctness is that of their SQL. Of modelled components:
reading routes, and the change of a member's role.

What would be worth adding, the most consequential first:

1. **OrgContext**: pooled connections with the role and org of their transaction
   (`SET LOCAL`), the policies as a predicate on role and org, and every way a
   request obtains a connection. To prove: no statement sees a row of another org.
   Composed with ConnectionPool, of which it refines the ownership of connections.
2. **OrdersStore**: an abstract specification of `orders` (a map from id to the last
   committed row), which ConnectorSync and the webhook implement through
   INSTANCE ... WITH. The refinement would be proved from `UpsertFacts` and the
   uniqueness of ids that `OrdersStayIdempotent` has.
3. **Accounts**: login and the failed-login counter, whose increment the raised error
   rolls back, key rotation against requests in progress, and roles in Team, with two
   admins who act on each other.
4. **FlagsReports**: read-then-write patches of two admins, and `rollout` as a
   function of user and percentage (monotonic in the percentage).
5. **AnomalyDetector**: baselines per slot, the sample threshold, the cooldown.
6. **Share**: a second cache in DashboardCache, with revocation and expiry.
7. **Pure algorithms**: CSV coercion, alert metrics over windows, funnel steps,
   retention cohorts, as recursive functions or folds, each against a reference
   definition over bounded inputs.
