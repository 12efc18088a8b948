# Verification of the CCTV Health Monitor

TLA+ models of the parts of this repository whose correctness depends on the
order in which things happen, checked with TLC on small instances, and theorems
about all ten of them proved with TLAPS. Paths below are relative to the root of
the repository.

The system watches fleets of cameras and recorders. Devices report to a Go
backend (`backend/`), which keeps their state, raises alarms, opens work orders
in a CMMS, measures service levels (SLA), and lets a self-healing agent repair
what it can. Field engineers use a React Native app (`mobile/`) that must work
without a network. An edge agent (`edge-agent/`) and a P2P gateway
(`p2p-gateway/`) stand at the customer's site, React (`frontend/`) and Tauri
(`desktop/`) clients on the operator's desk.

## 1. Components

### 1.1 Modelled

| Component | Source | State it keeps | Operations | Hard behaviour |
|---|---|---|---|---|
| ApprovalManager | `backend/internal/agent/approval.go` | requests, a decision channel of capacity 1 for each | RequestApproval, Approve, Reject, WaitApproval, CleanupExpired | operators, waiters, timers and a janitor race; the result is sent after the unlock |
| CMMS dispatcher | `backend/internal/cmms/dispatcher.go`, `fallback_queue.go` | circuit breaker in separate atomics, queue directory on disk | processWithRetry, allow/success/failure, processFallbackQueue, Enqueue/MarkRetry/Remove | several workers in the breaker, lost answers, crashes between the call and the disk |
| Device state | `backend/internal/state/jetstream_manager.go`, reaper in `backend/main.go` | JetStream KV bucket, per-pod cache of pointers, watcher | Get, Set, UpdateLastSeen, SetOnline, SetOffline, AddAlarm, Delete, watch, reload | several pods write one key, the cache is shared memory, failed puts, reconnects, restarts |
| SLA tracking | `backend/internal/sla/engine.go`, `worker.go` | trackers in memory; the worker's batch | StartTracking, UpdateStatus, CompleteWorkOrder, evictStaleTrackers, processBatch | the batch is older than the tracker; pauses, completion and eviction in between |
| Mobile SyncService | `mobile/src/services/syncService.ts`, `offlineStorage.ts` | SQLite `pending_sync`, `_status`, `_isSyncing` | enqueueMutation, syncWhenOnline, syncNow, initialize, network handler, background task | five callers of one run, outages and kills at every await |
| Mobile action queue | `mobile/src/store/syncStore.ts`, `hooks/useOfflineSync.ts`, `components/CompleteWorkOrderWizard.tsx`, the checklists | array of SyncAction objects, WatermelonDB table `pending_mutations` | addToQueue, processQueue, loadQueue | a pass works on a copy of the array, two passes start at once, a load puts back what a pass removes |
| Mobile differential sync | `mobile/src/services/differentialSync.ts`, `api/sync.ts`, `store/syncStore.ts` | cursor `lastSyncTime`, the batch, `pending_sync` (shared with SyncService) | startSync, pull, three-way merge, push with retries, removal of rows | one cursor for all entities, rows found by entity and not by change, a second service on the same table |
| Mobile session | `mobile/src/api/client.ts`, `api/auth.ts`, `store/authStore.ts`, `utils/storage.ts`, `backend/internal/auth/refresh_token.go` | three keys of AsyncStorage, `refreshPromise`, the server's refresh tokens | the response interceptor, login, logout, loadStoredAuth, RotateRefreshToken | requests share one refresh, keys are written one await at a time, each token serves once |
| Webhook delivery | `backend/internal/webhook/delivery.go`, `pg_store.go`, `backend/internal/api/integration_handlers_extended.go` | delivery log in PostgreSQL, goroutines with copies of rows | Deliver, processPending, performDelivery, manual retry, deletion of an endpoint | rows sent by several goroutines, crash between request and record |
| Disaster recovery: failover | `backend/internal/dr/failover.go` | active failover, history, flag of the health monitor | InitiateFailover, ApproveFailover, RejectFailover, executeFailover, RollbackFailover | the lock is released between approval and execution; steps fail half-way; nothing is stored |

What makes each of them correct:

* **ApprovalManager**: one verdict per request, for good; an approval releases
  at most one waiter, so a fix is started at most once; nobody blocks on the
  channel; every caller comes back.
* **CMMS dispatcher**: an event that was received is executed, on disk, in hand
  or loudly given up on; it is given up on only after the retries; a second
  execution has a cause; the queue drains whatever the breaker does.
* **Device state**: when nothing is in flight every cache equals the bucket; a
  pod that only reads ends with the last revision.
* **SLA tracking**: elapsed time is exactly the unpaused time; a breach is
  declared when the target is spent, not earlier, is found, announced unless a completion
  overwrites it in the worker's hand, and not undone by holding the order.
* **SyncService**: no mutation is forgotten, given up early or applied twice
  without a cause, and the queue drains.
* **Action queue**: a completion whose row was written is sent or given up
  before the row goes (a checklist action is not, section 4); an action is sent twice only
  for a known reason; its tries are bounded; the array does not fill for ever.
* **Differential sync**: a success means that the cached orders are as fresh as
  the server was at the start; a row leaves unsent, or is sent twice, only
  for a known reason; every sync ends.
* **Session**: the stored keys and the screen tell one story; the refresh token of
  a technician who is signed in still serves unless an answer of this login was never
  heard, and a token whose answer was heard is not kept; every refused request comes to an end.
* **Webhook delivery**: a success was accepted by the receiver, and gives way only to the failure
  of an older copy or to a manual retry; a cancelled row
  has used its retries; duplicates have a cause; a pending row gets an outcome.
* **Failover**: one execution per approval; rejection is final; the flag does not
  outlive the executions; every execution ends.

### 1.2 How they interact

* Protocol handlers (`backend/internal/sip`, `protocols`, `ingestion`) call the
  device state manager; the wrapper in `backend/main.go` queues a database
  write (DBWriter) for each call and sends alarms to the WebSocket hub.
* Events travel over NATS (`backend/internal/events`): a subscriber hands each
  message to one of four goroutines, among others the CMMS dispatcher's.
* The agent asks for an approval and blocks in WaitApproval; operators answer
  through the HTTP API or Telegram.
* The SLA worker polls work orders from PostgreSQL, updates the engine, and
  publishes SLA events. The CMMS sync (`backend/internal/sync`) writes work
  orders from external systems.
* The failover manager sets the health monitor's `FailoverInProgress`; the API
  serves both to administrators. The app's server calls are HTTP requests to
  the same API.

* In the app three services hold work done in the field: SyncService and the
  differential sync empty the same table `pending_sync`, and the action queue has a table of
  its own. All of them send through the client whose tokens the session module keeps.

Most components share no variable: they meet through messages
whose delivery each model leaves open (an event may come at any time, an
operator may answer in any order), so a model stands alone, composed
with the environment that its component really has. Where two share state, one
model has both sides: DeltaSync has SyncService's push as the other user of the table
(`PushFetches` to `PushThrows`), TokenRefresh the app and the server that rotates its tokens.

### 1.3 What the program constructs

`backend/main.go` wires the device state manager, the reaper, the failover
manager and health monitor, the CMMS sync, the event store and the API. It does
not construct the SLA worker and engine, the CMMS dispatcher, the self-healing
agent, the workflow engine, VPN sessions or quotas; nobody calls
`DeliveryWorker.Deliver`, `RollbackFailover` or, tests apart, `SLAEngine.CompleteWorkOrder`; the edge agent never constructs
its OTA updater. In the app, no screen shows SyncStatusIndicator, whose button starts
the differential sync. Their models describe the components as their own code and
tests use them. One wiring matters to the models: the failover manager and the
health monitor are built (`backend/internal/api/router.go:437`, `server.go:773-789`) before
`main.go:530` sets the NATS connection, so their connection is nil for good.

### 1.4 Not modelled

PROJECT.json lists every part with its sources and reason. In short:

* **Planned** (section 8): DBWriter and shutdown order, WebSocket hub, DR health monitor, map tiles, QR life
  cycle, decisions and playbook cooldowns of the agent, VPN sessions, tenant quotas, OTA updates, edge
  offline queue, audit chain, workflow engine, worker pool, DR drills and
  per-tenant failover.
* **No interesting interleaving in this program**: the event store (`backend/internal/events`) receives
  two records in its life, one at start-up and one at shutdown, from one goroutine; the CMMS sync
  (`backend/internal/sync`) selects work orders by `external_id`, which no code sets, so its
  loop has no order to work on.
* **Single-process variants** of what is modelled: in-memory and Redis state managers.
* **I/O with little state of its own**: device protocols and parsers, CMMS adapters,
  notification channels, SLA notifier and dashboards, P2P gateway, discovery and
  Lua plug-ins, integrations, storage, telemetry, configuration.
* **No behaviour over time**: reports, compliance documents, data models, analytics,
  numerical heuristics (AI, ML, RCA, video quality), inventory and meters.
* **User interface**: the frontend, the desktop shell and the mobile screens, nearly all of the repository's
  TypeScript. A component renders props and calls the API; what it keeps over time is a form
  or the state of a table, and several of the stateful ones are mounted nowhere (workflow builder, bulk
  operations, alert center, maintenance and regulatory checklists). The WebSocket store never gets the token without
  which it does not connect. Mapping such code to a model would lengthen the list and say nothing about behaviour.
* **Security components** (authentication, OAuth2, crypto, secrets, DLP): outside the
  purpose of this project, which states functional correctness.
* **Infrastructure**: containers, migrations, end-to-end tests.

## 2. Modules

| Module | Role |
|---|---|
| `OneVerdict` | abstract promise of an approval request |
| `ApprovalFlow`, `MCApprovalFlow`, `ApprovalFlow_proofs` | the ApprovalManager, its instance, its theorems |
| `AtLeastOnce` | abstract store-and-forward queue: what CmmsDispatch and OfflinePush promise |
| `CmmsDispatch`, `MCCmmsDispatch`, `CmmsDispatch_proofs` | CMMS dispatcher, breaker and fallback queue, their theorems |
| `DeviceState`, `MCDeviceState` | device state on several pods, its instance |
| `SlaTracking`, `SlaTracking_proofs` | SLA engine and worker, their theorems |
| `OfflinePush`, `OfflinePush_proofs` | push half of the mobile SyncService, its theorems |
| `ActionQueue`, `MCActionQueue` | the app's older queue, its instance |
| `DeltaSync`, `MCDeltaSync` | the app's differential sync beside SyncService, its instance |
| `SyncStore_proofs` | theorems about the two ways of the app's store to send: ActionQueue and DeltaSync |
| `TokenRefresh`, `TokenRefresh_proofs` | the app's session and the server's refresh tokens, their theorems |
| `WebhookDelivery`, `WebhookDelivery_proofs` | webhook delivery, its theorems |
| `DrFailover` | failover manager |
| `Cluster_proofs` | theorems about the parts of the cluster `main.go` builds: DeviceState and DrFailover |

Two proof modules speak of two specifications each. So that they can extend both, the names of DeviceState and
DeltaSync carry the module in them (`DeviceSpec`, `DeviceTypeOK`, `DeltaSpec`, `DeltaTypeOK`); the other modules have a `Spec` and a `TypeOK`.

Common conventions. A critical section of the code is one action; code outside a
lock, or around an `await`, is split into one action for each access to shared state.
`pc` names what a goroutine does next. Variables of the code keep their names where
TLA+ allows it; bookkeeping variables are marked as such and at most bound how often
the environment acts. Constants called "bound" in their comment limit the exploration and nothing
in the code corresponds to them. Definitions commented as "slip" are plausible
mistakes; no specification uses them, they serve to show that the properties
notice such a mistake.

### 2.1 ApprovalFlow

One request: requests share only the map. `status`, `listed`, `chanListed` are
the entry in `am.requests` and in `am.decisionCh`, `channel` the buffered channel,
`overdue` says that ExpiresAt has passed.

| Code | Actions |
|---|---|
| RequestApproval | `RequestApproval` |
| Approve, Reject -> resolveRequest | `Resolve` (critical section), `Send`, `Forget`; `ResolveRefused` for the two errors |
| WaitApproval | `WaitLookup`, `WaitCheck`, then one of the arms `WaitReceive`, `WaitTimeout`, `WaitCancelled` |
| expireRequest | `Expire`, then `Send`, `Forget` |
| CleanupExpired | `CleanupExpired` |

The send on the channel and the second critical section are steps of their own,
so a waiter can be anywhere when they happen.

### 2.2 CmmsDispatch

`cbState`, `failCount` and `cooled` (lastOpen plus resetTime has passed) are separate
atomics in the code, so `allow()`, `failure()` and `success()` are several steps
each: `Allow` and `HalfOpenSwap`; `CountFailure`, `StoreLastOpen`, `StoreOpen`;
`ResetFailures`, `CloseBreaker`. `Receive`, `CallHandler` and `Enqueue` are
processWithRetry, `Tick` to `Remove` are processFallbackQueue. The CMMS is external: a call may
take effect although its answer is an error. `Crash` keeps the directory and
loses everything else. Events are numbered in the order in which they arrive.

`Delivery` instantiates AtLeastOnce: an event is open while a worker has it in hand or the disk keeps it, and abandoned
once it was dropped at the limit or lost in a crash. OfflinePush has the same: a mutation is open while it has its row.

### 2.3 DeviceState

The cache holds pointers, and handlers mutate the object they got, so the model
has a small `heap` per pod: `cache` and `ref` point into it, `payload` is the JSON
about to be put. `GetCached`, `FetchFromKV`, `FillCache` are Get; `Mutate` is the
body of UpdateLastSeen, SetOnline, SetOffline, AddAlarm or a registration (`backend/internal/sip/handler.go`); `Put`, `PutFails`,
`StorePointer` are Set; `DeleteFromKV`, `DeleteFromCache` Delete. `Watch`
delivers the next revision to a pod, `Reconnect` reopens its watcher at the last
value of the key, `Restart` reloads the pod. `ReaperCheck` is the reaper's decision.
`Collect` clears objects nobody points to, so that equal states are equal.

### 2.4 SlaTracking

One work order. `tracker` is SLATrackerState; time is a tick counter.
`StartTracking`, `UpdateStatus`, `CompleteWorkOrder` and `Evict` are the engine's
methods, each under its mutex. The worker's processBatch is `List`,
`ReadPrevious`, `UpdateStatus`, `Compare`, `Publish`: it carries `listed` and
`prevStatus` from one step to the next while the order changes in the database
(`SetOrderStatus`) and the tracker changes in memory: UpdateStatus returns the tracker
itself, so `Compare` and `Publish` read what `CompleteWorkOrder` may have written after the
unlock. `found` remembers a breach of UpdateStatus, `overtaken` that a completion took it
out of the worker's hand. Only engine_test.go:320 calls CompleteWorkOrder today. `Target` is in working time, and `Closed` is the non-working time that
the business calendar puts between creation and the deadline.

### 2.5 OfflinePush

JavaScript is single-threaded, so a step runs from one `await` to the next.
Mutations are numbered in the order in which they are made. `pending` is the table (each row and its
retry count), `batch` the rows a run fetched and has not reached, `mutation` the loop's variable. `Fetch`, `TakeMutation`,
`CallSucceeds`/`CallFails`, `RemovePendingMutation` or `IncrementPendingRetry`
(and `Drop`), `Pull` are one run; `SyncWhenOnline`, `SyncNow`, `Resume` (the
rest of enqueueMutation and of initialize) and `NetworkRestored` start one.
`Wake` is the background task, which loads the module into a fresh runtime
without initialize, so the app is "woken" and does not hear the network. `Unsent` holds the
payloads that no case of `_executeMutation` sends; what becomes of them is in section 4 (MCOfflineUnsent.cfg).

### 2.6 WebhookDelivery

`rows` is webhook_delivery_logs of one endpoint, `batch` what the poller read and
has given to goroutines that have not run yet (in any order), `held` the copy of a row that a goroutine works on.
`Deliver` creates a row and sends it at once; `Poll`, `Spawn`, `Lookup` bring a row to a
goroutine; `Respond` is the HTTP request, `RecordSuccess` and `RecordFailure`
its record through UpdateDeliveryLog, which counts an attempt and asks nothing of the row. `RetryRead`
and `RetryWrite` are the two steps of the manual retry. An endpoint that is
deleted while a goroutine looks it up ends the process (`Panic`): GetWebhookEndpoint returns nil
without an error and its secret is read.

### 2.7 DrFailover

Every HTTP request is a goroutine. `ApproveFailover` ends a critical section with
status "approved" and `exec[e] = "start"`; `Begin` is the next one. `Succeed` and
`Fail` are the outcomes of publishing for DNS, the database and NATS, in the order of the code;
`FailFailover` and `Complete` end it. A message is an action and a timestamp, without the region
the caller names (failover.go:443-446), so a failover and a rollback publish the same and the model has no
region: `done` is what an execution has published (`Published`). `back` has the calls of RollbackFailover, which look
at no status and at no other call: `RollbackFailover`, `Undo`, `UndoFails`, `MarkRolledBack` (the
status, written without the lock) and `RolledBack`. `Connected` says whether the manager has a NATS
connection: without one publishNATSMessage returns nil at once, so nothing is published
and `Fail` and `UndoFails` cannot happen. That is the case of the program as it is (section 1.3). `Crash` loses everything in memory.

### 2.8 ActionQueue

`stage` follows each call of addToQueue (row, then array); `rows` is the table, `queue` the array
of objects, each with the load that made it, because its `retryCount` lives in the object and never in the
row. `pass` is a run of processQueue: its copy of the array (`kept` so far, `todo` still), its
`processedIds`, and where it awaits. `Foreground` is the return of the app, which starts two passes:
`setOnline(true)` and the hook each call processQueue. `ServerExecutes`, `RequestSucceeds`, `RequestFails`
are one request; `Loop` runs on over checklist actions, which the code only logs; `Cleanup` destroys the rows
of what was sent, logged or given up (`given`).
`FetchRows` and `StoreQueue` are loadQueue. `Restart` is a kill and the next start.

### 2.9 DeltaSync

Times serve for comparisons only, so the model keeps their results: `changed` are the entities that changed after
`lastSyncTime`, `stale` those that the phone shows as they were before. `sync` is the run: `PullEntity`/`PullFails` for each
entity, `Collect`, `Resolve` (the merge, which drops edits of server-authoritative fields),
`ApplySucceeds`/`ApplyFails` (five attempts), `RemoveRow`/`RemoveFails` for each change sent. A row is looked up by its entity,
so the oldest one goes.

SyncService's push is on the same table, and `other` is its run: `PushFetches`, for each row a call that succeeds
or throws (`PushSucceeds`, `PushFails`, perhaps after the server executed it), `PushRemoves` or `PushCounts`,
the removal after three failures, and `PushThrows` for SQLite's exceptions. A payload in `Unsent` counts as sent without a
call (`skipped`). The two services know nothing of each other, which is the point of the module.

### 2.10 TokenRefresh

A pair of tokens is a number; `login` and `active` are the server's table. `request` says where each
request awaits and what it writes, `screen` what a login or logout screen writes, `refresh` is
`refreshPromise` with the server's answer. A writer stores or removes one key a step (`Write`, `Advance`); at its last step it sets the
state of the app. `Rotate` and `Refuse` are RotateRefreshToken, `Renewed` and `RenewalRefused` resume
every request that waits with the answer, `RenewalLost` without it: after 15 seconds or a broken connection. A POST given up on,
there or by a kill, stays in `late` until the server takes it (`ArrivesLate`), if ever. `answered` are the tokens whose
answer the app heard, `unheard` the logins of which it missed one. `torn` remembers that writers of different pairs
overlapped, or that the app died while a writer was at work; a kill amid a refresh alone does not set it.

## 3. Runs that pass

`tlc -workers 2 -config <cfg> <module>`. Every property of these runs is violated
by at least one of the slips in the modules, so none of them holds by the shape of the
model. Action properties and invariants need no fairness; temporal ones use FairSpec (section 5).

| Run | Configuration | States | What it shows |
|---|---|---|---|
| approval | MCApprovalFlow.cfg: 2 deciders, 2 waiters, fair | 6,656 | one verdict and one message, at most one approved waiter, every caller returns, and OneVerdict is implemented |
| cmms_dispatch | MCCmmsDispatch.cfg: 2 workers and the fallback worker, 3 events, threshold 2, 2 retries, 1 crash, fair | 1,627,117 | no event is forgotten, dropped early or executed twice without a cause, and entries of the queue are executed or given up on, whatever the breaker does |
| device_state | MCDeviceState.cfg: 1 writing and 1 reading pod, 3 revisions, the reaper, failing puts, restarts, deletes, fair | 321,787 | caches converge to the bucket; the reader ends with the last revision |
| sla_tracking | MCSlaTracking.cfg: target 12, 1 closed tick, age limit 9, 15 ticks, fair | 608,690 | the clock is exact, breaches are real, found and not undone by a hold, and announced unless a completion overwrites them in the worker's hand |
| offline_push | MCOfflinePush.cfg: 3 mutations, one of them sent by no case, 1 outage, 1 kill, fair | 1,096,574 | no mutation is forgotten, dropped early or applied twice without a cause, and every row leaves the queue |
| action_queue | MCActionQueue.cfg: a completion, then a checklist answer, 2 passes at once, 1 more load, 1 kill, fair | 746,943 | no completion loses its row unsent, nothing is sent twice without a cause, tries are bounded, the array empties |
| delta_sync | MCDeltaSync.cfg: an edit of the status, then one of the notes, which SyncService does not send, 2 attempts, 2 failures, fair | 1,511,860 | a success means fresh orders, rows leave unsent or are sent twice only for a reason, every sync ends |
| token_refresh | MCTokenRefresh.cfg: 2 requests, 3 pairs of tokens, 1 kill, fair | 1,451,268 | the session stays of one piece and serves, unless an answer was missed; no answered token is kept; every refused request comes to its end |
| webhook | MCWebhookDelivery.cfg: 2 deliveries, 2 goroutines, 2 retries, 1 row per poll, 1 manual retry, 1 fault, fair | 1,618,350 | outcomes are genuine, a success gives way to older copies and manual retries only, duplicates have a cause, a pending row gets its outcome |
| dr_failover | MCDrFailover.cfg: 2 failovers, 2 rollbacks at a time, connected, 1 crash, fair | 435,824 | one execution per approval, no stuck flag, rejection final, every execution ends |

The properties, by run:

* approval: `ApprovedOnce`, `TimeoutCloses`, `CallersReturn`, `ImplementsPromise`.
  `SendNeverBlocks`, `ApprovalGenuine` and `VerdictFinal` are proved instead (section 6).
* cmms_dispatch: `NoSilentLoss`, `DroppedOnlyAfterRetries`,
  `DuplicatesExplained`, `QueueDrains`.
* device_state: `Converged` (no revision undelivered, no method under way, no failed put outstanding: the
  cache equals the bucket), `ReadersCatchUp`.
* sla_tracking: `ElapsedIsWorked`, `BreachedWhenSpent`, `BreachAnnounced`,
  `NoWayBack`, `BreachNoticed`.
* offline_push: `NothingForgotten`, `DroppedAfterThree`, `DuplicatesExplained`,
  `QueueDrains`.
* action_queue: `CompletionsKept`, `DuplicatesExplained`, `TriesBounded`, `QueueEmpties`.
* delta_sync: `WorkOrdersCurrent`, `LeftUnsentExplained`, `SentTwiceExplained`, `SyncEnds`.
* token_refresh: `SessionWhole`, `StoredTokenServes`, `AnsweredNotKept`, `RequestsSettle`.
* webhook: `SuccessGenuine`, `SuccessKept`, `CancelledOnlyWhenSpent`, `DuplicatesExplained`,
  `PendingSettles`.
* dr_failover: `ApprovedOnce`, `NoStuckFlag`, `RejectedNeverRuns`, `FailoverEnds`.

The "explained" properties are read with the bookkeeping they mention. `unsure`, `blind` and
`reasons` count the events (an answer lost, a crash before the record, a row polled or loaded while
it is sent, two passes that hold one action, a manual retry) each of which allows one more execution; no state of
the code has one more than that. `again` and `shifted` do the same without counting: a mutation that some event
gave a reason to be sent once more, and a table whose rows no longer match the batch. `skipped`, `refused` and a `retries` at its limit
are SyncService's and the server's reasons to leave a mutation unexecuted. `torn` says that
writers overlapped, `unheard` that an answer was missed, `overtaken` that a completion wrote over a breach. Each of them is the narrowest
condition under which the property still holds; where a comment of the code promises the property without it, section 4 has the run
that shows the case it excludes (SLA, unsent payloads, checklist actions). `reasons` stops at
`MostCopies`, which is no bound of the exploration: it is computed from the constants, and a lemma (`HoldersCounted`,
`CopiesCounted`) says that there can never be more copies than that to send, so a larger count would tell nothing more.

### Bounds, and why they are enough

* **approval**: a race needs two callers of one kind, and a third to
  read what the others sent; each caller acts once. The theorems lift the bound.
* **cmms**: threshold and retry limit 2 are the smallest at which "one failure is not
  enough" shows; three events keep both workers and the fallback worker busy at once, and
  with fewer the fallback worker never meets a breaker that a worker has half-opened. One crash meets
  every step; the theorems lift the bounds.
* **device_state**: three revisions allow a stale copy, a delete and a newer write; `now` matters
  only through "silent for longer than the timeout", which two readings show. One device
  and one goroutine per pod: races inside a pod are not covered. The theorems lift the number of
  pods, revisions and clock readings, and that of writers where it can be lifted (section 4).
* **sla_tracking**: 12 ticks of target make every escalation level (less than a half, a
  quarter, a tenth is left) occur at its own tick, 15 ticks pass the target with pauses in between, an age limit below the
  target lets eviction race the breach.
* **offline_push**: three mutations make a run that has done one, holds one and has one to come, and one of
  them is of the kind no case sends; three retries are the constant of the code, so no bound is put on failures.
* **action_queue**: one action of each kind, since the loop treats the kinds differently and a pass
  holds one while it logs the other; two passes are what one return of the app starts, and the smallest number that
  overlaps; the extra load and the kill bring objects back under new counts. The code does not keep a second return from starting
  more (mobile/src/hooks/useOfflineSync.ts:14-22). The theorems lift
  all the bounds: with n passes at once an object is tried at most 3n - 1 times.
* **delta_sync**: two edits of one order are what it takes for a row to leave in place of another; one
  field is the server's, one the technician's; one of them is a payload that SyncService does not send. Kills, failures and changes of the
  server have no bound. `Changing` leaves out the devices where no property of the run is about them. Two requests for a batch (five in the code)
  are a first and a last one, two failures of a row (three in the code) likewise. The theorems lift the bounds, so they hold for the code's numbers.
* **token_refresh**: two requests share a refresh or miss it by a step; three pairs are the first, a renewed one
  and one of a login (or of a second renewal), one kill may come between rotation and storage. A POST can be late once for each time the app gave one up, and nothing else bounds it. The theorems lift the
  bounds.
* **webhook**: two goroutines hold one row, or the two rows of two deliveries, of which a poll hands out one; retry count 2
  distinguishes first, middle and last attempt, a manual retry exceeds it; one fault at any place. The theorems lift all of it.
* **dr**: two failovers are what it takes to overlap, two rollbacks likewise. The run is connected, so that moves can fail too; without a
  connection the same steps but those happen. The theorems lift the bounds and hold for both.

## 4. Runs that find a disagreement

Each of these configurations checks one property that a comment, a document or a
name in the repository states, and TLC shows a behaviour of the code that violates it. The first two are
among the runs of PROJECT.json, with their findings: they take several actors to happen, and
what they break stays broken. The others are run by hand, `tlc -config <cfg> <module>`, on the module that states the property (SlaTracking, OfflinePush, MCActionQueue, MCDeltaSync, WebhookDelivery and DrFailover, in the order of the table); each is small and ends in seconds.

| Configuration | Statement | What the code does |
|---|---|---|
| MCDeviceStale.cfg (run device_stale) | jetstream_manager.go:12, the watch keeps caches current: `Converged` with a writer on each pod | StorePointer puts an older object over a newer revision already delivered |
| MCTokenReuse.cfg (run token_reuse) | client.ts:53-54, of several refused requests one refreshes and the others wait: `OneRefreshPerToken` | a request that read the old token before the answer to another finds `refreshPromise` empty and posts the token again, which the server takes for theft: the family is revoked and the technician logged out |
| MCSlaOvertaken.cfg | worker.go:569, a changed status is published: `FoundIsAnnounced` | UpdateStatus returns the shared tracker; a completion before the calendar deadline writes "on track" into it before the worker compares (line 570), and the breach is published by nobody |
| MCOfflineUnsent.cfg | syncService.ts:233-234, queued mutations are executed: `RemovedIsExecuted` | "cancelled", which DashboardScreen.tsx:269-274 queues, is sent by no case (lines 424-451) and its row removed as done (396) |
| MCChecklists.cfg | RegulatoryChecklist.tsx:239 and i18n.ts:310, what is saved offline will be sent, and syncStore.ts:384, rows go after success: `StoredUntilSent` | a pass logs checklist actions and destroys their rows (404-408, 428-439) |
| MCDeltaDevices.cfg | differentialSync.ts:144-145, a sync pulls and stores the server's changes: `AllCurrent` | the answer to work orders moves the cursor (442-444) before devices are asked for; what changed of those earlier is not fetched, and the sync reports success |
| MCWebhookRetry.cfg | delivery.go:7, deliveries are retried with exponential backoff: `FailedIsRetried` | a failure is stored as "failed" and the poller selects "pending" (pg_store.go:39), so no automatic retry ever happens |
| MCDrUnconnected.cfg | runbook.md:178-183, after the approval DNS, database and NATS are moved: `CompletedSwitched` | without a connection nothing is published and no error given (failover.go:434), so a failover is "completed" with nothing asked for; the program builds the manager before the connection |
| MCDrActive.cfg | failover.go:91 and 208, the active failover is the one that executes, and is alone: `ActiveIsExecuting` | between the approval's unlock (274) and `Begin` a new event becomes the active one, and may be approved and executed as well |

MCDeviceStale (with more than one pod), MCTokenReuse, MCOfflineUnsent, MCDrUnconnected and MCDrActive concern what the program constructs and uses as it
is. MCSlaOvertaken, MCDeltaDevices and MCWebhookRetry concern code that nothing calls yet (section 1.3), and MCChecklists needs a screen that mounts a checklist.
SyncService's payload of MCOfflineUnsent is what `Unsent` stands for in the runs, and `Connected` in dr_failover is what MCDrUnconnected denies: the properties of that run
say nothing of what a failover moves.

### Disagreements read in the code and not run

The models behave as the code does in the following places too, where a comment or a
document says otherwise; no property states the comment's claim.

* jetstream_manager.go:197 says that Set is atomic; a method on an older copy (line 371) writes the whole device back,
  without an alarm stored meanwhile.
* syncStore.ts:384 says that rows go after they were processed successfully; rows given up after three failures go as well (415-418).
* differentialSync.ts:505-513 collects conflicts for the technician; they are pushed and removed all the same, and no screen reads the list.
* auth_handlers.go:348 hands RotateRefreshToken an empty user; the foreign key refuses the new row after the old one
  was revoked, so as the code stands every refresh ends in 401 and a logout. `Refuse` allows it; `Rotate` is what the function does for a user.
* dispatcher.go:143 says that a half-open breaker passes one request; every caller passes.
* dispatcher.go:61 says that the reset time passes before half-open; a caller that read an old
  `lastOpen` (line 136) half-opens a breaker that another failure has just reopened.
* engine.go:9 says that holding an order stops the clock; the verdict on completion (line 564) compares the
  wall clock with a deadline that holding never moves.
* engine.go:549 says that completion ends the tracking; a batch listed earlier recalculates the
  completed tracker (line 544).
* engine.go:550 says that a completed tracker leaves memory after an hour; `isTerminalStatus` (line 815)
  holds of no status.
* engine.go:749 says that the age rule removes orphans; it removes live orders that
  are on hold or on track (line 791).
* engine.go:3-8 says working hours only; recalculate (line 704) compares wall-clock time with
  the working-time target.
* ADR-006-offline-first.md:92 promises a sync when the connection is restored; a run that ends during the
  outage reports the app online (syncService.ts:180), so line 457 sees no restoration. The
  background task and the timer still drain the queue.
* integration_handlers_extended.go:292 says that a manual retry resets `retry_attempt`; the update
  (pg_store.go:77) counts one more.

## 5. Fairness

All of it is weak fairness, on steps that the runtime or a ticker takes:

* **approval**: a goroutine whose step is enabled takes one (the Go scheduler), and the
  deadline of a request passes (`Deadline`: time). Cancellation and clean-up need not happen, nor need anybody approve.
* **cmms_dispatch**: workers finish the event they have, the 30 s ticker of the fallback worker fires, the
  reset time of the breaker passes. No fairness on `Receive`, on the CMMS's success
  or on `Crash`; a call ends after 30 s, with an error if need be.
* **device_state**: a watcher delivers what the bucket has for it, which NATS promises of
  an open watch. Nothing is assumed of handlers, reconnects or restarts; `Reconnect` may
  happen for ever and a step of delivery is then continuously enabled or done.
* **sla_tracking**: the worker's ticker and the engine's clean-up ticker fire, time passes, and the
  completion of an order is reported.
* **offline_push**: promises settle, the background task calls syncWhenOnline again and
  again, the app is opened again and the network comes back. Outages and kills are bounded, as they must be for anything to get sent.
* **action_queue**: a request of a pass ends (the client's timeout), and a technician with actions in the array comes
  back to the app again and again. Loads and kills are bounded, as they must be for the array to empty.
* **delta_sync**: a request ends after SYNC_TIMEOUT and the timer of a retry fires. Nothing is assumed of the
  network, of the technician or of SyncService; kills may go on for ever.
* **token_refresh**: requests and the refresh time out after 15 seconds and storage answers.
* **webhook**: the five-second ticker fires, goroutines finish (a request ends after its
  timeout), time passes. Faults are bounded, else a database that is never reachable would keep a row pending.
* **dr_failover**: the steps of a request that is executing or rolling back return or fail. No administrator is assumed to act.

`CHECK_DEADLOCK FALSE` stands where the system may stop: all callers of an approval have returned, all requests, deliveries or failovers
of the bound are over, or the last tick has passed.

## 6. Theorems

Proved with TLAPS for every value of the constants that satisfies the assumption
named in the module. The assumptions only say that numbers are natural, that sets of
callers are disjoint, and the like.

| Module | Theorem | States |
|---|---|---|
| ApprovalFlow_proofs | TypeCorrect | `TypeOK` |
| | NoBlockedSend | `SendNeverBlocks` |
| | Genuine | `ApprovalGenuine` |
| | ReleasedOnce | `ApprovedOnce` |
| | GaveUpClosed | `TimeoutCloses` |
| | FirstVerdictWins | `VerdictFinal` |
| | Refinement | `ImplementsPromise`: the detailed request implements OneVerdict |
| CmmsDispatch_proofs | TypeCorrect | `TypeOK` |
| | NothingLostSilently | `NoSilentLoss` |
| | DropsAreEarned | `DroppedOnlyAfterRetries` |
| | DuplicatesAreExplained | `DuplicatesExplained` |
| | Refinement | `ImplementsDelivery`: the dispatcher implements AtLeastOnce |
| SlaTracking_proofs | TypeCorrect | `TypeOK` |
| | ClockExact | `ElapsedIsWorked` |
| | NoEarlyBreach | `BreachedWhenSpent` |
| | BreachIsAnnounced | `BreachAnnounced` |
| | NeverBack | `NoWayBack` |
| OfflinePush_proofs | TypeCorrect | `TypeOK` |
| | FlagIsRun | `isSyncing` is set exactly while a run is under way |
| | NoneForgotten | `NothingForgotten` |
| | DropsAreEarned | `DroppedAfterThree` |
| | DuplicatesAreExplained | `DuplicatesExplained` |
| | Refinement | `ImplementsDelivery`: the service implements AtLeastOnce |
| SyncStore_proofs | QueueTypeCorrect | `TypeOK` of ActionQueue |
| (ActionQueue) | ProcessedIsSettled | of the completions, a pass has in processedIds only what was sent or given up |
| | RowsAreKept | `CompletionsKept` |
| | QueueIsSound | no object twice in the array or a copy; a pass awaits an answer while its copy has actions left |
| | TriesAreBounded | `TriesBounded` |
| | SendsAreExplained | requests that may still be made for an action are no more than the reasons to make them |
| | ActionDuplicatesAreExplained | `DuplicatesExplained` |
| SyncStore_proofs | DeltaTypeCorrect | `DeltaTypeOK` of DeltaSync |
| (DeltaSync) | PullIsSound | work orders are pulled first, and once pulled they are owed only if that failed |
| | OrdersAreCurrent | `WorkOrdersCurrent` |
| | TableIsSound | unless rows were shifted, the table begins with the batch |
| | LeftUnsentIsExplained | `LeftUnsentExplained` |
| | SentTwiceIsExplained | `SentTwiceExplained` |
| TokenRefresh_proofs | TypeCorrect | `TypeOK` |
| | SessionIsWhole | `SessionWhole` |
| | TokenServes | `StoredTokenServes` |
| | AnsweredGoes | `AnsweredNotKept` |
| WebhookDelivery_proofs | TypeCorrect | `TypeOK` |
| | SuccessIsGenuine | `SuccessGenuine` |
| | SuccessIsKept | `SuccessKept` |
| | CancelledWhenSpent | `CancelledOnlyWhenSpent` |
| | ReasonsCover | copies of a row that goroutines and the tables hold are no more than the reasons to send them |
| | DuplicatesAreExplained | `DuplicatesExplained` |
| Cluster_proofs | DeviceInvariant | types and positions of DeviceState (`DeviceTypeOK` among them) |
| (DeviceState) | ReadersHaveTheLatest | a pod that only reads has the last revision once its watcher has delivered all |
| | OneWriterConverges | `Converged`, if `OneWriter` |
| Cluster_proofs | TypeSafe | `TypeOK` of DrFailover |
| (DrFailover) | OneExecution | `ApprovedOnce` |
| | FlagCleared | `NoStuckFlag` |
| | RejectionFinal | `RejectedNeverRuns` |

**ApprovalFlow.** None of the properties is inductive: that the buffer is empty when
a goroutine is about to send depends on who else may be sending, and on who has
read. `OneMessage` states that the single message of a decided request is in
one place (owed by one goroutine, buffered, or read by one waiter),
`Undecided` that an open request has none and is in both maps, `GivingUp`
what a waiter that timed out knows. With `TypeOK` they are inductive, for any sets of
deciders and waiters. The refinement maps `status` to the
verdict and a waiter that is done to what it was told; each step of the code is a step of OneVerdict or a stutter.

**CmmsDispatch.** An event that may still be executed is in one place: not delivered, in one worker's hand, or on
disk (`OnePlace`, with `Stations` for who holds one). `Listed` says that what the fallback worker read is still on disk,
because nobody else deletes; `Counted` that an entry's count never runs ahead of its failures; `Executed` that a success is
in the CMMS before anybody acts upon it; `Unrecorded` that every execution of an event that may be executed again went
unrecorded. The breaker matters to none of it: `BreakerStep` disposes of its ten or so steps together. The refinement of AtLeastOnce
rests on the same parts: because an event is in one place, the worker that is done with it closes it (`HandEmpties`), and what
the fallback worker retries is still open (`ReplayedIsOpen`); `Executed` is what `Close` asks for. It says more than the invariants:
what was closed is never executed again.

**OfflinePush.** The argument is the same, and `OneRun` is what it stands on: five callers start runs, and one flag keeps
runs from overlapping. Hence what a run fetched is what SQLite still holds (`Fetched`), and counts, removals and
executions agree with the table (`Counted`, `Executed`, `Unrecorded`). So a mutation is sent only while it has its row, which is
what the refinement of AtLeastOnce needs; a payload that no case sends counts as abandoned when its row goes.

**ActionQueue.** Passes do overlap here, so nothing is said of the array as such. What holds of the rows is that one goes only with an
action that is in the processedIds of some pass, and of the completions those were sent or given up (`ProcessedSettled`); the lemma on `Loop` is
that a turn adds to them exactly what it logged, which are checklist actions.
The rest stands on `QueueSound`: an object is nowhere before it is made and never twice in one list, and a copy
that waits for an answer has a first action left. It needs that loads are numbered apart (`LoadsSound`), else two of them would make the
same object. On it stand two counts.

* `TriesWithin(object)` bounds the tries for n passes by 3n - 1. Below three tries, as many passes have kept the object as have failed
  with it (`Keeping`). From the third on nobody keeps it any more, and at most two passes have; each try uses up one of those that were
  still to come: one for each pass that may try it now (`Eager`: when it is in the array, all passes but those that have kept it and those that
  will store an array without it, `Dropping`), and at most n and n - 1 after the two put it back (`Later`). The bound is what is left of the sum.
  The number of passes is a parameter, because a second return of the app may start two more before the first two end
  (mobile/src/hooks/useOfflineSync.ts:14-22).
* `Explained(a)` says that there are at least as many reasons as requests that may still be made for `a`, the first one apart. `Sends` counts
  those: objects in the copies of passes at work whose request was not yet executed (`Copies`), objects in the array that no
  pass has (`Live`), and the one addToQueue has still to append. When passes start they turn what is in the array into
  copies, one reason for each copy more than one; when a load replaces the array, what comes back has a reason if it is anywhere else.
  The proof counts sets with the library's facts on Cardinality, for any number of passes.

**DeltaSync.** `PullSound` follows one entity: until work orders are pulled they count as changed, so the answer
must have brought them; afterwards they are current, could not be stored, or an error counts. `WorkOrdersCurrent` follows, because only
EndSync sets "success" and it looks at the errors. The push half is about the table both services empty. `TableSound` holds until
something takes a row out of its order, which is what `shifted` remembers and why the invariant is `shifted \/ TableSound`: the table
begins with the batch (`BatchFirst`), therefore the oldest row is the one that was sent, and removing by entity removes the right one; and what is
still in the table although executed has a reason to be (`MaySend`), what is gone from it a reason to be gone (`MayBeGone`). `FetchedSound` and `PushSound` follow
SyncService: it removes a row only after an execution, a payload it skips or the third failure, and what it fetched and has yet to send was
not executed, or has a reason to be sent again, as a row in both services' hands has. Types hold in either case: `DeltaTyped` adds that a batch at work is not empty.

**DeviceState.** Any number of goroutines: `DeviceBase` has the types, that a watcher is at most one past the last
revision, that whoever works on an object has a pointer to it, and that a pod without a writer has what its watcher delivered last. The lemma that
matters is `NewObjectIsFree`: there are more objects than pointers, so a new one is nobody's, and writing to it changes no cache.
One goroutine: a revision may be delivered while Set is between its put and its store, so agreement is claimed outside of
these (`WriterAgrees`), and `InCall` says what the goroutine carries through them: what it is about to store is
the last revision, or its own put. `OneWriter` is needed, not convenient: with two writers `Converged` is false (device_stale, section 4).

**TokenRefresh.** `Story(pair)` says that all writers at work write this pair, that every key has it already or one of the writers has yet
to write it, likewise the state of the app, and that its token was not answered and serves, unless a refresh has just used it (`Spent`) or the app missed an
answer of its login (`Serves`). Writers of
one pair may be many and at different keys, which is why a key is related to the set of writers and not to one of them.
`OneStory` is that some pair has a story unless the writers were torn. New writers begin a story (`StoryBegins`), a
writer's step continues it (`StoryWrites`), and a restart keeps it if nothing was under way. `Stations` adds that a refresh is
under way exactly while some request waits for it, without which a renewed pair would be stored by nobody. `Known` adds that a pair in an answer is new to
the app (`Disclosed`), and that a POST still to arrive is of a login with a missed answer: such a POST may revoke the family, so that only `unheard` covers it.
A kill between rotation and storage needs no exception of its own: the app never heard that answer.

**WebhookDelivery.** Goroutines hold copies of one row and overwrite each other's outcome. `Behind` bounds a copy: it counts at most the
attempt being made more than its row (`CopiesBehind`), so a decision taken on a copy is right about the row; `AnswersSeen` says that
whoever records a success has seen one. `OlderThanSuccess` compares the other way: once a row says "success", every copy still about
counts fewer attempts than the row, because each update counts one, so a failure that replaces the success is that of an older copy. Duplicates are counted as in ActionQueue: `Covered(l)` compares the reasons of a log with the
goroutines that hold a copy of it (`Holders`) and the copy that is in the batch or will be in the next (`ToCome`). That needs two facts
about the table (`Orderly`): a poll hands out a row once, and a row that waits for its time is no longer "pending".

**SlaTracking.** `IInv` adds to the two properties that nothing was counted or declared
before StartTracking. The core is two lemmas on the helpers: pausing opens a pause at the present
and leaves the elapsed time alone, resuming takes exactly that pause off
(`PausedKeeps`); recalculate declares a breach only of a running tracker with nothing
left (`RecalculatedKeeps`). They give `UpdatedKeeps`, which the step of UpdateStatus uses. Two smaller invariants stand on it:
`Announcing` follows a breach from UpdateStatus to its publication: it is announced, overtaken by a completion, or in the worker's hand (`BreachInHand`). And `Escalated` says that the level
is one of the time worked, which only grows.

**DrFailover.** "Executed once" needs to know why an event cannot be approved again:
`Waiting` (a pending event has not been run), `Rejected` (a rejected one is run by nobody),
`FirstRun` (an execution about to begin is the first) and `Fresh` (nothing has happened to events beyond the
counter). Rollbacks and crashes may happen at any step and any number of rollbacks at once, so the invariant
speaks of what an execution did and of no rollback but its event (`OfAnEvent`). Nothing is assumed of the connection.

### Model-checked only

Every invariant and every action property of the passing runs is a theorem. `ImplementsDelivery` of CmmsDispatch and OfflinePush
is a theorem that no run lists. Liveness under fairness
(`CallersReturn`, `QueueDrains` of two modules, `QueueEmpties`, `ReadersCatchUp`, `SyncEnds`, `RequestsSettle`,
`BreachNoticed`, `PendingSettles`, `FailoverEnds`) is out of the provers' reach and stays with TLC on the instances above.
One theorem has a hypothesis, `OneWriter`, which restricts it to the case the run has too; without it the property is false (section 4).

## 7. Limits of the models

* **ApprovalFlow**: notification callbacks only send text. What a waiter sees that
  arrives after the channel is forgotten ("not found" for an approved request) is
  modelled as the code does it; no statement in the repository says otherwise.
* **CmmsDispatch**: a route's handler is one external call, so errors that a
  handler logs and swallows are inside it. Disk errors, corrupt queue files, metrics and the
  start and stop of subscriptions are left out. Events of one device are independent here; their order belongs to the subscriber.
* **DeviceState**: the bucket's TTL of 120 days, Close, and data races of several
  goroutines of one pod on the same object are left out.
* **SlaTracking**: the business calendar is the one number `Closed`; pause rules are
  those for on-hold statuses; escalation notices, persistence and reload of
  trackers are left out, so the model covers one lifetime of the process. CompleteWorkOrder stores an elapsed time of its own, which counts an
  open pause as work (engine.go:561, 570); `ElapsedIsWorked` does not speak of that number.
* **OfflinePush**: SQLite does not fail; the device and order cache that a run refreshes is left
  out; `Unsent` payloads are a constant. `DroppedAfterThree` says no fewer than three tries, not that the row goes with the third.
* **ActionQueue**: the dialog for conflicts reads data nobody writes; `setOnline(false)` is called by nobody, so the
  app always believes it is online; the wizard and the checklists are their calls of addToQueue. That an action leaves the array while its row stays (until the
  next load) is how the code behaves, and `QueueEmpties` counts it as empty.
* **DeltaSync**: one work order and one device; photos and audit store nothing. SyncService's own pull is left out, so its cache of orders does not help freshness. The backend has no `POST /sync/apply`, which is
  modelled as the client expects it. The cached row is current or stale, so what INSERT OR REPLACE does to the columns that the diff does
  not carry (differentialSync.ts:643-674) is not seen.
* **TokenRefresh**: storage does not fail; expiry, fingerprints and the limit of sessions are one refusal; the server
  rotates as refresh_token.go says (section 4 has what its caller does). The server prefers a cookie to the token in the body; the model is of the token in the body.
  A refused refresh is given no reason, so a rotation whose new row the table refuses is a `Refuse`.
* **WebhookDelivery**: one endpoint; its settings do not change; signatures, URLs and
  the exact delays are data. A row may have any of the delays ("later" becomes "due" at some time).
* **DrFailover**: the history is not trimmed, and status callbacks, which the program does not install, are
  absent. What receives the published messages is not in the repository, so where the regions are is not in the model either. Rollbacks have no caller in the
  program; the model has them as the method allows them.

## 8. Plan

Done, in this order: ApprovalFlow, CmmsDispatch, DeviceState, SlaTracking,
OfflinePush, WebhookDelivery and DrFailover, which act on devices, work
orders and regions by themselves; then the rest of what the app does offline (ActionQueue, DeltaSync) and
the session it needs for that (TokenRefresh). Next:

1. **DbWriter** (`backend/main.go:34-72`) with the shutdown order, and the worker pool of the same shape:
   dropped, late and lost writes; composed with DeviceState's writes.
2. **WsHub** (`backend/internal/ws/hub.go`): one goroutine, unbuffered channels, slow clients; deadlock freedom.
3. **DrHealth** (`backend/internal/dr/health.go`): pings one after the other, two counters with different
   resets (line 297 adds up failures that are not in a row, which line 44 says they must be), composed with DrFailover's flag.
4. **TileCache** and **QrLifecycle** of the app: a bounded cache of map tiles, the states of a printed code.
5. **OtaUpdate**, **VpnSessions**, **QuotaManager**, **DecisionBudget**, edge offline queue, audit
   chain, workflow engine: components the program does not start yet.
6. Extensions: CheckEscalation and persistence in SlaTracking; several goroutines per pod in DeviceState; drills and
   per-tenant failover.

The event store and the CMMS sync are no longer planned, for the reasons in section 1.4.

Proofs to add: an abstract specification for WebhookDelivery, which AtLeastOnce is not (a manual retry opens a closed delivery
again), and the theorems of the modules above.

Hazards of the parts still to come are in PROJECT.json, each at its line, with a
note that names the module planned for it.
