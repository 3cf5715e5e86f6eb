# TLA+ models of naavik

naavik watches Kubernetes resources in a main cluster and in remote clusters. It
keeps in-memory caches of workloads, dependencies and traffic-config policies,
and reconciles policies into mesh artifacts. This directory holds TLA+ models of
its concurrent core. There are MC modules and TLC configurations that check them,
and `PROJECT.json` records what each definition translates and what each run shows.

## 1. The system and how its parts interact

Component numbers follow `spec.md` section 2.

| Part | Source | State | Operations | Concurrency |
|---|---|---|---|---|
| C8 controller runtime | `internal/controller/controller.go` | client-go rate-limited work queue (queue, dirty set, processing set, shutting-down and drain flags), one status goroutine per processing item | informer Add/Update/Delete enqueue, worker `processNextItem`/`processItem`, status goroutine `handleStatus` (skip, child, retry, max-retry, terminal), `Run` (start workers, `Register`, informer, deferred `ShutDown`), `StopAllControllers` | `workerConcurrency` workers per controller, one goroutine per item status channel, `go controller.Run` |
| C9 event-status protocol | `internal/controller/event_status.go` | a buffered channel per event | `Send`, `SendClose`, `SkipClose`, `CreateChildEvent` | closing a closed channel panics |
| C10 async key executor | `internal/executor/async_key_executor.go` | `totalAsyncRunsInProgress`, per key `runnerData{Mutex, queueSlot, toBeProcessed, lastProcessed}` | `execute` (admission, goroutine, TryLock, park/displace, wait, generation check, run) | one goroutine per event; two mutexes per key |
| C5 controller registry, remote-cluster map | `internal/cache/controllers_cache.go`, `remote_cluster_cache.go` | `sync.Map` name -> {worker contexts, StopCh}; `sync.Map` cluster id -> cluster | `Register` (lower-cases), `DeRegister`, `Range`, `AddCluster`, `DeleteCluster`, `GetCluster` | written by `Run` goroutines and cluster lifecycle code |
| C11 remote-cluster resolver, C12 secret handler | `internal/handler/remotecluster/*.go` | through C5 | secret `Added`, `Updated`, `Deleted`; `ResolveConfig`, `StartRemoteClusterControllers`, `StopRemoteClusterControllers` | the stop path spawns a goroutine per matching controller |
| C4 caches | `internal/cache/*.go` | deployments, rollouts and services per cluster; identity -> clusters; dependency and dependent graphs; traffic-config per identity and env | add, delete and getters, each under the cache's lock | handlers of many controllers write concurrently |
| C13 workload handlers | `internal/handler/k8shandler/*.go` | through C4 | `Added`, `Updated`, `Deleted` | one per remote-cluster controller |
| C14 dependency handler | `internal/handler/dependency/dependency_handler.go` | through C4 | `Added`, `Updated` (triggers on new destinations), `Deleted` (no-op) | |
| C15 traffic-config handler | `internal/handler/trafficconfig/traffic_config_handler.go` | through C4 | `Added`, `Updated`, `Deleted` (guarded), `TriggerTrafficConfigHandlerForIdentity` | read-only and warm-up gates |
| C15a virtual-service reconciler | `internal/handler/trafficconfig/virtual_service.go` | virtual services in the dependents' clusters | `HandleVirtualServiceForTrafficConfig`, the builder, `createUpdateDeleteVirtualServices` | runs in the traffic-config worker |
| C15b rate-limiting reconciler | `internal/handler/trafficconfig/rate_limiting_*.go` | throttle envoy filters in the identity's clusters | `HandleRateLimiter`, `createRateLimitingFilters`, the patch builders, `ApplyEnvoyFilters` | runs in the traffic-config worker |
| C16 bootstrap | `internal/bootstrap/*.go` | | starts the secret, dependency and traffic-config controllers; on a signal, `StopAllControllers` | |

Data flow: a watch event goes to the informer, then a queue item, a worker and a
handler (optionally through the executor). The handler mutates a cache and sends
statuses on the item's channel. The status goroutine turns them into OnStatus
calls, retries or child items, and calls `queue.Done` when the channel closes.
The secret handler starts and stops whole controllers for remote clusters. The
workload and dependency handlers call into the traffic-config handler to
reconcile policies.

Behaviours that make this hard, and that unit tests hardly reach:
- goroutine scheduling inside the executor;
- status goroutines that re-enqueue items while the queue shuts down;
- `Register` running asynchronously after `NewController` returns, racing a stop;
- a stop goroutine that deletes a cluster after it has been re-added;
- substring matching of controller names;
- double closes of channels;
- cache indexes updated by several handlers in separate steps.
- a reconciler that computes a request and applies it in a later step, while
  another controller's trigger reconciles the same object;
- triggers that replay the cached copy of a traffic config.

## 2. Plan of modules

| Module | Models | Status |
|---|---|---|
| `AsyncKeyExecutor` | C10, with C9's `SkipClose` | done |
| `ControllerRuntime` | C8 and C9: work queue, workers, status goroutine with retry budget and child events, shutdown and drain | done |
| `ClusterRegistry` | C5, C11 and C12: secret events, cluster map, controller registration racing its stop, substring match, asynchronous removal | done |
| `WorkloadCache` | C13 with the deployment, rollout, service and identity-cluster caches: the identity -> clusters index against the workload caches | done |
| `TrafficConfigReconcile` | C14 and C15 with the traffic-config and dependency caches, the throttle-filter and virtual-service reconcilers, and the deployment handler's trigger | done |
| `VirtualServiceBuild` | C15a's builder: the virtual service (hosts and HTTP rules) built from a traffic config's edge service, as operators `TrafficConfigReconcile` instantiates | done |
| `EnvoyFilterBuild` | C15b's builder: the throttle filter's config patches, descriptors, token buckets and rate-limit actions built from a traffic config's quota groups, as operators `TrafficConfigReconcile` instantiates | done |
| `WorkQueue` (abstract) and refinement | what the controller relies on of the client-go queue, refined by `ControllerRuntime` (`QueueRefinement`) | done |

Each module has an MC module (`MC_<Module>.tla`) that fixes its constants. It
also has one `.cfg` per question.

## 3. `AsyncKeyExecutor`

### State and actions

Events are numbered by arrival. `events[e]` holds the event's sync key (or
`NoKey`) and its generation (or `NoMeta` when `meta.Accessor` fails). Per goroutine
there is a program counter `pc[e]` and `current[e]`, the event the goroutine runs,
which after waiting is the event it took from the slot. The variables
`mutex[k]`, `slot[k]` and `last[k]` are the key's `runnerData`. `inFlight` is
`totalAsyncRunsInProgress`, and `closes[e]` counts closes of the event's status
channel. `runLog` is a history of the events handed to `runFunc`.

| Action | Code |
|---|---|
| `Submit` | `execute` lines 64-75: admission poll, `Add(1)`, spawn |
| `EmptyKey` | lines 76-81: skip-close and return (before the deferred decrement) |
| `TryLock` | lines 82-87 and 168-171: the uncontested path runs at once |
| `ParkInSlot` | lines 88-98 |
| `CompareWithParked` | lines 141-167: metadata error skips the new event; `<=` displaces the parked one; otherwise skip the new one |
| `WaitLock` | lines 99-104: `runnerData.Lock()` |
| `PickSlot` | lines 105-140: generation check against `lastProcessed`, take the slot |
| `Finish` | lines 173-191 and the deferred unlock/decrement: `runFunc` closes the channel, `lastProcessed` is set |

Each `queueSlot` critical section is one step, because every access to
`toBeProcessed` is under that mutex. `runnerData`'s mutex is explicit, because
goroutines block on it. Go's mutex is not FIFO, so a `TryLock` may take it
before a blocked `Lock` is served. Fairness is weak per goroutine step and strong
for `WaitLock`: Go's starvation mode hands the mutex to a waiter blocked longer
than 1 ms.

`MonotoneGens` says whether the generations of a key only grow, as for one object
seen by an informer. Set to FALSE, it lets an object be deleted and re-created
under the same name.

### Runs

Bounds: one key, generations 0..2, 4 events, `MaxGoRoutines` 3. Four events
are enough for a running event, a parked waiter, a displacing arrival and a
late TryLock. Three goroutines make admission block. Keys are independent
(separate `runnerData`), so one key shows every per-key interleaving. The
empty key `NoKey` is among the inputs, and the state constraint
`MCOneEmptyKey` lets at most one submitted object have it. One leaked
increment narrows admission to two runs but never closes it. With three
leaks, the caller would block for ever (see below).

| Run | Expect | Shows |
|---|---|---|
| `executor` | pass | no double close (`StatusClosedAtMostOnce`); at most one waiter per key (`SingleWaiter`); the counter is exact except for the one increment an empty-key goroutine leaks (`InFlightCounted`); the newest generation runs (`LatestGenerationRuns`); every channel is closed (`EveryEventClosed`, liveness), including when a leak has narrowed admission |

Further results come from the executor run with its constants changed as
stated. They are not among the recorded runs, because production controllers
do not use the executor:
- Without `CONSTRAINT MCOneEmptyKey`, TLC reports a deadlock. Three objects with
  empty keys each leak a count, because the return at line 80 precedes the
  `defer` at line 82. Admission then blocks the fourth `execute` for ever. The
  same happens at any `MaxGoRoutines` once that many empty keys have arrived.
- `INVARIANT RunsInArrivalOrder` is violated. The goroutine of a newer event wins
  `TryLock`, and the older event runs after it. Spec sections 4.3 and 5 promise
  arrival order.
- With `InputGens <- MCInputGensTombstone`, `LatestGenerationRuns` is violated.
  After an object without metadata has been processed, the next parked event is
  skipped (line 112).
- With `MonotoneGens = FALSE`, `LatestGenerationRuns` is violated. A re-created
  object's generation 1 is skipped behind the old object's generation (line 120).

Not modelled: the two-caller race on admission (lines 71-72). Production
controllers do not use the executor; only tests do.

## 4. `ControllerRuntime`

### State and actions

One controller of `controller.go`. Items are `*InformerCacheObj` pointers,
numbered by allocation. The informer allocates one per event and the status
goroutine one per child event, so the queue never merges two events. An item's
`statusChan` is replaced on every retry, so the channel of item `i` made when its
`retryCount` was `n` is `<<i, n>>`. For each channel, `buf`, `closed` and
`reader` hold the buffered statuses, whether it is closed, and whether a
`handleStatus` goroutine ranges over it.

The work queue is client-go's `workqueue.Type`. This repository has no
`go.mod`, so its semantics are taken from current client-go:
- `Add` drops the item after `ShutDown` or when it is already dirty. Otherwise it
  marks the item dirty and queues it, unless the item is processing.
- `Get` waits on the queue's `sync.Cond` while the queue is empty and not shut
  down.
- `Done` re-queues a dirty item, and `Signal`s when processing becomes empty.
- `ShutDown` and `ShutDownWithDrain` set the flags and `Broadcast`.
- `Signal` wakes the longest waiter (Go's notify list is FIFO).
- The rate limiter matters only to `AddAfter`, which no code reaches: nothing
  sets `RetryAfter`.

The delegator's handler is the environment. Each invocation either sends an
outcome from `Outcomes` and closes the channel (`SendClose`/`SkipClose`), or it
creates a child event (`CreateChildEvent`) and does the child's work inline with
an outcome from `ChildOutcomes`, as `TriggerTrafficConfigHandlerForIdentity` does.
`invoked` is a history of the items handed to handlers. `panicked` records a
send on a closed channel.

| Action | Code |
|---|---|
| `StartWorkers`, `Register`, `InformerStopped` | `Run` lines 114-135: workers, `ControllerCache.Register`, `informer.Run`, deferred `queue.ShutDown` |
| `InformerEvent` | `AddFunc`/`UpdateFunc`/`DeleteFunc`, lines 81-106 |
| `CacheSynced`, `SyncAborted` | `runWorker` lines 137-153 (`WaitForCacheSync`) |
| `Get`, `Drain` | `processNextItem` lines 155-170 (`queue.Get`, `ShutDownWithDrain`) |
| `ProcessItem` | `processItem` lines 172-194 with the handler's sends |
| `StatusRecv`, `StatusEnd` | `handleStatus` lines 219-268: child, skip, terminal, retry (`RetryAllowed`), max retry, deferred `queue.Done` |
| `StopAll`, `StopWait` | `StopAllControllers` lines 196-215 |

Fairness: weak fairness on every goroutine (each worker, each status
goroutine, and `Run`'s steps). Informer events and the stop signal come from
outside and are not fair. A worker waiting on the `Cond` has no enabled step
until it is woken, so a lost wake-up shows as a liveness violation.

### Runs

Bounds: one key, at most two informer events and one child, `MaxRetry` 1, and
one or two workers. With two events, a retry can be overtaken by a newer event.
`MaxRetry` 1 reaches both retry branches. Two workers make items process
concurrently and make both workers drain.

| Run | Expect | Shows |
|---|---|---|
| `runtime` | pass | no send on a closed channel (`NoChannelPanic`); at most `MaxRetryCount`+1 invocations, and exactly that many on `MaxRetryReached` (`RetryBudget`); every event reaches a terminal status (`EveryEventConcluded`) |
| `runtime_shutdown` | pass | with `StopAllControllers` racing registration and processing, one worker drains and the stop returns (`StopCompletes`). Deadlock checking is off: after the stop the process exits |
| `runtime`, `runtime_shutdown` | pass | `QueueRefinement`: the queue `Type` implements `WorkQueue` (see below) |
| `runtime_drainhang` | violation | `StopCompletes`: with two workers both in `ShutDownWithDrain`, `Done`'s single `Signal` wakes one of them, and the other never returns |

### The queue's promise: `WorkQueue` and its refinement

`WorkQueue.tla` is the abstract specification of the queue as
`controller.go` uses it. It has no order, no `Cond` and no workers. Its state
is `pending` (added and not handed out since), `active` (handed out and not
yet `Done`) and `down`. Its actions are `Add` (dropped once `down`), `Get`
(only an item that is pending and not active), `Done` and `ShutDown`. Its
fairness says that while the queue is up, a waiting item is handed out, and
that every handed-out item is eventually `Done`. `ControllerRuntime` defines
`QueueAbs == INSTANCE WorkQueue WITH pending <- dirty, active <- processing,
down <- shuttingDown`. `QueueRefinement == QueueAbs!FairSpec` is a
`PROPERTY` of `runtime` and `runtime_shutdown`. Every step of the detailed
model is either a step of `WorkQueue` or leaves `dirty`, `processing` and
`shuttingDown` alone. So the `Cond`, the FIFO `queue` and the drain flag are
an implementation of that contract. Two mutants of `Type.Done` break it:
- re-queueing an item that was not added again breaks the safety part (a
  `Get` of an item nobody added);
- not re-queueing a dirty item breaks the liveness part (the item stays
  pending forever).

The refinement is also violated by the latent child-retry bug below. With
`ChildOutcomes <- MCChildRetry` and one worker, the second `Get` of the child
hands out an item that is already active.

A dropped `Add` maps to a stutter, so the refinement does not say that `Add`
is dropped only after `ShutDown`. `QueueAdd` drops an `Add` only when
`shuttingDown` holds or the item is already dirty. A retry dropped after
`ShutDown` (line 254) is therefore never concluded. That is what a stop
means, and no property states it.

Further result: with `Workers <- MCOneWorker`, `MaxChildren = 0`,
`Outcomes <- MCRetryOutcomes` and `INVARIANT ArrivalOrder`, TLC finds the
property violated. A retried item goes to the tail of the queue (line 254), and
its handler runs after the handler of a newer event of the same key. Spec
section 5 says per-key invocations happen in arrival order.

Further result: with `ChildOutcomes <- MCChildRetry` (one worker, two events, one
child, `MaxRetry` 1), `NoChannelPanic` is violated. A retrying child item is
queued by `Add` (line 254) and again by its deferred `Done` (line 221). It is then
processed twice on one channel, and the second send panics. No production child
handler retries today, so the bug is latent.

Not modelled:
- several controllers. `StopAllControllers` handles each one in its own
  goroutine, independently.
- the informer's own resync and list behaviour.
- the key-function error path, which only drops an event.

## 5. `ClusterRegistry`

### State and actions

The module covers:
- the secret handler (`clusters_secret_handler.go`);
- the resolver's start and stop of per-cluster controllers
  (`remote_cluster_resolver.go`);
- `remoteClusterListCache` (`cache`: cluster id -> owning secret);
- `controllerCacheMap` (`reg`: name -> controller).

`secret[s]` is the secret object: absent, or present with or without the sync
label. `data[s]` is the set of cluster ids of its `Data`, which each add or
update chooses from `SecretData[s]`: an update may drop or add an id. The
credential bytes are left out, because the code ignores credential changes of
a present cluster (spec section 7).

Each controller the resolver starts is an entry of `inst`. Its program counter
moves from starting (`go Run` has not yet registered) to running, stopping and
stopped. `closes` counts the closes of its `StopCh`. Each stop goroutine is an
entry of `stoppers`: the controller it captured from `Range`, its name, the
cluster id, and its program counter.

A controller's name is `<kind>/<context>`, and `Register` stores it
lower-cased (controllers_cache.go:36). The context comes from the cluster's
kubeconfig, not from the cluster id, and nothing ties the two together. TLC
has no string operations for this, so the MC module gives both as constants:
- `Lower` is `strings.ToLower` on the contexts;
- `NameContains` is the relation that `strings.Contains` applies between a
  lower-cased context and a raw cluster id (resolver line 163).

| Action | Code |
|---|---|
| `SecretAdded`, `SecretUpdated`, `SecretDeleted` | the secret event and the handler's entry: `Added` (sync check), `Updated` (disable transition, otherwise `Added`), `Deleted` |
| `HandleCluster` | one cluster id of the secret's `Data` (random map order). For `AddCluster` (lines 47-64): an id already cached is skipped (same secret or conflict); otherwise `ResolveConfig` either fails (when `ResolveMayFail`) or resolves it; the resolved id is cached (`AddRemoteClusterToCache`), and `StartControllers` runs (may return early). For `StopCluster`: `StopRemoteClusterControllers` (`Matches` is the `Range` test) spawns a stop goroutine per match, then the handler's `DeleteRemoteClusterFromCache` |
| `Register` | `Run` calling `ControllerCache.Register`, which replaces any entry under the name |
| `StopperDeRegister`, `StopperClose`, `StopperFinish` | the stop goroutine: `DeRegister(name)`, `close(StopCh)` of the captured controller, wait for the workers, `DeleteCluster(id)` |
| `WorkersExit` | the closed `StopCh` stops the informer, and the workers drain and return |

The secret controller has one worker by default (`--worker_concurrency` 1). Its
handler uses only the event's own objects, so an event and the start of its
handler are one step, and handler invocations do not overlap.

Fairness is weak on the handler, on each controller's `Run` and workers, and on
each stop goroutine. Secret events have no fairness.

`SpacedEvents` TRUE lets a secret event happen only after every goroutine of the
previous one has finished. This is the behaviour of events that arrive seconds
apart, as in the unit tests. With it FALSE, events may arrive at any time.

### Runs

Bounds:
- one controller kind: kinds differ only in their name prefix, and
  `Matches` does not look at the prefix;
- one or two secrets and clusters. In the passing run `s1` names `c1` and
  `c2`, or after an update only `c1`, and `s2` names `c1` again (a
  conflict). So one event starts or stops two clusters while another secret
  claims one of them. Two kinds take longer than 5 minutes with this setup;
- in the passing run the ids are lower case and no id is a substring of
  another cluster's context (`ctx-c1`, `ctx-c2`). The other cases are the
  further results below;
- up to 8 secret events in the passing run, enough for add, disable, re-enable
  and delete of both secrets in many orders;
- 2 to 4 events in the violation runs, which need at most 4.

| Run | Expect | Shows |
|---|---|---|
| `registry` | pass | with spaced events, two clusters and two secrets that both name `c1`, where an update of `s1` may drop `c2`: no double close (`StopChClosedAtMostOnce`), no unreachable controller (`NoOrphanController`), every running controller's cluster cached (`ServedClusterCached`) |
| `registry_doubleclose` | violation | disable then delete: two stop goroutines capture one controller and both close its `StopCh` (panic) |
| `registry_unstopped` | violation | `s1` names `c1` and `c2`, and the update that disables it names only `c1`. `Updated` stops the ids of the new `Data` (line 85), so `c2` stays cached and its controller runs for ever, and `ControllersFollowSecrets` fails. The same happens when an enabled update drops `c2`, because `Added` ranges over the new `Data` only |

Further results, each with one secret and one cluster unless stated. TLC finds
each property violated by the behaviour described:
- `SpacedEvents = FALSE`:
  - `NoOrphanController`: a controller registers after its cluster was
    stopped. It is then overwritten in the registry by the re-enabled
    cluster's controller, and runs on unreachable.
  - `ServedClusterCached`: a stop handled before `Register` misses the
    controller, which runs on for an uncached cluster (controller.go:130).
- `Clusters <- MCUpperClusters`, `SecretData <- MCUpperData`, spaced events:
  `ServedClusterCached` fails. The cluster id `C3` has a capital letter, and
  no lower-cased name contains it. Deleting the secret stops no controller of
  `C3`, yet the handler still uncaches `C3` (clusters_secret_handler.go:109).
- `Clusters <- MCClusters`, `SecretData <- MCDisjointData`, spaced events:
  `CachedClusterServed` fails. Deleting `c1` stops `c10`'s controller, because
  `ctx-c10` contains `c1` (line 163).
- `StartMayFail = TRUE`, spaced events: `CachedClusterServed` fails. An early
  return of `StartRemoteClusterControllers` leaves the cluster cached with no
  controllers, and it is never retried.
- `SpacedEvents = FALSE`, `MaxEvents = 4`, `PROPERTY ClusterRemovedOnlyWithOwner`:
  the stop goroutine of a disabled cluster deletes the cluster id (line 176)
  after the secret was re-enabled and the cluster re-added. The cluster is
  then gone from the cache although its secret is enabled.
- Two secrets naming one cluster, spaced events: `ClusterRemovedOnlyWithOwner`
  fails. Deleting the conflicting secret tears down the cluster that the other,
  still enabled secret owns (clusters_secret_handler.go:108).

Not modelled:
- the main-cluster controllers, which the prefix test keeps out of the
  stop path;
- the client construction inside `ResolveConfig`. It is the `ResolveConfig` operator, whose outcome is an error or a resolved cluster;
- the introspection API's reads of the caches.

## 6. `WorkloadCache`

### State and actions

| Variable | Code |
|---|---|
| `live`, `svcLive` | the objects in each remote cluster's API server |
| `queue[ctl]` | the events a controller's informer has queued (one controller per kind and cluster, handled in order) |
| `pend[w]` | the cache calls still to come in the handler a workload controller is running |
| `wcache[k]` | `deploymentClusterCache` / rollouts cache: cluster -> identity -> env -> name |
| `idx` | `identityClusterCache`: identity -> clusters |
| `svc` | `serviceClusterCache`: cluster -> namespace -> names |
| `warm`, `triggered` | `IsCacheWarmedUp()`, and the identities handed to `TriggerTrafficConfigHandlerForIdentity` |
| `watching[c]`, `nrestart` | whether cluster `c`'s controllers run, and how many stops there have been |

`Added`, `Updated` and `Deleted` return the sequence of cache calls that the
handler makes (deployment_handler.go:35-123; the rollout handler makes the same
calls). `HandleWorkload` starts a handler. Each `CacheCall` is one call under one
lock, and the calls of the deployment and rollout controllers of one cluster
interleave between them. `CacheAdd`, `CacheDelete`, `ServiceAdd` and
`ServiceDelete` translate the caches' functions, including how they prune
emptied inner maps. A workload is abstracted to its identity, derived env and
mesh/ignore selection.

`StopWatch` is `StopRemoteClusterControllers` (remote_cluster_resolver.go:154-183).
It closes the cluster's controllers, and their workers drain what is queued. The
caches are left as they are. `StartWatch` is `StartRemoteClusterControllers`
(105-152). The model runs it only after the old workers have finished, which
is stronger than the code. The secret handler uncaches the cluster right after
spawning the stop goroutines (clusters_secret_handler.go:89-90, 108-109), so a
re-add can start new controllers while the old ones still drain. Two
generations of handlers then write the same caches. That overlap is not
modelled here; `ClusterRegistry` explores it for the controllers. New informers
list what exists now, in the API server's order, as add events (`Listed`).
While a cluster is stopped, an object may change without an event only if
`ChangesWhileStopped` is TRUE. `Quiescent` requires every cluster to be
watched.

### Runs

Bounds: one cluster, one identity, two envs, one workload name per kind, two
services of one namespace, and 4 API changes. One of those changes may be the
secret change that stops the cluster's controllers (`MaxRestarts = 1`).
One name per kind plus two kinds gives two workloads of one identity in one
cluster. Two envs let an update move a workload between envs. `workload_index`
sets `MaxRestarts = 0`.

| Run | Expect | Shows |
|---|---|---|
| `workload` | pass | once all events are handled, the index names only clusters with a cached workload of the identity (`IndexSound`); the service cache is exact (`ServiceCacheExact`); a selected workload is eventually cached (`WorkloadEventuallyCached`, under weak fairness of each controller's steps) |
| `workload_index` | violation | `IndexComplete`: deleting one workload removes its cluster from the identity's index, while the cache still holds another workload of the identity there (the rollout, or the deployment's entry under its old env) |

Further results:
- A stop and restart of a cluster's controllers loses every delete made while
  the cluster was stopped. With `ChangesWhileStopped = TRUE` in the `workload`
  cfg, TLC finds `ServiceCacheExact` violated in 6 states:
  1. a service is added;
  2. the cluster is stopped;
  3. the service is deleted;
  4. the old controller drains the add;
  5. the controllers restart;
  6. the new list holds no event for the service, so it stays cached.
  Nothing removes a stopped cluster's entries from the workload, service or
  identity caches. The passing run shows that a restart with no changes in
  between is harmless: the re-listed adds are idempotent.
- An `Updated` that changes only the env adds the new entry and keeps the old
  one (lines 88-96), so a stale entry stays in the cache.
- An object that stops being selected is skipped by `Updated` and by `Deleted`,
  so its entry stays in the cache. The cache and the index stay consistent
  with each other.
- `Rollouts.Delete` loads the cluster's map before it takes
  `rolloutcacheLock` (cluster_rollouts_cache.go:152). A concurrent Delete and
  Add of the same cluster would leave it deleting from a detached map. Only the
  rollout controller of the cluster writes that entry, and it runs one worker
  by default, so `RolloutCacheDelete` is one step like the deployments'
  `CacheDelete`.

Fairness: each controller's worker loops over its queue and nothing in these
handlers blocks, so weak fairness of each controller's steps is justified.

Not modelled: a delete the watch missed. The informer then delivers a
`DeletedFinalStateUnknown` tombstone, and nothing in the code unwraps it. The
service handler's cast fails (service_handler.go:53-56), the delete is
skipped, and the service stays cached. The workload handlers fail their casts
in the same way. The model's informers deliver every event, so `ServiceCacheExact`
says nothing about a missed watch.

## 7. `TrafficConfigReconcile`

### State and actions

Each controller has one worker (`--worker_concurrency` defaults to 1):
- the traffic-config controller (`TcW`);
- the dependency controller (`DepW`);
- a deployment controller per cluster (`DeployW(c)`).

`work[p]` is worker `p`'s list of jobs. An informer event appends a job
(`Emit`). A job that calls a function replaces itself with that function's jobs
(`Then`). Loops over Go maps are sets of the items still to do, taken in any
order.

| Variable | Code |
|---|---|
| `tcLive`, `tcRev` | the traffic-config objects and their revision annotation |
| `tcCache` | `trafficConfigCache`: identity -> env -> object |
| `wl`, `idx` | the deployments cache (identity, workload env per cluster) and `identityClusterCache` |
| `dependents`, `dependencies`, `depLive` | the two sides of `identityDependencyCache`, and the Dependency objects |
| `ef[c]` | the throttle envoy filters in cluster `c`: name <<identity, workload env>> -> [traffic env, revision, workload selector, config patches], as `EnvoyFilterBuild` builds them |
| `vs[c]` | the virtual services in cluster `c`: name <<identity, env>> -> [hosts, HTTP rules, revision], as `VirtualServiceBuild` builds them |

Actions:
- `HandleTcAdded`, `HandleTcUpdated`, `HandleTcDeleted` translate `Added`,
  `Updated` and `Deleted` of traffic_config_handler.go. This covers the
  skip of a disabled or ignored object (`Skipped`: `IsDisabled() ||
  IsIgnored()`), the cache write (only in `Added`), the guarded cache delete,
  and the read-only and warm-up gates (`Proceed`). `Reconcile` then queues the
  rate-limiter and virtual-service jobs.
- `RateLimiter*` translate `HandleRateLimiter` and `createRateLimitingFilters`:
  - the identity's clusters are read once;
  - out-of-scope clusters are skipped;
  - the delete branch applies to a disabled object or a Delete event;
  - the requested filters are computed from the deployment cache (`RateLimiterRequest`);
  - in a later step the existing filters are listed and `ApplyEnvoyFilters` is
    called (`RateLimiterApply`). `ApplyEnvoyFilters` updates, creates and
    deletes as envoy_filter.go does. A create of a name held under another
    traffic env fails with AlreadyExists, and the error is discarded.
- `VirtualServiceClusters` and `VirtualServiceCluster` translate
  `HandleVirtualServiceForTrafficConfig` and
  `handleVirtualServiceForMeshDependents`:
  - the clusters of the dependents that are not ignored. The code also keeps
    only the dependent equal to the context's `SourceIdentityKey`. A trigger
    sets that key on its child context (traffic_config_handler.go:201), but
    `Updated` hands each reconciler a fresh `context.NewContextWithLogger()`,
    a Background context (lines 112 and 121). So the key never arrives,
    `Reconcile` gives the job no source identity, and every dependent's
    clusters are written;
  - one build (`BuildVirtualService`), whose error ("no routes present")
    returns before the cluster loop;
  - the scope check per cluster;
  - `createUpdateDeleteVirtualServices`. A request for the empty name fails
    (`Unwritable`): `getVirtualServiceName` returns "" for an env other than
    qa, e2e, prd and prf (the constant `VsEnvs`), and a config without an edge
    service builds an empty object.
- `DeploymentAddIndex` and `DeploymentAddCache` are the deployment handler's
  `Added`, with its trigger when the cache is warm.
- `TriggerSelf`, `TriggerUpdate`, `TriggerDependents` and `TriggerDependent`
  translate `TriggerTrafficConfigHandlerForIdentity`. Its child events run
  inline, in the worker that triggered.
- `DependencyAdded`, `DependencyUpdated`, `TriggerEach` and `DependencyDeleted`
  translate dependency_handler.go. `AddEdges` writes both sides of the
  graph, as the two cache calls per destination do. The handlers read only the
  dependents side, and each reader reads one identity's set once, so the two
  calls are one step. Neither side is ever pruned: `Deleted` and a destination
  dropped by `Updated` leave the edges in place, which spec section 9 leaves
  open.

API calls fail only when `ApiMayFail` is TRUE (the fault model). Then each
list, get, create, update and delete call may return an error (`Succeeded`,
`CallSucceeds`). A failed list returns the empty list that the generated client
returns beside its error (`ListOutcomes`). Every error is dropped, as in the
code: `ApplyEnvoyFilters` discards what `errors.Join` returns. A create of a
name that exists fails with AlreadyExists. The runs fix `ApiMayFail = FALSE`.

Both resources are built in full. A filter (`EnvoyFilterFor`) carries the
config patches `EnvoyFilterBuild` makes from the quota group `QuotaOf[n]` of
object `n` and the inbound-ports annotation `PortsOf[<<identity, workload
env>>]` of its workload. A virtual service is built by `VirtualServiceBuild`
from the edge service `EdgeOf[n]`. The quota group, annotation and edge service
are the same in every revision of an object.

### The virtual-service builder: `VirtualServiceBuild`

Each operator translates the function of virtual_service.go it is named after:
- `GetTargetGroupRouteNameMap`: target group -> routes.
- `AppDialingPerTG` and `ServiceDialDetails`: the two outputs of
  `buildTargetGroupRouteNameMap`. A route gets the override map of the last
  group with overrides that routes it.
- `RouteDetails` (`getCombinedRouteDetails`), with `GetMeshDNSForTargetGroup`,
  `ConstructServiceDialRoute` and `ConstructAppDialRoutes`.
- `BuildMatchRulesForVirtualService`: per route, its app-dial rules, then its
  service-dial rule, or the per-env rules when it has neither.
- `AddAllowAllRule`: the catch-all rule per workload env, with the timeout of
  the rule with the most whole seconds.
- `BuildRulesWithoutTargetDetails`: the path for edge services without targets
  or target groups.
- `ConstructHostsForVirtualService` and `BuildVirtualServiceForMeshDependents`.

The data is abstracted as follows:
- A host is the pair <<env, alias>> that `types.GetHost` formats (and
  lower-cases).
- A path is its sequence of segments.
- A rule name is the tuple of the parts the code joins with "-".
- A duration is [seconds, nanos]. `GetFinalRouteTimeout` compares the fields,
  because the nanosecond sum outgrows TLC's integers.
- A Go map is ranged in one fixed order (`SetToSeq`).
- An app-dial rule's destinations are keyed by the spec entry they come from.

`ServingRule` gives Istio's first-match routing of a request (host, path) over
the rules. The properties about the built rules are stated with it.

### The throttle-filter builder: `EnvoyFilterBuild`

Each operator translates the function of rate_limiting_handler.go or
rate_limiting_helper.go it is named after:
- `CreateConfigPatches`: the HTTP filter patch (`CreateFilterPatch`) for the
  proxy version, then one route patch per inbound port (`CreateRoutePatches`).
- `QuotaUses`: the loops of `createRoutePatches`, as the sequence of (group,
  app, quota) triples: the quotas of every total group that selects the env
  (`contains`), then every associated app with every quota of every app group
  that selects it. A quota whose period does not parse is skipped.
- `GetDescriptorConfig`, `GetRateLimitConfig` and their parts: one descriptor
  and one rate-limit config per triple, keyed by `GetDescriptorKey`.
- `GetInboundPorts` and `CreateRouteMatch`: the annotation split at ",", an
  empty annotation giving the one empty port, whose match has no route config.

The data is abstracted as follows:
- A name is a sequence of tokens, ":" among them when the name has one, so that
  the join of `getDescriptorKey` is a concatenation. Base64 is injective, so a
  key is the joined sequence, tagged.
- A period is its length in milliseconds, or `None` when
  `time.ParseDuration` fails.
- A path is a sequence of characters, "." and "*" among them, so that
  `getPathRegex`'s two `strings.ReplaceAll` calls (`StringsReplaceAll`, leftmost
  non-overlapping first) act on it as they do on the string.
- A method's lower- and upper-case forms are the method tagged "lower" and
  "upper"; the method regex is the sequence of the alternatives `getMethodRegex`
  joins with "|", or ".*" for none.
- A header matcher (`GetHeaderMatcher`) is its name and the pair (condition,
  value), or `None` when the condition is none of the five the switch knows.

`ThrottleQuotasEnforced` states what a filter must do: each route patch holds
one descriptor per quota that selects the filter's workload env, with that
quota's keys and bucket, actions that produce exactly the descriptors' keys,
no two descriptors with the same entries, and a string match on every header
the actions match. `PathRegexWildcards` compares `GetPathRegex` with a one-pass
reading of the path (`WildcardReading`): every "*" becomes a ".*" wildcard, and
a "*" written ".*" keeps its one ".". It states two things:
- every ":path" match in a written filter is the reading of a selecting quota's
  path;
- `GetPathRegex` agrees with the reading on every path of up to `PathBound` = 4
  characters over "a", "." and "*" (`PathRegexAgrees`, evaluated once).

The two-pass normalisation is easy to get wrong on "..*" or "*.*".

### Runs

| Run | Expect | Shows |
|---|---|---|
| `tc` | pass | two configs of one identity in two envs, each created, updated and deleted, up to revision 3 and 6 changes: once the worker is idle, each in-scope cluster holds exactly the filters of the live configs at their current revision (`ThrottleFiltersExact`), each of whose route patches enforces exactly the quotas selecting its workload env (`ThrottleQuotasEnforced`, with `PathRegexWildcards` on the path regexes), and each dependent cluster the virtual services built from their current objects (`VirtualServiceCurrent`). Every virtual service written routes each route by a rule of that route, and each host's root by that host's catch-all (`VirtualServiceRoutesServed`). `t1` has targets and a 90/10 target group; `t2` has neither, and one of its routes has a config, which gets no rule |
| `tc_trigger` | pass | a dependent's deployment appears in a new cluster and a Dependency object gains a destination; the deployment and dependency workers' triggers interleave with the traffic-config worker, and every cluster holds exactly the current filters once all are idle (`ThrottleFiltersExact`). The config has two workload envs and an app override, so the catch-all of one host must not serve the other (`VirtualServiceRoutesServed`). `VirtualServiceCurrent` is not checked here: the new deployment is of an identity that already reaches its cluster, so no trigger has a virtual service to bring anywhere new. The case where one must is "Trigger direction" below, and the code fails it |
| `tc_stale` | violation | `TrafficConfigCacheCurrent`: after an add and an update the cache still holds the added revision. `Updated` never writes the cache (spec section 4.7 says it does), so every later trigger re-applies the old revision |

Bounds:
- Two identities, two clusters (one out of scope in `tc`) and two workload envs.
  They give a dependent in another cluster, a skipped cluster, and a filter per
  workload env that an update can drop.
- Revisions up to 3 and 6 changes give add, update, update or delete, and
  re-add for each of the two configs.
- `tc_trigger` allows 7 changes. They cover the config's add, the new
  deployment, and a Dependency object of `i2` created, changed between no
  destination and `i1`, deleted and created again. Every order of these
  against each other's handler steps is explored (349,278 states).
- The edge services (`EdgeTc`, `EdgeTrig`) take every branch of the builder.
  They cover both paths, with and without targets. They include a config-less
  route, a config without a target-group selector, a target with and one without
  mesh DNS, a selector naming no target, a weight only an app override names,
  and timeouts below and above a second.
- The quota groups (`QuotaTc`) take every branch of `createRoutePatches`: a
  total group per workload env, a quota whose period does not parse, an app
  group for both envs with two callers, a header match, a path written with
  ".*" and no methods, a config without
  groups, and a workload with a two-port annotation beside ones without.

Fairness: weak fairness of each worker's steps. A worker loops over its queue,
and the modelled handlers never block.
The runs check no temporal property on this model. That every handler run ends
(`<>[]Quiescent`) was tried on `tc_trigger`. TLC evaluates the fairness
conditions' ENABLED by recomputing every successor, and with it the builders,
which made the check take minutes per thousand states. The invariants guarded by
`Quiescent` are not vacuous: the runs fire `Idle`, which is enabled only in
quiescent states.

Further results. The constants are those of the `tc_trigger` run unless stated,
and `MC_TrafficConfigReconcile.tla` defines the sets named:
- The request race. With `WlAdds <- RaceAdds`, `ThrottleFiltersExact` is
  violated:
  - the traffic-config worker computes its request for `c1` (rate_limiting_handler.go:67);
  - the deployment worker then caches a new workload env and triggers;
  - the trigger creates the new filter;
  - the traffic-config worker's stale apply deletes that filter.
  Nothing re-triggers afterwards.
- Trigger direction. With `WlInit <- WlInitTc`, `WlAdds <- CallerAdds` and
  `DepSources = {}`, `VirtualServiceCurrent` is violated. A caller of `i1`
  appears in `c2`. The trigger reconciles the configs of the caller and of the
  caller's dependents, never those of `i1`, so `i1`'s virtual service never
  reaches `c2` (traffic_config_handler.go:194).
- Disabling. With the `tc` run's constants and `TcDisabled = {FALSE, TRUE}`,
  `ThrottleFiltersExact` is violated. `Updated` returns on a disabled object
  before the reconcilers, so the delete branches for disabled objects are
  unreachable and the filters stay. `TcIgnored = {FALSE, TRUE}` gives the
  same violation: an enabled config given the ignore label keeps its filters.
- Deletion. `Deleted` reconciles with an object that is not disabled, so
  `createUpdateDeleteVirtualServices` upserts a deleted config's virtual
  service rather than deleting it. `VirtualServiceCurrent` only constrains live
  configs.
- App-dial shadowing. With the `tc_trigger` constants, `ServiceWeightsApplied`
  is violated in 9 states. Route "a" splits 80/20 by its target group, and the
  group has an app override for caller "x". `buildAppDialRules` gives the rule
  "a-x" the same URI-prefix match as the service-dial rule "a", and puts it
  first (virtual_service.go:247). No rule looks at the caller, so every caller
  gets "x"'s 100% canary and the 80/20 split never applies.
- Bare env destinations. With the `tc_trigger` constants,
  `DestinationsAreHosts` is violated. Route "b"'s config names a target that
  `targets` does not list, so `getMeshDNSForTargetGroup` returns the route's
  first workload env itself as the destination host (virtual_service.go:135).
- Timeouts without targets. With the `tc` constants, `RouteTimeoutKept` is
  violated. `t2`'s route "c" has a 1500 ms timeout.
  `durationpb.New(time.Duration(route.Timeout))` reads it as 1500 ns
  (virtual_service.go:395), and `getFinalRouteTimeout` drops it. The path with
  targets keeps its 2500 ms, and `RouteTimeoutKept` holds in `tc_trigger`.
- Unknown env. With the `tc` constants and `VsEnvs = {e1}`,
  `VirtualServiceCurrent` is violated. `getVirtualServiceName` returns "" for
  `e2`, and every request for the empty name fails.
- API failures. With the `tc` constants and `ApiMayFail = TRUE`,
  `ThrottleFiltersExact` and `VirtualServiceCurrent` are violated. A failed
  write is never retried: each handler returns `SkipClose` whatever happened.
  Some failures undo more than their own call:
  - A failed list in the Delete branch deletes nothing, and the deleted config's
    filter stays (an add, a delete, then a failed list).
  - A failed list in `createRateLimitingFilters` makes every requested filter a
    create. Each create of an existing filter fails with AlreadyExists, so the
    update is lost.
  - In the same way, a failed `GetVirtualService` (virtual_service.go:569) makes
    the code create. After an add and an update, that create fails, and the old
    revision's virtual service stays.
  With every write succeeding and only lists failing, `ThrottleFiltersExact` is
  still violated. With only gets failing, `VirtualServiceCurrent` is.
- Warm-up. The traffic-config controller never resyncs (controllers.go:69). With
  `CacheWarmedUp = FALSE`, every handler stops at the gate. Configs created
  during warm-up are reconciled only if a later trigger reaches them.
- Descriptor-key collision. With the `tc` constants and
  `QuotaOf <- QuotaColl`, `ThrottleQuotasEnforced` is violated. Total group
  "a:b" with quota "c" and group "a" with quota "b:c" both select `w1`;
  `getDescriptorKey` joins the parts with ":" (rate_limiting_helper.go:75), so
  the two descriptors get the same key and the filter holds duplicate
  descriptors. Nothing in the code rejects ":" in a name.
- Unknown header condition. With the `tc` constants and the app quota's header
  condition "equal" in place of "prefix" in `QuotaTc`,
  `ThrottleQuotasEnforced` is violated. `getHeaderMatcher`'s switch has no
  default (rate_limiting_helper.go:100), so the matcher's string match is nil;
  the filter then carries an empty match, or the proto conversion fails, and
  either way the header is not enforced. The condition is a free string of the
  TrafficConfig object, and nothing in the code validates it.
- Name collision. Filter names omit the traffic env (rate_limiting_handler.go:72).
  Two configs of one identity whose workload envs overlap share one filter name.
  The second config's create fails with AlreadyExists, the error is discarded,
  and its workloads keep the first config's limits. The runs give each env its
  own workload envs.

Not modelled:
- labels and annotations of the virtual service other than the revision, and
  the namespace;
- the order of Go map iteration in the builder, which the model fixes;
- envoy filter versions: the model takes the one default version of
  defaults.go, so the loop over versions makes one filter per workload env;
- the filter's app label, the proxy-version regex, and the proto-struct
  conversion of the patches;
- a traffic config without a quota group. `createRoutePatches` ranges over
  `GetQuotaGroup().TotalQuotaGroup` (rate_limiting_handler.go:168 and 190)
  with no nil check, and nothing recovers the panic. The model gives every
  config a group, possibly with no quotas;
- Istio's prefix match on strings. `ServingRule` matches a URI prefix by path
  segments. The two differ only when one route is a string prefix of another
  route that is not a segment prefix ("/a" and "/ab"), and no route constant
  has such a pair;
- `MaxAmount`'s conversion to `uint32` in `getTokenBucket`: an amount at or
  beyond 2^32, or negative, wraps, and TLC's integers cannot hold it;
- the ignored-label paths of the workload objects;
- the lease checker's loop. The only checker, `noOpStateChecker`, sets the
  state to read-write on the main goroutine (init.go:32) before
  `StartControllers`. So every handler sees `IsReadOnly` false, and the runs
  fix `ReadOnly = FALSE`. Making the lease state a variable would add only a first step. It
  would also pair the initial, not yet checked lease state with the warm caches
  of `Init`, a state the program is never in.
