--------------------------- MODULE WorkloadCache ---------------------------
(***************************************************************************)
(* The per-cluster workload caches and the handlers that fill them: the    *)
(* deployment and rollout handlers (deployment_handler.go,                 *)
(* rollouts_handler.go) writing the cluster -> identity -> env caches      *)
(* (cluster_deployments_cache.go, cluster_rollouts_cache.go) and the       *)
(* identity -> clusters index (identity_cluster_cache.go), and the service *)
(* handler (service_handler.go) writing the cluster -> namespace -> name   *)
(* cache (cluster_services_cache.go).                                      *)
(*                                                                         *)
(* Every cluster runs one controller per kind.  A controller hands its     *)
(* informer's events to its handler one at a time and in order, so each   *)
(* controller has a queue of events and at most one handler invocation in *)
(* progress.  A workload handler makes several cache calls, each under     *)
(* that cache's own lock, and the calls of handlers of different           *)
(* controllers interleave: each cache call is one step.                    *)
(*                                                                         *)
(* A workload object is abstracted to its pod-template metadata: the       *)
(* workload identity (NoId when the label and annotation are empty), the   *)
(* env GetEnv derives (never empty: it falls back to "default"), and       *)
(* whether it is selected (mesh-enabled and not ignored).  A service is    *)
(* abstracted to its name and immutable namespace.                         *)
(***************************************************************************)
EXTENDS Naturals, Sequences, FiniteSets, Functions, TLC

SE == INSTANCE SequencesExt

CONSTANTS
    Clusters,       \* cluster ids
    Identities,     \* workload identities
    NoId,           \* the empty workload identity
    Envs,           \* envs GetEnv can derive
    WorkloadNames,  \* names of deployments (and rollouts) in a cluster
    SvcNames,       \* names of services in a cluster
    NsOf,           \* NsOf[s]: the namespace of service s
    MaxEvents,      \* object changes the API servers make
    MaxRestarts,    \* stops of a cluster's controllers (secret disabled, then re-enabled)
    ChangesWhileStopped, \* objects may change while their cluster's informers are stopped
    None

ASSUME /\ NoId \notin Identities
       /\ NsOf \in [SvcNames -> STRING]
       /\ MaxEvents \in Nat /\ MaxRestarts \in Nat
       /\ ChangesWhileStopped \in BOOLEAN

WKinds == {"deployment", "rollout"}
Ctrls == (WKinds \cup {"service"}) \X Clusters
WCtrls == WKinds \X Clusters
SCtrls == {"service"} \X Clusters

\* A workload object's pod-template metadata.
Meta == [id : Identities \cup {NoId}, env : Envs, mesh : BOOLEAN]

VARIABLES
    live,       \* live[<<k, c>>][n]: the object n of kind k in cluster c, or None
    svcLive,    \* svcLive[c]: the services that exist in cluster c
    queue,      \* queue[ctl]: the events the informer has not yet handed out
    pend,       \* pend[ctl]: the cache calls left in the handler in progress
    wcache,     \* wcache[k]: cluster -> identity -> env -> workload name
    idx,        \* identityClusterCache: identity -> set of clusters
    svc,        \* servicecache: cluster -> namespace -> set of service names
    warm,       \* IsCacheWarmedUp(): the refresh interval has elapsed
    triggered,  \* identities handed to the traffic-config handler
    nev,        \* object changes made
    watching,   \* watching[c]: the informers of cluster c are running
    nrestart    \* stops of cluster controllers so far

vars == <<live, svcLive, queue, pend, wcache, idx, svc, warm, triggered, nev,
          watching, nrestart>>

Event == [type : {"add", "update", "delete"}, name : WorkloadNames \cup SvcNames,
          new : Meta \cup {None}, old : Meta \cup {None}]
Call == [call : {"AddClusterToIdentity", "DeleteClusterFromIdentity", "Add",
                 "Delete", "Trigger"}, name : WorkloadNames, obj : Meta]

\* The empty map, and a map with key x (re)set to v.
EmptyMap == [x \in {} |-> None]
Put(f, x, v) == (x :> v) @@ f
Drop(f, x) == Restrict(f, DOMAIN f \ {x})

-----------------------------------------------------------------------------
(* Cache operations.  Each runs under its cache's lock, so each is atomic. *)

\* AddClusterToIdentity: add the cluster to the identity's set, creating it.
IdxAdd(i, c) ==
    Put(idx, i, IF i \in DOMAIN idx THEN idx[i] \cup {c} ELSE {c})

\* DeleteClusterFromIdentity: remove the cluster; an emptied set is kept.
IdxDel(i, c) ==
    IF i \in DOMAIN idx THEN [idx EXCEPT ![i] = @ \ {c}] ELSE idx

\* Deployments.Add: store the workload under cluster, identity and env.
CacheAdd(m, c, n, o) ==
    IF o.id = NoId THEN m
    ELSE LET ids  == IF c \in DOMAIN m THEN m[c] ELSE EmptyMap
             envs == IF o.id \in DOMAIN ids THEN ids[o.id] ELSE EmptyMap
         IN  Put(m, c, Put(ids, o.id, Put(envs, o.env, n)))

MutCacheDeleteNoPrune(m, c, o) ==
    IF c \notin DOMAIN m \/ o.id \notin DOMAIN m[c] THEN m
    ELSE Put(m, c, Put(m[c], o.id, Drop(m[c][o.id], o.env)))

\* Deployments.Delete: delete the env entry whatever workload it holds, and
\* prune the identity and then the cluster entry when they become empty.
CacheDelete(m, c, o) ==
    IF c \notin DOMAIN m \/ o.id \notin DOMAIN m[c] THEN m
    ELSE LET envs == Drop(m[c][o.id], o.env)
             ids  == IF DOMAIN envs = {} THEN Drop(m[c], o.id)
                     ELSE Put(m[c], o.id, envs)
         IN  IF DOMAIN ids = {} THEN Drop(m, c) ELSE Put(m, c, ids)

\* Rollouts.Add and Rollouts.Delete repeat the deployments cache's functions
\* on a cache of their own.  Rollouts.Delete loads the cluster entry before
\* it takes the lock; with one rollout controller per cluster no other
\* writer of that entry runs in between, so the call is still one step.
RolloutCacheAdd(m, c, n, o) == CacheAdd(m, c, n, o)
RolloutCacheDelete(m, c, o) == CacheDelete(m, c, o)

\* Services.Add and Services.Delete, keyed by cluster, namespace and name.
ServiceAdd(c, s) ==
    LET nss == IF c \in DOMAIN svc THEN svc[c] ELSE EmptyMap
        ns  == NsOf[s]
    IN  Put(svc, c, Put(nss, ns, IF ns \in DOMAIN nss THEN nss[ns] \cup {s}
                                 ELSE {s}))

MutServiceDeleteAlwaysPrune(c, s) ==
    IF c \notin DOMAIN svc \/ NsOf[s] \notin DOMAIN svc[c] THEN svc
    ELSE LET nss == Drop(svc[c], NsOf[s])
         IN  IF DOMAIN nss = {} THEN Drop(svc, c) ELSE Put(svc, c, nss)

ServiceDelete(c, s) ==
    IF c \notin DOMAIN svc \/ NsOf[s] \notin DOMAIN svc[c] THEN svc
    ELSE LET names == svc[c][NsOf[s]] \ {s}
             nss   == IF names = {} THEN Drop(svc[c], NsOf[s])
                      ELSE Put(svc[c], NsOf[s], names)
         IN  IF DOMAIN nss = {} THEN Drop(svc, c) ELSE Put(svc, c, nss)

-----------------------------------------------------------------------------
(* The workload handlers, as the cache calls they make in order.           *)

C(call, n, o) == [call |-> call, name |-> n, obj |-> o]

\* A workload is handled when its pod template is mesh-enabled, not ignored
\* and names a workload identity.
Handled(o) == o.mesh /\ o.id # NoId

\* Added: index the cluster, cache the workload, and, once the cache is warm,
\* trigger the traffic-config handler for the identity.
Added(n, o) ==
    IF ~Handled(o) THEN <<>>
    ELSE <<C("AddClusterToIdentity", n, o), C("Add", n, o), C("Trigger", n, o)>>

MutUpdatedChecksOld(n, new, old) ==
    IF ~Handled(old) THEN <<>>
    ELSE (IF old.id # NoId /\ new.id # old.id
          THEN <<C("DeleteClusterFromIdentity", n, old), C("Delete", n, old)>>
          ELSE <<>>)
         \o <<C("AddClusterToIdentity", n, new), C("Add", n, new)>>

\* Updated: skip unless the new object is handled; when the identity
\* changed, remove the cluster from the old identity and the old object from
\* the cache; then index and cache the new object.  No trigger.
Updated(n, new, old) ==
    IF ~Handled(new) THEN <<>>
    ELSE (IF old.id # NoId /\ new.id # old.id
          THEN <<C("DeleteClusterFromIdentity", n, old), C("Delete", n, old)>>
          ELSE <<>>)
         \o <<C("AddClusterToIdentity", n, new), C("Add", n, new)>>

MutDeletedKeepsIndex(n, o) ==
    IF ~Handled(o) THEN <<>> ELSE <<C("Delete", n, o)>>

\* Deleted: remove the workload from the cache, then the cluster from the
\* identity, whatever else of the identity the cluster still runs.
Deleted(n, o) ==
    IF ~Handled(o) THEN <<>>
    ELSE <<C("Delete", n, o), C("DeleteClusterFromIdentity", n, o)>>

\* The deployment handler's dispatch of an informer event.
DeploymentHandler(e) ==
    CASE e.type = "add"    -> Added(e.name, e.new)
      [] e.type = "update" -> Updated(e.name, e.new, e.old)
      [] e.type = "delete" -> Deleted(e.name, e.old)

\* rollouts_handler.go repeats deployment_handler.go call for call.
RolloutHandler(e) == DeploymentHandler(e)

HandlerOf(k, e) ==
    IF k = "deployment" THEN DeploymentHandler(e) ELSE RolloutHandler(e)

-----------------------------------------------------------------------------
(* Actions.                                                                *)

Init ==
    /\ live = [w \in WCtrls |-> [n \in WorkloadNames |-> None]]
    /\ svcLive = [c \in Clusters |-> {}]
    /\ queue = [ctl \in Ctrls |-> <<>>]
    /\ pend = [ctl \in WCtrls |-> <<>>]
    /\ wcache = [k \in WKinds |-> EmptyMap]
    /\ idx = EmptyMap
    /\ svc = EmptyMap
    /\ warm = FALSE
    /\ triggered = {}
    /\ nev = 0
    /\ watching = [c \in Clusters |-> TRUE]
    /\ nrestart = 0

Ev(type, n, new, old) == [type |-> type, name |-> n, new |-> new, old |-> old]

\* The API server creates, changes or deletes workload n, and the informer
\* queues the matching event carrying the new and the last seen object.
\* While the cluster's informers are stopped nothing is queued.
ChangeWorkload(w, n, m) ==
    LET old == live[w][n]
    IN  /\ nev < MaxEvents
        /\ m # old
        /\ watching[w[2]] \/ ChangesWhileStopped
        /\ live' = [live EXCEPT ![w][n] = m]
        /\ queue' = IF ~watching[w[2]] THEN queue
                     ELSE [queue EXCEPT ![w] = Append(@,
                            CASE old = None -> Ev("add", n, m, None)
                              [] m = None   -> Ev("delete", n, None, old)
                              [] OTHER      -> Ev("update", n, m, old))]
        /\ nev' = nev + 1
        /\ UNCHANGED <<svcLive, pend, wcache, idx, svc, warm, triggered, watching, nrestart>>

\* The API server creates, updates or deletes service s of cluster c.
ChangeService(c, s, type) ==
    /\ nev < MaxEvents
    /\ type \in IF s \in svcLive[c] THEN {"update", "delete"} ELSE {"add"}
    /\ svcLive' = [svcLive EXCEPT ![c] = IF type = "delete" THEN @ \ {s}
                                         ELSE @ \cup {s}]
    /\ watching[c] \/ ChangesWhileStopped
    /\ queue' = IF ~watching[c] THEN queue
                 ELSE [queue EXCEPT ![<<"service", c>>] =
                         Append(@, Ev(type, s, None, None))]
    /\ nev' = nev + 1
    /\ UNCHANGED <<live, pend, wcache, idx, svc, warm, triggered, watching, nrestart>>

\* The cache refresh interval elapses since start-up.
WarmUp ==
    /\ ~warm
    /\ warm' = TRUE
    /\ UNCHANGED <<live, svcLive, queue, pend, wcache, idx, svc, triggered, nev, watching, nrestart>>

\* A workload controller hands its next event to the handler.
HandleWorkload(w) ==
    /\ pend[w] = <<>>
    /\ queue[w] # <<>>
    /\ pend' = [pend EXCEPT ![w] = HandlerOf(w[1], Head(queue[w]))]
    /\ queue' = [queue EXCEPT ![w] = Tail(@)]
    /\ UNCHANGED <<live, svcLive, wcache, idx, svc, warm, triggered, nev, watching, nrestart>>

\* The handler in progress makes its next cache call.
CacheCall(w) ==
    LET k == w[1]
        c == w[2]
        x == Head(pend[w])
    IN  /\ pend[w] # <<>>
        /\ pend' = [pend EXCEPT ![w] = Tail(@)]
        /\ CASE x.call = "AddClusterToIdentity" ->
                  /\ idx' = IdxAdd(x.obj.id, c)
                  /\ UNCHANGED <<wcache, triggered>>
             [] x.call = "DeleteClusterFromIdentity" ->
                  /\ idx' = IdxDel(x.obj.id, c)
                  /\ UNCHANGED <<wcache, triggered>>
             [] x.call = "Add" ->
                  /\ wcache' = [wcache EXCEPT ![k] =
                                  IF k = "deployment" THEN CacheAdd(@, c, x.name, x.obj)
                                  ELSE RolloutCacheAdd(@, c, x.name, x.obj)]
                  /\ UNCHANGED <<idx, triggered>>
             [] x.call = "Delete" ->
                  /\ wcache' = [wcache EXCEPT ![k] =
                                  IF k = "deployment" THEN CacheDelete(@, c, x.obj)
                                  ELSE RolloutCacheDelete(@, c, x.obj)]
                  /\ UNCHANGED <<idx, triggered>>
             [] x.call = "Trigger" ->
                  /\ triggered' = IF warm THEN triggered \cup {x.obj.id}
                                  ELSE triggered
                  /\ UNCHANGED <<wcache, idx>>
        /\ UNCHANGED <<live, svcLive, queue, svc, warm, nev, watching, nrestart>>

\* The service controller hands its next event to the service handler,
\* which makes its one cache call.
HandleService(c) ==
    LET e == Head(queue[<<"service", c>>])
    IN  /\ queue[<<"service", c>>] # <<>>
        /\ svc' = IF e.type = "delete" THEN ServiceDelete(c, e.name)
                  ELSE ServiceAdd(c, e.name)
        /\ queue' = [queue EXCEPT ![<<"service", c>>] = Tail(@)]
        /\ UNCHANGED <<live, svcLive, pend, wcache, idx, warm, triggered, nev, watching, nrestart>>

\* StopRemoteClusterControllers: the cluster's secret is disabled or
\* deleted, and every controller of the cluster (not the secret,
\* traffic-config or dependency controller) is closed.  Its workers drain
\* what is already queued (ShutDownWithDrain); nothing of the caches is
\* removed.  The secret's change counts as one of the MaxEvents changes.
StopWatch(c) ==
    /\ watching[c]
    /\ nev < MaxEvents
    /\ nrestart < MaxRestarts
    /\ watching' = [watching EXCEPT ![c] = FALSE]
    /\ nrestart' = nrestart + 1
    /\ nev' = nev + 1
    /\ UNCHANGED <<live, svcLive, queue, pend, wcache, idx, svc, warm, triggered>>

\* The add events a new workload informer's initial list delivers.
Listed(w) ==
    {Ev("add", n, live[w][n], None) : n \in {x \in WorkloadNames : live[w][x] # None}}

\* The registry's AddCluster for a cluster it has dropped from its cache.
\* The model starts it only once the old controllers are idle.  The code
\* does not wait: the secret handler uncaches the cluster right after it
\* spawns the stop goroutines (clusters_secret_handler.go:89-90, 108-109),
\* so old workers may still drain while new ones start; that overlap is
\* left to ClusterRegistry.  StartRemoteClusterControllers creates the
\* service, deployment and rollout controllers, whose informers list the
\* objects that exist now, in an order of the API server's, as add events.
StartWatch(c) ==
    /\ ~watching[c]
    /\ \A ctl \in Ctrls : ctl[2] = c =>
          queue[ctl] = <<>> /\ (ctl \in WCtrls => pend[ctl] = <<>>)
    /\ watching' = [watching EXCEPT ![c] = TRUE]
    /\ \E ld \in SE!SetToSeqs(Listed(<<"deployment", c>>)),
         lr \in SE!SetToSeqs(Listed(<<"rollout", c>>)),
         ls \in SE!SetToSeqs({Ev("add", s, None, None) : s \in svcLive[c]}) :
          queue' = [queue EXCEPT ![<<"deployment", c>>] = ld,
                                 ![<<"rollout", c>>] = lr,
                                 ![<<"service", c>>] = ls]
    /\ UNCHANGED <<live, svcLive, pend, wcache, idx, svc, warm, triggered, nev, nrestart>>

\* Every cluster's informers run and every event they delivered is handled.
Quiescent ==
    /\ \A c \in Clusters : watching[c]
    /\ \A ctl \in Ctrls : queue[ctl] = <<>> /\ (ctl \in WCtrls => pend[ctl] = <<>>)

\* Every change has been made and handled.
Done ==
    /\ nev = MaxEvents
    /\ Quiescent
    /\ UNCHANGED vars

Next ==
    \/ \E w \in WCtrls, n \in WorkloadNames, m \in Meta \cup {None} :
          ChangeWorkload(w, n, m)
    \/ \E c \in Clusters, s \in SvcNames, t \in {"add", "update", "delete"} :
          ChangeService(c, s, t)
    \/ WarmUp
    \/ \E w \in WCtrls : HandleWorkload(w) \/ CacheCall(w)
    \/ \E c \in Clusters : HandleService(c) \/ StopWatch(c) \/ StartWatch(c)
    \/ Done

Spec == Init /\ [][Next]_vars

\* Every controller keeps handing out events and every handler runs to its
\* end: the controllers' workers are never blocked by these handlers.
FairSpec ==
    /\ Spec
    /\ \A w \in WCtrls : WF_vars(HandleWorkload(w)) /\ WF_vars(CacheCall(w))
    /\ \A c \in Clusters : WF_vars(HandleService(c))

-----------------------------------------------------------------------------
(* Properties.                                                             *)

\* A map from a subset of D to values in R.
IsMapOf(f, D, R(_)) == DOMAIN f \subseteq D /\ \A x \in DOMAIN f : R(f[x])
\* The same, with no empty value: the caches prune emptied inner maps.
IsPrunedMapOf(f, D, R(_)) == IsMapOf(f, D, LAMBDA v : v # EmptyMap /\ R(v))

\* The type of every variable; the caches hold no emptied inner map, as
\* their Delete functions prune them.
TypeOK ==
    /\ live \in [WCtrls -> [WorkloadNames -> Meta \cup {None}]]
    /\ svcLive \in [Clusters -> SUBSET SvcNames]
    /\ queue \in [Ctrls -> Seq(Event)]
    /\ pend \in [WCtrls -> Seq(Call)]
    /\ \A k \in WKinds :
          IsPrunedMapOf(wcache[k], Clusters, LAMBDA ids :
             IsPrunedMapOf(ids, Identities, LAMBDA envs :
                IsMapOf(envs, Envs, LAMBDA n : n \in WorkloadNames)))
    /\ IsMapOf(idx, Identities, LAMBDA cs : cs \subseteq Clusters)
    /\ IsPrunedMapOf(svc, Clusters, LAMBDA nss :
          IsMapOf(nss, {NsOf[s] : s \in SvcNames},
                  LAMBDA ss : ss # {} /\ ss \subseteq SvcNames))
    /\ warm \in BOOLEAN
    /\ triggered \subseteq Identities
    /\ watching \in [Clusters -> BOOLEAN]
    /\ nrestart \in 0..MaxRestarts
    /\ nev \in 0..MaxEvents

\* Cluster c holds a cached workload of kind k and identity i.
CachedIn(k, c, i) == c \in DOMAIN wcache[k] /\ i \in DOMAIN wcache[k][c]

\* Once every event is handled, the identity -> clusters index names only
\* clusters whose deployment or rollout cache holds a workload of that
\* identity: every AddClusterToIdentity of a handler is followed by its
\* Add, and every Delete of a workload by its DeleteClusterFromIdentity,
\* whatever the deployment and rollout handlers of the cluster interleave.
IndexSound ==
    Quiescent =>
        \A i \in DOMAIN idx : \A c \in idx[i] : \E k \in WKinds : CachedIn(k, c, i)

\* Once every event is handled, every cached workload's cluster is in its
\* identity's index: GetClustersForIdentity names every cluster the
\* caches hold a workload of the identity in.
IndexComplete ==
    Quiescent =>
        \A k \in WKinds, c \in Clusters, i \in Identities :
            CachedIn(k, c, i) => i \in DOMAIN idx /\ c \in idx[i]

\* Once every event is handled, the service cache holds exactly the services
\* that exist: Services.Delete prunes a namespace only when its last service
\* goes, so deleting one service never loses another of its namespace.
ServiceCacheExact ==
    Quiescent =>
        \A c \in Clusters, s \in SvcNames :
            (s \in svcLive[c]) <=> (c \in DOMAIN svc /\ NsOf[s] \in DOMAIN svc[c]
                                   /\ s \in svc[c][NsOf[s]])

\* The live workload n of w is handled but not cached under its identity
\* and env.
Uncached(w, n) ==
    LET o == live[w][n]
        m == wcache[w[1]]
        c == w[2]
    IN  /\ o # None
        /\ Handled(o)
        /\ ~(/\ CachedIn(w[1], c, o.id)
             /\ o.env \in DOMAIN m[c][o.id]
             /\ m[c][o.id][o.env] = n)

\* A selected workload that is not in its cache is eventually cached (or
\* changed again): the handlers of its Added or Updated event, whichever
\* made it selected, store it, and no later call of another controller's
\* handler removes it.
WorkloadEventuallyCached ==
    \A w \in WCtrls, n \in WorkloadNames : Uncached(w, n) ~> ~Uncached(w, n)

====
