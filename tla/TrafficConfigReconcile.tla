------------------------ MODULE TrafficConfigReconcile ------------------------
(***************************************************************************)
(* The traffic-config reconcile path: the traffic-config handler           *)
(* (traffic_config_handler.go) with its cache (trafficconfig_cache.go),    *)
(* the throttle-filter reconciler (rate_limiting_handler.go,               *)
(* rate_limiting_helper.go, envoy_filter.go), the virtual-service          *)
(* reconciler (virtual_service.go), and the two other handlers that call   *)
(* TriggerTrafficConfigHandlerForIdentity: the deployment handler's Added  *)
(* (deployment_handler.go) and the dependency handler                      *)
(* (dependency_handler.go, identity_dependency_cache.go).                  *)
(*                                                                         *)
(* Each controller has one worker (--worker_concurrency defaults to 1):    *)
(* the traffic-config controller, the dependency controller and one        *)
(* deployment controller per cluster.  A worker runs one handler at a      *)
(* time; the handler's cache reads and its calls to a cluster's API        *)
(* server are steps, and the steps of different workers interleave.  A    *)
(* worker's work is a sequence of jobs: informer events are appended,      *)
(* and a job that calls a function pushes that function's jobs in front.   *)
(*                                                                         *)
(* A traffic config is abstracted to its name, the (identity, env) it is   *)
(* for, its revision annotation, its workload envs, and its disabled and  *)
(* ignored flags (IsDisabled, IsIgnored).                                  *)
(* An envoy filter is its name <<identity, workload env>> (one envoy       *)
(* version), its traffic-env label, its revision annotation and what       *)
(* EnvoyFilterBuild builds; a virtual service is its name <<identity,      *)
(* env>> and what VirtualServiceBuild builds.  When ApiMayFail holds, any  *)
(* list, get or write call to a cluster's API server may return an error.  *)
(***************************************************************************)
EXTENDS Naturals, Sequences, FiniteSets, Functions, TLC

CONSTANTS
    Identities,     \* workload identities
    TEnvs,          \* traffic-config envs
    WEnvs,          \* workload envs
    Clusters,       \* cluster ids of the remote clusters
    TcNames,        \* names of traffic-config objects
    TcKey,          \* TcKey[n]: the <<identity, env>> object n is for
    TcWenvs,        \* TcWenvs[n]: the workload envs object n may select
    TcDisabled,     \* the values the disabled flag may take
    TcIgnored,      \* the values the ignored flag may take
    TcOps,          \* the traffic-config changes made: "add", "update", "delete"
    MaxRev,         \* revisions of one traffic config
    WlInit,         \* WlInit[c]: the <<identity, workload env>> deployed in c at start
    WlAdds,         \* <<c, i, w>>: deployments that may be added later
    DepInit,        \* DepInit[i]: the dependents of i at start
    DepSources,     \* sources of Dependency objects that may change
    DepChoices,     \* the destination sets a Dependency object may have
    InScope,        \* clusters IsClusterInAllowedScope accepts and GetCluster finds
    IgnoredAssets,  \* identities IsAssetIgnored accepts
    ReadOnly,       \* leasechecker.IsReadOnly()
    CacheWarmedUp,  \* options.IsCacheWarmedUp()
    MaxEvents,      \* object changes the API servers make
    EdgeOf,         \* EdgeOf[n]: the edge service of object n, or None
    QuotaOf,        \* QuotaOf[n]: the quota group of object n
    PortsOf,        \* PortsOf[<<i, w>>]: the inbound ports annotated on the workload
    VsEnvs,         \* the traffic envs getVirtualServiceName knows
    ApiMayFail,     \* a call to a cluster's API server may return an error
    None

ASSUME /\ TcKey \in [TcNames -> Identities \X TEnvs]
       /\ TcWenvs \in [TcNames -> SUBSET WEnvs]
       /\ TcDisabled \subseteq BOOLEAN /\ TcDisabled # {}
       /\ TcIgnored \subseteq BOOLEAN /\ TcIgnored # {}
       /\ TcOps \subseteq {"add", "update", "delete"}
       /\ WlInit \in [Clusters -> SUBSET (Identities \X WEnvs)]
       /\ WlAdds \subseteq Clusters \X Identities \X WEnvs
       /\ DepInit \in [Identities -> SUBSET Identities]
       /\ DepSources \subseteq Identities /\ DepChoices \subseteq SUBSET Identities
       /\ InScope \subseteq Clusters /\ IgnoredAssets \subseteq Identities
       /\ ReadOnly \in BOOLEAN /\ CacheWarmedUp \in BOOLEAN /\ ApiMayFail \in BOOLEAN
       /\ MaxRev \in Nat /\ MaxEvents \in Nat
       /\ TcNames \subseteq DOMAIN EdgeOf /\ VsEnvs \subseteq TEnvs
       /\ TcNames \subseteq DOMAIN QuotaOf /\ Identities \X WEnvs \subseteq DOMAIN PortsOf

\* The options and lease gates, as the handlers call them.  The allowed
\* scope is a set of regular expressions and the ignored assets a list of
\* lower-cased aliases; both are abstracted to the sets they accept.
\* IsClusterInAllowedScope stands also for GetCluster finding the cluster.
IsClusterInAllowedScope(c) == c \in InScope
IsAssetIgnored(i) == i \in IgnoredAssets
\* The refresh interval since start-up has elapsed.
IsCacheWarmedUp == CacheWarmedUp
\* The lease state; the no-op state checker clears ReadOnly before any
\* controller starts.
IsReadOnly == ReadOnly

\* The workers: the traffic-config, dependency and deployment controllers.
TcW == <<"trafficconfig">>
DepW == <<"dependency">>
DeployW(c) == <<"deployment", c>>
Workers == {TcW, DepW} \cup {DeployW(c) : c \in Clusters}

\* The state of a traffic-config object, and the object as a handler sees it.
TcState == [rev : 1..MaxRev, wenvs : SUBSET WEnvs, disabled : BOOLEAN, ignored : BOOLEAN]
TcObj(n, s) == [name |-> n, i |-> TcKey[n][1], e |-> TcKey[n][2],
                rev |-> s.rev, wenvs |-> s.wenvs, disabled |-> s.disabled,
                ignored |-> s.ignored]
TcObjs == {TcObj(n, s) : n \in TcNames, s \in TcState}

\* The virtual-service builder, and the sequence operators.
VSB == INSTANCE VirtualServiceBuild
EFB == INSTANCE EnvoyFilterBuild
SE == INSTANCE SequencesExt

\* Maps whose domain grows and shrinks.
EmptyMap == [x \in {} |-> None]
Put(f, x, v) == (x :> v) @@ f
Drop(f, x) == Restrict(f, DOMAIN f \ {x})

VARIABLES
    tcLive,      \* tcLive[n]: the state of traffic-config object n, or None
    tcRev,       \* tcRev[n]: the last revision object n was given
    tcCache,     \* trafficConfigCache: identity -> env -> cached object or None
    wl,          \* wl[c]: the <<identity, workload env>> in the deployment cache of c
    idx,         \* identityClusterCache: identity -> set of clusters
    dependents,  \* identityDependentCache: identity -> the identities that depend on it
    dependencies, \* identityDependencyCache: identity -> the identities it depends on
    depLive,     \* depLive[s]: the destinations of the Dependency object of s, or None
    ef,          \* ef[c]: envoy filter name -> filter in cluster c
    vs,          \* vs[c]: virtual service name -> rev in cluster c
    wlLive,      \* wlLive[c]: the <<identity, workload env>> deployed in c
    work,        \* work[p]: the jobs of worker p
    nev          \* object changes made

vars == <<tcLive, tcRev, tcCache, wl, idx, dependents, dependencies, depLive, ef, vs, wlLive,
          work, nev>>

\* A job.  Fields a kind does not use are None.
J(k) == [k |-> k, tc |-> None, ev |-> None, src |-> None, i |-> None,
         c |-> None, w |-> None, todo |-> None, old |-> None, req |-> None]

-----------------------------------------------------------------------------
(* The traffic-config cache.  The handlers never write an empty env.       *)

\* AddTrafficConfigToCache: the object replaces the entry of its env.
AddTrafficConfigToCache(t) == [tcCache EXCEPT ![t.i][t.e] = t]

\* DeleteTrafficConfigFromCache: removes the entry of the object's env only
\* when the cached object has the same name.
DeleteTrafficConfigFromCache(t) ==
    IF tcCache[t.i][t.e] # None /\ tcCache[t.i][t.e].name = t.name
    THEN [tcCache EXCEPT ![t.i][t.e] = None]
    ELSE tcCache

\* GetTrafficConfigEntry: a copy of every cached object of an identity.
GetTrafficConfigEntry(i) == {tcCache[i][e] : e \in {e \in TEnvs : tcCache[i][e] # None}}

\* identityCluster.GetClustersForIdentity: a copy of the identity's clusters.
GetClustersForIdentity(i) == idx[i]

\* deploymentClusterCache.GetByClusterIdentityEnv: whether cluster c caches a
\* deployment of identity i in workload env w.
GetByClusterIdentityEnv(c, i, w) == <<i, w>> \in wl[c]

-----------------------------------------------------------------------------
(* Envoy filters and virtual services in a remote cluster.                 *)

\* listRateLimitingFilters: the filters labelled for the identity and the
\* traffic config's env.
ListRateLimitingFilters(c, t) == {n \in DOMAIN ef[c] : n[1] = t.i /\ ef[c][n].tenv = t.e}

\* The API calls of a batch that succeed: all of them, or any subset when
\* the API server may fail.
Succeeded(calls) == IF ApiMayFail THEN SUBSET calls ELSE {calls}

\* Whether one API call succeeds.
CallSucceeds == IF ApiMayFail THEN BOOLEAN ELSE {TRUE}

\* What a list call returns: the items, or, when it fails, the empty list
\* the generated client returns beside the error.
ListOutcomes(items) == IF ApiMayFail THEN {items, {}} ELSE {items}

\* Mutant: every workload env is requested, deployed or not.
MutRequestedFiltersAllEnvs(c, t) == {<<t.i, w>> : w \in t.wenvs}

\* The filters createRateLimitingFilters requests: one per workload env for
\* which getWorkLoadLabels finds a deployment of the identity in the cache.
RequestedFilters(c, t) == {<<t.i, w>> : w \in {w \in t.wenvs : GetByClusterIdentityEnv(c, t.i, w)}}

\* The envoy version of options.GetEnvoyFilterVersions: its default, the
\* one version of defaults.go.
EnvoyFilterVersion == "1.21"

\* The filter createRateLimitingFilters builds for workload env w: its
\* traffic-env label, revision annotation, workload selector (whose app
\* label is left out) and config patches.
EnvoyFilterFor(t, w) ==
    [tenv |-> t.e, rev |-> t.rev, selector |-> [assetAlias |-> t.i, env |-> w],
     patches |-> EFB!CreateConfigPatches(w, EnvoyFilterVersion, QuotaOf[t.name], PortsOf[<<t.i, w>>])]

\* newList of createRateLimitingFilters: filter name -> filter.
NewList(c, t) == [n \in RequestedFilters(c, t) |-> EnvoyFilterFor(t, n[2])]

\* Mutant: listed filters that are no longer requested are kept.
MutApplyEnvoyFiltersNoDelete(f, req, old, ok) ==
    LET created == ((DOMAIN req \ old) \ DOMAIN f) \cap ok
        updated == (DOMAIN req \cap old) \cap ok
    IN  [n \in DOMAIN f \cup created |-> IF n \in updated \cup created THEN req[n] ELSE f[n]]

\* ApplyEnvoyFilters: update the requested filters that were listed, create
\* the others, and delete the listed filters not requested (all of them
\* when nothing is requested).  Only the calls to names in ok succeed.  A
\* create of a name that exists (under other labels, or unlisted because
\* the list failed) fails with AlreadyExists.  errors.Join's results are
\* discarded, so every error is dropped.
ApplyEnvoyFilters(f, req, old, ok) ==
    LET toUpdate == (DOMAIN req \cap old) \cap ok
        toCreate == DOMAIN req \ old
        created  == (toCreate \ DOMAIN f) \cap ok
        toDelete == (old \ DOMAIN req) \cap ok
    IN  [n \in (DOMAIN f \ toDelete) \cup created |->
            IF n \in toUpdate \cup created THEN req[n] ELSE f[n]]

\* DeleteEnvoyFilters of a listed set.
DeleteEnvoyFilters(f, old) == Restrict(f, DOMAIN f \ old)

\* Mutant: the name is built with its arguments swapped.
MutVirtualServiceNameSwapped(t) == <<t.e, t.i>>

\* buildVirtualServiceForMeshDependents for object t: the workload envs are
\* a list in the object, a set here, taken in one fixed order.
BuildVirtualService(t) ==
    VSB!BuildVirtualServiceForMeshDependents(
        [i |-> t.i, wenvs |-> SE!SetToSeq(t.wenvs), rev |-> t.rev], EdgeOf[t.name])

\* getVirtualServiceName: one virtual service per identity and env, and
\* the empty name for an env outside qa, e2e, prd and prf.
VirtualServiceName(t) == IF t.e \in VsEnvs THEN <<t.i, t.e>> ELSE ""

\* The API server rejects a request for the empty name: a virtual service
\* of an unknown env, or the empty object built without an edge service.
Unwritable(t) == VirtualServiceName(t) = "" \/ BuildVirtualService(t) = VSB!Unnamed

\* Mutant: an existing virtual service is left as it is.
MutCreateOnlyVirtualServices(f, t, got, ok) ==
    IF Unwritable(t) \/ ~ok THEN f
    ELSE IF t.disabled THEN Drop(f, VirtualServiceName(t))
    ELSE IF VirtualServiceName(t) \in DOMAIN f THEN f
    ELSE Put(f, VirtualServiceName(t), BuildVirtualService(t))

\* createUpdateDeleteVirtualServices: delete when the traffic config is
\* disabled, otherwise update the existing one or create it.  got: the
\* GetVirtualService call succeeded; ok: the write succeeded.  When the get
\* fails the code creates, which fails with AlreadyExists on an existing
\* name; every error is dropped.
CreateUpdateDeleteVirtualServices(f, t, got, ok) ==
    IF Unwritable(t) \/ ~ok THEN f
    ELSE IF t.disabled THEN Drop(f, VirtualServiceName(t))
    ELSE IF ~got /\ VirtualServiceName(t) \in DOMAIN f THEN f
    ELSE Put(f, VirtualServiceName(t), BuildVirtualService(t))

\* handleVirtualServiceForMeshDependents: the clusters of the dependents
\* that are not ignored and, when a source identity is set, equal it.
DependentClusters(t, src) ==
    UNION {GetClustersForIdentity(d) : d \in {d \in dependents[t.i] :
                                                  ~IsAssetIgnored(d) /\ (src = None \/ src = d)}}

-----------------------------------------------------------------------------
(* Initial state: the caches were filled while the cache warmed up; no     *)
(* traffic config exists yet and no filter or virtual service was made.    *)

Init ==
    /\ tcLive = [n \in TcNames |-> None]
    /\ tcRev = [n \in TcNames |-> 0]
    /\ tcCache = [i \in Identities |-> [e \in TEnvs |-> None]]
    /\ wl = WlInit
    /\ idx = [i \in Identities |-> {c \in Clusters : \E w \in WEnvs : <<i, w>> \in WlInit[c]}]
    /\ dependents = DepInit
    /\ dependencies = [s \in Identities |-> {d \in Identities : s \in DepInit[d]}]
    /\ depLive = [s \in DepSources |-> None]
    /\ ef = [c \in Clusters |-> EmptyMap]
    /\ vs = [c \in Clusters |-> EmptyMap]
    /\ wlLive = WlInit
    /\ work = [w \in Workers |-> <<>>]
    /\ nev = 0

-----------------------------------------------------------------------------
(* Worker steps.  Job(p) is the job worker p is running; Then(p, js)       *)
(* replaces it by the jobs js.                                             *)

Job(p) == Head(work[p])
Busy(p, k) == work[p] # <<>> /\ Job(p).k = k
Then(p, js) == work' = [work EXCEPT ![p] = js \o Tail(@)]

\* The read-only and warm-up gates every traffic-config handler passes
\* before it calls the reconcilers.
Proceed == ~IsReadOnly /\ IsCacheWarmedUp

\* HandleRateLimiter followed by HandleVirtualServiceForTrafficConfig.  Each
\* gets a fresh context.NewContextWithLogger (a Background context), so the
\* SourceIdentityKey a trigger puts in the handler's context never reaches
\* the virtual-service reconciler: its job has no source identity.
Reconcile(t, ev) ==
    << [J("rl") EXCEPT !.tc = t, !.ev = ev], [J("vs") EXCEPT !.tc = t] >>

\* The handler's Updated, also run for each object a trigger hands it.
UpdJob(t, src) == [J("upd") EXCEPT !.tc = t, !.src = src]

\* The handlers' first check: IsDisabled() || IsIgnored().
Skipped(t) == t.disabled \/ t.ignored

\* Added: a disabled or ignored object is skipped; otherwise it is written
\* to the cache, and the reconcilers run when the gates allow.
HandleTcAdded(p) ==
    /\ Busy(p, "tcadd")
    /\ LET t == Job(p).tc IN
       IF Skipped(t) THEN /\ Then(p, <<>>) /\ UNCHANGED tcCache
       ELSE /\ tcCache' = AddTrafficConfigToCache(t)
            /\ Then(p, IF Proceed THEN Reconcile(t, "add") ELSE <<>>)
    /\ UNCHANGED <<tcLive, tcRev, wl, idx, dependents, dependencies, depLive, ef, vs, wlLive, nev>>

\* Updated: a disabled or ignored object is skipped, the gates apply, and the
\* reconcilers run.  The cache is not written.
HandleTcUpdated(p) ==
    /\ Busy(p, "upd")
    /\ LET t == Job(p).tc IN
       Then(p, IF Skipped(t) \/ ~Proceed THEN <<>> ELSE Reconcile(t, "update"))
    /\ UNCHANGED <<tcLive, tcRev, tcCache, wl, idx, dependents, dependencies, depLive, ef, vs, wlLive, nev>>

\* Deleted: the guarded cache delete, the gates, then the reconcilers with
\* the Delete event type.
HandleTcDeleted(p) ==
    /\ Busy(p, "tcdel")
    /\ LET t == Job(p).tc IN
       /\ tcCache' = DeleteTrafficConfigFromCache(t)
       /\ Then(p, IF Proceed THEN Reconcile(t, "delete") ELSE <<>>)
    /\ UNCHANGED <<tcLive, tcRev, wl, idx, dependents, dependencies, depLive, ef, vs, wlLive, nev>>

\* HandleRateLimiter reads the clusters of the identity once.
RateLimiterClusters(p) ==
    /\ Busy(p, "rl")
    /\ Job(p).todo = None
    /\ Then(p, << [Job(p) EXCEPT !.todo = GetClustersForIdentity(Job(p).tc.i)] >>)
    /\ UNCHANGED <<tcLive, tcRev, tcCache, wl, idx, dependents, dependencies, depLive, ef, vs, wlLive, nev>>

\* A cluster that is out of scope, or that GetCluster does not find, is skipped.
RateLimiterSkipCluster(p) ==
    /\ Busy(p, "rl")
    /\ Job(p).todo # None /\ Job(p).c = None
    /\ \E c \in Job(p).todo :
          /\ ~IsClusterInAllowedScope(c)
          /\ Then(p, << [Job(p) EXCEPT !.todo = @ \ {c}] >>)
    /\ UNCHANGED <<tcLive, tcRev, tcCache, wl, idx, dependents, dependencies, depLive, ef, vs, wlLive, nev>>

\* A disabled object or a Delete event: list the filters of the identity and
\* env and delete them.
RateLimiterDelete(p) ==
    /\ Busy(p, "rl")
    /\ Job(p).todo # None /\ Job(p).c = None
    /\ Job(p).tc.disabled \/ Job(p).ev = "delete"
    /\ \E c \in Job(p).todo :
          /\ IsClusterInAllowedScope(c)
          /\ \E old \in ListOutcomes(ListRateLimitingFilters(c, Job(p).tc)) : \E ok \in Succeeded(old) :
                ef' = [ef EXCEPT ![c] = DeleteEnvoyFilters(@, ok)]
          /\ Then(p, << [Job(p) EXCEPT !.todo = @ \ {c}] >>)
    /\ UNCHANGED <<tcLive, tcRev, tcCache, wl, idx, dependents, dependencies, depLive, vs, wlLive, nev>>

\* createRateLimitingFilters builds the requested list from the deployment
\* cache ...
RateLimiterRequest(p) ==
    /\ Busy(p, "rl")
    /\ Job(p).todo # None /\ Job(p).c = None
    /\ ~Job(p).tc.disabled /\ Job(p).ev # "delete"
    /\ \E c \in Job(p).todo :
          /\ IsClusterInAllowedScope(c)
          /\ Then(p, << [Job(p) EXCEPT !.c = c, !.req = NewList(c, Job(p).tc)] >>)
    /\ UNCHANGED <<tcLive, tcRev, tcCache, wl, idx, dependents, dependencies, depLive, ef, vs, wlLive, nev>>

\* ... then lists the existing filters and applies the difference.
RateLimiterApply(p) ==
    /\ Busy(p, "rl")
    /\ Job(p).c # None
    /\ LET j == Job(p)
       IN  /\ \E old \in ListOutcomes(ListRateLimitingFilters(j.c, j.tc)) :
                 \E ok \in Succeeded(DOMAIN j.req \cup old) :
                    ef' = [ef EXCEPT ![j.c] = ApplyEnvoyFilters(@, j.req, old, ok)]
           /\ Then(p, << [j EXCEPT !.todo = @ \ {j.c}, !.c = None, !.req = None] >>)
    /\ UNCHANGED <<tcLive, tcRev, tcCache, wl, idx, dependents, dependencies, depLive, vs, wlLive, nev>>

\* HandleVirtualServiceForTrafficConfig reads the dependents and their
\* clusters, then builds the virtual service once; a build error ends the
\* handler before the cluster loop.
VirtualServiceClusters(p) ==
    /\ Busy(p, "vs")
    /\ Job(p).todo = None
    /\ Then(p, << [Job(p) EXCEPT !.todo = IF BuildVirtualService(Job(p).tc) = VSB!BuildError
                                          THEN {}
                                          ELSE DependentClusters(Job(p).tc, Job(p).src)] >>)
    /\ UNCHANGED <<tcLive, tcRev, tcCache, wl, idx, dependents, dependencies, depLive, ef, vs, wlLive, nev>>

\* One dependent cluster: skipped when out of scope, otherwise the virtual
\* service is written.
VirtualServiceCluster(p) ==
    /\ Busy(p, "vs")
    /\ Job(p).todo # None
    /\ \E c \in Job(p).todo :
          /\ \E got, ok \in CallSucceeds :
                vs' = IF IsClusterInAllowedScope(c)
                      THEN [vs EXCEPT ![c] = CreateUpdateDeleteVirtualServices(@, Job(p).tc, got, ok)]
                      ELSE vs
          /\ Then(p, << [Job(p) EXCEPT !.todo = @ \ {c}] >>)
    /\ UNCHANGED <<tcLive, tcRev, tcCache, wl, idx, dependents, dependencies, depLive, ef, wlLive, nev>>

\* A loop over a set has nothing left to do.
Finished(p) ==
    /\ work[p] # <<>>
    /\ Job(p).k \in {"rl", "vs", "upds", "depents", "trigeach"}
    /\ Job(p).todo = {}
    /\ Then(p, <<>>)
    /\ UNCHANGED <<tcLive, tcRev, tcCache, wl, idx, dependents, dependencies, depLive, ef, vs, wlLive, nev>>

\* The deployment handler's Added: AddClusterToIdentity ...
DeploymentAddIndex(p) ==
    /\ Busy(p, "wladd")
    /\ idx' = [idx EXCEPT ![Job(p).i] = @ \cup {Job(p).c}]
    /\ Then(p, << [Job(p) EXCEPT !.k = "wlcache"] >>)
    /\ UNCHANGED <<tcLive, tcRev, tcCache, wl, dependents, dependencies, depLive, ef, vs, wlLive, nev>>

\* ... Deployments.Add, and the trigger when the cache is warmed up.
DeploymentAddCache(p) ==
    /\ Busy(p, "wlcache")
    /\ wl' = [wl EXCEPT ![Job(p).c] = @ \cup {<<Job(p).i, Job(p).w>>}]
    /\ Then(p, IF IsCacheWarmedUp THEN << [J("trig") EXCEPT !.i = Job(p).i] >> ELSE <<>>)
    /\ UNCHANGED <<tcLive, tcRev, tcCache, idx, dependents, dependencies, depLive, ef, vs, wlLive, nev>>

\* TriggerTrafficConfigHandlerForIdentity: Updated for each cached object of
\* the identity, then the dependents.
TriggerSelf(p) ==
    /\ Busy(p, "trig")
    /\ LET i == Job(p).i
       IN  Then(p, << [J("upds") EXCEPT !.todo = {<<t, None>> : t \in GetTrafficConfigEntry(i)}],
                      [J("trigdeps") EXCEPT !.i = i] >>)
    /\ UNCHANGED <<tcLive, tcRev, tcCache, wl, idx, dependents, dependencies, depLive, ef, vs, wlLive, nev>>

\* One child event: Updated with the object and the source identity.
TriggerUpdate(p) ==
    /\ Busy(p, "upds")
    /\ \E x \in Job(p).todo :
          Then(p, << UpdJob(x[1], x[2]), [Job(p) EXCEPT !.todo = @ \ {x}] >>)
    /\ UNCHANGED <<tcLive, tcRev, tcCache, wl, idx, dependents, dependencies, depLive, ef, vs, wlLive, nev>>

\* GetDependentsForIdentity.
TriggerDependents(p) ==
    /\ Busy(p, "trigdeps")
    /\ Then(p, << [J("depents") EXCEPT !.i = Job(p).i, !.todo = dependents[Job(p).i]] >>)
    /\ UNCHANGED <<tcLive, tcRev, tcCache, wl, idx, dependents, dependencies, depLive, ef, vs, wlLive, nev>>

\* One dependent: Updated for each of its cached objects, with the
\* triggering identity as the source identity.
TriggerDependent(p) ==
    /\ Busy(p, "depents")
    /\ \E d \in Job(p).todo :
          Then(p, << [J("upds") EXCEPT !.todo = {<<t, Job(p).i>> : t \in GetTrafficConfigEntry(d)}],
                     [Job(p) EXCEPT !.todo = @ \ {d}] >>)
    /\ UNCHANGED <<tcLive, tcRev, tcCache, wl, idx, dependents, dependencies, depLive, ef, vs, wlLive, nev>>

\* AddDependencyToIdentity and AddDependentToIdentity for each destination:
\* the edges s -> dsts join both sides of the graph.  Neither side is ever
\* pruned.
AddEdges(s, dsts) ==
    /\ dependencies' = [dependencies EXCEPT ![s] = @ \cup dsts]
    /\ dependents' = [d \in Identities |-> IF d \in dsts THEN dependents[d] \cup {s} ELSE dependents[d]]

\* The dependency handler's Added records the edges and triggers nothing.
DependencyAdded(p) ==
    /\ Busy(p, "depadd")
    /\ AddEdges(Job(p).i, Job(p).req)
    /\ Then(p, <<>>)
    /\ UNCHANGED <<tcLive, tcRev, tcCache, wl, idx, depLive, ef, vs, wlLive, nev>>

\* Updated records the edges and, when the cache is warmed up, triggers each
\* destination the old object did not have.
DependencyUpdated(p) ==
    /\ Busy(p, "depupd")
    /\ AddEdges(Job(p).i, Job(p).req)
    /\ Then(p, IF IsCacheWarmedUp
               THEN << [J("trigeach") EXCEPT !.todo = Job(p).req \ Job(p).old] >>
               ELSE <<>>)
    /\ UNCHANGED <<tcLive, tcRev, tcCache, wl, idx, depLive, ef, vs, wlLive, nev>>

\* One new destination.
TriggerEach(p) ==
    /\ Busy(p, "trigeach")
    /\ \E d \in Job(p).todo :
          Then(p, << [J("trig") EXCEPT !.i = d], [Job(p) EXCEPT !.todo = @ \ {d}] >>)
    /\ UNCHANGED <<tcLive, tcRev, tcCache, wl, idx, dependents, dependencies, depLive, ef, vs, wlLive, nev>>

\* Deleted changes nothing.
DependencyDeleted(p) ==
    /\ Busy(p, "depdel")
    /\ Then(p, <<>>)
    /\ UNCHANGED <<tcLive, tcRev, tcCache, wl, idx, dependents, dependencies, depLive, ef, vs, wlLive, nev>>

-----------------------------------------------------------------------------
(* The API servers: object changes reach the informer of the controller    *)
(* that watches them, which queues the event.                              *)

Emit(p, j) == work' = [work EXCEPT ![p] = Append(@, j)]

\* A traffic config is created, or updated to its next revision.
ChangeTrafficConfig(n, ws, d, g) ==
    /\ nev < MaxEvents /\ tcRev[n] < MaxRev
    /\ ws \subseteq TcWenvs[n] /\ d \in TcDisabled /\ g \in TcIgnored
    /\ LET s == [rev |-> tcRev[n] + 1, wenvs |-> ws, disabled |-> d, ignored |-> g]
       IN  /\ \/ /\ tcLive[n] = None /\ "add" \in TcOps
                 /\ Emit(TcW, [J("tcadd") EXCEPT !.tc = TcObj(n, s)])
              \/ /\ tcLive[n] # None /\ "update" \in TcOps
                 /\ Emit(TcW, UpdJob(TcObj(n, s), None))
           /\ tcLive' = [tcLive EXCEPT ![n] = s]
           /\ tcRev' = [tcRev EXCEPT ![n] = s.rev]
    /\ nev' = nev + 1
    /\ UNCHANGED <<tcCache, wl, idx, dependents, dependencies, depLive, ef, vs, wlLive>>

\* A traffic config is deleted; the event carries its last state.
DeleteTrafficConfig(n) ==
    /\ "delete" \in TcOps /\ nev < MaxEvents
    /\ tcLive[n] # None
    /\ Emit(TcW, [J("tcdel") EXCEPT !.tc = TcObj(n, tcLive[n])])
    /\ tcLive' = [tcLive EXCEPT ![n] = None]
    /\ nev' = nev + 1
    /\ UNCHANGED <<tcRev, tcCache, wl, idx, dependents, dependencies, depLive, ef, vs, wlLive>>

\* A mesh-enabled deployment of identity i and workload env w appears in c.
AddDeployment(c, i, w) ==
    /\ <<c, i, w>> \in WlAdds /\ nev < MaxEvents
    /\ <<i, w>> \notin wlLive[c]
    /\ Emit(DeployW(c), [J("wladd") EXCEPT !.c = c, !.i = i, !.w = w])
    /\ wlLive' = [wlLive EXCEPT ![c] = @ \cup {<<i, w>>}]
    /\ nev' = nev + 1
    /\ UNCHANGED <<tcLive, tcRev, tcCache, wl, idx, dependents, dependencies, depLive, ef, vs>>

\* The Dependency object of source s is created, changed or deleted.
ChangeDependency(s, dsts) ==
    /\ nev < MaxEvents
    /\ dsts # depLive[s]
    /\ Emit(DepW, CASE depLive[s] = None -> [J("depadd") EXCEPT !.i = s, !.req = dsts]
                    [] dsts = None       -> [J("depdel") EXCEPT !.i = s]
                    [] OTHER             -> [J("depupd") EXCEPT !.i = s, !.req = dsts,
                                                             !.old = depLive[s]])
    /\ depLive' = [depLive EXCEPT ![s] = dsts]
    /\ nev' = nev + 1
    /\ UNCHANGED <<tcLive, tcRev, tcCache, wl, idx, dependents, dependencies, ef, vs, wlLive>>

-----------------------------------------------------------------------------

\* One step of worker p.
Step(p) ==
    \/ HandleTcAdded(p) \/ HandleTcUpdated(p) \/ HandleTcDeleted(p)
    \/ RateLimiterClusters(p) \/ RateLimiterSkipCluster(p) \/ RateLimiterDelete(p)
    \/ RateLimiterRequest(p) \/ RateLimiterApply(p)
    \/ VirtualServiceClusters(p) \/ VirtualServiceCluster(p)
    \/ DeploymentAddIndex(p) \/ DeploymentAddCache(p)
    \/ TriggerSelf(p) \/ TriggerUpdate(p) \/ TriggerDependents(p) \/ TriggerDependent(p)
    \/ DependencyAdded(p) \/ DependencyUpdated(p) \/ TriggerEach(p) \/ DependencyDeleted(p)
    \/ Finished(p)

Quiescent == \A p \in Workers : work[p] = <<>>

\* Every event has been handled and the controllers wait for the next one.
Idle == Quiescent /\ UNCHANGED vars

Next ==
    \/ \E n \in TcNames, ws \in SUBSET WEnvs, d, g \in BOOLEAN :
          ChangeTrafficConfig(n, ws, d, g)
    \/ \E n \in TcNames : DeleteTrafficConfig(n)
    \/ \E c \in Clusters, i \in Identities, w \in WEnvs : AddDeployment(c, i, w)
    \/ \E s \in DepSources, dsts \in DepChoices \cup {None} : ChangeDependency(s, dsts)
    \/ \E p \in Workers : Step(p)
    \/ Idle

Spec == Init /\ [][Next]_vars

\* A worker runs its handler to the end: no step of the modelled handlers
\* blocks, and each controller's worker keeps taking events.
FairSpec == Spec /\ \A p \in Workers : WF_vars(Step(p))

-----------------------------------------------------------------------------
(* Properties.                                                             *)

\* A map from a subset of D to values in R.
IsMapOf(f, D, R) == DOMAIN f \subseteq D /\ \A x \in DOMAIN f : f[x] \in R

\* Every variable has its type, and a cached object sits under its own
\* identity and env.
TypeOK ==
    /\ tcLive \in [TcNames -> TcState \cup {None}]
    /\ tcRev \in [TcNames -> 0..MaxRev]
    /\ tcCache \in [Identities -> [TEnvs -> TcObjs \cup {None}]]
    /\ \A i \in Identities, e \in TEnvs :
          tcCache[i][e] # None => <<tcCache[i][e].i, tcCache[i][e].e>> = <<i, e>>
    /\ wl \in [Clusters -> SUBSET (Identities \X WEnvs)]
    /\ wlLive \in [Clusters -> SUBSET (Identities \X WEnvs)]
    /\ idx \in [Identities -> SUBSET Clusters]
    /\ dependents \in [Identities -> SUBSET Identities]
    /\ dependencies \in [Identities -> SUBSET Identities]
    /\ depLive \in [DepSources -> DepChoices \cup {None}]
    /\ \A c \in Clusters : DOMAIN ef[c] \subseteq Identities \X WEnvs
    /\ \A c \in Clusters : \A n \in DOMAIN ef[c] : ef[c][n].tenv \in TEnvs /\ ef[c][n].rev \in 1..MaxRev
    /\ \A c \in Clusters : DOMAIN vs[c] \subseteq Identities \X TEnvs
    /\ \A c \in Clusters : \A n \in DOMAIN vs[c] :
          /\ vs[c][n].built = "ok" /\ vs[c][n].rev \in 1..MaxRev
          /\ SE!ToSet(vs[c][n].hosts) \subseteq WEnvs \X Identities
    /\ DOMAIN work = Workers
    /\ nev \in 0..MaxEvents

\* The traffic configs that exist and are neither disabled nor ignored, as
\* objects.
LiveTcs == {TcObj(n, tcLive[n]) : n \in {n \in TcNames : tcLive[n] # None /\ ~Skipped(tcLive[n])}}

\* The filters traffic config t should have in cluster c: one for each of its
\* workload envs deployed there, when c is a cluster of the identity in scope.
FiltersFor(c, t) ==
    IF c \in idx[t.i] \cap InScope
    THEN {<<t.i, w>> : w \in {w \in t.wenvs : <<t.i, w>> \in wl[c]}}
    ELSE {}

\* When every event has been handled, each cluster holds exactly the throttle
\* filters of the live enabled traffic configs, each labelled with its
\* traffic config's env and annotated with its current revision: the
\* list-and-diff of createRateLimitingFilters, the Delete path and the
\* trigger paths leave no filter missing, extra or stale.
ThrottleFiltersExact ==
    Quiescent =>
        \A c \in Clusters :
            /\ DOMAIN ef[c] = UNION {FiltersFor(c, t) : t \in LiveTcs}
            /\ \A t \in LiveTcs : \A n \in FiltersFor(c, t) :
                  ef[c][n] = EnvoyFilterFor(t, n[2])

\* When every event has been handled, every in-scope cluster where a
\* dependent of a live enabled traffic config's identity runs holds that
\* traffic config's virtual service as built from its current object.
VirtualServiceCurrent ==
    Quiescent =>
        \A t \in LiveTcs :
            \A c \in InScope \cap UNION {idx[d] : d \in dependents[t.i] \ IgnoredAssets} :
                /\ <<t.i, t.e>> \in DOMAIN vs[c]
                /\ vs[c][<<t.i, t.e>>] = BuildVirtualService(t)

\* The quota uses a throttle filter for workload env w must enforce: each
\* quota, with a time period that parses, of a total group selecting w, and
\* of an app group selecting w once per associated app.
TotalUses(w, qg) ==
    UNION {{<<g, "", q>> : q \in {q \in SE!ToSet(g.quotas) : q.period # None}} :
              g \in {g \in SE!ToSet(qg.total) : w \in SE!ToSet(g.envs)}}
AppUses(w, qg) ==
    UNION {{<<g, a, q>> : a \in SE!ToSet(g.apps), q \in {q \in SE!ToSet(g.quotas) : q.period # None}} :
              g \in {g \in SE!ToSet(qg.app) : w \in SE!ToSet(g.envs)}}

\* The descriptor entries of a quota use: its quota key, and its app key.
UseKeys(u) ==
    << EFB!GetDescriptorKey(<<u[1].name, u[3].name>>) >>
    \o (IF u[2] = "" THEN <<>> ELSE << EFB!GetDescriptorKey(<<u[1].name, u[3].name, u[2]>>) >>)

\* Every route patch of every throttle filter written enforces exactly the
\* quotas of its traffic config that select the filter's workload env: one
\* descriptor per quota use, with the use's keys and a bucket of the quota's
\* amount per its period; the rate-limit actions produce exactly the
\* descriptors' keys; no two descriptors have the same entries, which
\* Envoy rejects; and every header the actions match on has a string match
\* (getHeaderMatcher leaves it nil for an unknown condition).
ThrottleQuotasEnforced ==
    \A c \in Clusters : \A n \in DOMAIN ef[c] : \A k \in DOMAIN ef[c][n].patches :
        LET P == ef[c][n].patches[k]
            qg == QuotaOf[CHOOSE m \in TcNames : TcKey[m] = <<n[1], ef[c][n].tenv>>]
            uses == TotalUses(n[2], qg) \cup AppUses(n[2], qg)
            Keys(d) == [j \in DOMAIN d.entries |-> d.entries[j].key]
            ActionKeys(r) == [j \in DOMAIN r.actions |-> r.actions[j].key]
        IN  P.applyTo = "HTTP_ROUTE" =>
               /\ {<<Keys(d), d.tokenBucket>> : d \in SE!ToSet(P.descriptors)}
                     = {<<UseKeys(u), [maxTokens |-> u[3].max, tokensPerFill |-> u[3].max,
                                        fillInterval |-> u[3].period]>> : u \in uses}
               /\ {ActionKeys(r) : r \in SE!ToSet(P.rateLimits)} = {Keys(d) : d \in SE!ToSet(P.descriptors)}
               /\ Cardinality({Keys(d) : d \in SE!ToSet(P.descriptors)}) = Len(P.descriptors)
               /\ \A r \in SE!ToSet(P.rateLimits) : \A a \in SE!ToSet(r.actions) :
                     \A h \in SE!ToSet(a.headers) : h.match # None

\* The paths of up to PathBound characters over "a", "." and "*".
PathBound == 4
Paths == UNION {[1..k -> {"a", ".", "*"}] : k \in 0..PathBound}

\* The path regex a quota's path is meant to give: every "*" one ".*"
\* wildcard, a "*" already written as ".*" keeping its one ".".
WildcardReading(path) ==
    SE!FlattenSeq([k \in DOMAIN path |->
        IF path[k] = "*" /\ ~(k > 1 /\ path[k - 1] = ".") THEN <<".", "*">> ELSE <<path[k]>>])

\* The two-pass normalisation of getPathRegex on every bounded path.
PathRegexAgrees == \A p \in Paths : EFB!GetPathRegex(p) = WildcardReading(p)

\* getPathRegex reads every "*" of a quota's path as one wildcard: every
\* ":path" match of every route patch written is the wildcard reading of
\* the path of a quota selecting the filter's workload env, and the
\* two-pass normalisation agrees with the one-pass reading on every path of
\* up to PathBound characters.
PathRegexWildcards ==
    /\ \A c \in Clusters : \A n \in DOMAIN ef[c] : \A k \in DOMAIN ef[c][n].patches :
          LET P == ef[c][n].patches[k]
              qg == QuotaOf[CHOOSE m \in TcNames : TcKey[m] = <<n[1], ef[c][n].tenv>>]
          IN  P.applyTo = "HTTP_ROUTE" =>
                 {h.match : h \in UNION {{h \in SE!ToSet(a.headers) : h.name = ":path"} :
                                          a \in UNION {SE!ToSet(r.actions) : r \in SE!ToSet(P.rateLimits)}}}
                    = {<<"regex", WildcardReading(u[3].path)>> : u \in TotalUses(n[2], qg) \cup AppUses(n[2], qg)}
    /\ PathRegexAgrees

\* Istio's first-match routing, for a request to host h at path p (a
\* sequence of path segments): the index of the first rule whose URI prefix
\* starts p and whose authority prefix, where it has one, is h; 0 for none.
ServingRule(v, h, p) ==
    SE!SelectInSeq(v.http, LAMBDA r : SE!IsPrefix(r.prefix, p) /\ r.authority \in {None, h})

\* The routes of edge service es that are to get rules: all of them when it
\* has targets and target groups, only those without configs otherwise.
RoutedRoutes(es) ==
    {r \in SE!ToSet(es.routes) :
        (es.targets = None \/ es.targetGroups = None) => r.config = None}

\* Every virtual service written routes each routed route of its traffic
\* config's edge service, on each of its hosts, by a rule built for that
\* route, and a
\* request to the root of a host no route claims by that host's catch-all:
\* buildMatchRulesForVirtualService keeps the routes' order and gives every
\* route a rule, and addAllowAllRule puts the catch-all rules last, each
\* matching its own host only.
VirtualServiceRoutesServed ==
    \A c \in Clusters : \A n \in DOMAIN vs[c] :
        LET v == vs[c][n]
            es == EdgeOf[CHOOSE m \in TcNames : TcKey[m] = n]
        IN  \A h \in SE!ToSet(v.hosts) :
               /\ \A r \in RoutedRoutes(es) :
                     LET k == ServingRule(v, h, r.inbound)
                     IN  k # 0 /\ v.http[k].name[1] = r.name
               /\ (\A r \in SE!ToSet(es.routes) : r.inbound # <<>>) =>
                     LET k == ServingRule(v, h, <<>>)
                     IN  k # 0 /\ v.http[k].name[1] = "defaultall"
                               /\ v.http[k].route[1].endpoint = h

\* The stored virtual services, with the edge service each was built from.
WrittenVs == UNION {{<<c, n>> : n \in DOMAIN vs[c]} : c \in Clusters}
EdgeFor(n) == EdgeOf[CHOOSE m \in TcNames : TcKey[m] = n]

\* A route with a config that selects a weight of a target group, which the
\* edge service's weights split the route's traffic by.
HasServiceSplit(es, r) ==
    /\ es.targetGroups \notin {None, <<>>} /\ r.config # None
    /\ \E cf \in SE!ToSet(r.config), g \in SE!ToSet(es.targetGroups) :
          \E w \in SE!ToSet(g.weights) : w.name = cf.tgs

\* A caller with no app override of its own is routed by the target-group
\* weights: the rule that serves a route with a weight split is that route's
\* service-dial rule.  buildAppDialRules matches app-dial rules on the URI
\* prefix alone, like the service-dial rule they precede.  Checked only
\* with the constants of README section 7.
ServiceWeightsApplied ==
    \A cn \in WrittenVs :
        LET v == vs[cn[1]][cn[2]]
            es == EdgeFor(cn[2])
        IN  \A h \in SE!ToSet(v.hosts), r \in RoutedRoutes(es) :
               HasServiceSplit(es, r) => v.http[ServingRule(v, h, r.inbound)].name = <<r.name>>

\* The rule that serves a route carries the route's timeout (in
\* milliseconds) whenever it is over a millisecond; constructVSRoute-
\* WithoutTargetDetails converts it with durationpb.New.  Checked only with
\* the constants of README section 7.
RouteTimeoutKept ==
    \A cn \in WrittenVs :
        LET v == vs[cn[1]][cn[2]]
            es == EdgeFor(cn[2])
        IN  \A h \in SE!ToSet(v.hosts), r \in RoutedRoutes(es) :
               r.timeout > 1 =>
                   v.http[ServingRule(v, h, r.inbound)].timeout = VSB!GetRouteTimeout(r)

\* Every destination is a mesh host, never a bare workload env:
\* getMeshDNSForTargetGroup falls back to the route's first env when no
\* target has the config's target selector.  Checked only with the
\* constants of README section 7.
DestinationsAreHosts ==
    \A cn \in WrittenVs :
        \A rl \in SE!ToSet(vs[cn[1]][cn[2]].http) :
            \A d \in DOMAIN rl.route : rl.route[d].endpoint \notin WEnvs

\* When every event has been handled, the traffic-config cache holds, for
\* each identity and env, the current object of the live enabled traffic
\* config for it, and nothing for a key without one (section 4.7: Add and
\* Update write the cache, Delete removes the entry).
TrafficConfigCacheCurrent ==
    Quiescent =>
        \A i \in Identities, e \in TEnvs :
            tcCache[i][e] = IF \E t \in LiveTcs : <<t.i, t.e>> = <<i, e>>
                            THEN CHOOSE t \in LiveTcs : <<t.i, t.e>> = <<i, e>>
                            ELSE None

==============================================================================
