-------------------------- MODULE ClusterRegistry --------------------------
(***************************************************************************)
(* The remote-cluster lifecycle: the secret handler                        *)
(* (clusters_secret_handler.go), the resolver that starts and stops the    *)
(* per-cluster controllers (remote_cluster_resolver.go), the remote-       *)
(* cluster cache (remote_cluster_cache.go) and the controller registry     *)
(* (controllers_cache.go).                                                 *)
(*                                                                         *)
(* The secret controller's handler runs one event at a time (its queue     *)
(* hands an informer's events out in order, and the handler only reads    *)
(* the event's own objects), so a secret event and the start of its        *)
(* handler are one step.  The handler then works through the cluster ids   *)
(* of the secret's Data, one per step, in Go's random map order.  Around   *)
(* it run goroutines it spawned: each new controller's Run, which          *)
(* registers the controller, and one stop goroutine per controller         *)
(* matched by StopRemoteClusterControllers.                                *)
(*                                                                         *)
(* A controller is named "<kind>-controller/<contextName>", the context of *)
(* the cluster's kubeconfig, and Register stores it lower-cased.           *)
(* StopRemoteClusterControllers matches registered names whose part after  *)
(* "/" contains the cluster id, as written in the secret, as a substring.  *)
(* Contexts and ids are strings; lower-casing is the function Lower and    *)
(* the substring test the relation NameContains, both given by the model.  *)
(* Nothing ties a context to its cluster id: an id with capitals, or one   *)
(* its context does not contain, matches no name.                          *)
(*                                                                         *)
(* A secret's Data may change on update: SecretData[s] is the set of the   *)
(* cluster-id sets its Data may hold.                                      *)
(***************************************************************************)
EXTENDS Naturals, Sequences, FiniteSets, SequencesExt

CONSTANTS
    Secrets,        \* cluster-credential secrets
    Clusters,       \* cluster ids (keys of a secret's Data)
    Kinds,          \* per-cluster controller kinds
    SecretData,     \* SecretData[s]: the cluster-id sets secret s's Data may hold
    ContextOf,      \* ContextOf[c]: the current context of c's kubeconfig
    Lower,          \* Lower[x]: strings.ToLower of context x
    NameContains,   \* pairs <<name part, id>> where the name part contains the id
    MaxEvents,      \* secret events delivered
    SpacedEvents,   \* a secret event waits until every goroutine has finished
    ResolveMayFail, \* ResolveConfig may return an error
    StartMayFail,   \* StartRemoteClusterControllers may return early
    None

ASSUME /\ SecretData \in [Secrets -> SUBSET (SUBSET Clusters \ {{}})]
       /\ \A s \in Secrets : SecretData[s] # {}
       /\ \A c \in Clusters : ContextOf[c] \in DOMAIN Lower
       /\ MaxEvents \in Nat
       /\ {SpacedEvents, ResolveMayFail, StartMayFail} \subseteq BOOLEAN

\* A controller's registered name: its kind and its lower-cased context.
NameOf(k, c) == <<k, Lower[ContextOf[c]]>>
Names == {NameOf(k, c) : k \in Kinds, c \in Clusters}

VARIABLES
    secret,     \* the secret objects: "absent", "enabled" or "disabled"
    data,       \* data[s]: the cluster ids of secret s's Data
    hpc,        \* the handler invocation in progress, or None
    cache,      \* remoteClusterListCache: cluster id -> owning secret, or None
    reg,        \* controllerCacheMap: name -> controller instance, or None
    inst,       \* controller instances [cluster, name, pc, closes]
    stoppers,   \* stop goroutines [inst, name, cluster, pc]
    nev         \* secret events delivered

vars == <<secret, data, hpc, cache, reg, inst, stoppers, nev>>

InstIds == 1..Len(inst)
\* Bounds on the controllers and stop goroutines the events can create.
MaxInst == MaxEvents * Cardinality(Clusters) * Cardinality(Kinds)
MaxStoppers == MaxEvents * Cardinality(Clusters) * Cardinality(Names)
Running(i) == inst[i].pc \in {"starting", "running"}
Active(g) == stoppers[g].pc # "done"
Doomed(i) == \E g \in DOMAIN stoppers : Active(g) /\ stoppers[g].inst = i

\* Every goroutine spawned by the handler has finished its work.
Settled ==
    /\ \A g \in DOMAIN stoppers : ~Active(g)
    /\ \A i \in InstIds : inst[i].pc \in {"running", "stopped"}

Quiescent == hpc = None /\ Settled

----
Init ==
    /\ secret = [s \in Secrets |-> "absent"]
    /\ data = [s \in Secrets |-> {}]
    /\ hpc = None
    /\ cache = [c \in Clusters |-> None]
    /\ reg = [n \in Names |-> None]
    /\ inst = <<>>
    /\ stoppers = <<>>
    /\ nev = 0

\* IsSyncEnabled on the secret's labels and annotations
SyncEnabled(st) == st = "enabled"

\* A secret event: the object changes and the handler starts on it.
EventGuard ==
    /\ hpc = None /\ nev < MaxEvents
    /\ SpacedEvents => Settled

\* The handler ranges over the cluster ids d of the object it was given.
Handle(op, s, d) == hpc' = [op |-> op, s |-> s, todo |-> d]

\* SecretHandler.Added: a secret without the sync label is skip-closed.
Added(s, new, d) ==
    IF SyncEnabled(new) THEN Handle("add", s, d) ELSE UNCHANGED hpc

SecretAdded(s) ==
    /\ EventGuard /\ secret[s] = "absent"
    /\ \E new \in {"enabled", "disabled"}, d \in SecretData[s] :
         /\ secret' = [secret EXCEPT ![s] = new]
         /\ data' = [data EXCEPT ![s] = d]
         /\ Added(s, new, d)
    /\ nev' = nev + 1
    /\ UNCHANGED <<cache, reg, inst, stoppers>>

\* SecretHandler.Updated: a sync-enabled secret that loses the label stops
\* the clusters of its new Data; every other update is handled as Added of
\* the new object, which never looks at the ids the old object had.
SecretUpdated(s) ==
    /\ EventGuard /\ secret[s] # "absent"
    /\ \E new \in {"enabled", "disabled"}, d \in SecretData[s] :
         /\ secret' = [secret EXCEPT ![s] = new]
         /\ data' = [data EXCEPT ![s] = d]
         /\ IF SyncEnabled(secret[s]) /\ ~SyncEnabled(new)
            THEN Handle("stop", s, d)
            ELSE Added(s, new, d)
    /\ nev' = nev + 1
    /\ UNCHANGED <<cache, reg, inst, stoppers>>

\* SecretHandler.Deleted: stops the secret's clusters whatever its label.
SecretDeleted(s) ==
    /\ EventGuard /\ secret[s] # "absent"
    /\ secret' = [secret EXCEPT ![s] = "absent"]
    /\ Handle("stop", s, data[s])
    /\ nev' = nev + 1
    /\ UNCHANGED <<data, cache, reg, inst, stoppers>>

----
\* StartRemoteClusterControllers: one controller per kind, each started by
\* NewController's 'go controller.Run'.
StartControllers(c) ==
    inst' = inst \o SetToSeq({[cluster |-> c, name |-> NameOf(k, c), pc |-> "starting",
                               closes |-> 0] : k \in Kinds})

\* ResolveConfig: the kubeconfig lookup, its loading and each client
\* construction may fail with an error (when ResolveMayFail); otherwise
\* the cluster is resolved.
ResolveConfig == IF ResolveMayFail THEN {"error", "resolved"} ELSE {"resolved"}

\* The remote-cluster cache holds, per cluster id, the secret it was
\* resolved from.  RemoteCluster.DeleteCluster removes the id.
DeleteCluster(c) == [cache EXCEPT ![c] = None]
AddRemoteClusterToCache(c, s) == [cache EXCEPT ![c] = s]
GetRemoteClusterFromCache(c) == cache[c]
DeleteRemoteClusterFromCache(c) == DeleteCluster(c)

\* Added without the GetRemoteClusterFromCache check.
MutAddClusterNoExistsCheck(s, c) ==
    /\ \E r \in ResolveConfig :
         \/ r = "error" /\ UNCHANGED <<cache, inst>>
         \/ /\ r = "resolved"
            /\ cache' = AddRemoteClusterToCache(c, s)
            /\ \/ StartControllers(c)
               \/ StartMayFail /\ UNCHANGED inst
    /\ UNCHANGED stoppers

\* Added, for one cluster id: an id already cached (under this secret or,
\* as a conflict, under another) is skipped; otherwise it is resolved,
\* cached and its controllers started.
AddCluster(s, c) ==
    /\ \/ /\ GetRemoteClusterFromCache(c) # None
          /\ UNCHANGED <<cache, inst>>
       \/ /\ GetRemoteClusterFromCache(c) = None
          /\ \E r \in ResolveConfig :
               \/ r = "error" /\ UNCHANGED <<cache, inst>>
               \/ /\ r = "resolved"
                  /\ cache' = AddRemoteClusterToCache(c, s)
                  /\ \/ StartControllers(c)
                     \/ StartMayFail /\ UNCHANGED inst
    /\ UNCHANGED stoppers

\* A match that compares the name with the cluster id for equality.
MutMatchesExact(n, c) == reg[n] # None /\ n[2] = c

\* A match over every name, registered or not.
MutMatchesNoPresence(n, c) == <<n[2], c>> \in NameContains

\* The Range callback's test: a registered controller whose lower-cased
\* name, after the "/", contains the cluster id as the secret wrote it.
Matches(n, c) == reg[n] # None /\ <<n[2], c>> \in NameContains

\* StopRemoteClusterControllers spawns a stop goroutine per matching
\* controller; the handler then calls DeleteRemoteClusterFromCache.
StopCluster(c) ==
    /\ stoppers' = stoppers \o
         SetToSeq({[inst |-> reg[n], name |-> n, cluster |-> c, pc |-> "deregister"]
                     : n \in {m \in Names : Matches(m, c)}})
    /\ cache' = DeleteRemoteClusterFromCache(c)
    /\ UNCHANGED inst

HandleCluster ==
    /\ hpc # None
    /\ \E c \in hpc.todo :
         /\ IF hpc.op = "add" THEN AddCluster(hpc.s, c) ELSE StopCluster(c)
         /\ hpc' = IF hpc.todo = {c} THEN None
                   ELSE [hpc EXCEPT !.todo = @ \ {c}]
    /\ UNCHANGED <<secret, data, reg, nev>>

----
\* Controller.Run: after starting its workers, ControllerCache.Register
\* stores the controller under its lower-cased name (inst[i].name, built by
\* NameOf), replacing whatever was registered under that name.
Register(i) ==
    /\ i \in InstIds
    /\ inst[i].pc = "starting"
    /\ reg' = [reg EXCEPT ![inst[i].name] = i]
    /\ inst' = [inst EXCEPT ![i].pc = "running"]
    /\ UNCHANGED <<secret, data, hpc, cache, stoppers, nev>>

\* StopCh closed: the informer stops, the workers drain and cancel their
\* contexts.
WorkersExit(i) ==
    /\ i \in InstIds
    /\ inst[i].pc = "stopping"
    /\ inst' = [inst EXCEPT ![i].pc = "stopped"]
    /\ UNCHANGED <<secret, data, hpc, cache, reg, stoppers, nev>>

\* A stop goroutine that forgets ControllerCache.DeRegister.
MutStopperNoDeRegister(g) ==
    /\ g \in DOMAIN stoppers
    /\ stoppers[g].pc = "deregister"
    /\ stoppers' = [stoppers EXCEPT ![g].pc = "close"]
    /\ UNCHANGED <<secret, data, hpc, cache, reg, inst, nev>>

\* The stop goroutine: DeRegister(controllerName) removes whatever is
\* registered under the name now.
StopperDeRegister(g) ==
    /\ g \in DOMAIN stoppers
    /\ stoppers[g].pc = "deregister"
    /\ reg' = [reg EXCEPT ![stoppers[g].name] = None]
    /\ stoppers' = [stoppers EXCEPT ![g].pc = "close"]
    /\ UNCHANGED <<secret, data, hpc, cache, inst, nev>>

\* close(controllerCtx.StopCh) of the controller seen by Range; closing a
\* closed channel panics, counted in closes.
StopperClose(g) ==
    /\ g \in DOMAIN stoppers
    /\ stoppers[g].pc = "close"
    /\ LET i == stoppers[g].inst
       IN  inst' = [inst EXCEPT ![i].closes = @ + 1,
                                ![i].pc = IF @ = "stopped" THEN @ ELSE "stopping"]
    /\ stoppers' = [stoppers EXCEPT ![g].pc = "wait"]
    /\ UNCHANGED <<secret, data, hpc, cache, reg, nev>>

\* After every worker context is done, DeleteCluster(clusterID).
StopperFinish(g) ==
    /\ g \in DOMAIN stoppers
    /\ stoppers[g].pc = "wait"
    /\ inst[stoppers[g].inst].pc = "stopped"
    /\ cache' = DeleteCluster(stoppers[g].cluster)
    /\ stoppers' = [stoppers EXCEPT ![g].pc = "done"]
    /\ UNCHANGED <<secret, data, hpc, reg, inst, nev>>

\* Every secret event delivered and every goroutine finished.
Done ==
    /\ nev = MaxEvents /\ Quiescent
    /\ UNCHANGED vars

InstStep(i) == Register(i) \/ WorkersExit(i)
StopperStep(g) == StopperDeRegister(g) \/ StopperClose(g) \/ StopperFinish(g)

Next ==
    \/ \E s \in Secrets : SecretAdded(s) \/ SecretUpdated(s) \/ SecretDeleted(s)
    \/ HandleCluster
    \/ \E i \in 1..MaxInst : Register(i) \/ WorkersExit(i)
    \/ \E g \in 1..MaxStoppers :
         StopperDeRegister(g) \/ StopperClose(g) \/ StopperFinish(g)
    \/ Done

\* Goroutines are scheduled fairly; secret events come from outside.
Fairness ==
    /\ WF_vars(HandleCluster)
    /\ \A i \in 1..MaxInst : WF_vars(InstStep(i))
    /\ \A g \in 1..MaxStoppers : WF_vars(StopperStep(g))

Spec == Init /\ [][Next]_vars
FairSpec == Spec /\ Fairness

----
\* Properties

TypeOK ==
    /\ secret \in [Secrets -> {"absent", "enabled", "disabled"}]
    /\ data \in [Secrets -> SUBSET Clusters]
    /\ hpc \in {None} \cup [op : {"add", "stop"}, s : Secrets, todo : SUBSET Clusters]
    /\ cache \in [Clusters -> Secrets \cup {None}]
    /\ reg \in [Names -> InstIds \cup {None}]
    /\ \A i \in InstIds :
         inst[i] \in [cluster : Clusters, name : Names, closes : Nat,
                      pc : {"starting", "running", "stopping", "stopped"}]
    /\ \A g \in DOMAIN stoppers :
         stoppers[g] \in [inst : InstIds, name : Names, cluster : Clusters,
                          pc : {"deregister", "close", "wait", "done"}]
    /\ nev \in 0..MaxEvents

\* No controller's StopCh is closed twice: two stop goroutines must never
\* both have captured the same controller from ControllerCache.Range.
StopChClosedAtMostOnce == \A i \in InstIds : inst[i].closes <= 1

\* Every controller that runs stays reachable through ControllerCache (so
\* that StopRemoteClusterControllers and StopAllControllers can stop it),
\* unless a stop goroutine is already taking it down: no Register of a
\* new controller and no DeRegister of an old one may orphan it.
NoOrphanController ==
    \A i \in InstIds :
        /\ inst[i].pc = "running"
        /\ ~Doomed(i)
        => reg[inst[i].name] = i

\* Once the handler and its goroutines are done, every running controller
\* serves a cluster that is in the remote-cluster cache.
ServedClusterCached ==
    Quiescent => \A i \in InstIds : Running(i) => cache[inst[i].cluster] # None

\* Spec 4.4 and E6: once the handler and its goroutines are done, a cached
\* cluster has a running, registered controller of every kind.
CachedClusterServed ==
    Quiescent =>
        \A c \in Clusters : cache[c] # None =>
            \A k \in Kinds : \E i \in InstIds :
                /\ inst[i].pc = "running" /\ inst[i].cluster = c
                /\ reg[NameOf(k, c)] = i

\* Spec section 2: a cluster is destroyed when the secret that created it
\* loses its sync label or is deleted; no step removes a cluster from the
\* cache while its owning secret is still sync-enabled.
ClusterRemovedOnlyWithOwner ==
    [][\A c \in Clusters :
         cache[c] # None /\ cache'[c] = None => secret'[cache[c]] # "enabled"]_vars

Unwanted(c) == \A s \in Secrets : c \in data[s] => secret[s] # "enabled"

\* Spec E6: once no sync-enabled secret names a cluster, every controller
\* of that cluster is eventually stopped (unless a secret names it again).
ControllersFollowSecrets ==
    \A c \in Clusters :
        Unwanted(c) ~> (~Unwanted(c) \/ \A i \in InstIds : inst[i].cluster = c => ~Running(i))

====
