------------------------- MODULE VirtualServiceBuild -------------------------
(***************************************************************************)
(* buildVirtualServiceForMeshDependents and its helpers                     *)
(* (internal/handler/trafficconfig/virtual_service.go): the pure function   *)
(* from a traffic config's edge service to the hosts and HTTP rules of the  *)
(* virtual service the reconciler writes.                                   *)
(*                                                                         *)
(* An edge service is a record of routes, targets and target groups, each  *)
(* None where the object's field is nil.  A route has a name, inbound and   *)
(* outbound prefixes, a timeout in milliseconds, its workload-env           *)
(* selectors and its configs (None when nil); a path is the sequence of  *)
(* its segments, "/" the empty one.  A config names a target              *)
(* selector and a target-group selector ("" when empty).  A host is the     *)
(* pair <<env, alias>> types.GetHost formats; a rule name is the tuple of   *)
(* the parts the code joins with "-".   A rule's destinations are a          *)
(* function from the spec entry each comes from to its endpoint and        *)
(* weight: for app dials the code lists them in Go map iteration order,     *)
(* which does not change routing.  Host and alias strings are taken to be  *)
(* lower case already, so the ToLower calls are the identity here.         *)
(***************************************************************************)
EXTENDS Naturals, Sequences

LOCAL INSTANCE SequencesExt

CONSTANT None

\* A build that returns an error ("no routes present"), and the empty
\* object returned for a traffic config without an edge service.
BuildError == [built |-> "error"]
Unnamed == [built |-> "unnamed"]

\* types.GetHost(env, alias, suffix) formats env.alias.suffix.
GetHost(env, alias) == <<env, alias>>

-----------------------------------------------------------------------------
(* Timeouts: durationpb.Duration as whole seconds and nanoseconds.         *)

Duration(s, n) == [s |-> s, n |-> n]

\* getRouteTimeout: route.Timeout is in milliseconds.
GetRouteTimeout(route) ==
    Duration(route.timeout \div 1000, (route.timeout % 1000) * 1000000)

\* durationpb.New(time.Duration(route.Timeout)): the same number taken as
\* nanoseconds.
NewDurationFromNanos(x) == Duration(x \div 1000000000, x % 1000000000)

\* GetSeconds(), 0 on a nil duration.
GetSeconds(d) == IF d = None THEN 0 ELSE d.s

\* getFinalRouteTimeout: a timeout of at most one millisecond is dropped.
\* AsDuration().Nanoseconds() > 1e6 is compared field by field (the nanos
\* of a duration stay below 1e9), as the sum outgrows TLC's integers.
GetFinalRouteTimeout(d) == IF d # None /\ (d.s > 0 \/ d.n > 1000000) THEN d ELSE None

\* An HTTP rule: its name, URI prefix, authority prefix (None on route
\* rules), rewrite, timeout and destinations.
Rule(name, prefix, authority, rewrite, timeout, dst) ==
    [name |-> name, prefix |-> prefix, authority |-> authority,
     rewrite |-> rewrite, timeout |-> timeout, route |-> dst]

-----------------------------------------------------------------------------
(* Route details of an edge service with targets and target groups.        *)

\* getMeshDNSForTargetGroup: the first target named by the config's target
\* selector gives its mesh DNS, or the host of the route's first env; with
\* no such target the first env itself is returned.
GetMeshDNSForTargetGroup(es, alias, cfg, route) ==
    IF es.targets = None \/ route.envs = <<>> THEN ""
    ELSE LET k == SelectInSeq(es.targets, LAMBDA t : t.name = cfg.ts)
         IN  IF k = 0 THEN route.envs[1]
             ELSE IF es.targets[k].meshDNS = "" THEN GetHost(route.envs[1], alias)
             ELSE es.targets[k].meshDNS

\* Target group g has a weight, or an app override with a weight, named n.
NamesWeight(g, n) ==
    \/ \E w \in ToSet(g.weights) : w.name = n
    \/ /\ g.appOverrides # None
       /\ \E ao \in ToSet(g.appOverrides) : \E w \in ToSet(ao.weights) : w.name = n

\* getTargetGroupRouteNameMap: target-group name -> the routes with a
\* config that selects a weight of a group of that name.  The code's list
\* repeats a route once per match; only membership is read.
GetTargetGroupRouteNameMap(es) ==
    LET RoutesOf(n) ==
            {r.name : r \in {r \in ToSet(es.routes) :
                r.config # None /\
                \E c \in ToSet(r.config), g \in ToSet(es.targetGroups) :
                    g.name = n /\ NamesWeight(g, c.tgs)}}
    IN  [n \in {n \in {g.name : g \in ToSet(es.targetGroups)} : RoutesOf(n) # {}} |->
            RoutesOf(n)]

\* A list of name/weight pairs as a Go map: a later pair of a name wins.
WeightMap(ws) ==
    [n \in {w.name : w \in ToSet(ws)} |->
        ws[SelectLastInSeq(ws, LAMBDA w : w.name = n)].weight]

\* A group's app overrides: asset alias -> weight map, later aliases winning.
AppOverrideMap(aos) ==
    [a \in {ao.alias : ao \in ToSet(aos)} |->
        WeightMap(aos[SelectLastInSeq(aos, LAMBDA ao : ao.alias = a)].weights)]

\* buildTargetGroupRouteNameMap, first output: route name -> the override
\* map of the last group with app overrides whose routes include it.  The
\* code stores the group's one map object, which its later overrides keep
\* filling, so the route sees all of the group's overrides.
AppDialingPerTG(es, tgRoutes) ==
    LET tgs == es.targetGroups
        Sets(k, rn) == /\ tgs[k].appOverrides \notin {None, <<>>}
                       /\ tgs[k].name \in DOMAIN tgRoutes
                       /\ rn \in tgRoutes[tgs[k].name]
        Routed == {rn \in UNION {tgRoutes[n] : n \in DOMAIN tgRoutes} :
                       \E k \in DOMAIN tgs : Sets(k, rn)}
    IN  [rn \in Routed |->
            AppOverrideMap(tgs[Max({k \in DOMAIN tgs : Sets(k, rn)})].appOverrides)]

\* buildTargetGroupRouteNameMap, second output: weight name -> weight over
\* all groups, a later group's pair winning.
ServiceDialDetails(es) ==
    WeightMap(FlattenSeq([k \in DOMAIN es.targetGroups |-> es.targetGroups[k].weights]))

\* constructServiceDialRoute: a single config without a target-group
\* selector takes all traffic; otherwise each config whose selector names a
\* weight gets that weight.
ConstructServiceDialRoute(sdd, infos) ==
    IF Len(infos) = 1 /\ infos[1].tgs = ""
    THEN << [endpoint |-> infos[1].ep, weight |-> 100] >>
    ELSE LET sel == SelectSeq(infos, LAMBDA x : x.tgs \in DOMAIN sdd)
         IN  [k \in DOMAIN sel |-> [endpoint |-> sel[k].ep, weight |-> sdd[sel[k].tgs]]]

\* constructAppDialRoutes: alias -> the endpoints of the configs selecting
\* one of the alias's weight names, with that weight; aliases with none are
\* left out.
ConstructAppDialRoutes(appMap, infos) ==
    LET Eps(a) == [x \in {x \in (DOMAIN appMap[a]) \X (DOMAIN infos) : infos[x[2]].tgs = x[1]} |->
                      [endpoint |-> infos[x[2]].ep, weight |-> appMap[a][x[1]]]]
    IN  [a \in {a \in DOMAIN appMap : DOMAIN Eps(a) # {}} |-> Eps(a)]

\* getCombinedRouteDetails, for one route.
RouteDetails(es, alias, appDialing, sdd, route) ==
    LET infos == IF route.config = None THEN <<>>
                 ELSE [k \in DOMAIN route.config |->
                         [tgs |-> route.config[k].tgs,
                          ep |-> GetMeshDNSForTargetGroup(es, alias, route.config[k], route)]]
        apps == IF route.name \in DOMAIN appDialing
                THEN ConstructAppDialRoutes(appDialing[route.name], infos)
                ELSE [a \in {} |-> None]
    IN  [name |-> route.name, inbound |-> route.inbound, outbound |-> route.outbound,
         timeout |-> GetRouteTimeout(route),
         serviceDial |-> ConstructServiceDialRoute(sdd, infos), appDialing |-> apps]

-----------------------------------------------------------------------------
(* HTTP rules.                                                              *)

\* buildAppDialRules: one rule per alias with app dials, in Go map order
\* (here one fixed order).  Its match is the URI prefix alone, like the
\* service-dial rule's.
BuildAppDialRules(rd) ==
    LET as == SetToSeq(DOMAIN rd.appDialing)
    IN  [k \in DOMAIN as |->
            Rule(<<rd.name, as[k]>>, rd.inbound, None, rd.outbound,
                 GetFinalRouteTimeout(rd.timeout), rd.appDialing[as[k]])]

\* buildServiceDialRule
BuildServiceDialRule(rd) ==
    Rule(<<rd.name>>, rd.inbound, None, rd.outbound,
         GetFinalRouteTimeout(rd.timeout), rd.serviceDial)

\* buildRuleWhenRouteConfigEmpty: for every spec route of the detail's name,
\* one rule per env selector, to that env's host of the config's identity.
BuildRuleWhenRouteConfigEmpty(es, alias, rd) ==
    LET rs == SelectSeq(es.routes, LAMBDA r : r.name = rd.name)
    IN  FlattenSeq([j \in DOMAIN rs |->
            [k \in DOMAIN rs[j].envs |->
                Rule(<<rd.name, rs[j].envs[k]>>, rs[j].inbound, None, rs[j].outbound,
                     GetFinalRouteTimeout(rd.timeout),
                     << [endpoint |-> GetHost(rs[j].envs[k], alias), weight |-> None] >>)]])

\* buildMatchRulesForVirtualService: per route its app-dial rules, then its
\* service-dial rule, or the env rules when it has neither.
BuildMatchRulesForVirtualService(es, alias, rds) ==
    FlattenSeq([k \in DOMAIN rds |->
        LET rd == rds[k]
            noApps == DOMAIN rd.appDialing = {}
        IN  (IF noApps THEN <<>> ELSE BuildAppDialRules(rd))
            \o (IF rd.serviceDial = <<>> THEN <<>> ELSE << BuildServiceDialRule(rd) >>)
            \o (IF rd.serviceDial = <<>> /\ noApps
                THEN BuildRuleWhenRouteConfigEmpty(es, alias, rd) ELSE <<>>)])

\* addAllowAllRule, first loop: the timeout of the first rule with the most
\* whole seconds, nil when no rule has a whole second.
AllowAllTimeout(rules) ==
    FoldLeft(LAMBDA acc, r : IF GetSeconds(r.timeout) > GetSeconds(acc) THEN r.timeout ELSE acc,
             None, rules)

\* Mutant: the catch-all rule matches any authority.
MutCreateAllowRouteMatchAnyHost(env, timeout, alias) ==
    Rule(<<"defaultall", env>>, <<>>, None, None,
         GetFinalRouteTimeout(timeout),
         << [endpoint |-> GetHost(env, alias), weight |-> None] >>)

\* createAllowRouteMatch: any path whose authority starts with the env's host.
CreateAllowRouteMatch(env, timeout, alias) ==
    Rule(<<"defaultall", env>>, <<>>, GetHost(env, alias), None,
         GetFinalRouteTimeout(timeout),
         << [endpoint |-> GetHost(env, alias), weight |-> None] >>)

\* Mutant: the catch-all rules are put in front of the route rules.
MutAddAllowAllRuleFirst(wenvs, alias, rules) ==
    [k \in DOMAIN wenvs |-> CreateAllowRouteMatch(wenvs[k], AllowAllTimeout(rules), alias)] \o rules

\* addAllowAllRule: the rules, then a catch-all rule per workload env.
AddAllowAllRule(wenvs, alias, rules) ==
    rules \o [k \in DOMAIN wenvs |-> CreateAllowRouteMatch(wenvs[k], AllowAllTimeout(rules), alias)]

\* constructVSRouteWithoutTargetDetails: a route without configs gets the
\* env rules, its timeout read through durationpb.New.
ConstructVSRouteWithoutTargetDetails(es, alias, route) ==
    IF route.config = None
    THEN BuildRuleWhenRouteConfigEmpty(es, alias,
             [name |-> route.name, timeout |-> NewDurationFromNanos(route.timeout)])
    ELSE <<>>

\* buildVirtualServiceWithoutTargetDetails, its rules.
BuildRulesWithoutTargetDetails(es, alias) ==
    FlattenSeq([k \in DOMAIN es.routes |-> ConstructVSRouteWithoutTargetDetails(es, alias, es.routes[k])])

\* checkIfHostAlreadyExists / constructHostsForVirtualService: the workload
\* envs' hosts, each once.
ConstructHostsForVirtualService(wenvs, alias) ==
    FoldLeft(LAMBDA hs, e : IF GetHost(e, alias) \in ToSet(hs) THEN hs ELSE Append(hs, GetHost(e, alias)),
             <<>>, wenvs)

\* buildVirtualServiceObject: hosts, rules and the revision annotation.  The
\* name (getVirtualServiceName) is the reconciler's.
BuildVirtualServiceObject(tc, rules) ==
    [built |-> "ok", hosts |-> ConstructHostsForVirtualService(tc.wenvs, tc.i),
     http |-> rules, rev |-> tc.rev]

\* buildVirtualServiceForMeshDependents, for a traffic config tc (identity
\* i, workload envs wenvs, revision rev) and its edge service es.
BuildVirtualServiceForMeshDependents(tc, es) ==
    IF es = None THEN Unnamed
    ELSE IF es.routes = <<>> THEN BuildError
    ELSE IF es.targets = None \/ es.targetGroups = None
    THEN BuildVirtualServiceObject(tc, AddAllowAllRule(tc.wenvs, tc.i, BuildRulesWithoutTargetDetails(es, tc.i)))
    ELSE LET tgRoutes == GetTargetGroupRouteNameMap(es)
             rds == [k \in DOMAIN es.routes |->
                        RouteDetails(es, tc.i, AppDialingPerTG(es, tgRoutes),
                                     ServiceDialDetails(es), es.routes[k])]
         IN  BuildVirtualServiceObject(tc,
                 AddAllowAllRule(tc.wenvs, tc.i, BuildMatchRulesForVirtualService(es, tc.i, rds)))

====
