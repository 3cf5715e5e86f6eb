-------------------- MODULE MC_TrafficConfigReconcile --------------------
EXTENDS TrafficConfigReconcile

CONSTANTS i1, i2, e1, e2, w1, w2, c1, c2, t1, t2

(* Traffic-config changes only.  Two traffic configs are for the same     *)
(* identity in different envs, so their filters are told apart by the     *)
(* traffic-env label; their workload envs are disjoint.  Identity i1 runs *)
(* in c1 and in c2, which is out of scope; its dependent i2 runs in c1.   *)
TcKeyTc == (t1 :> <<i1, e1>>) @@ (t2 :> <<i1, e2>>)
TcWenvsTc == (t1 :> {w1}) @@ (t2 :> {w2})
WlInitTc == (c1 :> {<<i1, w1>>, <<i1, w2>>, <<i2, w1>>}) @@ (c2 :> {<<i1, w1>>})
DepInitTc == (i1 :> {i2}) @@ (i2 :> {})

(* Edge services.  A route's prefixes are sequences of path segments and  *)
(* its timeout is in milliseconds.  t1 has targets and a target group:    *)
(* route "a" splits 90/10 between the target without mesh DNS and the     *)
(* canary one, and route "b" has no config.  t2 has neither targets nor   *)
(* target groups, so only its config-less route gets rules.               *)
Route(n, p, ms, envs, cfg) ==
    [name |-> n, inbound |-> p, outbound |-> p, timeout |-> ms, envs |-> envs, config |-> cfg]
EdgeTc ==
    (t1 :> [routes |-> << Route("a", <<"a">>, 2500, <<w1>>,
                                << [ts |-> "blue", tgs |-> "stable"],
                                   [ts |-> "green", tgs |-> "canary"] >>),
                          Route("b", <<"b">>, 0, <<w1>>, None) >>,
            targets |-> << [name |-> "blue", meshDNS |-> ""],
                           [name |-> "green", meshDNS |-> "green-mesh"] >>,
            targetGroups |-> << [name |-> "split",
                                 weights |-> << [name |-> "stable", weight |-> 90],
                                                [name |-> "canary", weight |-> 10] >>,
                                 appOverrides |-> None] >>])
    @@ (t2 :> [routes |-> << Route("c", <<"c">>, 1500, <<w2>>, None),
                             Route("d", <<"d">>, 1500, <<w2>>, << [ts |-> "blue", tgs |-> ""] >>) >>,
               targets |-> None, targetGroups |-> None])

(* Quota groups.  t1 has a total group for w1 with a quota whose period   *)
(* does not parse, a total group for w2 only, and an app group for both    *)
(* envs with two callers, a header match, a path written with ".*" and    *)
(* no methods; t2 has none.  The inbound                                   *)
(* ports of i1's workload in w1 are annotated, all others are not.        *)
Quota(n, ms, max, hs) ==
    [name |-> n, period |-> ms, max |-> max, path |-> <<"/", "a", "p", "i", "/", "*">>, methods |-> <<"GET">>, headers |-> hs]
QuotaTc ==
    (t1 :> [total |-> << [name |-> <<"tg">>, envs |-> <<w1>>,
                          quotas |-> << Quota(<<"q1">>, 1000, 10, <<>>), Quota(<<"q2">>, None, 5, <<>>) >>],
                         [name |-> <<"tg2">>, envs |-> <<w2>>,
                          quotas |-> << Quota(<<"q1">>, 60000, 100, <<>>) >>] >>,
            app |-> << [name |-> <<"ag">>, envs |-> <<w1, w2>>, apps |-> <<"x", "y">>,
                        quotas |-> << [Quota(<<"q1">>, 1000, 3,
                                             << [name |-> "h", value |-> "v", condition |-> "prefix"] >>)
                                       EXCEPT !.path = <<"/", "v", ".", "*">>, !.methods = <<>>] >>] >>])
    @@ (t2 :> [total |-> <<>>, app |-> <<>>])
(* Two total groups for w1 whose names and quota names join to the same  *)
(* descriptor key: "a:b" with "c" and "a" with "b:c".                      *)
QuotaColl ==
    (t1 :> [total |-> << [name |-> <<"a", ":", "b">>, envs |-> <<w1>>, quotas |-> << Quota(<<"c">>, 1000, 10, <<>>) >>],
                         [name |-> <<"a">>, envs |-> <<w1>>, quotas |-> << Quota(<<"b", ":", "c">>, 1000, 5, <<>>) >>] >>,
            app |-> <<>>])
    @@ (t2 :> [total |-> <<>>, app |-> <<>>])
PortsTc == [x \in {i1, i2} \X {w1, w2} |-> IF x = <<i1, w1>> THEN <<"8080", "9090">> ELSE <<>>]

(* Trigger paths.  One traffic config, for i1, is added while its         *)
(* dependent i2 deploys a new workload env in c2 and i2's Dependency      *)
(* object is created, updated to name i1 and deleted.                     *)
TcKeyTrig == t1 :> <<i1, e1>>
TcWenvsTrig == t1 :> {w1, w2}
WlInitTrig == (c1 :> {<<i1, w1>>, <<i2, w1>>}) @@ (c2 :> {<<i2, w1>>})
WlAddsTrig == {<<c2, i2, w2>>}
DepChoicesTrig == {{}, {i1}}

(* The trigger run's edge service: target group "split" has an app       *)
(* override for caller "x", which also names weight "other" that only     *)
(* route "b" selects, through a target no entry of targets names.         *)
EdgeTrig ==
    t1 :> [routes |-> << Route("a", <<"a">>, 3000, <<w1>>,
                               << [ts |-> "blue", tgs |-> "stable"],
                                  [ts |-> "green", tgs |-> "canary"] >>),
                         Route("b", <<"b">>, 500, <<w2>>,
                               << [ts |-> "nosuch", tgs |-> "other"] >>) >>,
           targets |-> << [name |-> "blue", meshDNS |-> ""],
                          [name |-> "green", meshDNS |-> "green-mesh"] >>,
           targetGroups |-> << [name |-> "split",
                                weights |-> << [name |-> "stable", weight |-> 80],
                                               [name |-> "canary", weight |-> 20] >>,
                                appOverrides |-> << [alias |-> "x",
                                                     weights |-> << [name |-> "canary", weight |-> 100],
                                                                    [name |-> "other", weight |-> 100] >>] >>] >>]

(* Traffic-config adds and updates only, for one traffic config.          *)
TcKeyStale == t1 :> <<i1, e1>>
TcWenvsStale == t1 :> {w1}
WlInitStale == (c1 :> {<<i1, w1>>}) @@ (c2 :> {})
DepInitStale == i1 :> {}
\* Deployment arrivals for the further results of README section 7: a new
\* workload env of the configured identity (the request race), and a caller
\* of the configured identity in a new cluster (the trigger direction).
RaceAdds == {<<c1, i1, w2>>}
CallerAdds == {<<c2, i2, w1>>}

====
