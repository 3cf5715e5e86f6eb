--------------------------- MODULE EnvoyFilterBuild ---------------------------
(***************************************************************************)
(* The throttle filter createRateLimitingFilters builds for one workload    *)
(* env (internal/handler/trafficconfig/rate_limiting_handler.go and         *)
(* rate_limiting_helper.go): its workload selector and the config patches   *)
(* of createConfigPatches, down to the descriptors and rate-limit actions   *)
(* of every quota.                                                          *)
(*                                                                         *)
(* A traffic config's quota group is a record of its total quota groups    *)
(* and app quota groups.  A group has a name, its workload-env selectors,  *)
(* its quotas and, for an app group, its associated apps.  A quota has a   *)
(* name, a time period, a maximum amount, a path, methods and headers.     *)
(* A name is a sequence of tokens, ":" among them where the name has one,  *)
(* so that the join of getDescriptorKey is what it is: a concatenation     *)
(* with ":" between, in which "a:b" and "c" join as "a" and "b:c" do.  A   *)
(* time period is what time.ParseDuration makes of it: a length in         *)
(* milliseconds, or None when it fails.  A path is a sequence of          *)
(* characters in which "." and "*" are characters of their own; a method   *)
(* is a name, and its lower- and upper-case forms are that name tagged.    *)
(* The constant parts of the patches (filter names, type URLs, runtime     *)
(* keys) are left out.                                                     *)
(***************************************************************************)
EXTENDS Naturals, Sequences

LOCAL INSTANCE SequencesExt

CONSTANT None

\* contains: the env is among the selectors.
contains(keys, key) == key \in ToSet(keys)

\* strings.ReplaceAll(t, old, new): the non-overlapping occurrences of old,
\* leftmost first, replaced by new.
RECURSIVE StringsReplaceAll(_, _, _)
StringsReplaceAll(t, old, new) ==
    IF Len(t) < Len(old) THEN t
    ELSE IF SubSeq(t, 1, Len(old)) = old
         THEN new \o StringsReplaceAll(SubSeq(t, Len(old) + 1, Len(t)), old, new)
         ELSE <<Head(t)>> \o StringsReplaceAll(Tail(t), old, new)

\* The match conditions of types.MatchCondition.
MatchConditions == {"exact", "prefix", "suffix", "contains", "regex"}

\* Mutant: a "*" already written ".*" is not first made a bare "*".
MutGetPathRegexNoNormalise(path) == StringsReplaceAll(path, <<"*">>, <<".", "*">>)

\* Mutant: the prefix case is missing from the switch.
MutGetHeaderMatcherNoPrefix(name, value, condition) ==
    [name |-> name, match |-> IF condition \in MatchConditions \ {"prefix"} THEN <<condition, value>> ELSE None]

\* getPathRegex: "*" is a wildcard whether written "*" or ".*".
GetPathRegex(path) == StringsReplaceAll(StringsReplaceAll(path, <<".", "*">>, <<"*">>), <<"*">>, <<".", "*">>)

\* getMethodRegex: the methods in lower and upper case, joined with "|";
\* any method when none is listed.
GetMethodRegex(methods) ==
    IF methods = <<>> THEN <<".*">>
    ELSE FlattenSeq([k \in DOMAIN methods |-> << <<"lower", methods[k]>>, <<"upper", methods[k]>> >>])

\* getHeaderMatcher: a string match of the condition's kind on the value;
\* for any other condition the switch leaves the matcher nil.
GetHeaderMatcher(name, value, condition) ==
    [name |-> name, match |-> IF condition \in MatchConditions THEN <<condition, value>> ELSE None]

\* getDescriptorKey: the parts joined with ":", base64-encoded.  Base64 is
\* injective, so the encoded key is the joined string, tagged.
Join(parts) == FlattenSeq([k \in DOMAIN parts |-> IF k = 1 THEN parts[k] ELSE <<":">> \o parts[k]])
GetDescriptorKey(parts) == [base64 |-> Join(parts)]

\* The key parts of a quota, and of a quota for an associated app ("" for
\* none).
KeyParts(g, q, app) == IF app = "" THEN <<g.name, q.name>> ELSE <<g.name, q.name, app>>

\* getQuotaDescriptorEntry and getAssociatedAppDescriptorEntry.
GetQuotaDescriptorEntry(g, q) ==
    [key |-> GetDescriptorKey(KeyParts(g, q, "")), value |-> GetDescriptorKey(KeyParts(g, q, ""))]
GetAssociatedAppDescriptorEntry(g, q, app) ==
    IF app = "" THEN <<>>
    ELSE << [key |-> GetDescriptorKey(KeyParts(g, q, app)), value |-> GetDescriptorKey(KeyParts(g, q, app))] >>

\* getTokenBucket: MaxAmount tokens, refilled with MaxAmount every period.
GetTokenBucket(maxTokens, tokensPerFill, fillInterval) ==
    [maxTokens |-> maxTokens, tokensPerFill |-> tokensPerFill, fillInterval |-> fillInterval]

\* getDescriptorConfig
GetDescriptorConfig(g, app, q, period) ==
    [tokenBucket |-> GetTokenBucket(q.max, q.max, period),
     entries |-> << GetQuotaDescriptorEntry(g, q) >> \o GetAssociatedAppDescriptorEntry(g, q, app)]

\* getQuotaAction: a header-value match on path, method and the quota's
\* headers, producing the quota's descriptor entry.
GetQuotaAction(g, q) ==
    [key |-> GetDescriptorKey(KeyParts(g, q, "")),
     headers |-> << GetHeaderMatcher(":path", GetPathRegex(q.path), "regex"),
                    GetHeaderMatcher(":method", GetMethodRegex(q.methods), "regex") >>
                 \o [k \in DOMAIN q.headers |->
                        GetHeaderMatcher(q.headers[k].name, q.headers[k].value, q.headers[k].condition)]]

\* getAssociatedAppAction: an exact match of the caller on the identity
\* header (options.GetTrafficConfigIdentityKey, "asset" by default).
GetAssociatedAppAction(g, q, app) ==
    IF app = "" THEN <<>>
    ELSE << [key |-> GetDescriptorKey(KeyParts(g, q, app)),
             headers |-> << GetHeaderMatcher("asset", app, "exact") >>] >>

\* getRateLimitConfig
GetRateLimitConfig(g, app, q) ==
    [actions |-> << GetQuotaAction(g, q) >> \o GetAssociatedAppAction(g, q, app)]

\* Mutant: the groups are not filtered by their workload-env selectors.
MutQuotaUsesAllEnvs(env, qg) ==
    LET uses  == FlattenSeq([k \in DOMAIN qg.total |->
                     [j \in DOMAIN qg.total[k].quotas |-> <<qg.total[k], "", qg.total[k].quotas[j]>>]])
                 \o FlattenSeq([k \in DOMAIN qg.app |-> FlattenSeq([a \in DOMAIN qg.app[k].apps |->
                     [j \in DOMAIN qg.app[k].quotas |-> <<qg.app[k], qg.app[k].apps[a], qg.app[k].quotas[j]>>]])])
    IN  SelectSeq(uses, LAMBDA u : u[3].period # None)

\* The (group, app, quota) triples createRoutePatches walks for env, in
\* order: the total groups' quotas, then for each app group each associated
\* app with each quota.  A quota whose period does not parse is skipped.
QuotaUses(env, qg) ==
    LET total == SelectSeq(qg.total, LAMBDA g : contains(g.envs, env))
        apps  == SelectSeq(qg.app, LAMBDA g : contains(g.envs, env))
        uses  == FlattenSeq([k \in DOMAIN total |->
                     [j \in DOMAIN total[k].quotas |-> <<total[k], "", total[k].quotas[j]>>]])
                 \o FlattenSeq([k \in DOMAIN apps |-> FlattenSeq([a \in DOMAIN apps[k].apps |->
                     [j \in DOMAIN apps[k].quotas |-> <<apps[k], apps[k].apps[a], apps[k].quotas[j]>>]])])
    IN  SelectSeq(uses, LAMBDA u : u[3].period # None)

\* getInboundPorts: the deployment's include-inbound-ports annotation split
\* at ",".  An absent or empty annotation splits into the one empty port.
GetInboundPorts(annotation) == IF annotation = <<>> THEN <<"">> ELSE annotation

\* createRouteMatch: the inbound sidecar routes, of the port's virtual host
\* (getRouteConfig) unless the port is empty.
CreateRouteMatch(port) == [context |-> "SIDECAR_INBOUND", vhost |-> IF port = "" THEN None ELSE port]

\* createRoutePatches: one merge patch per inbound port, all carrying the
\* same rate limits and descriptors.
CreateRoutePatches(env, qg, annotation) ==
    LET uses == QuotaUses(env, qg)
        descriptors == [k \in DOMAIN uses |->
                           GetDescriptorConfig(uses[k][1], uses[k][2], uses[k][3], uses[k][3].period)]
        rateLimits  == [k \in DOMAIN uses |-> GetRateLimitConfig(uses[k][1], uses[k][2], uses[k][3])]
        ports == GetInboundPorts(annotation)
    IN  [k \in DOMAIN ports |->
            [applyTo |-> "HTTP_ROUTE", proxyVersion |-> None, match |-> CreateRouteMatch(ports[k]),
             rateLimits |-> rateLimits, descriptors |-> descriptors]]

\* createFilterPatch: the local rate-limit HTTP filter, inserted before the
\* router on the inbound listeners of proxies of the version.
CreateFilterPatch(version) ==
    [applyTo |-> "HTTP_FILTER", proxyVersion |-> version, match |-> None,
     rateLimits |-> <<>>, descriptors |-> <<>>]

\* createConfigPatches
CreateConfigPatches(env, version, qg, annotation) ==
    << CreateFilterPatch(version) >> \o CreateRoutePatches(env, qg, annotation)

====
