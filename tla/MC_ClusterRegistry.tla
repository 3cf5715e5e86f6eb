------------------------ MODULE MC_ClusterRegistry ------------------------
EXTENDS ClusterRegistry

\* Cluster ids and the contexts of their kubeconfigs.  "c1" is a substring
\* of "c10", so the name of c10's controllers also matches c1.
MCClusters == {"c1", "c10"}
MCOneCluster == {"c1"}
MCContextOf == [c \in {"c1", "c2", "c10", "C3"} |-> "ctx-" \o c]
\* strings.ToLower of each context.
MCLower == [x \in {"ctx-c1", "ctx-c2", "ctx-c10", "ctx-C3"} |->
              IF x = "ctx-C3" THEN "ctx-c3" ELSE x]
\* strings.Contains(name part, id) for the lower-cased name parts: "ctx-c3"
\* does not contain "C3".
MCNameContains == {<<"ctx-c1", "c1">>, <<"ctx-c2", "c2">>, <<"ctx-c10", "c10">>,
                   <<"ctx-c10", "c1">>, <<"ctx-c3", "c3">>}
\* Two clusters whose ids are not substrings of each other's contexts.
MCTwoClusters == {"c1", "c2"}
\* A cluster whose id has a capital letter, beside c1.
MCUpperClusters == {"c1", "C3"}

\* Two secrets naming the same cluster (the second is a conflict), or two
\* secrets naming different clusters.
MCSecrets == {"s1", "s2"}
MCOneSecret == {"s1"}
MCSharedData == [s \in MCSecrets |-> {{"c1"}}]
MCOneData == [s \in MCOneSecret |-> {{"c1"}}]
MCDisjointData == [s \in MCSecrets |-> IF s = "s1" THEN {{"c1"}} ELSE {{"c10"}}]
MCKinds == {"deployment"}
MCTwoKinds == {"deployment", "rollout"}
\* s1 names both clusters, s2 (a conflict) names c1 again.
MCWideData == [s \in MCSecrets |-> IF s = "s1" THEN {{"c1", "c2"}} ELSE {{"c1"}}]
\* As MCWideData, but an update of s1 may drop c2 from its Data.
MCWideShrinkData == [s \in MCSecrets |-> IF s = "s1" THEN {{"c1", "c2"}, {"c1"}} ELSE {{"c1"}}]
\* s1's Data names both clusters, and an update may drop c2.
MCShrinkData == [s \in MCOneSecret |-> {{"c1", "c2"}, {"c1"}}]
\* s1 names c1 and C3.
MCUpperData == [s \in MCOneSecret |-> {{"c1", "C3"}}]
====
