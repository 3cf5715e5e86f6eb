------------------------- MODULE MC_WorkloadCache -------------------------
EXTENDS WorkloadCache

\* Two services share a namespace, so deleting one must keep the other.
MCSvcNames == {"svc-a", "svc-b"}
MCNsOf == [s \in MCSvcNames |-> "payments-prd"]
====
