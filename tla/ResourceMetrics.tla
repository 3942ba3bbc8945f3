--------------------------- MODULE ResourceMetrics ---------------------------
(***************************************************************************)
(* The resource metrics API: metrics/apis/metrics/handlers.go, and the     *)
(* same as storage of an aggregated API server (metrics/storage).  A list  *)
(* asks the metric sink for its latest batch again for every pod or node,  *)
(* so that exports come in between.                                        *)
(***************************************************************************)
EXTENDS MetricSink

CONSTANTS
    ClusterPods,    \* the pods the pod lister knows: namespace, name and containers
    ClusterNodes    \* the names of the nodes the node lister knows

VARIABLE
    listing     \* the request being answered

\* Objects are pods and nodes; during is a history of the batches that were the
\* latest one since the request came.
NoListing == [kind |-> "none", todo |-> {}, items |-> {}, skipped |-> {}, code |-> 0, during |-> {}]

Objects == {[type |-> "pod", namespace |-> p.namespace, name |-> p.name, containers |-> p.containers] : p \in ClusterPods}
    \cup {[type |-> "node", namespace |-> "", name |-> n, containers |-> {}] : n \in ClusterNodes}

\* parseResourceList, of the set under a key of batch b: both usages are needed.
ParseResourceList(b, k) ==
    Holds(b, k, "cpu/usage_rate") /\ Holds(b, k, "memory/working_set")

UsageKeys(o) ==
    IF o.type = "node" THEN {NodeKey(o.name)}
    ELSE {PodContainerKey(o.namespace, o.name, c) : c \in o.containers}

GetNodeMetrics(o, b) ==
    IF b # 0 /\ ParseResourceList(b, NodeKey(o.name))
    THEN {[of |-> o, batch |-> b, usage |-> {NodeKey(o.name)}]} ELSE {}

\* Mutant: containers without metrics are left out.
GetPodMetricsPartly(o, b) ==
    LET found == {k \in UsageKeys(o) : b # 0 /\ ParseResourceList(b, k)}
    IN  IF found # {} THEN {[of |-> o, batch |-> b, usage |-> found]} ELSE {}

\* Nothing unless every container of the pod has its usage in the batch.
GetPodMetrics(o, b) ==
    IF b # 0 /\ \A k \in UsageKeys(o) : ParseResourceList(b, k)
    THEN {[of |-> o, batch |-> b, usage |-> UsageKeys(o)]} ELSE {}

StartRequest(kind, todo) ==
    /\ listing.kind = "none"
    /\ listing' = [NoListing EXCEPT !.kind = kind, !.todo = todo, !.during = {GetLatestDataBatch}]
    /\ UNCHANGED <<now, storeVars>>

\* The label selector narrows what the lister gives; no namespace is all of them.
NodeMetricsList ==
    \E chosen \in SUBSET {o \in Objects : o.type = "node"} : StartRequest("list", chosen)
PodMetricsInNamespaceList ==
    \E ns \in {o.namespace : o \in Objects} :
        \E chosen \in SUBSET {o \in Objects : o.type = "pod" /\ (ns = "" \/ o.namespace = ns)} :
            StartRequest("list", chosen)

NodeMetrics == \E o \in Objects : o.type = "node" /\ StartRequest("get", {o})
PodMetrics == \E o \in Objects : o.type = "pod" /\ StartRequest("get", {o})

\* List and Get of the storage do as the handlers do.
NodeStorage == NodeMetricsList \/ NodeMetrics
PodStorage == PodMetricsInNamespaceList \/ PodMetrics

\* A selector that cannot be parsed; a lister that fails.
RejectRequest(code) ==
    /\ listing.kind = "none"
    /\ listing' = [NoListing EXCEPT !.kind = "replied", !.code = code]
    /\ UNCHANGED <<now, storeVars>>

\* The next object, in the lister's order, with the batch that is now the latest.
NextObject(o) ==
    LET got == IF o.type = "node" THEN GetNodeMetrics(o, GetLatestDataBatch) ELSE GetPodMetrics(o, GetLatestDataBatch)
    IN  /\ o \in listing.todo
        /\ listing' = [listing EXCEPT !.todo = @ \ {o}, !.items = @ \cup got,
                                      !.skipped = IF got = {} THEN @ \cup {o} ELSE @]
        /\ UNCHANGED <<now, storeVars>>

\* The reply: a single object without metrics is not found.
ReplyListing ==
    /\ listing.kind \in {"list", "get"}
    /\ listing.todo = {}
    /\ listing' = [listing EXCEPT !.kind = "replied",
                                  !.code = IF listing.kind = "get" /\ listing.items = {} THEN 404 ELSE 200]
    /\ UNCHANGED <<now, storeVars>>

ForgetListing ==
    /\ listing.kind = "replied"
    /\ listing' = NoListing
    /\ UNCHANGED <<now, storeVars>>

ListingNext ==
    \/ NodeMetricsList \/ NodeMetrics \/ PodMetricsInNamespaceList \/ PodMetrics
    \/ NodeStorage \/ PodStorage
    \/ \E o \in Objects : NextObject(o)
    \/ \E code \in {400, 500} : RejectRequest(code)
    \/ ReplyListing \/ ForgetListing

\* What an export does to the history of a request.
SeenBy(request, t) == IF request.kind \in {"list", "get"} THEN [request EXCEPT !.during = @ \cup {t}] ELSE request

-----------------------------------------------------------------------------
\* A list, though its items may come from different batches, is whole: each item
\* has the usage of every container, all of one batch that was the latest while the
\* request was answered; and an object is left out only if such a batch lacked it.
PodMetricsWhole ==
    /\ \A i \in listing.items :
        /\ i.batch \in listing.during \ {0}
        /\ i.usage = UsageKeys(i.of)
        /\ \A k \in i.usage : \E s \in Batches[i.batch] :
            KeyOf(s) = k /\ "cpu/usage_rate" \in s.values /\ "memory/working_set" \in s.values
    /\ \A o \in listing.skipped :
        0 \in listing.during \/ \E b \in listing.during \ {0}, k \in UsageKeys(o) : ~ParseResourceList(b, k)
=============================================================================
