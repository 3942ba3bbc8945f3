----------------------------- MODULE Processors ------------------------------
(***************************************************************************)
(* The processors that enrich and aggregate a batch (metrics/processors),  *)
(* in the order createDataProcessorsOrDie puts them after the rate         *)
(* calculator: pods, namespaces, then the aggregators from containers up   *)
(* to the cluster, then the nodes' capacity.  Each of them ranges over the *)
(* map of metric sets, which Go does in any order, and adds the sets it    *)
(* makes to the batch when it is through.  Meanwhile the pod lister's      *)
(* reflector may add or remove a pod.                                      *)
(*                                                                         *)
(* There is one node.  A metric set is abstracted to the metrics that the  *)
(* processors treat differently, and to two of the labels they copy.  A    *)
(* metric has the same value type in every set, as the sources report it,  *)
(* so aggregate never meets two types; a container's set names its pod and *)
(* namespace; and the listers answer from caches, without errors.          *)
(***************************************************************************)
EXTENDS Integers, FiniteSets, Functions

CONSTANTS
    Pods,           \* pods, as <<namespace, name>>
    Reportable,     \* the containers that a source may report, <<pod, name>>
    Declared,       \* the containers of the pods' specs, <<pod, name>>
    Usage,          \* the usage a source reports under a key
    Request,        \* the request of each declared container
    NamespaceStore, \* the namespaces in the namespace enricher's store
    Allocatable     \* what a node's status may say it can allocate

\* PodContainerKey, PodKey, NamespaceKey, NodeKey and ClusterKey.
ContainerKey(c) == <<"container", c>>
PodKey(p) == <<"pod", p>>
NamespaceKey(p) == <<"namespace", p[1]>>
NodeKey == <<"node", 0>>
ClusterKey == <<"cluster", 0>>

ScrapedKeys == {ContainerKey(c) : c \in Reportable} \cup {PodKey(p) : p \in Pods} \cup {NodeKey}
Keys == ScrapedKeys \cup {ContainerKey(c) : c \in Declared}
            \cup {NamespaceKey(p) : p \in Pods} \cup {ClusterKey}

\* Every container is one of some pod's, and no figure is negative.
ASSUME ProcessorsAssumption ==
    /\ IsFiniteSet(Pods) /\ IsFiniteSet(Reportable) /\ IsFiniteSet(Declared)
    /\ \A c \in Reportable \cup Declared : c[1] \in Pods
    /\ \A k \in ScrapedKeys : Usage[k] \in Nat
    /\ \A c \in Declared : Request[c] \in Nat

\* The pod of a pod's or a container's metric set.
PodOf(k) == IF k[1] = "pod" THEN k[2] ELSE k[2][1]

\* "usage" stands for the gauges a source reports, "total" for the cumulative
\* metrics, "request" for the requests and limits that the enricher sets.
Metrics == {"usage", "total", "request"}
None == -1

NoSet == [absent |-> TRUE]

\* A metric set: its values, whether it has the label nodename, and whether it
\* has the label namespace_id.
EmptySet(node, uid) == [values |-> [m \in Metrics |-> None], node |-> node, uid |-> uid]

Has(sets, k) == sets[k] # NoSet
KeysOf(sets, types) == {k \in Keys : Has(sets, k) /\ k[1] \in types}
NoSets == [k \in Keys |-> NoSet]

VARIABLES
    stage,       \* the processor that runs
    todo,        \* the keys it still has to range over
    batch,       \* batch.MetricSets
    made,        \* the sets it has made: newMs, newPods, namespaces, cluster
    required,    \* requireAggregate of the pod aggregator
    podLister,   \* the pods the pod lister knows
    changed,     \* history: the pods that the lister learnt or forgot meanwhile
    allocatable, \* of the node in the node lister, None if it is not there
    ratio,       \* the utilization and reservation the node is given, or NoSet
    reported     \* history: the batch as it was scraped

vars == <<stage, todo, batch, made, required, podLister, changed, allocatable,
          ratio, reported>>

Init ==
    /\ stage = "podEnricher"
    /\ \E withSet \in SUBSET ScrapedKeys : \E silent \in SUBSET (withSet \ {NodeKey}) :
          batch = [k \in Keys |->
            IF k \notin withSet THEN NoSet
            ELSE [EmptySet(TRUE, FALSE) EXCEPT
                    !.values["usage"] = IF k \in silent THEN None ELSE Usage[k],
                    !.values["total"] = IF k \in silent THEN None ELSE Usage[k]]]
    /\ todo = KeysOf(batch, {"pod", "container"})
    /\ made = NoSets
    /\ required = {}
    /\ podLister \in SUBSET Pods
    /\ changed = {}
    /\ allocatable \in Allocatable \cup {None}
    /\ ratio = NoSet
    /\ reported = batch

\* One turn of a processor's range over the sets it does not skip.
Turn(s, k) ==
    /\ stage = s
    /\ k \in todo
    /\ todo' = todo \ {k}
    /\ UNCHANGED <<stage, podLister, changed, allocatable, ratio, reported>>

\* The end of the range: what was made goes into the batch, and the next
\* processor begins with its own maps.
Finish(s, next, types) ==
    /\ stage = s
    /\ todo = {}
    /\ stage' = next
    /\ batch' = [k \in Keys |-> IF Has(made, k) THEN made[k] ELSE batch[k]]
    /\ todo' = KeysOf(batch', types)
    /\ made' = NoSets
    /\ required' = {}
    /\ UNCHANGED <<podLister, changed, allocatable, ratio, reported>>

-----------------------------------------------------------------------------
\* PodBasedEnricher

\* The stubs addPodInfo makes for the declared containers of p that neither the
\* batch nor newMs holds, with the requests of updateContainerResourcesAndLimits.
StubContainers(p, node, sets) ==
    LET missing == {c \in Declared : c[1] = p /\ ~Has(batch, ContainerKey(c))
                                              /\ ~Has(sets, ContainerKey(c))}
    IN  [k \in Keys |-> IF k \in {ContainerKey(c) : c \in missing}
                        THEN [EmptySet(node, FALSE) EXCEPT !.values["request"] = Request[k[2]]]
                        ELSE sets[k]]

AddPodInfo(k) ==
    /\ made' = StubContainers(PodOf(k), batch[k].node, made)
    /\ UNCHANGED batch

\* Mutant of AddContainerInfo: the pod's stub is made without its other containers.
AddContainerInfoOnly(k) ==
    LET pod == PodKey(PodOf(k))
    IN  /\ batch' = [batch EXCEPT ![k].values["request"] =
                        IF k[2] \in Declared THEN Request[k[2]] ELSE @]
        /\ made' = IF Has(batch, pod) \/ Has(made, pod)
                   THEN made ELSE [made EXCEPT ![pod] = EmptySet(batch[k].node, FALSE)]

AddContainerInfo(k) ==
    LET pod == PodKey(PodOf(k))
    IN  /\ batch' = [batch EXCEPT ![k].values["request"] =
                        IF k[2] \in Declared THEN Request[k[2]] ELSE @]
        /\ made' = IF Has(batch, pod) \/ Has(made, pod)
                   THEN made
                   ELSE StubContainers(PodOf(k), batch[k].node,
                                       [made EXCEPT ![pod] = EmptySet(batch[k].node, FALSE)])

EnrichPod(k) ==
    /\ Turn("podEnricher", k)
    /\ \/ PodOf(k) \in podLister /\ k[1] = "pod" /\ AddPodInfo(k)
       \/ PodOf(k) \in podLister /\ k[1] = "container" /\ AddContainerInfo(k)
       \/ PodOf(k) \notin podLister /\ UNCHANGED <<batch, made>>
    /\ UNCHANGED required

\* The reflector of the pod lister adds or deletes a pod while the enricher
\* ranges, any number of times.
WatchPod(p) ==
    /\ stage = "podEnricher"
    /\ changed' = changed \cup {p}
    /\ podLister' = IF p \in podLister THEN podLister \ {p} ELSE podLister \cup {p}
    /\ UNCHANGED <<stage, todo, batch, made, required, allocatable, ratio, reported>>

-----------------------------------------------------------------------------
\* NamespaceBasedEnricher looks at every set on its own, so it is one step.

NamespaceOf(k) == IF k[1] = "namespace" THEN k[2] ELSE PodOf(k)[1]

EnrichNamespace ==
    /\ stage = "namespaceEnricher"
    /\ stage' = "podAggregator"
    /\ batch' = [k \in Keys |->
          IF k \in KeysOf(batch, {"container", "pod", "namespace"}) /\ NamespaceOf(k) \in NamespaceStore
          THEN [batch[k] EXCEPT !.uid = TRUE]
          ELSE batch[k]]
    /\ todo' = KeysOf(batch', {"container"})
    /\ UNCHANGED <<made, required, podLister, changed, allocatable, ratio, reported>>

-----------------------------------------------------------------------------
\* PodAggregator

\* podMetricSet: LabelsToPopulate has namespace_id but not nodename.
PodMetricSet(container) == EmptySet(FALSE, container.uid)

SkippedMetrics == {"total"}

\* Mutant of AggregatedValues: requireAggregate is not asked.
AggregatedValuesAlways(pod, container, key) ==
    [m \in Metrics |->
        CASE m \in SkippedMetrics \/ container.values[m] = None -> pod.values[m]
          [] OTHER -> IF pod.values[m] = None THEN container.values[m]
                      ELSE pod.values[m] + container.values[m]]

\* The values of a pod once those of one container are added: a metric that the
\* pod had before the range stays as it was.
AggregatedValues(pod, container, key) ==
    [m \in Metrics |->
        CASE m \in SkippedMetrics \/ container.values[m] = None -> pod.values[m]
          [] OTHER -> IF pod.values[m] = None THEN container.values[m]
                      ELSE IF <<key, m>> \in required THEN pod.values[m] + container.values[m]
                      ELSE pod.values[m]]

AggregatePod(k) ==
    LET key == PodKey(PodOf(k))
        pod == IF Has(batch, key) THEN batch[key]
               ELSE IF Has(made, key) THEN made[key] ELSE PodMetricSet(batch[k])
        new == [pod EXCEPT !.values = AggregatedValues(pod, batch[k], key)]
    IN  /\ Turn("podAggregator", k)
        /\ batch' = IF Has(batch, key) THEN [batch EXCEPT ![key] = new] ELSE batch
        /\ made' = IF Has(batch, key) THEN made ELSE [made EXCEPT ![key] = new]
        /\ required' = required \cup
              {<<key, m>> : m \in {n \in Metrics : pod.values[n] = None /\ new.values[n] # None}}

-----------------------------------------------------------------------------
\* NamespaceAggregator, NodeAggregator and ClusterAggregator

\* aggregate
Aggregate(src, dst, metrics) ==
    [dst EXCEPT !.values = [m \in Metrics |->
        IF m \notin metrics \/ src.values[m] = None THEN dst.values[m]
        ELSE IF dst.values[m] = None THEN src.values[m]
        ELSE dst.values[m] + src.values[m]]]

\* No source reports a namespace: the set is the one made in this range.
AggregateNamespace(k) ==
    LET key == NamespaceKey(PodOf(k))
        namespace == IF Has(made, key) THEN made[key] ELSE EmptySet(FALSE, batch[k].uid)
    IN  /\ Turn("namespaceAggregator", k)
        /\ made' = [made EXCEPT ![key] = Aggregate(batch[k], namespace, {"usage", "request"})]
        /\ UNCHANGED <<batch, required>>

AggregateNode(k) ==
    /\ Turn("nodeAggregator", k)
    /\ batch' = IF batch[k].node /\ Has(batch, NodeKey)
                THEN [batch EXCEPT ![NodeKey] = Aggregate(batch[k], @, {"request"})]
                ELSE batch
    /\ UNCHANGED <<made, required>>

AggregateCluster(k) ==
    LET cluster == IF Has(made, ClusterKey) THEN made[ClusterKey] ELSE EmptySet(FALSE, FALSE)
    IN  /\ Turn("clusterAggregator", k)
        /\ made' = [made EXCEPT ![ClusterKey] =
                        Aggregate(batch[k], cluster, {"usage", "request"})]
        /\ UNCHANGED <<batch, required>>

\* The cluster's set is put into the batch even when it is empty.
FinishCluster ==
    /\ stage = "clusterAggregator"
    /\ todo = {}
    /\ stage' = "autoscalingEnricher"
    /\ batch' = [batch EXCEPT ![ClusterKey] =
                    IF Has(made, ClusterKey) THEN made[ClusterKey] ELSE EmptySet(FALSE, FALSE)]
    /\ made' = NoSets
    /\ UNCHANGED <<todo, required, podLister, changed, allocatable, ratio, reported>>

-----------------------------------------------------------------------------
\* NodeAutoscalingEnricher

\* getInt: zero for a metric that the set does not have.
GetInt(set, m) == IF set.values[m] = None THEN 0 ELSE set.values[m]

EnrichNode ==
    /\ stage = "autoscalingEnricher"
    /\ stage' = "done"
    /\ ratio' = IF allocatable = None \/ ~Has(batch, NodeKey) \/ allocatable = 0
                THEN NoSet
                ELSE [used |-> GetInt(batch[NodeKey], "usage"),
                      requested |-> GetInt(batch[NodeKey], "request"), of |-> allocatable]
    /\ UNCHANGED <<todo, batch, made, required, podLister, changed, allocatable,
                   reported>>

Done ==
    /\ stage = "done"
    /\ UNCHANGED vars

Next ==
    \/ \E k \in Keys : \/ EnrichPod(k) \/ AggregatePod(k) \/ AggregateNamespace(k)
                       \/ AggregateNode(k) \/ AggregateCluster(k)
    \/ \E p \in Pods : WatchPod(p)
    \/ Finish("podEnricher", "namespaceEnricher", {})
    \/ EnrichNamespace
    \/ Finish("podAggregator", "namespaceAggregator", {"pod"})
    \/ Finish("namespaceAggregator", "nodeAggregator", {"pod"})
    \/ Finish("nodeAggregator", "clusterAggregator", {"namespace"})
    \/ FinishCluster
    \/ EnrichNode
    \/ Done

Spec == Init /\ [][Next]_vars
-----------------------------------------------------------------------------
\* The reference definitions, from the scraped batch and the pods' specs alone.

Used(k) == Has(reported, k) /\ reported[k].values["usage"] # None

\* A pod's usage is its own if it was reported, else its containers'.
PodUsage(p) ==
    LET used == {c \in Reportable : c[1] = p /\ Used(ContainerKey(c))}
    IN  IF Used(PodKey(p)) THEN Usage[PodKey(p)]
        ELSE SumFunctionOnSet([c \in used |-> Usage[ContainerKey(c)]], used)

Seen(p) == \E k \in KeysOf(reported, {"pod", "container"}) : PodOf(k) = p
Requests(S) == SumFunctionOnSet(Request, {c \in Declared : c[1] \in S})

\* Usage is counted once on its way up: whatever the order of the ranges, and
\* whatever the pod lister does meanwhile, the cluster's usage is the sum over
\* the pods of the pod's own figure or, failing that, of its containers'.
UsageCountedOnce ==
    stage = "done" =>
        GetInt(batch[ClusterKey], "usage") = SumFunctionOnSet([p \in Pods |-> PodUsage(p)], Pods)

\* The requests of a namespace's pods reach the cluster in full: every declared
\* container of a pod that was seen and that the lister knew throughout the
\* round counts, reported or not, a pod the lister never knew counts for nothing,
\* and one that came or went meanwhile counts at most once.
RequestsComplete ==
    stage = "done" =>
        LET known == {p \in podLister \ changed : Seen(p)}
            unsure == {p \in changed : Seen(p)}
            total == GetInt(batch[ClusterKey], "request")
        IN  /\ Requests(known) <= total
            /\ total <= Requests(known \cup unsure)

=============================================================================
