----------------------------- MODULE MetricSink ------------------------------
(***************************************************************************)
(* The in-memory metric sink behind heapster's APIs                        *)
(* (metrics/sinks/metric/metric_sink.go): the queries that API handlers    *)
(* make of its stores (MetricStores), under the lock that ExportData takes *)
(* too.                                                                    *)
(*                                                                         *)
(* Batches gives the metric sets of a batch, each with its labels, the     *)
(* names of its values and of its labeled values.  A value is known by     *)
(* where it is: its batch, its set and its name.                           *)
(***************************************************************************)
EXTENDS CoreMetrics, MetricStores

CONSTANTS
    LongMetrics,    \* the metrics kept in the long store
    Batches         \* the metric sets of the batch of each timestamp

ASSUME BatchesAssumption ==
    /\ DOMAIN Batches = Timestamps
    /\ \A t \in Timestamps : \A s \in Batches[t] :
        DOMAIN s = {"type", "nodename", "hostname", "namespace", "pod", "container", "id", "values", "labeled"}

\* The keys of metric sets, as the sources and the aggregators form them.
KeyOf(s) ==
    CASE s.type = "pod_container" -> PodContainerKey(s.namespace, s.pod, s.container)
      [] s.type = "pod" -> PodKey(s.namespace, s.pod)
      [] s.type = "ns" -> NamespaceKey(s.namespace)
      [] s.type = "node" -> NodeKey(s.nodename)
      [] s.type = "sys_container" -> NodeContainerKey(s.nodename, s.container)
      [] s.type = "cluster" -> ClusterKey

\* The metric sets of each batch by their keys.
MetricSets == [t \in Timestamps |->
    [k \in {KeyOf(s) : s \in Batches[t]} |-> CHOOSE s \in Batches[t] : KeyOf(s) = k]]
Holds(t, k, m) == k \in DOMAIN MetricSets[t] /\ m \in MetricSets[t][k].values

\* GetMetric: the timestamps of the values of metric m under key k from start
\* to end, both included, in the order of the store that keeps m.
GetMetric(m, k, start, end) ==
    LET InRange(t) == t >= start /\ t <= end /\ Holds(t, k, m)
    IN  SelectSeq(IF m \in LongMetrics THEN longStore ELSE shortStore, InRange)

\* Mutant: the values of the labels are not compared.
GetLabeledMetricAny(store, m, labels, k, start, end) ==
    SelectSeq(store, LAMBDA t :
        t >= start /\ t <= end /\ k \in DOMAIN MetricSets[t] /\ \E l \in MetricSets[t][k].labeled : l[1] = m)

\* GetLabeledMetric, with exactly the given labels and only from the short store,
\* as read without the lock.
GetLabeledMetric(store, m, labels, k, start, end) ==
    SelectSeq(store, LAMBDA t :
        t >= start /\ t <= end /\ k \in DOMAIN MetricSets[t] /\ <<m, labels>> \in MetricSets[t][k].labeled)

\* The slices such a reader can see while ExportData replaces one by another: the
\* pointer of one may come with the length of the other.  Past the end it reads what
\* lies there in memory: a batch of some export, or anything else (0), which is
\* undefined.
Torn(old, new) ==
    LET Past(n) == [1 .. n -> {0} \cup {exports[i][1] : i \in DOMAIN exports}]
        Slices(s, n) == IF n <= Len(s) THEN {SubSeq(s, 1, n)} ELSE {s \o m : m \in Past(n - Len(s))}
    IN  UNION {Slices(s, Len(r)) : s, r \in {old, new}}

GetMetricNames(k) ==
    UNION {MetricSets[t][k].values : t \in {x \in Range(shortStore) : k \in DOMAIN MetricSets[x]}}

\* GetLatestDataBatch, which is nil (here 0) of an empty store, and GetShortStore.
GetLatestDataBatch == IF shortStore = << >> THEN 0 ELSE shortStore[Len(shortStore)]
GetShortStore == Range(shortStore)

\* getAllNames ranges over the sets of the last batch and picks, for the listings,
\* a label of those whose other labels are as given.
LatestSets == IF shortStore = << >> THEN {} ELSE Batches[GetLatestDataBatch]
GetAllNames(given, label) == {s[label] : s \in {x \in LatestSets : \A l \in DOMAIN given : l \in DOMAIN x /\ x[l] = given[l]}}
GetMetricSetKeys == {KeyOf(s) : s \in LatestSets}
GetNodes == GetAllNames([type |-> "node"], "hostname")
GetNamespaces == GetAllNames([type |-> "ns"], "namespace")
GetPodsFromNamespace(ns) == GetAllNames([type |-> "pod", namespace |-> ns], "pod")
GetContainersForPodFromNamespace(ns, pod) ==
    GetAllNames([type |-> "pod_container", namespace |-> ns, pod |-> pod], "container")
GetSystemContainersFromNode(node) == GetAllNames([type |-> "sys_container", hostname |-> node], "container")
=============================================================================
