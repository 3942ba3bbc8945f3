-------------------------- MODULE StackdriverSeries --------------------------
(***************************************************************************)
(* How ExportData of the Stackdriver sink turns a batch into requests:     *)
(* each metric of each metric set becomes at most one time series of the   *)
(* old resource model and one of the new.  Which series, of which resource,*)
(* over which interval and from which field of the value is decided by     *)
(* two large switches; what the server accepts under a name is fixed by a  *)
(* table of descriptors far away from them.                                *)
(***************************************************************************)
EXTENDS Naturals, Sequences, SequencesExt, FiniteSetsExt, TLC

CONSTANTS
    SdSets,         \* the metric sets a batch may have: type, node, pod, name
    MaxSeries       \* maxTimeseriesPerRequest, scaled down

VARIABLES
    sdPhase,        \* "off", "sets", "sent"
    sdModels,       \* useOldResourceModel and useNewResourceModel
    sdSets,         \* the metric sets not yet looked at
    series,         \* the time series of each set looked at
    req,            \* how many of them are in the request that is being filled
    sdRequests      \* how many each full request has

sdVars == <<sdPhase, sdModels, sdSets, series, req, sdRequests>>

-----------------------------------------------------------------------------
\* The descriptors (metadata.go): kind and type of the values under each name.
MD(kind, type, names) == [n \in names |-> [kind |-> kind, type |-> type]]

ContainerMD ==
    MD("GAUGE", "DOUBLE", {"container/uptime", "container/cpu/request_cores", "container/cpu/limit_cores"})
    @@ MD("CUMULATIVE", "DOUBLE", {"container/cpu/core_usage_time"})
    @@ MD("CUMULATIVE", "INT64", {"container/restart_count"})
    @@ MD("GAUGE", "INT64",
          {"container/memory/used_bytes", "container/memory/request_bytes", "container/memory/limit_bytes",
           "container/ephemeral_storage/used_bytes", "container/ephemeral_storage/request_bytes",
           "container/ephemeral_storage/limit_bytes", "container/accelerator/memory_total",
           "container/accelerator/memory_used", "container/accelerator/duty_cycle", "container/accelerator/request"})

PodMD ==
    MD("GAUGE", "INT64", {"pod/volume/used_bytes", "pod/volume/total_bytes"})
    @@ MD("CUMULATIVE", "INT64", {"pod/network/received_bytes_count", "pod/network/sent_bytes_count"})

NodeMD ==
    MD("CUMULATIVE", "DOUBLE", {"node/cpu/core_usage_time", "node_daemon/cpu/core_usage_time"})
    @@ MD("GAUGE", "DOUBLE", {"node/cpu/total_cores", "node/cpu/allocatable_cores"})
    @@ MD("CUMULATIVE", "INT64", {"node/network/received_bytes_count", "node/network/sent_bytes_count"})
    @@ MD("GAUGE", "INT64",
          {"node/memory/used_bytes", "node/memory/total_bytes", "node/memory/allocatable_bytes",
           "node/ephemeral_storage/used_bytes", "node/ephemeral_storage/total_bytes",
           "node/ephemeral_storage/allocatable_bytes", "node_daemon/memory/used_bytes"})

LegacyMD ==
    MD("CUMULATIVE", "DOUBLE", {"uptime", "cpu/usage_time"})
    @@ MD("GAUGE", "DOUBLE", {"cpu/reserved_cores"})
    @@ MD("CUMULATIVE", "INT64", {"network/received_bytes_count", "network/sent_bytes_count", "memory/page_fault_count"})
    @@ MD("GAUGE", "INT64",
          {"memory/bytes_total", "memory/bytes_used", "disk/bytes_used", "disk/bytes_total", "accelerator/memory_total",
           "accelerator/memory_used", "accelerator/duty_cycle", "accelerator/request"})

-----------------------------------------------------------------------------
\* A row of a switch: the name of the series; the constructor of its point and
\* the field of the value it is given; where its interval starts; its labels.
Row(md, point, field, start, labels) ==
    [md |-> md, point |-> point, field |-> field, start |-> start, labels |-> labels]
DoubleSince(md, start) == Row(md, "DOUBLE", "int", start, <<>>)
IntSince(md, start) == Row(md, "INT64", "int", start, <<>>)
IntAt(md) == IntSince(md, "timestamp")
IntWith(md, label) == Row(md, "INT64", "int", "timestamp", <<label>>)

LegacyTranslateMetric(type) ==
    ("uptime" :> DoubleSince("uptime", "collection"))
    @@ ("cpu/limit" :> DoubleSince("cpu/reserved_cores", "timestamp"))
    @@ ("cpu/usage" :> DoubleSince("cpu/usage_time", "collection"))
    @@ ("network/rx" :> IntSince("network/received_bytes_count", "collection"))
    @@ ("network/tx" :> IntSince("network/sent_bytes_count", "collection"))
    @@ (IF type = "node" THEN <<>> ELSE "memory/limit" :> IntAt("memory/bytes_total"))
    @@ ("memory/node_allocatable" :> IntAt("memory/bytes_total"))
    @@ ("memory/major_page_faults" :> Row("memory/page_fault_count", "INT64", "int", "collection", <<"major">>))
    @@ ("memory/minor_page_faults" :> Row("memory/page_fault_count", "INT64", "int", "collection", <<"minor">>))
    @@ ("memory/bytes_used" :> IntWith("memory/bytes_used", "evictable"))
    @@ ("memory/working_set" :> IntWith("memory/bytes_used", "non-evictable"))
    @@ ("nvidia.com/gpu/request" :> IntWith("accelerator/request", "nvidia.com/gpu"))

LegacyTranslateLabeledMetric ==
    ("filesystem/usage" :> IntWith("disk/bytes_used", "device"))
    @@ ("filesystem/limit" :> IntWith("disk/bytes_total", "device"))
    @@ ("accelerator/memory_total" :> IntWith("accelerator/memory_total", "device"))
    @@ ("accelerator/memory_used" :> IntWith("accelerator/memory_used", "device"))
    @@ ("accelerator/duty_cycle" :> IntWith("accelerator/duty_cycle", "device"))

TranslateContainerMetric ==
    ("uptime" :> DoubleSince("container/uptime", "timestamp"))
    @@ ("cpu/limit" :> DoubleSince("container/cpu/limit_cores", "timestamp"))
    @@ ("cpu/request" :> DoubleSince("container/cpu/request_cores", "timestamp"))
    @@ ("cpu/usage" :> DoubleSince("container/cpu/core_usage_time", "collection"))
    @@ ("memory/limit" :> IntAt("container/memory/limit_bytes"))
    @@ ("memory/bytes_used" :> IntWith("container/memory/used_bytes", "evictable"))
    @@ ("nvidia.com/gpu/request" :> IntWith("container/accelerator/request", "nvidia.com/gpu"))
    @@ ("memory/working_set" :> IntWith("container/memory/used_bytes", "non-evictable"))
    @@ ("memory/request" :> IntAt("container/memory/request_bytes"))
    @@ ("ephemeral_storage/limit" :> IntAt("container/ephemeral_storage/limit_bytes"))
    @@ ("ephemeral_storage/request" :> IntAt("container/ephemeral_storage/request_bytes"))
    @@ ("ephemeral_storage/usage" :> IntAt("container/ephemeral_storage/used_bytes"))
    @@ ("restart_count" :> IntSince("container/restart_count", "entity"))

TranslatePodMetric ==
    ("network/rx" :> IntSince("pod/network/received_bytes_count", "collection"))
    @@ ("network/tx" :> IntSince("pod/network/sent_bytes_count", "collection"))

TranslateNodeMetric ==
    ("cpu/node_capacity" :> Row("node/cpu/total_cores", "DOUBLE", "float", "timestamp", <<>>))
    @@ ("cpu/node_allocatable" :> Row("node/cpu/allocatable_cores", "DOUBLE", "float", "timestamp", <<>>))
    @@ ("cpu/usage" :> DoubleSince("node/cpu/core_usage_time", "collection"))
    @@ ("memory/node_capacity" :> Row("node/memory/total_bytes", "INT64", "float", "timestamp", <<>>))
    @@ ("memory/node_allocatable" :> Row("node/memory/allocatable_bytes", "INT64", "float", "timestamp", <<>>))
    @@ ("memory/bytes_used" :> IntWith("node/memory/used_bytes", "evictable"))
    @@ ("memory/working_set" :> IntWith("node/memory/used_bytes", "non-evictable"))
    @@ ("network/rx" :> IntSince("node/network/received_bytes_count", "collection"))
    @@ ("network/tx" :> IntSince("node/network/sent_bytes_count", "collection"))
    @@ ("ephemeral_storage/node_capacity" :> IntAt("node/ephemeral_storage/total_bytes"))

\* Mutant: the component is left out, as for the node's own metrics.
TranslateSystemContainerMetricAlone(name) ==
    ("memory/bytes_used" :>
        Row("node_daemon/memory/used_bytes", "INT64", "int", "timestamp", <<"evictable">>))
    @@ ("memory/working_set" :>
        Row("node_daemon/memory/used_bytes", "INT64", "int", "timestamp", <<"non-evictable">>))
    @@ ("cpu/usage" :> Row("node_daemon/cpu/core_usage_time", "DOUBLE", "int", "collection", <<"">>))

TranslateSystemContainerMetric(name) ==
    ("memory/bytes_used" :>
        Row("node_daemon/memory/used_bytes", "INT64", "int", "timestamp", <<name, "evictable">>))
    @@ ("memory/working_set" :>
        Row("node_daemon/memory/used_bytes", "INT64", "int", "timestamp", <<name, "non-evictable">>))
    @@ ("cpu/usage" :> Row("node_daemon/cpu/core_usage_time", "DOUBLE", "int", "collection", <<name>>))

TranslateMetric(set) ==
    CASE set.type = "pod_container" -> TranslateContainerMetric
      [] set.type = "pod" -> TranslatePodMetric
      [] set.type = "node" -> TranslateNodeMetric
      [] set.type = "sys_container" -> TranslateSystemContainerMetric(set.name)
      [] OTHER -> <<>>

TranslateLabeledMetric(type) ==
    CASE type = "pod" ->
            ("filesystem/usage" :> IntWith("pod/volume/used_bytes", "device"))
            @@ ("filesystem/limit" :> IntWith("pod/volume/total_bytes", "device"))
      [] type = "pod_container" ->
            ("accelerator/memory_total" :> IntWith("container/accelerator/memory_total", "device"))
            @@ ("accelerator/memory_used" :> IntWith("container/accelerator/memory_used", "device"))
            @@ ("accelerator/duty_cycle" :> IntWith("container/accelerator/duty_cycle", "device"))
      [] OTHER -> <<>>

-----------------------------------------------------------------------------
\* The labels of the monitored resource.  In the old model nodes, pods and
\* containers are one resource, told apart by the name of the container.
LegacyGetResourceLabels(set) ==
    <<set.node, set.pod, IF set.type = "node" THEN "machine" ELSE set.name>>
GetContainerResourceLabels(set) == <<set.pod, set.name>>
GetPodResourceLabels(set) == <<set.pod>>
GetNodeResourceLabels(set) == <<set.node>>

\* createTimeSeries and intPoint or doublePoint.
CreateTimeSeries(resource, labels, set, row, metric) ==
    [resource |-> <<resource, labels>>, name |-> row.md, labels |-> row.labels, type |-> row.point,
     metric |-> metric, field |-> row.field,
     start |-> CASE row.start = "timestamp" -> set.timestamp [] row.start = "collection" -> set.collection
                 [] OTHER -> set.entity,
     end |-> set.timestamp]

NewResource(set) ==
    CASE set.type = "pod_container" -> <<"k8s_container", GetContainerResourceLabels(set)>>
      [] set.type = "pod" -> <<"k8s_pod", GetPodResourceLabels(set)>>
      [] OTHER -> <<"k8s_node", GetNodeResourceLabels(set)>>

\* computeDerivedMetrics.
ComputeDerivedMetrics(set) ==
    (IF {"memory/usage", "memory/working_set"} \subseteq set.metrics THEN {"memory/bytes_used"} ELSE {})
    \cup (IF {"memory/page_faults", "memory/major_page_faults"} \subseteq set.metrics
          THEN {"memory/minor_page_faults"} ELSE {})

\* The series of the metrics for which a table has a row, in some order.
Series(resource, labels, set, table, metrics) ==
    LET rows == table
    IN {CreateTimeSeries(resource, labels, set, rows[m], m) :
           m \in {n \in metrics \cap DOMAIN rows : rows[n].start = "entity" => set.entity # 0}}

\* Both switches leave out a set whose collection began at the timestamp or later.
ProcessMetrics(set, metrics) ==
    IF set.collection >= set.timestamp THEN {}
    ELSE (IF sdModels.old
          THEN Series("gke_container", LegacyGetResourceLabels(set), set, LegacyTranslateMetric(set.type), metrics)
          ELSE {})
         \cup (IF sdModels.new
               THEN Series(NewResource(set)[1], NewResource(set)[2], set, TranslateMetric(set), metrics) ELSE {})

ProcessLabeledMetrics(set) ==
    (IF sdModels.old
     THEN Series("gke_container", LegacyGetResourceLabels(set), set, LegacyTranslateLabeledMetric, set.labeled) ELSE {})
    \cup (IF sdModels.new
          THEN Series(NewResource(set)[1], NewResource(set)[2], set, TranslateLabeledMetric(set.type), set.labeled)
          ELSE {})

\* Only sets of four types, and with a collection start time.
Exported(set) ==
    IF set.type \notin {"node", "pod", "pod_container", "sys_container"} \/ set.collection = 0 THEN {}
    ELSE ProcessMetrics(set, set.metrics \cup ComputeDerivedMetrics(set)) \cup ProcessLabeledMetrics(set)

-----------------------------------------------------------------------------
SdOff ==
    /\ sdPhase = "off" /\ sdModels = [old |-> FALSE, new |-> FALSE]
    /\ sdSets = {} /\ series = <<>> /\ req = 0 /\ sdRequests = <<>>

SdInit ==
    /\ sdPhase = "sets" /\ sdModels \in [old : BOOLEAN, new : BOOLEAN]
    /\ sdSets \in SUBSET SdSets /\ series = <<>> /\ req = 0 /\ sdRequests = <<>>

\* One iteration over dataBatch.MetricSets: a request that has MaxSeries series is
\* full and another is begun.  The order of the sets and of their metrics decides
\* only which series share a request, so one order of the sets stands for all.
ExportSet ==
    /\ sdPhase = "sets" /\ sdSets # {}
    /\ LET set == CHOOSE x \in sdSets : TRUE
           n == req + Cardinality(Exported(set))
       IN /\ sdSets' = sdSets \ {set}
          /\ series' = Append(series, Exported(set))
          /\ sdRequests' = sdRequests \o [i \in 1 .. n \div MaxSeries |-> MaxSeries]
          /\ req' = n % MaxSeries
    /\ UNCHANGED <<sdPhase, sdModels>>

\* What is left is a request too; the requests are handed to sendRequests.
SendRequests ==
    /\ sdPhase = "sets" /\ sdSets = {}
    /\ sdPhase' = "sent" /\ req' = 0
    /\ sdRequests' = IF req = 0 THEN sdRequests ELSE Append(sdRequests, req)
    /\ UNCHANGED <<sdModels, sdSets, series>>

SdNext == ExportSet \/ SendRequests

-----------------------------------------------------------------------------
AllSeries == UNION ToSet(series)

NewMD == ContainerMD @@ PodMD @@ NodeMD

\* The descriptor that the server holds for the name of a series.
Descriptor(s) == IF s.resource[1] = "gke_container" THEN LegacyMD[s.name] ELSE NewMD[s.name]

\* The node autoscaling enricher stores these values as floats.
FloatMetrics ==
    {"cpu/node_capacity", "cpu/node_allocatable", "memory/node_capacity", "memory/node_allocatable",
     "ephemeral_storage/node_capacity"}

\* A series of the batch is written once: the server refuses two points for the
\* same resource, name and labels.  The point of every series is one that its
\* descriptor allows: the value has its type; a cumulative value covers a stretch of
\* time, a gauge an instant; and the value is read from the field in which the metric
\* is stored, except for the two node metrics that the sink takes for integers and so
\* exports as zero.
SeriesAcceptable ==
    sdPhase = "sent" =>
        /\ LET Ids(i) == {<<s.resource, s.name, s.labels>> : s \in series[i]}
           IN \A i, j \in DOMAIN series : /\ Cardinality(Ids(i)) = Cardinality(series[i])
                                          /\ i # j => Ids(i) \cap Ids(j) = {}
        /\ \A s \in AllSeries :
            LET descriptor == Descriptor(s)
            IN /\ s.type = descriptor.type
               /\ IF descriptor.kind = "GAUGE" THEN s.start = s.end ELSE s.start \in 1 .. (s.end - 1)
               /\ \/ s.field = (IF s.metric \in FloatMetrics THEN "float" ELSE "int")
                  \/ s.name \in {"memory/bytes_total", "node/ephemeral_storage/total_bytes"}
=============================================================================
