----------------------------- MODULE CoreMetrics -----------------------------
(***************************************************************************)
(* The metrics of metrics/core/metrics.go: for each the name, the type and *)
(* the type of value that its descriptor declares, the lists they form,    *)
(* and what a container's cadvisor spec and sample say of each.  Keys of   *)
(* metric sets (metrics/core/ms_keys.go) are tuples.                       *)
(***************************************************************************)
EXTENDS Naturals, Sequences, FiniteSets

Described(names, type, value) == {[name |-> n, type |-> type, value |-> value] : n \in names}

\* Standard metrics, by the part of a cadvisor spec that says a container has them.
UptimeMetrics == Described({"uptime"}, "cumulative", "int")
CpuStandardMetrics ==
    Described({"cpu/load"}, "gauge", "int") \cup Described({"cpu/usage"}, "cumulative", "int")
EphemeralStorageUsage == Described({"ephemeral_storage/usage"}, "gauge", "int")
MemoryStandardMetrics ==
    Described({"memory/usage", "memory/cache", "memory/rss", "memory/working_set"}, "gauge", "int")
        \cup Described({"memory/page_faults", "memory/major_page_faults"}, "cumulative", "int")
NetworkStandardMetrics ==
    Described({"network/rx", "network/rx_errors", "network/tx", "network/tx_errors"}, "cumulative", "int")
StandardMetrics ==
    UptimeMetrics \cup CpuStandardMetrics \cup EphemeralStorageUsage
        \cup MemoryStandardMetrics \cup NetworkStandardMetrics

\* Requests and limits; rates; the metrics of nodes.
AdditionalMetrics ==
    Described({"cpu/request", "cpu/limit", "memory/request", "memory/limit",
               "ephemeral_storage/request", "ephemeral_storage/limit"}, "gauge", "int")
RateMetrics ==
    Described({"cpu/usage_rate"}, "gauge", "int")
        \cup Described({"memory/page_faults_rate", "memory/major_page_faults_rate", "network/rx_rate",
                        "network/rx_errors_rate", "network/tx_rate", "network/tx_errors_rate"}, "gauge", "float")
NodeAutoscalingMetrics ==
    Described({"cpu/node_capacity", "memory/node_capacity", "ephemeral_storage/node_capacity",
               "cpu/node_allocatable", "memory/node_allocatable", "ephemeral_storage/node_allocatable",
               "cpu/node_utilization", "memory/node_utilization", "ephemeral_storage/node_utilization",
               "cpu/node_reservation", "memory/node_reservation",
               "ephemeral_storage/node_reservation"}, "gauge", "float")

\* Labeled metrics.
FilesystemBytes == Described({"filesystem/usage", "filesystem/limit", "filesystem/available"}, "gauge", "int")
FilesystemInodes == Described({"filesystem/inodes", "filesystem/inodes_free"}, "gauge", "int")
AcceleratorMetrics ==
    Described({"accelerator/memory_total", "accelerator/memory_used", "accelerator/duty_cycle"}, "gauge", "int")
DiskIO == Described({"disk/io_read_bytes", "disk/io_write_bytes"}, "cumulative", "int")
DiskIORates == Described({"disk/io_read_bytes_rate", "disk/io_write_bytes_rate"}, "gauge", "float")
LabeledMetrics == DiskIO \cup DiskIORates \cup FilesystemBytes \cup FilesystemInodes \cup AcceleratorMetrics

Descriptors ==
    StandardMetrics \cup AdditionalMetrics \cup RateMetrics \cup LabeledMetrics \cup NodeAutoscalingMetrics

\* HasValue and GetValue of the standard metrics: each value carries its
\* descriptor's types.  Nothing of cadvisor gives the ephemeral storage.
GetValues(spec) ==
    UNION {IF spec.created THEN UptimeMetrics ELSE {},
           IF "cpu" \in spec.has THEN CpuStandardMetrics ELSE {},
           IF "memory" \in spec.has THEN MemoryStandardMetrics ELSE {},
           IF "network" \in spec.has THEN NetworkStandardMetrics ELSE {}}

On(device, metrics) == {<<m, device>> : m \in metrics}

\* HasLabeledMetric and GetLabeledMetric: a value per file system, accelerator or
\* partition of the sample.
GetFilesystem(spec) ==
    IF "filesystem" \notin spec.has THEN {}
    ELSE UNION {On(fs.device, IF fs.inodes THEN FilesystemBytes \cup FilesystemInodes ELSE FilesystemBytes) :
                   fs \in spec.filesystems}
GetAccelerators(spec) == UNION {On(a, AcceleratorMetrics) : a \in spec.accelerators}

\* Values of disk I/O say "gauge" where their descriptors say "cumulative".  A
\* partition without a device name is named by its numbers.
GetDiskIO(spec) ==
    IF "diskio" \notin spec.has THEN {}
    ELSE UNION {On(IF p.device = "" THEN p.numbers ELSE p.device, {[m EXCEPT !.type = "gauge"] : m \in DiskIO}) :
                   p \in spec.partitions}

PodContainerKey(ns, pod, c) == <<"namespace", ns, "pod", pod, "container", c>>
PodKey(ns, pod) == <<"namespace", ns, "pod", pod>>
NodeKey(node) == <<"node", node>>
NodeContainerKey(node, c) == <<"node", node, "container", c>>
NamespaceKey(ns) == <<"namespace", ns>>
ClusterKey == <<"cluster">>
=============================================================================
