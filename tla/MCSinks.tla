------------------------------- MODULE MCSinks -------------------------------
EXTENDS Sinks

CONSTANTS k1, k2, k3

AllDrivers == EventDrivers \cup
    {"riemann", "opentsdb", "graphite", "statsd", "wavefront", "kafka", "librato", "honeycomb", "log",
     "elasticsearch", "gcm"}

Set(type, name, pod, node, ns) == [type |-> type, name |-> name, pod |-> pod, node |-> node, ns |-> ns]
SomeSets ==
    {Set("sys_container", "kubelet", "", "n1", ""), Set("sys_container", "kubelet", "", "n2", ""),
     Set("pod_container", "c", "p1", "n1", "x"), Set("node", "machine", "", "n1", "")}

SdSet(type, pod, name, collection, entity, metrics) ==
    [type |-> type, node |-> "n1", pod |-> pod, name |-> name, timestamp |-> 3, collection |-> collection,
     entity |-> entity, metrics |-> metrics, labeled |-> DOMAIN LegacyTranslateLabeledMetric]
Scraped == {"uptime", "cpu/usage", "memory/usage", "memory/working_set", "memory/page_faults",
            "memory/major_page_faults", "ephemeral_storage/usage"}
Spec1 == {"cpu/limit", "cpu/request", "memory/limit", "memory/request", "ephemeral_storage/limit",
          "ephemeral_storage/request", "nvidia.com/gpu/request", "restart_count"}
Network == {"network/rx", "network/tx"}
SomeSdSets ==
    {SdSet("node", "", "", 1, 0, Scraped \cup Network \cup FloatMetrics \cup {"memory/limit", "cpu/limit"}),
     SdSet("pod", "p1", "", 2, 0, Network \cup {"memory/limit"}), SdSet("pod", "p2", "", 3, 1, Network),
     SdSet("pod_container", "p1", "c", 2, 1, Scraped \cup Spec1),
     SdSet("pod_container", "p1", "d", 2, 0, (Scraped \ {"memory/usage"}) \cup Spec1),
     SdSet("pod_container", "p2", "c", 0, 1, Spec1),
     SdSet("sys_container", "", "kubelet", 1, 0, Scraped), SdSet("sys_container", "", "runtime", 1, 0, Scraped),
     SdSet("ns", "", "", 1, 0, {"cpu/limit"})}
=============================================================================
