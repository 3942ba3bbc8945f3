---------------------------- MODULE SummarySource ----------------------------
(***************************************************************************)
(* The "kubernetes.summary_api" source (metrics/sources/summary): how a    *)
(* kubelet's summary becomes metric sets.                                  *)
(*                                                                         *)
(* A section of a summary is Nil or a record: the time of its sample (0:   *)
(* none) and the names of the metrics whose pointers are set.              *)
(***************************************************************************)
EXTENDS CoreMetrics, RangeLoop, Functions

Nil == [time |-> 0, has |-> {"nil"}]

\* Values that are nil are skipped.
AddIntMetrics(metrics, section) == {m \in metrics : m.name \in section.has}
AddLabeledIntMetrics(metrics, device, section) == On(device, AddIntMetrics(metrics, section))

DecodeUptime(started) == IF started = 0 THEN {} ELSE UptimeMetrics
DecodeCPUStats(cpu) == AddIntMetrics({m \in CpuStandardMetrics : m.name = "cpu/usage"}, cpu)
DecodeMemoryStats(memory) == AddIntMetrics({m \in MemoryStandardMetrics : m.name # "memory/cache"}, memory)
DecodeNetworkStats(network) == AddIntMetrics(NetworkStandardMetrics, network)
DecodeFsStats(device, fs) == AddLabeledIntMetrics(FilesystemBytes \cup FilesystemInodes, device, fs)
DecodeAcceleratorStats(accelerators) == UNION {On(a, AcceleratorMetrics) : a \in accelerators}
DecodeEphemeralStorageStats(fs) == IF "filesystem/usage" \in fs.has THEN EphemeralStorageUsage ELSE {}

\* The used bytes of both file systems are read without a look whether they are set.
DecodeEphemeralStorageStatsForContainer(rootfs, logs) ==
    IF rootfs = Nil \/ logs = Nil THEN {} ELSE EphemeralStorageUsage
UsageMissing(c) ==
    c.rootfs # Nil /\ c.logs # Nil /\ ~("filesystem/usage" \in c.rootfs.has \cap c.logs.has)

DecodeUserDefinedMetrics(custom) ==
    {[name |-> "custom/" \o m.name, type |-> m.type, value |-> "float"] :
        m \in {x \in custom : x.type \in {"gauge", "cumulative", "delta"}}}

\* The time of the first of CPU, memory and network that has one.
GetScrapeTime(cpu, memory, network) ==
    IF cpu.time # 0 THEN cpu.time ELSE IF memory.time # 0 THEN memory.time ELSE network.time

\* System containers keep the names they had before the summary API.
GetSystemContainerName(c) ==
    CASE c.name = "runtime" -> "docker-daemon" [] c.name = "misc" -> "system" [] OTHER -> c.name

DecodeContainerStats(labels, c, type, name) ==
    [labels |-> [labels EXCEPT !.type = type, !.container = name],
     started |-> c.started, scraped |-> GetScrapeTime(c.cpu, c.memory, Nil),
     values |-> DecodeUptime(c.started) \cup DecodeCPUStats(c.cpu) \cup DecodeMemoryStats(c.memory)
                    \cup DecodeEphemeralStorageStatsForContainer(c.rootfs, c.logs)
                    \cup DecodeUserDefinedMetrics(c.custom),
     labeled |-> DecodeAcceleratorStats(c.accelerators)
                    \cup DecodeFsStats("/", c.rootfs) \cup DecodeFsStats("logs", c.logs)]

Stored(sets, key, set) == [k \in DOMAIN sets \cup {key} |-> IF k = key THEN set ELSE sets[k]]

\* Mutant: a system container's key has the name as the summary gives it.
DecodeSystemContainerUntranslated(sets, labels, node, c) ==
    Stored(sets, NodeContainerKey(node.name, c.name),
          DecodeContainerStats(labels, c, "sys_container", GetSystemContainerName(c)))

DecodeSystemContainer(sets, labels, node, c) ==
    Stored(sets, NodeContainerKey(node.name, GetSystemContainerName(c)),
          DecodeContainerStats(labels, c, "sys_container", GetSystemContainerName(c)))

\* The keys have the summary's name of the node, the labels that of the API server.
DecodeNodeStats(sets, labels, node) ==
    LET own == [labels |-> [labels EXCEPT !.type = "node"], started |-> node.started,
                scraped |-> GetScrapeTime(node.cpu, node.memory, node.network),
                values |-> DecodeUptime(node.started) \cup DecodeCPUStats(node.cpu)
                               \cup DecodeMemoryStats(node.memory) \cup DecodeNetworkStats(node.network)
                               \cup DecodeEphemeralStorageStats(node.fs),
                labeled |-> DecodeFsStats("/", node.fs)]
    IN  ForRange(LAMBDA m, c : DecodeSystemContainer(m, labels, node, c),
                 Stored(sets, NodeKey(node.name), own), node.system)

PodMetrics(labels, pod) ==
    [labels |-> [labels EXCEPT !.type = "pod", !.ns = pod.ns, !.pod = pod.name, !.uid = pod.uid],
     started |-> pod.started, scraped |-> GetScrapeTime(Nil, Nil, pod.network),
     values |-> DecodeUptime(pod.started) \cup DecodeNetworkStats(pod.network) \cup DecodeCPUStats(pod.cpu)
                    \cup DecodeMemoryStats(pod.memory) \cup DecodeEphemeralStorageStats(pod.storage),
     labeled |-> UNION {DecodeFsStats("Volume:" \o v.name, v.fs) : v \in pod.volumes}]

\* Mutant: the container that is listed last is kept.
DecodePodStatsLast(sets, labels, pod) ==
    LET own == PodMetrics(labels, pod)
        Add(m, c) == Stored(m, PodContainerKey(pod.ns, pod.name, c.name),
                           DecodeContainerStats(own.labels, c, "pod_container", c.name))
    IN  ForRange(Add, Stored(sets, PodKey(pod.ns, pod.name), own), pod.containers)

\* Of two containers with the same key the one that started before the other is
\* dropped; of two pods the last is kept.
DecodePodStats(sets, labels, pod) ==
    LET own == PodMetrics(labels, pod)
        Add(m, c) ==
            LET key == PodContainerKey(pod.ns, pod.name, c.name)
            IN  IF key \in DOMAIN m /\ c.started < m[key].started THEN m
                ELSE Stored(m, key, DecodeContainerStats(own.labels, c, "pod_container", c.name))
    IN  ForRange(Add, Stored(sets, PodKey(pod.ns, pod.name), own), pod.containers)

DecodeSummary(node, summary) ==
    LET labels == [type |-> "", node |-> node, ns |-> "", pod |-> "", uid |-> "", container |-> ""]
    IN  ForRange(LAMBDA m, p : DecodePodStats(m, labels, p),
                 DecodeNodeStats(<< >>, labels, summary.node), summary.pods)

ContainersOf(summary) == Range(summary.node.system) \cup UNION {Range(p.containers) : p \in Range(summary.pods)}
SummaryPanics(summary) == \E c \in ContainersOf(summary) : UsageMissing(c)
=============================================================================
