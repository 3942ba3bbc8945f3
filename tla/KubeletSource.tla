---------------------------- MODULE KubeletSource ----------------------------
(***************************************************************************)
(* The "kubernetes" source (metrics/sources/kubelet): which nodes become   *)
(* sources, and how the containers that a kubelet's /stats/container/      *)
(* reports become metric sets.                                             *)
(*                                                                         *)
(* A container is a record: its name and its first alias ([full, stripped: *)
(* without the leading slash, dot: the place of the first dot or -1, cut:  *)
(* what stands between "k8s_" and the dot]), labels, whether the kubelet   *)
(* has a sample, its creation time and its cadvisor spec.                  *)
(***************************************************************************)
EXTENDS CoreMetrics, Integers, RangeLoop

\* A node is listed if no Ready condition is other than true and its addresses
\* give an IP: the last internal one that parses, or else an external one, which
\* is not looked at before the end.
GetNodeHostnameAndIP(node) ==
    LET Step(ip, a) == IF a.type = "InternalIP" /\ a.address = "valid" THEN a.address
                       ELSE IF a.type = "ExternalIP" /\ a.address # "" /\ ip = "" THEN a.address
                       ELSE ip
        ip == ForRange(Step, "", node.addresses)
    IN  [err |-> FALSE \in node.ready \/ ip # "valid"]

\* GetMetricsSources of the provider, when the nodes can be listed.
KubeletGetMetricsSources(nodes) == {n \in DOMAIN nodes : ~GetNodeHostnameAndIP(nodes[n]).err}

\* The last sample is kept and the first alias, if any, is the name.
ParseStat(c) == [c EXCEPT !.name = IF c.alias = << >> THEN @ ELSE c.alias[1]]
GetAllContainers(containers) == {ParseStat(c) : c \in containers}

\* A node is the container "/".
IsNode(c) == c.name.full = "/"

\* The namespace and the pod of a Kubernetes 1.0 container are in one label.
PodOf(labels) ==
    IF labels.ns = "" /\ labels.pod.prefix # ""
    THEN [ns |-> labels.pod.prefix, pod |-> labels.pod.name]
    ELSE [ns |-> labels.ns, pod |-> labels.pod.name]

\* So is the container's name in its own: slicing fails on a name whose dot comes
\* before the fifth character.
NeedsCut(c) == ~IsNode(c) /\ c.labels.container = "" /\ c.name.dot >= 0
CutFails(c) == NeedsCut(c) /\ c.name.dot < 4
ContainerOf(c) == IF NeedsCut(c) THEN c.name.cut ELSE c.labels.container

HandleSystemContainer(node, c) ==
    [key |-> NodeContainerKey(node, c.name.stripped),
     labels |-> [type |-> "sys_container", node |-> node, ns |-> "", pod |-> "", uid |-> "",
                 container |-> c.name.stripped]]

\* The infrastructure container stands for its pod.
HandleKubernetesContainer(node, c) ==
    LET p == PodOf(c.labels)
        name == ContainerOf(c)
        base == [type |-> "pod", node |-> node, ns |-> p.ns, pod |-> p.pod,
                 uid |-> c.labels.uid, container |-> ""]
    IN  IF name = "POD" THEN [key |-> PodKey(p.ns, p.pod), labels |-> base]
        ELSE [key |-> PodContainerKey(p.ns, p.pod, name),
              labels |-> [base EXCEPT !.type = "pod_container", !.container = name]]

HandleNode(node) ==
    [key |-> NodeKey(node),
     labels |-> [type |-> "node", node |-> node, ns |-> "", pod |-> "", uid |-> "", container |-> ""]]

\* Custom metrics with a sample and a known type and format; the newest sample counts.
CustomValues(c) ==
    {[name |-> "custom/" \o m.name, type |-> m.type, value |-> m.format] :
        m \in {x \in c.custom : x.samples > 0 /\ x.type \in {"gauge", "cumulative"}
                                /\ x.format \in {"int", "float"}}}

DecodeMetrics(node, c) ==
    LET p == PodOf(c.labels)
        h == IF IsNode(c) THEN HandleNode(node)
             ELSE IF ContainerOf(c) = "" \/ p.ns = "" \/ p.pod = "" THEN HandleSystemContainer(node, c)
             ELSE HandleKubernetesContainer(node, c)
    IN  [key |-> h.key,
         set |-> [labels |-> h.labels, started |-> c.started,
                  values |-> GetValues(c) \cup CustomValues(c),
                  labeled |-> GetDiskIO(c) \cup GetFilesystem(c) \cup GetAccelerators(c)]]

\* The answers ScrapeMetrics may return, of the containers with a sample.  They come
\* in the order of a map, and of two with the same key the last is kept: either may be.
KubeletPanics(containers) == \E c \in GetAllContainers(containers) : c.stats /\ CutFails(c)
KubeletScrapeMetrics(node, containers) ==
    LET decoded == {DecodeMetrics(node, c) : c \in {x \in GetAllContainers(containers) : x.stats}}
        keys == {d.key : d \in decoded}
    IN  {[k \in keys |-> (CHOOSE d \in kept : d.key = k).set] :
            kept \in {o \in SUBSET decoded : \A k \in keys : Cardinality({d \in o : d.key = k}) = 1}}
=============================================================================
