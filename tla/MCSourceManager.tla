--------------------------- MODULE MCSourceManager ---------------------------
\* Three nodes, some of which report the same pod (it moved) or the same
\* container twice (it was restarted); a kubelet may know its node by another name.
EXTENDS SourceManager

AllNodes == {"n1", "n2", "n3"}

Address(type, a) == [type |-> type, address |-> a]
Status(ready, addresses) == [ready |-> ready, addresses |-> addresses]
Good == Status({TRUE}, <<Address("Hostname", "valid"), Address("InternalIP", "valid")>>)
Behind == Status({}, <<Address("ExternalIP", "valid"), Address("InternalIP", "invalid")>>)
NotReady == Status({FALSE}, <<Address("InternalIP", "valid")>>)
NoAddress == Status({TRUE}, <<Address("InternalIP", ""), Address("ExternalIP", "invalid")>>)

\* Sections of summaries.
Full == [time |-> 1, has |-> {m.name : m \in StandardMetrics}]
Part == [time |-> 0, has |-> {"memory/usage", "cpu/usage"}]
Disk == [time |-> 1, has |-> {m.name : m \in FilesystemBytes \cup FilesystemInodes}]
Empty == [time |-> 1, has |-> {"filesystem/limit"}]

Custom == {[name |-> "qps", type |-> "delta", format |-> "int", samples |-> 1],
           [name |-> "hist", type |-> "histogram", format |-> "float", samples |-> 1],
           [name |-> "load", type |-> "gauge", format |-> "float", samples |-> 0]}

Con(name, started, cpu, logs) ==
    [name |-> name, started |-> started, cpu |-> cpu, memory |-> Part, rootfs |-> Disk, logs |-> logs,
     accelerators |-> {"gpu"}, custom |-> Custom]
Pod(uid, started, cs) ==
    [ns |-> "ns", name |-> "p", uid |-> uid, started |-> started, network |-> Full, cpu |-> Nil,
     memory |-> Full, storage |-> Empty, volumes |-> {[name |-> "v", fs |-> Disk]}, containers |-> cs]
OfNode(name, system) ==
    [name |-> name, started |-> 1, cpu |-> Full, memory |-> Full, network |-> Nil, fs |-> Disk, system |-> system]
Sum(name, system, pods) == [node |-> OfNode(name, system), pods |-> pods]

Old == Con("c", 1, Full, Disk)
New == Con("c", 2, Nil, Nil)
Daemons == <<Con("runtime", 1, Full, Nil), Con("kubelet", 0, Full, Disk)>>

SummaryOf ==
    {[n1 |-> Sum("kubelet1", Daemons, <<Pod("u1", 1, <<New, Old>>)>>), n2 |-> Sum("n2", << >>, << >>),
      n3 |-> Sum("n3", << >>, << >>)],
     [n1 |-> Sum("n1", << >>, <<Pod("u1", 1, <<Old>>)>>), n2 |-> Sum("n2", << >>, <<Pod("u2", 2, <<Old, New>>)>>),
      n3 |-> Sum("n3", << >>, << >>)],
     [n1 |-> Sum("n1", << >>, <<Pod("u2", 2, <<New>>), Pod("u1", 1, <<Old>>)>>), n2 |-> Sum("n2", << >>, << >>),
      n3 |-> Sum("n3", << >>, <<Pod("u3", 2, <<Con("c", 2, Full, Empty)>>)>>)]}

\* Containers of cadvisor.
Name(full, stripped, dot, cut) == [full |-> full, stripped |-> stripped, dot |-> dot, cut |-> cut]
Labels(ns, prefix, pod, uid, c) ==
    [ns |-> ns, pod |-> [prefix |-> prefix, name |-> pod], uid |-> uid, container |-> c]
NoLabels == Labels("", "", "", "", "")
Raw(name, alias, labels, started) ==
    [name |-> name, alias |-> alias, labels |-> labels, stats |-> TRUE, created |-> started > 0, started |-> started,
     has |-> {"cpu", "memory", "network", "filesystem", "diskio"},
     filesystems |-> {[device |-> "sda", inodes |-> TRUE], [device |-> "sdb", inodes |-> FALSE]},
     accelerators |-> {"gpu"}, partitions |-> {[device |-> "", numbers |-> "8:0"]}, custom |-> Custom]
Root == Raw(Name("/", "", -1, ""), << >>, NoLabels, 1)
Docker == Raw(Name("/system.slice", "system.slice", 7, "tem"), << >>, NoLabels, 1)
Bare == [Raw(Name("/a.b", "a.b", 2, ""), << >>, NoLabels, 0) EXCEPT !.has = {}]
Infra == Raw(Name("/docker/1", "docker/1", -1, ""), <<Name("k8s_POD", "k8s_POD", -1, "")>>,
             Labels("ns", "", "p", "u1", "POD"), 1)
First == Raw(Name("/docker/2", "docker/2", -1, ""), << >>, Labels("ns", "", "p", "u1", "c"), 1)
Second == Raw(Name("/docker/3", "docker/3", -1, ""), << >>, Labels("ns", "", "p", "u1", "c"), 2)
Ancient == Raw(Name("/docker/4", "docker/4", -1, ""), <<Name("k8s_c.7f", "k8s_c.7f", 5, "c")>>,
               Labels("", "ns", "p", "u1", ""), 1)
Silent == [First EXCEPT !.stats = FALSE]

ContainersReported ==
    {[n1 |-> {Root, Docker, Infra, First, Second}, n2 |-> {Root}, n3 |-> {}],
     [n1 |-> {Root, Infra, Ancient}, n2 |-> {Root, Silent}, n3 |-> {Root, Bare}]}

Lists == {[n1 |-> Good, n2 |-> Behind, n3 |-> NotReady], [n1 |-> Good, n2 |-> NoAddress, n3 |-> Good]}

SomeClusters ==
    [provider : {"kubernetes.summary_api"}, nodes : Lists, reports : SummaryOf]
        \cup [provider : {"kubernetes"}, nodes : Lists, reports : ContainersReported]
        \cup [provider : {"kubernetes.summary_api"}, nodes : {[n \in AllNodes |-> Good]},
              reports : {[n1 |-> Sum("n1", << >>, <<Pod("u1", 1, <<Old>>)>>),
                          n2 |-> Sum("n2", << >>, <<Pod("u2", 2, <<New>>)>>), n3 |-> Sum("n3", << >>, << >>)]}]

CustomMetricNames == {"qps", "load"}
=============================================================================
