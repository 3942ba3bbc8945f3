-------------------------------- MODULE MCApi --------------------------------
\* Two nodes with system containers, of which the first has a hostname of its own, and
\* two pods of the same name in two namespaces; the second container of the first pod comes in every other batch,
\* and without its memory in the batch of time 6.
EXTENDS Api

Set(type, node, ns, pod, c, id, values, labeled) ==
    [type |-> type, nodename |-> node, hostname |-> IF node = "n1" THEN "h1" ELSE node, namespace |-> ns, pod |-> pod,
     container |-> c, id |-> id, values |-> values, labeled |-> labeled]
Usage == {"cpu/usage_rate", "memory/working_set"}
Disk(d) == <<"filesystem/usage", {<<"resource_id", d>>}>>
SomeBatches == [t \in Timestamps |->
    {Set("cluster", "", "", "", "", "", {"cpu/usage_rate"}, {}),
     Set("ns", "", "ns1", "", "", "", {"cpu/usage_rate"}, {}),
     Set("ns", "", "ns2", "", "", "", {"cpu/usage_rate"}, {}),
     Set("node", "n1", "", "", "", "", Usage \cup {"uptime", "cpu/usage"}, {Disk("/"), Disk("/var")}),
     Set("node", "n2", "", "", "", "", Usage, {}),
     Set("sys_container", "n2", "", "", "kubelet", "", {"uptime"}, {}),
     Set("sys_container", "n1", "", "", "kubelet", "", {"uptime"}, {}),
     Set("sys_container", "n1", "", "", "a/b", "", {"uptime"}, {}),
     Set("pod", "n1", "ns1", "p1", "", "u1", {"uptime", "cpu/usage_rate"}, {}),
     Set("pod", "n1", "ns2", "p1", "", "u2", {"uptime", "cpu/usage_rate"}, {}),
     Set("pod_container", "n1", "ns1", "p1", "c1", "u1", Usage \cup {"cpu/usage"}, {Disk("/")}),
     Set("pod_container", "n1", "ns2", "p1", "c1", "u2", Usage, {})}
    \cup IF t % 4 = 0 THEN {}
         ELSE {Set("pod_container", "n1", "ns1", "p1", "c2", "u1",
                   IF t = 6 THEN {"cpu/usage_rate"} ELSE Usage, {})}]

SomeParts == ("uptime" :> <<"uptime">>) @@ ("cpu/usage" :> <<"cpu", "usage">>)
    @@ ("cpu/usage_rate" :> <<"cpu", "usage_rate">>) @@ ("memory/working_set" :> <<"memory", "working_set">>)
    @@ ("filesystem/usage" :> <<"filesystem", "usage">>)
SomePaths ==
    ("node-name" :> {"n1"}) @@ ("namespace-name" :> {"ns1", "ns2"}) @@ ("pod-name" :> {"p1"})
    @@ ("container-name" :> {"c1", "c2", "kubelet", "a/b"}) @@ ("pod-id" :> {"u1"})
    @@ ("pod-list" :> {"p1,p2", "p1"}) @@ ("pod-id-list" :> {"u1,u2"})
    @@ ("aggregations" :> {"max,count", "rate"})
    @@ ("metric-name" :> {"uptime", "cpu/usage", "cpu-usage", "filesystem/usage"})
SomeSplit ==
    ("p1,p2" :> <<"p1", "p2">>) @@ ("p1" :> <<"p1">>) @@ ("u1,u2" :> <<"u1", "u2">>)
    @@ ("max,count" :> <<"max", "count">>) @@ ("rate" :> <<"rate">>)
Query(start, end, labels, bucket) == [start |-> start, end |-> end, labels |-> labels, bucket |-> bucket]
SomeQueries == {
    Always,
    Query(<< >>, <<6>>, {}, << >>),
    Query(<<4>>, << >>, {}, <<2, 2>>),
    Query(<<1>>, << >>, {<<"resource_id", "/var">>}, <<Bad>>),
    Query(<<1>>, <<5>>, {<<"resource_id", "/">>}, <<1, 3>>),
    [Always EXCEPT !.bucket = <<4, 4>>],
    [Always EXCEPT !.bucket = <<5, 3>>],
    [Always EXCEPT !.bucket = <<6, 3>>],
    Query(<<Bad>>, << >>, {}, << >>),
    Query(<<1>>, << >>, {<<"", "/">>}, << >>)}
Pod(ns, name, containers) == [namespace |-> ns, name |-> name, containers |-> containers]
SomePods == {Pod("ns1", "p1", {"c1", "c2"}), Pod("ns2", "p1", {"c1"})}
SomeNodes == {"n1", "n3"}
Config(fields, counters, export, columns) ==
    [fields |-> fields, disableCounters |-> counters, disableExport |-> export, columns |-> columns]
SomeConfigs == {Config(FALSE, FALSE, FALSE, TRUE), Config(TRUE, TRUE, TRUE, FALSE)}
SomeLong == {"cpu/usage_rate"}
Slashes == {"a/b"}

\* Bounds: the database fills while the metric sink is empty and the metric sink
\* while the database is, as they have nothing to do with each other; the metric
\* sink fills in one configuration only.
HistoryOnly == exports = << >> /\ listing = NoListing
MCSpec == Init /\ [][Next /\ (HistoryOnly' \/ (db' = {} /\ server' = "up" /\ ~conf.fields))]_vars
=============================================================================
