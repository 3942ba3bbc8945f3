---------------------------- MODULE SourceManager ----------------------------
(***************************************************************************)
(* One call of the source manager's ScrapeMetrics                          *)
(* (metrics/sources/manager.go): a goroutine per source scrapes it and     *)
(* offers the answer on an unbuffered channel until timeoutTime; the       *)
(* collector takes one answer per source and merges it into the response,  *)
(* or stops at timeoutTime with what it has.  The sources are the nodes    *)
(* that the provider lists, and an answer is what the provider's source    *)
(* decodes from what the node's kubelet reports.                           *)
(*                                                                         *)
(* Time is discrete and starts at 0 with the call.  The collector takes a  *)
(* step that is due at most MaxLateness later; a source may take for ever. *)
(***************************************************************************)
EXTENDS KubeletSource, SummarySource, TLC

CONSTANTS
    Nodes,          \* names of nodes
    Clusters,       \* the clusters to scrape: the provider that is configured,
                    \* and for each node its status and its kubelet's report
    CustomNames,    \* names of custom metrics
    Timeout,        \* metricsScrapeTimeout
    MaxLateness,    \* how late the collector may take a step that is due
    MaxTime         \* bound: the clock stops here

ASSUME SourcesAssumption == IsFiniteSet(Nodes)
ASSUME ClustersAssumption == \A c \in Clusters : DOMAIN c.nodes \subseteq Nodes
ASSUME TimesAssumption == Timeout \in Nat /\ MaxLateness \in Nat /\ MaxTime \in Nat

VARIABLES
    cluster,    \* the cluster
    sources,    \* the nodes GetMetricsSources returned a source for
    now,        \* the clock
    source,     \* the goroutine of each source: "scrape", "answer", "select",
                \* "sent" or "gone"; "none" for a node that is no source
    sets,       \* the metric sets that each source's scrape returned
    coll,       \* the collector: "top", "select", "returned" or "crashed"
    since,      \* when the collector reached the head of its loop
    response,   \* response.MetricSets: the source of each key's value
    answers     \* history: the sources received from, in order

scrapeVars == <<cluster, sources, now, source, sets, coll, since, response, answers>>
callVars == <<cluster, sources>>

\* GetMetricsSources of the summary provider, which asks the other one's function
\* for the address of a node.
SummaryGetMetricsSources(nodes) == {n \in DOMAIN nodes : ~GetNodeHostnameAndIP(nodes[n]).err}

\* The nodes that are ready and have an address.
GetMetricsSources(c) ==
    IF c.provider = "kubernetes" THEN KubeletGetMetricsSources(c.nodes) ELSE SummaryGetMetricsSources(c.nodes)

Init ==
    /\ cluster \in Clusters      \* no source when the nodes cannot be listed
    /\ sources \in {GetMetricsSources(cluster), {}}
    /\ now = 0
    /\ source = [s \in Nodes |-> IF s \in sources THEN "scrape" ELSE "none"]
    /\ sets = [s \in Nodes |-> << >>]
    /\ coll = "top"
    /\ since = 0
    /\ response = << >>
    /\ answers = << >>

\* What the source of a node may decode from its kubelet's report, and whether
\* decoding it panics.
Decoded(s) ==
    IF cluster.provider = "kubernetes" THEN KubeletScrapeMetrics(s, cluster.reports[s])
    ELSE {DecodeSummary(s, cluster.reports[s])}
DecodingPanics(s) ==
    IF cluster.provider = "kubernetes" THEN KubeletPanics(cluster.reports[s])
    ELSE SummaryPanics(cluster.reports[s])

\* scrape(source, start, end) returns a batch, or an error, on which the
\* goroutine returns without telling the collector; a panic ends the process.
ScrapeOk(s) ==
    /\ source[s] = "scrape"
    /\ ~DecodingPanics(s)
    /\ source' = [source EXCEPT ![s] = "answer"]
    /\ \E d \in Decoded(s) : sets' = [sets EXCEPT ![s] = d]
    /\ UNCHANGED <<callVars, now, coll, since, response, answers>>

ScrapePanics(s) ==
    /\ source[s] = "scrape"
    /\ DecodingPanics(s)
    /\ coll' = "crashed"
    /\ source' = [n \in Nodes |-> "gone"]
    /\ UNCHANGED <<callVars, now, sets, since, response, answers>>

ScrapeFails(s) ==
    /\ source[s] = "scrape"
    /\ source' = [source EXCEPT ![s] = "gone"]
    /\ UNCHANGED <<callVars, now, sets, coll, since, response, answers>>

\* now.Before(timeoutTime): an answer that is already late is discarded.
CheckTime(s) ==
    /\ source[s] = "answer"
    /\ source' = [source EXCEPT ![s] = IF now < Timeout THEN "select" ELSE "gone"]
    /\ UNCHANGED <<callVars, now, sets, coll, since, response, answers>>

\* Mutant: the select of a source has no timeout.
SourceTimeoutMissing(s) == FALSE /\ UNCHANGED scrapeVars

\* Mutant: the timeout branch falls through to the success message.
SourceTimeoutReportsSuccess(s) ==
    /\ source[s] = "select"
    /\ now >= Timeout
    /\ source' = [source EXCEPT ![s] = "sent"]
    /\ UNCHANGED <<callVars, now, sets, coll, since, response, answers>>

\* The time.After(timeForResponse) branch of a source.
SourceTimeout(s) ==
    /\ source[s] = "select"
    /\ now >= Timeout
    /\ source' = [source EXCEPT ![s] = "gone"]
    /\ UNCHANGED <<callVars, now, sets, coll, since, response, answers>>

\* Mutant: the head of the loop does not look at the clock.
CollectorTopUntimed ==
    /\ coll = "top"
    /\ coll' = IF Len(answers) < Cardinality(sources) THEN "select" ELSE "returned"
    /\ UNCHANGED <<callVars, now, source, sets, since, response, answers>>

\* The head of the collector's loop: one iteration per source.
CollectorTop ==
    /\ coll = "top"
    /\ coll' = IF Len(answers) < Cardinality(sources) /\ now < Timeout
               THEN "select" ELSE "returned"
    /\ UNCHANGED <<callVars, now, source, sets, since, response, answers>>

\* A source's send meets the collector's receive; the answer is merged.
Receive(s) ==
    /\ coll = "select"
    /\ source[s] = "select"
    /\ source' = [source EXCEPT ![s] = "sent"]
    /\ response' = [k \in DOMAIN sets[s] |-> s] @@ response
    /\ answers' = Append(answers, s)
    /\ coll' = "top"
    /\ since' = now
    /\ UNCHANGED <<callVars, now, sets>>

\* The time.After(timeoutTime.Sub(now)) branch of the collector.
CollectorTimeout ==
    /\ coll = "select"
    /\ now >= Timeout
    /\ coll' = "returned"
    /\ UNCHANGED <<callVars, now, source, sets, since, response, answers>>

CollectorMayWait ==
    \/ coll = "returned"
    \/ coll = "top" /\ now < since + MaxLateness
    \/ /\ coll = "select" /\ now < Timeout + MaxLateness
       /\ \A s \in Nodes : source[s] # "select"

Tick ==
    /\ now < MaxTime
    /\ CollectorMayWait
    /\ now' = now + 1
    /\ UNCHANGED <<callVars, source, sets, coll, since, response, answers>>

CollectorStep == CollectorTop \/ CollectorTimeout \/ \E s \in Nodes : Receive(s)

Next ==
    \/ CollectorStep
    \/ \E s \in Nodes : ScrapeOk(s) \/ ScrapePanics(s) \/ ScrapeFails(s) \/ CheckTime(s) \/ SourceTimeout(s)
    \/ Tick

Spec == Init /\ [][Next]_scrapeVars

\* Time passes and goroutines that can run do; a scrape may never return.
FairSpec ==
    /\ Spec
    /\ WF_scrapeVars(Tick)
    /\ WF_scrapeVars(CollectorStep)
    /\ \A s \in Nodes : WF_scrapeVars(CheckTime(s)) /\ WF_scrapeVars(SourceTimeout(s))

-----------------------------------------------------------------------------
\* The collector counts iterations, not sources: still it has received exactly
\* from the sources whose goroutine reports that it "passed the response
\* correctly", once from each.
AnswersAccounted ==
    /\ coll # "crashed" => Range(answers) = {s \in Nodes : source[s] = "sent"}
    /\ IsInjective(answers)

\* However many answers queue up at the deadline, ScrapeMetrics returns by the
\* timeout plus one delay of the collector: the delays of its steps never add
\* up, because the head of the loop looks at the clock again.  It returns before
\* the timeout only with every source's answer: one source that failed or is
\* slow makes the whole round wait.
ReturnsInTime ==
    /\ coll \notin {"returned", "crashed"} => now <= Timeout + MaxLateness
    /\ coll = "returned" /\ now < Timeout => \A s \in sources : source[s] = "sent"

\* No goroutine is left behind: every source whose scrape returns goes away,
\* also when nobody receives any more.
NoLeak == \A s \in Nodes :
    source[s] \in {"answer", "select"} ~> source[s] \in {"sent", "gone"}

\* The key of a set with labels l; the metrics reported as they are declared.
KeyOf(l) ==
    CASE l.type = "node" -> NodeKey(l.node)
      [] l.type = "sys_container" -> NodeContainerKey(l.node, l.container)
      [] l.type = "pod" -> PodKey(l.ns, l.pod)
      [] l.type = "pod_container" -> PodContainerKey(l.ns, l.pod, l.container)
Declared(m) ==
    \/ m \in Descriptors /\ m \notin DiskIO
    \/ [m EXCEPT !.type = "cumulative"] \in DiskIO /\ m.type = "gauge"
    \/ \E n \in CustomNames : m.name = "custom/" \o n

\* The name of its node in a report.
NameOf(s) == IF cluster.provider = "kubernetes" THEN s ELSE cluster.reports[s].node.name

\* The key a metric set is filed under says the same as its labels, by which
\* processors find the sets of its pod and its node, but for the node's name, which
\* a kubelet of the summary API may report as another than the API server's.  Its
\* values have the types that their metrics' descriptors declare; disk I/O alone is
\* declared cumulative and reported as a gauge.
DecodedSound ==
    \A s \in sources : \A k \in DOMAIN sets[s] :
        LET set == sets[s][k]
        IN  /\ k = KeyOf([set.labels EXCEPT !.node = NameOf(s)])
            /\ set.labels.node = s
            /\ \A m \in set.values \cup {l[1] : l \in set.labeled} : Declared(m)

\* "Metrics from the older container are going to be dropped": whatever the order
\* in which a summary lists pods and containers, the metric set under a
\* container's key is that of the one started last.
NewestContainerKept ==
    cluster.provider = "kubernetes.summary_api" =>
        \A s \in sources : \A p \in Range(cluster.reports[s].pods) : \A c \in Range(p.containers) :
            LET key == PodContainerKey(p.ns, p.name, c.name)
            IN  sets[s] # << >> => sets[s][key].started >= c.started
=============================================================================
