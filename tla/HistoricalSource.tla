-------------------------- MODULE HistoricalSource ---------------------------
(***************************************************************************)
(* InfluxDB as a source of history: the points that the sink's ExportData  *)
(* makes of a batch (metrics/sinks/influxdb/influxdb.go) and the queries   *)
(* that look for them again (influxdb_historical.go).                      *)
(*                                                                         *)
(* A query is kept as what it asks for: a measurement, a field, the tags   *)
(* that are to match and the bounds of the time, both of them excluded.  A *)
(* row of an answer is the point it comes from.                            *)
(***************************************************************************)
EXTENDS MetricSink

CONSTANTS
    Parts,          \* the parts of each name of a metric around its first "/"
    Unsanitary,     \* names with characters that the queries do not allow
    Configs,        \* the configurations to look at
    Second          \* a second, in units of the clock

ASSUME ConfigsAssumption ==
    /\ Configs \subseteq [fields : BOOLEAN, disableCounters : BOOLEAN, disableExport : BOOLEAN, columns : BOOLEAN]
    /\ Second \in Nat \ {0}

ZeroTime == -1      \* time.Time{}

VARIABLES
    db,     \* the timestamps of the batches whose points are in the database
    server, \* InfluxDB: "up", "down", or "overrun" by the points of a query
    conf    \* WithFields and DisableCounterMetrics of the sink, --disable-export; and
            \* whether the server answers SHOW SERIES with a column for each tag

historyVars == <<db, server, conf>>

RateMetricsMapping == {"cpu/usage", "memory/page_faults", "memory/major_page_faults", "network/rx",
                       "network/rx_errors", "network/tx", "network/tx_errors", "disk/io_read_bytes",
                       "disk/io_write_bytes"}

InfluxdbBlacklistLabels == {"namespace_id", "pod_id", "hostname", "host_id"}

Labels(s) == {<<"type", s.type>>, <<"nodename", s.nodename>>, <<"hostname", s.hostname>>,
              <<"namespace_name", s.namespace>>, <<"pod_name", s.pod>>, <<"container_name", s.container>>,
              <<"pod_id", s.id>>}

Tagged(labels) == {l \in labels : l[1] \notin InfluxdbBlacklistLabels /\ l[2] # ""}

\* The measurement and the field a value is written to by a sink configured as c.
Measurement(c, m) ==
    IF ~c.fields THEN <<m, "value">>
    ELSE <<Parts[m][1], IF Len(Parts[m]) > 1 THEN Parts[m][2] ELSE "value">>

Skipped(c, m) == c.disableCounters /\ m \in RateMetricsMapping

\* The points of one metric set of batch t, and those of its labeled metrics.
ValuePoints(c, t, s) ==
    {[series |-> Measurement(c, m), tags |-> Tagged(Labels(s)), time |-> t] :
        m \in {n \in s.values : ~Skipped(c, n)}}
LabeledPoints(c, t, s) ==
    {[series |-> Measurement(c, m[1]), tags |-> Tagged(Labels(s) \cup m[2]), time |-> t] :
        m \in {n \in s.labeled : ~Skipped(c, n[1])}}
PointsOf == [c \in Configs |-> [t \in Timestamps |->
    UNION {ValuePoints(c, t, s) \cup LabeledPoints(c, t, s) : s \in Batches[t]}]]

\* The database: what ExportData wrote and sendData did not lose (InfluxdbSink).
Points == UNION {PointsOf[conf][t] : t \in db}

HistoryInit ==
    /\ db = {}
    /\ server = "up"
    /\ conf \in Configs

\* The Influx sink's turn with a batch.  It is not the metric sink's: the two
\* export the same batch each at its own time, and this one may fail to.
InfluxExport(t) ==
    /\ t <= now
    /\ t \notin db
    /\ db' = db \cup {t}
    /\ UNCHANGED <<now, storeVars, server, conf>>

\* The server comes and goes, and may be asked for more points than it likes.
ServerChanges ==
    /\ server' \in {"up", "down", "overrun"} \ {server}
    /\ UNCHANGED <<now, storeVars, db, conf>>

-----------------------------------------------------------------------------
(* Queries                                                                 *)


KeyToSelector(k) ==
    {<<"type", k.type>>} \cup
        CASE k.type = "node" -> {<<"nodename", k.node>>}
          [] k.type = "sys_container" -> {<<"container_name", k.container>>, <<"nodename", k.node>>}
          [] k.type = "cluster" -> {}
          [] k.type = "ns" -> {<<"namespace_name", k.namespace>>}
          [] k.type = "pod" /\ k.id # "" -> {<<"pod_id", k.id>>}
          [] k.type = "pod" /\ k.id = "" -> {<<"namespace_name", k.namespace>>, <<"pod_name", k.pod>>}
          [] k.type = "pod_container" /\ k.id # "" -> {<<"pod_id", k.id>>, <<"container_name", k.container>>}
          [] k.type = "pod_container" /\ k.id = "" ->
                {<<"namespace_name", k.namespace>>, <<"pod_name", k.pod>>, <<"container_name", k.container>>}

\* A key of which a name is not allowed is refused.
CheckSanitizedKey(k) == {k.node, k.namespace, k.pod, k.container, k.id} \cap Unsanitary = {}
CheckSanitizedMetricName(m) == m \notin Unsanitary
CheckSanitizedMetricLabels(labels) == \A l \in labels : {l[1], l[2]} \cap Unsanitary = {}

MetricToSeriesAndField(m) ==
    IF conf.fields
    THEN IF Len(Parts[m]) > 1 THEN <<Parts[m][1], Parts[m][2]>> ELSE <<Parts[m][1], "value">>
    ELSE <<m, "value">>

\* What the database answers to a SELECT.
Select(series, tags, start, end) ==
    {p \in Points : p.series = series /\ tags \subseteq p.tags
        /\ (start = ZeroTime \/ p.time > start) /\ (end = ZeroTime \/ p.time < end)}

\* A bound as the queries write it, in RFC3339: without the fraction of its second.
Format(t) == IF t = ZeroTime THEN t ELSE Second * (t \div Second)

RawQuery(m, labels, k, start, end) ==
    Select(MetricToSeriesAndField(m), KeyToSelector(k) \cup labels, Format(start), Format(end))

\* runQuery fails as a whole or answers each statement.
RunQueryFails == server = "down"

\* GetMetric and GetLabeledMetric (labels = {} without any): an error, or the rows
\* of each key.  A failed query or one key without rows fails the whole request.
Sanitized(m, labels, keys) ==
    /\ \A i \in DOMAIN keys : CheckSanitizedKey(keys[i])
    /\ CheckSanitizedMetricName(m) /\ CheckSanitizedMetricLabels(labels)
HistoricalGetMetric(m, labels, keys, start, end) ==
    LET rows == [i \in DOMAIN keys |-> RawQuery(m, labels, keys[i], start, end)]
    IN  IF ~Sanitized(m, labels, keys) \/ RunQueryFails \/ {} \in Range(rows) THEN [err |-> TRUE, rows |-> << >>]
        ELSE [err |-> FALSE, rows |-> rows]

\* Mutant: the end of the range is included.
AggregateQueryToEnd(m, labels, k, start, end, bucketSize) ==
    LET rows == Select(MetricToSeriesAndField(m), KeyToSelector(k) \cup labels, Format(start), Format(end) + 1)
        Bucket(p) == IF bucketSize = 0 THEN Format(start) ELSE bucketSize * (p.time \div bucketSize)
    IN  {[at |-> b, size |-> bucketSize, of |-> {p \in rows : Bucket(p) = b}] : b \in {Bucket(p) : p \in rows}}

\* composeAggregateQuery: one bucket from the start, or buckets of the given size
\* from the epoch on, of which the empty ones are left out (fill(none)).
AggregateQuery(m, labels, k, start, end, bucketSize) ==
    LET rows == Select(MetricToSeriesAndField(m), KeyToSelector(k) \cup labels, Format(start), Format(end))
        Bucket(p) == IF bucketSize = 0 THEN Format(start) ELSE bucketSize * (p.time \div bucketSize)
    IN  {[at |-> b, size |-> bucketSize, of |-> {p \in rows : Bucket(p) = b}] : b \in {Bucket(p) : p \in rows}}

\* With too many points the server answers with a single bucket.
Buckets(buckets) ==
    IF server = "overrun" THEN {b \in buckets : \A c \in buckets : b.at <= c.at} ELSE buckets

\* GetAggregation and GetLabeledAggregation: of each bucket the aggregations
\* asked for, the count of rows apart.  A negative size is not accepted by the server.
GetAggregation(m, labels, aggregations, keys, start, end, bucketSize) ==
    LET Parsed(b) == [at |-> b.at, size |-> b.size, of |-> b.of, aggregations |-> aggregations \ {"count"},
                      count |-> IF "count" \in aggregations THEN Cardinality(b.of) ELSE 0]
        rows == [i \in DOMAIN keys |->
                    {Parsed(b) : b \in Buckets(AggregateQuery(m, labels, keys[i], start, end, bucketSize))}]
    IN  IF bucketSize < 0 \/ ~Sanitized(m, labels, keys) \/ RunQueryFails \/ {} \in Range(rows)
        THEN [err |-> TRUE, rows |-> << >>]
        ELSE [err |-> FALSE, rows |-> rows]

\* The listings, which fail when there is nothing to list.
StringListQuery(names) == [err |-> RunQueryFails \/ names = {}, names |-> names]
\* The column may be missing.
StringListQueryCol(names) == IF conf.columns THEN StringListQuery(names) ELSE StringListQuery({})
TagValues(points, key) == {l[2] : l \in {x \in UNION {p.tags : p \in points} : x[1] = key}}
\* SHOW TAG VALUES answers with a series for each measurement; the first one is read.
ShowTagValues(key) ==
    LET measurements == {p.series[1] : p \in {x \in Points : \E l \in x.tags : l[1] = key}}
        first == CHOOSE m \in measurements : TRUE
    IN  IF measurements = {} THEN {} ELSE TagValues({p \in Points : p.series[1] = first}, key)
Tagging(tags) == {p \in Points : tags \subseteq p.tags}
HistoricalGetMetricNames(k) ==
    IF ~CheckSanitizedKey(k) THEN StringListQuery({})
    ELSE StringListQuery({p.series[1] : p \in Tagging(KeyToSelector(k))})
HistoricalGetNodes == StringListQuery(ShowTagValues("nodename"))
HistoricalGetNamespaces == StringListQuery(ShowTagValues("namespace_name"))
UptimeSeries(tags) == {p \in Tagging(tags) : p.series[1] = "uptime"}
HistoricalGetPodsFromNamespace(ns) ==
    IF ns \in Unsanitary THEN StringListQuery({})
    ELSE StringListQueryCol(TagValues(UptimeSeries({<<"namespace_name", ns>>, <<"type", "pod">>}), "pod_name"))
HistoricalGetSystemContainersFromNode(node) ==
    IF node \in Unsanitary THEN StringListQuery({})
    ELSE StringListQueryCol(
             TagValues(UptimeSeries({<<"nodename", node>>, <<"type", "sys_container">>}), "container_name"))
=============================================================================
