--------------------------------- MODULE Api ---------------------------------
(***************************************************************************)
(* The APIs over the metric sink and the historical source: the model API  *)
(* (metrics/api/v1/model_handlers.go), the historical API                  *)
(* (historical_handlers.go), the export of the newest batch (api.go) and   *)
(* the resource metrics API (ResourceMetrics).                             *)
(*                                                                         *)
(* A handler that asks the sink or the database once, under its lock, is a *)
(* function of the state: Reply(request).  The lists of the resource       *)
(* metrics API take several steps, and labeled metrics are read without    *)
(* the sink's lock, from what may be torn by an export.                    *)
(***************************************************************************)
EXTENDS HistoricalSource, ResourceMetrics, FiniteSetsExt, SequencesExt

CONSTANTS
    Paths,          \* the values of each path parameter in requests
    Split,          \* the parts of each list of names around its commas
    Queries,        \* the query parameters of requests: start, end, labels, bucket
    DurationBits    \* the width of a time.Duration

ASSUME DurationBitsAssumption == DurationBits \in Nat \ {0}

VARIABLE
    unlocked    \* the short store as a reader without the lock sees it now

vars == <<now, storeVars, historyVars, listing, unlocked>>

-----------------------------------------------------------------------------
(* Routes: each with its handler and its path parameters.                  *)

AddClusterMetricsRoutes == {
    <<"availableClusterMetrics", {}>>, <<"clusterMetrics", {"metric-name"}>>,
    <<"nodeList", {}>>, <<"availableNodeMetrics", {"node-name"}>>,
    <<"nodeMetrics", {"node-name", "metric-name"}>>,
    <<"namespaceList", {}>>, <<"availableNamespaceMetrics", {"namespace-name"}>>,
    <<"namespaceMetrics", {"namespace-name", "metric-name"}>>,
    <<"namespacePodList", {"namespace-name"}>>,
    <<"availablePodMetrics", {"namespace-name", "pod-name"}>>,
    <<"podMetrics", {"namespace-name", "pod-name", "metric-name"}>>,
    <<"podContainerList", {"namespace-name", "pod-name"}>>,
    <<"availablePodContainerMetrics", {"namespace-name", "pod-name", "container-name"}>>,
    <<"podContainerMetrics", {"namespace-name", "pod-name", "container-name", "metric-name"}>>,
    <<"nodeSystemContainerList", {"node-name"}>>,
    <<"availableFreeContainerMetrics", {"node-name", "container-name"}>>,
    <<"freeContainerMetrics", {"node-name", "container-name", "metric-name"}>>,
    <<"podListMetrics", {"namespace-name", "pod-list", "metric-name"}>>}

RegisterModel == AddClusterMetricsRoutes \cup {<<"allKeys", {}>>}

AddAggregationRoutes == {
    <<"clusterAggregations", {"aggregations", "metric-name"}>>,
    <<"nodeAggregations", {"node-name", "aggregations", "metric-name"}>>,
    <<"namespaceAggregations", {"namespace-name", "aggregations", "metric-name"}>>,
    <<"podAggregations", {"namespace-name", "pod-name", "aggregations", "metric-name"}>>,
    <<"podContainerAggregations", {"namespace-name", "pod-name", "container-name", "aggregations", "metric-name"}>>,
    <<"podAggregations", {"pod-id", "aggregations", "metric-name"}>>,
    <<"podContainerAggregations", {"pod-id", "container-name", "aggregations", "metric-name"}>>,
    <<"freeContainerAggregations", {"node-name", "container-name", "aggregations", "metric-name"}>>,
    <<"podListAggregations", {"namespace-name", "pod-list", "aggregations", "metric-name"}>>,
    <<"podListAggregations", {"pod-id-list", "aggregations", "metric-name"}>>}

RegisterHistorical ==
    AddClusterMetricsRoutes \cup AddAggregationRoutes \cup {
        <<"podMetrics", {"pod-id", "metric-name"}>>,
        <<"podContainerMetrics", {"pod-id", "container-name", "metric-name"}>>,
        <<"podListMetrics", {"pod-id-list", "metric-name"}>>}

\* Register, for a server that has the metric sink and a historical source.
Register == ({"model"} \X RegisterModel) \cup ({"historical"} \X RegisterHistorical)

\* The requests of a route.
PathsOf(params) ==
    FoldSet(LAMBDA p, paths : UNION {{f @@ (p :> v) : v \in Paths[p]} : f \in paths}, {<< >>}, params)
RequestsOf(api, route) ==
    {[api |-> api, handler |-> route[1], path |-> path, query |-> query] :
        path \in PathsOf(route[2]), query \in Queries}
Requests == UNION {RequestsOf(r[1], r[2]) : r \in Register}

PathParameter(r, p) == IF p \in DOMAIN r.path THEN r.path[p] ELSE ""

-----------------------------------------------------------------------------
(* Parameters: << >> is an absent one, Bad one that cannot be parsed.      *)

Bad == -2

\* parseTimeParam and getStartEndTime.
ParseTimeParam(param, default) == IF param = << >> THEN default ELSE param[1]
Start(q) == ParseTimeParam(q.start, ZeroTime)
End(q) == ParseTimeParam(q.end, now)
TimesBad(q) == Bad \in {Start(q), End(q)}

\* getStartEndTimeHistorical: a start is needed.
HistoricalTimesBad(q) == TimesBad(q) \/ Start(q) = ZeroTime

\* getLabels: pairs without a name or a value are refused.
LabelsBad(q) == \E l \in q.labels : "" \in {l[1], l[2]}

\* getBucketSize: a number of some unit, multiplied as a Duration, and so modulo its width.
BucketBad(q) == q.bucket = <<Bad>>
Duration(n) == ((n + 2 ^ (DurationBits - 1)) % 2 ^ DurationBits) - 2 ^ (DurationBits - 1)
BucketSize(q) == IF q.bucket = << >> THEN 0 ELSE Duration(q.bucket[1] * q.bucket[2])

\* getAggregations.
AllAggregations == {"average", "max", "min", "median", "count", "50-perc", "95-perc", "99-perc"}
GetAggregations(r) == Range(Split[PathParameter(r, "aggregations")])

DeprecatedMetricNamesConversion ==
    ("cpu-usage" :> "cpu/usage_rate") @@ ("cpu-limit" :> "cpu/limit") @@ ("memory-limit" :> "memory/limit")
        @@ ("memory-usage" :> "memory/usage") @@ ("memory-working" :> "memory/working_set")
ConvertMetricName(m) ==
    IF m \in DOMAIN DeprecatedMetricNamesConversion THEN DeprecatedMetricNamesConversion[m] ELSE m
MetricName(r) == ConvertMetricName(PathParameter(r, "metric-name"))

BadRequest == [code |-> 400, body |-> << >>]
Failed == [code |-> 500, body |-> << >>]
Undefined == [code |-> 0, body |-> << >>]
Answer(body) == [code |-> 200, body |-> body]

-----------------------------------------------------------------------------
(* The model API                                                           *)

ModelContainerKey(r) ==
    IF r.handler \in {"availablePodContainerMetrics", "podContainerMetrics"}
    THEN PodContainerKey(PathParameter(r, "namespace-name"), PathParameter(r, "pod-name"),
                         PathParameter(r, "container-name"))
    ELSE NodeContainerKey(PathParameter(r, "node-name"), PathParameter(r, "container-name"))

\* The key of what a handler is about.
ModelKey(r) ==
    LET P(p) == PathParameter(r, p)
    IN  CASE r.handler \in {"availableClusterMetrics", "clusterMetrics"} -> ClusterKey
          [] r.handler \in {"availableNodeMetrics", "nodeMetrics"} -> NodeKey(P("node-name"))
          [] r.handler \in {"availableNamespaceMetrics", "namespaceMetrics"} -> NamespaceKey(P("namespace-name"))
          [] r.handler \in {"availablePodMetrics", "podMetrics"} -> PodKey(P("namespace-name"), P("pod-name"))
          [] OTHER -> ModelContainerKey(r)

NamesHandlers == {"availableClusterMetrics", "availableNodeMetrics", "availableNamespaceMetrics",
                  "availablePodMetrics", "availablePodContainerMetrics", "availableFreeContainerMetrics"}
MetricHandlers == {"clusterMetrics", "nodeMetrics", "namespaceMetrics", "podMetrics", "podContainerMetrics",
                   "freeContainerMetrics"}

\* exportTimestampedMetricValue: the points and the latest of their timestamps.
ExportTimestampedMetricValue(points) ==
    [points |-> points, latest |-> IF points = << >> THEN ZeroTime ELSE Max(Range(points))]

\* processMetricRequest, with an item per key.
ModelGet(r, key) ==
    IF r.query.labels = {} THEN GetMetric(MetricName(r), key, Start(r.query), End(r.query))
    ELSE GetLabeledMetric(unlocked, MetricName(r), r.query.labels, key, Start(r.query), End(r.query))
ModelMetrics(r, keys) ==
    IF TimesBad(r.query) \/ LabelsBad(r.query) THEN BadRequest
    ELSE IF r.query.labels # {} /\ 0 \in Range(unlocked) THEN Undefined
    ELSE Answer([i \in DOMAIN keys |-> ExportTimestampedMetricValue(ModelGet(r, keys[i]))])
ModelPodListMetrics(r) ==
    LET pods == Split[PathParameter(r, "pod-list")]
    IN  ModelMetrics(r, [i \in DOMAIN pods |-> PodKey(PathParameter(r, "namespace-name"), pods[i])])

ModelMetricNames(r) == Answer(GetMetricNames(ModelKey(r)))

ModelList(r) ==
    LET P(p) == PathParameter(r, p)
    IN  CASE r.handler = "nodeList" -> GetNodes
          [] r.handler = "namespaceList" -> GetNamespaces
          [] r.handler = "namespacePodList" -> GetPodsFromNamespace(P("namespace-name"))
          [] r.handler = "podContainerList" -> GetContainersForPodFromNamespace(P("namespace-name"), P("pod-name"))
          [] r.handler = "nodeSystemContainerList" -> GetSystemContainersFromNode(P("node-name"))
          [] r.handler = "allKeys" -> GetMetricSetKeys

ModelReply(r) ==
    CASE r.handler \in MetricHandlers -> ModelMetrics(r, <<ModelKey(r)>>)
      [] r.handler = "podListMetrics" -> ModelPodListMetrics(r)
      [] r.handler \in NamesHandlers -> ModelMetricNames(r)
      [] OTHER -> Answer(ModelList(r))

-----------------------------------------------------------------------------
(* The historical API                                                      *)

Key(type, node, ns, pod, container, id) ==
    [type |-> type, node |-> node, namespace |-> ns, pod |-> pod, container |-> container, id |-> id]

HistoricalPodContainerKey(r) ==
    IF PathParameter(r, "pod-id") # ""
    THEN Key("pod_container", "", "", "", PathParameter(r, "container-name"), PathParameter(r, "pod-id"))
    ELSE Key("pod_container", "", PathParameter(r, "namespace-name"), PathParameter(r, "pod-name"),
             PathParameter(r, "container-name"), "")

\* The handlers of names, of values and of aggregations make the same keys.
HistoricalKey(r) ==
    LET P(p) == PathParameter(r, p)
    IN  CASE r.handler \in {"availableClusterMetrics", "clusterMetrics", "clusterAggregations"} ->
                Key("cluster", "", "", "", "", "")
          [] r.handler \in {"availableNodeMetrics", "nodeMetrics", "nodeAggregations"} ->
                Key("node", P("node-name"), "", "", "", "")
          [] r.handler \in {"availableNamespaceMetrics", "namespaceMetrics", "namespaceAggregations"} ->
                Key("ns", "", P("namespace-name"), "", "", "")
          [] r.handler \in {"availablePodMetrics", "podMetrics", "podAggregations"} ->
                IF P("pod-id") # "" THEN Key("pod", "", "", "", "", P("pod-id"))
                ELSE Key("pod", "", P("namespace-name"), P("pod-name"), "", "")
          [] r.handler \in {"availablePodContainerMetrics", "podContainerMetrics", "podContainerAggregations"} ->
                HistoricalPodContainerKey(r)
          [] r.handler \in {"availableFreeContainerMetrics", "freeContainerMetrics", "freeContainerAggregations"} ->
                Key("sys_container", P("node-name"), "", "", P("container-name"), "")

\* The keys of podListMetrics and podListAggregations.
HistoricalPodListKeys(r) ==
    LET ids == PathParameter(r, "pod-id-list")
        names == Split[IF ids # "" THEN ids ELSE PathParameter(r, "pod-list")]
    IN  [i \in DOMAIN names |->
            IF ids # "" THEN Key("pod", "", "", "", "", names[i])
            ELSE Key("pod", "", PathParameter(r, "namespace-name"), names[i], "", "")]

\* processMetricRequest; the latest of the timestamps is left out of the answer.
HistoricalMetrics(r, keys) ==
    LET got == HistoricalGetMetric(MetricName(r), r.query.labels, keys, Start(r.query), End(r.query))
    IN  CASE HistoricalTimesBad(r.query) \/ LabelsBad(r.query) -> BadRequest
          [] OTHER -> IF got.err THEN Failed ELSE Answer(got.rows)

HistoricalPodListMetrics(r) == HistoricalMetrics(r, HistoricalPodListKeys(r))

\* exportTimestampedAggregationValue: the buckets and the largest of their sizes.
ExportTimestampedAggregationValue(buckets) ==
    [buckets |-> buckets, size |-> Max({0} \cup {b.size : b \in buckets})]

\* processAggregationRequest.
HistoricalAggregations(r, keys) ==
    LET got == GetAggregation(MetricName(r), r.query.labels, GetAggregations(r), keys,
                              Start(r.query), End(r.query), BucketSize(r.query))
    IN  CASE \/ HistoricalTimesBad(r.query) \/ BucketBad(r.query)
             \/ ~(GetAggregations(r) \subseteq AllAggregations) \/ LabelsBad(r.query) -> BadRequest
          [] OTHER -> IF got.err THEN Failed
                      ELSE Answer([i \in DOMAIN got.rows |-> ExportTimestampedAggregationValue(got.rows[i])])

HistoricalPodListAggregations(r) == HistoricalAggregations(r, HistoricalPodListKeys(r))

\* The handlers of the aggregations of one object.
AggregationHandlers == {"clusterAggregations", "nodeAggregations", "namespaceAggregations", "podAggregations",
                        "podContainerAggregations", "freeContainerAggregations"}

HistoricalAggregationsOf(r) == HistoricalAggregations(r, <<HistoricalKey(r)>>)

\* processMetricNamesRequest.
Written(got) == IF got.err THEN Failed ELSE Answer(got.names)
HistoricalMetricNames(r) == Written(HistoricalGetMetricNames(HistoricalKey(r)))

HistoricalList(r) ==
    CASE r.handler = "nodeList" -> HistoricalGetNodes
      [] r.handler = "namespaceList" -> HistoricalGetNamespaces
      [] r.handler = "namespacePodList" -> HistoricalGetPodsFromNamespace(PathParameter(r, "namespace-name"))
      [] r.handler = "nodeSystemContainerList" ->
            HistoricalGetSystemContainersFromNode(PathParameter(r, "node-name"))

\* podContainerList is the model API's: the historical one has none of its own.
HistoricalReply(r) ==
    CASE r.handler \in MetricHandlers -> HistoricalMetrics(r, <<HistoricalKey(r)>>)
      [] r.handler = "podListMetrics" -> HistoricalPodListMetrics(r)
      [] r.handler \in AggregationHandlers -> HistoricalAggregationsOf(r)
      [] r.handler = "podListAggregations" -> HistoricalPodListAggregations(r)
      [] r.handler \in NamesHandlers -> HistoricalMetricNames(r)
      [] r.handler = "podContainerList" -> Answer(ModelList(r))
      [] OTHER -> Written(HistoricalList(r))

Reply(r) == IF r.api = "model" THEN ModelReply(r) ELSE HistoricalReply(r)

-----------------------------------------------------------------------------
(* The export of the newest batch                                          *)

\* NewApi: the metrics that are exported.
GkeMetrics == {d.name : d \in StandardMetrics \cup LabeledMetrics} \cup {"cpu/limit", "memory/limit"}

\* Mutant: the batch exported last is taken for the newest.
NewestBatchLast == GetLatestDataBatch

\* The newest batch of the short store, 0 without any.
NewestBatch == Max({0} \cup GetShortStore)

\* processMetricsRequest: the timeseries of nodes, pods and containers.
ProcessMetricsRequest ==
    IF NewestBatch = 0 THEN {}
    ELSE {[key |-> KeyOf(s), batch |-> NewestBatch,
           container |-> CASE s.type = "node" -> "machine" [] s.type = "pod" -> "/pod" [] OTHER -> s.container,
           points |-> (s.values \cap GkeMetrics) \cup {m[1] : m \in {l \in s.labeled : l[1] \in GkeMetrics}}] :
             s \in {x \in Batches[NewestBatch] : x.type \in {"node", "pod", "pod_container", "sys_container"}}}

GetMetricsResponse == IF conf.disableExport THEN {} ELSE ProcessMetricsRequest

-----------------------------------------------------------------------------
Init ==
    /\ StoresInit
    /\ HistoryInit
    /\ listing = NoListing
    /\ unlocked = << >>

Export(t) ==
    /\ ExportData(t)
    /\ listing' = SeenBy(listing, t)
    /\ unlocked' \in Torn(shortStore, shortStore')
    /\ UNCHANGED historyVars

Next ==
    \/ \E t \in Timestamps : Export(t)
    \/ /\ \/ \E t \in Timestamps : InfluxExport(t) /\ UNCHANGED listing
          \/ ServerChanges /\ UNCHANGED listing
          \/ Tick /\ UNCHANGED <<listing, historyVars>>
          \/ ListingNext /\ UNCHANGED historyVars
       /\ unlocked' = shortStore

Spec == Init /\ [][Next]_vars

-----------------------------------------------------------------------------
\* Replies do not depend on the list being made: they are looked at between lists.  And
\* but for labeled metrics they do not depend on what is seen without the lock.
BetweenLists == listing.kind = "none"
AtRest == BetweenLists /\ unlocked = shortStore

Ask(api, handler, path, query) == Reply([api |-> api, handler |-> handler, path |-> path, query |-> query])

\* Every point that is sure to be retained or stored.
Always == [start |-> <<0>>, end |-> <<MaxTime + Second>>, labels |-> {}, bucket |-> << >>]

NamesRequests == {r \in Requests : r.handler \in NamesHandlers /\ r.query = Always}

MetricHandlerOf ==
    ("availableClusterMetrics" :> "clusterMetrics") @@ ("availableNodeMetrics" :> "nodeMetrics")
        @@ ("availableNamespaceMetrics" :> "namespaceMetrics") @@ ("availablePodMetrics" :> "podMetrics")
        @@ ("availablePodContainerMetrics" :> "podContainerMetrics")
        @@ ("availableFreeContainerMetrics" :> "freeContainerMetrics")

\* The names under which metrics of the name or, with fields, of the measurement m are
\* asked for.
MetricsNamed(api, m) ==
    IF api = "historical" /\ conf.fields THEN {x \in DOMAIN Parts : Parts[x][1] = m} ELSE {m}

NamesIn(reply) == IF reply.code = 200 THEN reply.body ELSE {}
HasPoints(api, reply) ==
    reply.code = 200 /\ IF api = "model" THEN reply.body[1].points # << >> ELSE reply.body[1] # {}

\* What the historical API lists has names: nodes and their system containers,
\* namespaces and their pods, those apart that no query may name.
HistoryListedIsNamed ==
    LET Listed(got) == IF got.err THEN {} ELSE got.names \ Unsanitary
        Named(type, node, ns, pod, c) == ~HistoricalGetMetricNames(Key(type, node, ns, pod, c, "")).err
    IN  /\ \A n \in Listed(HistoricalGetNodes) :
            /\ Named("node", n, "", "", "")
            /\ \A c \in Listed(HistoricalGetSystemContainersFromNode(n)) : Named("sys_container", n, "", "", c)
        /\ \A ns \in Listed(HistoricalGetNamespaces) :
            /\ Named("ns", "", ns, "", "")
            /\ \A pod \in Listed(HistoricalGetPodsFromNamespace(ns)) : Named("pod", "", ns, pod, "")

\* What the APIs list can be asked for.  Every name of a metric listed for an object
\* is answered with points, by the model from whichever of its stores; of a
\* measurement that the history lists when fields are in use some metric is.  Every
\* node, namespace, pod and container listed has names, but for the nodes whose
\* hostname, under which the model lists them, is not the name it keeps them by.
ListedIsAnswered == AtRest =>
    /\ \A r \in NamesRequests : \A n \in NamesIn(Reply(r)) : \E m \in MetricsNamed(r.api, n) :
        HasPoints(r.api, Ask(r.api, MetricHandlerOf[r.handler], r.path @@ ("metric-name" :> m), Always))
    /\ \A node \in {s.nodename : s \in {x \in LatestSets : x.type = "node" /\ x.nodename = x.hostname}} :
        /\ node \in GetNodes /\ GetMetricNames(NodeKey(node)) # {}
        /\ \A c \in GetSystemContainersFromNode(node) : GetMetricNames(NodeContainerKey(node, c)) # {}
    /\ \A ns \in GetNamespaces :
        /\ GetMetricNames(NamespaceKey(ns)) # {}
        /\ \A pod \in GetPodsFromNamespace(ns) :
            /\ GetMetricNames(PodKey(ns, pod)) # {}
            /\ \A c \in GetContainersForPodFromNamespace(ns, pod) : GetMetricNames(PodContainerKey(ns, pod, c)) # {}
    /\ HistoryListedIsNamed

\* Requests for values, in which the size of buckets does not matter.
ValueRequests == {[r EXCEPT !.query.bucket = << >>] : r \in {x \in Requests : x.handler \in MetricHandlers}}

\* Those by the names of an object, without labels.
HistoricalMetricRequests ==
    {r \in ValueRequests : /\ r.api = "historical" /\ "pod-id" \notin DOMAIN r.path
                           /\ r.query.labels = {} /\ \A d \in LabeledMetrics : d.name # MetricName(r)}

\* A reply has the values of the object in its range that are in the database.
FindsStored(r, reply) ==
    LET stored == {t \in db : ~Skipped(conf, MetricName(r)) /\ Holds(t, ModelKey(r), MetricName(r))}
        found == {p.time : p \in reply.body[1]}
        within == {t \in stored : t > Start(r.query) /\ t <= End(r.query) - Second}
    IN  IF reply.code = 200
        THEN /\ within \subseteq found /\ found # {}
             /\ found \subseteq {t \in stored : t > Start(r.query) - Second /\ t < End(r.query)}
             /\ Cardinality(reply.body[1]) = Cardinality(found)
        ELSE /\ reply.code = 500
             /\ within = {} \/ server = "down" \/ ~CheckSanitizedKey(HistoricalKey(r))


\* The handler of raw values that goes with one of aggregations.
RawHandlerOf ==
    ("clusterAggregations" :> "clusterMetrics") @@ ("nodeAggregations" :> "nodeMetrics")
        @@ ("namespaceAggregations" :> "namespaceMetrics") @@ ("podAggregations" :> "podMetrics")
        @@ ("podContainerAggregations" :> "podContainerMetrics")
        @@ ("freeContainerAggregations" :> "freeContainerMetrics") @@ ("podListAggregations" :> "podListMetrics")

AggregationRequests ==
    {r \in Requests : /\ r.handler \in DOMAIN RawHandlerOf /\ ~BucketBad(r.query)
                      /\ GetAggregations(r) \subseteq AllAggregations}

\* The size of the buckets that a query asks for, whether or not a Duration can hold it.
SizeAsked(q) == IF q.bucket = << >> THEN 0 ELSE q.bucket[1] * q.bucket[2]
SizeHeld(q) == SizeAsked(q) < 2 ^ (DurationBits - 1)

\* The buckets of one object and its values.
BucketsHold(buckets, values, counted) ==
    LET During(b) == {p \in values : b.size > 0 => p.time \in b.at .. b.at + b.size - 1}
    IN  /\ server # "overrun" => UNION {b.of : b \in buckets} = values
        /\ \A b, c \in buckets : b # c => b.of \cap c.of = {}
        /\ \A b \in buckets : b.of # {} /\ b.of = During(b) /\ (counted => b.count = Cardinality(b.of))

\* The reply with aggregations and the one with the values.
Agree(r, aggregated, raw) ==
    /\ aggregated.code # raw.code => ~SizeHeld(r.query) /\ aggregated.code = 500
    /\ aggregated.code = 200 => \A i \in DOMAIN raw.body :
        /\ SizeHeld(r.query) => aggregated.body[i].size = SizeAsked(r.query)
        /\ BucketsHold(aggregated.body[i].buckets, raw.body[i], "count" \in GetAggregations(r))

\* Aggregations agree with the values.  A request for aggregations over buckets is
\* answered when the one for the values is, unless the size asked for overflows to a
\* negative one.  Each bucket holds every value of its time and no other, and between
\* them they hold all the values, unless the server was overrun and left some out.  The
\* buckets have the size asked for if a Duration can hold it.
AggregatesAgree == AtRest /\ db # {} =>
    \A r \in AggregationRequests :
        Agree(r, HistoricalReply(r),
              HistoricalReply([r EXCEPT !.handler = RawHandlerOf[@], !.path = Restrict(@, DOMAIN @ \ {"aggregations"})]))

ModelMetricRequests == {r \in ValueRequests : r.api = "model"}

\* A point of batch t is one that the request asks for.
AsksFor(r, t) ==
    /\ t >= Start(r.query) /\ t <= End(r.query)
    /\ \E s \in Batches[t] :
        /\ IF r.query.labels = {} THEN MetricName(r) \in s.values
           ELSE <<MetricName(r), r.query.labels>> \in s.labeled
        /\ KeyOf(s) = ModelKey(r)

TornPointsTrue(r, points) ==
    \A t \in Range(points) : AsksFor(r, t) /\ \E i \in DOMAIN exports : exports[i][1] = t
PointsTrue(r, points, latest) ==
    LET long == r.query.labels = {} /\ MetricName(r) \in LongMetrics
    IN  /\ IsInjective(points)
        /\ Range(points) = {t \in Retained(IF long THEN LongStoreDuration ELSE ShortStoreDuration) : AsksFor(r, t)}
        /\ points # << >> => latest = Max(Range(points))
ReplyTrue(r, reply) ==
    IF r.query.labels # {} /\ unlocked # shortStore
    THEN reply.code = 200 => TornPointsTrue(r, reply.body[1].points)
    ELSE reply.code = 200 /\ PointsTrue(r, reply.body[1].points, reply.body[1].latest)

\* The replies of the model API tell the truth.  They hold, each once, exactly the
\* points in the range that the metric's store is to retain, of the object asked for
\* and with just the labels asked for.  When labeled metrics are read without the lock
\* from a store torn by an export, points may be missing, repeated or no longer
\* retained, but each is still of a batch that was exported, in the range, of that
\* object and with those labels; or the read is undefined.
RepliesTrue == BetweenLists =>
    \A r \in {x \in ModelMetricRequests : ~TimesBad(x.query) /\ ~LabelsBad(x.query)} :
        AtRest \/ r.query.labels # {} => ReplyTrue(r, ModelReply(r))

\* The export shows the newest batch of those retained, whatever order they came
\* in, and in it every node, pod and container.
NewestExported == AtRest =>
    /\ \A x \in GetMetricsResponse :
        /\ x.batch \in Retained(ShortStoreDuration)
        /\ \A t \in Retained(ShortStoreDuration) : t <= x.batch
    /\ ~conf.disableExport => \A t \in Retained(ShortStoreDuration) : \A s \in Batches[t] :
        s.type \in {"node", "pod", "pod_container", "sys_container"} =>
            \E x \in GetMetricsResponse : x.batch > t \/ x.key = KeyOf(s)

\* The history of a pod is found by its id, which "may be used in place of the
\* combination of PodName and NamespaceName": what it answers by name it answers by id.
HistoryByPodId ==
    \A s \in UNION {Batches[t] : t \in db}, m \in DOMAIN Parts :
        s.type = "pod" =>
            LET ByName == Ask("historical", "podMetrics", ("namespace-name" :> s.namespace) @@ ("pod-name" :> s.pod)
                                                            @@ ("metric-name" :> m), Always)
                ById == Ask("historical", "podMetrics", ("pod-id" :> s.id) @@ ("metric-name" :> m), Always)
            IN  ByName.code = 200 => ById.code = 200
=============================================================================
