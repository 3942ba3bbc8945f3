-------------------------------- MODULE Sinks --------------------------------
(***************************************************************************)
(* A sink in the life that the factory and the sink manager give it: it is *)
(* created from the options of its URI or refused, it exports batches      *)
(* while its server fails now and then, and it is stopped.  One behaviour  *)
(* has one sink; which one is chosen at the start.                         *)
(***************************************************************************)
EXTENDS ConnectionSinks, RequestSinks, StoreSinks, AlertSinks, HawkularSink,
        StackdriverSeries

CONSTANTS
    Drivers,        \* the sinks to look at
    MaxPoints       \* bound: the points of a batch

ASSUME SinksAssumption == MaxBatch \in Nat \ {0} /\ MaxCalls \in Nat /\ MaxPoints \in Nat

EventDrivers == {"riemann events", "kafka events", "honeycomb events", "log events", "gcl", "sls",
                 "influxdb events", "elasticsearch events"}

VARIABLES
    driver,     \* the scheme of the sink
    phase,      \* "new", "refused", "idle", "exported", "stopped" or "other"
    batch,      \* the batch of the export that has just returned
    faults,     \* what failed during it
    sink        \* the state of the sink

sinkVars == <<driver, phase, batch, faults, sink>>
vars == <<sinkVars, alertVars, hkVars, sdVars>>

\* Parsed options: Bad and NotANumber for one that cannot be parsed, a default
\* for one that is absent.
Flag == {"true", "false", Bad}
Options(d) ==
    CASE d \in {"riemann", "riemann events"} -> [ttl : {"good", Bad}, batchsize : {NotANumber, 0, 1, MaxBatch}]
      [] d = "graphite" -> [port : {NotANumber, 2003}, protocol : {"tcp", "udp", "nop", "other"}]
      [] d = "statsd" -> [numMetricsPerMsg : {NotANumber, 0, 1, MaxBatch}, allowedLabels : {"all", "no type"},
                          protocolType : {"etsystatsd", "influxstatsd", Bad}]
      [] d = "wavefront" -> [includeLabels : {"false", Bad}, includeContainers : Flag, testMode : Flag]
      [] d \in {"kafka", "kafka events"} ->
            [topicType : {IF d = "kafka" THEN "timeseriestopic" ELSE "eventstopic"}, compression : {"gzip", Bad},
             brokers : BOOLEAN, cacert : BOOLEAN, cert : BOOLEAN, key : {TRUE}, readable : BOOLEAN,
             insecuressl : {"true", Bad}]
      [] d = "librato" -> [username : BOOLEAN, token : BOOLEAN]
      [] d \in {"honeycomb", "honeycomb events"} -> [writekey : BOOLEAN]
      [] d = "sls" -> [project : BOOLEAN, logStore : BOOLEAN, keys : BOOLEAN]
      [] d = "influxdb events" -> [withfields : Flag, secure : {"true", Bad}, insecuressl : {"true", Bad},
                                   counters : {"false", Bad}, concurrency : {NotANumber, 0, 1}]
      [] d \in {"elasticsearch", "elasticsearch events"} ->
            [maxRetries : {"good", Bad}, healthCheck : {"good", Bad}, startupTimeout : {"good"}, sniff : {"good", Bad},
             bulkWorkers : {"good"}, ver : {NotANumber, 2, 5, 6}, nodes : BOOLEAN, host : BOOLEAN]
      [] d = "gcm" -> [metrics : {"all", "autoscaling", Bad}, scheme : BOOLEAN, host : {FALSE},
                       existing : {{}, {"gauge", "autoscaling", "labeled"}}]
      [] OTHER -> [none : {TRUE}]     \* opentsdb, gcl and the log sinks look at no option

\* The kinds of points that the sink treats differently.
Kinds(d) ==
    CASE d \in {"opentsdb", "gcm"} -> {"gauge", "labeled", "autoscaling"}
      [] d = "honeycomb" -> {"gauge", "counter", "labeled"}
      [] d = "wavefront" -> {"node", "container", "slice"}
      [] d = "elasticsearch" -> {1, 2} \X {"cpu", "memory"}
      [] d = "elasticsearch events" -> {"today", "yesterday"}
      [] d \in EventDrivers -> {"event"}
      [] OTHER -> {"gauge"}

\* The peculiar ways in which a call to the server of the sink can fail.
Ways(d) ==
    CASE d \in {"elasticsearch", "elasticsearch events"} -> {"answer lost", "item errors", "early commit"}
      [] d = "gcm" -> {"answer lost"}
      [] d = "influxdb events" -> {"database exists", "policy exists", "no database"}
      [] OTHER -> {}

Batches(d) == UNION {[1 .. n -> Kinds(d)] : n \in 0 .. MaxPoints}

\* The factories of the metric sinks and of the event sinks.
BuildData(d, o, f) ==
    CASE d = "riemann" -> CreateRiemannSink(o, f)
      [] d = "opentsdb" -> CreateOpenTSDBSink(o, f)
      [] d = "graphite" -> NewGraphiteSink(o, f)
      [] d = "statsd" -> NewStatsdSink(o, f)
      [] d = "wavefront" -> NewWavefrontSink(o, f)
      [] d = "kafka" -> NewKafkaClient(o, f)
      [] d = "librato" -> CreateLibratoSink(o, f)
      [] d = "honeycomb" -> NewHoneycombSink(o, f)
      [] d = "log" -> NewLogSink
      [] d = "elasticsearch" -> CreateElasticSearchService(o, f)
      [] d = "gcm" -> CreateGCMSink(o, f)
BuildEvents(d, o, f) ==
    CASE d = "riemann events" -> CreateRiemannSink(o, f)
      [] d = "kafka events" -> NewKafkaClient(o, f)
      [] d = "honeycomb events" -> NewHoneycombSink(o, f)
      [] d = "log events" -> NewLogSink
      [] d = "gcl" -> CreateGCLSink(o, f)
      [] d = "sls" -> NewSLSSink(o, f)
      [] d = "influxdb events" -> CreateInfluxdbEventSink(o, f)
      [] d = "elasticsearch events" -> CreateElasticSearchService(o, f)

All(b) == [i \in 1 .. Len(b) |-> i]

\* ExportData or ExportEvents.
Export(d, s, b, f) ==
    CASE d = "riemann" -> RiemannExportData(s, All(b), f)
      [] d = "riemann events" -> RiemannExportEvents(s, All(b), f)
      [] d = "opentsdb" -> OpentsdbExportData(s, Points(b, {"gauge", "autoscaling"}), f)
      [] d = "graphite" -> GraphiteExportData(s, All(b), f)
      [] d = "statsd" -> StatsdExportData(s, All(b), f)
      [] d = "wavefront" -> WavefrontExportData(s, b, f)
      [] d = "kafka" -> KafkaExportData(s, All(b), f)
      [] d = "kafka events" -> KafkaExportEvents(s, All(b), f)
      [] d = "librato" -> LibratoExportData(s, All(b), f)
      [] d = "honeycomb" -> HoneycombExportData(s, b, f)
      [] d = "honeycomb events" -> HoneycombExportEvents(s, b, f)
      [] d = "log" -> LogExportData(s, All(b))
      [] d = "log events" -> LogExportEvents(s, All(b))
      [] d = "gcl" -> GclExportEvents(s, All(b), f)
      [] d = "sls" -> SlsExportEvents(s, All(b), f)
      [] d = "influxdb events" -> InfluxExportEvents(s, All(b), f)
      [] d = "elasticsearch" -> EsExportData(s, b, f)
      [] d = "elasticsearch events" -> EsExportEvents(s, b, f)
      [] d = "gcm" -> GcmExportData(s, b, f)

\* Stop; most sinks do nothing.
Stopped(d, s) ==
    CASE d = "riemann events" -> RiemannEventsStop(s)
      [] d = "graphite" -> GraphiteStop(s)
      [] d = "statsd" -> StatsdStop(s)
      [] d = "wavefront" -> WavefrontStop(s)
      [] OTHER -> s

SinkInit ==
    /\ driver \in Drivers /\ phase = "new"
    /\ batch = <<>> /\ faults = NoFaults /\ sink = NoSink

\* The factory builds the sink; one that is refused is left out.
Build ==
    /\ phase = "new"
    /\ \E o \in Options(driver), f \in Faults(Ways(driver)) :
          LET r == IF driver \in EventDrivers THEN BuildEvents(driver, o, f) ELSE BuildData(driver, o, f)
          IN /\ phase' = IF r.err THEN "refused" ELSE "idle"
             /\ sink' = r.sink
    /\ UNCHANGED <<driver, batch, faults>>

\* The sink manager has the sink export a batch.
ExportBatch ==
    /\ phase = "idle" /\ ~sink.panicked
    /\ \E b \in Batches(driver), f \in Faults(Ways(driver)) :
          /\ batch' = b /\ faults' = f
          /\ sink' = Export(driver, sink, b, f)
    /\ phase' = "exported"
    /\ UNCHANGED driver

\* The next batch is awaited; what happened is forgotten.
Return ==
    /\ phase = "exported" /\ ~sink.panicked
    /\ phase' = "idle"
    /\ batch' = <<>> /\ faults' = NoFaults /\ sink' = Fresh(sink)
    /\ UNCHANGED driver

StopSink ==
    /\ phase = "idle" /\ ~sink.panicked
    /\ phase' = "stopped"
    /\ sink' = Stopped(driver, sink)
    /\ UNCHANGED <<driver, batch, faults>>

NoSinkInit == driver = "other" /\ phase = "other" /\ batch = <<>> /\ faults = NoFaults /\ sink = NoSink
NoAlertInit ==
    /\ package = "none" /\ level = 0 /\ clock = 0
    /\ recorder = <<>> /\ handled = <<>> /\ robot = <<>>

Init ==
    \/ SinkInit /\ NoAlertInit /\ HkOff /\ SdOff
    \/ NoSinkInit /\ AlertInit /\ HkOff /\ SdOff
    \/ NoSinkInit /\ NoAlertInit /\ HkInit /\ SdOff
    \/ NoSinkInit /\ NoAlertInit /\ HkOff /\ SdInit

Next ==
    \/ (Build \/ ExportBatch \/ Return \/ StopSink) /\ UNCHANGED <<alertVars, hkVars, sdVars>>
    \/ package # "none" /\ AlertNext /\ UNCHANGED <<sinkVars, hkVars, sdVars>>
    \/ HkNext /\ UNCHANGED <<sinkVars, alertVars, sdVars>>
    \/ SdNext /\ UNCHANGED <<sinkVars, alertVars, hkVars>>

Spec == Init /\ [][Next]_vars

-----------------------------------------------------------------------------
Messages == SelectSeq(sink.calls, LAMBDA c : c.op = "data")
InMessage(m) == ToSet(Messages[m].points)
Tried == UNION {InMessage(m) : m \in DOMAIN Messages}
Delivered == UNION {InMessage(m) : m \in {n \in DOMAIN Messages : Messages[n].ok}}

\* The points that the sink is meant to send.
Wanted ==
    CASE driver = "opentsdb" -> ToSet(Points(batch, {"gauge", "autoscaling"}))
      [] driver = "graphite" -> IF sink.conf = "nop" THEN {} ELSE DOMAIN batch
      [] driver = "honeycomb" -> ToSet(Points(batch, {"gauge"}))
      [] driver = "wavefront" -> IF sink.conf.testMode = "true" THEN {} ELSE ToSet(Points(batch, WavefrontKinds(sink.conf)))
      [] driver = "statsd" -> IF sink.conf.protocolType = "etsystatsd" THEN ToSet(EtsyFormat(sink.conf, All(batch)))
                              ELSE DOMAIN batch
      [] driver = "gcm" -> ToSet(Points(batch, GcmFilter(sink)))
      [] OTHER -> DOMAIN batch

\* However earlier exports failed, an export during which every call succeeds
\* delivers every point: a sink that lost its connection, its client or its
\* database gets it back.
HealthyExportComplete ==
    phase = "exported" /\ faults.at = {} /\ ~sink.panicked => Delivered = Wanted

\* A failed message costs no more than it must.  Riemann and OpenTSDB give up the
\* rest of the batch, so that what arrives is a beginning of it; the sinks that
\* send message by message still try every point.
LossesContained ==
    phase = "exported" /\ ~sink.panicked =>
        /\ driver \in {"riemann", "riemann events", "opentsdb"} =>
              \A p \in Delivered : \A q \in Wanted : q < p => q \in Delivered
        /\ driver \in {"statsd", "wavefront", "kafka", "kafka events", "librato", "gcm"} /\ Messages # <<>> =>
              Tried = Wanted

\* The messages, put together, are the headers; all are full but the last.
CutsInto(hs, n, ms) ==
    /\ FoldLeft(LAMBDA all, m : all \o m, <<>>, ms) = hs
    /\ n > 0 => \A i \in DOMAIN ms : Len(ms[i]) = n \/ (i = Len(ms) /\ Len(ms[i]) \in 1 .. n)

\* Every metric that passes the filters of the Hawkular sink is written to its tenant,
\* once; toBatches cuts as it should for other lengths and batch sizes as well.
HeadersWritten ==
    /\ hkPhase = "new" => \A k \in 0 .. 7, n \in 0 .. 3 :
          LET hs == [i \in 1 .. k |-> i] IN CutsInto(hs, n, ToBatches(hs, n))
    /\ hkPhase = "waiting" =>
          /\ {Tenant(m.set) : m \in ToSet(headers)} \subseteq DOMAIN messages
          /\ \A t \in DOMAIN messages : CutsInto(HeadersFor(t), HkBatch, messages[t])

\* Within an export no point is sent twice and no message is longer than the
\* batch size of the sink (one point, when that is configured as zero).
MessagesSound ==
    /\ HeadersWritten
    /\ \A m, n \in DOMAIN Messages : m # n => InMessage(m) \cap InMessage(n) = {}
    /\ \A m \in DOMAIN Messages :
          LET length == Len(Messages[m].points)
          IN /\ Cardinality(InMessage(m)) = length
             /\ driver \in {"riemann", "riemann events"} => length = 1 \/ length <= sink.conf
             /\ driver = "statsd" => length <= sink.conf.numMetricsPerMsg
             /\ driver \in {"opentsdb", "librato", "gcm", "influxdb events"} => length <= MaxBatch

\* No call of any sink goes through a client that is nil, in whichever call of this
\* or of an earlier export it was lost.  The process ends only in the bulk callback
\* of Elasticsearch, in SLS without keys and without a metadata server, and in the
\* Stop of some sinks; and in Graphite, with an unknown scheme, or in the first call
\* of an export after one whose reconnection failed.
NilClientUnused ==
    sink.panicked =>
        \/ driver \in {"elasticsearch", "elasticsearch events"} /\ sink.client
        \/ driver = "sls" /\ ~sink.conf
        \/ driver = "graphite" /\ sink.calls = <<>>
        \/ phase = "stopped" /\ driver \in {"wavefront", "riemann events"}

\* Whatever step of the preparation failed, now or in an earlier export, nothing
\* is written before the index and the alias of the document, or the descriptor
\* of the metric, are on the server.
ServerPrepared ==
    /\ driver = "elasticsearch" => \A p \in Tried : EsMetricNeeds(batch[p]) \subseteq sink.server
    /\ driver = "elasticsearch events" => \A p \in Tried : EsEventNeeds(batch[p]) \subseteq sink.server
    /\ driver = "gcm" => \A p \in Tried : batch[p] \in sink.server

\* "There were errors sending events to Graphite, reconecting"; "Failed to execute
\* bulk operation to ElasticSearch": an outage of the server is logged, and the
\* sink goes on with the next export.
OutageSurvived == ~sink.panicked
=============================================================================
