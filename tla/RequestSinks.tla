---------------------------- MODULE RequestSinks -----------------------------
(***************************************************************************)
(* The metric and event sinks whose client cannot be lost, because each    *)
(* message is a request of its own: Kafka (metrics and events), Librato,   *)
(* Honeycomb (metrics and events), GCL, SLS and the log sinks; and the     *)
(* InfluxDB event sink, which creates its client and its database again    *)
(* after an error.                                                         *)
(***************************************************************************)
EXTENDS SinkCalls

-----------------------------------------------------------------------------
\* Kafka.  Every option error refuses the sink, and so does a broker that cannot
\* be reached.
KafkaGetTopic(o) == o.topicType \in {"timeseriestopic", "eventstopic"}
KafkaGetCompression(o) == o.compression # Bad

\* TLS needs a CA certificate, or a certificate and a key; what is there must be
\* readable.  The option insecuressl is parsed only then.
KafkaGetTlsConfiguration(o) ==
    \/ ~o.cacert /\ ~(o.cert /\ o.key)
    \/ o.readable /\ o.insecuressl # Bad

NewKafkaClient(o, f) ==
    LET s == Dial(NoSink, f)
    IN IF /\ KafkaGetTopic(o) /\ KafkaGetCompression(o) /\ o.brokers
          /\ KafkaGetTlsConfiguration(o) /\ s.client
       THEN Created(s, "none") ELSE Refused

ProduceKafkaMessage(s, p, f) == Call(s, "data", <<p>>, f)

\* Mutant: the first message that fails ends the export.
KafkaExportDataStops(s, points, f) ==
    FoldLeft(LAMBDA u, p : IF u.calls # <<>> /\ ~Ok(u) THEN u ELSE ProduceKafkaMessage(u, p, f), s, points)

\* One message per point; an error is logged.
KafkaExportData(s, points, f) == FoldLeft(LAMBDA u, p : ProduceKafkaMessage(u, p, f), s, points)
KafkaExportEvents(s, points, f) == FoldLeft(LAMBDA u, p : ProduceKafkaMessage(u, p, f), s, points)

-----------------------------------------------------------------------------
\* Librato.
LibratoBuildConfig(o) == o.username /\ o.token
CreateLibratoSink(o, f) == IF LibratoBuildConfig(o) THEN Created([NoSink EXCEPT !.client = TRUE], "none") ELSE Refused

LibratoWrite(s, f) == Call(s, "data", s.hand, f)
LibratoSendData(s, f) == LibratoWrite(s, f)

\* Mutant: the measurements already sent stay in the slice.
LibratoAppendKeeps(s, p, f) ==
    LET t == Collect(s, p) IN IF Len(t.hand) >= MaxBatch THEN LibratoSendData(t, f) ELSE t

LibratoAppend(s, p, f) ==
    LET t == Collect(s, p)
    IN IF Len(t.hand) >= MaxBatch THEN [LibratoSendData(t, f) EXCEPT !.hand = <<>>] ELSE t

\* The last request is made even when it is empty.
LibratoExportData(s, points, f) ==
    LibratoSendData(FoldLeft(LAMBDA u, p : LibratoAppend(u, p, f), s, points), f)

-----------------------------------------------------------------------------
\* Honeycomb.  One request for the batch: a record per metric set with its plain
\* metrics, except the counters that the blacklist names.
HoneycombBuildConfig(o) == o.writekey
NewHoneycombSink(o, f) == IF HoneycombBuildConfig(o) THEN Created([NoSink EXCEPT !.client = TRUE], "none") ELSE Refused

HoneycombMakeRequest(s, points, f) == Call(s, "data", points, f)
HoneycombSendBatch(s, b, points, f) == IF b = <<>> THEN s ELSE HoneycombMakeRequest(s, points, f)

Blacklisted == {"counter"}

HoneycombExportData(s, b, f) ==
    HoneycombSendBatch(s, b, Points(b, {"gauge", "counter"} \ Blacklisted), f)
HoneycombExportEvents(s, b, f) == HoneycombSendBatch(s, b, Points(b, {"event"}), f)

-----------------------------------------------------------------------------
\* The log sinks write one entry, which does not fail.
NewLogSink == Created([NoSink EXCEPT !.client = TRUE], "none")
LogExportData(s, points) == Call(s, "data", points, NoFaults)
LogExportEvents(s, points) == Call(s, "data", points, NoFaults)

-----------------------------------------------------------------------------
\* GCL and SLS: nothing for an empty batch, else one request.
CreateGCLSink(o, f) == LET s == Dial(NoSink, f) IN IF s.client THEN Created(s, "none") ELSE Refused
GclExportEvents(s, points, f) == IF points = <<>> THEN s ELSE Call(s, "data", points, f)

SlsParseConfig(o) == o.project /\ o.logStore
NewSLSSink(o, f) == IF SlsParseConfig(o) THEN Created(NoSink, o.keys) ELSE Refused

\* A client for each export.  Without keys in the configuration the metadata
\* server is asked, and its failure is fatal to the process.
SlsNewClient(s, f) == IF s.conf THEN [s EXCEPT !.client = TRUE] ELSE Dial(s, f)
SlsClient(s, f) == LET c == SlsNewClient(s, f) IN [c EXCEPT !.panicked = ~c.client]
SlsExportEvents(s, points, f) ==
    LET c == SlsClient(s, f)
    IN IF points = <<>> THEN s ELSE IF c.panicked THEN c ELSE Call(c, "data", points, f)

-----------------------------------------------------------------------------
\* The InfluxDB event sink; ready is the field dbExists.
InfluxEventsBuildConfig(o) == 
    Bad \notin {o.withfields, o.secure, o.insecuressl, o.counters} /\ o.concurrency > 0
CreateInfluxdbEventSink(o, f) == IF InfluxEventsBuildConfig(o) THEN Created(Dial(NoSink, f), "none") ELSE Refused

InfluxResetConnection(s) == [s EXCEPT !.ready = FALSE, !.client = FALSE]
InfluxCreateRetentionPolicy(s, f) == Call(s, "policy", <<>>, f)

\* An answer that the database or the policy is there already is no error.  Sets
\* done when it returns an error.
InfluxCreateDatabase(s, f) ==
    LET c == IF s.client THEN s ELSE Dial(s, f)
        q == Call(c, "create", <<>>, f)
        r == IF Ok(q) \/ "database exists" \in f.how THEN q ELSE InfluxCreateRetentionPolicy(q, f)
    IN IF ~c.client THEN [c EXCEPT !.done = TRUE]
       ELSE IF c.ready THEN c
       ELSE IF Ok(r) \/ f.how \cap {"database exists", "policy exists"} # {}
       THEN [r EXCEPT !.ready = TRUE] ELSE [r EXCEPT !.done = TRUE]

InfluxSendData(s, f) ==
    LET d == InfluxCreateDatabase(s, f)
        w == Call(d, "data", d.hand, f)
        p == Call(w, "ping", <<>>, f)
        r == IF Ok(w) THEN w
             ELSE IF "no database" \in f.how THEN InfluxResetConnection(w)
             ELSE IF Ok(p) THEN p ELSE InfluxResetConnection(p)
    IN [(IF d.done THEN d ELSE r) EXCEPT !.hand = <<>>, !.done = FALSE]

\* The last write is made even when it is empty.
InfluxExportEvents(s, points, f) ==
    LET Add(u, p) == LET t == Collect(u, p) IN IF Len(t.hand) >= MaxBatch THEN InfluxSendData(t, f) ELSE t
    IN InfluxSendData(FoldLeft(Add, s, points), f)
=============================================================================
