--------------------------- MODULE ConnectionSinks ---------------------------
(***************************************************************************)
(* The metric and event sinks that hold a connection: Riemann (metrics and *)
(* events), OpenTSDB, Graphite, StatsD and Wavefront.  They differ in how  *)
(* they cut a batch into messages, in what an error makes of the rest of   *)
(* the batch and in how a lost connection comes back.                      *)
(***************************************************************************)
EXTENDS SinkCalls

-----------------------------------------------------------------------------
\* Riemann.  A ttl or batch size that cannot be parsed refuses the sink; a
\* server that cannot be reached does not.
GetRiemannClient(s, f) == Dial(s, f)

CreateRiemannSink(o, f) ==
    IF o.ttl = Bad \/ o.batchsize = NotANumber THEN Refused
    ELSE Created(GetRiemannClient(NoSink, f), o.batchsize)

\* Mutant: the client is not looked at.
RiemannSendDataUnchecked(s, f) == Write(s, s.hand, f)

\* Nothing is sent without a client, and that is no error.
RiemannSendData(s, f) == IF s.client THEN Write(s, s.hand, f) ELSE s

\* Mutant: the client is kept after an error.
RiemannFlushKeepsClient(s, f) == [RiemannSendData(s, f) EXCEPT !.hand = <<>>]

\* An error forgets the client; the events are forgotten in any case.
RiemannFlush(s, f) ==
    LET t == RiemannSendData(s, f)
    IN [t EXCEPT !.client = s.client /\ Ok(t), !.hand = <<>>]

\* A batch size of zero or less sends every event alone.
RiemannAppendEvent(s, p, f) ==
    LET t == Collect(s, p) IN IF Len(t.hand) >= s.conf THEN RiemannFlush(t, f) ELSE t

RiemannExportData(s, points, f) ==
    LET c == IF s.client THEN s ELSE GetRiemannClient(s, f)
        t == FoldLeft(LAMBDA u, p : RiemannAppendEvent(u, p, f), c, points)
    IN IF ~c.client THEN c ELSE IF t.hand = <<>> THEN t ELSE RiemannFlush(t, f)

\* The event sink: the same loop over the events of the batch.
RiemannExportEvents(s, points, f) ==
    LET c == IF s.client THEN s ELSE GetRiemannClient(s, f)
        t == FoldLeft(LAMBDA u, p : RiemannAppendEvent(u, p, f), c, points)
    IN IF ~c.client THEN c ELSE IF t.hand = <<>> THEN t ELSE RiemannFlush(t, f)

\* The event sink closes its client when it stops, nil or not.
RiemannEventsStop(s) == [s EXCEPT !.panicked = ~s.client]

-----------------------------------------------------------------------------
\* OpenTSDB.  The client is a value that cannot be lost; the first message that
\* fails ends the export.  (The count writeFailures is read by nothing.)
CreateOpenTSDBSink(o, f) ==
    LET s == Dial(NoSink, f) IN IF s.client THEN Created(s, "none") ELSE Refused

OpentsdbPut(s, f) == LET t == SendHand(s, f) IN [t EXCEPT !.done = ~Ok(t)]

OpentsdbAppend(s, p, f) ==
    LET t == Collect(s, p)
    IN IF s.done THEN s ELSE IF Len(t.hand) >= MaxBatch THEN OpentsdbPut(t, f) ELSE t

\* The last Put is made even when it is empty.
OpentsdbExportData(s, points, f) ==
    LET c == Call(s, "ping", <<>>, f)
        t == FoldLeft(LAMBDA u, p : OpentsdbAppend(u, p, f), c, points)
    IN IF ~Ok(c) THEN c ELSE IF t.done THEN t ELSE OpentsdbPut(t, f)

-----------------------------------------------------------------------------
\* Graphite.  The scheme is tcp, udp, or nop, which never connects; any other
\* leaves the client nil, through which it is then to connect.
GraphiteFactory(protocol, f) ==
    CASE protocol \in {"tcp", "udp"} -> Dial(NoSink, f)
      [] protocol = "nop" -> NoSink
      [] OTHER -> [NoSink EXCEPT !.panicked = TRUE]

\* The sink exists only once it was connected.
NewGraphiteSink(o, f) ==
    LET s == GraphiteFactory(o.protocol, f)
    IN IF o.port = NotANumber \/ (s.calls # <<>> /\ ~s.client) THEN Refused ELSE Created(s, o.protocol)

\* The client library: over UDP the errors of the writes are not looked at.
GraphiteSendMetrics(s, points, f) ==
    CASE s.conf = "tcp" -> Write(s, points, f)
      [] s.conf = "udp" -> Call(s, "data", points, f)
      [] s.conf = "nop" -> s

\* On an error the connection is closed and made again; whether that worked is
\* not looked at.
GraphiteExportData(s, points, f) ==
    LET t == GraphiteSendMetrics(s, points, f)
    IN IF s.conf # "tcp" \/ t.panicked \/ Ok(t) THEN t ELSE Dial(t, f)

GraphiteStop(s) == [s EXCEPT !.panicked = ~s.client, !.client = FALSE]

-----------------------------------------------------------------------------
\* StatsD.
StatsdGetConfig(o) == o.numMetricsPerMsg # NotANumber
NewFormatter(o) == o.protocolType \in {"etsystatsd", "influxstatsd"}

NewStatsdClient(o) == o.numMetricsPerMsg > 0

NewStatsdSink(o, f) ==
    IF StatsdGetConfig(o) /\ NewStatsdClient(o) /\ NewFormatter(o) THEN Created(NoSink, o) ELSE Refused

StatsdOpen(s, f) == Dial(s, f)

\* The lines of the metrics: one for each, except that the formatter of etsystatsd
\* makes none without the label "type", which allowedLabels may drop.
EtsyFormat(o, points) == IF o.allowedLabels = "no type" THEN <<>> ELSE points
InfluxFormat(o, points) == points

\* An error is remembered and the next packet is written all the same.
StatsdWrite(s, f) == SendHand(s, f)

StatsdSend(s, points, f) ==
    LET c == IF s.client THEN s ELSE StatsdOpen(s, f)
        Add(u, p) == LET t == Collect(u, p) IN IF Len(t.hand) >= s.conf.numMetricsPerMsg THEN StatsdWrite(t, f) ELSE t
        t == FoldLeft(Add, c, points)
    IN IF ~c.client THEN c ELSE IF t.hand = <<>> THEN t ELSE StatsdWrite(t, f)

StatsdExportData(s, points, f) ==
    StatsdSend(s, IF s.conf.protocolType = "etsystatsd" THEN EtsyFormat(s.conf, points)
                  ELSE InfluxFormat(s.conf, points), f)

StatsdStop(s) == [s EXCEPT !.client = FALSE]

-----------------------------------------------------------------------------
\* Wavefront.  Each export dials anew, whether or not there is a connection.
NewWavefrontSink(o, f) ==
    IF Bad \in {o.includeLabels, o.includeContainers, o.testMode} THEN Refused
    ELSE Created(NoSink, o)

WavefrontConnect(s, f) == Dial(s, f)

\* The error of a write is not looked at.
WavefrontSendLine(s, p, f) == IF s.client THEN Write(s, <<p>>, f) ELSE s

\* Sub-containers of system.slice are never sent, containers if so configured.
WavefrontKinds(o) ==
    {"node", "labeled"} \cup (IF o.includeContainers = "false" THEN {} ELSE {"container"})

WavefrontSend(s, b, f) ==
    FoldLeft(LAMBDA u, p : WavefrontSendLine(u, p, f), s, Points(b, WavefrontKinds(s.conf)))

\* In test mode the lines are only kept in memory.
WavefrontExportData(s, b, f) ==
    LET c == WavefrontConnect(s, f)
    IN IF s.conf.testMode = "true" THEN s ELSE IF c.client THEN WavefrontSend(c, b, f) ELSE c

\* "Do nothing.", and a Close of a connection that may be nil.
WavefrontStop(s) == [s EXCEPT !.panicked = ~s.client]
=============================================================================
