----------------------------- MODULE StoreSinks ------------------------------
(***************************************************************************)
(* The sinks that prepare the server before they write to it: the          *)
(* Elasticsearch sinks (metrics and events) create an index per day and an *)
(* alias per type of document, the GCM sink replaces all metric            *)
(* descriptors.  Each preparation takes several calls, and any of them may *)
(* fail or be carried out with its answer lost.                            *)
(***************************************************************************)
EXTENDS SinkCalls

\* A call that creates x on the server; when it fails it may still have been carried
\* out, its answer being lost.
Make(s, x, f) ==
    LET t == Call(s, "create", <<>>, f)
    IN [t EXCEPT !.server = IF Ok(t) \/ "answer lost" \in f.how THEN @ \cup {x} ELSE @]

-----------------------------------------------------------------------------
\* Elasticsearch.  The options that are parsed, a version that is supported, and
\* a server that answers.
CreateElasticSearchService(o, f) ==
    LET s == Dial(NoSink, f)
    IN IF /\ Bad \notin {o.maxRetries, o.healthCheck, o.startupTimeout, o.sniff, o.bulkWorkers}
          /\ o.ver \in {2, 5} /\ (o.nodes \/ o.host) /\ s.client
       THEN Created(s, "none") ELSE Refused

Index(date) == <<"index", date>>
IndexAlias(date, typeName) == <<"alias", date, typeName>>

\* The callback of the bulk processor.  Errors of the items of a response are logged.
\* When the request failed (external: after some retries) the response that the
\* callback reads is nil.
BulkAfterCB(s, f) == [s EXCEPT !.panicked = @ \/ (~Ok(s) /\ "item errors" \notin f.how)]
Commit(s, f) == IF s.hand = <<>> THEN s ELSE BulkAfterCB(SendHand(s, f), f)

\* What is queued is committed by FlushBulk, or earlier in the background: when a
\* number of actions, a size or an interval is reached.
AddBulkReq(s, doc, f) ==
    LET t == Collect(s, doc) IN IF "early commit" \in f.how THEN Commit(t, f) ELSE t
AddBulkReqs(s, docs, f) == FoldLeft(LAMBDA u, doc : AddBulkReq(u, doc, f), s, docs)
FlushBulk(s, f) == Commit(s, f)

\* Mutant: an index that exists is taken to have its alias.
SaveDataTrustsIndex(s, date, typeName, docs, f) ==
    LET e == Call(s, "exists", <<>>, f)
        c == Make(e, Index(date), f)
        g == IF Ok(c) THEN Make(c, IndexAlias(date, typeName), f) ELSE c
    IN IF docs = <<>> THEN s
       ELSE IF Ok(e) /\ Index(date) \in e.server THEN AddBulkReqs(e, docs, f)
       ELSE IF ~Ok(e) THEN e ELSE IF Ok(g) THEN AddBulkReqs(g, docs, f) ELSE g

\* The documents are queued when the index and the alias are known to be there.
SaveData(s, date, typeName, docs, f) ==
    LET e == Call(s, "exists", <<>>, f)
        c == IF Index(date) \in e.server THEN e ELSE Make(e, Index(date), f)
        g == Call(c, "aliases", <<>>, f)
        a == IF IndexAlias(date, typeName) \in g.server THEN g ELSE Make(g, IndexAlias(date, typeName), f)
    IN IF docs = <<>> THEN s
       ELSE IF ~Ok(e) THEN e ELSE IF ~Ok(c) THEN c ELSE IF ~Ok(g) THEN g ELSE IF ~Ok(a) THEN a
       ELSE AddBulkReqs(a, docs, f)

\* A metric is a pair of its metric set and its family; a family is a type of
\* document, and a flush follows each metric set.
EsExportSet(s, b, set, f) ==
    LET Family(fam) == SelectSeq([i \in 1 .. Len(b) |-> i], LAMBDA i : b[i] = <<set, fam>>)
        t == FoldLeft(LAMBDA u, fam : SaveData(u, "today", fam, Family(fam), f), s, <<"cpu", "memory">>)
    IN FlushBulk(t, f)

EsExportData(s, b, f) == FoldLeft(LAMBDA u, set : EsExportSet(u, b, set, f), s, <<1, 2>>)

\* An event goes to the index of its own day.
EsExportEvents(s, b, f) ==
    LET Save(u, i) == SaveData(u, b[i], "events", <<i>>, f)
    IN FlushBulk(FoldLeft(Save, s, [i \in 1 .. Len(b) |-> i]), f)

\* What must be on the server before a metric or an event is written.
EsMetricNeeds(metric) == {Index("today"), IndexAlias("today", metric[2])}
EsEventNeeds(day) == {Index(day), IndexAlias(day, "events")}

-----------------------------------------------------------------------------
\* GCM.  The metrics of core.AllMetrics by how the filter treats them; a labeled
\* metric is in AllMetrics too, and never a node autoscaling metric.
AllMetrics == <<"gauge", "autoscaling", "labeled">>

\* register and getTimeSeries apply the same filter.
GcmFilter(s) == IF s.conf = "all" THEN {"gauge", "autoscaling", "labeled"} ELSE {"autoscaling"}

\* Delete, whose error is only logged; then Create, unless filtered out.
GcmRegisterOne(s, metric, f) ==
    LET d == Call(s, "delete", <<>>, f)
        t == [d EXCEPT !.server = IF Ok(d) \/ "answer lost" \in f.how THEN @ \ {metric} ELSE @]
        c == Make(t, metric, f)
    IN IF s.done THEN s ELSE IF metric \notin GcmFilter(s) THEN t ELSE [c EXCEPT !.done = ~Ok(c)]

\* Sets done when it returns an error.
GcmRegister(s, f) ==
    LET t == FoldLeft(LAMBDA u, m : GcmRegisterOne(u, m, f), s, AllMetrics)
    IN IF s.ready THEN s ELSE [t EXCEPT !.ready = ~t.done]

\* Without credentials, a service or the id of the project there is no sink.  A
\* registration that fails is only warned of; it is tried again by ExportData.
CreateGCMSink(o, f) ==
    LET s == Dial([NoSink EXCEPT !.conf = o.metrics, !.server = o.existing], f)
    IN IF o.metrics = Bad \/ o.scheme \/ o.host \/ ~s.client THEN Refused
       ELSE Created(GcmRegister(s, f), o.metrics)

GcmSendRequest(s, f) == SendHand(s, f)

GcmExportData(s, b, f) ==
    LET r == GcmRegister(s, f)
        Add(u, i) ==
            LET t == IF b[i] \in GcmFilter(s) THEN Collect(u, i) ELSE u
            IN IF Len(t.hand) >= MaxBatch THEN GcmSendRequest(t, f) ELSE t
        t == FoldLeft(Add, r, [i \in 1 .. Len(b) |-> i])
    IN IF r.done THEN r ELSE IF t.hand = <<>> THEN t ELSE GcmSendRequest(t, f)
=============================================================================
