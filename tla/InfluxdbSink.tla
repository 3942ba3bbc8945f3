---------------------------- MODULE InfluxdbSink -----------------------------
(***************************************************************************)
(* The InfluxDB sink (metrics/sinks/influxdb/influxdb.go) and the queries  *)
(* that the historical API makes through it (influxdb_historical.go).      *)
(* ExportData holds the sink's lock, splits a batch into chunks and sends  *)
(* every chunk in a goroutine of its own, at most Concurrency at a time.   *)
(* The senders share the fields client and dbExists without a lock of      *)
(* their own.  Queries hold the lock for reading and may create the client.*)
(*                                                                         *)
(* The client is a Boolean: whether the field holds one.  The answers of   *)
(* the InfluxDB server are nondeterministic.  A use of a nil client is a   *)
(* panic, which ends the process.                                          *)
(***************************************************************************)
EXTENDS Naturals, FiniteSets

CONSTANTS
    Readers,        \* the queries under way
    Concurrency,    \* the largest concurrency the sink may be configured with
    MaxChunks,      \* bound: the chunks of a batch
    MaxExports      \* bound: the calls of ExportData

ASSUME InfluxAssumption == Concurrency \in Nat \ {0} /\ MaxChunks \in Nat /\ MaxExports \in Nat

Chunks == 1 .. MaxChunks

VARIABLES
    capacity,   \* capacity of conChan: the configured concurrency
    client,     \* sink.client # nil
    dbExists,   \* sink.dbExists
    exporter,   \* ExportData: "idle", "send" or "wait" (in wg.Wait)
    exports,    \* the number of exports so far
    chunk,      \* the chunks of this export handed to a goroutine
    chunks,     \* the chunks of this export
    conChan,    \* tokens in conChan
    wg,         \* the count of the WaitGroup
    sender,     \* the goroutine of each chunk
    reader,     \* the goroutine of each query
    panicked    \* a nil client was used

vars == <<capacity, client, dbExists, exporter, exports, chunk, chunks, conChan, wg, sender, reader, panicked>>
exportVars == <<exporter, exports, chunk, chunks>>

Reading == {r \in Readers : reader[r] # "idle"}

\* newSink: NewClient may have failed.
Init ==
    /\ capacity \in 1 .. Concurrency
    /\ client \in BOOLEAN
    /\ dbExists = FALSE
    /\ exporter = "idle" /\ exports = 0 /\ chunk = 0 /\ chunks = 0
    /\ conChan = 0 /\ wg = 0
    /\ sender = [c \in Chunks |-> "none"]
    /\ reader = [r \in Readers |-> "idle"]
    /\ panicked = FALSE

\* ExportData takes the lock; the batch makes some number of chunks.
ExportData ==
    /\ exporter = "idle" /\ Reading = {}
    /\ exports < MaxExports
    /\ exports' = exports + 1
    /\ exporter' = "send"
    /\ chunk' = 0
    /\ chunks' \in 0 .. MaxChunks
    /\ sender' = [c \in Chunks |-> "none"]
    /\ UNCHANGED <<client, dbExists, conChan, wg, reader, panicked>>

\* concurrentSendData: wg.Add(1), then a send that blocks while conChan is full.
ConcurrentSendData ==
    /\ exporter = "send"
    /\ chunk < chunks
    /\ conChan < capacity
    /\ conChan' = conChan + 1 /\ wg' = wg + 1
    /\ chunk' = chunk + 1
    /\ sender' = [sender EXCEPT ![chunk + 1] = "ensure"]
    /\ UNCHANGED <<client, dbExists, exporter, exports, chunks, reader, panicked>>

Wait ==
    /\ exporter = "send" /\ chunk = chunks
    /\ exporter' = "wait"
    /\ UNCHANGED <<client, dbExists, exports, chunk, chunks, conChan, wg, sender, reader, panicked>>

\* wg.Wait returns and the lock is given up.
ExportReturns ==
    /\ exporter = "wait" /\ wg = 0
    /\ exporter' = "idle"
    /\ UNCHANGED <<client, dbExists, exports, chunk, chunks, conChan, wg, sender, reader, panicked>>

\* A sender moves on without touching the sink's fields.
Goto(c, from, to) ==
    /\ sender[c] = from
    /\ sender' = [sender EXCEPT ![c] = to]
    /\ UNCHANGED <<exportVars, conChan, wg, reader>>

\* Mutant: the field is not tested.
EnsureClientUntested(c) ==
    /\ Goto(c, "ensure", "database")
    /\ UNCHANGED <<client, dbExists, panicked>>

\* ensureClient: test the field ...
EnsureClient(c) ==
    /\ Goto(c, "ensure", IF client THEN "database" ELSE "connect")
    /\ UNCHANGED <<client, dbExists, panicked>>

\* Mutant: the error path leaves without the deferred function.
ConnectErrorSkipsRelease(c) ==
    \/ Goto(c, "connect", "database") /\ client' = TRUE /\ UNCHANGED <<dbExists, panicked>>
    \/ Goto(c, "connect", "ended") /\ UNCHANGED <<client, dbExists, panicked>>

\* ... and create a client, or fail and drop the chunk.
Connect(c) ==
    \/ Goto(c, "connect", "database") /\ client' = TRUE /\ UNCHANGED <<dbExists, panicked>>
    \/ Goto(c, "connect", "release") /\ UNCHANGED <<client, dbExists, panicked>>

\* createDatabase, its test of dbExists
CheckDatabase(c) ==
    /\ Goto(c, "database", IF dbExists THEN "write" ELSE "create")
    /\ UNCHANGED <<client, dbExists, panicked>>

\* A call through sink.client: one of the outcomes, or a panic on nil.
Call(c, from, outcomes) ==
    /\ \E to \in outcomes : Goto(c, from, to)
    /\ panicked' = ~client
    /\ UNCHANGED <<client, dbExists>>

\* CREATE DATABASE; on an error other than "already exists" the retention
\* policy is created, which may fail too.
CreateDatabase(c) == Call(c, "create", {"created", "policy"})
CreateRetentionPolicy(c) == Call(c, "policy", {"created", "release"})

SetDbExists(c) ==
    /\ Goto(c, "created", "write")
    /\ dbExists' = TRUE
    /\ UNCHANGED <<client, panicked>>

\* client.Write: written, "database not found", or another error, on which
\* the server is pinged.
Write(c) == Call(c, "write", {"release", "reset", "ping"})
Ping(c) == Call(c, "ping", {"release", "reset"})

\* Mutant: only the client is reset.
ResetDbExistsForgotten(c) ==
    /\ Goto(c, "reset", "reset client")
    /\ UNCHANGED <<client, dbExists, panicked>>

\* resetConnection: two assignments.
ResetDbExists(c) ==
    /\ Goto(c, "reset", "reset client")
    /\ dbExists' = FALSE
    /\ UNCHANGED <<client, panicked>>

ResetClient(c) ==
    /\ Goto(c, "reset client", "release")
    /\ client' = FALSE
    /\ UNCHANGED <<dbExists, panicked>>

\* The deferred function: <-sink.conChan, then sink.wg.Done().
Release(c) ==
    /\ sender[c] = "release"
    /\ sender' = [sender EXCEPT ![c] = "done"]
    /\ conChan' = conChan - 1
    /\ UNCHANGED <<client, dbExists, exportVars, wg, reader, panicked>>

Done(c) ==
    /\ sender[c] = "done"
    /\ sender' = [sender EXCEPT ![c] = "ended"]
    /\ wg' = wg - 1
    /\ UNCHANGED <<client, dbExists, exportVars, conChan, reader, panicked>>

\* A historical query: RLock, ensureClient, the query, RUnlock.
Query(r) ==
    /\ reader[r] = "idle" /\ exporter = "idle"
    /\ reader' = [reader EXCEPT ![r] = IF client THEN "query" ELSE "connect"]
    /\ UNCHANGED <<client, dbExists, exportVars, conChan, wg, sender, panicked>>

QueryConnect(r) ==
    /\ reader[r] = "connect"
    /\ \/ reader' = [reader EXCEPT ![r] = "query"] /\ client' = TRUE
       \/ reader' = [reader EXCEPT ![r] = "idle"] /\ UNCHANGED client
    /\ UNCHANGED <<dbExists, exportVars, conChan, wg, sender, panicked>>

RunQuery(r) ==
    /\ reader[r] = "query"
    /\ reader' = [reader EXCEPT ![r] = "idle"]
    /\ panicked' = ~client
    /\ UNCHANGED <<client, dbExists, exportVars, conChan, wg, sender>>

\* What a sender does when a call to the server returns ...
CallReturns(c) ==
    Connect(c) \/ CreateDatabase(c) \/ CreateRetentionPolicy(c) \/ Write(c) \/ Ping(c)

\* ... and what it does by itself.
LocalStep(c) ==
    \/ EnsureClient(c) \/ CheckDatabase(c) \/ SetDbExists(c)
    \/ ResetDbExists(c) \/ ResetClient(c) \/ Release(c) \/ Done(c)

SenderStep(c) == CallReturns(c) \/ LocalStep(c)

ExporterStep == ConcurrentSendData \/ Wait \/ ExportReturns

Next ==
    /\ ~panicked
    /\ UNCHANGED capacity
    /\ \/ ExportData \/ ExporterStep
       \/ \E c \in Chunks : SenderStep(c)
       \/ \E r \in Readers : Query(r) \/ QueryConnect(r) \/ RunQuery(r)

Spec == Init /\ [][Next]_vars

\* A goroutine that can run does.  A call to the server may hang for ever: the client
\* is created without a timeout.
Fairness ==
    /\ WF_vars(~panicked /\ ExporterStep /\ UNCHANGED capacity)
    /\ \A c \in Chunks : WF_vars(~panicked /\ LocalStep(c) /\ UNCHANGED capacity)

FairSpec == Spec /\ Fairness

-----------------------------------------------------------------------------
\* With one sender at a time, the default, a client that is nil is created
\* before it is used: no call goes through a nil client, whatever resets and
\* queries come in between.
ClientBeforeUse == capacity = 1 => ~panicked

\* With one sender at a time the two fields agree between exports: a sink that
\* lost its client does not believe that the database exists, so it is created
\* again after a restart of the server.
ResetIsWhole == capacity = 1 /\ exporter = "idle" => (dbExists => client)

\* No slot of conChan and no count of the WaitGroup is lost on an error path: an export
\* that never ends is held up by calls to the server that never return, and has chunks
\* left that it could not even start to send only when such calls hold every slot.
Hanging == {c \in Chunks : sender[c] \in {"connect", "create", "policy", "write", "ping"}}
ExportEnds ==
    <>[](exporter # "idle" /\ ~panicked) =>
        <>[](Hanging # {} /\ (chunk < chunks => Cardinality(Hanging) = capacity))

\* "issues while creating an InfluxDB sink: %v, will retry on use": whatever the
\* configured concurrency, a client that is nil is created before it is used.
ClientRetriedOnUse == ~panicked
=============================================================================
