-------------------------- MODULE AsyncSinksProofs ---------------------------
(***************************************************************************)
(* Proofs about the sinks that send in goroutines of their own.            *)
(*                                                                         *)
(* The InfluxDB sink with one sender at a time, the default, for any       *)
(* number of exports, chunks and queries.  The senders share two fields    *)
(* without a lock; that one of them at most is at work follows from the    *)
(* capacity of conChan, that none is while a query runs from the WaitGroup *)
(* and the sink's lock.                                                    *)
(*                                                                         *)
(* The Stackdriver sink, for any number of batches, requests and workers.  *)
(***************************************************************************)
EXTENDS InfluxdbSink, StackdriverSink, FiniteSetTheorems, TLAPS

-----------------------------------------------------------------------------
(* The InfluxDB sink                                                       *)

\* The senders that hold a slot of conChan, and those wg counts.
Holding == {"ensure", "connect", "database", "create", "policy", "created", "write",
            "ping", "reset", "reset client", "release"}
Holders == {c \in Chunks : sender[c] \in Holding}
Pending == {c \in Chunks : sender[c] \in Holding \cup {"done"}}

\* Where a sender has seen that the sink has a client.
Using == {"database", "create", "policy", "created", "write", "ping"}

SinkTypes ==
    /\ capacity \in Nat \ {0}
    /\ client \in BOOLEAN /\ dbExists \in BOOLEAN /\ panicked \in BOOLEAN
    /\ exporter \in {"idle", "send", "wait"}
    /\ chunk \in Nat /\ chunks \in 0 .. MaxChunks /\ conChan \in Int /\ wg \in Int
    /\ sender \in [Chunks -> Holding \cup {"none", "done", "ended"}]
    /\ reader \in [Readers -> {"idle", "connect", "query"}]

\* The channel and the WaitGroup count the senders; a chunk is handed over once.
Counts ==
    /\ conChan = Cardinality(Holders) /\ conChan <= capacity
    /\ wg = Cardinality(Pending)
    /\ \A c \in Chunks : sender[c] # "none" => c <= chunk

\* The lock: queries run only while nothing is exported.
Locked ==
    /\ exporter = "idle" => Pending = {}
    /\ exporter # "idle" => Reading = {}

\* What the one sender at work, or the queries, may rely on.
Fields ==
    /\ dbExists => client
    /\ \A c \in Chunks : sender[c] \in Using => client
    /\ \A c \in Chunks : sender[c] = "reset client" => ~dbExists
    /\ \A r \in Readers : reader[r] = "query" => client
    /\ ~panicked

SinkInv == SinkTypes /\ Counts /\ Locked /\ (capacity = 1 => Fields)

-----------------------------------------------------------------------------
\* The chunks of an export are finitely many.
LEMMA ChunksFinite ==
    /\ IsFiniteSet(Chunks) /\ IsFiniteSet(Holders) /\ IsFiniteSet(Pending)
<1>1. IsFiniteSet(Chunks)
  BY InfluxAssumption, FS_Interval DEF Chunks
<1> QED
  BY <1>1, FS_Subset, Zenon DEF Holders, Pending

\* With capacity 1 two senders that hold a slot are the same.
LEMMA OneHolder ==
    ASSUME SinkTypes, Counts, capacity = 1, NEW c \in Chunks, sender[c] \in Holding
    PROVE  \A d \in Chunks : sender[d] \in Holding => d = c
<1>1. Cardinality(Holders) <= 1
  BY Zenon DEF Counts
<1>2. c \in Holders
  BY Zenon DEF Holders
<1>3. IsFiniteSet(Holders) /\ IsFiniteSet(Holders \ {c})
  BY ChunksFinite, FS_RemoveElement, Zenon
<1>4. Cardinality(Holders \ {c}) = Cardinality(Holders) - 1
  BY <1>2, <1>3, FS_RemoveElement, Zenon
<1>5. Cardinality(Holders) \in Nat /\ Cardinality(Holders \ {c}) \in Nat
  BY <1>3, FS_CardinalityType, Zenon
<1>6. Cardinality(Holders \ {c}) = 0
  BY <1>1, <1>4, <1>5
<1>7. Holders \ {c} = {}
  BY <1>3, <1>6, FS_EmptySet, Zenon
<1> QED
  BY <1>7, Zenon DEF Holders

\* SinkInv holds at the start.
LEMMA SinkInit ==
    ASSUME Init
    PROVE  SinkInv
<1>1. SinkTypes
  <2>1. capacity \in Nat \ {0} /\ chunks \in 0 .. MaxChunks
    BY InfluxAssumption DEF Init
  <2>2. client \in BOOLEAN /\ dbExists \in BOOLEAN /\ panicked \in BOOLEAN
    BY Zenon DEF Init
  <2>3. /\ sender \in [Chunks -> Holding \cup {"none", "done", "ended"}]
        /\ reader \in [Readers -> {"idle", "connect", "query"}]
    BY Zenon DEF Init
  <2> QED
    BY <2>1, <2>2, <2>3 DEF Init, SinkTypes
<1>2. Holders = {} /\ Pending = {}
  BY Zenon DEF Init, Holders, Pending, Holding
<1>3. Counts
  BY <1>1, <1>2, FS_EmptySet DEF Init, Counts, SinkTypes
<1>4. Locked /\ Fields
  BY <1>2, Zenon DEF Init, Locked, Reading, Fields, Using
<1> QED
  BY <1>1, <1>3, <1>4, Zenon DEF SinkInv

\* A sender that moves on within its slot keeps what is counted.
LEMMA GotoKeeps ==
    ASSUME SinkInv, NEW c \in Chunks, NEW from \in Holding, NEW to \in Holding,
           Goto(c, from, to), capacity' = capacity,
           client' \in BOOLEAN, dbExists' \in BOOLEAN, panicked' \in BOOLEAN
    PROVE  /\ SinkTypes' /\ Counts' /\ Locked'
           /\ exporter # "idle" /\ \A r \in Readers : reader[r] = "idle"
           /\ sender[c] = from /\ sender'[c] = to /\ reader' = reader
           /\ \A d \in Chunks : d # c => sender'[d] = sender[d]
<1>1. /\ sender[c] = from /\ sender'[c] = to /\ reader' = reader
      /\ \A d \in Chunks : d # c => sender'[d] = sender[d]
      /\ UNCHANGED <<exportVars, conChan, wg, reader>>
  BY Zenon DEF Goto, SinkInv, SinkTypes
<1>2. SinkTypes'
  <2>1. sender' \in [Chunks -> Holding \cup {"none", "done", "ended"}]
    BY Zenon DEF Goto, SinkInv, SinkTypes
  <2> QED
    BY <1>1, <2>1, Zenon DEF exportVars, SinkInv, SinkTypes
<1>3. Holders' = Holders /\ Pending' = Pending /\ c \in Pending
  BY <1>1, Zenon DEF Holders, Pending
<1>4. "none" \notin Holding
  BY Zenon DEF Holding
<1>5. Counts'
  BY <1>1, <1>3, <1>4, Zenon DEF exportVars, SinkInv, Counts
<1>6. Reading' = Reading
  BY <1>1, Zenon DEF Reading
<1>7. Locked' /\ exporter # "idle" /\ Reading = {}
  BY <1>1, <1>3, <1>6, Zenon DEF exportVars, SinkInv, Locked
<1>8. \A r \in Readers : reader[r] = "idle"
  BY <1>7, Zenon DEF Reading
<1> QED
  BY <1>1, <1>2, <1>5, <1>7, <1>8, Zenon

\* ensureClient, createDatabase, sendData and resetConnection: what a sender did
\* with the two fields since it tested them was its own doing.
LEMMA SinkSender ==
    ASSUME SinkInv, ~panicked, NEW c \in Chunks, SenderStep(c), capacity' = capacity,
           ~Release(c), ~Done(c)
    PROVE  SinkInv'
<1>1. ASSUME NEW from \in Holding, NEW to \in Holding, Goto(c, from, to),
             client' \in BOOLEAN, dbExists' \in BOOLEAN, panicked' \in BOOLEAN,
             capacity = 1 => /\ ~panicked'
                             /\ dbExists' => client'
                             /\ to \in Using => client'
                             /\ to = "reset client" => ~dbExists'
      PROVE  SinkInv'
  <2>1. /\ SinkTypes' /\ Counts' /\ Locked'
        /\ \A r \in Readers : reader'[r] = "idle"
        /\ sender[c] = from /\ sender'[c] = to
        /\ \A d \in Chunks : d # c => sender'[d] = sender[d]
    BY <1>1, GotoKeeps, Zenon
  <2>2. CASE capacity = 1
    <3>1. \A d \in Chunks : d # c => sender'[d] \notin Holding
      BY <2>1, <2>2, OneHolder, Zenon DEF SinkInv
    <3>2. Using \subseteq Holding /\ "reset client" \in Holding
      BY Zenon DEF Using, Holding
    <3>3. /\ \A d \in Chunks : sender'[d] \in Using => client'
          /\ \A d \in Chunks : sender'[d] = "reset client" => ~dbExists'
      BY <1>1, <2>1, <2>2, <3>1, <3>2, Zenon
    <3>4. \A r \in Readers : reader'[r] # "query"
      BY <2>1, Zenon
    <3>5. (dbExists' => client') /\ ~panicked'
      BY <1>1, <2>2, Zenon
    <3>6. Fields'
      BY <3>3, <3>4, <3>5, Zenon DEF Fields
    <3> QED
      BY <2>1, <3>6, Zenon DEF SinkInv
  <2>3. CASE capacity # 1
    BY <2>1, <2>3, Zenon DEF SinkInv
  <2> QED
    BY <2>2, <2>3, Zenon
<1>2. /\ client \in BOOLEAN /\ dbExists \in BOOLEAN /\ panicked \in BOOLEAN
      /\ capacity = 1 => (dbExists => client)
      /\ capacity = 1 /\ sender[c] \in Using => client
      /\ sender[c] = "reset client" => (capacity = 1 => ~dbExists)
  BY Zenon DEF SinkInv, SinkTypes, Fields
<1>3. ASSUME EnsureClient(c)
      PROVE  SinkInv'
  <2>1. CASE client
    <3>1. Goto(c, "ensure", "database") /\ UNCHANGED <<client, dbExists, panicked>>
      BY <1>3, <2>1, Zenon DEF EnsureClient
    <3> QED
      BY <1>1, <1>2, <2>1, <3>1, Zenon DEF Holding
  <2>2. CASE ~client
    <3>1. Goto(c, "ensure", "connect") /\ UNCHANGED <<client, dbExists, panicked>>
      BY <1>3, <2>2, Zenon DEF EnsureClient
    <3> QED
      BY <1>1, <1>2, <3>1, Zenon DEF Holding, Using
  <2> QED
    BY <2>1, <2>2, Zenon
<1>4. ASSUME Connect(c)
      PROVE  SinkInv'
  <2>1. CASE Goto(c, "connect", "database") /\ client' = TRUE /\ UNCHANGED <<dbExists, panicked>>
    BY <1>1, <1>2, <2>1, Zenon DEF Holding
  <2>2. CASE Goto(c, "connect", "release") /\ UNCHANGED <<client, dbExists, panicked>>
    BY <1>1, <1>2, <2>2, Zenon DEF Holding, Using
  <2> QED
    BY <1>4, <2>1, <2>2, Zenon DEF Connect
<1>5. ASSUME CheckDatabase(c)
      PROVE  SinkInv'
  <2>1. sender[c] = "database" /\ UNCHANGED <<client, dbExists, panicked>>
    BY <1>5, Zenon DEF CheckDatabase, Goto
  <2>2. capacity = 1 => client
    BY <1>2, <2>1, Zenon DEF Using
  <2>3. Goto(c, "database", "write") \/ Goto(c, "database", "create")
    BY <1>5, Zenon DEF CheckDatabase
  <2> QED
    BY <1>1, <1>2, <2>1, <2>2, <2>3, Zenon DEF Holding
<1>6. ASSUME NEW from \in Using, NEW outcomes \in SUBSET (Holding \ {"reset client"}), Call(c, from, outcomes)
      PROVE  SinkInv'
  <2>1. PICK to \in outcomes : Goto(c, from, to)
    BY <1>6, Zenon DEF Call
  <2>2. sender[c] = from /\ UNCHANGED <<client, dbExists>> /\ panicked' = ~client
    BY <1>6, <2>1, Zenon DEF Call, Goto
  <2>3. capacity = 1 => client
    BY <1>2, <2>2, Zenon
  <2>4. from \in Holding /\ to \in Holding /\ to # "reset client"
    BY Zenon DEF Using, Holding
  <2>5. panicked' \in BOOLEAN /\ (capacity = 1 => ~panicked')
    BY <2>2, <2>3, Zenon
  <2> QED
    BY <1>1, <1>2, <2>1, <2>2, <2>3, <2>4, <2>5, Zenon
<1>7. ASSUME CreateDatabase(c) \/ CreateRetentionPolicy(c) \/ Write(c) \/ Ping(c)
      PROVE  SinkInv'
  <2>1. /\ {"created", "policy"} \in SUBSET (Holding \ {"reset client"})
        /\ {"created", "release"} \in SUBSET (Holding \ {"reset client"})
        /\ {"release", "reset", "ping"} \in SUBSET (Holding \ {"reset client"})
        /\ {"release", "reset"} \in SUBSET (Holding \ {"reset client"})
    BY Zenon DEF Holding
  <2>2. "create" \in Using /\ "policy" \in Using /\ "write" \in Using /\ "ping" \in Using
    BY Zenon DEF Using
  <2> QED
    BY <1>6, <1>7, <2>1, <2>2, Zenon DEF CreateDatabase, CreateRetentionPolicy, Write, Ping
<1>8. ASSUME SetDbExists(c)
      PROVE  SinkInv'
  <2>1. sender[c] = "created" /\ Goto(c, "created", "write") /\ dbExists' = TRUE /\ UNCHANGED <<client, panicked>>
    BY <1>8, Zenon DEF SetDbExists, Goto
  <2>2. capacity = 1 => client
    BY <1>2, <2>1, Zenon DEF Using
  <2> QED
    BY <1>1, <1>2, <2>1, <2>2, Zenon DEF Holding
<1>9. ASSUME ResetDbExists(c)
      PROVE  SinkInv'
  <2>1. Goto(c, "reset", "reset client") /\ dbExists' = FALSE /\ UNCHANGED <<client, panicked>>
    BY <1>9, Zenon DEF ResetDbExists
  <2> QED
    BY <1>1, <1>2, <2>1, Zenon DEF Holding, Using
<1>10. ASSUME ResetClient(c)
       PROVE  SinkInv'
  <2>1. /\ sender[c] = "reset client" /\ Goto(c, "reset client", "release")
        /\ client' = FALSE /\ UNCHANGED <<dbExists, panicked>>
    BY <1>10, Zenon DEF ResetClient, Goto
  <2> QED
    BY <1>1, <1>2, <2>1, Zenon DEF Holding, Using
<1> QED
  BY <1>3, <1>4, <1>5, <1>7, <1>8, <1>9, <1>10, Zenon DEF SenderStep, CallReturns, LocalStep

\* The deferred function of a sender gives up its slot, and then its count.
LEMMA SinkRelease ==
    ASSUME SinkInv, NEW c \in Chunks, Release(c) \/ Done(c), capacity' = capacity
    PROVE  SinkInv'
<1>1. /\ UNCHANGED <<client, dbExists, exportVars, reader, panicked>>
      /\ \A d \in Chunks : d # c => sender'[d] = sender[d]
      /\ \/ sender[c] = "release" /\ sender'[c] = "done"
         \/ sender[c] = "done" /\ sender'[c] = "ended"
  BY Zenon DEF Release, Done, SinkInv, SinkTypes
<1>2. SinkTypes'
  <2>1. sender' \in [Chunks -> Holding \cup {"none", "done", "ended"}]
    BY Zenon DEF Release, Done, SinkInv, SinkTypes
  <2>2. conChan' \in Int /\ wg' \in Int
    BY DEF Release, Done, SinkInv, SinkTypes
  <2> QED
    BY <1>1, <2>1, <2>2, Zenon DEF exportVars, SinkInv, SinkTypes
<1>3. Counts'
  <2>1. \A d \in Chunks : sender'[d] # "none" => d <= chunk'
    BY <1>1, Zenon DEF exportVars, SinkInv, Counts
  <2>2. CASE Release(c)
    <3>1. sender[c] = "release" /\ sender'[c] = "done" /\ conChan' = conChan - 1 /\ wg' = wg
      BY <1>1, <2>2, Zenon DEF Release
    <3>2. Holders' = Holders \ {c} /\ c \in Holders /\ Pending' = Pending
      BY <1>1, <3>1, Zenon DEF Holders, Pending, Holding
    <3>3. Cardinality(Holders') = Cardinality(Holders) - 1
      BY <3>2, ChunksFinite, FS_RemoveElement, Zenon
    <3> QED
      BY <2>1, <3>1, <3>2, <3>3 DEF SinkInv, SinkTypes, Counts
  <2>3. CASE Done(c)
    <3>1. sender[c] = "done" /\ sender'[c] = "ended" /\ conChan' = conChan /\ wg' = wg - 1
      BY <1>1, <2>3, Zenon DEF Done
    <3>2. Pending' = Pending \ {c} /\ c \in Pending /\ Holders' = Holders
      BY <1>1, <3>1, Zenon DEF Holders, Pending, Holding
    <3>3. Cardinality(Pending') = Cardinality(Pending) - 1
      BY <3>2, ChunksFinite, FS_RemoveElement, Zenon
    <3> QED
      BY <2>1, <3>1, <3>2, <3>3, Zenon DEF SinkInv, SinkTypes, Counts
  <2> QED
    BY <2>2, <2>3, Zenon
<1>4. Locked'
  <2>1. Reading' = Reading
    BY <1>1, Zenon DEF Reading
  <2>2. Pending' \subseteq Pending
    BY <1>1, Zenon DEF Pending, Holding
  <2> QED
    BY <1>1, <2>1, <2>2, Zenon DEF exportVars, SinkInv, Locked
<1>5. capacity = 1 => Fields'
  BY <1>1, Zenon DEF SinkInv, Fields, Using
<1> QED
  BY <1>2, <1>3, <1>4, <1>5, Zenon DEF SinkInv

\* ExportData, its loop over the chunks and its wait for the senders.
LEMMA SinkExport ==
    ASSUME SinkInv, ExportData \/ ExporterStep, capacity' = capacity
    PROVE  SinkInv'
<1>1. CASE ExportData
  <2>1. /\ exporter = "idle" /\ exporter' = "send" /\ Reading = {} /\ chunk' = 0 /\ chunks' \in 0 .. MaxChunks
        /\ sender' = [c \in Chunks |-> "none"]
        /\ UNCHANGED <<client, dbExists, conChan, wg, reader, panicked>>
    BY <1>1, Zenon DEF ExportData
  <2>2. SinkTypes'
    BY <2>1, Zenon DEF SinkInv, SinkTypes
  <2>3. Pending = {} /\ Holders = {}
    BY <2>1, Zenon DEF SinkInv, Locked, Pending, Holders
  <2>4. Pending' = {} /\ Holders' = {}
    BY <2>1, Zenon DEF Pending, Holders, Holding
  <2>5. Counts'
    BY <2>1, <2>3, <2>4, Zenon DEF SinkInv, Counts
  <2>6. Locked'
    BY <2>1, Zenon DEF Locked, Reading
  <2>7. capacity = 1 => Fields'
    BY <2>1, Zenon DEF SinkInv, Fields, Using
  <2> QED
    BY <2>2, <2>5, <2>6, <2>7, Zenon DEF SinkInv
<1>2. CASE ConcurrentSendData
  <2> DEFINE n == chunk + 1
  <2>1. /\ exporter = "send" /\ exporter' = "send" /\ chunk < chunks /\ conChan < capacity
        /\ conChan' = conChan + 1 /\ wg' = wg + 1 /\ chunk' = n /\ chunks' = chunks
        /\ sender' = [sender EXCEPT ![n] = "ensure"]
        /\ UNCHANGED <<client, dbExists, reader, panicked>>
    BY <1>2, Zenon DEF ConcurrentSendData
  <2>2. chunk \in Nat /\ n \in Chunks
    BY <2>1, InfluxAssumption DEF SinkInv, SinkTypes, Chunks
  <2>3. /\ sender'[n] = "ensure" /\ \A d \in Chunks : d # n => sender'[d] = sender[d]
    BY <2>1, <2>2, Zenon DEF SinkInv, SinkTypes
  <2>4. sender[n] = "none"
    <3>1. ~(n <= chunk)
      BY <2>2
    <3> QED
      BY <2>2, <3>1, Zenon DEF SinkInv, Counts
  <2>5. SinkTypes'
    <3>1. sender' \in [Chunks -> Holding \cup {"none", "done", "ended"}]
      BY <2>1, Zenon DEF SinkInv, SinkTypes, Holding
    <3> QED
      BY <2>1, <2>2, <3>1 DEF SinkInv, SinkTypes
  <2>6. /\ Holders' = Holders \cup {n} /\ n \notin Holders
        /\ Pending' = Pending \cup {n} /\ n \notin Pending
    BY <2>2, <2>3, <2>4, Zenon DEF Holders, Pending, Holding
  <2>7. /\ Cardinality(Holders') = Cardinality(Holders) + 1
        /\ Cardinality(Pending') = Cardinality(Pending) + 1
    BY <2>6, ChunksFinite, FS_AddElement, Zenon
  <2>8. \A d \in Chunks : sender'[d] # "none" => d <= chunk'
    <3>1. \A d \in Chunks : d \in Nat
      BY InfluxAssumption DEF Chunks
    <3> QED
      BY <2>1, <2>2, <2>3, <3>1 DEF SinkInv, Counts
  <2>9. Counts'
    BY <2>1, <2>7, <2>8 DEF SinkInv, SinkTypes, Counts
  <2>10. Locked'
    BY <2>1, Zenon DEF SinkInv, Locked, Reading
  <2>11. capacity = 1 => Fields'
    BY <2>1, <2>2, <2>3, Zenon DEF SinkInv, Fields, Using
  <2> QED
    BY <2>5, <2>9, <2>10, <2>11, Zenon DEF SinkInv
<1>3. CASE Wait \/ ExportReturns
  <2>1. /\ UNCHANGED <<client, dbExists, chunk, chunks, conChan, wg, sender, reader, panicked>>
        /\ exporter \in {"send", "wait"}
        /\ exporter' = "wait" \/ (exporter' = "idle" /\ wg = 0)
    BY <1>3, Zenon DEF Wait, ExportReturns
  <2>2. SinkTypes'
    BY <2>1, Zenon DEF SinkInv, SinkTypes
  <2>3. Holders' = Holders /\ Pending' = Pending /\ Reading' = Reading
    BY <2>1, Zenon DEF Holders, Pending, Reading
  <2>4. Counts'
    BY <2>1, <2>3, Zenon DEF SinkInv, Counts
  <2>5. Reading = {}
    BY <2>1, Zenon DEF SinkInv, Locked
  <2>6. wg = 0 => Pending = {}
    BY ChunksFinite, FS_EmptySet, Zenon DEF SinkInv, Counts
  <2>7. Locked'
    BY <2>1, <2>3, <2>5, <2>6, Zenon DEF Locked
  <2>8. capacity = 1 => Fields'
    BY <2>1, Zenon DEF SinkInv, Fields
  <2> QED
    BY <2>2, <2>4, <2>7, <2>8, Zenon DEF SinkInv
<1> QED
  BY <1>1, <1>2, <1>3, Zenon DEF ExporterStep

\* A query holds the lock for reading; it may create the client, never drop it.
LEMMA SinkQuery ==
    ASSUME SinkInv, ~panicked, NEW r \in Readers, Query(r) \/ QueryConnect(r) \/ RunQuery(r),
           capacity' = capacity
    PROVE  SinkInv'
<1>1. /\ UNCHANGED <<dbExists, exportVars, conChan, wg, sender>>
      /\ client' = client \/ client' = TRUE
      /\ \A q \in Readers : q # r => reader'[q] = reader[q]
  BY Zenon DEF Query, QueryConnect, RunQuery, SinkInv, SinkTypes
<1>2. exporter = "idle"
  BY Zenon DEF Query, QueryConnect, RunQuery, SinkInv, Locked, Reading
<1>3. reader'[r] \in {"idle", "connect", "query"}
  BY Zenon DEF Query, QueryConnect, RunQuery, SinkInv, SinkTypes
<1>4. panicked' \in BOOLEAN /\ (panicked' => reader[r] = "query" /\ ~client)
  <2>1. CASE Query(r) \/ QueryConnect(r)
    <3>1. panicked' = panicked
      BY <2>1, Zenon DEF Query, QueryConnect
    <3>2. panicked \in BOOLEAN
      BY Zenon DEF SinkInv, SinkTypes
    <3> QED
      BY <3>1, <3>2, Zenon
  <2>2. CASE RunQuery(r)
    BY <2>2, Zenon DEF RunQuery
  <2> QED
    BY <2>1, <2>2, Zenon
<1>5. SinkTypes'
  <2>1. reader' \in [Readers -> {"idle", "connect", "query"}]
    BY <1>1, <1>3, Zenon DEF Query, QueryConnect, RunQuery, SinkInv, SinkTypes
  <2> QED
    BY <1>1, <1>4, <2>1, Zenon DEF exportVars, SinkInv, SinkTypes
<1>6. Holders' = Holders /\ Pending' = Pending
  BY <1>1, Zenon DEF Holders, Pending
<1>7. Counts'
  BY <1>1, <1>6, Zenon DEF exportVars, SinkInv, Counts
<1>8. Locked'
  BY <1>1, <1>2, <1>6, Zenon DEF exportVars, SinkInv, Locked
<1>9. ASSUME capacity = 1
      PROVE  Fields'
  <2>1. Fields
    BY <1>9, Zenon DEF SinkInv
  <2>2. ~panicked'
    BY <1>4, <2>1, Zenon DEF Fields
  <2>3. reader'[r] = "query" => client'
    BY Zenon DEF Query, QueryConnect, RunQuery, SinkInv, SinkTypes
  <2>4. client => client'
    BY <1>1, Zenon
  <2> QED
    BY <1>1, <2>1, <2>2, <2>3, <2>4, Zenon DEF Fields
<1> QED
  BY <1>5, <1>7, <1>8, <1>9, Zenon DEF SinkInv

\* No step of the sink breaks SinkInv.
LEMMA SinkStep ==
    ASSUME SinkInv, [Next]_vars
    PROVE  SinkInv'
<1>1. CASE UNCHANGED vars
  <2>1. Holders' = Holders /\ Pending' = Pending /\ Reading' = Reading
    BY <1>1, Zenon DEF vars, Holders, Pending, Reading
  <2>2. SinkTypes' /\ Counts' /\ Locked'
    BY <1>1, <2>1, Zenon DEF vars, SinkInv, SinkTypes, Counts, Locked
  <2>3. capacity' = 1 => Fields'
    BY <1>1, Zenon DEF vars, SinkInv, Fields
  <2> QED
    BY <2>2, <2>3, Zenon DEF SinkInv
<1>2. CASE Next
  <2>1. ~panicked /\ capacity' = capacity
    BY <1>2, Zenon DEF Next
  <2>2. ASSUME NEW c \in Chunks, SenderStep(c)
        PROVE  SinkInv'
    BY <2>1, <2>2, SinkSender, SinkRelease, Zenon
  <2>3. ASSUME NEW r \in Readers, Query(r) \/ QueryConnect(r) \/ RunQuery(r)
        PROVE  SinkInv'
    BY <2>1, <2>3, SinkQuery, Zenon
  <2> QED
    BY <1>2, <2>1, <2>2, <2>3, SinkExport, Zenon DEF Next
<1> QED
  BY <1>1, <1>2, Zenon

\* Whatever the number of chunks, exports and queries and whatever the server
\* answers, a sink that sends one chunk at a time makes no call through a nil
\* client, though neither its senders nor its queries lock the field.
THEOREM ClientAlwaysBeforeUse == Spec => []ClientBeforeUse
<1>1. SinkInv => ClientBeforeUse
  BY Zenon DEF SinkInv, Fields, ClientBeforeUse
<1> QED
  BY <1>1, SinkInit, SinkStep, PTL DEF Spec

\* Such a sink never believes in a database while it has lost its client: the
\* next export creates both again, also after a restart of the server.
THEOREM ResetAlwaysWhole == Spec => []ResetIsWhole
<1>1. SinkInv => ResetIsWhole
  BY Zenon DEF SinkInv, Fields, ResetIsWhole
<1> QED
  BY <1>1, SinkInit, SinkStep, PTL DEF Spec

-----------------------------------------------------------------------------
(* The Stackdriver sink                                                    *)

WorkerStates == {"none", "ready", "busy", "reporting", "exited"}

SendTypes ==
    /\ requests \in [Batches -> Nat]
    /\ dispatcher \in [Batches -> {"none", "sending", "collecting", "completed", "gaveup"}]
    /\ next \in [Batches -> Nat]
    /\ worker \in [Batches -> [Workers -> WorkerStates]]
    /\ inHand \in [Batches -> [Workers -> Nat]]
    /\ written \in [Batches -> SUBSET Nat]
    /\ completed \in [Batches -> Nat]

\* A batch that was not exported has no dispatcher, and so no workers.
Dormant ==
    \A b \in Batches :
        /\ b \notin exported => dispatcher[b] = "none"
        /\ dispatcher[b] = "none" => completed[b] = 0 /\ \A w \in Workers : worker[b][w] = "none"

\* A worker has a request exactly while it is busy with it.
BusyHolds ==
    \A b \in Batches, w \in Workers : inHand[b][w] # 0 <=> worker[b][w] = "busy"

\* The requests handed over are those sent and those in hand, none of them twice.
Accounted ==
    \A b \in Batches :
        /\ \A r \in Nat : r \in 1 .. next[b] <=>
              r \in written[b] \/ \E w \in Workers : r # 0 /\ inHand[b][w] = r
        /\ \A w \in Workers : inHand[b][w] # 0 => inHand[b][w] \notin written[b]
        /\ \A v, w \in Workers : inHand[b][v] # 0 /\ inHand[b][v] = inHand[b][w] => v = w

Exited(b) == {w \in Workers : worker[b][w] = "exited"}

\* The dispatcher counts the workers that have gone; when it has counted as many
\* as it started, none is left.
Counted ==
    \A b \in Batches :
        /\ \A w \in Workers : worker[b][w] # "none" => w <= NumWorkers(requests[b])
        /\ completed[b] = Cardinality(Exited(b))
        /\ dispatcher[b] = "completed" => \A w \in Workers : worker[b][w] \in {"none", "exited"}

SendInv == SendTypes /\ Dormant /\ BusyHolds /\ Accounted /\ Counted

-----------------------------------------------------------------------------
\* The number of workers is a natural number.
LEMMA NumWorkersType ==
    ASSUME NEW n \in Nat
    PROVE  NumWorkers(n) \in Nat
<1>1. n \div PerWorker \in Nat
  BY StackdriverAssumption
<1> QED
  BY <1>1, StackdriverAssumption DEF NumWorkers

\* The workers are finitely many.
LEMMA ExitedFinite ==
    ASSUME NEW b \in Batches
    PROVE  IsFiniteSet(Workers) /\ IsFiniteSet(Exited(b))
<1>1. NumWorkers(MaxRequests) \in Nat
  BY NumWorkersType, StackdriverAssumption, Zenon
<1>2. IsFiniteSet(Workers)
  BY <1>1, FS_Interval DEF Workers
<1> QED
  BY <1>2, FS_Subset, Zenon DEF Exited

\* SendInv holds at the start.
LEMMA SendInit ==
    ASSUME SdInit
    PROVE  SendInv
<1>1. SendTypes /\ Dormant /\ BusyHolds /\ Accounted
  BY DEF SdInit, SendTypes, WorkerStates, Dormant, BusyHolds, Accounted
<1>2. ASSUME NEW b \in Batches
      PROVE  Exited(b) = {} /\ completed[b] = 0
  BY Zenon DEF SdInit, Exited
<1>3. Counted
  BY <1>2, FS_EmptySet, Zenon DEF SdInit, Counted
<1> QED
  BY <1>1, <1>3, Zenon DEF SendInv

\* Workers that neither leave nor return change nothing that is counted.
LEMMA CountedKept ==
    ASSUME Counted, SendTypes, SendTypes', completed' = completed, requests' = requests,
           \A b \in Batches, w \in Workers :
               /\ worker'[b][w] = "exited" <=> worker[b][w] = "exited"
               /\ worker[b][w] = "none" => worker'[b][w] = "none",
           \A b \in Batches : dispatcher'[b] = "completed" =>
               \A w \in Workers : worker'[b][w] \in {"none", "exited"}
    PROVE  Counted'
<1>1. \A b \in Batches : Exited(b)' = Exited(b)
  BY Zenon DEF Exited
<1> QED
  BY <1>1, Zenon DEF Counted

\* A batch that is skipped changes nothing.
LEMMA SendSkip ==
    ASSUME SendInv, NEW b \in Batches, SkipBatch(b)
    PROVE  SendInv'
<1>1. SendTypes' /\ BusyHolds' /\ Accounted'
  BY DEF SkipBatch, SendInv, SendTypes, BusyHolds, Accounted
<1>2. Dormant'
  BY Zenon DEF SkipBatch, SendInv, Dormant
<1>3. \A c \in Batches : Exited(c)' = Exited(c)
  BY Zenon DEF SkipBatch, Exited
<1>4. Counted'
  BY <1>3, Zenon DEF SkipBatch, SendInv, Counted
<1> QED
  BY <1>1, <1>2, <1>4, Zenon DEF SendInv

\* ExportData starts the workers of a batch that had none.
LEMMA SendExport ==
    ASSUME SendInv, NEW b \in Batches, SdExportData(b)
    PROVE  SendInv'
<1>1. PICK n \in 0 .. MaxRequests :
        /\ requests' = [requests EXCEPT ![b] = n]
        /\ worker' = [worker EXCEPT ![b] = [w \in Workers |-> IF w <= NumWorkers(n) THEN "ready" ELSE "none"]]
  BY Zenon DEF SdExportData
<1>2. /\ dispatcher[b] = "none" /\ completed[b] = 0
      /\ \A w \in Workers : worker[b][w] = "none"
  BY Zenon DEF SdExportData, SendInv, Dormant
<1>3. n \in Nat
  BY StackdriverAssumption
<1>4. /\ \A w \in Workers : worker'[b][w] = IF w <= NumWorkers(n) THEN "ready" ELSE "none"
      /\ \A c \in Batches : c # b => worker'[c] = worker[c]
      /\ requests'[b] = n
      /\ \A c \in Batches : c # b => requests'[c] = requests[c]
  BY <1>1, Zenon DEF SendInv, SendTypes
<1>5. SendTypes'
  <2>1. [w \in Workers |-> IF w <= NumWorkers(n) THEN "ready" ELSE "none"]
            \in [Workers -> WorkerStates]
    BY Zenon DEF WorkerStates
  <2> QED
    BY <1>1, <1>3, <2>1, Zenon DEF SdExportData, SendInv, SendTypes
<1>6. /\ dispatcher'[b] = "sending"
      /\ \A c \in Batches : c # b => dispatcher'[c] = dispatcher[c]
  BY Zenon DEF SdExportData, SendInv, SendTypes
<1>7. Dormant'
  BY <1>4, <1>6 DEF SdExportData, SendInv, Dormant
<1>8. BusyHolds' /\ Accounted'
  BY <1>2, <1>4 DEF SdExportData, SendInv, BusyHolds, Accounted
<1>9. \A c \in Batches : Exited(c)' = Exited(c)
  BY <1>2, <1>4, Zenon DEF Exited
<1>10. Counted'
  BY <1>4, <1>6, <1>9 DEF SdExportData, SendInv, Counted
<1> QED
  BY <1>5, <1>7, <1>8, <1>10, Zenon DEF SendInv

\* HandOver gives a ready worker the next request, which nobody had before.
LEMMA SendHandOver ==
    ASSUME SendInv, NEW b \in Batches, NEW w \in Workers, HandOver(b, w)
    PROVE  SendInv'
<1>1. /\ worker'[b][w] = "busy" /\ inHand'[b][w] = next[b] + 1
      /\ \A v \in Workers : v # w => worker'[b][v] = worker[b][v] /\ inHand'[b][v] = inHand[b][v]
      /\ \A c \in Batches : c # b => worker'[c] = worker[c] /\ inHand'[c] = inHand[c]
      /\ next'[b] = next[b] + 1
      /\ \A c \in Batches : c # b => next'[c] = next[c]
  BY Zenon DEF HandOver, SendInv, SendTypes
<1>2. SendTypes'
  <2>1. [worker EXCEPT ![b][w] = "busy"] \in [Batches -> [Workers -> WorkerStates]]
    BY Zenon DEF SendInv, SendTypes, WorkerStates
  <2>2. [inHand EXCEPT ![b][w] = next[b] + 1] \in [Batches -> [Workers -> Nat]]
    BY DEF SendInv, SendTypes
  <2>3. [next EXCEPT ![b] = @ + 1] \in [Batches -> Nat]
    BY DEF SendInv, SendTypes
  <2> QED
    BY <2>1, <2>2, <2>3, Zenon DEF HandOver, callVars, SendInv, SendTypes
<1>3. Dormant'
  BY <1>1 DEF HandOver, callVars, SendInv, Dormant
<1>4. next[b] \in Nat /\ worker[b][w] = "ready" /\ inHand[b][w] = 0
  BY Zenon DEF HandOver, SendInv, SendTypes, BusyHolds
<1>5. BusyHolds'
  BY <1>1, <1>4 DEF SendInv, BusyHolds
<1>6. Accounted'
  <2>1. ASSUME NEW c \in Batches, c # b
        PROVE  /\ \A r \in Nat : r \in 1 .. next'[c] <=>
                     r \in written'[c] \/ \E v \in Workers : r # 0 /\ inHand'[c][v] = r
               /\ \A v \in Workers : inHand'[c][v] # 0 => inHand'[c][v] \notin written'[c]
               /\ \A u, v \in Workers : inHand'[c][u] # 0 /\ inHand'[c][u] = inHand'[c][v] => u = v
    BY <1>1, <2>1 DEF HandOver, SendInv, Accounted
  <2>2. written' = written /\ written[b] \subseteq Nat
    BY Zenon DEF HandOver, SendInv, SendTypes
  <2>3. \A v \in Workers : inHand[b][v] \in Nat
    BY Zenon DEF SendInv, SendTypes
  <2>4. \A r \in Nat : r \in 1 .. next[b] <=>
            r \in written[b] \/ \E v \in Workers : r # 0 /\ inHand[b][v] = r
    BY Zenon DEF SendInv, Accounted
  <2>5. \A v \in Workers : inHand[b][v] # next[b] + 1
    BY <1>4, <2>3, <2>4
  <2>6. next[b] + 1 \notin written[b]
    BY <1>4, <2>2, <2>4
  <2>7. ASSUME NEW r \in Nat
        PROVE  r \in 1 .. next'[b] <=>
                   r \in written'[b] \/ \E v \in Workers : r # 0 /\ inHand'[b][v] = r
    <3>1. CASE r = next[b] + 1
      BY <1>1, <1>4, <3>1
    <3>2. CASE r # next[b] + 1
      <4>1. r \in 1 .. next'[b] <=> r \in 1 .. next[b]
        BY <1>1, <1>4, <3>2
      <4>2. (\E v \in Workers : r # 0 /\ inHand'[b][v] = r)
              <=> (\E v \in Workers : r # 0 /\ inHand[b][v] = r)
        BY <1>1, <1>4, <3>2, Zenon
      <4> QED
        BY <2>2, <2>4, <4>1, <4>2, Zenon
    <3> QED
      BY <3>1, <3>2, Zenon
  <2>8. \A v \in Workers : inHand'[b][v] # 0 => inHand'[b][v] \notin written'[b]
    BY <1>1, <2>2, <2>6 DEF SendInv, Accounted
  <2>9. \A u, v \in Workers : inHand'[b][u] # 0 /\ inHand'[b][u] = inHand'[b][v] => u = v
    BY <1>1, <2>5 DEF SendInv, Accounted
  <2> QED
    BY <2>1, <2>7, <2>8, <2>9 DEF Accounted
<1>7. Counted'
  <2>1. \A c \in Batches : dispatcher'[c] = "completed" =>
            \A v \in Workers : worker'[c][v] \in {"none", "exited"}
    BY <1>1, Zenon DEF HandOver, SendInv, Counted
  <2>2. \A c \in Batches, v \in Workers :
            /\ worker'[c][v] = "exited" <=> worker[c][v] = "exited"
            /\ worker[c][v] = "none" => worker'[c][v] = "none"
    BY <1>1, <1>4, Zenon
  <2> QED
    BY <1>2, <2>1, <2>2, CountedKept, Zenon DEF HandOver, callVars, SendInv
<1> QED
  BY <1>2, <1>3, <1>5, <1>6, <1>7, Zenon DEF SendInv

\* SendOneRequest moves the request of a worker to those that were sent.
LEMMA SendOne ==
    ASSUME SendInv, NEW b \in Batches, NEW w \in Workers, SendOneRequest(b, w)
    PROVE  SendInv'
<1> DEFINE h == inHand[b][w]
<1>1. /\ worker'[b][w] = "ready" /\ inHand'[b][w] = 0
      /\ \A v \in Workers : v # w => worker'[b][v] = worker[b][v] /\ inHand'[b][v] = inHand[b][v]
      /\ \A c \in Batches : c # b => worker'[c] = worker[c] /\ inHand'[c] = inHand[c]
      /\ written'[b] = written[b] \cup {h}
      /\ \A c \in Batches : c # b => written'[c] = written[c]
      /\ next' = next
  BY Zenon DEF SendOneRequest, SendInv, SendTypes
<1>2. SendTypes'
  <2>1. [worker EXCEPT ![b][w] = "ready"] \in [Batches -> [Workers -> WorkerStates]]
    BY Zenon DEF SendInv, SendTypes, WorkerStates
  <2>2. [inHand EXCEPT ![b][w] = 0] \in [Batches -> [Workers -> Nat]]
    BY Zenon DEF SendInv, SendTypes
  <2>3. [written EXCEPT ![b] = @ \cup {inHand[b][w]}] \in [Batches -> SUBSET Nat]
    <3>1. inHand[b][w] \in Nat
      BY Zenon DEF SendInv, SendTypes
    <3> QED
      BY <3>1, Zenon DEF SendInv, SendTypes
  <2> QED
    BY <2>1, <2>2, <2>3, Zenon DEF SendOneRequest, callVars, SendInv, SendTypes
<1>3. Dormant'
  BY <1>1 DEF SendOneRequest, callVars, SendInv, Dormant
<1>4. h \in Nat /\ h # 0 /\ worker[b][w] = "busy"
  BY Zenon DEF SendOneRequest, SendInv, SendTypes, BusyHolds
<1>5. BusyHolds'
  BY <1>1 DEF SendInv, BusyHolds
<1>6. Accounted'
  <2>1. ASSUME NEW c \in Batches, c # b
        PROVE  /\ \A r \in Nat : r \in 1 .. next'[c] <=>
                     r \in written'[c] \/ \E v \in Workers : r # 0 /\ inHand'[c][v] = r
               /\ \A v \in Workers : inHand'[c][v] # 0 => inHand'[c][v] \notin written'[c]
               /\ \A u, v \in Workers : inHand'[c][u] # 0 /\ inHand'[c][u] = inHand'[c][v] => u = v
    BY <1>1, <2>1 DEF SendInv, Accounted
  <2>2. \A r \in Nat : r \in 1 .. next[b] <=>
            r \in written[b] \/ \E v \in Workers : r # 0 /\ inHand[b][v] = r
    BY Zenon DEF SendInv, Accounted
  <2>3. ASSUME NEW r \in Nat
        PROVE  r \in 1 .. next'[b] <=>
                   r \in written'[b] \/ \E v \in Workers : r # 0 /\ inHand'[b][v] = r
    <3>1. CASE r = h
      BY <1>1, <1>4, <2>2, <3>1, Zenon
    <3>2. CASE r # h
      <4>1. (\E v \in Workers : r # 0 /\ inHand'[b][v] = r)
              <=> (\E v \in Workers : r # 0 /\ inHand[b][v] = r)
        BY <1>1, <3>2, Zenon
      <4>2. r \in written'[b] <=> r \in written[b]
        BY <1>1, <3>2, Zenon
      <4> QED
        BY <1>1, <2>2, <4>1, <4>2, Zenon
    <3> QED
      BY <3>1, <3>2, Zenon
  <2>4. \A v \in Workers : inHand'[b][v] # 0 => inHand'[b][v] \notin written'[b]
    BY <1>1, <1>4 DEF SendInv, Accounted
  <2>5. \A u, v \in Workers : inHand'[b][u] # 0 /\ inHand'[b][u] = inHand'[b][v] => u = v
    BY <1>1 DEF SendInv, Accounted
  <2> QED
    BY <2>1, <2>3, <2>4, <2>5, Zenon DEF Accounted
<1>7. Counted'
  <2>1. \A c \in Batches : dispatcher'[c] = "completed" =>
            \A v \in Workers : worker'[c][v] \in {"none", "exited"}
    BY <1>1, <1>4, Zenon DEF SendOneRequest, SendInv, Counted
  <2>2. \A c \in Batches, v \in Workers :
            /\ worker'[c][v] = "exited" <=> worker[c][v] = "exited"
            /\ worker[c][v] = "none" => worker'[c][v] = "none"
    BY <1>1, <1>4, Zenon
  <2> QED
    BY <1>2, <2>1, <2>2, CountedKept, Zenon DEF SendOneRequest, callVars, SendInv
<1> QED
  BY <1>2, <1>3, <1>5, <1>6, <1>7, Zenon DEF SendInv

\* A dispatcher that closes its channel, gives up or sees its timers fire leaves
\* the workers and the requests alone.
LEMMA SendDispatcher ==
    ASSUME SendInv, NEW b \in Batches, DispatcherStep(b)
    PROVE  SendInv'
<1>1. /\ worker' = worker /\ inHand' = inHand /\ written' = written /\ next' = next
      /\ completed' = completed /\ requests' = requests /\ exported' = exported
  BY Zenon DEF DispatcherStep, CloseQueue, TimeoutCompleted, Expire, callVars
<1>2. SendTypes'
  BY <1>1, Zenon DEF DispatcherStep, CloseQueue, TimeoutCompleted, Expire, SendInv, SendTypes
<1>3. \A c \in Batches :
        \/ dispatcher'[c] = dispatcher[c]
        \/ dispatcher[c] # "none" /\ dispatcher'[c] \in {"collecting", "gaveup"}
  BY Zenon DEF DispatcherStep, CloseQueue, TimeoutCompleted, Expire, SendInv, SendTypes
<1>4. Dormant'
  BY <1>1, <1>3, Zenon DEF SendInv, Dormant
<1>5. BusyHolds' /\ Accounted'
  BY <1>1 DEF SendInv, BusyHolds, Accounted
<1>6. Counted'
  <2>1. \A c \in Batches : Exited(c)' = Exited(c)
    BY <1>1, Zenon DEF Exited
  <2> QED
    BY <1>1, <1>3, <2>1 DEF SendInv, Counted
<1> QED
  BY <1>2, <1>4, <1>5, <1>6, Zenon DEF SendInv

\* A worker that finds the channel closed has no request.
LEMMA SendQueueClosed ==
    ASSUME SendInv, NEW b \in Batches, NEW w \in Workers, QueueClosed(b, w)
    PROVE  SendInv'
<1>1. /\ worker[b][w] = "ready" /\ worker'[b][w] = "reporting"
      /\ \A v \in Workers : v # w => worker'[b][v] = worker[b][v]
      /\ \A c \in Batches : c # b => worker'[c] = worker[c]
      /\ inHand' = inHand /\ written' = written /\ next' = next /\ dispatcher' = dispatcher
      /\ completed' = completed /\ requests' = requests /\ exported' = exported
  BY Zenon DEF QueueClosed, callVars, SendInv, SendTypes
<1>2. SendTypes'
  <2>1. [worker EXCEPT ![b][w] = "reporting"] \in [Batches -> [Workers -> WorkerStates]]
    BY Zenon DEF SendInv, SendTypes, WorkerStates
  <2> QED
    BY <1>1, <2>1, Zenon DEF QueueClosed, SendInv, SendTypes
<1>3. Dormant'
  BY <1>1 DEF SendInv, Dormant
<1>4. BusyHolds' /\ Accounted'
  BY <1>1 DEF SendInv, BusyHolds, Accounted
<1>5. Counted'
  <2>1. \A c \in Batches : dispatcher'[c] = "completed" =>
            \A v \in Workers : worker'[c][v] \in {"none", "exited"}
    BY <1>1, Zenon DEF SendInv, Counted
  <2>2. \A c \in Batches, v \in Workers :
            /\ worker'[c][v] = "exited" <=> worker[c][v] = "exited"
            /\ worker[c][v] = "none" => worker'[c][v] = "none"
    BY <1>1, Zenon
  <2> QED
    BY <1>1, <1>2, <2>1, <2>2, CountedKept, Zenon DEF SendInv
<1> QED
  BY <1>2, <1>3, <1>4, <1>5, Zenon DEF SendInv

\* The dispatcher counts one more worker; with the last one all are gone, as the
\* ones it counted are among those it started and as many.
LEMMA SendCompleted ==
    ASSUME SendInv, NEW b \in Batches, NEW w \in Workers, Completed(b, w)
    PROVE  SendInv'
<1>1. /\ worker[b][w] = "reporting" /\ worker'[b][w] = "exited"
      /\ \A v \in Workers : v # w => worker'[b][v] = worker[b][v]
      /\ \A c \in Batches : c # b => worker'[c] = worker[c]
      /\ inHand' = inHand /\ written' = written /\ next' = next
      /\ requests' = requests /\ exported' = exported
  BY Zenon DEF Completed, callVars, SendInv, SendTypes
<1>2. /\ completed'[b] = completed[b] + 1
      /\ \A c \in Batches : c # b => completed'[c] = completed[c]
      /\ dispatcher[b] = "collecting"
      /\ dispatcher'[b] = IF completed'[b] = NumWorkers(requests[b]) THEN "completed" ELSE "collecting"
      /\ \A c \in Batches : c # b => dispatcher'[c] = dispatcher[c]
  BY Zenon DEF Completed, SendInv, SendTypes
<1>3. SendTypes'
  <2>1. [worker EXCEPT ![b][w] = "exited"] \in [Batches -> [Workers -> WorkerStates]]
    BY Zenon DEF SendInv, SendTypes, WorkerStates
  <2>2. [completed EXCEPT ![b] = @ + 1] \in [Batches -> Nat]
    BY DEF SendInv, SendTypes
  <2>3. dispatcher' \in [Batches -> {"none", "sending", "collecting", "completed", "gaveup"}]
    BY <1>2, Zenon DEF Completed, SendInv, SendTypes
  <2> QED
    BY <1>1, <2>1, <2>2, <2>3, Zenon DEF Completed, SendInv, SendTypes
<1>4. Dormant'
  <2>1. b \in exported /\ dispatcher'[b] # "none"
    BY <1>2, Zenon DEF SendInv, Dormant
  <2>2. \A c \in Batches : c # b =>
            /\ dispatcher'[c] = dispatcher[c] /\ completed'[c] = completed[c] /\ worker'[c] = worker[c]
    BY <1>1, <1>2, Zenon
  <2>3. ASSUME NEW c \in Batches
        PROVE  /\ c \notin exported' => dispatcher'[c] = "none"
               /\ dispatcher'[c] = "none" => completed'[c] = 0 /\ \A v \in Workers : worker'[c][v] = "none"
    <3>1. CASE c = b
      BY <1>1, <2>1, <3>1, Zenon
    <3>2. CASE c # b
      BY <1>1, <2>2, <3>2 DEF SendInv, Dormant
    <3> QED
      BY <3>1, <3>2, Zenon
  <2> QED
    BY <2>3, Zenon DEF Dormant
<1>5. BusyHolds' /\ Accounted'
  BY <1>1 DEF SendInv, BusyHolds, Accounted
<1>6. /\ \A c \in Batches : c # b => Exited(c)' = Exited(c)
      /\ Exited(b)' = Exited(b) \cup {w} /\ w \notin Exited(b)
  BY <1>1, Zenon DEF Exited
<1>7. completed'[b] = Cardinality(Exited(b)')
  <2>1. IsFiniteSet(Exited(b))
    BY ExitedFinite, Zenon
  <2>2. Cardinality(Exited(b) \cup {w}) = Cardinality(Exited(b)) + 1
    BY <1>6, <2>1, FS_AddElement, Zenon
  <2> QED
    BY <1>2, <1>6, <2>2, Zenon DEF SendInv, Counted
<1>8. \A c \in Batches, v \in Workers : worker'[c][v] # "none" => v <= NumWorkers(requests[c])
  BY <1>1, Zenon DEF SendInv, Counted
<1>9. ASSUME completed'[b] = NumWorkers(requests[b]), NEW v \in Workers
      PROVE  worker'[b][v] \in {"none", "exited"}
  <2> DEFINE N == NumWorkers(requests[b])
  <2>1. N \in Nat
    BY NumWorkersType, Zenon DEF SendInv, SendTypes
  <2>2. IsFiniteSet(1 .. N) /\ Cardinality(1 .. N) = N
    BY <2>1, FS_Interval
  <2>3. Workers \subseteq Nat \ {0}
    BY NumWorkersType, StackdriverAssumption DEF Workers
  <2>4. Exited(b)' \subseteq 1 .. N
    <3>1. \A x \in Exited(b)' : x \in Workers /\ worker'[b][x] = "exited"
      BY Zenon DEF Exited
    <3>2. ASSUME NEW x \in Exited(b)'
          PROVE  x \in 1 .. N
      <4>1. x \in Nat \ {0} /\ x <= N
        BY <1>8, <2>3, <3>1, Zenon
      <4> QED
        BY <2>1, <4>1
    <3> QED
      BY <3>2, Zenon
  <2>5. Exited(b)' = 1 .. N
    BY <1>7, <1>9, <2>2, <2>4, FS_Subset, Zenon
  <2>6. CASE worker'[b][v] # "none"
    <3>1. v \in 1 .. N
      BY <1>8, <2>1, <2>3, <2>6
    <3> QED
      BY <2>5, <3>1, Zenon DEF Exited
  <2> QED
    BY <2>6, Zenon
<1>10. ASSUME NEW c \in Batches, dispatcher'[c] = "completed", NEW v \in Workers
       PROVE  worker'[c][v] \in {"none", "exited"}
  <2>1. CASE c = b
    BY <1>2, <1>9, <1>10, <2>1, Zenon
  <2>2. CASE c # b
    BY <1>1, <1>2, <1>10, <2>2, Zenon DEF SendInv, Counted
  <2> QED
    BY <2>1, <2>2, Zenon
<1>11. \A c \in Batches : completed'[c] = Cardinality(Exited(c)')
  BY <1>2, <1>6, <1>7, Zenon DEF SendInv, Counted
<1>12. Counted'
  BY <1>1, <1>8, <1>10, <1>11, Zenon DEF Counted
<1> QED
  BY <1>3, <1>4, <1>5, <1>12, Zenon DEF SendInv

\* No step of the sink breaks SendInv.
LEMMA SendStep ==
    ASSUME SendInv, [SdNext]_sdVars
    PROVE  SendInv'
<1>1. CASE UNCHANGED sdVars
  <2>1. \A c \in Batches : Exited(c)' = Exited(c)
    BY <1>1, Zenon DEF sdVars, Exited
  <2>2. SendTypes' /\ Dormant' /\ BusyHolds' /\ Accounted'
    BY <1>1 DEF sdVars, SendInv, SendTypes, Dormant, BusyHolds, Accounted
  <2>3. Counted'
    BY <1>1, <2>1, Zenon DEF sdVars, SendInv, Counted
  <2> QED
    BY <2>2, <2>3, Zenon DEF SendInv
<1>2. ASSUME NEW b \in Batches, SkipBatch(b) \/ SdExportData(b) \/ DispatcherStep(b)
      PROVE  SendInv'
  BY <1>2, SendSkip, SendExport, SendDispatcher, Zenon
<1>3. ASSUME NEW b \in Batches, NEW w \in Workers, WorkerStep(b, w) \/ SendOneRequest(b, w)
      PROVE  SendInv'
  BY <1>3, SendHandOver, SendQueueClosed, SendCompleted, SendOne, Zenon DEF WorkerStep
<1> QED
  BY <1>1, <1>2, <1>3, Zenon DEF SdNext

\* Whatever the number of requests, workers and batches and whenever the timers of
\* sendRequests fire: a request it handed over is with one worker or was sent, and
\* when all workers "successfully finished" nothing it handed over is still unsent.
THEOREM RequestsAlwaysAccounted == SdSpec => []RequestsAccounted
<1>1. SdInit => SendInv
  BY SendInit, Zenon
<1>2. SendInv /\ [SdNext]_sdVars => SendInv'
  BY SendStep, Zenon
<1>3. SendInv => RequestsAccounted
  <2>1. SUFFICES ASSUME SendInv, NEW b \in Batches
                 PROVE  LET held == {w \in Workers : inHand[b][w] # 0}
                        IN  /\ 1 .. next[b] = written[b] \cup {inHand[b][w] : w \in held}
                            /\ \A w \in held : inHand[b][w] \notin written[b]
                            /\ \A v, w \in held : inHand[b][v] = inHand[b][w] => v = w
                            /\ dispatcher[b] = "completed" => held = {}
    BY Zenon DEF RequestsAccounted
  <2> DEFINE held == {w \in Workers : inHand[b][w] # 0}
  <2>2. next[b] \in Nat /\ written[b] \subseteq Nat /\ \A w \in Workers : inHand[b][w] \in Nat
    BY <2>1, Zenon DEF SendInv, SendTypes
  <2>3. \A r \in Nat : r \in 1 .. next[b] <=>
            r \in written[b] \/ \E w \in Workers : r # 0 /\ inHand[b][w] = r
    BY <2>1, Zenon DEF SendInv, Accounted
  <2>4. \A r : r \in {inHand[b][w] : w \in held} <=> \E w \in Workers : r # 0 /\ inHand[b][w] = r
    BY Zenon
  <2>5. ASSUME NEW r
        PROVE  r \in 1 .. next[b] <=> r \in written[b] \cup {inHand[b][w] : w \in held}
    <3>1. CASE r \in Nat
      BY <2>3, <2>4, <3>1, Zenon
    <3>2. CASE r \notin Nat
      BY <2>2, <2>4, <3>2
    <3> QED
      BY <3>1, <3>2, Zenon
  <2>6. 1 .. next[b] = written[b] \cup {inHand[b][w] : w \in held}
    BY <2>5, Zenon
  <2>7. /\ \A w \in held : inHand[b][w] \notin written[b]
        /\ \A v, w \in held : inHand[b][v] = inHand[b][w] => v = w
    BY <2>1, Zenon DEF SendInv, Accounted
  <2>8. dispatcher[b] = "completed" => held = {}
    BY <2>1, Zenon DEF SendInv, Counted, BusyHolds
  <2> QED
    BY <2>6, <2>7, <2>8, Zenon
<1> QED
  BY <1>1, <1>2, <1>3, PTL DEF SdSpec
=============================================================================
