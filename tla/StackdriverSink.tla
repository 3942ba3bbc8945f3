--------------------------- MODULE StackdriverSink ---------------------------
(***************************************************************************)
(* The Stackdriver sink (metrics/sinks/stackdriver/stackdriver.go).        *)
(* ExportData skips a batch that comes too soon after the last one, cuts   *)
(* the rest into requests and returns, leaving a dispatcher goroutine      *)
(* (sendRequests) behind.  The dispatcher starts workers (requestSender),  *)
(* hands them the requests over an unbuffered channel until a timeout,     *)
(* closes the channel, and counts the workers that report completion until *)
(* a second timer, of the same length and started with the first, fires.   *)
(*                                                                         *)
(* A batch is its timestamp; a request is its index in the batch.          *)
(***************************************************************************)
EXTENDS Naturals, Sequences, FiniteSets

CONSTANTS
    MinInterval,    \* sink.minInterval
    ExtraWorkers,   \* 5 in the code
    PerWorker,      \* batchExportTimeoutSec / sdRequestLatencySec
    MaxRequests,    \* bound: requests of a batch
    MaxTimestamp    \* bound: timestamps of batches

ASSUME StackdriverAssumption ==
    /\ MinInterval \in Nat \ {0} /\ ExtraWorkers \in Nat /\ PerWorker \in Nat \ {0}
    /\ MaxRequests \in Nat /\ MaxTimestamp \in Nat

Batches == 1 .. MaxTimestamp

\* workers := 5 + len(requests)/(sink.batchExportTimeoutSec/sdRequestLatencySec)
NumWorkers(requests) == ExtraWorkers + requests \div PerWorker

Workers == 1 .. NumWorkers(MaxRequests)

VARIABLES
    exported,       \* the batches ExportData was called with
    lastExportTime,
    requests,       \* the number of requests of each batch
    dispatcher,     \* "none", "sending", "collecting", "completed", "gaveup"
    next,           \* the number of requests handed over
    expired,        \* the batches whose timers have fired
    worker,         \* "none", "ready", "busy", "reporting" or "exited"
    inHand,         \* the request each worker is sending, or 0
    written,        \* the requests of each batch that were sent
    completed       \* workersCompleted of each dispatcher

sdVars == <<exported, lastExportTime, requests, dispatcher, next, expired,
          worker, inHand, written, completed>>
callVars == <<exported, lastExportTime, requests>>

SdInit ==
    /\ exported = {} /\ lastExportTime = 0
    /\ requests = [b \in Batches |-> 0]
    /\ dispatcher = [b \in Batches |-> "none"]
    /\ next = [b \in Batches |-> 0]
    /\ expired = {}
    /\ worker = [b \in Batches |-> [w \in Workers |-> "none"]]
    /\ inHand = [b \in Batches |-> [w \in Workers |-> 0]]
    /\ written = [b \in Batches |-> {}]
    /\ completed = [b \in Batches |-> 0]

\* "Make sure we don't export metrics too often."  lastExportTime is the zero
\* time at first, before any timestamp.
TooSoon(b) == lastExportTime # 0 /\ b < lastExportTime + MinInterval

SkipBatch(b) ==
    /\ b \notin exported
    /\ TooSoon(b)
    /\ exported' = exported \cup {b}
    /\ UNCHANGED <<lastExportTime, requests, dispatcher, next, expired,
                   worker, inHand, written, completed>>

\* ExportData builds the requests, starts sendRequests and returns.
SdExportData(b) ==
    /\ b \notin exported
    /\ ~TooSoon(b)
    /\ exported' = exported \cup {b}
    /\ lastExportTime' = b
    /\ \E n \in 0 .. MaxRequests :
        /\ requests' = [requests EXCEPT ![b] = n]
        /\ worker' = [worker EXCEPT ![b] =
               [w \in Workers |-> IF w <= NumWorkers(n) THEN "ready" ELSE "none"]]
    /\ dispatcher' = [dispatcher EXCEPT ![b] = "sending"]
    /\ UNCHANGED <<next, expired, inHand, written, completed>>

\* requestQueue <- r meets the range loop of a worker.
HandOver(b, w) ==
    /\ dispatcher[b] = "sending" /\ next[b] < requests[b]
    /\ worker[b][w] = "ready"
    /\ next' = [next EXCEPT ![b] = @ + 1]
    /\ worker' = [worker EXCEPT ![b][w] = "busy"]
    /\ inHand' = [inHand EXCEPT ![b][w] = next[b] + 1]
    /\ UNCHANGED <<callVars, dispatcher, expired, written, completed>>

\* All requests are handed over, or timeoutSending drops the rest; the channel
\* is closed.
CloseQueue(b) ==
    /\ dispatcher[b] = "sending"
    /\ next[b] = requests[b] \/ b \in expired
    /\ dispatcher' = [dispatcher EXCEPT ![b] = "collecting"]
    /\ UNCHANGED <<callVars, next, expired, worker, inHand, written, completed>>

\* sendOneRequest returns, with an error or without.
SendOneRequest(b, w) ==
    /\ worker[b][w] = "busy"
    /\ written' = [written EXCEPT ![b] = @ \cup {inHand[b][w]}]
    /\ worker' = [worker EXCEPT ![b][w] = "ready"]
    /\ inHand' = [inHand EXCEPT ![b][w] = 0]
    /\ UNCHANGED <<callVars, dispatcher, next, expired, completed>>

\* Mutant: the channel is closed only when all workers have completed.
QueueClosedLate(b, w) ==
    /\ worker[b][w] = "ready"
    /\ dispatcher[b] = "completed"
    /\ worker' = [worker EXCEPT ![b][w] = "reporting"]
    /\ UNCHANGED <<callVars, dispatcher, next, expired, inHand, written, completed>>

\* The closed channel ends the range loop; the deferred send is next.
QueueClosed(b, w) ==
    /\ worker[b][w] = "ready"
    /\ dispatcher[b] \notin {"none", "sending"}
    /\ worker' = [worker EXCEPT ![b][w] = "reporting"]
    /\ UNCHANGED <<callVars, dispatcher, next, expired, inHand, written, completed>>

\* Mutant: the first worker that reports stands for all.
CompletedByFirst(b, w) ==
    /\ worker[b][w] = "reporting" /\ dispatcher[b] = "collecting"
    /\ worker' = [worker EXCEPT ![b][w] = "exited"]
    /\ completed' = [completed EXCEPT ![b] = @ + 1]
    /\ dispatcher' = [dispatcher EXCEPT ![b] = "completed"]
    /\ UNCHANGED <<callVars, next, expired, inHand, written>>

\* completedQueue <- true meets the dispatcher.
Completed(b, w) ==
    /\ worker[b][w] = "reporting" /\ dispatcher[b] = "collecting"
    /\ worker' = [worker EXCEPT ![b][w] = "exited"]
    /\ completed' = [completed EXCEPT ![b] = @ + 1]
    /\ dispatcher' = [dispatcher EXCEPT ![b] =
           IF completed'[b] = NumWorkers(requests[b]) THEN "completed" ELSE @]
    /\ UNCHANGED <<callVars, next, expired, inHand, written>>

\* "Only %d out of %d workers successfully finished"
TimeoutCompleted(b) ==
    /\ dispatcher[b] = "collecting" /\ b \in expired
    /\ dispatcher' = [dispatcher EXCEPT ![b] = "gaveup"]
    /\ UNCHANGED <<callVars, next, expired, worker, inHand, written, completed>>

\* The timers of a dispatcher fire.
Expire(b) ==
    /\ dispatcher[b] # "none" /\ b \notin expired
    /\ expired' = expired \cup {b}
    /\ UNCHANGED <<callVars, dispatcher, next, worker, inHand, written, completed>>

DispatcherStep(b) == CloseQueue(b) \/ TimeoutCompleted(b) \/ Expire(b)
WorkerStep(b, w) == HandOver(b, w) \/ QueueClosed(b, w) \/ Completed(b, w)

SdNext ==
    \/ \E b \in Batches : SkipBatch(b) \/ SdExportData(b) \/ DispatcherStep(b)
    \/ \E b \in Batches, w \in Workers : WorkerStep(b, w) \/ SendOneRequest(b, w)

SdSpec == SdInit /\ [][SdNext]_sdVars

\* Timers fire and goroutines run; a request may never be answered.
SdFairness ==
    \A b \in Batches :
        /\ WF_sdVars(DispatcherStep(b))
        /\ \A w \in Workers : WF_sdVars(WorkerStep(b, w))

-----------------------------------------------------------------------------
\* Every request that was handed over is in the hand of exactly one worker or
\* was sent, and the dispatcher reports that all workers "successfully finished"
\* only if every request it did not drop was sent.
RequestsAccounted ==
    \A b \in Batches :
        LET held == {w \in Workers : inHand[b][w] # 0}
        IN  /\ 1 .. next[b] = written[b] \cup {inHand[b][w] : w \in held}
            /\ \A w \in held : inHand[b][w] \notin written[b]
            /\ \A v, w \in held : inHand[b][v] = inHand[b][w] => v = w
            /\ dispatcher[b] = "completed" => held = {}

\* "Close the channel in order to cancel exporting routines": once the channel is
\* closed every worker that is not kept by a request goes away, unless the
\* dispatcher gave up first; then a worker that reports after it is left behind
\* for ever, blocked on completedQueue.
WorkersCancelled ==
    \A b \in Batches, w \in Workers :
        dispatcher[b] = "collecting" /\ worker[b][w] = "ready"
            ~> \/ worker[b][w] = "exited"
               \/ worker[b][w] = "reporting" /\ dispatcher[b] = "gaveup"

=============================================================================
