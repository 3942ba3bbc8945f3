----------------------------- MODULE SinkManager -----------------------------
(***************************************************************************)
(* The sink manager of heapster (metrics/sinks/manager.go): a sink that    *)
(* distributes every batch to the configured sinks.  Each sink has a       *)
(* goroutine that loops on a select over two unbuffered channels, its data *)
(* channel and its stop channel.  ExportData starts one pusher goroutine   *)
(* per sink, which hands the batch over or gives up after                  *)
(* exportDataTimeout, and waits for all of them.  Stop starts one stopper  *)
(* goroutine per sink and waits for none of them.                          *)
(*                                                                         *)
(* The sink manager of the eventer (events/sinks/manager.go) is the same   *)
(* program over event batches.                                             *)
(*                                                                         *)
(* An unbuffered send is a rendezvous: one step of the sender and of the   *)
(* sink's goroutine.  A time.After branch may be taken at any moment, for  *)
(* the durations of exports are not known; what follows from comparing     *)
(* clocks is in module Pipeline.                                           *)
(***************************************************************************)
EXTENDS Naturals, Sequences, FiniteSets

CONSTANTS
    Sinks,      \* the configured sinks
    Calls,      \* the calls of ExportData, each with a batch of its own
    NoBatch     \* "no batch": what an idle sink is exporting

VARIABLES
    caller,     \* ExportData: "idle", "waiting" (in wg.Wait) or "returned"
    pusher,     \* pusher goroutines: "none", "select", "pushed" or "dropped"
    loop,       \* sink goroutines: "select", "export", "stop" or "returned"
    batch,      \* the batch each sink goroutine is exporting
    received,   \* history: the batches each sink was handed, in order
    stopper     \* stopper goroutines: "none", "select", "sent" or "gaveup"

smVars == <<caller, pusher, loop, batch, received, stopper>>

-----------------------------------------------------------------------------
Init ==
    /\ caller = [c \in Calls |-> "idle"]
    /\ pusher = [c \in Calls |-> [s \in Sinks |-> "none"]]
    /\ loop = [s \in Sinks |-> "select"]
    /\ batch = [s \in Sinks |-> NoBatch]
    /\ received = [s \in Sinks |-> << >>]
    /\ stopper = [s \in Sinks |-> "none"]

\* ExportData: start a pusher per sink and wait for the group.
ExportData(c) ==
    /\ caller[c] = "idle"
    /\ caller' = [caller EXCEPT ![c] = "waiting"]
    /\ pusher' = [pusher EXCEPT ![c] = [s \in Sinks |-> "select"]]
    /\ UNCHANGED <<loop, batch, received, stopper>>

\* The send branch of a pusher's select meets the receive branch of the sink.
PushData(c, s) ==
    /\ pusher[c][s] = "select"
    /\ loop[s] = "select"
    /\ pusher' = [pusher EXCEPT ![c][s] = "pushed"]
    /\ loop' = [loop EXCEPT ![s] = "export"]
    /\ batch' = [batch EXCEPT ![s] = c]
    /\ received' = [received EXCEPT ![s] = Append(@, c)]
    /\ UNCHANGED <<caller, stopper>>

\* Mutant: the timeout branch leaves without wg.Done().
PushTimeoutWithoutDone(c, s) ==
    /\ pusher[c][s] = "select"
    /\ pusher' = [pusher EXCEPT ![c][s] = "none"]
    /\ UNCHANGED <<caller, loop, batch, received, stopper>>

\* The time.After(exportDataTimeout) branch: the batch is dropped.
PushTimeout(c, s) ==
    /\ pusher[c][s] = "select"
    /\ pusher' = [pusher EXCEPT ![c][s] = "dropped"]
    /\ UNCHANGED <<caller, loop, batch, received, stopper>>

\* Mutant: ExportData does not wait for the pushers.
ExportDataReturnWithoutWait(c) ==
    /\ caller[c] = "waiting"
    /\ caller' = [caller EXCEPT ![c] = "returned"]
    /\ UNCHANGED <<pusher, loop, batch, received, stopper>>

\* wg.Wait returns once every pusher has called wg.Done.
ExportDataReturn(c) ==
    /\ caller[c] = "waiting"
    /\ \A s \in Sinks : pusher[c][s] \in {"pushed", "dropped"}
    /\ caller' = [caller EXCEPT ![c] = "returned"]
    /\ UNCHANGED <<pusher, loop, batch, received, stopper>>

\* The sink's own ExportData returns; its goroutine selects again.
SinkExported(s) ==
    /\ loop[s] = "export"
    /\ loop' = [loop EXCEPT ![s] = "select"]
    /\ batch' = [batch EXCEPT ![s] = NoBatch]
    /\ UNCHANGED <<caller, pusher, received, stopper>>

\* Stop: start a stopper per sink and return.
Stop ==
    /\ \A s \in Sinks : stopper[s] = "none"
    /\ stopper' = [s \in Sinks |-> "select"]
    /\ UNCHANGED <<caller, pusher, loop, batch, received>>

\* The send branch of a stopper's select meets the sink, which stops.
SendStop(s) ==
    /\ stopper[s] = "select"
    /\ loop[s] = "select"
    /\ stopper' = [stopper EXCEPT ![s] = "sent"]
    /\ loop' = [loop EXCEPT ![s] = "stop"]
    /\ UNCHANGED <<caller, pusher, batch, received>>

\* The time.After(stopTimeout) branch: nobody will stop this sink any more.
StopTimeout(s) ==
    /\ stopper[s] = "select"
    /\ stopper' = [stopper EXCEPT ![s] = "gaveup"]
    /\ UNCHANGED <<caller, pusher, loop, batch, received>>

\* Mutant: the goroutine selects again after the sink's Stop.
SinkStoppedWithoutReturn(s) ==
    /\ loop[s] = "stop"
    /\ loop' = [loop EXCEPT ![s] = "select"]
    /\ UNCHANGED <<caller, pusher, batch, received, stopper>>

\* The sink's own Stop returns and its goroutine with it.
SinkStopped(s) ==
    /\ loop[s] = "stop"
    /\ loop' = [loop EXCEPT ![s] = "returned"]
    /\ UNCHANGED <<caller, pusher, batch, received, stopper>>

\* The steps the sink manager takes by itself once it has been called.
Internal ==
    \/ \E c \in Calls, s \in Sinks : PushData(c, s) \/ PushTimeout(c, s)
    \/ \E s \in Sinks : SinkExported(s) \/ SendStop(s) \/ StopTimeout(s) \/ SinkStopped(s)

Next ==
    \/ \E c \in Calls : ExportData(c) \/ ExportDataReturn(c)
    \/ Stop
    \/ Internal

Spec == Init /\ [][Next]_smVars

-----------------------------------------------------------------------------
\* The sink manager implements lossy fan-out.
LF == INSTANCE LossyFanout WITH
    begun   <- {c \in Calls : caller[c] # "idle"},
    ended   <- {c \in Calls : caller[c] = "returned"},
    pending <- {p \in Calls \X Sinks : pusher[p[1]][p[2]] = "select"},
    log     <- received,
    busy    <- {s \in Sinks : loop[s] = "export"},
    stopped <- {s \in Sinks : loop[s] \in {"stop", "returned"}}

\* Every behaviour of the goroutines is one that lossy fan-out allows: offered
\* once, never to a busy or stopped sink, and returned only when settled.
ImplementsLossyFanout == LF!Spec
=============================================================================
