------------------------------- MODULE Eventer -------------------------------
(***************************************************************************)
(* The eventer: a watch of the API server's events                         *)
(* (events/sources/kubernetes/kubernetes_source.go) fills a bounded buffer *)
(* that the main loop (events/manager/manager.go) drains and hands to the  *)
(* sink manager (events/sinks/manager.go, module SinkManager), one batch   *)
(* at a time.                                                              *)
(*                                                                         *)
(* An update of the API server is its resource version.  A connection of   *)
(* the watch may end at any moment; the source then lists again and goes   *)
(* on from the version of the list, "Do not write old events".  Nothing in *)
(* the repository sends on the source's stopChannel, so the watch never    *)
(* stops.                                                                  *)
(***************************************************************************)
EXTENDS Naturals, Sequences, FiniteSets, Functions

CONSTANTS
    Sinks, NoBatch,
    BufferSize,     \* LocalEventsBufferSize
    MaxUpdates,     \* bound: the updates the API server makes
    MaxRounds       \* bound: the housekeeps of the main loop

ASSUME EventerAssumption ==
    BufferSize \in Nat /\ MaxUpdates \in Nat /\ MaxRounds \in Nat

Rounds == 1 .. MaxRounds

VARIABLES
    version,    \* the API server's latest resource version
    deleted,    \* the updates that are deletions
    watch,      \* watch(): "list", "start" or "inner" (its inner loop)
    seen,       \* the version up to which the watch has seen the updates
    buffer,     \* localEventsBuffer
    mgr,        \* Housekeep: "select", "drain", "export" or "returned"
    round,      \* the number of housekeeps so far
    events,     \* the events of each housekeep's batch
    stopReq,    \* Stop: "none", "sending" or "received"
    full,       \* history: the updates dropped because the buffer was full
    missed,     \* history: the updates made while the watch was down
    caller, pusher, loop, batch, received, stopper

SM == INSTANCE SinkManager WITH Calls <- Rounds

sourceVars == <<version, deleted, watch, seen, full, missed>>
mgrVars == <<mgr, round, events, stopReq>>
smVars == <<caller, pusher, loop, batch, received, stopper>>
vars == <<sourceVars, buffer, mgrVars, smVars>>

Init ==
    /\ version = 0 /\ deleted = {}
    /\ watch = "list" /\ seen = 0 /\ buffer = << >>
    /\ mgr = "select" /\ round = 0 /\ events = [r \in Rounds |-> << >>]
    /\ stopReq = "none"
    /\ full = {} /\ missed = {}
    /\ SM!Init

\* The API server creates or modifies an event, or deletes one.
Update ==
    /\ version < MaxUpdates
    /\ version' = version + 1
    /\ deleted' \in {deleted, deleted \cup {version + 1}}
    /\ UNCHANGED <<watch, seen, full, missed, buffer, mgrVars, smVars>>

\* Mutant: the watch is resumed from the beginning.
ListFromStart ==
    /\ watch = "list"
    /\ watch' = "start"
    /\ seen' = 0
    /\ UNCHANGED <<version, deleted, full, missed, buffer, mgrVars, smVars>>

\* List: what changed since the watch was last up is not written.
List ==
    /\ watch = "list"
    /\ watch' = "start"
    /\ seen' = version
    /\ missed' = missed \cup (seen + 1) .. version
    /\ UNCHANGED <<version, deleted, full, buffer, mgrVars, smVars>>

\* Watch from the version of the list; on an error list again.
StartWatch ==
    /\ watch = "start"
    /\ watch' \in {"inner", "list"}
    /\ UNCHANGED <<version, deleted, seen, full, missed, buffer, mgrVars, smVars>>

\* Mutant: a full buffer loses its oldest event.
ReceiveEvictsOldest ==
    /\ watch = "inner"
    /\ seen < version
    /\ seen' = seen + 1
    /\ buffer' = IF seen' \in deleted THEN buffer
                 ELSE Append(IF Len(buffer) < BufferSize THEN buffer ELSE Tail(buffer), seen')
    /\ UNCHANGED <<version, deleted, watch, full, missed, mgrVars, smVars>>

\* An update arrives; a deletion is ignored, another is buffered or dropped.
Receive ==
    /\ watch = "inner"
    /\ seen < version
    /\ seen' = seen + 1
    /\ \/ seen' \in deleted /\ UNCHANGED <<buffer, full>>
       \/ /\ seen' \notin deleted /\ Len(buffer) < BufferSize
          /\ buffer' = Append(buffer, seen')
          /\ UNCHANGED full
       \/ /\ seen' \notin deleted /\ Len(buffer) = BufferSize
          /\ full' = full \cup {seen'}
          /\ UNCHANGED buffer
    /\ UNCHANGED <<version, deleted, watch, missed, mgrVars, smVars>>

\* The watch channel is closed or reports an error.
Disconnect ==
    /\ watch = "inner"
    /\ watch' = "list"
    /\ UNCHANGED <<version, deleted, seen, full, missed, buffer, mgrVars, smVars>>

\* The timer branch of Housekeep.
TimerFires ==
    /\ mgr = "select"
    /\ round < MaxRounds
    /\ mgr' = "drain"
    /\ round' = round + 1
    /\ UNCHANGED <<sourceVars, buffer, events, stopReq, smVars>>

\* GetNewEvents takes events until it finds the buffer empty.
GetNewEvents ==
    /\ mgr = "drain"
    /\ buffer # << >>
    /\ events' = [events EXCEPT ![round] = Append(@, Head(buffer))]
    /\ buffer' = Tail(buffer)
    /\ UNCHANGED <<sourceVars, mgr, round, stopReq, smVars>>

ExportEvents ==
    /\ mgr = "drain"
    /\ buffer = << >>
    /\ mgr' = "export"
    /\ SM!ExportData(round)
    /\ UNCHANGED <<sourceVars, buffer, round, events, stopReq>>

ExportReturns ==
    /\ mgr = "export"
    /\ mgr' = "select"
    /\ SM!ExportDataReturn(round)
    /\ UNCHANGED <<sourceVars, buffer, round, events, stopReq>>

CallStop ==
    /\ stopReq = "none"
    /\ stopReq' = "sending"
    /\ UNCHANGED <<sourceVars, buffer, mgr, round, events, smVars>>

ReceiveStop ==
    /\ mgr = "select" /\ stopReq = "sending"
    /\ mgr' = "returned" /\ stopReq' = "received"
    /\ SM!Stop
    /\ UNCHANGED <<sourceVars, buffer, round, events>>

SinkStep == SM!Internal /\ UNCHANGED <<sourceVars, buffer, mgrVars>>

WatchStep == List \/ StartWatch \/ Receive \/ Disconnect
MgrStep == TimerFires \/ GetNewEvents \/ ExportEvents \/ ExportReturns \/ ReceiveStop

Next == Update \/ WatchStep \/ MgrStep \/ CallStop \/ SinkStep

Spec == Init /\ [][Next]_vars

-----------------------------------------------------------------------------
Drained == UNION {Range(events[r]) : r \in Rounds}

\* Each update the watch has passed is a deletion, or waits in the buffer, or is
\* in a batch, or was lost in one of the two ways the code provides for.  It is
\* never both lost and kept, nor both waiting and handed over.
EventsAccounted ==
    /\ 1 .. seen = {u \in deleted : u <= seen} \cup Range(buffer) \cup Drained \cup full \cup missed
    /\ Range(buffer) \cap Drained = {}
    /\ (full \cup missed) \cap (Range(buffer) \cup Drained) = {}

\* "each event can be obtained only once": across all batches, disconnections
\* and relists included, updates come once and in order, and so do the batches
\* at every sink.
OnceInOrder ==
    /\ \A q, r \in Rounds : \A i \in DOMAIN events[q], j \in DOMAIN events[r] :
        q < r \/ (q = r /\ i < j) => events[q][i] < events[r][j]
    /\ \A s \in Sinks : \A i, j \in DOMAIN received[s] :
        i < j => received[s][i] < received[s][j]

\* The sink manager of the eventer (events/sinks/manager.go), with a stop of the
\* loop at any moment, is a lossy fan-out of the batches to all its sinks: each
\* is offered a batch once, never while it is busy or stopped, and the next
\* batch is not drained before the fate of this one is settled everywhere.
EventsFanOut == SM!ImplementsLossyFanout
=============================================================================
