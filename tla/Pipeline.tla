------------------------------ MODULE Pipeline -------------------------------
(***************************************************************************)
(* The main loop (module Manager) with the sink manager (module            *)
(* SinkManager) it exports to: a round's call of rm.sink.ExportData is a   *)
(* call of the sink manager, and a Stop received by the loop is a Stop of  *)
(* the sink manager.  Rounds overlap when they take longer than a window,  *)
(* and a round in flight when the loop stops exports to sinks that are     *)
(* being stopped.  Several values of exportDataTimeout are tried: short    *)
(* ones with which a round fits in a window, and longer ones with which    *)
(* rounds overlap.                                                         *)
(*                                                                         *)
(* The three stages of a round have the durations the code gives them: the *)
(* source manager returns within its timeout (SourceManager!ReturnsInTime),*)
(* processors only compute, and the pushers of an export give up after     *)
(* exportDataTimeout.  The sinks themselves may take for ever.             *)
(***************************************************************************)
EXTENDS Manager, Sequences

CONSTANTS
    Sinks, NoBatch,
    ScrapeTimeout,  \* the longest call of source.ScrapeMetrics
    ProcessTime,    \* the longest run of the processors
    ExportTimeouts  \* the values tried for exportDataTimeout of the sink manager

ASSUME PipelineAssumption ==
    /\ NoBatch \notin Nat
    /\ ScrapeTimeout \in Nat /\ ProcessTime \in Nat /\ ExportTimeouts \subseteq Nat

VARIABLES
    caller, pusher, loop, batch, received, stopper,
    exportTimeout,  \* exportDataTimeout, set by NewDataSinkManager for good
    deadline        \* when the current stage of each round is to end

SM == INSTANCE SinkManager WITH Calls <- Windows

smVars == <<caller, pusher, loop, batch, received, stopper>>
timing == <<exportTimeout, deadline>>
vars == <<mgrVars, smVars, timing>>

PipelineInit ==
    /\ Init
    /\ SM!Init
    /\ exportTimeout \in ExportTimeouts
    /\ deadline = [w \in Windows |-> 0]

\* A step of the loop that touches no sink; starting a round sets its clock.
Loop ==
    /\ \/ /\ LoopTop \/ TimerFires \/ SemaphoreTimeout \/ CallStop
          /\ UNCHANGED deadline
       \/ /\ AcquireSemaphore
          /\ deadline' = [deadline EXCEPT ![start] = now + ScrapeTimeout]
    /\ UNCHANGED <<smVars, exportTimeout>>

\* Housekeep receives the stop and calls sink.Stop().
StopPipeline == ReceiveStop /\ SM!Stop /\ UNCHANGED timing

Scraped(w) ==
    /\ ScrapeMetrics(w) \/ ScrapeError(w)
    /\ deadline' = [deadline EXCEPT ![w] = now + ProcessTime]
    /\ UNCHANGED <<smVars, exportTimeout>>

Processed(w) ==
    /\ Process(w) \/ ProcessError(w) \/ GiveBack(w)
    /\ UNCHANGED <<smVars, timing>>

\* Mutant: the sink manager is given its stop timeout, three times as long, as
\* its export timeout.
ExportDataLongTimeout(w) ==
    /\ CallExportData(w)
    /\ SM!ExportData(w)
    /\ deadline' = [deadline EXCEPT ![w] = now + 3 * Resolution]
    /\ UNCHANGED exportTimeout

ExportData(w) ==
    /\ CallExportData(w)
    /\ SM!ExportData(w)
    /\ deadline' = [deadline EXCEPT ![w] = now + exportTimeout]
    /\ UNCHANGED exportTimeout

ExportReturns(w) ==
    /\ ExportDataReturns(w)
    /\ SM!ExportDataReturn(w)
    /\ UNCHANGED timing

\* The goroutines of the sink manager; a pusher's timer knows the time.
PushTimeout(w, s) == now >= deadline[w] /\ SM!PushTimeout(w, s) /\ UNCHANGED <<mgrVars, timing>>

SinkStep(s) ==
    /\ \/ \E w \in Windows : SM!PushData(w, s)
       \/ SM!SinkExported(s) \/ SM!SendStop(s) \/ SM!StopTimeout(s) \/ SM!SinkStopped(s)
    /\ UNCHANGED <<mgrVars, timing>>

\* Time passes unless a stage of a round is overdue.
PipelineTick ==
    /\ \A w \in InFlight : now < deadline[w] + MaxLateness
    /\ Tick
    /\ UNCHANGED <<smVars, timing>>

PipelineNext ==
    \/ Loop \/ StopPipeline \/ PipelineTick
    \/ \E w \in Windows : Scraped(w) \/ Processed(w) \/ ExportData(w) \/ ExportReturns(w)
    \/ \E w \in Windows, s \in Sinks : PushTimeout(w, s)
    \/ \E s \in Sinks : SinkStep(s)

PipelineSpec == PipelineInit /\ [][PipelineNext]_vars

\* Everything but the sinks makes progress.
Fairness ==
    /\ WF_vars(PipelineTick)
    /\ WF_vars(Loop \/ StopPipeline)
    /\ \A w \in Windows :
        /\ WF_vars(Scraped(w) \/ Processed(w) \/ ExportData(w) \/ ExportReturns(w))
        /\ \A s \in Sinks : WF_vars(PushTimeout(w, s))

PipelineFairSpec == PipelineSpec /\ Fairness

-----------------------------------------------------------------------------
\* The longest from the moment the timer of a round is due until the round ends
\* when a token is free: the timer and the end of each of the three stages may
\* be late, and a token that is free is taken at once.
RoundTime == ScrapeTimeout + ProcessTime + exportTimeout + 4 * MaxLateness

\* When the timeouts of the three stages add up to less than a window, a round
\* is over before the next one starts, and every sink receives its batches in
\* the order of their timestamps.  RateCalculator keeps the previous batch in a
\* field without a lock, the enrichers write to a global map, and
\* GetLatestDataBatch of the metric sink ("TODO: add sorting") takes the last
\* batch for the newest: this is what makes them safe, and with longer timeouts
\* none of it holds.
RoundsApart ==
    RoundTime < Resolution =>
        /\ Cardinality(InFlight) <= 1
        /\ \A s \in Sinks : \A i, j \in DOMAIN received[s] :
            i < j => received[s][i] < received[s][j]

\* A round that takes a token gives it back, whichever sinks hang, however many
\* rounds are exporting and whether or not the sinks were stopped before.
RoundsEnd == \A w \in Windows : round[w] = "scrape" ~> round[w] = "done"

\* With several rounds exporting at once, and a Stop at any moment, the sink
\* manager is a lossy fan-out: a batch is offered to each sink once, never while
\* it is busy or stopped, and a call returns only when every sink has taken the
\* batch or its pusher has given up.
FansOut == SM!ImplementsLossyFanout
=============================================================================
