------------------------------- MODULE Manager -------------------------------
(***************************************************************************)
(* The main loop of heapster (metrics/manager/manager.go).  Housekeep      *)
(* waits for the end of the current window plus an offset, or for Stop;    *)
(* housekeep then takes one of MaxParallelism tokens, or gives up after    *)
(* half a resolution, and runs the round (scrape, process, export) in a    *)
(* goroutine of its own that gives the token back however it ends.         *)
(*                                                                         *)
(* Time is discrete.  A step of the loop that is due is taken at most      *)
(* MaxLateness later (the scheduler's delay); nothing bounds how long the  *)
(* calls made by a round take.                                             *)
(***************************************************************************)
EXTENDS Integers, FiniteSets

CONSTANTS
    Resolution,       \* rm.resolution
    ScrapeOffset,     \* rm.scrapeOffset
    MaxParallelism,   \* the tokens NewManager puts in housekeepSemaphoreChan
    NumProcessors,    \* len(rm.processors)
    MaxLateness,      \* how late a due step of the loop may be taken
    MaxStart,         \* bound: no timer of the loop fires after this time
    MaxTime           \* bound: the clock stops here

ASSUME ResolutionAssumption == Resolution \in Nat \ {0}
ASSUME ScrapeOffsetAssumption == ScrapeOffset \in Nat
ASSUME MaxParallelismAssumption == MaxParallelism \in Nat
ASSUME NumProcessorsAssumption == NumProcessors \in Nat
ASSUME MaxLatenessAssumption == MaxLateness \in Nat
ASSUME MaxStartAssumption == MaxStart \in Nat

\* NewManager: rm.housekeepTimeout
HousekeepTimeout == Resolution \div 2

\* The clock runs long enough for the last wait for the semaphore to end.
ASSUME MaxTimeAssumption ==
    /\ MaxTime \in Nat
    /\ MaxTime >= Resolution
    /\ MaxTime >= MaxStart + HousekeepTimeout + MaxLateness

\* time.Time.Truncate(rm.resolution)
Truncate(t) == t - (t % Resolution)

Windows == {t \in 0 .. MaxTime : t % Resolution = 0}

VARIABLES
    now,        \* the wall clock
    loopPc,     \* Housekeep: "top", "timer", "semaphore" or "returned"
    due,        \* when the loop's next step is due
    start,      \* the window of the current iteration
    sem,        \* tokens in housekeepSemaphoreChan
    round,      \* the goroutine of each window's round
    nextProc,   \* the number of processors each round has run
    stopReq,    \* Stop: "none", "sending" (blocked on stopChan) or "received"
    tried,      \* history: the windows housekeep was called with
    stopAt      \* history: when Stop was called

mgrVars == <<now, loopPc, due, start, sem, round, nextProc, stopReq, tried, stopAt>>

Active == {"scrape", "process", "export", "giveback"}
InFlight == {w \in Windows : round[w] \in Active}

-----------------------------------------------------------------------------
Init ==
    /\ now \in 0 .. Resolution - 1
    /\ loopPc = "top"
    /\ due = now
    /\ start = 0
    /\ sem = MaxParallelism
    /\ round = [w \in Windows |-> "none"]
    /\ nextProc = [w \in Windows |-> 0]
    /\ stopReq = "none"
    /\ tried = {}
    /\ stopAt = 0

\* Mutant: the timer is set to the start of the window.
LoopTopTimerAtStart ==
    /\ loopPc = "top"
    /\ start' = Truncate(now)
    /\ due' = start' + ScrapeOffset
    /\ loopPc' = "timer"
    /\ UNCHANGED <<now, sem, round, nextProc, stopReq, tried, stopAt>>

\* Mutant: the timer waits a resolution from now.
LoopTopTimerFromNow ==
    /\ loopPc = "top"
    /\ start' = Truncate(now)
    /\ due' = now + Resolution + ScrapeOffset
    /\ loopPc' = "timer"
    /\ UNCHANGED <<now, sem, round, nextProc, stopReq, tried, stopAt>>

\* The head of the loop: compute the window and enter the select.  The timer
\* fires at end.Add(scrapeOffset).
LoopTop ==
    /\ loopPc = "top"
    /\ start' = Truncate(now)
    /\ due' = start' + Resolution + ScrapeOffset
    /\ loopPc' = "timer"
    /\ UNCHANGED <<now, sem, round, nextProc, stopReq, tried, stopAt>>

\* Mutant: the wait for the semaphore lasts a whole resolution.
TimerFiresLongWait ==
    /\ loopPc = "timer"
    /\ now >= due
    /\ now <= MaxStart
    /\ loopPc' = "semaphore"
    /\ due' = now + Resolution
    /\ tried' = tried \cup {start}
    /\ UNCHANGED <<now, start, sem, round, nextProc, stopReq, stopAt>>

\* The timer branch: housekeep(start, end).  start.Before(end) always holds
\* because Resolution is positive, so housekeep enters its own select.
TimerFires ==
    /\ loopPc = "timer"
    /\ now >= due
    /\ now <= MaxStart
    /\ loopPc' = "semaphore"
    /\ due' = now + HousekeepTimeout
    /\ tried' = tried \cup {start}
    /\ UNCHANGED <<now, start, sem, round, nextProc, stopReq, stopAt>>

\* A token is taken and the round's goroutine started.
AcquireSemaphore ==
    /\ loopPc = "semaphore"
    /\ sem > 0
    /\ sem' = sem - 1
    /\ round' = [round EXCEPT ![start] = "scrape"]
    /\ loopPc' = "top"
    /\ due' = now
    /\ UNCHANGED <<now, start, nextProc, stopReq, tried, stopAt>>

\* Mutant: instead of giving the window up the wait starts again.
SemaphoreTimeoutRetries ==
    /\ loopPc = "semaphore"
    /\ now >= due
    /\ due' = now + HousekeepTimeout
    /\ UNCHANGED <<now, loopPc, start, sem, round, nextProc, stopReq, tried, stopAt>>

\* "Spent too long waiting for housekeeping to start": the window is given up.
SemaphoreTimeout ==
    /\ loopPc = "semaphore"
    /\ now >= due
    /\ loopPc' = "top"
    /\ due' = now
    /\ UNCHANGED <<now, start, sem, round, nextProc, stopReq, tried, stopAt>>

\* A caller of Stop blocks on the unbuffered stopChan ...
CallStop ==
    /\ stopReq = "none"
    /\ stopReq' = "sending"
    /\ stopAt' = now
    /\ UNCHANGED <<now, loopPc, due, start, sem, round, nextProc, tried>>

\* ... until Housekeep selects, calls sink.Stop() and returns.
ReceiveStop ==
    /\ loopPc = "timer"
    /\ stopReq = "sending"
    /\ stopReq' = "received"
    /\ loopPc' = "returned"
    /\ UNCHANGED <<now, due, start, sem, round, nextProc, tried, stopAt>>

\* A round moves from one state to another.
Goto(w, from, to) ==
    /\ round[w] = from
    /\ round' = [round EXCEPT ![w] = to]
    /\ UNCHANGED <<now, loopPc, due, start, stopReq, tried, stopAt>>

ScrapeMetrics(w) == Goto(w, "scrape", "process") /\ UNCHANGED <<sem, nextProc>>

\* Mutant: the error path leaves before the deferred send.
ScrapeErrorKeepsToken(w) == Goto(w, "scrape", "done") /\ UNCHANGED <<sem, nextProc>>

ScrapeError(w) == Goto(w, "scrape", "giveback") /\ UNCHANGED <<sem, nextProc>>

\* One iteration of the loop over rm.processors.
Process(w) ==
    /\ round[w] = "process"
    /\ nextProc[w] < NumProcessors
    /\ nextProc' = [nextProc EXCEPT ![w] = @ + 1]
    /\ UNCHANGED <<now, loopPc, due, start, sem, round, stopReq, tried, stopAt>>

ProcessError(w) ==
    /\ nextProc[w] < NumProcessors
    /\ Goto(w, "process", "giveback")
    /\ UNCHANGED <<sem, nextProc>>

\* rm.sink.ExportData(data) is called, and returns.
CallExportData(w) ==
    /\ nextProc[w] = NumProcessors
    /\ Goto(w, "process", "export")
    /\ UNCHANGED <<sem, nextProc>>

ExportDataReturns(w) == Goto(w, "export", "giveback") /\ UNCHANGED <<sem, nextProc>>

\* The deferred send: it blocks while the channel is full.
GiveBack(w) ==
    /\ sem < MaxParallelism
    /\ sem' = sem + 1
    /\ Goto(w, "giveback", "done")
    /\ UNCHANGED nextProc

\* Time passes, but not while the loop has a step to take that is more than
\* MaxLateness overdue or a partner of one of its channels is waiting.
LoopMayWait ==
    \/ loopPc = "returned"
    \/ loopPc = "top" /\ now < due + MaxLateness
    \/ loopPc = "timer" /\ now < due + MaxLateness /\ stopReq # "sending"
    \/ loopPc = "semaphore" /\ now < due + MaxLateness /\ sem = 0

Tick ==
    /\ now < MaxTime
    /\ LoopMayWait
    /\ now' = now + 1
    /\ UNCHANGED <<loopPc, due, start, sem, round, nextProc, stopReq, tried, stopAt>>

LoopStep == LoopTop \/ TimerFires \/ AcquireSemaphore \/ SemaphoreTimeout \/ ReceiveStop

RoundStep(w) ==
    \/ ScrapeMetrics(w) \/ ScrapeError(w)
    \/ Process(w) \/ ProcessError(w)
    \/ CallExportData(w) \/ ExportDataReturns(w)
    \/ GiveBack(w)

Next ==
    \/ LoopStep
    \/ CallStop
    \/ \E w \in Windows : RoundStep(w)
    \/ Tick

Spec == Init /\ [][Next]_mgrVars

\* Time passes and the loop's goroutine runs.  Nothing is assumed of the
\* rounds: a source, a processor or a sink may hang.
FairSpec == Spec /\ WF_mgrVars(Tick) /\ WF_mgrVars(LoopStep)

-----------------------------------------------------------------------------
\* Types: the tokens never exceed the capacity of housekeepSemaphoreChan, and
\* rounds are of windows on the grid of the resolution.
TypeOK ==
    /\ now \in 0 .. MaxTime
    /\ loopPc \in {"top", "timer", "semaphore", "returned"}
    /\ due \in Nat
    /\ start \in Windows
    /\ sem \in 0 .. MaxParallelism
    /\ round \in [Windows -> {"none", "done"} \cup Active]
    /\ nextProc \in [Windows -> 0 .. NumProcessors]
    /\ stopReq \in {"none", "sending", "received"}
    /\ tried \subseteq Windows
    /\ stopAt \in 0 .. MaxTime

\* "should always give back the semaphore": whatever error path a round takes,
\* the tokens in the channel and the rounds in flight add up to
\* MaxParallelism.  So at most MaxParallelism rounds run at once, and the
\* deferred send of a round that ends never blocks.
SemaphoreConserved == sem + Cardinality(InFlight) = MaxParallelism

\* No window is scraped twice: while the loop waits for its timer, the window
\* it is about to scrape is later than every window it has tried, however late
\* the loop ran and whatever it spent waiting for a token.
WindowsAdvance == loopPc = "timer" => \A w \in tried : w < start

\* Housekeep never skips a window: the windows it calls housekeep with are
\* contiguous.
Contiguous ==
    \A v, w \in tried : \A u \in Windows : v < u /\ u < w => u \in tried

\* A caller of Stop waits no longer than one wait for the semaphore, even when
\* every round hangs and holds its token.
StopBounded == stopReq = "sending" => now <= stopAt + HousekeepTimeout + 2 * MaxLateness

\* A caller of Stop is let go, with no help from the rounds.
StopReceived == stopReq = "sending" ~> stopReq = "received"
=============================================================================
