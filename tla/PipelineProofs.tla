--------------------------- MODULE PipelineProofs ----------------------------
(***************************************************************************)
(* Proofs about the main loop of heapster, for every resolution, offset,   *)
(* parallelism, number of processors, lateness and length of run, and      *)
(* about the main loop with its sink manager, for any sinks and timeouts.  *)
(***************************************************************************)
EXTENDS Pipeline, FiniteSetTheorems, TLAPS

-----------------------------------------------------------------------------
(* Arithmetic of windows                                                   *)

\* Truncate rounds down to a multiple of the resolution, by less than one
\* resolution.
LEMMA TruncateFacts ==
    ASSUME NEW t \in Nat
    PROVE  /\ Truncate(t) \in Nat
           /\ Truncate(t) <= t
           /\ t < Truncate(t) + Resolution
           /\ Truncate(t) % Resolution = 0
  BY ResolutionAssumption, SMTT(30) DEF Truncate

\* The gap between two multiples of a number.
LEMMA MultiplesApart ==
    ASSUME NEW R \in Nat \ {0}, NEW p \in Nat, NEW q \in Nat, p < q
    PROVE  R * p + R <= R * q
<1>1. q - p - 1 \in Nat
  OBVIOUS
<1>2. R * (q - p - 1) >= 0
  BY <1>1
<1> QED
  BY <1>2

\* Two windows are at least a resolution apart.
LEMMA WindowsApart ==
    ASSUME NEW u \in Windows, NEW w \in Windows, u < w
    PROVE  u + Resolution <= w
<1> DEFINE p == u \div Resolution
           q == w \div Resolution
<1>1. /\ u \in Nat /\ u = Resolution * p /\ p \in Nat
      /\ w \in Nat /\ w = Resolution * q /\ q \in Nat
  BY ResolutionAssumption, MaxTimeAssumption DEF Windows
<1> HIDE DEF p, q
<1>2. p < q
  <2>1. CASE q = p
    BY <1>1, <2>1
  <2>2. CASE q < p
    BY <1>1, <2>2, MultiplesApart, ResolutionAssumption
  <2> QED
    BY <1>1, <2>1, <2>2
<1> QED
  BY <1>1, <1>2, MultiplesApart, ResolutionAssumption, Zenon

\* The window of every time of the run.
LEMMA TruncateIsWindow ==
    ASSUME NEW t \in 0 .. MaxTime
    PROVE  Truncate(t) \in Windows
<1>1. t \in Nat /\ t <= MaxTime /\ MaxTime \in Nat
  BY MaxTimeAssumption
<1>2. Truncate(t) \in Nat /\ Truncate(t) <= t /\ Truncate(t) % Resolution = 0
  BY <1>1, TruncateFacts, Zenon
<1>3. Truncate(t) \in 0 .. MaxTime
  BY <1>1, <1>2
<1> QED
  BY <1>2, <1>3, Zenon DEF Windows

\* Times less than two resolutions after the start of a window, but not less
\* than one, belong to the next window.
LEMMA NextWindow ==
    ASSUME NEW w \in Windows, NEW t \in 0 .. MaxTime,
           w + Resolution <= t, t < w + Resolution + Resolution
    PROVE  Truncate(t) = w + Resolution
<1> DEFINE v == Truncate(t)
<1>1. v \in Windows /\ v \in Nat /\ v <= t /\ t < v + Resolution
  BY TruncateIsWindow, TruncateFacts, MaxTimeAssumption
<1>2. w \in Nat
  BY DEF Windows
<1> HIDE DEF v
<1>3. w < v
  BY <1>1, <1>2, ResolutionAssumption
<1>4. w + Resolution <= v
  BY <1>1, <1>3, WindowsApart, Zenon
<1>5. \/ v = w + Resolution
      \/ w + Resolution < v
  BY <1>1, <1>2, <1>4, ResolutionAssumption
<1>6. CASE w + Resolution < v
  <2>1. w + Resolution \in Windows
    BY <1>1, <1>2, <1>6, ResolutionAssumption, MaxTimeAssumption DEF Windows
  <2>2. w + Resolution + Resolution <= v
    BY <2>1, <1>1, <1>6, WindowsApart, Zenon
  <2> QED
    BY <2>2, <1>1, <1>2, ResolutionAssumption
<1> QED
  BY <1>5, <1>6, Zenon DEF v

-----------------------------------------------------------------------------
(* Types                                                                   *)

USE DEF Active

\* The types of the constants and of what is defined from them.
LEMMA ConstantTypes ==
    /\ Resolution \in Nat /\ Resolution > 0
    /\ ScrapeOffset \in Nat /\ MaxParallelism \in Nat /\ NumProcessors \in Nat
    /\ MaxLateness \in Nat /\ MaxStart \in Nat /\ MaxTime \in Nat
    /\ HousekeepTimeout \in Nat
    /\ 0 \in Windows
<1>1. HousekeepTimeout \in Nat
  BY ResolutionAssumption DEF HousekeepTimeout
<1>2. 0 \in Windows
  BY ResolutionAssumption, MaxTimeAssumption DEF Windows
<1> QED
  BY <1>1, <1>2, ResolutionAssumption, ScrapeOffsetAssumption, MaxParallelismAssumption,
     NumProcessorsAssumption, MaxLatenessAssumption, MaxStartAssumption, MaxTimeAssumption

\* The window of the current time.
LEMMA TruncateNow ==
    ASSUME now \in 0 .. MaxTime
    PROVE  /\ Truncate(now) \in Windows
           /\ Truncate(now) \in Nat
           /\ Truncate(now) <= now
           /\ now < Truncate(now) + Resolution
<1>1. now \in Nat
  BY ConstantTypes
<1>2. Truncate(now) \in Windows
  BY TruncateIsWindow, Zenon
<1>3. Truncate(now) \in Nat /\ Truncate(now) <= now /\ now < Truncate(now) + Resolution
  BY <1>1, TruncateFacts, Zenon
<1> QED
  BY <1>2, <1>3, Zenon

\* NewManager and Start set up a state of the right types.
LEMMA InitTypeOK == Init => TypeOK
  BY ConstantTypes, MaxTimeAssumption DEF Init, TypeOK

\* Every step of the loop, of a round, of Stop and of the clock keeps the types.
LEMMA NextTypeOK == TypeOK /\ [Next]_mgrVars => TypeOK'
<1> SUFFICES ASSUME TypeOK, [Next]_mgrVars
             PROVE  TypeOK'
  BY Zenon
<1> USE ConstantTypes
<1>1. CASE LoopTop
  <2>1. Truncate(now) \in Windows /\ Truncate(now) \in Nat
    BY TruncateNow, Zenon DEF TypeOK
  <2> QED
    BY <1>1, <2>1 DEF LoopTop, TypeOK
<1>2. CASE TimerFires
  BY <1>2 DEF TimerFires, TypeOK
<1>3. CASE AcquireSemaphore
  BY <1>3 DEF AcquireSemaphore, TypeOK
<1>4. CASE SemaphoreTimeout
  BY <1>4 DEF SemaphoreTimeout, TypeOK
<1>5. CASE ReceiveStop
  BY <1>5, Zenon DEF ReceiveStop, TypeOK
<1>6. CASE CallStop
  BY <1>6, Zenon DEF CallStop, TypeOK
<1>7. ASSUME NEW w \in Windows, RoundStep(w)
      PROVE  TypeOK'
  BY <1>7 DEF RoundStep, ScrapeMetrics, ScrapeError, Process, ProcessError,
              CallExportData, ExportDataReturns, GiveBack, Goto, TypeOK
<1>8. CASE Tick
  BY <1>8 DEF Tick, TypeOK
<1>9. CASE UNCHANGED mgrVars
  BY <1>9, Zenon DEF mgrVars, TypeOK
<1> QED
  BY <1>1, <1>2, <1>3, <1>4, <1>5, <1>6, <1>7, <1>8, <1>9, Zenon DEF Next, LoopStep

\* Every variable of the main loop keeps its type; in particular the number of
\* tokens never exceeds the capacity of housekeepSemaphoreChan.
THEOREM TypeCorrect == Spec => []TypeOK
  BY InitTypeOK, NextTypeOK, PTL DEF Spec

-----------------------------------------------------------------------------
(* The loop: a window is tried once, after it has ended                    *)

LoopInv ==
    /\ \A w \in tried : w + Resolution <= now
    /\ loopPc = "timer" => /\ due = start + Resolution + ScrapeOffset
                           /\ start <= now
                           /\ \A w \in tried : w < start
    /\ loopPc = "semaphore" => start \in tried /\ round[start] = "none"
    /\ \A w \in Windows : round[w] # "none" => w \in tried

\* At the start the loop has tried no window.
LEMMA InitLoopInv == Init => LoopInv
  BY Zenon DEF Init, LoopInv

\* Every step of Housekeep keeps what the loop knows at its position.
LEMMA NextLoopInv == TypeOK /\ LoopInv /\ [Next]_mgrVars => LoopInv'
<1> SUFFICES ASSUME TypeOK, LoopInv, [Next]_mgrVars
             PROVE  LoopInv'
  BY Zenon
<1> USE ConstantTypes
<1>0. Windows \subseteq Nat
  BY DEF Windows
<1>1. CASE LoopTop
  <2>1. /\ Truncate(now) \in Nat /\ Truncate(now) <= now
        /\ now < Truncate(now) + Resolution
    BY TruncateNow, Zenon DEF TypeOK
  <2>2. \A w \in tried : w < Truncate(now)
    BY <1>0, <2>1 DEF LoopInv, TypeOK
  <2> QED
    BY <1>1, <2>1, <2>2, Zenon DEF LoopTop, LoopInv, TypeOK
<1>2. CASE TimerFires
  <2>1. start \notin tried /\ start + Resolution <= now
    BY <1>0, <1>2 DEF TimerFires, LoopInv, TypeOK
  <2> QED
    BY <1>0, <1>2, <2>1, Zenon DEF TimerFires, LoopInv, TypeOK
<1>3. CASE AcquireSemaphore
  BY <1>3, Zenon DEF AcquireSemaphore, LoopInv, TypeOK
<1>4. CASE SemaphoreTimeout
  BY <1>4, Zenon DEF SemaphoreTimeout, LoopInv
<1>5. CASE ReceiveStop
  BY <1>5, Zenon DEF ReceiveStop, LoopInv
<1>6. CASE CallStop
  BY <1>6, Zenon DEF CallStop, LoopInv
<1>7. ASSUME NEW w \in Windows, RoundStep(w)
      PROVE  LoopInv'
  <2>1. round[w] # "none" /\ UNCHANGED <<now, loopPc, due, start, tried>>
    BY <1>7, Zenon DEF RoundStep, ScrapeMetrics, ScrapeError, Process, ProcessError,
                CallExportData, ExportDataReturns, GiveBack, Goto
  <2>2. \A v \in Windows : v # w => round'[v] = round[v]
    BY <1>7, Zenon DEF RoundStep, ScrapeMetrics, ScrapeError, Process, ProcessError,
                CallExportData, ExportDataReturns, GiveBack, Goto, TypeOK
  <2> QED
    BY <2>1, <2>2, Zenon DEF LoopInv, TypeOK
<1>8. CASE Tick
  BY <1>0, <1>8 DEF Tick, LoopInv, TypeOK
<1>9. CASE UNCHANGED mgrVars
  BY <1>9, Zenon DEF mgrVars, LoopInv
<1> QED
  BY <1>1, <1>2, <1>3, <1>4, <1>5, <1>6, <1>7, <1>8, <1>9, Zenon DEF Next, LoopStep

\* LoopInv holds throughout.
LEMMA LoopInvariant == Spec => []LoopInv
  BY InitTypeOK, NextTypeOK, InitLoopInv, NextLoopInv, PTL DEF Spec

\* No window is scraped twice, whatever the parameters: the loop moves on to a
\* later window than all it has tried, however late it runs.
THEOREM WindowsAlwaysAdvance == Spec => []WindowsAdvance
<1>1. LoopInv => WindowsAdvance
  BY Zenon DEF LoopInv, WindowsAdvance
<1> QED
  BY <1>1, LoopInvariant, PTL

-----------------------------------------------------------------------------
(* The semaphore                                                           *)

\* The clock is bounded, so there are finitely many windows.
LEMMA WindowsFinite == IsFiniteSet(Windows)
<1>1. IsFiniteSet(0 .. MaxTime)
  BY FS_Interval, ConstantTypes
<1>2. Windows \subseteq 0 .. MaxTime
  BY Zenon DEF Windows
<1> QED
  BY <1>1, <1>2, FS_Subset, Zenon

\* The rounds in flight can be counted.
LEMMA InFlightFinite == IsFiniteSet(InFlight) /\ Cardinality(InFlight) \in Nat
<1>1. InFlight \subseteq Windows
  BY Zenon DEF InFlight
<1>2. IsFiniteSet(InFlight)
  BY <1>1, WindowsFinite, FS_Subset, Zenon
<1> QED
  BY <1>2, FS_CardinalityType, Zenon

\* NewManager fills the channel and no round is in flight.
LEMMA InitSemaphore == Init => SemaphoreConserved
<1> SUFFICES ASSUME Init
             PROVE  SemaphoreConserved
  BY Zenon
<1>1. InFlight = {}
  BY Zenon DEF Init, InFlight
<1>2. Cardinality(InFlight) = 0
  BY <1>1, FS_EmptySet, Zenon
<1> QED
  BY <1>2, ConstantTypes DEF Init, SemaphoreConserved

\* A step that starts and ends no round leaves the rounds in flight alone.
LEMMA SameInFlight ==
    ASSUME SemaphoreConserved, InFlight' = InFlight, sem' = sem
    PROVE  SemaphoreConserved'
  BY Zenon DEF SemaphoreConserved

\* Taking a token starts a round; every way a round of housekeep ends gives one back;
\* no other step changes either.
LEMMA NextSemaphore ==
    TypeOK /\ LoopInv /\ SemaphoreConserved /\ [Next]_mgrVars => SemaphoreConserved'
<1> SUFFICES ASSUME TypeOK, LoopInv, SemaphoreConserved, [Next]_mgrVars
             PROVE  SemaphoreConserved'
  BY Zenon
<1>1. CASE AcquireSemaphore
  <2>1. start \in Windows /\ start \notin InFlight
    BY <1>1, Zenon DEF AcquireSemaphore, LoopInv, InFlight, TypeOK
  <2>2. InFlight' = InFlight \cup {start}
    BY <1>1, <2>1, Zenon DEF AcquireSemaphore, InFlight, TypeOK
  <2>3. Cardinality(InFlight') = Cardinality(InFlight) + 1
    BY <2>1, <2>2, InFlightFinite, FS_AddElement, Zenon
  <2> QED
    BY <1>1, <2>3, InFlightFinite, ConstantTypes
       DEF AcquireSemaphore, SemaphoreConserved, TypeOK
<1>2. ASSUME NEW w \in Windows, GiveBack(w)
      PROVE  SemaphoreConserved'
  <2>1. w \in InFlight
    BY <1>2, Zenon DEF GiveBack, Goto, InFlight
  <2>2. InFlight' = InFlight \ {w}
    BY <1>2, Zenon DEF GiveBack, Goto, InFlight, TypeOK
  <2>3. Cardinality(InFlight') = Cardinality(InFlight) - 1
    BY <2>1, <2>2, InFlightFinite, FS_RemoveElement, Zenon
  <2> QED
    BY <1>2, <2>3, InFlightFinite, ConstantTypes DEF GiveBack, SemaphoreConserved, TypeOK
<1>3. ASSUME NEW w \in Windows,
             \/ ScrapeMetrics(w) \/ ScrapeError(w) \/ Process(w) \/ ProcessError(w)
             \/ CallExportData(w) \/ ExportDataReturns(w)
      PROVE  SemaphoreConserved'
  <2>1. sem' = sem
    BY <1>3, Zenon DEF ScrapeMetrics, ScrapeError, Process, ProcessError, CallExportData,
                ExportDataReturns
  <2>2. InFlight' = InFlight
    BY <1>3, Zenon DEF ScrapeMetrics, ScrapeError, Process, ProcessError, CallExportData,
                ExportDataReturns, Goto, InFlight, TypeOK
  <2> QED
    BY <2>1, <2>2, SameInFlight, Zenon
<1>4. CASE \/ LoopTop \/ TimerFires \/ SemaphoreTimeout \/ ReceiveStop \/ CallStop \/ Tick
           \/ UNCHANGED mgrVars
  <2>1. sem' = sem /\ round' = round
    BY <1>4, Zenon DEF LoopTop, TimerFires, SemaphoreTimeout, ReceiveStop, CallStop, Tick, mgrVars
  <2>2. InFlight' = InFlight
    BY <2>1, Zenon DEF InFlight
  <2> QED
    BY <2>1, <2>2, SameInFlight, Zenon
<1> QED
  BY <1>1, <1>2, <1>3, <1>4, Zenon DEF Next, LoopStep, RoundStep

\* "should always give back the semaphore": for every parallelism, and whatever
\* error paths the rounds take, the tokens in the channel and the rounds in
\* flight add up to MaxParallelism.
THEOREM SemaphoreAlwaysConserved == Spec => []SemaphoreConserved
  BY InitTypeOK, NextTypeOK, InitLoopInv, NextLoopInv, InitSemaphore, NextSemaphore, PTL DEF Spec

\* The deferred send of a round that ends finds room in the channel.
COROLLARY GiveBackNeverBlocks ==
    Spec => [](\A w \in Windows : round[w] = "giveback" => sem < MaxParallelism)
<1>1. ASSUME TypeOK, SemaphoreConserved, NEW w \in Windows, round[w] = "giveback"
      PROVE  sem < MaxParallelism
  <2>1. w \in InFlight
    BY <1>1, Zenon DEF InFlight
  <2>2. Cardinality(InFlight) # 0
    BY <2>1, InFlightFinite, FS_EmptySet, Zenon
  <2> QED
    BY <1>1, <2>2, InFlightFinite, ConstantTypes DEF SemaphoreConserved, TypeOK
<1>2. TypeOK /\ SemaphoreConserved =>
          \A w \in Windows : round[w] = "giveback" => sem < MaxParallelism
  BY <1>1, Zenon
<1> QED
  BY <1>2, TypeCorrect, SemaphoreAlwaysConserved, PTL

-----------------------------------------------------------------------------
(* Stop is received after at most one wait for the semaphore               *)

\* How far the clock is ahead of the loop, and of a caller of Stop.  A caller
\* that finds the loop at its timer is received before the clock moves, so
\* the timer can only fire at the time Stop was called.
StopInv ==
    /\ loopPc # "returned" => now <= due + MaxLateness
    /\ loopPc = "top" => due <= now
    /\ loopPc = "semaphore" => due <= now + HousekeepTimeout
    /\ loopPc = "returned" => stopReq = "received"
    /\ stopReq = "sending" =>
         /\ stopAt <= now
         /\ loopPc = "semaphore" => due <= stopAt + HousekeepTimeout
         /\ loopPc = "top" => due <= stopAt + HousekeepTimeout + MaxLateness
         /\ loopPc = "timer" => /\ now < due \/ stopAt = now
                                /\ now <= stopAt + HousekeepTimeout + 2 * MaxLateness

\* At the start nobody has called Stop.
LEMMA InitStopInv == Init => StopInv
  BY ConstantTypes DEF Init, StopInv

\* Every step keeps the bound on how long a caller of Stop has been waiting.
LEMMA NextStopInv == TypeOK /\ StopInv /\ [Next]_mgrVars => StopInv'
<1> SUFFICES ASSUME TypeOK, StopInv, [Next]_mgrVars
             PROVE  StopInv'
  BY Zenon
<1> USE ConstantTypes
<1>1. CASE LoopTop
  <2>1. Truncate(now) \in Nat /\ now < Truncate(now) + Resolution
    BY TruncateNow, Zenon DEF TypeOK
  <2> QED
    BY <1>1, <2>1 DEF LoopTop, StopInv, TypeOK
<1>2. CASE TimerFires
  BY <1>2 DEF TimerFires, StopInv, TypeOK
<1>3. CASE AcquireSemaphore
  BY <1>3 DEF AcquireSemaphore, StopInv, TypeOK
<1>4. CASE SemaphoreTimeout
  BY <1>4 DEF SemaphoreTimeout, StopInv, TypeOK
<1>5. CASE ReceiveStop
  BY <1>5, Zenon DEF ReceiveStop, StopInv, TypeOK
<1>6. CASE CallStop
  BY <1>6 DEF CallStop, StopInv, TypeOK
<1>7. ASSUME NEW w \in Windows, RoundStep(w)
      PROVE  StopInv'
  <2>1. UNCHANGED <<now, loopPc, due, stopReq, stopAt>>
    BY <1>7, Zenon DEF RoundStep, ScrapeMetrics, ScrapeError, Process, ProcessError,
                CallExportData, ExportDataReturns, GiveBack, Goto
  <2> QED
    BY <2>1, Zenon DEF StopInv
<1>8. CASE Tick
  BY <1>8 DEF Tick, LoopMayWait, StopInv, TypeOK
<1>9. CASE UNCHANGED mgrVars
  BY <1>9, Zenon DEF mgrVars, StopInv
<1> QED
  BY <1>1, <1>2, <1>3, <1>4, <1>5, <1>6, <1>7, <1>8, <1>9, Zenon DEF Next, LoopStep

\* A caller of Stop blocks for at most half a resolution and two scheduling
\* delays, for every parallelism and even if no round ever ends.
THEOREM StopAlwaysBounded == Spec => []StopBounded
<1>1. TypeOK /\ StopInv => StopBounded
  BY ConstantTypes DEF TypeOK, StopInv, StopBounded
<1> QED
  BY <1>1, InitTypeOK, NextTypeOK, InitStopInv, NextStopInv, PTL DEF Spec

-----------------------------------------------------------------------------
(* No window is skipped when the offset leaves room for a wait             *)

\* The offset, the longest wait for a token and the delays of the three steps
\* between two windows fit in one resolution.
RoomForOneWait == ScrapeOffset + HousekeepTimeout + 3 * MaxLateness < Resolution

\* Between two windows the clock stays within the window after the one tried.
NoSkipInv ==
    /\ Contiguous
    /\ loopPc \in {"top", "semaphore"} =>
         /\ tried # {} => start \in tried
         /\ \A w \in tried : w <= start
    /\ loopPc = "semaphore" =>
         due <= start + Resolution + ScrapeOffset + HousekeepTimeout + MaxLateness
    /\ loopPc = "top" /\ tried # {} =>
         due <= start + Resolution + ScrapeOffset + HousekeepTimeout + 2 * MaxLateness
    /\ loopPc = "timer" /\ tried # {} => start - Resolution \in tried

\* At the start no window was skipped.
LEMMA InitNoSkipInv == Init => NoSkipInv
  BY Zenon DEF Init, NoSkipInv, Contiguous

\* With room for one wait, every step of Housekeep keeps the windows contiguous.
LEMMA NextNoSkipInv ==
    ASSUME RoomForOneWait
    PROVE  TypeOK /\ LoopInv /\ StopInv /\ NoSkipInv /\ [Next]_mgrVars => NoSkipInv'
<1> SUFFICES ASSUME TypeOK, LoopInv, StopInv, NoSkipInv, [Next]_mgrVars
             PROVE  NoSkipInv'
  BY Zenon
<1> USE ConstantTypes
<1>0. Windows \subseteq Nat
  BY DEF Windows
<1>1. CASE LoopTop
  <2>1. CASE tried = {}
    BY <1>1, <2>1, Zenon DEF LoopTop, NoSkipInv, Contiguous
  <2>2. CASE tried # {}
    <3>1. start \in Windows /\ now \in 0 .. MaxTime /\ start + Resolution <= now
      BY <1>1, <2>2, Zenon DEF LoopTop, NoSkipInv, LoopInv, TypeOK
    <3>2. now < start + Resolution + Resolution
      BY <1>0, <1>1, <2>2 DEF LoopTop, NoSkipInv, StopInv, RoomForOneWait, TypeOK
    <3>3. Truncate(now) = start + Resolution
      BY <3>1, <3>2, NextWindow, Zenon
    <3>4. start' - Resolution \in tried'
      BY <1>0, <1>1, <2>2, <3>1, <3>3 DEF LoopTop, NoSkipInv
    <3> QED
      BY <1>1, <3>4, Zenon DEF LoopTop, NoSkipInv, Contiguous
  <2> QED
    BY <2>1, <2>2, Zenon
<1>2. CASE TimerFires
  <2>1. Contiguous'
    <3> SUFFICES ASSUME NEW v \in tried \cup {start}, NEW w \in tried \cup {start},
                        NEW u \in Windows, v < u, u < w
                 PROVE  u \in tried
      BY <1>2, Zenon DEF TimerFires, Contiguous
    <3>0. start \in Windows /\ tried \subseteq Windows
      BY Zenon DEF TypeOK
    <3>1. CASE w \in tried
      <4>1. v \in tried
        BY <1>0, <1>2, <3>0, <3>1 DEF TimerFires, LoopInv
      <4> QED
        BY <3>1, <4>1, Zenon DEF NoSkipInv, Contiguous
    <3>2. CASE w = start
      <4>1. v \in tried
        BY <1>0, <3>0, <3>2
      <4>2. start - Resolution \in tried
        BY <1>2, <4>1, Zenon DEF TimerFires, NoSkipInv
      <4>3. u + Resolution <= start
        BY <3>0, <3>2, WindowsApart, Zenon
      <4>4. CASE u = start - Resolution
        BY <4>2, <4>4, Zenon
      <4>5. CASE u < start - Resolution
        BY <4>1, <4>2, <4>5, Zenon DEF NoSkipInv, Contiguous
      <4> QED
        BY <1>0, <3>0, <4>3, <4>4, <4>5
    <3> QED
      BY <3>1, <3>2, Zenon
  <2>2. due' <= start + Resolution + ScrapeOffset + HousekeepTimeout + MaxLateness
    BY <1>0, <1>2 DEF TimerFires, LoopInv, StopInv, TypeOK
  <2>3. start' \in tried' /\ \A w \in tried' : w <= start'
    BY <1>0, <1>2 DEF TimerFires, LoopInv, TypeOK
  <2> QED
    BY <1>2, <2>1, <2>2, <2>3, Zenon DEF TimerFires, NoSkipInv
<1>3. CASE AcquireSemaphore \/ SemaphoreTimeout
  <2>1. loopPc = "semaphore" /\ loopPc' = "top" /\ due' = now /\ UNCHANGED <<start, tried>>
    BY <1>3, Zenon DEF AcquireSemaphore, SemaphoreTimeout
  <2>2. now <= start + Resolution + ScrapeOffset + HousekeepTimeout + 2 * MaxLateness
    BY <1>0, <2>1 DEF NoSkipInv, StopInv, TypeOK
  <2> QED
    BY <2>1, <2>2, Zenon DEF NoSkipInv, Contiguous
<1>4. CASE ReceiveStop
  BY <1>4, Zenon DEF ReceiveStop, NoSkipInv, Contiguous
<1>5. ASSUME NEW w \in Windows, RoundStep(w)
      PROVE  NoSkipInv'
  <2>1. UNCHANGED <<loopPc, due, start, tried>>
    BY <1>5, Zenon DEF RoundStep, ScrapeMetrics, ScrapeError, Process, ProcessError,
                CallExportData, ExportDataReturns, GiveBack, Goto
  <2> QED
    BY <2>1, Zenon DEF NoSkipInv, Contiguous
<1>6. CASE CallStop \/ Tick \/ UNCHANGED mgrVars
  BY <1>6, Zenon DEF CallStop, Tick, mgrVars, NoSkipInv, Contiguous
<1> QED
  BY <1>1, <1>2, <1>3, <1>4, <1>5, <1>6, Zenon DEF Next, LoopStep

\* Housekeep calls housekeep for every window, provided the offset, half a
\* resolution and three scheduling delays fit in one resolution.  With the
\* default offset of five seconds and the smallest resolution validateFlags
\* accepts they do not.
THEOREM AlwaysContiguous ==
    ASSUME RoomForOneWait
    PROVE  Spec => []Contiguous
<1>1. TypeOK /\ LoopInv /\ StopInv /\ NoSkipInv /\ [Next]_mgrVars => NoSkipInv'
  BY NextNoSkipInv, Zenon
<1>2. NoSkipInv => Contiguous
  BY Zenon DEF NoSkipInv
<1> QED
  BY <1>1, <1>2, InitTypeOK, NextTypeOK, InitLoopInv, NextLoopInv, InitStopInv, NextStopInv,
     InitNoSkipInv, PTL DEF Spec

-----------------------------------------------------------------------------
(* The main loop with its sink manager                                     *)

\* Whatever the composition does is a step of the main loop or leaves it alone.
LEMMA PipelineRefinesManager == [PipelineNext]_vars => [Next]_mgrVars
<1> SUFFICES ASSUME [PipelineNext]_vars
             PROVE  [Next]_mgrVars
  BY Zenon
<1>1. CASE Loop
  BY <1>1, Zenon DEF Loop, Next, LoopStep
<1>2. CASE StopPipeline
  BY <1>2, Zenon DEF StopPipeline, Next, LoopStep
<1>3. CASE PipelineTick
  BY <1>3, Zenon DEF PipelineTick, Next
<1>4. ASSUME NEW w \in Windows, Scraped(w) \/ Processed(w) \/ ExportData(w) \/ ExportReturns(w)
      PROVE  Next
  BY <1>4, Zenon DEF Scraped, Processed, ExportData, ExportReturns, Next, RoundStep
<1>5. ASSUME NEW w \in Windows, NEW s \in Sinks, PushTimeout(w, s)
      PROVE  UNCHANGED mgrVars
  BY <1>5, Zenon DEF PushTimeout
<1>6. ASSUME NEW s \in Sinks, SinkStep(s)
      PROVE  UNCHANGED mgrVars
  BY <1>6, Zenon DEF SinkStep
<1>7. CASE UNCHANGED vars
  BY <1>7, Zenon DEF vars
<1> QED
  BY <1>1, <1>2, <1>3, <1>4, <1>5, <1>6, <1>7, Zenon DEF PipelineNext

\* The main loop behaves in the composition as it does by itself, so what was
\* proved of it holds there too.
LEMMA PipelineIsManager == PipelineSpec => Spec
<1>1. PipelineInit => Init
  BY Zenon DEF PipelineInit
<1> QED
  BY <1>1, PipelineRefinesManager, PTL DEF PipelineSpec, Spec

\* The invariants of the main loop that the timing of rounds rests on.
ManagerInv == TypeOK /\ LoopInv /\ StopInv /\ SemaphoreConserved

\* They hold of the main loop, in or out of the composition.
LEMMA ManagerInvariant == Spec => []ManagerInv
<1>1. Init => ManagerInv
  BY InitTypeOK, InitLoopInv, InitStopInv, InitSemaphore, Zenon DEF ManagerInv
<1>2. ManagerInv /\ [Next]_mgrVars => ManagerInv'
  BY NextTypeOK, NextLoopInv, NextStopInv, NextSemaphore, Zenon DEF ManagerInv
<1> QED
  BY <1>1, <1>2, PTL DEF Spec

-----------------------------------------------------------------------------
(* Rounds that fit in a window do not overlap                              *)

PipelineTypes ==
    /\ exportTimeout \in Nat
    /\ deadline \in [Windows -> Nat]
    /\ pusher \in [Windows -> [Sinks -> {"none", "select", "pushed", "dropped"}]]
    /\ received \in [Sinks -> Seq(Windows)]

\* A pusher in its select belongs to a round that is exporting a batch its sink
\* has not got, and only batches that were exported have reached a sink.
PushersInv ==
    /\ \A w \in Windows, s \in Sinks : pusher[w][s] = "select" =>
        /\ round[w] = "export"
        /\ \A i \in DOMAIN received[s] : received[s][i] # w
    /\ \A s \in Sinks : \A i \in DOMAIN received[s] :
        round[received[s][i]] \in {"export", "giveback", "done"}

\* When the timer of a window's round is due.
Due(w) == w + Resolution + ScrapeOffset

\* The stage of a round ends in time after the timer of the round was due.
StageInTime(w) ==
    /\ now <= deadline[w] + MaxLateness
    /\ round[w] = "scrape" => deadline[w] <= Due(w) + MaxLateness + ScrapeTimeout
    /\ round[w] = "process" =>
         deadline[w] <= Due(w) + 2 * MaxLateness + ScrapeTimeout + ProcessTime
    /\ deadline[w] <= Due(w) + 3 * MaxLateness + ScrapeTimeout + ProcessTime + exportTimeout

\* A token that is free is taken at once, so a round starts within a delay of
\* its timer, and the round in flight is the last that was started.
InTimeInv ==
    /\ \A w \in InFlight : StageInTime(w)
    /\ \A w \in InFlight : \A v \in Windows : round[v] # "none" => v <= w
    /\ loopPc = "semaphore" =>
         /\ Due(start) <= now
         /\ MaxParallelism > 0 => now <= Due(start) + MaxLateness
         /\ \A v \in tried : v <= start
    /\ \A s \in Sinks : \A i, j \in DOMAIN received[s] :
         i < j => received[s][i] < received[s][j]

ApartInv == PipelineTypes /\ PushersInv /\ (RoundTime < Resolution => InTimeInv)

\* At the start no round runs and no sink has got a batch.
LEMMA ApartInit ==
    ASSUME PipelineInit
    PROVE  ApartInv
<1>1. PipelineTypes
  BY PipelineAssumption DEF PipelineInit, SM!Init, PipelineTypes
<1>2. \A s \in Sinks : DOMAIN received[s] = {}
  BY DEF PipelineInit, SM!Init
<1>3. PushersInv
  BY <1>2, Zenon DEF PipelineInit, SM!Init, PushersInv
<1>4. InTimeInv
  BY <1>2, Zenon DEF PipelineInit, Init, InTimeInv, InFlight
<1> QED
  BY <1>1, <1>3, <1>4, Zenon DEF ApartInv

\* Every step of the composition keeps the types.
LEMMA PipelineTypesNext ==
    ASSUME TypeOK, PipelineTypes, [PipelineNext]_vars
    PROVE  PipelineTypes'
<1>0. now \in Nat /\ start \in Windows /\ ScrapeTimeout \in Nat /\ ProcessTime \in Nat
  BY ConstantTypes, PipelineAssumption DEF TypeOK
<1>1. CASE Loop \/ StopPipeline \/ PipelineTick \/ UNCHANGED vars
  <2>1. UNCHANGED <<exportTimeout, pusher, received>>
    BY <1>1, Zenon DEF Loop, StopPipeline, PipelineTick, vars, smVars, timing, SM!Stop
  <2>2. deadline' = deadline \/ deadline' = [deadline EXCEPT ![start] = now + ScrapeTimeout]
    BY <1>1, Zenon DEF Loop, StopPipeline, PipelineTick, vars, timing
  <2>3. deadline' \in [Windows -> Nat]
    BY <1>0, <2>2 DEF PipelineTypes
  <2> QED
    BY <2>1, <2>3, Zenon DEF PipelineTypes
<1>2. ASSUME NEW w \in Windows, Scraped(w) \/ Processed(w) \/ ExportReturns(w)
      PROVE  PipelineTypes'
  <2>1. UNCHANGED <<exportTimeout, pusher, received>>
    BY <1>2, Zenon DEF Scraped, Processed, ExportReturns, smVars, timing, SM!ExportDataReturn
  <2>2. deadline' = deadline \/ deadline' = [deadline EXCEPT ![w] = now + ProcessTime]
    BY <1>2, Zenon DEF Scraped, Processed, ExportReturns, timing
  <2>3. deadline' \in [Windows -> Nat]
    BY <1>0, <2>2 DEF PipelineTypes
  <2> QED
    BY <2>1, <2>3, Zenon DEF PipelineTypes
<1>3. ASSUME NEW w \in Windows, ExportData(w)
      PROVE  PipelineTypes'
  <2>1. [s \in Sinks |-> "select"] \in [Sinks -> {"none", "select", "pushed", "dropped"}]
    BY Zenon
  <2> QED
    BY <1>0, <1>3, <2>1 DEF ExportData, SM!ExportData, PipelineTypes
<1>4. ASSUME NEW w \in Windows, NEW s \in Sinks, PushTimeout(w, s)
      PROVE  PipelineTypes'
  BY <1>4, Zenon DEF PushTimeout, SM!PushTimeout, timing, PipelineTypes
<1>5. ASSUME NEW s \in Sinks, SinkStep(s)
      PROVE  PipelineTypes'
  <2>1. ASSUME NEW w \in Windows, SM!PushData(w, s)
        PROVE  PipelineTypes'
    <3>1. Append(received[s], w) \in Seq(Windows)
      BY DEF PipelineTypes
    <3> QED
      BY <1>5, <2>1, <3>1, Zenon DEF SinkStep, SM!PushData, timing, PipelineTypes
  <2>2. CASE SM!SinkExported(s) \/ SM!SendStop(s) \/ SM!StopTimeout(s) \/ SM!SinkStopped(s)
    BY <1>5, <2>2, Zenon DEF SinkStep, SM!SinkExported, SM!SendStop, SM!StopTimeout, SM!SinkStopped,
                      timing, PipelineTypes
  <2> QED
    BY <1>5, <2>1, <2>2, Zenon DEF SinkStep
<1> QED
  BY <1>1, <1>2, <1>3, <1>4, <1>5, Zenon DEF PipelineNext

\* A step that touches neither pushers nor sinks, and no round that has been
\* exported, keeps what is known of the pushers.
LEMMA PushersKept ==
    ASSUME TypeOK, PipelineTypes, PushersInv, UNCHANGED <<pusher, received>>,
           \A w \in Windows : \/ round'[w] = round[w]
                              \/ round[w] \in {"none", "scrape", "process"}
                              \/ /\ round'[w] \in {"giveback", "done"}
                                 /\ \A s \in Sinks : pusher[w][s] # "select"
    PROVE  PushersInv'
<1>1. \A s \in Sinks : \A i \in DOMAIN received[s] : received[s][i] \in Windows
  BY DEF PipelineTypes
<1> QED
  BY <1>1 DEF PushersInv

\* Every step of the composition keeps what is known of the pushers.
LEMMA PushersNext ==
    ASSUME ManagerInv, PipelineTypes, PushersInv, [PipelineNext]_vars
    PROVE  PushersInv'
<1>0. TypeOK /\ \A s \in Sinks : \A i \in DOMAIN received[s] : received[s][i] \in Windows
  BY DEF PipelineTypes, ManagerInv
<1>1. CASE Loop \/ StopPipeline \/ PipelineTick \/ UNCHANGED vars
  <2>1. UNCHANGED <<pusher, received>>
    BY <1>1, Zenon DEF Loop, StopPipeline, PipelineTick, vars, smVars, SM!Stop
  <2>2. round' = round \/ AcquireSemaphore
    BY <1>1, Zenon DEF Loop, StopPipeline, PipelineTick, vars, mgrVars, LoopTop, TimerFires,
                SemaphoreTimeout, CallStop, ReceiveStop, Tick
  <2>3. CASE round' = round
    BY <1>0, <2>1, <2>3, PushersKept, Zenon
  <2>4. CASE AcquireSemaphore
    <3>1. round[start] = "none" /\ \A w \in Windows : w # start => round'[w] = round[w]
      BY <1>0, <2>4, Zenon DEF AcquireSemaphore, ManagerInv, LoopInv, TypeOK
    <3> QED
      BY <1>0, <2>1, <3>1, PushersKept, Zenon
  <2> QED
    BY <2>2, <2>3, <2>4, Zenon
<1>2. ASSUME NEW w \in Windows, Scraped(w) \/ Processed(w) \/ ExportReturns(w)
      PROVE  PushersInv'
  <2>1. UNCHANGED <<pusher, received>>
    BY <1>2, Zenon DEF Scraped, Processed, ExportReturns, smVars, SM!ExportDataReturn
  <2>2. \A v \in Windows : v # w => round'[v] = round[v]
    BY <1>0, <1>2, Zenon DEF Scraped, Processed, ExportReturns, ScrapeMetrics, ScrapeError, Process,
                      ProcessError, GiveBack, ExportDataReturns, Goto, TypeOK
  <2>3. CASE Scraped(w) \/ Process(w) \/ ProcessError(w)
    <3>1. round[w] \in {"scrape", "process"}
      BY <2>3, Zenon DEF Scraped, ScrapeMetrics, ScrapeError, Process, ProcessError, Goto
    <3> QED
      BY <1>0, <2>1, <2>2, <3>1, PushersKept, Zenon
  <2>4. CASE GiveBack(w)
    <3>1. round[w] = "giveback" /\ round'[w] = "done"
      BY <1>0, <2>4, Zenon DEF GiveBack, Goto, TypeOK
    <3>2. \A s \in Sinks : pusher[w][s] # "select"
      BY <3>1, Zenon DEF PushersInv
    <3> QED
      BY <1>0, <2>1, <2>2, <3>1, <3>2, PushersKept, Zenon
  <2>5. CASE ExportReturns(w)
    <3>1. round'[w] = "giveback" /\ \A s \in Sinks : pusher[w][s] # "select"
      BY <1>0, <2>5, Zenon DEF ExportReturns, ExportDataReturns, SM!ExportDataReturn, Goto, TypeOK
    <3> QED
      BY <1>0, <2>1, <2>2, <3>1, PushersKept, Zenon
  <2> QED
    BY <1>2, <2>3, <2>4, <2>5, Zenon DEF Processed
<1>3. ASSUME NEW w \in Windows, ExportData(w)
      PROVE  PushersInv'
  <2>1. /\ round[w] = "process" /\ round'[w] = "export" /\ received' = received
        /\ \A v \in Windows : v # w => round'[v] = round[v] /\ pusher'[v] = pusher[v]
    BY <1>0, <1>3, Zenon DEF ExportData, CallExportData, SM!ExportData, Goto, TypeOK, PipelineTypes
  <2>2. \A s \in Sinks : \A i \in DOMAIN received[s] : received[s][i] # w
    BY <2>1, Zenon DEF PushersInv
  <2> QED
    BY <1>0, <2>1, <2>2 DEF PushersInv
<1>4. ASSUME NEW w \in Windows, NEW s \in Sinks, PushTimeout(w, s)
      PROVE  PushersInv'
  <2>1. /\ UNCHANGED <<round, received>>
        /\ \A v \in Windows, t \in Sinks : pusher'[v][t] = "select" => pusher[v][t] = "select"
    BY <1>4, Zenon DEF PushTimeout, SM!PushTimeout, mgrVars, PipelineTypes
  <2> QED
    BY <2>1 DEF PushersInv
<1>5. ASSUME NEW s \in Sinks, SinkStep(s)
      PROVE  PushersInv'
  <2>1. ASSUME NEW w \in Windows, SM!PushData(w, s)
        PROVE  PushersInv'
    <3>1. /\ round' = round /\ pusher[w][s] = "select"
          /\ received' = [received EXCEPT ![s] = Append(received[s], w)]
          /\ \A v \in Windows, t \in Sinks : pusher'[v][t] = "select" =>
                pusher[v][t] = "select" /\ <<v, t>> # <<w, s>>
      BY <1>5, <2>1, Zenon DEF SinkStep, SM!PushData, mgrVars, PipelineTypes
    <3>2. \A t \in Sinks : \A i \in DOMAIN received'[t] :
            \/ i \in DOMAIN received[t] /\ received'[t][i] = received[t][i]
            \/ t = s /\ received'[t][i] = w
      BY <3>1 DEF PipelineTypes
    <3>3. round[w] = "export"
      BY <3>1, Zenon DEF PushersInv
    <3> QED
      BY <1>0, <3>1, <3>2, <3>3 DEF PushersInv
  <2>2. CASE SM!SinkExported(s) \/ SM!SendStop(s) \/ SM!StopTimeout(s) \/ SM!SinkStopped(s)
    BY <1>5, <2>2 DEF SinkStep, SM!SinkExported, SM!SendStop, SM!StopTimeout, SM!SinkStopped,
                      mgrVars, PushersInv
  <2> QED
    BY <1>5, <2>1, <2>2, Zenon DEF SinkStep
<1> QED
  BY <1>1, <1>2, <1>3, <1>4, <1>5, Zenon DEF PipelineNext

\* The types the arithmetic of rounds needs.
LEMMA TimeTypes ==
    ASSUME ManagerInv, PipelineTypes
    PROVE  /\ TypeOK /\ now \in Nat /\ start \in Windows /\ tried \subseteq Windows
           /\ Windows \subseteq Nat
           /\ ScrapeTimeout \in Nat /\ ProcessTime \in Nat /\ exportTimeout \in Nat
           /\ \A w \in Windows : deadline[w] \in Nat /\ Due(w) \in Nat
<1>1. Windows \subseteq Nat
  BY DEF Windows
<1>2. \A w \in Windows : deadline[w] \in Nat /\ Due(w) \in Nat
  BY <1>1, ConstantTypes DEF PipelineTypes, Due
<1> QED
  BY <1>1, <1>2, ConstantTypes, PipelineAssumption DEF ManagerInv, TypeOK, PipelineTypes

\* A round that runs in time is over before the timer of a later one is due.
LEMMA RoundOverByNextTimer ==
    ASSUME ManagerInv, PipelineTypes, RoundTime < Resolution,
           NEW w \in Windows, NEW v \in Windows, w < v, StageInTime(w)
    PROVE  now < Due(v)
<1>1. w + Resolution <= v
  BY WindowsApart, Zenon
<1> DEFINE D == deadline[w]
<1>2. D \in Nat /\ now <= D + MaxLateness
  BY TimeTypes, Zenon DEF StageInTime
<1>3. D <= Due(w) + 3 * MaxLateness + ScrapeTimeout + ProcessTime + exportTimeout
  BY Zenon DEF StageInTime
<1> HIDE DEF D
<1> QED
  BY <1>1, <1>2, <1>3, TimeTypes, ConstantTypes DEF Due, RoundTime

\* So the loop finds every token in the channel when it asks for one.
LEMMA NoneInFlight ==
    ASSUME ManagerInv, PipelineTypes, RoundTime < Resolution, InTimeInv, loopPc = "semaphore"
    PROVE  InFlight = {} /\ sem = MaxParallelism
<1>1. ASSUME NEW w \in InFlight
      PROVE  FALSE
  <2>1. w \in Windows /\ round[w] # "none"
    BY Zenon DEF InFlight
  <2>2. w \in tried /\ w # start
    BY <2>1, Zenon DEF ManagerInv, LoopInv
  <2>3. w < start
    BY <2>1, <2>2, TimeTypes DEF InTimeInv
  <2>4. now < Due(start)
    BY <2>1, <2>3, TimeTypes, RoundOverByNextTimer, Zenon DEF InTimeInv
  <2> QED
    BY <2>4, TimeTypes DEF InTimeInv
<1>2. Cardinality(InFlight) = 0
  BY <1>1, FS_EmptySet, Zenon
<1> QED
  BY <1>1, <1>2, ConstantTypes DEF ManagerInv, SemaphoreConserved, TypeOK

\* A step that starts no round and lets no time pass keeps the rounds in time
\* when it keeps the stage it changes in time.
LEMMA InTimeKept ==
    ASSUME ManagerInv, PipelineTypes, InTimeInv, UNCHANGED <<now, received, exportTimeout>>,
           \/ UNCHANGED <<loopPc, start, tried>>
           \/ loopPc' # "semaphore",
           NEW w \in Windows, round[w] # "none",
           \A v \in Windows : v # w => round'[v] = round[v] /\ deadline'[v] = deadline[v],
           round[w] \in Active,
           round'[w] \in Active => StageInTime(w)'
    PROVE  InTimeInv'
<1>1. InFlight' \subseteq InFlight
  BY Zenon DEF InFlight
<1>2. \A v \in InFlight' : StageInTime(v)'
  BY <1>1, Zenon DEF InTimeInv, InFlight, StageInTime
<1>3. \A v \in Windows : round'[v] # "none" => round[v] # "none"
  BY Zenon
<1>4. /\ loopPc' = "semaphore" =>
           /\ Due(start)' <= now'
           /\ MaxParallelism > 0 => now' <= Due(start)' + MaxLateness
           /\ \A v \in tried' : v <= start'
  BY Zenon DEF InTimeInv, Due
<1> QED
  BY <1>1, <1>2, <1>3, <1>4, Zenon DEF InTimeInv

\* A step of the loop that starts no round keeps the rounds in time.
LEMMA InTimeQuiet ==
    ASSUME InTimeInv, UNCHANGED <<now, round, deadline, received, exportTimeout>>,
           loopPc' = "semaphore" =>
             /\ Due(start') <= now
             /\ MaxParallelism > 0 => now <= Due(start') + MaxLateness
             /\ \A v \in tried' : v <= start'
    PROVE  InTimeInv'
<1>1. InFlight' = InFlight
  BY Zenon DEF InFlight
<1>2. \A v \in InFlight' : StageInTime(v)'
  BY <1>1, Zenon DEF InTimeInv, StageInTime, Due
<1> QED
  BY <1>1, <1>2, Zenon DEF InTimeInv, Due

\* The steps of the main loop and of the clock keep the rounds in time.
LEMMA InTimeLoop ==
    ASSUME ManagerInv, PipelineTypes, RoundTime < Resolution, InTimeInv,
           Loop \/ StopPipeline \/ PipelineTick \/ UNCHANGED vars
    PROVE  InTimeInv'
<1> USE TimeTypes, ConstantTypes
<1>1. UNCHANGED <<received, exportTimeout>>
  BY Zenon DEF Loop, StopPipeline, PipelineTick, vars, smVars, timing, SM!Stop
<1>2. CASE Loop /\ TimerFires
  <2>1. UNCHANGED <<now, round, start>> /\ tried' = tried \cup {start}
    BY <1>2, Zenon DEF TimerFires
  <2>2. deadline' = deadline
    BY <1>2, Zenon DEF Loop, TimerFires, AcquireSemaphore
  <2>3. Due(start) <= now /\ now <= Due(start) + MaxLateness /\ \A v \in tried : v < start
    BY <1>2, Zenon DEF TimerFires, ManagerInv, LoopInv, StopInv, Due
  <2> QED
    BY <1>1, <2>1, <2>2, <2>3, InTimeQuiet
<1>3. CASE Loop /\ AcquireSemaphore
  <2>1. InFlight = {} /\ sem = MaxParallelism /\ sem > 0
    BY <1>3, NoneInFlight, Zenon DEF AcquireSemaphore
  <2>2. /\ UNCHANGED <<now, start, tried>> /\ loopPc' = "top"
        /\ deadline'[start] = now + ScrapeTimeout
        /\ round'[start] = "scrape"
        /\ \A v \in Windows : v # start => round'[v] = round[v]
    BY <1>3 DEF Loop, AcquireSemaphore, LoopTop, TimerFires, SemaphoreTimeout, CallStop,
                TypeOK, PipelineTypes
  <2>3. InFlight' = {start}
    BY <2>1, <2>2, Zenon DEF InFlight
  <2>4. now <= Due(start) + MaxLateness /\ \A v \in tried : v <= start
    BY <1>3, <2>1, Zenon DEF AcquireSemaphore, InTimeInv
  <2>5. StageInTime(start)'
    BY <1>1, <2>2, <2>4 DEF StageInTime, Due
  <2>6. \A v \in Windows : round'[v] # "none" => v <= start
    BY <2>2, <2>4 DEF ManagerInv, LoopInv
  <2> QED
    BY <1>1, <2>2, <2>3, <2>5, <2>6, Zenon DEF InTimeInv
<1>4. CASE /\ UNCHANGED deadline
           /\ LoopTop \/ SemaphoreTimeout \/ CallStop \/ ReceiveStop \/ UNCHANGED vars
  <2>1. UNCHANGED <<now, round>>
    BY <1>4, Zenon DEF LoopTop, SemaphoreTimeout, CallStop, ReceiveStop, vars, mgrVars
  <2>2. loopPc' = "semaphore" => UNCHANGED <<loopPc, start, tried>>
    BY <1>4, Zenon DEF LoopTop, SemaphoreTimeout, CallStop, ReceiveStop, vars, mgrVars
  <2> QED
    BY <1>1, <1>4, <2>1, <2>2, InTimeQuiet, Zenon DEF InTimeInv
<1>5. CASE PipelineTick
  <2>1. /\ now' = now + 1 /\ UNCHANGED <<loopPc, start, round, tried, deadline>>
        /\ \A w \in InFlight : now < deadline[w] + MaxLateness
    BY <1>5, Zenon DEF PipelineTick, Tick, timing
  <2>2. InFlight' = InFlight /\ InFlight \subseteq Windows
    BY <2>1, Zenon DEF InFlight
  <2>3. \A w \in InFlight : now' <= deadline'[w] + MaxLateness
    BY <2>1, <2>2
  <2>4. \A w \in InFlight' : StageInTime(w)'
    BY <1>1, <2>1, <2>2, <2>3, Zenon DEF InTimeInv, StageInTime
  <2>5. loopPc' = "semaphore" => MaxParallelism = 0
    BY <1>5, <2>1, NoneInFlight, Zenon DEF PipelineTick, Tick, LoopMayWait
  <2>6. loopPc' = "semaphore" => Due(start') <= now' /\ \A v \in tried' : v <= start'
    BY <2>1 DEF InTimeInv
  <2> QED
    BY <1>1, <2>1, <2>2, <2>4, <2>5, <2>6 DEF InTimeInv, Due
<1> QED
  BY <1>2, <1>3, <1>4, <1>5, Zenon DEF Loop, StopPipeline, vars, timing

\* The steps of a round keep the rounds in time: each sets the deadline of the
\* next stage, at most MaxLateness after the one before.
LEMMA InTimeRound ==
    ASSUME ManagerInv, PipelineTypes, InTimeInv, NEW w \in Windows,
           Scraped(w) \/ Processed(w) \/ ExportData(w) \/ ExportReturns(w)
    PROVE  InTimeInv'
<1> USE TimeTypes, ConstantTypes
<1>1. UNCHANGED <<now, received, exportTimeout, loopPc, start, tried>>
  BY Zenon DEF Scraped, Processed, ExportData, ExportReturns, ScrapeMetrics, ScrapeError, Process,
         ProcessError, GiveBack, CallExportData, ExportDataReturns, Goto, smVars, timing,
         SM!ExportData, SM!ExportDataReturn
<1>2. round[w] \in Active /\ \A v \in Windows : v # w => round'[v] = round[v]
  BY Zenon DEF Scraped, Processed, ExportData, ExportReturns, ScrapeMetrics, ScrapeError, Process,
         ProcessError, GiveBack, CallExportData, ExportDataReturns, Goto, TypeOK
<1>3. \A v \in Windows : v # w => deadline'[v] = deadline[v]
  BY Zenon DEF Scraped, Processed, ExportData, ExportReturns, timing, PipelineTypes
<1>4. StageInTime(w)
  BY <1>2, Zenon DEF InTimeInv, InFlight
<1>5. round'[w] \in Active => StageInTime(w)'
  <2>1. CASE Scraped(w)
    <3>1. round[w] = "scrape" /\ round'[w] \in {"process", "giveback"}
      BY <2>1, Zenon DEF Scraped, ScrapeMetrics, ScrapeError, Goto, TypeOK
    <3>2. deadline'[w] = now + ProcessTime
      BY <2>1, Zenon DEF Scraped, PipelineTypes
    <3> QED
      BY <1>1, <1>4, <3>1, <3>2 DEF StageInTime
  <2>2. CASE Processed(w)
    <3>1. /\ deadline' = deadline
          /\ round'[w] \in {"giveback", "done"} \/ round'[w] = round[w]
      BY <2>2, Zenon DEF Processed, Process, ProcessError, GiveBack, Goto, timing, TypeOK
    <3> QED
      BY <1>1, <1>4, <3>1, Zenon DEF StageInTime
  <2>3. CASE ExportData(w)
    <3>1. round[w] = "process" /\ round'[w] = "export"
      BY <2>3, Zenon DEF ExportData, CallExportData, Goto, TypeOK
    <3>2. deadline'[w] = now + exportTimeout
      BY <2>3, Zenon DEF ExportData, PipelineTypes
    <3> QED
      BY <1>1, <1>4, <3>1, <3>2 DEF StageInTime
  <2>4. CASE ExportReturns(w)
    <3>1. deadline' = deadline /\ round'[w] = "giveback"
      BY <2>4, Zenon DEF ExportReturns, ExportDataReturns, Goto, timing, TypeOK
    <3> QED
      BY <1>1, <1>4, <3>1, Zenon DEF StageInTime
  <2> QED
    BY <2>1, <2>2, <2>3, <2>4, Zenon
<1> QED
  BY <1>1, <1>2, <1>3, <1>5, InTimeKept, Zenon

\* A sequence that ascends still does with a greater element at its end.
LEMMA AppendAscends ==
    ASSUME NEW S \in SUBSET Nat, NEW q \in Seq(S), NEW e \in S,
           \A i, j \in DOMAIN q : i < j => q[i] < q[j],
           \A i \in DOMAIN q : q[i] < e
    PROVE  \A i, j \in DOMAIN Append(q, e) : i < j => Append(q, e)[i] < Append(q, e)[j]
  OBVIOUS

\* The goroutines of the sink manager keep the rounds in time, and the batches
\* of each sink in order: the round in flight is the last that was started.
LEMMA InTimeSinks ==
    ASSUME ManagerInv, PipelineTypes, PushersInv, InTimeInv,
           \/ \E w \in Windows, s \in Sinks : PushTimeout(w, s)
           \/ \E s \in Sinks : SinkStep(s)
    PROVE  InTimeInv'
<1> USE TimeTypes, ConstantTypes
<1>1. UNCHANGED <<now, loopPc, start, tried, round, deadline, exportTimeout>>
  BY Zenon DEF PushTimeout, SinkStep, mgrVars, timing
<1>2. CASE received' = received
  BY <1>1, <1>2, InTimeQuiet, Zenon DEF InTimeInv
<1>3. ASSUME NEW w \in Windows, NEW s \in Sinks, SM!PushData(w, s)
      PROVE  InTimeInv'
  <2>1. /\ pusher[w][s] = "select"
        /\ received' = [received EXCEPT ![s] = Append(received[s], w)]
    BY <1>3, Zenon DEF SM!PushData
  <2>2. w \in InFlight /\ \A i \in DOMAIN received[s] : received[s][i] # w
    BY <2>1 DEF PushersInv, InFlight
  <2>3. \A i \in DOMAIN received[s] : received[s][i] \in Windows /\ received[s][i] < w
    <3> SUFFICES ASSUME NEW i \in DOMAIN received[s]
                 PROVE  received[s][i] \in Windows /\ received[s][i] < w
      BY Zenon
    <3>1. received[s][i] \in Windows
      BY DEF PipelineTypes
    <3>2. round[received[s][i]] # "none"
      BY Zenon DEF PushersInv
    <3>3. received[s][i] <= w
      BY <2>2, <3>1, <3>2, Zenon DEF InTimeInv
    <3> QED
      BY <2>2, <3>1, <3>3
  <2>4. \A t \in Sinks : \A i, j \in DOMAIN received'[t] :
          i < j => received'[t][i] < received'[t][j]
    <3> SUFFICES ASSUME NEW t \in Sinks, NEW i \in DOMAIN received'[t],
                        NEW j \in DOMAIN received'[t], i < j
                 PROVE  received'[t][i] < received'[t][j]
      BY Zenon
    <3>1. CASE t # s
      BY <2>1, <3>1, Zenon DEF InTimeInv, PipelineTypes
    <3>2. CASE t = s
      <4>1. received'[t] = Append(received[s], w) /\ received[s] \in Seq(Windows)
        BY <2>1, <3>2, Zenon DEF PipelineTypes
      <4>2. \A k, l \in DOMAIN received[s] : k < l => received[s][k] < received[s][l]
        BY Zenon DEF InTimeInv
      <4> QED
        BY <2>3, <4>1, <4>2, AppendAscends, Zenon
    <3> QED
      BY <3>1, <3>2, Zenon
  <2>5. InFlight' = InFlight
    BY <1>1, Zenon DEF InFlight
  <2>6. \A v \in InFlight' : StageInTime(v)'
    BY <1>1, <2>5, Zenon DEF InTimeInv, StageInTime, Due
  <2> QED
    BY <1>1, <2>4, <2>5, <2>6, Zenon DEF InTimeInv, Due
<1> QED
  BY <1>2, <1>3, Zenon DEF PushTimeout, SinkStep, SM!PushTimeout, SM!SinkExported, SM!SendStop,
                    SM!StopTimeout, SM!SinkStopped

\* RoundsApart follows: the round in flight is not earlier than any other.
LEMMA InTimeApart ==
    ASSUME ManagerInv, ApartInv
    PROVE  RoundsApart
<1> SUFFICES ASSUME RoundTime < Resolution
             PROVE  /\ Cardinality(InFlight) <= 1
                    /\ \A s \in Sinks : \A i, j \in DOMAIN received[s] :
                         i < j => received[s][i] < received[s][j]
  BY Zenon DEF RoundsApart
<1>1. InTimeInv /\ PipelineTypes
  BY Zenon DEF ApartInv
<1>2. CASE InFlight = {}
  BY <1>2, FS_EmptySet, <1>1 DEF InTimeInv
<1>3. ASSUME NEW w \in InFlight
      PROVE  Cardinality(InFlight) <= 1
  <2>1. InFlight \subseteq Windows /\ \A v \in InFlight : round[v] # "none"
    BY Zenon DEF InFlight
  <2>2. \A v \in InFlight : v <= w /\ w <= v
    BY <1>1, <2>1, Zenon DEF InTimeInv
  <2>3. \A v \in InFlight : v = w
    BY <1>1, <2>1, <2>2, TimeTypes
  <2>4. InFlight = {w}
    BY <2>3, Zenon
  <2> QED
    BY <2>4, FS_Singleton
<1> QED
  BY <1>1, <1>2, <1>3, Zenon DEF InTimeInv

\* For any resolution, offset, parallelism, number of sinks and timeouts: when
\* the timeouts of the three stages and four delays add up to less than a
\* window, a round is over before the next one starts and every sink receives
\* its batches in the order of their timestamps, so that the state the rounds
\* share without a lock is used by one round at a time.
THEOREM RoundsAlwaysApart == PipelineSpec => []RoundsApart
<1>1. PipelineInit => ApartInv
  BY ApartInit, Zenon
<1>2. ASSUME ManagerInv, ApartInv, [PipelineNext]_vars
      PROVE  ApartInv'
  <2>1. PipelineTypes /\ PushersInv /\ TypeOK
    BY <1>2, Zenon DEF ApartInv, ManagerInv
  <2>2. PipelineTypes' /\ PushersInv'
    BY <1>2, <2>1, PipelineTypesNext, PushersNext, Zenon
  <2>3. exportTimeout' = exportTimeout
    BY <1>2, Zenon DEF PipelineNext, Loop, StopPipeline, PipelineTick, Scraped, Processed, ExportData,
                ExportReturns, PushTimeout, SinkStep, vars, timing
  <2>4. ASSUME RoundTime < Resolution
        PROVE  InTimeInv'
    <3>1. InTimeInv
      BY <1>2, <2>4, Zenon DEF ApartInv
    <3> QED
      BY <1>2, <2>1, <2>4, <3>1, InTimeLoop, InTimeRound, InTimeSinks, Zenon DEF PipelineNext
  <2> QED
    BY <2>2, <2>3, <2>4, Zenon DEF ApartInv, RoundTime
<1>3. ManagerInv /\ ApartInv => RoundsApart
  BY InTimeApart, Zenon
<1> QED
  BY <1>1, <1>2, <1>3, ManagerInvariant, PipelineIsManager, PTL DEF PipelineSpec

-----------------------------------------------------------------------------
(* The sink manager in the composition                                     *)

SMP == INSTANCE SinkManagerProofs WITH Calls <- Windows

\* Whatever the composition does is a step of the sink manager or leaves it alone.
LEMMA PipelineRefinesSinkManager == [PipelineNext]_vars => [SMP!Next]_(SMP!smVars)
<1> SUFFICES ASSUME [PipelineNext]_vars
             PROVE  SMP!Next \/ UNCHANGED SMP!smVars
  BY Zenon
<1>1. CASE Loop \/ PipelineTick \/ UNCHANGED vars
  BY <1>1, Zenon DEF Loop, PipelineTick, vars, smVars, SMP!smVars
<1>2. CASE StopPipeline
  BY <1>2, Zenon DEF StopPipeline, SM!Stop, SMP!Next, SMP!Stop
<1>3. ASSUME NEW w \in Windows, Scraped(w) \/ Processed(w)
      PROVE  UNCHANGED SMP!smVars
  BY <1>3, Zenon DEF Scraped, Processed, smVars, SMP!smVars
<1>4. ASSUME NEW w \in Windows, ExportData(w) \/ ExportReturns(w)
      PROVE  SMP!Next
  BY <1>4, Zenon DEF ExportData, ExportReturns, SM!ExportData, SM!ExportDataReturn, SMP!Next,
              SMP!ExportData, SMP!ExportDataReturn
<1>5. ASSUME NEW w \in Windows, NEW s \in Sinks, PushTimeout(w, s)
      PROVE  SMP!Next
  BY <1>5, Zenon DEF PushTimeout, SM!PushTimeout, SMP!Next, SMP!Internal, SMP!PushTimeout
<1>6. ASSUME NEW s \in Sinks, SinkStep(s)
      PROVE  SMP!Next
  BY <1>6, Zenon DEF SinkStep, SM!PushData, SM!SinkExported, SM!SendStop, SM!StopTimeout,
              SM!SinkStopped, SMP!Next, SMP!Internal, SMP!PushData, SMP!SinkExported,
              SMP!SendStop, SMP!StopTimeout, SMP!SinkStopped
<1> QED
  BY <1>1, <1>2, <1>3, <1>4, <1>5, <1>6, Zenon DEF PipelineNext

\* With any number of rounds exporting at once, for any timeouts, and a Stop at
\* any moment, the sink manager behind the main loop is a lossy fan-out.
THEOREM PipelineFansOut == PipelineSpec => FansOut
<1>1. PipelineInit => SMP!Init
  BY Zenon DEF PipelineInit, SM!Init, SMP!Init
<1>2. PipelineSpec => SMP!Spec
  BY <1>1, PipelineRefinesSinkManager, PTL DEF PipelineSpec, SMP!Spec
<1>3. SMP!Spec => SMP!ImplementsLossyFanout
  BY SMP!SinkManagerFansOut, Zenon
<1>4. SMP!ImplementsLossyFanout => FansOut
  <2>1. SMP!LF!Init => SM!LF!Init
    BY Zenon DEF SMP!LF!Init, SM!LF!Init
  <2>2. [SMP!LF!Next]_(SMP!LF!vars) => [SM!LF!Next]_(SM!LF!vars)
    BY Zenon DEF SMP!LF!Next, SMP!LF!vars, SMP!LF!Begin, SMP!LF!Deliver, SMP!LF!Lose, SMP!LF!End,
           SMP!LF!Finish, SMP!LF!Halt, SM!LF!Next, SM!LF!vars, SM!LF!Begin, SM!LF!Deliver,
           SM!LF!Lose, SM!LF!End, SM!LF!Finish, SM!LF!Halt
  <2> QED
    BY <2>1, <2>2, PTL DEF SMP!ImplementsLossyFanout, SMP!LF!Spec, FansOut,
                           SM!ImplementsLossyFanout, SM!LF!Spec
<1> QED
  BY <1>2, <1>3, <1>4, PTL
=============================================================================
