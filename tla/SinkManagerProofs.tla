-------------------------- MODULE SinkManagerProofs --------------------------
(***************************************************************************)
(* The sink manager implements lossy fan-out, for any set of sinks and any *)
(* number of calls of ExportData: every step of its goroutines is a step   *)
(* of LossyFanout or leaves what LossyFanout speaks of unchanged.          *)
(***************************************************************************)
EXTENDS SinkManager, TLAPS

Types ==
    /\ caller \in [Calls -> {"idle", "waiting", "returned"}]
    /\ pusher \in [Calls -> [Sinks -> {"none", "select", "pushed", "dropped"}]]
    /\ loop \in [Sinks -> {"select", "export", "stop", "returned"}]
    /\ received \in [Sinks -> Seq(Calls)]

\* What LossyFanout speaks of, in terms of the goroutines.
Begun == {c \in Calls : caller[c] # "idle"}
Ended == {c \in Calls : caller[c] = "returned"}
Pending == {p \in Calls \X Sinks : pusher[p[1]][p[2]] = "select"}
Busy == {s \in Sinks : loop[s] = "export"}
Stopped == {s \in Sinks : loop[s] \in {"stop", "returned"}}

-----------------------------------------------------------------------------
\* The types are an invariant of the goroutines.
LEMMA TypesInvariant == Spec => []Types
<1>1. Init => Types
  BY DEF Init, Types
<1>2. Types /\ [Next]_smVars => Types'
  <2> SUFFICES ASSUME Types, [Next]_smVars
               PROVE  Types'
    OBVIOUS
  <2>1. ASSUME NEW c \in Calls, ExportData(c) \/ ExportDataReturn(c)
        PROVE  Types'
    <3>1. [s \in Sinks |-> "select"] \in [Sinks -> {"none", "select", "pushed", "dropped"}]
      OBVIOUS
    <3>2. CASE ExportData(c)
      BY <3>1, <3>2 DEF ExportData, Types
    <3>3. CASE ExportDataReturn(c)
      BY <3>3 DEF ExportDataReturn, Types
    <3> QED
      BY <2>1, <3>2, <3>3
  <2>2. ASSUME NEW c \in Calls, NEW s \in Sinks, PushData(c, s)
        PROVE  Types'
    <3>1. Append(received[s], c) \in Seq(Calls)
      BY DEF Types
    <3> QED
      BY <2>2, <3>1 DEF PushData, Types
  <2>3. ASSUME NEW c \in Calls, NEW s \in Sinks, PushTimeout(c, s)
        PROVE  Types'
    BY <2>3 DEF PushTimeout, Types
  <2>4. ASSUME NEW s \in Sinks, SinkExported(s) \/ SendStop(s) \/ StopTimeout(s) \/ SinkStopped(s)
        PROVE  Types'
    BY <2>4 DEF SinkExported, SendStop, StopTimeout, SinkStopped, Types
  <2>5. CASE Stop \/ UNCHANGED smVars
    BY <2>5 DEF Stop, smVars, Types
  <2> QED
    BY <2>1, <2>2, <2>3, <2>4, <2>5 DEF Next, Internal
<1> QED
  BY <1>1, <1>2, PTL DEF Spec

\* The call of ExportData begins a batch, offered to every sink.
LEMMA ExportDataBegins ==
    ASSUME Types, NEW c \in Calls, ExportData(c)
    PROVE  LF!Begin(c)
<1>1. c \notin Begun /\ Begun' = Begun \cup {c} /\ Ended' = Ended
  BY DEF ExportData, Types, Begun, Ended
<1>2. Pending' = Pending \cup ({c} \X Sinks)
  BY DEF ExportData, Types, Pending
<1> QED
  BY <1>1, <1>2 DEF LF!Begin, ExportData, Begun, Ended, Pending

\* The rendezvous of a pusher and a sink is a delivery.
LEMMA PushDataDelivers ==
    ASSUME Types, NEW c \in Calls, NEW s \in Sinks, PushData(c, s)
    PROVE  LF!Deliver(c, s)
<1>1. <<c, s>> \in Pending /\ s \notin Busy \cup Stopped
  BY DEF PushData, Pending, Busy, Stopped
<1>2. Pending' = Pending \ {<<c, s>>}
  BY DEF PushData, Types, Pending
<1>3. Busy' = Busy \cup {s} /\ Stopped' = Stopped
  BY DEF PushData, Types, Busy, Stopped
<1> QED
  BY <1>1, <1>2, <1>3 DEF LF!Deliver, PushData, Pending, Busy, Stopped

\* A timeout loses the batch for one sink.
LEMMA PushTimeoutLoses ==
    ASSUME Types, NEW c \in Calls, NEW s \in Sinks, PushTimeout(c, s)
    PROVE  LF!Lose(c, s)
<1>1. <<c, s>> \in Pending /\ Pending' = Pending \ {<<c, s>>}
  BY DEF PushTimeout, Types, Pending
<1> QED
  BY <1>1 DEF LF!Lose, PushTimeout, Pending

\* wg.Wait returns when no pusher of the call is left in its select.
LEMMA ExportDataReturnEnds ==
    ASSUME Types, NEW c \in Calls, ExportDataReturn(c)
    PROVE  LF!End(c)
<1>1. c \in Begun \ Ended /\ Ended' = Ended \cup {c} /\ Begun' = Begun
  BY DEF ExportDataReturn, Types, Begun, Ended
<1>2. \A s \in Sinks : <<c, s>> \notin Pending
  BY DEF ExportDataReturn, Pending
<1> QED
  BY <1>1, <1>2 DEF LF!End, ExportDataReturn, Begun, Ended, Pending

\* A sink that has exported is free again.
LEMMA SinkExportedFinishes ==
    ASSUME Types, NEW s \in Sinks, SinkExported(s)
    PROVE  LF!Finish(s)
<1>1. s \in Busy /\ Busy' = Busy \ {s} /\ Stopped' = Stopped
  BY DEF SinkExported, Types, Busy, Stopped
<1> QED
  BY <1>1 DEF LF!Finish, SinkExported, Busy, Stopped

\* The rendezvous of a stopper and a sink halts the sink.
LEMMA SendStopHalts ==
    ASSUME Types, NEW s \in Sinks, SendStop(s)
    PROVE  LF!Halt(s)
<1>1. s \notin Busy \cup Stopped /\ Stopped' = Stopped \cup {s} /\ Busy' = Busy
  BY DEF SendStop, Types, Busy, Stopped
<1> QED
  BY <1>1 DEF LF!Halt, SendStop, Busy, Stopped

\* The other steps are not seen.
LEMMA Unseen ==
    ASSUME Types,
           Stop \/ UNCHANGED smVars \/ \E s \in Sinks : StopTimeout(s) \/ SinkStopped(s)
    PROVE  UNCHANGED LF!vars
<1>1. Busy' = Busy /\ Stopped' = Stopped
  BY DEF Stop, StopTimeout, SinkStopped, smVars, Types, Busy, Stopped
<1> QED
  BY <1>1 DEF LF!vars, Stop, StopTimeout, SinkStopped, smVars, Busy, Stopped

\* The goroutines of the sink manager, under any number of concurrent calls of
\* ExportData and a Stop at any moment, do what lossy fan-out promises: each
\* batch is offered once to each sink, never while it is busy or stopped, and a
\* call returns only when the fate of its batch is settled at every sink.
THEOREM SinkManagerFansOut == Spec => ImplementsLossyFanout
<1>1. Init => LF!Init
  BY DEF Init, LF!Init
<1>2. Types /\ [Next]_smVars => [LF!Next]_(LF!vars)
  <2> SUFFICES ASSUME Types, [Next]_smVars
               PROVE  LF!Next \/ UNCHANGED LF!vars
    OBVIOUS
  <2>1. ASSUME NEW c \in Calls, ExportData(c) \/ ExportDataReturn(c)
        PROVE  LF!Next
    BY <2>1, ExportDataBegins, ExportDataReturnEnds DEF LF!Next
  <2>2. ASSUME NEW c \in Calls, NEW s \in Sinks, PushData(c, s) \/ PushTimeout(c, s)
        PROVE  LF!Next
    BY <2>2, PushDataDelivers, PushTimeoutLoses DEF LF!Next
  <2>3. ASSUME NEW s \in Sinks, SinkExported(s) \/ SendStop(s)
        PROVE  LF!Next
    BY <2>3, SinkExportedFinishes, SendStopHalts DEF LF!Next
  <2> QED
    BY <2>1, <2>2, <2>3, Unseen DEF Next, Internal
<1> QED
  BY <1>1, <1>2, TypesInvariant, PTL DEF Spec, ImplementsLossyFanout, LF!Spec
=============================================================================
