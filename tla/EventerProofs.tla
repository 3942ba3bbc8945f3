---------------------------- MODULE EventerProofs -----------------------------
(***************************************************************************)
(* Proofs about the eventer, for any size of its buffer, any number of     *)
(* sinks, updates and rounds, and any disconnections of the watch.         *)
(*                                                                         *)
(* Then about the recorder that its DingTalk sinks share, or Alertmanager  *)
(* sinks, for any number of sinks, any capacity and any time for which a   *)
(* key is kept.                                                            *)
(***************************************************************************)
EXTENDS Eventer, AlertSinks, Integers, TLAPS

-----------------------------------------------------------------------------
(* The flow of events                                                      *)

InBuffer(u) == \E i \in DOMAIN buffer : buffer[i] = u
InBatch(u) == \E r \in Rounds : \E i \in DOMAIN events[r] : events[r][i] = u

Types ==
    /\ version \in Nat /\ seen \in Nat /\ round \in Nat
    /\ deleted \subseteq Nat /\ full \subseteq Nat /\ missed \subseteq Nat
    /\ buffer \in Seq(Nat) /\ events \in [Rounds -> Seq(Nat)]

\* No update is known before it was seen.
Bounded ==
    /\ seen <= version /\ \A u \in deleted : 1 <= u /\ u <= version
    /\ \A u \in full \cup missed : 1 <= u /\ u <= seen
    /\ \A i \in DOMAIN buffer : 1 <= buffer[i] /\ buffer[i] <= seen
    /\ \A r \in Rounds : \A i \in DOMAIN events[r] : 1 <= events[r][i] /\ events[r][i] <= seen

\* The batches, and after them the buffer, hold updates in their order.
BatchesOrdered ==
    \A q, r \in Rounds : \A i \in DOMAIN events[q], j \in DOMAIN events[r] :
        q < r \/ (q = r /\ i < j) => events[q][i] < events[r][j]
Ordered ==
    /\ BatchesOrdered
    /\ \A i, j \in DOMAIN buffer : i < j => buffer[i] < buffer[j]
    /\ \A r \in Rounds : \A i \in DOMAIN events[r], j \in DOMAIN buffer : events[r][i] < buffer[j]
    /\ \A r \in Rounds : r > round => events[r] = << >>
    /\ mgr = "drain" => round \in Rounds

\* Every update seen has gone one way, and those that were lost are not kept.
OneWay ==
    /\ \A u \in 1 .. seen : u \in deleted \/ InBuffer(u) \/ InBatch(u) \/ u \in full \/ u \in missed
    /\ \A u \in full \cup missed : ~InBuffer(u) /\ ~InBatch(u)

FlowInv == Types /\ Bounded /\ Ordered /\ OneWay

-----------------------------------------------------------------------------
\* FlowInv holds at the start.
LEMMA FlowInit ==
    ASSUME Init
    PROVE  FlowInv
<1>1. Types
  BY DEF Init, Types
<1>2. /\ DOMAIN buffer = {} /\ \A r \in Rounds : DOMAIN events[r] = {} /\ events[r] = << >>
  BY DEF Init
<1>3. Bounded /\ Ordered
  BY <1>2 DEF Init, Bounded, Ordered, BatchesOrdered
<1>4. OneWay
  BY DEF Init, OneWay
<1> QED
  BY <1>1, <1>3, <1>4, Zenon DEF FlowInv

\* An update that the watch has not seen yet changes nothing for those it has.
LEMMA FlowUpdate ==
    ASSUME FlowInv, Update
    PROVE  FlowInv'
<1>1. /\ version' = version + 1 /\ deleted \subseteq deleted' /\ deleted' \subseteq deleted \cup {version + 1}
      /\ UNCHANGED <<seen, full, missed, buffer, mgr, round, events>>
  BY Zenon DEF Update, mgrVars
<1>2. Types'
  BY <1>1 DEF FlowInv, Types
<1>3. Bounded'
  BY <1>1 DEF FlowInv, Types, Bounded
<1>4. Ordered' /\ OneWay'
  BY <1>1 DEF FlowInv, Ordered, BatchesOrdered, OneWay, InBuffer, InBatch
<1> QED
  BY <1>2, <1>3, <1>4, Zenon DEF FlowInv

\* List skips what it did not see.
LEMMA FlowList ==
    ASSUME FlowInv, List
    PROVE  FlowInv'
<1>1. /\ seen' = version /\ missed' = missed \cup ((seen + 1) .. version)
      /\ UNCHANGED <<version, deleted, full, buffer, mgr, round, events>>
  BY Zenon DEF List, mgrVars
<1>2. version \in Nat /\ seen \in Nat /\ seen <= version
  BY Zenon DEF FlowInv, Types, Bounded
<1>3. Types'
  BY <1>1, <1>2 DEF FlowInv, Types
<1>4. Bounded'
  <2>1. \A i \in DOMAIN buffer : buffer[i] \in Nat
    BY DEF FlowInv, Types
  <2>2. \A r \in Rounds : \A i \in DOMAIN events[r] : events[r][i] \in Nat
    BY DEF FlowInv, Types
  <2>3. \A u \in full' \cup missed' : 1 <= u /\ u <= seen'
    BY <1>1, <1>2 DEF FlowInv, Types, Bounded
  <2> QED
    BY <1>1, <1>2, <2>1, <2>2, <2>3 DEF FlowInv, Bounded
<1>5. Ordered'
  BY <1>1, Zenon DEF FlowInv, Ordered, BatchesOrdered
<1>6. OneWay'
  <2>1. \A u : (InBuffer(u)' <=> InBuffer(u)) /\ (InBatch(u)' <=> InBatch(u))
    BY <1>1, Zenon DEF InBuffer, InBatch
  <2>2. \A u \in (seen + 1) .. version : ~InBuffer(u) /\ ~InBatch(u)
    BY <1>2 DEF FlowInv, Types, Bounded, InBuffer, InBatch
  <2>3. ASSUME NEW u \in 1 .. seen'
        PROVE  u \in 1 .. seen \/ u \in missed'
    BY <1>1, <1>2
  <2> QED
    BY <1>1, <2>1, <2>2, <2>3, Zenon DEF FlowInv, OneWay
<1> QED
  BY <1>3, <1>4, <1>5, <1>6, Zenon DEF FlowInv

\* An update comes in: ignored, buffered behind all others, or dropped.
LEMMA FlowReceive ==
    ASSUME FlowInv, Receive
    PROVE  FlowInv'
<1>0. PICK n \in Nat : n = seen + 1
  BY DEF FlowInv, Types
<1>1. /\ n = seen + 1 /\ seen' = n /\ seen < version
      /\ UNCHANGED <<version, deleted, missed, mgr, round, events>>
      /\ \/ n \in deleted /\ UNCHANGED <<buffer, full>>
         \/ buffer' = Append(buffer, n) /\ UNCHANGED full
         \/ full' = full \cup {n} /\ UNCHANGED buffer
  BY <1>0, Zenon DEF Receive, mgrVars
<1>2. version \in Nat /\ seen \in Nat /\ n = seen + 1
  BY <1>0, Zenon DEF FlowInv, Types
<1>3. Types'
  <2>1. buffer' \in Seq(Nat)
    BY <1>1 DEF FlowInv, Types
  <2>2. full' \subseteq Nat
    BY <1>1, Zenon DEF FlowInv, Types
  <2> QED
    BY <1>1, <1>2, <2>1, <2>2, Zenon DEF FlowInv, Types
<1>4. /\ DOMAIN buffer = 1 .. Len(buffer) /\ Len(buffer) \in Nat
      /\ \A i \in DOMAIN buffer : buffer[i] \in Nat /\ 1 <= buffer[i] /\ buffer[i] <= seen
      /\ \A r \in Rounds : \A i \in DOMAIN events[r] :
            events[r][i] \in Nat /\ 1 <= events[r][i] /\ events[r][i] <= seen
  BY DEF FlowInv, Types, Bounded
<1>5. \A i \in DOMAIN buffer' :
        \/ i \in DOMAIN buffer /\ buffer'[i] = buffer[i]
        \/ i = Len(buffer) + 1 /\ buffer'[i] = n
  <2>1. CASE buffer' = buffer
    BY <2>1, Zenon
  <2>2. CASE buffer' = Append(buffer, n)
    BY <1>2, <1>4, <2>2 DEF FlowInv, Types
  <2> QED
    BY <1>1, <2>1, <2>2, Zenon
<1>6. Bounded'
  <2>1. ASSUME NEW u \in full' \cup missed'
        PROVE  1 <= u /\ u <= seen'
    <3>1. u = n \/ u \in full \cup missed
      BY <1>1, Zenon
    <3>2. CASE u = n
      BY <1>1, <1>2, <3>2
    <3>3. CASE u \in full \cup missed
      <4>1. u \in Nat /\ 1 <= u /\ u <= seen
        BY <3>3, Zenon DEF FlowInv, Types, Bounded
      <4> QED
        BY <1>1, <1>2, <4>1
    <3> QED
      BY <3>1, <3>2, <3>3, Zenon
  <2> QED
    BY <1>1, <1>2, <1>4, <1>5, <2>1 DEF FlowInv, Bounded
<1>7. Ordered'
  <2>1. \A i, j \in DOMAIN buffer' : i < j => buffer'[i] < buffer'[j]
    BY <1>2, <1>4, <1>5 DEF FlowInv, Ordered
  <2>2. \A r \in Rounds : \A i \in DOMAIN events[r], j \in DOMAIN buffer' : events[r][i] < buffer'[j]
    BY <1>2, <1>4, <1>5 DEF FlowInv, Ordered
  <2> QED
    BY <1>1, <2>1, <2>2, Zenon DEF FlowInv, Ordered, BatchesOrdered
<1>8. OneWay'
  <2>1. \A u : InBatch(u)' <=> InBatch(u)
    BY <1>1, Zenon DEF InBatch
  <2>2. \A u : InBuffer(u) => InBuffer(u)'
    BY <1>1, <1>4 DEF InBuffer, FlowInv, Types
  <2>3. \A u : InBuffer(u)' => InBuffer(u) \/ u = n
    BY <1>5, Zenon DEF InBuffer
  <2>4. n \in deleted' \/ InBuffer(n)' \/ n \in full'
    <3>1. CASE buffer' = Append(buffer, n)
      <4>1. Len(buffer) + 1 \in DOMAIN buffer' /\ buffer'[Len(buffer) + 1] = n
        BY <1>2, <1>4, <3>1 DEF FlowInv, Types
      <4> QED
        BY <4>1, Zenon DEF InBuffer
    <3> QED
      BY <1>1, <3>1, Zenon
  <2>5. \A u \in 1 .. seen' : u \in 1 .. seen \/ u = n
    BY <1>1, <1>2
  <2>6. \A u \in 1 .. seen' :
            u \in deleted' \/ InBuffer(u)' \/ InBatch(u)' \/ u \in full' \/ u \in missed'
    BY <1>1, <2>1, <2>2, <2>4, <2>5, Zenon DEF FlowInv, OneWay
  <2>7. ~InBuffer(n) /\ ~InBatch(n) /\ n \notin full \cup missed
    BY <1>2, <1>4 DEF InBuffer, InBatch, FlowInv, Types, Bounded
  <2>8. ASSUME NEW u \in full' \cup missed'
        PROVE  ~InBuffer(u)' /\ ~InBatch(u)'
    <3>1. CASE u = n
      <4>1. ~InBatch(n)'
        BY <2>1, <2>7, Zenon
      <4>2. full' = full \cup {n} /\ buffer' = buffer
        BY <1>1, <2>7, <2>8, <3>1, Zenon
      <4>3. ~InBuffer(n)'
        BY <2>7, <4>2, Zenon DEF InBuffer
      <4> QED
        BY <3>1, <4>1, <4>3, Zenon
    <3>2. CASE u # n
      <4>1. u \in full \cup missed
        BY <1>1, <3>2, Zenon
      <4> QED
        BY <2>1, <2>3, <3>2, <4>1, Zenon DEF FlowInv, OneWay
    <3> QED
      BY <3>1, <3>2, Zenon
  <2> QED
    BY <2>6, <2>8, Zenon DEF OneWay
<1> QED
  BY <1>3, <1>6, <1>7, <1>8, Zenon DEF FlowInv

\* The first update of the buffer becomes the last one of the batch.
LEMMA FlowGet ==
    ASSUME FlowInv, GetNewEvents
    PROVE  FlowInv'
<1>1. /\ mgr = "drain" /\ round \in Rounds /\ buffer # << >>
      /\ buffer \in Seq(Nat) /\ events \in [Rounds -> Seq(Nat)]
      /\ UNCHANGED <<version, deleted, seen, full, missed, mgr, round>>
  BY Zenon DEF GetNewEvents, sourceVars, FlowInv, Types, Ordered
<1>2. PICK h \in Nat : h = Head(buffer)
  BY <1>1
<1>3. PICK m \in Nat : m = Len(events[round])
  BY <1>1
<1>4. /\ buffer' = Tail(buffer) /\ buffer' \in Seq(Nat)
      /\ DOMAIN buffer = 1 .. Len(buffer) /\ Len(buffer) \in Nat \ {0} /\ buffer[1] = h
      /\ DOMAIN buffer' = 1 .. (Len(buffer) - 1)
      /\ \A i \in 1 .. (Len(buffer) - 1) : buffer'[i] = buffer[i + 1]
  BY <1>1, <1>2 DEF GetNewEvents
<1>5. /\ events'[round] = Append(events[round], h)
      /\ \A r \in Rounds : r # round => events'[r] = events[r]
      /\ events' \in [Rounds -> Seq(Nat)]
  BY <1>1, <1>2 DEF GetNewEvents
<1>6. /\ DOMAIN events[round] = 1 .. m /\ DOMAIN events'[round] = 1 .. (m + 1)
      /\ events'[round][m + 1] = h
      /\ \A i \in 1 .. m : events'[round][i] = events[round][i]
  BY <1>1, <1>3, <1>5
<1>7. \A r \in Rounds : \A i \in DOMAIN events'[r] :
        \/ i \in DOMAIN events[r] /\ events'[r][i] = events[r][i]
        \/ r = round /\ i = m + 1 /\ events'[r][i] = h
  <2>1. \A i \in DOMAIN events'[round] : i \in 1 .. m \/ i = m + 1
    BY <1>6
  <2>2. \A i \in DOMAIN events'[round] :
          \/ i \in DOMAIN events[round] /\ events'[round][i] = events[round][i]
          \/ i = m + 1 /\ events'[round][i] = h
    BY <1>6, <2>1, Zenon
  <2> QED
    BY <1>5, <2>2, Zenon
<1>8. \A i \in DOMAIN buffer' : i + 1 \in DOMAIN buffer /\ 1 < i + 1 /\ buffer'[i] = buffer[i + 1]
  BY <1>4
<1>9. 1 \in DOMAIN buffer
  BY <1>4
<1>10. Types'
  BY <1>1, <1>4, <1>5, Zenon DEF FlowInv, Types
<1>11. Bounded'
  <2>1. \A i \in DOMAIN buffer' : 1 <= buffer'[i] /\ buffer'[i] <= seen
    BY <1>8, Zenon DEF FlowInv, Bounded
  <2>2. 1 <= h /\ h <= seen
    BY <1>4, <1>9, Zenon DEF FlowInv, Bounded
  <2>3. \A r \in Rounds : \A i \in DOMAIN events'[r] : 1 <= events'[r][i] /\ events'[r][i] <= seen
    BY <1>7, <2>2, Zenon DEF FlowInv, Bounded
  <2> QED
    BY <1>1, <2>1, <2>3, Zenon DEF FlowInv, Bounded
<1>12. \A r \in Rounds : \A i \in DOMAIN events[r] : events[r][i] < h
  BY <1>4, <1>9, Zenon DEF FlowInv, Ordered
<1>13. Rounds \subseteq Nat
  BY EventerAssumption DEF Rounds
<1>14. BatchesOrdered'
  <2>1. SUFFICES ASSUME NEW q \in Rounds, NEW r \in Rounds,
                        NEW i \in DOMAIN events'[q], NEW j \in DOMAIN events'[r],
                        q < r \/ (q = r /\ i < j)
                 PROVE  events'[q][i] < events'[r][j]
    BY Zenon DEF BatchesOrdered
  <2>2. CASE j \in DOMAIN events[r] /\ events'[r][j] = events[r][j]
    <3>1. CASE i \in DOMAIN events[q] /\ events'[q][i] = events[q][i]
      BY <2>1, <2>2, <3>1, Zenon DEF FlowInv, Ordered, BatchesOrdered
    <3>2. CASE q = round /\ i = m + 1
      <4>1. r = round
        <5>1. ~(r > round)
          BY <2>2, <1>1 DEF FlowInv, Ordered
        <5> QED
          BY <1>1, <1>13, <2>1, <3>2, <5>1, Zenon
      <4>2. j \in 1 .. m
        BY <1>6, <2>2, <4>1, Zenon
      <4> QED
        BY <1>13, <2>1, <3>2, <4>1, <4>2
    <3> QED
      BY <1>7, <3>1, <3>2, Zenon
  <2>3. CASE r = round /\ j = m + 1 /\ events'[r][j] = h
    <3>1. i \in DOMAIN events[q] /\ events'[q][i] = events[q][i]
      BY <1>7, <1>13, <2>1, <2>3
    <3> QED
      BY <1>12, <2>3, <3>1, Zenon
  <2> QED
    BY <1>7, <2>2, <2>3, Zenon
<1>15. Ordered'
  <2>1. \A i, j \in DOMAIN buffer' : i < j => buffer'[i] < buffer'[j]
    <3>1. \A i, j \in DOMAIN buffer' : i < j => i + 1 < j + 1
      BY <1>4
    <3> QED
      BY <1>8, <3>1, Zenon DEF FlowInv, Ordered
  <2>2. \A j \in DOMAIN buffer' : h < buffer'[j]
    BY <1>4, <1>8, <1>9, Zenon DEF FlowInv, Ordered
  <2>3. \A r \in Rounds : \A i \in DOMAIN events'[r], j \in DOMAIN buffer' : events'[r][i] < buffer'[j]
    BY <1>7, <1>8, <2>2 DEF FlowInv, Ordered
  <2>4. \A r \in Rounds : r > round => events'[r] = << >>
    BY <1>1, <1>5, <1>13 DEF FlowInv, Ordered
  <2> QED
    BY <1>1, <1>14, <2>1, <2>3, <2>4, Zenon DEF Ordered
<1>16. OneWay'
  <2>1. \A u : InBuffer(u)' => InBuffer(u)
    BY <1>8, Zenon DEF InBuffer
  <2>2. \A u : InBuffer(u) => InBuffer(u)' \/ u = h
    <3>1. ASSUME NEW u, NEW i \in DOMAIN buffer, buffer[i] = u, u # h
          PROVE  InBuffer(u)'
      <4>1. i # 1 /\ i - 1 \in 1 .. (Len(buffer) - 1) /\ (i - 1) + 1 = i
        BY <1>4, <3>1
      <4>2. i - 1 \in DOMAIN buffer' /\ buffer'[i - 1] = u
        BY <1>4, <3>1, <4>1, Zenon
      <4> QED
        BY <4>2, Zenon DEF InBuffer
    <3> QED
      BY <3>1, Zenon DEF InBuffer
  <2>3. \A u : InBatch(u)' <=> InBatch(u) \/ u = h
    <3>1. \A u : InBatch(u)' => InBatch(u) \/ u = h
      BY <1>7, Zenon DEF InBatch
    <3>2. \A r \in Rounds : \A i \in DOMAIN events[r] : i \in DOMAIN events'[r] /\ events'[r][i] = events[r][i]
      <4>1. \A i \in DOMAIN events[round] : i \in DOMAIN events'[round] /\ events'[round][i] = events[round][i]
        BY <1>6
      <4> QED
        BY <1>5, <4>1, Zenon
    <3>3. \A u : InBatch(u) => InBatch(u)'
      BY <3>2, Zenon DEF InBatch
    <3>4. m + 1 \in DOMAIN events'[round]
      BY <1>6
    <3>5. InBatch(h)'
      BY <1>1, <1>6, <3>4, Zenon DEF InBatch
    <3> QED
      BY <3>1, <3>3, <3>5, Zenon
  <2>4. ASSUME NEW u \in full' \cup missed'
        PROVE  ~InBuffer(u)' /\ ~InBatch(u)'
    <3>1. ~InBuffer(u) /\ ~InBatch(u)
      BY <1>1, <2>4, Zenon DEF FlowInv, OneWay
    <3>2. InBuffer(h)
      BY <1>4, <1>9, Zenon DEF InBuffer
    <3> QED
      BY <2>1, <2>3, <3>1, <3>2, Zenon
  <2> QED
    BY <1>1, <2>2, <2>3, <2>4, Zenon DEF FlowInv, OneWay
<1> QED
  BY <1>10, <1>11, <1>15, <1>16, Zenon DEF FlowInv

\* The other steps leave the updates alone.
LEMMA FlowKept ==
    ASSUME FlowInv,
           UNCHANGED <<version, deleted, seen, full, missed, buffer, events>>,
           \/ round' = round /\ (mgr' = "drain" => mgr = "drain")
           \/ round' = round + 1 /\ round < MaxRounds
    PROVE  FlowInv'
<1>1. round \in Nat /\ Rounds \subseteq Nat
  BY EventerAssumption DEF FlowInv, Types, Rounds
<1>2. Types' /\ Bounded'
  BY <1>1 DEF FlowInv, Types, Bounded
<1>3. OneWay'
  BY DEF FlowInv, OneWay, InBuffer, InBatch
<1>4. /\ \A r \in Rounds : r > round' => r > round
      /\ mgr' = "drain" => round' \in Rounds
  BY <1>1, EventerAssumption DEF FlowInv, Ordered, Rounds
<1>5. Ordered'
  BY <1>4, Zenon DEF FlowInv, Ordered, BatchesOrdered
<1> QED
  BY <1>2, <1>3, <1>5, Zenon DEF FlowInv

\* No step of the eventer breaks FlowInv.
LEMMA FlowStep ==
    ASSUME FlowInv, [Next]_vars
    PROVE  FlowInv'
<1>1. CASE \/ StartWatch \/ Disconnect \/ TimerFires \/ ExportEvents \/ ExportReturns
           \/ ReceiveStop \/ CallStop \/ SinkStep \/ UNCHANGED vars
  <2>1. UNCHANGED <<version, deleted, seen, full, missed, buffer, events>>
    BY <1>1, Zenon DEF StartWatch, Disconnect, TimerFires, ExportEvents, ExportReturns, ReceiveStop,
                CallStop, SinkStep, vars, mgrVars, sourceVars
  <2>2. \/ round' = round /\ (mgr' = "drain" => mgr = "drain")
        \/ round' = round + 1 /\ round < MaxRounds
    BY <1>1, Zenon DEF StartWatch, Disconnect, TimerFires, ExportEvents, ExportReturns, ReceiveStop,
                CallStop, SinkStep, vars, mgrVars
  <2> QED
    BY <2>1, <2>2, FlowKept, Zenon
<1> QED
  BY <1>1, FlowUpdate, FlowList, FlowReceive, FlowGet, Zenon DEF Next, WatchStep, MgrStep

-----------------------------------------------------------------------------
\* The batches reach the sinks through pushers that exist only while the main
\* loop waits for them.
PushInv ==
    /\ round \in Nat /\ received \in [Sinks -> Seq(Nat)]
    /\ pusher \in [Rounds -> [Sinks -> {"none", "select", "pushed", "dropped"}]]
    /\ mgr \in {"select", "drain", "export", "returned"}
    /\ mgr \in {"drain", "export"} => round \in Rounds
    /\ \A c \in Rounds, s \in Sinks :
        /\ pusher[c][s] = "select" => c = round /\ mgr = "export"
        /\ c > round \/ (c = round /\ mgr = "drain") => pusher[c][s] = "none"
        /\ pusher[c][s] \in {"none", "select"} => \A i \in DOMAIN received[s] : received[s][i] # c
    /\ \A s \in Sinks : \A i \in DOMAIN received[s] : received[s][i] <= round
    /\ \A s \in Sinks : \A i, j \in DOMAIN received[s] : i < j => received[s][i] < received[s][j]

\* PushInv holds at the start.
LEMMA PushInit ==
    ASSUME Init
    PROVE  PushInv
<1>1. /\ pusher = [c \in Rounds |-> [s \in Sinks |-> "none"]]
      /\ received = [s \in Sinks |-> << >>] /\ round = 0 /\ mgr = "select"
  BY Zenon DEF Init, SM!Init
<1>2. \A s \in Sinks : received[s] = << >> /\ DOMAIN received[s] = {}
  BY <1>1
<1>3. received \in [Sinks -> Seq(Nat)]
  BY <1>1
<1> QED
  BY <1>1, <1>2, <1>3, Zenon DEF PushInv

\* ExportEvents starts the pushers of a round that had none.
LEMMA PushStart ==
    ASSUME PushInv, ExportEvents
    PROVE  PushInv'
<1>1. /\ mgr = "drain" /\ mgr' = "export" /\ round \in Rounds
      /\ UNCHANGED <<round, received>>
      /\ pusher' = [pusher EXCEPT ![round] = [s \in Sinks |-> "select"]]
  BY Zenon DEF ExportEvents, SM!ExportData, PushInv
<1>2. /\ \A s \in Sinks : pusher'[round][s] = "select" /\ pusher[round][s] = "none"
      /\ \A c \in Rounds : c # round => pusher'[c] = pusher[c]
      /\ pusher' \in [Rounds -> [Sinks -> {"none", "select", "pushed", "dropped"}]]
  BY <1>1, Zenon DEF PushInv
<1>3. \A c \in Rounds, s \in Sinks :
        /\ pusher'[c][s] = "select" => c = round
        /\ c > round => pusher'[c][s] = "none"
        /\ pusher'[c][s] \in {"none", "select"} => \A i \in DOMAIN received[s] : received[s][i] # c
  BY <1>1, <1>2 DEF PushInv
<1> QED
  BY <1>1, <1>2, <1>3 DEF PushInv

\* A sink is handed the batch of this round, and had only earlier ones.
LEMMA PushPushed ==
    ASSUME PushInv, NEW c \in Rounds, NEW s \in Sinks, SM!PushData(c, s), UNCHANGED <<mgr, round>>
    PROVE  PushInv'
<1>1. /\ pusher[c][s] = "select" /\ pusher' = [pusher EXCEPT ![c][s] = "pushed"]
      /\ received' = [received EXCEPT ![s] = Append(@, c)]
  BY Zenon DEF SM!PushData
<1>2. c = round /\ mgr = "export" /\ round \in Nat
  BY <1>1, Zenon DEF PushInv
<1>3. /\ pusher'[c][s] = "pushed"
      /\ \A t \in Sinks : t # s => pusher'[c][t] = pusher[c][t]
      /\ \A d \in Rounds : d # c => pusher'[d] = pusher[d]
      /\ pusher' \in [Rounds -> [Sinks -> {"none", "select", "pushed", "dropped"}]]
  BY <1>1, Zenon DEF PushInv
<1>4. PICK m \in Nat : m = Len(received[s])
  BY DEF PushInv
<1>5. /\ DOMAIN received[s] = 1 .. m /\ DOMAIN received'[s] = 1 .. (m + 1)
      /\ received'[s][m + 1] = c
      /\ \A i \in 1 .. m : received'[s][i] = received[s][i] /\ received[s][i] \in Nat
      /\ \A t \in Sinks : t # s => received'[t] = received[t]
      /\ received' \in [Sinks -> Seq(Nat)]
  BY <1>1, <1>2, <1>4 DEF PushInv
<1>6. \A i \in 1 .. m : received[s][i] < c
  BY <1>1, <1>2, <1>5 DEF PushInv
<1>7. \A i \in DOMAIN received'[s] : i \in 1 .. m \/ i = m + 1
  BY <1>5
<1>8. \A d \in Rounds, t \in Sinks :
        pusher'[d][t] \in {"none", "select"} => \A i \in DOMAIN received'[t] : received'[t][i] # d
  <2>1. SUFFICES ASSUME NEW d \in Rounds, NEW t \in Sinks, pusher'[d][t] \in {"none", "select"},
                        NEW i \in DOMAIN received'[t]
                 PROVE  received'[t][i] # d
    BY Zenon
  <2>2. CASE t = s
    <3>1. d # c /\ pusher[d][t] \in {"none", "select"}
      BY <1>3, <2>1, <2>2, Zenon
    <3>2. \A j \in 1 .. m : received[s][j] # d
      BY <1>5, <2>2, <3>1 DEF PushInv
    <3> QED
      BY <1>5, <1>7, <2>1, <2>2, <3>1, <3>2, Zenon
  <2>3. CASE t # s
    <3>1. pusher[d][t] \in {"none", "select"}
      BY <1>3, <2>1, <2>3, Zenon
    <3>2. \A j \in DOMAIN received[t] : received[t][j] # d
      BY <3>1, Zenon DEF PushInv
    <3> QED
      BY <1>5, <2>1, <2>3, <3>2, Zenon
  <2> QED
    BY <2>2, <2>3, Zenon
<1>9. \A d \in Rounds, t \in Sinks :
        /\ pusher'[d][t] = "select" => d = round
        /\ d > round => pusher'[d][t] = "none"
  <2>1. \A d \in Rounds, t \in Sinks : pusher'[d][t] = pusher[d][t] \/ (d = c /\ pusher'[d][t] = "pushed")
    BY <1>3, Zenon
  <2> QED
    BY <1>2, <2>1 DEF PushInv
<1>10. \A t \in Sinks : \A i \in DOMAIN received'[t] : received'[t][i] <= round
  <2>1. \A i \in 1 .. m : received[s][i] <= round
    BY <1>5, Zenon DEF PushInv
  <2>2. \A i \in DOMAIN received'[s] : received'[s][i] <= round
    BY <1>2, <1>5, <1>7, <2>1
  <2> QED
    BY <1>5, <2>2, Zenon DEF PushInv
<1>11. \A t \in Sinks : \A i, j \in DOMAIN received'[t] : i < j => received'[t][i] < received'[t][j]
  <2>1. \A i, j \in DOMAIN received'[s] : i < j => i \in 1 .. m /\ (j \in 1 .. m \/ j = m + 1)
    BY <1>5
  <2>2. \A i, j \in DOMAIN received'[s] : i < j => received'[s][i] < received'[s][j]
    BY <1>5, <1>6, <2>1, Zenon DEF PushInv
  <2> QED
    BY <1>5, <2>2, Zenon DEF PushInv
<1> QED
  BY <1>2, <1>3, <1>5, <1>8, <1>9, <1>10, <1>11 DEF PushInv

\* A pusher that gives up hands nothing over.
LEMMA PushDropped ==
    ASSUME PushInv, NEW c \in Rounds, NEW s \in Sinks, SM!PushTimeout(c, s), UNCHANGED <<mgr, round>>
    PROVE  PushInv'
<1>1. /\ pusher[c][s] = "select" /\ pusher' = [pusher EXCEPT ![c][s] = "dropped"] /\ received' = received
  BY Zenon DEF SM!PushTimeout
<1>2. c = round /\ mgr = "export" /\ round \in Nat
  BY <1>1, Zenon DEF PushInv
<1>3. /\ \A d \in Rounds, t \in Sinks : pusher'[d][t] = pusher[d][t] \/ (d = c /\ pusher'[d][t] = "dropped")
      /\ pusher' \in [Rounds -> [Sinks -> {"none", "select", "pushed", "dropped"}]]
  BY <1>1, Zenon DEF PushInv
<1>4. \A d \in Rounds, t \in Sinks :
        /\ pusher'[d][t] = "select" => d = round
        /\ d > round => pusher'[d][t] = "none"
        /\ pusher'[d][t] \in {"none", "select"} => \A i \in DOMAIN received[t] : received[t][i] # d
  BY <1>2, <1>3 DEF PushInv
<1> QED
  BY <1>1, <1>2, <1>3, <1>4 DEF PushInv

\* The other steps start no pusher and hand nothing over, and the loop leaves a
\* round only when none of its pushers is left.
LEMMA PushKept ==
    ASSUME PushInv, UNCHANGED <<pusher, received>>,
           \/ UNCHANGED <<mgr, round>>
           \/ /\ mgr = "select" /\ mgr' = "drain" /\ round' = round + 1 /\ round < MaxRounds
           \/ /\ mgr' \in {"select", "returned"} /\ round' = round
              /\ \A s \in Sinks : round \in Rounds => pusher[round][s] # "select"
    PROVE  PushInv'
<1>1. round \in Nat /\ Rounds \subseteq Nat
  BY EventerAssumption DEF PushInv, Rounds
<1>2. CASE UNCHANGED <<mgr, round>>
  BY <1>2 DEF PushInv
<1>3. CASE mgr = "select" /\ mgr' = "drain" /\ round' = round + 1 /\ round < MaxRounds
  <2>1. round' \in Rounds /\ round' \in Nat
    BY <1>1, <1>3, EventerAssumption DEF Rounds
  <2>2. \A c \in Rounds, s \in Sinks :
          /\ pusher[c][s] # "select"
          /\ c >= round' => pusher[c][s] = "none"
    BY <1>1, <1>3 DEF PushInv
  <2>3. \A s \in Sinks : \A i \in DOMAIN received[s] : received[s][i] <= round'
    <3>1. \A s \in Sinks : \A i \in DOMAIN received[s] : received[s][i] \in Nat
      BY DEF PushInv
    <3> QED
      BY <1>1, <1>3, <3>1 DEF PushInv
  <2>4. \A c \in Rounds : c > round' \/ c = round' => c >= round'
    BY <1>1, <2>1
  <2> QED
    BY <1>3, <2>1, <2>2, <2>3, <2>4 DEF PushInv
<1>4. CASE /\ mgr' \in {"select", "returned"} /\ round' = round
           /\ \A s \in Sinks : round \in Rounds => pusher[round][s] # "select"
  BY <1>4 DEF PushInv
<1> QED
  BY <1>2, <1>3, <1>4, Zenon

\* No step of the eventer breaks PushInv.
LEMMA PushStep ==
    ASSUME PushInv, [Next]_vars
    PROVE  PushInv'
<1>1. CASE \/ Update \/ WatchStep \/ GetNewEvents \/ CallStop \/ UNCHANGED vars
  <2>1. UNCHANGED <<pusher, received, mgr, round>>
    BY <1>1, Zenon DEF Update, WatchStep, List, StartWatch, Receive, Disconnect, GetNewEvents, CallStop,
                vars, mgrVars, smVars
  <2> QED
    BY <2>1, PushKept, Zenon
<1>2. CASE TimerFires
  <2>1. /\ UNCHANGED <<pusher, received>>
        /\ mgr = "select" /\ mgr' = "drain" /\ round' = round + 1 /\ round < MaxRounds
    BY <1>2, Zenon DEF TimerFires, smVars
  <2> QED
    BY <2>1, PushKept, Zenon
<1>3. CASE ExportReturns
  <2>1. /\ UNCHANGED <<pusher, received>> /\ mgr' = "select" /\ round' = round
        /\ \A s \in Sinks : pusher[round][s] # "select"
    BY <1>3, Zenon DEF ExportReturns, SM!ExportDataReturn
  <2> QED
    BY <2>1, PushKept, Zenon
<1>4. CASE ReceiveStop
  <2>1. /\ UNCHANGED <<pusher, received>> /\ mgr = "select" /\ mgr' = "returned" /\ round' = round
    BY <1>4, Zenon DEF ReceiveStop, SM!Stop
  <2>2. \A s \in Sinks : round \in Rounds => pusher[round][s] # "select"
    BY <2>1, Zenon DEF PushInv
  <2> QED
    BY <2>1, <2>2, PushKept, Zenon
<1>5. CASE SinkStep
  <2>1. UNCHANGED <<mgr, round>>
    BY <1>5, Zenon DEF SinkStep, mgrVars
  <2>2. ASSUME NEW s \in Sinks, SM!SinkExported(s) \/ SM!SendStop(s) \/ SM!StopTimeout(s) \/ SM!SinkStopped(s)
        PROVE  PushInv'
    <3>1. UNCHANGED <<pusher, received>>
      BY <2>2, Zenon DEF SM!SinkExported, SM!SendStop, SM!StopTimeout, SM!SinkStopped
    <3> QED
      BY <2>1, <3>1, PushKept, Zenon
  <2> QED
    BY <1>5, <2>1, <2>2, PushPushed, PushDropped, Zenon DEF SinkStep, SM!Internal
<1> QED
  BY <1>1, <1>2, <1>3, <1>4, <1>5, PushStart, Zenon DEF Next, MgrStep

-----------------------------------------------------------------------------
\* However often the watch is disconnected and however full the buffer, every
\* update the watch has passed is in one place, or was lost in one of the two
\* ways the code provides for.
THEOREM EventsAlwaysAccounted == Spec => []EventsAccounted
<1>1. FlowInv => EventsAccounted
  <2>1. SUFFICES ASSUME FlowInv
                 PROVE  EventsAccounted
    BY Zenon
  <2>2. \A u : (u \in Range(buffer) <=> InBuffer(u)) /\ (u \in Drained <=> InBatch(u))
    BY DEF Range, Drained, InBuffer, InBatch
  <2>3. \A u \in full \cup missed : u \in Nat /\ 1 <= u /\ u <= seen
    BY <2>1, Zenon DEF FlowInv, Types, Bounded
  <2>4. \A u : InBuffer(u) \/ InBatch(u) => u \in Nat /\ 1 <= u /\ u <= seen
    BY <2>1 DEF FlowInv, Types, Bounded, InBuffer, InBatch
  <2>5. \A u \in deleted : u \in Nat /\ 1 <= u
    BY <2>1, Zenon DEF FlowInv, Types, Bounded
  <2>6. seen \in Nat
    BY <2>1, Zenon DEF FlowInv, Types
  <2>7. 1 .. seen = {u \in deleted : u <= seen} \cup Range(buffer) \cup Drained \cup full \cup missed
    <3>1. ASSUME NEW u \in 1 .. seen
          PROVE  u \in {v \in deleted : v <= seen} \cup Range(buffer) \cup Drained \cup full \cup missed
      BY <2>1, <2>2, <2>6 DEF FlowInv, OneWay
    <3>2. ASSUME NEW u \in {v \in deleted : v <= seen} \cup Range(buffer) \cup Drained \cup full \cup missed
          PROVE  u \in 1 .. seen
      <4>1. u \in Nat /\ 1 <= u /\ u <= seen
        BY <2>2, <2>3, <2>4, <2>5, Zenon
      <4> QED
        BY <2>6, <4>1
    <3> QED
      BY <3>1, <3>2, Zenon
  <2>8. \A u : ~(InBuffer(u) /\ InBatch(u))
    <3>1. \A r \in Rounds : \A i \in DOMAIN events[r], j \in DOMAIN buffer : events[r][i] # buffer[j]
      BY <2>1 DEF FlowInv, Types, Ordered
    <3> QED
      BY <3>1, Zenon DEF InBuffer, InBatch
  <2>9. \A u \in full \cup missed : ~InBuffer(u) /\ ~InBatch(u)
    BY <2>1, Zenon DEF FlowInv, OneWay
  <2> QED
    BY <2>2, <2>7, <2>8, <2>9, Zenon DEF EventsAccounted
<1> QED
  BY <1>1, FlowInit, FlowStep, PTL DEF Spec

\* "each event can be obtained only once": updates are in the batches once and in
\* order, and the batches at every sink, whatever is disconnected, dropped or late.
THEOREM AlwaysOnceInOrder == Spec => []OnceInOrder
<1>1. FlowInv /\ PushInv => OnceInOrder
  BY Zenon DEF FlowInv, Ordered, BatchesOrdered, PushInv, OnceInOrder
<1> QED
  BY <1>1, FlowInit, FlowStep, PushInit, PushStep, PTL DEF Spec

-----------------------------------------------------------------------------
(* The sink manager of the eventer                                         *)

SMP == INSTANCE SinkManagerProofs WITH Calls <- Rounds

\* Whatever the eventer does is a step of its sink manager or leaves it alone.
LEMMA EventerRefinesSinkManager ==
    PushInv /\ [Next]_vars => [SMP!Next]_(SMP!smVars)
<1> SUFFICES ASSUME PushInv, [Next]_vars
             PROVE  SMP!Next \/ UNCHANGED SMP!smVars
  BY Zenon
<1>1. CASE Update \/ WatchStep \/ TimerFires \/ GetNewEvents \/ CallStop \/ UNCHANGED vars
  BY <1>1, Zenon DEF Update, WatchStep, List, StartWatch, Receive, Disconnect, TimerFires, GetNewEvents,
              CallStop, vars, smVars, SMP!smVars
<1>2. CASE ExportEvents
  BY <1>2, Zenon DEF ExportEvents, SM!ExportData, SMP!Next, SMP!ExportData, PushInv
<1>3. CASE ExportReturns
  BY <1>3, Zenon DEF ExportReturns, SM!ExportDataReturn, SMP!Next, SMP!ExportDataReturn, PushInv
<1>4. CASE ReceiveStop
  BY <1>4, Zenon DEF ReceiveStop, SM!Stop, SMP!Next, SMP!Stop
<1>5. CASE SinkStep
  BY <1>5, Zenon DEF SinkStep, SM!Internal, SM!PushData, SM!PushTimeout, SM!SinkExported, SM!SendStop,
              SM!StopTimeout, SM!SinkStopped, SMP!Next, SMP!Internal, SMP!PushData,
              SMP!PushTimeout, SMP!SinkExported, SMP!SendStop, SMP!StopTimeout, SMP!SinkStopped
<1> QED
  BY <1>1, <1>2, <1>3, <1>4, <1>5, Zenon DEF Next, MgrStep

\* For any number of updates, rounds and sinks, and a stop of the loop at any
\* moment, the sink manager of the eventer is a lossy fan-out of the batches.
THEOREM EventerFansOut == Spec => EventsFanOut
<1>1. Init => SMP!Init
  BY Zenon DEF Init, SM!Init, SMP!Init
<1>2. Spec => SMP!Spec
  BY <1>1, PushInit, PushStep, EventerRefinesSinkManager, PTL DEF Spec, SMP!Spec
<1>3. SMP!Spec => SMP!ImplementsLossyFanout
  BY SMP!SinkManagerFansOut, Zenon
<1>4. SMP!ImplementsLossyFanout => EventsFanOut
  <2>1. SMP!LF!Init => SM!LF!Init
    BY Zenon DEF SMP!LF!Init, SM!LF!Init
  <2>2. [SMP!LF!Next]_(SMP!LF!vars) => [SM!LF!Next]_(SM!LF!vars)
    BY Zenon DEF SMP!LF!Next, SMP!LF!vars, SMP!LF!Begin, SMP!LF!Deliver, SMP!LF!Lose, SMP!LF!End,
           SMP!LF!Finish, SMP!LF!Halt, SM!LF!Next, SM!LF!vars, SM!LF!Begin, SM!LF!Deliver,
           SM!LF!Lose, SM!LF!End, SM!LF!Finish, SM!LF!Halt
  <2> QED
    BY <2>1, <2>2, PTL DEF SMP!ImplementsLossyFanout, SMP!LF!Spec, EventsFanOut,
                           SM!ImplementsLossyFanout, SM!LF!Spec
<1> QED
  BY <1>2, <1>3, <1>4, PTL

-----------------------------------------------------------------------------
(* The recorder of the alert sinks                                         *)

\* The entries of the recorder, and the decisions about events.
Entry == [key : AlertKeys, expires : Nat]
Handling == [key : AlertKeys, who : Robots, told : BOOLEAN, at : Nat]

\* No decision is from the future.
AlertTypes ==
    /\ clock \in Nat
    /\ recorder \in Seq(Entry)
    /\ handled \in Seq(Handling)
    /\ robot \in [Robots -> AlertKeys \cup {Nobody}]
    /\ \A i \in 1 .. Len(handled) : handled[i].at <= clock

\* A key has one entry.
OneEntry(r) == \A i, j \in 1 .. Len(r) : r[i].key = r[j].key => i = j

\* The keys handled after decision i, but its own.
Since(i) == OthersBetween(i, Len(handled) + 1)

\* The recorder may have lost the entry of decision i.
Over(i) == clock > handled[i].at + Window \/ AtLeast(MaxRecorder, Since(i))

\* It has not: only keys that were handled since are in front of it.
HeldBehind(r, k, time, keys) ==
    \E p \in 1 .. Len(r) :
        /\ r[p].key = k /\ r[p].expires >= time
        /\ \A q \in 1 .. (p - 1) : r[q].key \in keys
Held(i) == HeldBehind(recorder, handled[i].key, handled[i].at + Window, Since(i))

\* The decisions to tell.
Told == {i \in 1 .. Len(handled) : handled[i].told}

\* The recorder has the entry of every post unless it may have lost it, and a sink
\* posts again about the same key only if it may.
DingInv ==
    package = "dingtalk" =>
        /\ \A i \in Told : handled[i].who \in Robots /\ (Over(i) \/ Held(i))
        /\ \A i \in Told : robot[handled[i].who] = handled[i].key => Over(i)

\* An entry is of an event that was passed over.
PassedOver(e) ==
    \E i \in 1 .. Len(handled) :
        handled[i].key = e.key /\ ~handled[i].told /\ e.expires = handled[i].at + Window

\* The inductive invariant of the alert sinks.
AlertInv ==
    /\ AlertTypes
    /\ OneEntry(recorder)
    /\ DingInv
    /\ package = "alertmanager" => \A p \in 1 .. Len(recorder) : PassedOver(recorder[p])
    /\ AlertsThrottled
-----------------------------------------------------------------------------
(* The operations of the recorder                                          *)

\* The elements of a sequence, of which the recorder and the history are two.
LEMMA ElementIn == ASSUME NEW S, NEW s \in Seq(S), NEW i \in 1 .. Len(s) PROVE s[i] \in S
OBVIOUS

\* The fields of an entry of the recorder.
LEMMA EntryFields == ASSUME NEW e \in Entry PROVE e.key \in AlertKeys /\ e.expires \in Nat
BY Zenon DEF Entry

\* The fields of a decision about an event.
LEMMA HandlingFields == ASSUME NEW d \in Handling PROVE d.key \in AlertKeys /\ d.at \in Nat
BY Zenon DEF Handling

\* An entry that was to last until b + w and has expired at c: c is past b + w.
LEMMA Later ==
    ASSUME NEW a \in Nat, NEW b \in Nat, NEW c \in Nat, NEW w \in Nat, a >= b + w, ~(a >= c)
    PROVE  c > b + w
OBVIOUS

\* What is recorded later expires later.
LEMMA SumGrows == ASSUME NEW a \in Nat, NEW b \in Nat, NEW w \in Nat, a <= b PROVE b + w >= a + w
OBVIOUS

\* The place of a key that is in the recorder.
LEMMA PositionIn ==
    ASSUME NEW r \in Seq(Entry), NEW k, \E i \in 1 .. Len(r) : r[i].key = k
    PROVE  Position(r, k) \in 1 .. Len(r) /\ r[Position(r, k)].key = k
BY Zenon DEF Position

\* Taking a key out moves nothing back, and brings nothing to the front of what it was behind.
LEMMA WithoutFacts ==
    ASSUME NEW r \in Seq(Entry), OneEntry(r), NEW k
    PROVE  /\ Without(r, k) \in Seq(Entry) /\ OneEntry(Without(r, k))
           /\ \A i \in 1 .. Len(Without(r, k)) :
                 /\ Without(r, k)[i].key # k
                 /\ \E j \in 1 .. Len(r) : Without(r, k)[i] = r[j]
           /\ \A p \in 1 .. Len(r) : r[p].key # k =>
                 \E i \in 1 .. Len(Without(r, k)) :
                     /\ Without(r, k)[i] = r[p]
                     /\ \A q \in 1 .. (i - 1) : \E j \in 1 .. (p - 1) : Without(r, k)[q] = r[j]
<1>1. CASE \A i \in 1 .. Len(r) : r[i].key # k
  BY <1>1, Zenon DEF Without
<1>2. CASE ~(\A i \in 1 .. Len(r) : r[i].key # k)
  <2> DEFINE pos == Position(r, k)
             w == [i \in 1 .. (Len(r) - 1) |-> IF i < pos THEN r[i] ELSE r[i + 1]]
  <2>1. Without(r, k) = w
    BY <1>2, Zenon DEF Without
  <2>2. pos \in 1 .. Len(r) /\ r[pos].key = k
    BY <1>2, PositionIn, Zenon
  <2>3. Len(r) \in Nat /\ Len(r) > 0
    BY <2>2
  <2> HIDE DEF pos
  <2>4. \A i \in 1 .. (Len(r) - 1) : w[i] = IF i < pos THEN r[i] ELSE r[i + 1]
    BY Zenon
  <2>5. w \in Seq(Entry) /\ Len(w) = Len(r) - 1
    BY <2>2, <2>3
  <2> HIDE DEF w
  <2>6. \A i \in 1 .. Len(w) : \E j \in 1 .. Len(r) : j # pos /\ w[i] = r[j] /\ j = (IF i < pos THEN i ELSE i + 1)
    BY <2>2, <2>3, <2>4, <2>5
  <2>7. \A i \in 1 .. Len(w) : w[i].key # k
    BY <2>2, <2>6, Zenon DEF OneEntry
  <2>8. OneEntry(w)
    <3> SUFFICES ASSUME NEW i \in 1 .. Len(w), NEW j \in 1 .. Len(w), w[i].key = w[j].key
                 PROVE  i = j
      BY Zenon DEF OneEntry
    <3>1. PICK a \in 1 .. Len(r) : w[i] = r[a] /\ a = (IF i < pos THEN i ELSE i + 1)
      BY <2>6, Zenon
    <3>2. PICK b \in 1 .. Len(r) : w[j] = r[b] /\ b = (IF j < pos THEN j ELSE j + 1)
      BY <2>6, Zenon
    <3>3. a = b
      BY <3>1, <3>2, Zenon DEF OneEntry
    <3> QED BY <2>2, <2>3, <2>5, <3>1, <3>2, <3>3
  <2>9. ASSUME NEW p \in 1 .. Len(r), r[p].key # k
        PROVE  \E i \in 1 .. Len(w) :
                   /\ w[i] = r[p]
                   /\ \A q \in 1 .. (i - 1) : \E j \in 1 .. (p - 1) : w[q] = r[j]
    <3>1. p # pos
      BY <2>2, <2>9, Zenon
    <3> DEFINE i == IF p < pos THEN p ELSE p - 1
    <3>2. i \in 1 .. Len(w) /\ w[i] = r[p]
      BY <2>2, <2>3, <2>4, <2>5, <3>1
    <3>3. ASSUME NEW q \in 1 .. (i - 1)
          PROVE  \E j \in 1 .. (p - 1) : w[q] = r[j]
      <4>1. w[q] = IF q < pos THEN r[q] ELSE r[q + 1]
        BY <2>2, <2>3, <2>4
      <4>2. q \in 1 .. (p - 1) /\ (~(q < pos) => q + 1 \in 1 .. (p - 1))
        BY <2>2, <2>3, <3>1
      <4> QED BY <4>1, <4>2, Zenon
    <3> QED BY <3>2, <3>3, Zenon
  <2>10. \A i \in 1 .. Len(w) : \E j \in 1 .. Len(r) : w[i] = r[j]
    BY <2>6, Zenon
  <2> QED BY <2>1, <2>5, <2>7, <2>8, <2>9, <2>10, Zenon
<1> QED BY <1>1, <1>2, Zenon

\* Taking another key out keeps an entry.
LEMMA WithoutHolds ==
    ASSUME NEW r \in Seq(Entry), OneEntry(r), NEW k, NEW key, key # k, NEW time, NEW keys,
           HeldBehind(r, key, time, keys)
    PROVE  HeldBehind(Without(r, k), key, time, keys)
<1>1. PICK p \in 1 .. Len(r) : /\ r[p].key = key /\ r[p].expires >= time
                               /\ \A q \in 1 .. (p - 1) : r[q].key \in keys
  BY Zenon DEF HeldBehind
<1>2. r[p].key # k
  BY <1>1, Zenon
<1>3. \A t \in 1 .. Len(r) : r[t].key # k =>
          \E i \in 1 .. Len(Without(r, k)) :
              /\ Without(r, k)[i] = r[t]
              /\ \A q \in 1 .. (i - 1) : \E j \in 1 .. (t - 1) : Without(r, k)[q] = r[j]
  BY WithoutFacts
<1>4. PICK i \in 1 .. Len(Without(r, k)) :
          /\ Without(r, k)[i] = r[p]
          /\ \A q \in 1 .. (i - 1) : \E j \in 1 .. (p - 1) : Without(r, k)[q] = r[j]
  BY <1>2, <1>3, Zenon
<1> QED BY <1>1, <1>4, Zenon DEF HeldBehind

\* An entry e put in front of the rest.
Fronted(r, e) == <<e>> \o Without(r, e.key)

\* It is then the first, and the only one with its key.
LEMMA FrontedFacts ==
    ASSUME NEW r \in Seq(Entry), OneEntry(r), NEW e \in Entry
    PROVE  /\ Fronted(r, e) \in Seq(Entry) /\ OneEntry(Fronted(r, e))
           /\ Len(Fronted(r, e)) > 0 /\ Fronted(r, e)[1] = e
           /\ \A i \in 1 .. Len(Fronted(r, e)) :
                 Fronted(r, e)[i] = e \/ \E j \in 1 .. Len(r) : Fronted(r, e)[i] = r[j]
           /\ \A i \in 1 .. Len(Without(r, e.key)) :
                 i + 1 \in 1 .. Len(Fronted(r, e)) /\ Fronted(r, e)[i + 1] = Without(r, e.key)[i]
           /\ \A i \in 2 .. Len(Fronted(r, e)) :
                 i - 1 \in 1 .. Len(Without(r, e.key)) /\ Fronted(r, e)[i] = Without(r, e.key)[i - 1]
<1> DEFINE w == Without(r, e.key)
           f == Fronted(r, e)
<1>1. /\ w \in Seq(Entry) /\ OneEntry(w)
      /\ \A i \in 1 .. Len(w) : w[i].key # e.key /\ \E j \in 1 .. Len(r) : w[i] = r[j]
  BY WithoutFacts
<1>2. f = <<e>> \o w
  BY Zenon DEF Fronted
<1> HIDE DEF w, f
<1>3. f \in Seq(Entry) /\ Len(f) = Len(w) + 1 /\ f[1] = e /\ Len(w) \in Nat
  BY <1>1, <1>2
<1>4. \A i \in 1 .. Len(w) : i + 1 \in 1 .. Len(f) /\ f[i + 1] = w[i]
  BY <1>1, <1>2, <1>3
<1>5. \A i \in 2 .. Len(f) : i - 1 \in 1 .. Len(w) /\ f[i] = w[i - 1]
  BY <1>3, <1>4
<1>6. \A i \in 1 .. Len(f) : i = 1 \/ i \in 2 .. Len(f)
  BY <1>3
<1>7. ASSUME NEW i \in 1 .. Len(f) PROVE f[i] = e \/ \E j \in 1 .. Len(r) : f[i] = r[j]
  <2>1. CASE i = 1
    BY <1>3, <2>1, Zenon
  <2>2. CASE i \in 2 .. Len(f)
    <3>1. i - 1 \in 1 .. Len(w) /\ f[i] = w[i - 1]
      BY <1>5, <2>2, Zenon
    <3> QED BY <1>1, <3>1, Zenon
  <2> QED BY <1>6, <2>1, <2>2, Zenon
<1>8. OneEntry(f)
  <2> SUFFICES ASSUME NEW i \in 1 .. Len(f), NEW j \in 1 .. Len(f), f[i].key = f[j].key
               PROVE  i = j
    BY Zenon DEF OneEntry
  <2>1. CASE i = 1 /\ j = 1
    BY <2>1, Zenon
  <2>2. CASE i = 1 /\ j \in 2 .. Len(f)
    BY <1>1, <1>3, <1>5, <2>2, Zenon
  <2>3. CASE j = 1 /\ i \in 2 .. Len(f)
    BY <1>1, <1>3, <1>5, <2>3, Zenon
  <2>4. CASE i \in 2 .. Len(f) /\ j \in 2 .. Len(f)
    <3>1. /\ i - 1 \in 1 .. Len(w) /\ f[i] = w[i - 1]
          /\ j - 1 \in 1 .. Len(w) /\ f[j] = w[j - 1]
      BY <1>5, <2>4, Zenon
    <3>2. w[i - 1].key = w[j - 1].key
      BY <3>1, Zenon
    <3>3. i - 1 = j - 1
      BY <1>1, <3>1, <3>2, Zenon DEF OneEntry
    <3> QED BY <3>3
  <2> QED BY <1>6, <2>1, <2>2, <2>3, <2>4, Zenon
<1>9. Len(f) > 0
  BY <1>3
<1> QED BY <1>3, <1>4, <1>5, <1>7, <1>8, <1>9, Zenon DEF w, f

\* It pushes the others back by one.
LEMMA FrontedHolds ==
    ASSUME NEW r \in Seq(Entry), OneEntry(r), NEW e \in Entry, NEW key, key # e.key,
           NEW time, NEW keys, HeldBehind(r, key, time, keys)
    PROVE  HeldBehind(Fronted(r, e), key, time, keys \cup {e.key})
<1> DEFINE w == Without(r, e.key)
           f == Fronted(r, e)
<1>1. HeldBehind(w, key, time, keys)
  BY WithoutHolds, Zenon
<1>2. PICK p \in 1 .. Len(w) : /\ w[p].key = key /\ w[p].expires >= time
                               /\ \A q \in 1 .. (p - 1) : w[q].key \in keys
  BY <1>1, Zenon DEF HeldBehind
<1>3. /\ \A i \in 1 .. Len(w) : i + 1 \in 1 .. Len(f) /\ f[i + 1] = w[i]
      /\ \A i \in 2 .. Len(f) : i - 1 \in 1 .. Len(w) /\ f[i] = w[i - 1]
      /\ f[1] = e /\ f \in Seq(Entry)
  BY FrontedFacts, Zenon
<1>4. w \in Seq(Entry)
  BY WithoutFacts, Zenon
<1> HIDE DEF w, f
<1>5. p + 1 \in 1 .. Len(f) /\ f[p + 1].key = key /\ f[p + 1].expires >= time
  BY <1>2, <1>3, Zenon
<1>6. ASSUME NEW q \in 1 .. ((p + 1) - 1) PROVE f[q].key \in keys \cup {e.key}
  <2>1. q = 1 \/ (q \in 2 .. Len(f) /\ q - 1 \in 1 .. (p - 1))
    BY <1>3, <1>5, <1>4
  <2> QED BY <1>2, <1>3, <2>1, Zenon
<1> QED BY <1>5, <1>6, Zenon DEF HeldBehind, f

\* The recorder evicts from the back: an entry that is lost was behind as many keys
\* as the recorder has room for.
Cut(s) == SubSeq(s, 1, IF Len(s) > MaxRecorder THEN MaxRecorder ELSE Len(s))

\* The recorder keeps its first MaxRecorder entries, in their order.
LEMMA CutFacts ==
    ASSUME NEW s \in Seq(Entry), OneEntry(s)
    PROVE  /\ Cut(s) \in Seq(Entry) /\ OneEntry(Cut(s))
           /\ Len(Cut(s)) = IF Len(s) > MaxRecorder THEN MaxRecorder ELSE Len(s)
           /\ \A i \in 1 .. Len(Cut(s)) : i \in 1 .. Len(s) /\ Cut(s)[i] = s[i]
<1> DEFINE n == IF Len(s) > MaxRecorder THEN MaxRecorder ELSE Len(s)
           t == Cut(s)
<1>1. n \in 0 .. Len(s) /\ Len(s) \in Nat
  BY AlertAssumption
<1>2. t = SubSeq(s, 1, n)
  BY Zenon DEF Cut
<1> HIDE DEF n, t
<1>3. t \in Seq(Entry) /\ Len(t) = n
  BY <1>1, <1>2
<1>4. \A i \in 1 .. Len(t) : i \in 1 .. Len(s) /\ t[i] = s[i]
  BY <1>1, <1>2, <1>3
<1>5. OneEntry(t)
  BY <1>4, Zenon DEF OneEntry
<1> QED BY <1>3, <1>4, <1>5, Zenon DEF n, t

\* It evicts an entry only when MaxRecorder other keys came after it.
LEMMA CutHolds ==
    ASSUME NEW s \in Seq(Entry), OneEntry(s), NEW key, NEW time, NEW keys,
           HeldBehind(s, key, time, keys)
    PROVE  HeldBehind(Cut(s), key, time, keys) \/ AtLeast(MaxRecorder, keys)
<1>1. PICK p \in 1 .. Len(s) : /\ s[p].key = key /\ s[p].expires >= time
                               /\ \A q \in 1 .. (p - 1) : s[q].key \in keys
  BY Zenon DEF HeldBehind
<1> DEFINE t == Cut(s)
<1>2. /\ Len(t) = IF Len(s) > MaxRecorder THEN MaxRecorder ELSE Len(s)
      /\ \A i \in 1 .. Len(t) : i \in 1 .. Len(s) /\ t[i] = s[i]
  BY CutFacts, Zenon
<1> HIDE DEF t
<1>3. CASE p \in 1 .. Len(t)
  <2>1. \A q \in 1 .. (p - 1) : q \in 1 .. Len(t)
    BY <1>3, <1>2, AlertAssumption
  <2> QED BY <1>1, <1>2, <1>3, <2>1, Zenon DEF HeldBehind, t
<1>4. CASE p \notin 1 .. Len(t)
  <2>1. \A q \in 1 .. MaxRecorder : q \in 1 .. (p - 1) /\ q \in 1 .. Len(s)
    BY <1>2, <1>4, AlertAssumption
  <2> DEFINE f == [q \in 1 .. MaxRecorder |-> s[q].key]
  <2>2. f \in [1 .. MaxRecorder -> keys]
    BY <1>1, <2>1, Zenon
  <2>3. \A a, b \in 1 .. MaxRecorder : f[a] = f[b] => a = b
    BY <2>1, Zenon DEF OneEntry
  <2> QED BY <2>2, <2>3, Zenon DEF AtLeast
<1> QED BY <1>3, <1>4, Zenon

-----------------------------------------------------------------------------
(* The decisions                                                           *)

\* A decision leaves the earlier ones as they are, and is one more that was handled since.
LEMMA Decided ==
    ASSUME AlertTypes, NEW d \in Handling, handled' = Append(handled, d)
    PROVE  /\ handled' \in Seq(Handling) /\ Len(handled') = Len(handled) + 1
           /\ handled'[Len(handled) + 1] = d /\ Len(handled) \in Nat
           /\ \A i \in 1 .. Len(handled') : i \in 1 .. Len(handled) \/ i = Len(handled) + 1
           /\ \A i \in 1 .. Len(handled) : i \in 1 .. Len(handled') /\ handled'[i] = handled[i]
<1>1. handled \in Seq(Handling) /\ Len(handled) \in Nat
  BY DEF AlertTypes
<1> QED BY <1>1

\* One more decision is one more key handled since an earlier one, unless the key is the
\* same, and changes nothing about what came between two earlier ones.
LEMMA SinceGrows ==
    ASSUME AlertTypes, NEW d \in Handling, handled' = Append(handled, d),
           NEW i \in 1 .. Len(handled)
    PROVE  /\ Since(i)' = Since(i) \cup ({d.key} \ {handled[i].key})
           /\ \A j \in 1 .. (Len(handled) + 1) : OthersBetween(i, j)' = OthersBetween(i, j)
<1> DEFINE n == Len(handled)
<1>1. /\ n \in Nat /\ Len(handled') = n + 1 /\ handled'[n + 1] = d
      /\ \A j \in 1 .. n : handled'[j] = handled[j]
  BY Decided, Zenon
<1>2. Since(i) = {handled[m].key : m \in (i + 1) .. ((n + 1) - 1)} \ {handled[i].key}
  BY Zenon DEF Since, OthersBetween
<1>3. Since(i)' = {handled'[m].key : m \in (i + 1) .. ((Len(handled') + 1) - 1)} \ {handled'[i].key}
  BY Zenon DEF Since, OthersBetween
<1>4. \A j \in 1 .. (n + 1) : \A m \in (i + 1) .. (j - 1) : m \in 1 .. n
  BY <1>1
<1>5. ASSUME NEW j \in 1 .. (n + 1) PROVE OthersBetween(i, j)' = OthersBetween(i, j)
  <2>1. \A m \in (i + 1) .. (j - 1) : handled'[m].key = handled[m].key
    BY <1>1, <1>4, Zenon
  <2>2. handled'[i].key = handled[i].key
    BY <1>1, Zenon
  <2> QED BY <2>1, <2>2, Zenon DEF OthersBetween
<1>6. (Len(handled') + 1) - 1 = n + 1 /\ (n + 1) - 1 = n
  BY <1>1
<1>7. \A m : m \in (i + 1) .. (n + 1) <=> (m \in (i + 1) .. n \/ m = n + 1)
  BY <1>1
<1>8. \A m \in (i + 1) .. n : m \in 1 .. n
  BY <1>1
<1> HIDE DEF n
<1>9. Since(i)' = Since(i) \cup ({d.key} \ {handled[i].key})
  <2>1. Since(i) = {handled[m].key : m \in (i + 1) .. n} \ {handled[i].key}
    BY <1>2, <1>6, Zenon
  <2>2. Since(i)' = {handled'[m].key : m \in (i + 1) .. (n + 1)} \ {handled[i].key}
    BY <1>1, <1>3, <1>6, Zenon DEF n
  <2>3. {handled'[m].key : m \in (i + 1) .. (n + 1)} = {handled[m].key : m \in (i + 1) .. n} \cup {d.key}
    <3>1. ASSUME NEW m \in (i + 1) .. (n + 1)
          PROVE  handled'[m].key \in {handled[l].key : l \in (i + 1) .. n} \cup {d.key}
      BY <1>1, <1>7, <1>8, Zenon
    <3>2. ASSUME NEW m \in (i + 1) .. n
          PROVE  handled[m].key \in {handled'[l].key : l \in (i + 1) .. (n + 1)}
      BY <1>1, <1>7, <1>8, Zenon
    <3>3. d.key \in {handled'[l].key : l \in (i + 1) .. (n + 1)}
      BY <1>1, <1>7, Zenon
    <3> QED BY <3>1, <3>2, <3>3, Zenon
  <2> QED BY <2>1, <2>2, <2>3, Zenon
<1> QED BY <1>5, <1>9, Zenon DEF n

\* A larger set has at least as many elements.
LEMMA AtLeastGrows == ASSUME NEW n, NEW S, NEW T, S \subseteq T, AtLeast(n, S) PROVE AtLeast(n, T)
BY Zenon DEF AtLeast

\* What may have been lost stays so.
LEMMA OverStays ==
    ASSUME AlertTypes, NEW d \in Handling, handled' = Append(handled, d), UNCHANGED clock,
           NEW i \in 1 .. Len(handled), Over(i)
    PROVE  Over(i)'
<1>1. handled'[i] = handled[i] /\ i \in 1 .. Len(handled')
  BY Decided, Zenon
<1>2. Since(i) \subseteq Since(i)'
  BY SinceGrows, Zenon
<1>3. CASE clock > handled[i].at + Window
  BY <1>1, <1>3, Zenon DEF Over
<1>4. CASE AtLeast(MaxRecorder, Since(i))
  BY <1>2, <1>4, AtLeastGrows, Zenon DEF Over
<1> QED BY <1>3, <1>4, Zenon DEF Over

\* One more decision, and what it must satisfy.
LEMMA ThrottledStep ==
    ASSUME AlertTypes, AlertsThrottled, NEW d \in Handling, handled' = Append(handled, d), UNCHANGED package,
           package = "dingtalk" /\ d.told =>
               \A i \in 1 .. Len(handled) :
                   handled[i].told /\ handled[i].key = d.key /\ handled[i].who = d.who =>
                       d.at > handled[i].at + Window \/ AtLeast(MaxRecorder, Since(i)),
           package = "alertmanager" /\ d.told =>
               \E i \in 1 .. Len(handled) :
                   handled[i].key = d.key /\ ~handled[i].told /\ d.at <= handled[i].at + Window
    PROVE  AlertsThrottled'
<1> DEFINE n == Len(handled)
<1>1. /\ n \in Nat /\ Len(handled') = n + 1 /\ handled'[n + 1] = d
      /\ \A j \in 1 .. n : handled'[j] = handled[j]
  BY Decided, Zenon
<1>2. \A i \in 1 .. n : \A j \in 1 .. (n + 1) : OthersBetween(i, j)' = OthersBetween(i, j)
  BY SinceGrows, Zenon
<1>3. ASSUME NEW i \in 1 .. n, NEW j, j = n + 1 PROVE OthersBetween(i, j)' = Since(i)
  <2>1. j \in 1 .. (n + 1)
    BY <1>1, <1>3
  <2> QED BY <1>2, <1>3, <2>1, Zenon DEF Since
<1>4. \A j \in 1 .. (n + 1) : (j = n + 1 \/ j \in 1 .. n) /\ \A i \in 1 .. (j - 1) : i \in 1 .. n
  BY <1>1
<1>5. (n + 1) - 1 = n /\ \A j \in 1 .. n : j \in 1 .. (n + 1)
  BY <1>1
<1> HIDE DEF n
<1>6. SUFFICES ASSUME NEW j \in 1 .. (n + 1)
      PROVE
        /\ \A i \in 1 .. (j - 1) :
            /\ package = "dingtalk" /\ handled'[i].told /\ handled'[j].told
            /\ handled'[i].key = handled'[j].key /\ handled'[i].who = handled'[j].who
            => \/ handled'[j].at > handled'[i].at + Window
               \/ AtLeast(MaxRecorder, OthersBetween(i, j)')
        /\ package = "alertmanager" /\ handled'[j].told =>
            \E i \in 1 .. (j - 1) :
                /\ handled'[i].key = handled'[j].key /\ ~handled'[i].told
                /\ handled'[j].at <= handled'[i].at + Window
  BY <1>1, <1>6, Zenon DEF AlertsThrottled
<1>7. CASE j \in 1 .. n
  <2>1. \A i \in 1 .. (j - 1) : /\ i \in 1 .. n /\ handled'[i] = handled[i]
                                /\ OthersBetween(i, j)' = OthersBetween(i, j)
    BY <1>1, <1>2, <1>4, Zenon
  <2>2. handled'[j] = handled[j]
    BY <1>1, <1>7, Zenon
  <2>3. /\ \A i \in 1 .. (j - 1) :
            /\ package = "dingtalk" /\ handled[i].told /\ handled[j].told
            /\ handled[i].key = handled[j].key /\ handled[i].who = handled[j].who
            => \/ handled[j].at > handled[i].at + Window
               \/ AtLeast(MaxRecorder, OthersBetween(i, j))
        /\ package = "alertmanager" /\ handled[j].told =>
            \E i \in 1 .. (j - 1) :
                /\ handled[i].key = handled[j].key /\ ~handled[i].told
                /\ handled[j].at <= handled[i].at + Window
    BY <1>7, Zenon DEF AlertsThrottled, n
  <2> QED BY <2>1, <2>2, <2>3, Zenon
<1>8. CASE j = n + 1
  <2>1. j - 1 = n /\ handled'[j] = d
    BY <1>1, <1>5, <1>8, Zenon
  <2>2. \A i \in 1 .. n : handled'[i] = handled[i] /\ OthersBetween(i, j)' = Since(i)
    BY <1>1, <1>3, <1>8, Zenon
  <2>3. ASSUME NEW i \in 1 .. (j - 1), package = "dingtalk", handled'[i].told, handled'[j].told,
               handled'[i].key = handled'[j].key, handled'[i].who = handled'[j].who
        PROVE  handled'[j].at > handled'[i].at + Window \/ AtLeast(MaxRecorder, OthersBetween(i, j)')
    <3>1. i \in 1 .. n
      BY <2>1, Zenon
    <3> QED BY <2>1, <2>2, <2>3, <3>1, Zenon DEF n
  <2>4. ASSUME package = "alertmanager", handled'[j].told
        PROVE  \E i \in 1 .. (j - 1) : /\ handled'[i].key = handled'[j].key /\ ~handled'[i].told
                                       /\ handled'[j].at <= handled'[i].at + Window
    <3>1. PICK i \in 1 .. n : handled[i].key = d.key /\ ~handled[i].told /\ d.at <= handled[i].at + Window
      BY <2>1, <2>4, Zenon DEF n
    <3>2. handled'[i] = handled[i] /\ i \in 1 .. (j - 1)
      BY <2>1, <2>2, Zenon
    <3> QED BY <2>1, <3>1, <3>2, Zenon
  <2> QED BY <2>3, <2>4, Zenon
<1> QED BY <1>4, <1>7, <1>8, Zenon

\* The entry of a key that is looked up, or made, is in front.
LEMMA HeldFirst ==
    ASSUME NEW r \in Seq(Entry), Len(r) > 0, NEW time, r[1].expires >= time, NEW keys
    PROVE  HeldBehind(r, r[1].key, time, keys)
<1>1. 1 \in 1 .. Len(r) /\ 1 .. (1 - 1) = {}
  OBVIOUS
<1> QED BY <1>1, Zenon DEF HeldBehind

\* Get of a key that is known brings its entry to the front; of another it takes it out.
LEMMA GetKnown ==
    ASSUME NEW r \in Seq(Entry), OneEntry(r), NEW k, Known(r, k)
    PROVE  \E p \in 1 .. Len(r) : r[p].key = k /\ r[p].expires >= clock /\ RecorderGet(r, k) = Fronted(r, r[p])
<1>1. PICK p \in 1 .. Len(r) : r[p].key = k /\ r[p].expires >= clock
  BY Zenon DEF Known
<1>2. Position(r, k) = p
  BY <1>1, PositionIn, Zenon DEF OneEntry
<1> QED BY <1>1, <1>2, Zenon DEF RecorderGet, Fronted

\* Add puts a fresh entry in front, and may evict the last one.
LEMMA AddIsCut ==
    ASSUME NEW r, NEW k
    PROVE  RecorderAdd(r, k) = Cut(Fronted(r, [key |-> k, expires |-> clock + Window]))
BY Zenon DEF RecorderAdd, Cut, Fronted

\* A decision to pass over an event, or to tell of it, is of the right type.
LEMMA DecisionIn ==
    ASSUME AlertTypes, NEW k \in AlertKeys, NEW who \in Robots, NEW told \in BOOLEAN
    PROVE  /\ Decision(k, who, told) \in Handling
           /\ Decision(k, who, told).key = k /\ Decision(k, who, told).who = who
           /\ (Decision(k, who, told).told <=> told) /\ Decision(k, who, told).at = clock
<1>1. clock \in Nat
  BY Zenon DEF AlertTypes
<1> QED BY <1>1, Zenon DEF Decision, Handling

-----------------------------------------------------------------------------
(* The steps                                                               *)

\* A lookup that finds the key: the event is passed over.
LEMMA FoundStep ==
    ASSUME AlertInv, NEW r \in Robots, NEW k \in AlertKeys, package = "dingtalk", Known(recorder, k),
           recorder' = RecorderGet(recorder, k), handled' = Append(handled, Decision(k, r, FALSE)),
           UNCHANGED <<package, level, clock, robot>>
    PROVE  AlertInv'
<1> DEFINE d == Decision(k, r, FALSE)
<1>1. AlertTypes /\ OneEntry(recorder) /\ DingInv /\ AlertsThrottled /\ recorder \in Seq(Entry) /\ clock \in Nat
  BY Zenon DEF AlertInv, AlertTypes
<1>2. d \in Handling /\ d.key = k /\ ~d.told /\ d.at = clock
  BY <1>1, DecisionIn, Zenon
<1>3. PICK p \in 1 .. Len(recorder) : /\ recorder[p].key = k
                                      /\ RecorderGet(recorder, k) = Fronted(recorder, recorder[p])
  BY <1>1, GetKnown
<1> DEFINE e == recorder[p]
<1>4. e \in Entry /\ recorder' = Fronted(recorder, e) /\ e.key = k
  BY <1>1, <1>3
<1> HIDE DEF d, e
<1>5. recorder' \in Seq(Entry) /\ OneEntry(recorder') /\ Len(recorder') > 0 /\ recorder'[1] = e
  <2>1. /\ Fronted(recorder, e) \in Seq(Entry) /\ OneEntry(Fronted(recorder, e))
        /\ Len(Fronted(recorder, e)) > 0 /\ Fronted(recorder, e)[1] = e
    BY <1>1, <1>4, FrontedFacts, Zenon
  <2> QED BY <1>4, <2>1, Zenon
<1>6. handled' = Append(handled, d)
  BY Zenon DEF d
<1>7. /\ handled' \in Seq(Handling)
      /\ \A i \in 1 .. Len(handled') : i \in 1 .. Len(handled) \/ handled'[i] = d
      /\ \A i \in 1 .. Len(handled) : i \in 1 .. Len(handled') /\ handled'[i] = handled[i]
  BY <1>1, <1>2, <1>6, Decided, Zenon
<1>8. AlertTypes'
  <2>1. \A i \in 1 .. Len(handled') : handled'[i].at <= clock
    <3>1. d.at <= clock
      BY <1>1, <1>2
    <3> QED BY <1>1, <1>7, <3>1, Zenon DEF AlertTypes
  <2> QED BY <1>1, <1>5, <1>7, <2>1, Zenon DEF AlertTypes
<1>9. AlertsThrottled'
  BY <1>1, <1>2, <1>6, ThrottledStep, Zenon
<1>10. \A i \in Told' : i \in Told
  BY <1>2, <1>7, Zenon DEF Told
<1>11. \A i \in Told : Over(i) => Over(i)'
  BY <1>1, <1>2, <1>6, OverStays, Zenon DEF Told
<1>12. ASSUME NEW i \in Told, Held(i) PROVE Held(i)'
  <2>1. /\ i \in 1 .. Len(handled) /\ handled'[i] = handled[i]
        /\ HeldBehind(recorder, handled[i].key, handled[i].at + Window, Since(i))
    BY <1>7, <1>12, Zenon DEF Told, Held
  <2>2. SUFFICES HeldBehind(recorder', handled[i].key, handled[i].at + Window, Since(i)')
    BY <2>1, Zenon DEF Held, HeldBehind
  <2>3. CASE handled[i].key = k
    <3>1. PICK q \in 1 .. Len(recorder) : recorder[q].key = k /\ recorder[q].expires >= handled[i].at + Window
      BY <2>1, <2>3, Zenon DEF HeldBehind
    <3>2. recorder'[1].key = k /\ recorder'[1].expires >= handled[i].at + Window
      BY <1>1, <1>3, <1>5, <3>1, Zenon DEF OneEntry, e
    <3> QED BY <1>5, <2>3, <3>2, HeldFirst, Zenon
  <2>4. CASE handled[i].key # k
    <3>1. Since(i)' = Since(i) \cup {k}
      <4>1. Since(i)' = Since(i) \cup ({d.key} \ {handled[i].key})
        BY <1>1, <1>2, <1>6, <2>1, SinceGrows, Zenon
      <4> QED BY <1>2, <2>4, <4>1, Zenon
    <3>2. HeldBehind(Fronted(recorder, e), handled[i].key, handled[i].at + Window, Since(i) \cup {e.key})
      BY <1>1, <1>4, <2>1, <2>4, FrontedHolds, Zenon
    <3> QED BY <1>4, <3>1, <3>2, Zenon
  <2> QED BY <2>3, <2>4, Zenon
<1>13. \A i \in Told : handled'[i] = handled[i]
  BY <1>7, Zenon DEF Told
<1>14. DingInv'
  BY <1>1, <1>10, <1>11, <1>12, <1>13, Zenon DEF DingInv
<1> QED BY <1>5, <1>8, <1>9, <1>14, Zenon DEF AlertInv

\* A lookup that does not: the sink goes on to tell of the event.
LEMMA MissedStep ==
    ASSUME AlertInv, NEW r \in Robots, NEW k \in AlertKeys, package = "dingtalk", robot[r] = Nobody,
           ~Known(recorder, k), recorder' = RecorderGet(recorder, k), robot' = [robot EXCEPT ![r] = k],
           UNCHANGED <<package, level, clock, handled>>
    PROVE  AlertInv'
<1>1. AlertTypes /\ OneEntry(recorder) /\ DingInv /\ AlertsThrottled /\ recorder \in Seq(Entry) /\ clock \in Nat
  BY Zenon DEF AlertInv, AlertTypes
<1>2. recorder' = Without(recorder, k)
  BY Zenon DEF RecorderGet
<1>3. recorder' \in Seq(Entry) /\ OneEntry(recorder')
  BY <1>1, <1>2, WithoutFacts
<1>4. AlertTypes'
  <2>1. robot' \in [Robots -> AlertKeys \cup {Nobody}]
    BY <1>1, Zenon DEF AlertTypes
  <2> QED BY <1>1, <1>3, <2>1, Zenon DEF AlertTypes
<1>5. AlertsThrottled'
  <2>1. \A i, j : OthersBetween(i, j)' = OthersBetween(i, j)
    BY Zenon DEF OthersBetween
  <2> QED BY <1>1, <2>1, Zenon DEF AlertsThrottled
<1>6. Told' = Told /\ \A i : Over(i)' = Over(i) /\ Since(i)' = Since(i)
  BY Zenon DEF Told, Over, Since, OthersBetween
<1>7. ASSUME NEW i \in Told, handled[i].key = k PROVE Over(i)
  <2>1. SUFFICES ASSUME Held(i) PROVE clock > handled[i].at + Window
    BY <1>1, Zenon DEF DingInv, Over
  <2>2. PICK p \in 1 .. Len(recorder) : recorder[p].key = k /\ recorder[p].expires >= handled[i].at + Window
    BY <1>7, <2>1, Zenon DEF Held, HeldBehind
  <2>3. ~(recorder[p].expires >= clock)
    BY <2>2, Zenon DEF Known
  <2>4. recorder[p].expires \in Nat
    BY <1>1, ElementIn, EntryFields, Zenon
  <2>5. handled[i].at \in Nat
    BY <1>1, <1>7, ElementIn, HandlingFields, Zenon DEF AlertTypes, Told
  <2>6. Window \in Nat
    BY AlertAssumption, Zenon
  <2> QED BY <1>1, <2>2, <2>3, <2>4, <2>5, <2>6, Later, Zenon
<1>8. ASSUME NEW i \in Told, ~Over(i) PROVE Held(i)'
  <2>1. HeldBehind(recorder, handled[i].key, handled[i].at + Window, Since(i)) /\ handled[i].key # k
    BY <1>1, <1>7, <1>8, Zenon DEF DingInv, Held
  <2>2. HeldBehind(Without(recorder, k), handled[i].key, handled[i].at + Window, Since(i))
    BY <1>1, <2>1, WithoutHolds, Zenon
  <2> QED BY <1>2, <1>6, <2>2, Zenon DEF Held
<1>9. ASSUME NEW i \in Told, robot'[handled[i].who] = handled[i].key PROVE Over(i)
  <2>1. CASE handled[i].who = r
    BY <1>1, <1>7, <1>9, <2>1, Zenon DEF AlertTypes
  <2>2. CASE handled[i].who # r
    BY <1>1, <1>9, <2>2, Zenon DEF DingInv, AlertTypes
  <2> QED BY <2>1, <2>2, Zenon
<1>10. DingInv'
  BY <1>1, <1>6, <1>8, <1>9, Zenon DEF DingInv
<1> QED BY <1>3, <1>4, <1>5, <1>10, Zenon DEF AlertInv

\* A DingTalk sink has posted: the event is recorded as told.
LEMMA ToldStep ==
    ASSUME AlertInv, NEW r \in Robots, NEW k \in AlertKeys, package = "dingtalk", robot[r] = k,
           handled' = Append(handled, Decision(k, r, TRUE)), recorder' = RecorderAdd(recorder, k),
           robot' = [robot EXCEPT ![r] = Nobody],
           UNCHANGED <<package, level, clock>>
    PROVE  AlertInv'
<1> DEFINE d == Decision(k, r, TRUE)
           e == [key |-> k, expires |-> clock + Window]
<1>1. /\ AlertTypes /\ OneEntry(recorder) /\ DingInv /\ AlertsThrottled
      /\ recorder \in Seq(Entry) /\ clock \in Nat /\ Window \in Nat /\ Nobody \notin AlertKeys
  BY AlertAssumption, Zenon DEF AlertInv, AlertTypes
<1>2. d \in Handling /\ d.key = k /\ d.told /\ d.at = clock /\ d.who = r
  <2>1. d \in Handling
    BY <1>1, DecisionIn, Zenon
  <2> QED BY <2>1, Zenon DEF Decision
<1>4. e \in Entry /\ e.key = k /\ e.expires = clock + Window
  BY <1>1 DEF Entry
<1>5. recorder' = Cut(Fronted(recorder, e))
  BY AddIsCut, Zenon
<1>6. handled' = Append(handled, d)
  BY Zenon
<1> HIDE DEF d, e
<1> DEFINE f == Fronted(recorder, e)
<1>7. f \in Seq(Entry) /\ OneEntry(f) /\ Len(f) > 0 /\ f[1] = e
  BY <1>1, <1>4, FrontedFacts, Zenon
<1> HIDE DEF f
<1>8. recorder' \in Seq(Entry) /\ OneEntry(recorder') /\ Len(recorder') > 0 /\ recorder'[1] = e
  <2>1. /\ Cut(f) \in Seq(Entry) /\ OneEntry(Cut(f))
        /\ Len(Cut(f)) = IF Len(f) > MaxRecorder THEN MaxRecorder ELSE Len(f)
        /\ \A i \in 1 .. Len(Cut(f)) : Cut(f)[i] = f[i]
    BY <1>7, CutFacts, Zenon
  <2>2. Len(Cut(f)) > 0 /\ 1 \in 1 .. Len(Cut(f))
    BY <1>7, <2>1, AlertAssumption
  <2> QED BY <1>5, <1>7, <2>1, <2>2, Zenon DEF f
<1>9. /\ handled' \in Seq(Handling)
      /\ \A i \in 1 .. Len(handled') : i \in 1 .. Len(handled) \/ handled'[i] = d
      /\ \A i \in 1 .. Len(handled) : i \in 1 .. Len(handled') /\ handled'[i] = handled[i]
  BY <1>1, <1>2, <1>6, Decided, Zenon
<1>10. AlertTypes'
  <2>1. \A i \in 1 .. Len(handled') : handled'[i].at <= clock
    <3>1. d.at <= clock
      BY <1>1, <1>2
    <3> QED BY <1>1, <1>9, <3>1, Zenon DEF AlertTypes
  <2>2. robot' \in [Robots -> AlertKeys \cup {Nobody}]
    BY <1>1, Zenon DEF AlertTypes
  <2> QED BY <1>1, <1>8, <1>9, <2>1, <2>2, Zenon DEF AlertTypes
<1>11. ASSUME NEW i \in 1 .. Len(handled), handled[i].told, handled[i].key = k, handled[i].who = r PROVE Over(i)
  BY <1>1, <1>11, Zenon DEF DingInv, Told
<1>12. AlertsThrottled'
  BY <1>1, <1>2, <1>6, <1>11, ThrottledStep, Zenon DEF Over
<1>13. \A i \in Told' : handled'[i] = d \/ (i \in Told /\ handled'[i] = handled[i])
  BY <1>9, Zenon DEF Told
<1>14. \A i \in Told : Over(i) => Over(i)'
  BY <1>1, <1>2, <1>6, OverStays, Zenon DEF Told
<1>15. ASSUME NEW i \in 1 .. Len(handled'), handled'[i].key = k PROVE Held(i)'
  <2>1. handled'[i] \in Handling /\ handled'[i].at \in Nat /\ handled'[i].at <= clock
    BY <1>9, <1>10, ElementIn, HandlingFields, Zenon DEF AlertTypes
  <2>2. e.expires >= handled'[i].at + Window
    BY <1>1, <1>4, <2>1, SumGrows, Zenon
  <2> QED BY <1>4, <1>8, <1>15, <2>2, HeldFirst, Zenon DEF Held
<1>16. ASSUME NEW i \in Told, Held(i), handled[i].key # k PROVE Over(i)' \/ Held(i)'
  <2>1. /\ i \in 1 .. Len(handled) /\ handled'[i] = handled[i]
        /\ HeldBehind(recorder, handled[i].key, handled[i].at + Window, Since(i))
    BY <1>9, <1>16, Zenon DEF Told, Held
  <2>2. Since(i)' = Since(i) \cup {k}
    <3>1. Since(i)' = Since(i) \cup ({d.key} \ {handled[i].key})
      BY <1>1, <1>2, <1>6, <2>1, SinceGrows, Zenon
    <3> QED BY <1>2, <1>16, <3>1, Zenon
  <2>3. HeldBehind(f, handled[i].key, handled[i].at + Window, Since(i) \cup {e.key})
    BY <1>1, <1>4, <1>16, <2>1, FrontedHolds, Zenon DEF f
  <2>4. \/ HeldBehind(Cut(f), handled[i].key, handled[i].at + Window, Since(i) \cup {k})
        \/ AtLeast(MaxRecorder, Since(i) \cup {k})
    BY <1>4, <1>7, <2>3, CutHolds, Zenon
  <2> QED BY <1>5, <2>1, <2>2, <2>4, Zenon DEF Held, Over, f
<1>17. ASSUME NEW i \in Told' PROVE handled'[i].who \in Robots /\ (Over(i)' \/ Held(i)')
  <2>1. CASE handled'[i] = d
    BY <1>2, <1>15, <1>17, <2>1, Zenon DEF Told
  <2>2. CASE i \in Told /\ handled'[i] = handled[i] /\ handled[i].key = k
    BY <1>1, <1>15, <1>17, <2>2, Zenon DEF Told, DingInv
  <2>3. CASE i \in Told /\ handled'[i] = handled[i] /\ handled[i].key # k
    BY <1>1, <1>14, <1>16, <2>3, Zenon DEF DingInv
  <2> QED BY <1>13, <2>1, <2>2, <2>3, Zenon
<1>18. ASSUME NEW i \in Told', robot'[handled'[i].who] = handled'[i].key PROVE Over(i)'
  <2>1. handled'[i].key # Nobody
    BY <1>1, <1>9, <1>18, ElementIn, HandlingFields, Zenon DEF Told
  <2>2. handled'[i].who # r /\ robot'[handled'[i].who] = robot[handled'[i].who]
    BY <1>1, <1>17, <1>18, <2>1, Zenon DEF AlertTypes
  <2>3. handled'[i] # d
    BY <1>2, <2>2, Zenon
  <2>4. i \in Told /\ handled'[i] = handled[i]
    BY <1>13, <2>3, Zenon
  <2>5. Over(i)
    BY <1>1, <1>18, <2>2, <2>4, Zenon DEF DingInv
  <2> QED BY <1>14, <2>4, <2>5, Zenon
<1>19. DingInv'
  BY <1>17, <1>18, Zenon DEF DingInv
<1> QED BY <1>8, <1>10, <1>12, <1>19, Zenon DEF AlertInv

\* The steps that leave the decisions and the recorder as they are: the clock, and a
\* post that fails.
LEMMA QuietStep ==
    ASSUME AlertInv, UNCHANGED <<package, recorder, handled>>,
           clock' = clock \/ (clock' = clock + 1 /\ robot' = robot),
           robot' = robot \/ \E r \in Robots : robot' = [robot EXCEPT ![r] = Nobody]
    PROVE  AlertInv'
<1>1. /\ AlertTypes /\ OneEntry(recorder) /\ DingInv /\ AlertsThrottled
      /\ recorder \in Seq(Entry) /\ clock \in Nat /\ Nobody \notin AlertKeys
  BY AlertAssumption, Zenon DEF AlertInv, AlertTypes
<1>2. robot' \in [Robots -> AlertKeys \cup {Nobody}] /\ \A r \in Robots : robot'[r] = robot[r] \/ robot'[r] = Nobody
  BY <1>1, Zenon DEF AlertTypes
<1>3. clock' \in Nat /\ clock <= clock'
  BY <1>1
<1>4. \A i \in 1 .. Len(handled) : handled[i].at \in Nat /\ handled[i].key \in AlertKeys
  BY <1>1, ElementIn, HandlingFields, Zenon DEF AlertTypes
<1>5. \A i \in 1 .. Len(handled) : /\ handled[i].at <= clock'
                                   /\ clock > handled[i].at + Window => clock' > handled[i].at + Window
  <2>1. \A i \in 1 .. Len(handled) : handled[i].at <= clock
    BY <1>1, Zenon DEF AlertTypes
  <2> QED BY <1>1, <1>3, <1>4, <2>1, AlertAssumption
<1>6. AlertTypes'
  BY <1>1, <1>2, <1>3, <1>5, Zenon DEF AlertTypes
<1>7. \A i, j : OthersBetween(i, j)' = OthersBetween(i, j)
  BY Zenon DEF OthersBetween
<1>8. AlertsThrottled'
  BY <1>1, <1>7, Zenon DEF AlertsThrottled
<1>9. Told' = Told /\ \A i : Since(i)' = Since(i) /\ (Held(i)' <=> Held(i))
  <2>1. Told' = Told /\ \A i : Since(i)' = Since(i)
    BY Zenon DEF Told, Since, OthersBetween
  <2> QED BY <2>1, Zenon DEF Held, HeldBehind
<1>10. \A i \in Told : Over(i) => Over(i)'
  BY <1>5, <1>9, Zenon DEF Over, Told
<1>11. DingInv'
  <2>1. ASSUME package = "dingtalk", NEW i \in Told
        PROVE  /\ handled[i].who \in Robots /\ (Over(i)' \/ Held(i)')
               /\ robot'[handled[i].who] = handled[i].key => Over(i)'
    <3>1. handled[i].who \in Robots /\ (Over(i)' \/ Held(i)')
      BY <1>1, <1>9, <1>10, <2>1, Zenon DEF DingInv
    <3>2. handled[i].key # Nobody
      BY <1>1, <1>4, Zenon DEF Told
    <3>3. robot'[handled[i].who] = handled[i].key => robot[handled[i].who] = handled[i].key
      BY <1>2, <3>1, <3>2, Zenon
    <3>4. robot[handled[i].who] = handled[i].key => Over(i)
      BY <1>1, <2>1, Zenon DEF DingInv
    <3> QED BY <1>10, <3>1, <3>3, <3>4, Zenon
  <2> QED BY <1>9, <2>1, Zenon DEF DingInv
<1> QED BY <1>1, <1>6, <1>8, <1>11, Zenon DEF AlertInv, PassedOver, OneEntry

\* An event that was passed over has been passed over after one more decision.
LEMMA PassedOverStays ==
    ASSUME AlertTypes, NEW d \in Handling, handled' = Append(handled, d), NEW e, PassedOver(e)
    PROVE  PassedOver(e)'
<1>1. PICK i \in 1 .. Len(handled) : handled[i].key = e.key /\ ~handled[i].told /\ e.expires = handled[i].at + Window
  BY Zenon DEF PassedOver
<1>2. i \in 1 .. Len(handled') /\ handled'[i] = handled[i]
  BY Decided, Zenon
<1> QED BY <1>1, <1>2, Zenon DEF PassedOver

\* An Alertmanager sink meets an event that the recorder does not know: it goes on to
\* record it.
LEMMA FirstStep ==
    ASSUME AlertInv, NEW r \in Robots, NEW k \in AlertKeys, package = "alertmanager", ~Known(recorder, k),
           recorder' = RecorderGet(recorder, k), robot' = [robot EXCEPT ![r] = k],
           UNCHANGED <<package, level, clock, handled>>
    PROVE  AlertInv'
<1>1. /\ AlertTypes /\ OneEntry(recorder) /\ AlertsThrottled /\ recorder \in Seq(Entry)
      /\ \A p \in 1 .. Len(recorder) : PassedOver(recorder[p])
  BY Zenon DEF AlertInv, AlertTypes
<1>2. recorder' = Without(recorder, k)
  BY Zenon DEF RecorderGet
<1>3. /\ recorder' \in Seq(Entry) /\ OneEntry(recorder')
      /\ \A i \in 1 .. Len(recorder') : \E j \in 1 .. Len(recorder) : recorder'[i] = recorder[j]
  BY <1>1, <1>2, WithoutFacts
<1>4. AlertTypes'
  <2>1. robot' \in [Robots -> AlertKeys \cup {Nobody}]
    BY <1>1, Zenon DEF AlertTypes
  <2> QED BY <1>1, <1>3, <2>1, Zenon DEF AlertTypes
<1>5. AlertsThrottled'
  <2>1. \A i, j : OthersBetween(i, j)' = OthersBetween(i, j)
    BY Zenon DEF OthersBetween
  <2> QED BY <1>1, <2>1, Zenon DEF AlertsThrottled
<1>6. ASSUME NEW i \in 1 .. Len(recorder') PROVE PassedOver(recorder[i])'
  BY <1>1, <1>3, Zenon DEF PassedOver
<1> QED BY <1>3, <1>4, <1>5, <1>6, Zenon DEF AlertInv, DingInv

\* It records the event and passes it over, whatever the other sinks recorded meanwhile.
LEMMA PassedOverStep ==
    ASSUME AlertInv, NEW r \in Robots, NEW k \in AlertKeys, package = "alertmanager",
           recorder' = RecorderAdd(recorder, k), robot' = [robot EXCEPT ![r] = Nobody],
           handled' = Append(handled, Decision(k, r, FALSE)),
           UNCHANGED <<package, level, clock>>
    PROVE  AlertInv'
<1> DEFINE d == Decision(k, r, FALSE)
           e == [key |-> k, expires |-> clock + Window]
           f == Fronted(recorder, e)
<1>1. /\ AlertTypes /\ OneEntry(recorder) /\ AlertsThrottled
      /\ recorder \in Seq(Entry) /\ clock \in Nat /\ Window \in Nat
      /\ \A p \in 1 .. Len(recorder) : PassedOver(recorder[p])
  BY AlertAssumption, Zenon DEF AlertInv, AlertTypes
<1>2. d \in Handling /\ d.key = k /\ ~d.told /\ d.at = clock
  <2>1. d \in Handling
    BY <1>1, DecisionIn, Zenon
  <2> QED BY <2>1, Zenon DEF Decision
<1>3. e \in Entry /\ e.key = k /\ e.expires = clock + Window
  BY <1>1 DEF Entry
<1>4. recorder' = Cut(f) /\ handled' = Append(handled, d)
  BY AddIsCut, Zenon
<1> HIDE DEF d, e
<1>5. /\ f \in Seq(Entry) /\ OneEntry(f)
      /\ \A i \in 1 .. Len(f) : f[i] = e \/ \E j \in 1 .. Len(recorder) : f[i] = recorder[j]
  BY <1>1, <1>3, FrontedFacts, Zenon
<1> HIDE DEF f
<1>6. /\ recorder' \in Seq(Entry) /\ OneEntry(recorder')
      /\ \A i \in 1 .. Len(recorder') : i \in 1 .. Len(f) /\ recorder'[i] = f[i]
  <2>1. /\ Cut(f) \in Seq(Entry) /\ OneEntry(Cut(f))
        /\ \A i \in 1 .. Len(Cut(f)) : i \in 1 .. Len(f) /\ Cut(f)[i] = f[i]
    BY <1>5, CutFacts, Zenon
  <2> QED BY <1>4, <2>1, Zenon
<1>7. /\ handled' \in Seq(Handling) /\ Len(handled) + 1 \in 1 .. Len(handled') /\ handled'[Len(handled) + 1] = d
      /\ \A i \in 1 .. Len(handled') : i \in 1 .. Len(handled) \/ handled'[i] = d
      /\ \A i \in 1 .. Len(handled) : i \in 1 .. Len(handled') /\ handled'[i] = handled[i]
  <2>1. /\ handled' \in Seq(Handling) /\ Len(handled') = Len(handled) + 1
        /\ handled'[Len(handled) + 1] = d /\ Len(handled) \in Nat
        /\ \A i \in 1 .. Len(handled') : i \in 1 .. Len(handled) \/ i = Len(handled) + 1
        /\ \A i \in 1 .. Len(handled) : i \in 1 .. Len(handled') /\ handled'[i] = handled[i]
    BY <1>1, <1>2, <1>4, Decided, Zenon
  <2>2. Len(handled) + 1 \in 1 .. Len(handled')
    BY <2>1
  <2> QED BY <2>1, <2>2, Zenon
<1>8. AlertTypes'
  <2>1. \A i \in 1 .. Len(handled') : handled'[i].at <= clock
    <3>1. d.at <= clock
      BY <1>1, <1>2
    <3> QED BY <1>1, <1>7, <3>1, Zenon DEF AlertTypes
  <2>2. robot' \in [Robots -> AlertKeys \cup {Nobody}]
    BY <1>1, Zenon DEF AlertTypes
  <2> QED BY <1>1, <1>6, <1>7, <2>1, <2>2, Zenon DEF AlertTypes
<1>9. AlertsThrottled'
  BY <1>1, <1>2, <1>4, ThrottledStep, Zenon
<1>10. ASSUME NEW p \in 1 .. Len(recorder') PROVE PassedOver(recorder[p])'
  <2>1. CASE recorder'[p] = e
    BY <1>2, <1>3, <1>7, <2>1, Zenon DEF PassedOver
  <2>2. CASE \E j \in 1 .. Len(recorder) : recorder'[p] = recorder[j]
    <3>1. PICK j \in 1 .. Len(recorder) : recorder'[p] = recorder[j]
      BY <2>2, Zenon
    <3>2. PICK x : x = recorder[j]
      BY Zenon
    <3>3. PassedOver(x)'
      BY <1>1, <1>2, <1>4, <3>2, PassedOverStays, Zenon
    <3> QED BY <3>1, <3>2, <3>3, Zenon DEF PassedOver
  <2> QED BY <1>5, <1>6, <2>1, <2>2, Zenon
<1> QED BY <1>6, <1>8, <1>9, <1>10, Zenon DEF AlertInv, DingInv

\* An Alertmanager sink meets an event that the recorder knows: it tells of it, unless
\* it has no message.
LEMMA AgainStep ==
    ASSUME AlertInv, NEW r \in Robots, NEW k \in AlertKeys, package = "alertmanager", Known(recorder, k),
           recorder' = RecorderGet(recorder, k),
           handled' = handled \/ handled' = Append(handled, Decision(k, r, TRUE)),
           UNCHANGED <<package, level, clock, robot>>
    PROVE  AlertInv'
<1> DEFINE d == Decision(k, r, TRUE)
<1>1. /\ AlertTypes /\ OneEntry(recorder) /\ AlertsThrottled
      /\ recorder \in Seq(Entry) /\ clock \in Nat /\ Window \in Nat
      /\ \A p \in 1 .. Len(recorder) : PassedOver(recorder[p])
  BY AlertAssumption, Zenon DEF AlertInv, AlertTypes
<1>2. d \in Handling /\ d.key = k /\ d.told /\ d.at = clock
  <2>1. d \in Handling
    BY <1>1, DecisionIn, Zenon
  <2> QED BY <2>1, Zenon DEF Decision
<1>3. PICK p \in 1 .. Len(recorder) : /\ recorder[p].key = k /\ recorder[p].expires >= clock
                                      /\ RecorderGet(recorder, k) = Fronted(recorder, recorder[p])
  BY <1>1, GetKnown
<1> HIDE DEF d
<1>4. recorder[p] \in Entry
  BY <1>1, ElementIn, Zenon
<1>5. /\ recorder' \in Seq(Entry) /\ OneEntry(recorder')
      /\ \A i \in 1 .. Len(recorder') : \E j \in 1 .. Len(recorder) : recorder'[i] = recorder[j]
  <2> DEFINE f == Fronted(recorder, recorder[p])
  <2>1. /\ f \in Seq(Entry) /\ OneEntry(f)
        /\ \A i \in 1 .. Len(f) : f[i] = recorder[p] \/ \E j \in 1 .. Len(recorder) : f[i] = recorder[j]
    BY <1>1, <1>4, FrontedFacts, Zenon
  <2> HIDE DEF f
  <2>2. recorder' = f
    BY <1>3, Zenon DEF f
  <2> QED BY <2>1, <2>2, Zenon
<1>6. CASE handled' = handled
  <2>1. AlertTypes'
    BY <1>1, <1>5, <1>6, Zenon DEF AlertTypes
  <2>2. \A i, j : OthersBetween(i, j)' = OthersBetween(i, j)
    BY <1>6, Zenon DEF OthersBetween
  <2>3. AlertsThrottled'
    BY <1>1, <1>6, <2>2, Zenon DEF AlertsThrottled
  <2>4. ASSUME NEW i \in 1 .. Len(recorder') PROVE PassedOver(recorder[i])'
    BY <1>1, <1>5, <1>6, Zenon DEF PassedOver
  <2> QED BY <1>5, <2>1, <2>3, <2>4, Zenon DEF AlertInv, DingInv
<1>7. CASE handled' = Append(handled, d)
  <2>1. /\ handled' \in Seq(Handling)
        /\ \A i \in 1 .. Len(handled') : i \in 1 .. Len(handled) \/ handled'[i] = d
        /\ \A i \in 1 .. Len(handled) : i \in 1 .. Len(handled') /\ handled'[i] = handled[i]
    BY <1>1, <1>2, <1>7, Decided, Zenon
  <2>2. AlertTypes'
    <3>1. d.at <= clock
      BY <1>1, <1>2
    <3>2. \A i \in 1 .. Len(handled') : handled'[i].at <= clock
      BY <1>1, <2>1, <3>1, Zenon DEF AlertTypes
    <3> QED BY <1>1, <1>5, <2>1, <3>2, Zenon DEF AlertTypes
  <2>3. PICK i \in 1 .. Len(handled) :
            handled[i].key = k /\ ~handled[i].told /\ recorder[p].expires = handled[i].at + Window
    BY <1>1, <1>3, Zenon DEF PassedOver
  <2>4. d.at <= handled[i].at + Window
    <3>1. recorder[p].expires \in Nat
      BY <1>4, EntryFields, Zenon
    <3> QED BY <1>1, <1>2, <1>3, <2>3, <3>1, Zenon
  <2>5. AlertsThrottled'
    BY <1>1, <1>2, <1>7, <2>3, <2>4, ThrottledStep, Zenon
  <2>6. ASSUME NEW q \in 1 .. Len(recorder') PROVE PassedOver(recorder[q])'
    <3>1. PICK j \in 1 .. Len(recorder) : recorder'[q] = recorder[j]
      BY <1>5, Zenon
    <3>2. PICK x : x = recorder[j]
      BY Zenon
    <3>3. PassedOver(x)'
      BY <1>1, <1>2, <1>7, <3>2, PassedOverStays, Zenon
    <3> QED BY <3>1, <3>2, <3>3, Zenon DEF PassedOver
  <2> QED BY <1>5, <2>2, <2>5, <2>6, Zenon DEF AlertInv, DingInv
<1> QED BY <1>6, <1>7, Zenon DEF d

\* DingTalk sinks that share a recorder do not tell of an event twice within Window,
\* and Alertmanager is told of events that came back within it: for any number of
\* sinks, any capacity of the recorder, any Window and any sequence of events.
THEOREM AlertsAlwaysThrottled == AlertSpec => []AlertsThrottled
<1>1. AlertInit => AlertInv
  <2> SUFFICES ASSUME AlertInit PROVE AlertInv
    BY Zenon
  <2>1. clock = 0 /\ recorder = <<>> /\ handled = <<>> /\ robot = [r \in Robots |-> Nobody]
    BY Zenon DEF AlertInit
  <2>2. AlertTypes
    BY <2>1 DEF AlertTypes
  <2>3. 1 .. Len(recorder) = {} /\ 1 .. Len(handled) = {}
    BY <2>1
  <2> QED BY <2>2, <2>3, Zenon DEF AlertInv, OneEntry, DingInv, Told, AlertsThrottled
<1>2. AlertInv /\ [AlertNext]_alertVars => AlertInv'
  <2> SUFFICES ASSUME AlertInv, [AlertNext]_alertVars PROVE AlertInv'
    BY Zenon
  <2>1. ASSUME NEW r \in Robots, DingtalkExportEvents(r) PROVE AlertInv'
    <3>1. PICK k \in AlertKeys :
              /\ recorder' = RecorderGet(recorder, k)
              /\ IF Known(recorder, k)
                 THEN robot' = robot /\ handled' = Append(handled, Decision(k, r, FALSE))
                 ELSE robot' = [robot EXCEPT ![r] = k] /\ UNCHANGED handled
      BY <2>1, Zenon DEF DingtalkExportEvents
    <3>2. package = "dingtalk" /\ robot[r] = Nobody /\ UNCHANGED <<package, level, clock>>
      BY <2>1, Zenon DEF DingtalkExportEvents
    <3>3. CASE Known(recorder, k)
      BY <3>1, <3>2, <3>3, FoundStep, Zenon
    <3>4. CASE ~Known(recorder, k)
      BY <3>1, <3>2, <3>4, MissedStep, Zenon
    <3> QED BY <3>3, <3>4, Zenon
  <2>2. ASSUME NEW r \in Robots, Ding(r) PROVE AlertInv'
    <3>1. package = "dingtalk" /\ robot[r] # Nobody /\ robot' = [robot EXCEPT ![r] = Nobody]
          /\ UNCHANGED <<package, level, clock>>
      BY <2>2, Zenon DEF Ding
    <3>2. robot[r] \in AlertKeys
      BY <3>1, Zenon DEF AlertInv, AlertTypes
    <3>3. CASE UNCHANGED <<recorder, handled>>
      BY <3>1, <3>3, QuietStep, Zenon
    <3>4. CASE /\ handled' = Append(handled, Decision(robot[r], r, TRUE))
               /\ recorder' = RecorderAdd(recorder, robot[r])
      BY <3>1, <3>2, <3>4, ToldStep, Zenon
    <3> QED BY <2>2, <3>3, <3>4, Zenon DEF Ding
  <2>3. ASSUME NEW r \in Robots, AlertmanagerExportEvents(r) PROVE AlertInv'
    <3>1. PICK k \in AlertKeys :
              /\ recorder' = RecorderGet(recorder, k)
              /\ IF IsFirstAlert(recorder, k)
                 THEN robot' = [robot EXCEPT ![r] = k] /\ UNCHANGED handled
                 ELSE /\ robot' = robot
                      /\ handled' = IF k \in Untitled THEN handled ELSE Append(handled, Decision(k, r, TRUE))
      BY <2>3, Zenon DEF AlertmanagerExportEvents
    <3>2. package = "alertmanager" /\ UNCHANGED <<package, level, clock>>
      BY <2>3, Zenon DEF AlertmanagerExportEvents
    <3>3. CASE ~Known(recorder, k)
      BY <3>1, <3>2, <3>3, FirstStep, Zenon DEF IsFirstAlert
    <3>4. CASE Known(recorder, k)
      BY <3>1, <3>2, <3>4, AgainStep, Zenon DEF IsFirstAlert
    <3> QED BY <3>3, <3>4, Zenon
  <2>4. ASSUME NEW r \in Robots, AlertmanagerAdd(r) PROVE AlertInv'
    <3>1. package = "alertmanager" /\ robot[r] # Nobody /\ robot' = [robot EXCEPT ![r] = Nobody]
          /\ recorder' = RecorderAdd(recorder, robot[r]) /\ handled' = Append(handled, Decision(robot[r], r, FALSE))
          /\ UNCHANGED <<package, level, clock>>
      BY <2>4, Zenon DEF AlertmanagerAdd
    <3>2. robot[r] \in AlertKeys
      BY <3>1, Zenon DEF AlertInv, AlertTypes
    <3> QED BY <3>1, <3>2, PassedOverStep, Zenon
  <2>5. CASE AlertTick
    BY <2>5, QuietStep, Zenon DEF AlertTick
  <2>6. CASE UNCHANGED alertVars
    BY <2>6, QuietStep, Zenon DEF alertVars
  <2> QED BY <2>1, <2>2, <2>3, <2>4, <2>5, <2>6, Zenon DEF AlertNext
<1>3. AlertInv => AlertsThrottled
  BY Zenon DEF AlertInv
<1> QED BY <1>1, <1>2, <1>3, PTL DEF AlertSpec
=============================================================================
