----------------------------- MODULE AlertSinks ------------------------------
(***************************************************************************)
(* The event sinks that tell people: DingTalk and Alertmanager.  Each      *)
(* package keeps one recorder, a bounded cache of event keys with expiry   *)
(* times, which all sinks of the package share without a lock.  DingTalk   *)
(* stays quiet about a key it has told of a moment ago; Alertmanager tells *)
(* only of keys that it has seen before.                                   *)
(***************************************************************************)
EXTENDS Naturals, Sequences

CONSTANTS
    AlertKeys,      \* what generateKey makes of events
    Ignored,        \* the keys of events whose reason is in ignoreAlerts
    Untitled,       \* the keys of events without a message
    Robots,         \* the sinks that are configured
    MaxRecorder,    \* MAX_RECORDER, scaled down
    Window,         \* how long a key is kept: 5 s and 300 s in the code
    MaxClock,       \* bound: the clock
    MaxHandled,     \* bound: the events handled
    Nobody          \* not a key

ASSUME AlertAssumption ==
    /\ MaxRecorder \in Nat \ {0} /\ Window \in Nat /\ MaxClock \in Nat /\ MaxHandled \in Nat
    /\ Nobody \notin AlertKeys

VARIABLES
    package,    \* which sinks are configured: "dingtalk", "alertmanager" or neither
    level,      \* the configured level of the sinks
    clock,      \* the wall clock
    recorder,   \* the recorder, the most recently used key first
    robot,      \* the key each sink has looked up and not yet recorded, or Nobody
    handled     \* history: the events above the level, in the order of the decisions

alertVars == <<package, level, clock, recorder, robot, handled>>

\* The score of an event's type; a level of zero lets every event through.
GetLevel(type) == IF type = "Warning" THEN 2 ELSE IF type = "Normal" THEN 1 ELSE 0

IsEventLevelDangerous(type) == GetLevel(type) >= level

EventTypes == {"Warning", "Normal"}

-----------------------------------------------------------------------------
\* The recorder (external): Get drops an entry that has expired and moves one
\* that has not to the front; Add evicts the least recently used key.
Position(r, k) == CHOOSE i \in 1 .. Len(r) : r[i].key = k
Without(r, k) ==
    IF \A i \in 1 .. Len(r) : r[i].key # k THEN r
    ELSE [i \in 1 .. (Len(r) - 1) |-> IF i < Position(r, k) THEN r[i] ELSE r[i + 1]]
Known(r, k) == \E i \in 1 .. Len(r) : r[i].key = k /\ r[i].expires >= clock
RecorderGet(r, k) ==
    IF Known(r, k) THEN <<r[Position(r, k)]>> \o Without(r, k) ELSE Without(r, k)

RecorderAdd(r, k) ==
    LET s == <<[key |-> k, expires |-> clock + Window]>> \o Without(r, k)
    IN SubSeq(s, 1, IF Len(s) > MaxRecorder THEN MaxRecorder ELSE Len(s))

Decision(k, who, told) == [key |-> k, who |-> who, told |-> told, at |-> clock]

-----------------------------------------------------------------------------
\* The lookup of ExportEvents: a key that is not in the recorder is a first one.
IsFirstAlert(r, k) == ~Known(r, k)

\* The level is WARNING, or what the option says: an unknown word lets all through.
NewDingTalkSink == package = "dingtalk" /\ level \in {GetLevel(t) : t \in EventTypes \cup {"other"}}
NewAlertmanagerSink == package = "alertmanager" /\ level \in {GetLevel(t) : t \in EventTypes \cup {"other"}}

AlertInit ==
    /\ NewDingTalkSink \/ NewAlertmanagerSink
    /\ clock = 0 /\ recorder = <<>> /\ handled = <<>>
    /\ robot = [r \in Robots |-> Nobody]

\* A DingTalk sink meets an event: a key that the recorder knows is passed over.
DingtalkExportEvents(r) ==
    /\ package = "dingtalk" /\ robot[r] = Nobody /\ Len(handled) < MaxHandled
    /\ \E k \in AlertKeys, type \in EventTypes :
          /\ IsEventLevelDangerous(type)
          /\ recorder' = RecorderGet(recorder, k)
          /\ IF Known(recorder, k)
             THEN robot' = robot /\ handled' = Append(handled, Decision(k, r, FALSE))
             ELSE robot' = [robot EXCEPT ![r] = k] /\ UNCHANGED handled
    /\ UNCHANGED <<package, level, clock>>

\* Mutant: the key is not recorded.
DingForgets(r) ==
    /\ package = "dingtalk" /\ robot[r] # Nobody
    /\ robot' = [robot EXCEPT ![r] = Nobody]
    /\ \/ UNCHANGED <<recorder, handled>>
       \/ /\ Len(handled) < MaxHandled
          /\ handled' = Append(handled, Decision(robot[r], r, TRUE))
          /\ UNCHANGED recorder
    /\ UNCHANGED <<package, level, clock>>

\* Ding: the post fails, or succeeds and is recorded.
Ding(r) ==
    /\ package = "dingtalk" /\ robot[r] # Nobody
    /\ robot' = [robot EXCEPT ![r] = Nobody]
    /\ \/ UNCHANGED <<recorder, handled>>
       \/ /\ Len(handled) < MaxHandled
          /\ handled' = Append(handled, Decision(robot[r], r, TRUE))
          /\ recorder' = RecorderAdd(recorder, robot[r])
    /\ UNCHANGED <<package, level, clock>>

\* An Alertmanager sink meets an event of a batch.  What is told is told in one post
\* at the end of the batch, whose failure is only logged.
AlertmanagerExportEvents(r) ==
    /\ package = "alertmanager" /\ robot[r] = Nobody /\ Len(handled) < MaxHandled
    /\ \E k \in AlertKeys \ Ignored, type \in EventTypes :
          /\ IsEventLevelDangerous(type)
          /\ recorder' = RecorderGet(recorder, k)
          /\ IF IsFirstAlert(recorder, k)
             THEN robot' = [robot EXCEPT ![r] = k] /\ UNCHANGED handled
             ELSE /\ robot' = robot
                  /\ handled' = IF k \in Untitled THEN handled ELSE Append(handled, Decision(k, r, TRUE))
    /\ UNCHANGED <<package, level, clock>>

\* "skip send alert": the first event is recorded and passed over.
AlertmanagerAdd(r) ==
    /\ package = "alertmanager" /\ robot[r] # Nobody /\ Len(handled) < MaxHandled
    /\ robot' = [robot EXCEPT ![r] = Nobody]
    /\ recorder' = RecorderAdd(recorder, robot[r])
    /\ handled' = Append(handled, Decision(robot[r], r, FALSE))
    /\ UNCHANGED <<package, level, clock>>

AlertTick ==
    /\ clock < MaxClock
    /\ clock' = clock + 1
    /\ UNCHANGED <<package, level, recorder, robot, handled>>

AlertNext ==
    \/ \E r \in Robots : DingtalkExportEvents(r) \/ Ding(r) \/ AlertmanagerExportEvents(r) \/ AlertmanagerAdd(r)
    \/ AlertTick

AlertSpec == AlertInit /\ [][AlertNext]_alertVars

-----------------------------------------------------------------------------
\* The keys, other than that of decision i, handled between decisions i and j.
OthersBetween(i, j) == {handled[m].key : m \in (i + 1) .. (j - 1)} \ {handled[i].key}

\* S has n elements or more.
AtLeast(n, S) == \E f \in [1 .. n -> S] : \A a, b \in 1 .. n : f[a] = f[b] => a = b

\* A DingTalk sink tells of the same event again only after its entry has expired,
\* however the sinks that share the recorder take turns, unless so many other
\* events came in between that the recorder lost the entry.  Alertmanager is told
\* of an event only when the same event was passed over at most Window earlier: an
\* event that does not come back is never told.
AlertsThrottled ==
    \A j \in 1 .. Len(handled) :
        /\ \A i \in 1 .. (j - 1) :
            /\ package = "dingtalk" /\ handled[i].told /\ handled[j].told
            /\ handled[i].key = handled[j].key /\ handled[i].who = handled[j].who
            => \/ handled[j].at > handled[i].at + Window
               \/ AtLeast(MaxRecorder, OthersBetween(i, j))
        /\ package = "alertmanager" /\ handled[j].told =>
            \E i \in 1 .. (j - 1) :
                /\ handled[i].key = handled[j].key /\ ~handled[i].told
                /\ handled[j].at <= handled[i].at + Window
=============================================================================
