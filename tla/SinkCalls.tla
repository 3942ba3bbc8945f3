------------------------------ MODULE SinkCalls ------------------------------
(***************************************************************************)
(* What the sinks that push a batch through one client have in common.     *)
(* Such a sink works in one goroutine (the sink manager calls ExportData   *)
(* and Stop of a sink one after the other), so an operation of a sink is a *)
(* function from the sink's state before it to the state after it.         *)
(*                                                                         *)
(* What the servers answer is an input: "faults" says which calls of the   *)
(* operation fail, and how.  Every call goes through the client; one that  *)
(* is nil ends the process.  A point of a batch is its position in the     *)
(* order in which the sink meets the points.                               *)
(***************************************************************************)
EXTENDS Naturals, Integers, Sequences, SequencesExt, FiniteSets

CONSTANTS
    MaxBatch,   \* the fixed batch sizes of the code (1000 or 200), scaled down
    MaxCalls    \* bound: the calls of one operation that may fail

\* An option that is present and cannot be parsed.
NotANumber == -9
Bad == "bad"

\* The state of a sink.
NoSink ==
    [conf     |-> "none",   \* the configuration it was created with
     client   |-> FALSE,    \* the client or connection is there (not nil)
     broken   |-> FALSE,    \* the connection no longer reaches the server
     ready    |-> FALSE,    \* dbExists or registered
     server   |-> {},       \* what the sink has created on the server
     hand     |-> <<>>,     \* the points collected for the next message
     calls    |-> <<>>,     \* the calls of the operation under way, in order
     done     |-> FALSE,    \* the operation has returned early
     panicked |-> FALSE]    \* a nil pointer was used, and the process has ended

\* A sink at the beginning of an operation.
Fresh(s) == [s EXCEPT !.hand = <<>>, !.calls = <<>>, !.done = FALSE]

\* The faults of one operation: the calls that fail, at most two of them or all
\* from some call on, and which of the sink's peculiar ways to fail they take.
Faults(ways) ==
    [at : {a \in SUBSET (1 .. MaxCalls) : Cardinality(a) <= 2} \cup {k .. 4 * MaxCalls : k \in 1 .. MaxCalls},
     how : SUBSET ways]

NoFaults == [at |-> {}, how |-> {}]

\* The answer to the last call was no error.
Ok(s) == ~s.panicked /\ s.calls[Len(s.calls)].ok

\* One call to the server; through a nil client it is the end of the process.
Called(s, op, points, ok) ==
    IF s.panicked THEN s ELSE [s EXCEPT !.calls = Append(@, [op |-> op, points |-> points, ok |-> ok])]
Call(s, op, points, f) ==
    IF s.client THEN Called(s, op, points, Len(s.calls) + 1 \notin f.at) ELSE [s EXCEPT !.panicked = TRUE]

\* A write to a connection: once one has failed, all fail until a new connection.
Write(s, points, f) ==
    LET t == Call(s, "data", points, IF s.broken THEN [f EXCEPT !.at = @ \cup {Len(s.calls) + 1}] ELSE f)
    IN [t EXCEPT !.broken = ~Ok(t)]

\* The call that fills the client field, or leaves it nil.
Dial(s, f) ==
    LET t == Called(s, "connect", <<>>, Len(s.calls) + 1 \notin f.at)
    IN [t EXCEPT !.client = Ok(t), !.broken = FALSE]

\* The message in hand is sent and a new one begun.
SendHand(s, f) == [Call(s, "data", s.hand, f) EXCEPT !.hand = <<>>]

Collect(s, p) == [s EXCEPT !.hand = Append(@, p)]

\* The positions of the points of a kind in kinds.
Points(b, kinds) == SelectSeq([i \in 1 .. Len(b) |-> i], LAMBDA i : b[i] \in kinds)

\* A sink that could not be created, and one that could.
Refused == [err |-> TRUE, sink |-> NoSink]
Created(s, conf) == [err |-> FALSE, sink |-> [Fresh(s) EXCEPT !.conf = conf]]
=============================================================================
