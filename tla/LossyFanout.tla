----------------------------- MODULE LossyFanout -----------------------------
(***************************************************************************)
(* What the sink manager promises the rest of heapster: a batch is offered *)
(* once to every sink; a sink is given it at most once, never while it is  *)
(* busy with an earlier batch and never after it was stopped; what is not  *)
(* taken is lost and not retried; a call ends when the fate of its batch   *)
(* is settled at every sink.                                               *)
(***************************************************************************)
EXTENDS Sequences

CONSTANTS Sinks, Calls

VARIABLES
    begun,      \* the calls made so far
    ended,      \* those that have returned
    pending,    \* the pairs <<c, s>> whose fate is open
    log,        \* the batches each sink was given, in order
    busy,       \* the sinks writing a batch
    stopped     \* the sinks told to stop

vars == <<begun, ended, pending, log, busy, stopped>>

Init ==
    /\ begun = {} /\ ended = {} /\ pending = {}
    /\ log = [s \in Sinks |-> << >>]
    /\ busy = {} /\ stopped = {}

Begin(c) ==
    /\ c \notin begun
    /\ begun' = begun \cup {c}
    /\ pending' = pending \cup ({c} \X Sinks)
    /\ UNCHANGED <<ended, log, busy, stopped>>

Deliver(c, s) ==
    /\ <<c, s>> \in pending
    /\ s \notin busy \cup stopped
    /\ pending' = pending \ {<<c, s>>}
    /\ log' = [log EXCEPT ![s] = Append(@, c)]
    /\ busy' = busy \cup {s}
    /\ UNCHANGED <<begun, ended, stopped>>

Lose(c, s) ==
    /\ <<c, s>> \in pending
    /\ pending' = pending \ {<<c, s>>}
    /\ UNCHANGED <<begun, ended, log, busy, stopped>>

End(c) ==
    /\ c \in begun \ ended
    /\ \A s \in Sinks : <<c, s>> \notin pending
    /\ ended' = ended \cup {c}
    /\ UNCHANGED <<begun, pending, log, busy, stopped>>

Finish(s) ==
    /\ s \in busy
    /\ busy' = busy \ {s}
    /\ UNCHANGED <<begun, ended, pending, log, stopped>>

Halt(s) ==
    /\ s \notin busy \cup stopped
    /\ stopped' = stopped \cup {s}
    /\ UNCHANGED <<begun, ended, pending, log, busy>>

Next ==
    \/ \E c \in Calls : Begin(c) \/ End(c)
    \/ \E c \in Calls, s \in Sinks : Deliver(c, s) \/ Lose(c, s)
    \/ \E s \in Sinks : Finish(s) \/ Halt(s)

Spec == Init /\ [][Next]_vars
=============================================================================
