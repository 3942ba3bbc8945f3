--------------------------- MODULE RateCalculator ----------------------------
(***************************************************************************)
(* The rate calculator (metrics/processors/rate_calculator.go), the first  *)
(* processor of every round.  It turns cumulative metrics into rates by    *)
(* comparing a batch with the previous one, which it keeps in the field    *)
(* previousBatch without a lock; every round of the manager shares it.     *)
(*                                                                         *)
(* Batch b is the batch of the b-th round, its Timestamp is b.  A metric   *)
(* set is abstracted to what the calculator compares: when the source read *)
(* it and when the container was created.  A rate is abstracted to the     *)
(* batch it was computed against.  After this processor come others that   *)
(* write to the same batch (the enrichers add metric sets and labels, the  *)
(* aggregators metric values).                                             *)
(***************************************************************************)
EXTENDS Naturals, FiniteSets

CONSTANTS
    RateKeys,       \* keys of metric sets
    Parallelism,    \* the most rounds the manager may be set to run at once
    MaxBatch,       \* bound: the number of rounds
    Absent          \* a batch has no metric set under this key

ASSUME RateAssumption == Parallelism \in Nat /\ MaxBatch \in Nat

Batches == 1 .. MaxBatch

\* What batch b may hold under a key.  A source may report a reading of the
\* round before once more, and a container may have been created anew.
Reading == [scrape : 0 .. MaxBatch, created : {0, 1}]
Readings(b) == {Absent} \cup [scrape : {b - 1, b}, created : {0, 1}]

VARIABLES
    tokens,     \* max_parallelism: the rounds the manager runs at once
    pc,         \* where each round is
    data,       \* the metric sets of each batch
    pending,    \* the keys over which the loop still has to range
    base,       \* the batch each rate was computed against, or 0
    prev,       \* previousBatch, or 0 for nil
    overlapped  \* history: two rounds have been in the calculator at once

rateVars == <<tokens, pc, data, pending, base, prev, overlapped>>

InFlight == {b \in Batches : pc[b] \notin {"none", "done", "lost"}}
Inside == {b \in Batches : pc[b] \in {"first", "compare", "rates"}}

RateInit ==
    /\ tokens \in 1 .. Parallelism
    /\ pc = [b \in Batches |-> "none"]
    /\ data = [b \in Batches |-> [k \in RateKeys |-> Absent]]
    /\ pending = [b \in Batches |-> {}]
    /\ base = [b \in Batches |-> [k \in RateKeys |-> 0]]
    /\ prev = 0
    /\ overlapped = FALSE

Goto(b, from, to) == pc[b] = from /\ pc' = [pc EXCEPT ![b] = to] /\ UNCHANGED tokens

\* The manager starts the rounds in order, as tokens allow.
Begin(b) ==
    /\ Cardinality(InFlight) < tokens
    /\ b > 1 => pc[b - 1] # "none"
    /\ Goto(b, "none", "scrape")
    /\ UNCHANGED <<data, pending, base, prev, overlapped>>

\* A scrape takes any time, so rounds reach the calculator in any order.
Scrape(b) ==
    /\ Goto(b, "scrape", "process")
    /\ \E d \in [RateKeys -> Readings(b)] : data' = [data EXCEPT ![b] = d]
    /\ UNCHANGED <<pending, base, prev, overlapped>>

\* The round gives up waiting for a token, or its scrape fails.
Lose(b) ==
    /\ b > 1 => pc[b - 1] # "none"
    /\ pc[b] \in {"none", "scrape"}
    /\ pc' = [pc EXCEPT ![b] = "lost"]
    /\ UNCHANGED <<tokens, data, pending, base, prev, overlapped>>

\* if this.previousBatch == nil ...
CheckNil(b) ==
    /\ Goto(b, "process", IF prev = 0 THEN "first" ELSE "compare")
    /\ overlapped' = (overlapped \/ Inside # {})
    /\ UNCHANGED <<data, pending, base, prev>>

\* Mutant: the first batch is not kept.
StoreFirstForgotten(b) ==
    /\ Goto(b, "first", "enrich")
    /\ UNCHANGED <<data, pending, base, prev, overlapped>>

\* ... { this.previousBatch = batch; return batch, nil }
StoreFirst(b) ==
    /\ Goto(b, "first", "enrich")
    /\ prev' = b
    /\ UNCHANGED <<data, pending, base, overlapped>>

\* Mutant: a batch that is not newer goes through as well.
CheckTimestampMissing(b) ==
    /\ Goto(b, "compare", "rates")
    /\ pending' = [pending EXCEPT ![b] = {k \in RateKeys : data[b][k] # Absent}]
    /\ UNCHANGED <<data, base, prev, overlapped>>

\* A batch that is not newer is returned as it is.
CheckTimestamp(b) ==
    /\ Goto(b, "compare", IF b > prev THEN "rates" ELSE "enrich")
    /\ pending' = [pending EXCEPT ![b] = IF b > prev THEN {k \in RateKeys : data[b][k] # Absent} ELSE {}]
    /\ UNCHANGED <<data, base, prev, overlapped>>

\* The reading of a key in another batch is one a rate can be based on.
Comparable(new, old) ==
    /\ old # Absent
    /\ new.scrape > old.scrape
    /\ new.created = old.created

\* One iteration over batch.MetricSets: this.previousBatch is read anew.
Rate(b, k) ==
    /\ pc[b] = "rates"
    /\ k \in pending[b]
    /\ pending' = [pending EXCEPT ![b] = @ \ {k}]
    /\ base' = [base EXCEPT ![b][k] =
           IF Comparable(data[b][k], data[prev][k]) THEN prev ELSE 0]
    /\ UNCHANGED <<tokens, pc, data, prev, overlapped>>

\* this.previousBatch = batch
Store(b) ==
    /\ pending[b] = {}
    /\ Goto(b, "rates", "enrich")
    /\ prev' = b
    /\ UNCHANGED <<data, pending, base, overlapped>>

\* The processors after this one write to the batch; then it is exported, or one of
\* them fails and it is dropped.
Enrich(b) ==
    /\ Goto(b, "enrich", "done")
    /\ UNCHANGED <<data, pending, base, prev, overlapped>>

RoundStep(b) ==
    \/ Begin(b) \/ Scrape(b) \/ Lose(b) \/ CheckNil(b) \/ StoreFirst(b) \/ CheckTimestamp(b)
    \/ (\E k \in RateKeys : Rate(b, k))
    \/ Store(b) \/ Enrich(b)

RateNext == \E b \in Batches : RoundStep(b)

RateSpec == RateInit /\ [][RateNext]_rateVars

-----------------------------------------------------------------------------
\* No stretch of time is rated twice: as long as no two rounds were in the calculator
\* at once, the stretches that the rates of a key cover do not overlap, although the
\* rounds may scrape and export side by side, reach the calculator out of order, be
\* lost on the way or report the same reading again.  Usage that went into one rate
\* is in no other.
RatedOnce ==
    ~overlapped =>
        \A a, b \in Batches, k \in RateKeys :
            a < b /\ base[a][k] # 0 /\ base[b][k] # 0 => data[a][k].scrape <= data[base[b][k]][k].scrape

\* With one round at a time a rate is missing only where it has to be: the calculator
\* compares each batch with the last one that went through it before, also when the
\* rounds between the two were lost or the batch before was dropped by a later processor.
RatesComplete ==
    tokens = 1 =>
        \A a, b \in Batches :
            /\ pc[a] = "done" /\ pc[b] = "done" /\ a < b
            /\ \A c \in (a + 1) .. (b - 1) : pc[c] = "lost"
            => \A k \in RateKeys :
                /\ data[b][k] # Absent
                /\ Comparable(data[b][k], data[a][k])
                => base[b][k] = a
=============================================================================
