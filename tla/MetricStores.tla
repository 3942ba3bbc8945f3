----------------------------- MODULE MetricStores -----------------------------
(***************************************************************************)
(* The two stores of the metric sink (metrics/sinks/metric/metric_sink.go):*)
(* a short store of whole batches and a long store of a few metrics, both  *)
(* pruned and extended by every ExportData.                                *)
(*                                                                         *)
(* A batch is its timestamp, a multiple of Resolution.  Batches come in    *)
(* any order, for rounds overlap, and at any distance from their           *)
(* timestamps.                                                             *)
(***************************************************************************)
EXTENDS Integers, Sequences, Functions

CONSTANTS
    ShortStoreDuration, LongStoreDuration,
    Resolution,     \* distance between the timestamps of batches
    MaxTime         \* bound: the clock stops here

Timestamps == {t \in 1 .. MaxTime : t % Resolution = 0}

ASSUME DurationsAssumption ==
    /\ ShortStoreDuration \in Nat /\ LongStoreDuration \in Nat /\ MaxTime \in Nat
    /\ Resolution \in Nat \ {0}

VARIABLES
    now,        \* the wall clock
    shortStore, \* the timestamps of the batches in the short store
    longStore,  \* the timestamps in the long store
    exports     \* history: the exports, as <<batch, time>>

storeVars == <<shortStore, longStore, exports>>

StoresInit ==
    /\ now = 0
    /\ shortStore = << >>
    /\ longStore = << >>
    /\ exports = << >>

\* Mutant: what is exactly at the cutoff is kept.
PopOldInclusive(store, cutoff) == SelectSeq(store, LAMBDA t : t >= cutoff)

\* popOld and popOldStore: keep what is strictly after the cutoff.
PopOld(store, cutoff) ==
    LET result[i \in 0 .. Len(store)] ==
            IF i = 0 THEN << >>
            ELSE IF store[i] > cutoff THEN Append(result[i - 1], store[i]) ELSE result[i - 1]
    IN  result[Len(store)]

\* Mutant: each store is pruned by the duration of the other.
ExportDataSwapped(t) ==
    /\ t <= now
    /\ \A i \in DOMAIN exports : exports[i][1] # t
    /\ longStore' = Append(PopOld(longStore, now - ShortStoreDuration), t)
    /\ shortStore' = Append(PopOld(shortStore, now - LongStoreDuration), t)
    /\ exports' = Append(exports, <<t, now>>)
    /\ UNCHANGED now

\* ExportData prunes both stores and appends the batch to them; each batch is
\* exported once, as the sink manager is a lossy fan-out (Pipeline!FansOut).
ExportData(t) ==
    /\ t <= now
    /\ \A i \in DOMAIN exports : exports[i][1] # t
    /\ longStore' = Append(PopOld(longStore, now - LongStoreDuration), t)
    /\ shortStore' = Append(PopOld(shortStore, now - ShortStoreDuration), t)
    /\ exports' = Append(exports, <<t, now>>)
    /\ UNCHANGED now

Tick ==
    /\ now < MaxTime
    /\ now' = now + 1
    /\ UNCHANGED <<shortStore, longStore, exports>>

\* The stores by themselves.
StoresNext == Tick \/ \E t \in Timestamps : ExportData(t)
StoresSpec == StoresInit /\ [][StoresNext]_<<now, storeVars>>

-----------------------------------------------------------------------------
\* Of the batches exported, those that a store of the given duration is to
\* hold: they were not yet too old at any later export.
Retained(duration) ==
    {exports[i][1] : i \in {n \in DOMAIN exports :
        \A j \in DOMAIN exports : j > n => exports[n][1] > exports[j][2] - duration}}

\* Each store holds every batch within its duration and nothing else, once,
\* whatever order the batches came in.
RetentionExact ==
    /\ Range(shortStore) = Retained(ShortStoreDuration)
    /\ Range(longStore) = Retained(LongStoreDuration)
    /\ IsInjective(shortStore) /\ IsInjective(longStore)
===============================================================================
