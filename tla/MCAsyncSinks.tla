---------------------------- MODULE MCAsyncSinks -----------------------------
(***************************************************************************)
(* The two sinks that send a batch in goroutines of their own: InfluxDB,   *)
(* which waits for them (module InfluxdbSink), and Stackdriver, which does *)
(* not (module StackdriverSink).  They share nothing: each behaviour is    *)
(* one of one of them.                                                     *)
(***************************************************************************)
EXTENDS InfluxdbSink, StackdriverSink

VARIABLE sink   \* "influxdb" or "stackdriver": the sink that is used

MCInit ==
    /\ SdInit
    /\ \/ sink = "influxdb" /\ Init
       \/ sink = "stackdriver" /\ Init /\ capacity = 1 /\ ~client

MCNext ==
    /\ UNCHANGED sink
    /\ \/ sink = "influxdb" /\ Next /\ UNCHANGED sdVars
       \/ sink = "stackdriver" /\ SdNext /\ UNCHANGED vars

MCSpec == MCInit /\ [][MCNext]_<<sink, vars, sdVars>> /\ Fairness /\ SdFairness

=============================================================================
