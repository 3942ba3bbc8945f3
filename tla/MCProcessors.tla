---------------------------- MODULE MCProcessors -----------------------------
(***************************************************************************)
(* The processors of a round: the enrichers and aggregators on one batch   *)
(* (module Processors), or the rate calculator, which goes before them, on *)
(* the batches of several rounds (module RateCalculator).                  *)
(*                                                                         *)
(* Two pods of two namespaces on one node.  The first declares two         *)
(* containers and may be reported with one, with both or with neither; the *)
(* second declares one and may be reported with one that its spec no longer*)
(* has.  All figures are distinct powers of two, so that no two sums are   *)
(* equal by accident.                                                      *)
(***************************************************************************)
EXTENDS Processors, RateCalculator, TLC

VARIABLE part   \* "enrichers" or "rates": which of the two is looked at

p1 == <<"ns1", "p1">>
p2 == <<"ns2", "p2">>
ThePods == {p1, p2}
TheReportable == {<<p1, "a">>, <<p1, "b">>, <<p2, "old">>}
TheDeclared == {<<p1, "a">>, <<p1, "b">>, <<p2, "a">>}
TheRequest == (<<p1, "a">> :> 1) @@ (<<p1, "b">> :> 2) @@ (<<p2, "a">> :> 4)
TheUsage ==
    (ContainerKey(<<p1, "a">>) :> 1) @@ (ContainerKey(<<p1, "b">>) :> 2)
        @@ (ContainerKey(<<p2, "old">>) :> 4) @@ (PodKey(p1) :> 8) @@ (PodKey(p2) :> 16)
        @@ (NodeKey :> 32)

Idle ==
    /\ stage = "off" /\ todo = {} /\ batch = NoSets /\ made = NoSets /\ required = {}
    /\ podLister = {} /\ changed = {} /\ allocatable = None /\ ratio = NoSet
    /\ reported = NoSets

\* Bound: what a node can allocate matters to the last processor only, and is varied
\* only when every set that is reported comes with its usage.
FewNodes == allocatable # None => \A k \in Keys : Has(batch, k) => batch[k].values["usage"] # None

MCInit ==
    /\ RateInit
    /\ \/ part = "enrichers" /\ tokens = 1 /\ Init /\ FewNodes
       \/ part = "rates" /\ Idle

RoundsDone == (\A b \in Batches : pc[b] \in {"done", "lost"}) /\ UNCHANGED rateVars

MCNext ==
    /\ UNCHANGED part
    /\ \/ part = "enrichers" /\ Next /\ UNCHANGED rateVars
       \/ part = "rates" /\ (RateNext \/ RoundsDone) /\ UNCHANGED vars

MCSpec == MCInit /\ [][MCNext]_<<part, rateVars, vars>>

=============================================================================
