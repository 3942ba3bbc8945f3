------------------------ MODULE ProcessorStepsProofs -------------------------
(***************************************************************************)
(* The invariant of the enrichers and aggregators, for any pods, containers *)
(* and namespaces, any batch reported of them and any figures, and that    *)
(* each of their steps preserves it.                                       *)
(***************************************************************************)
EXTENDS Processors, TLAPS

Containers == Reportable \cup Declared
Namespaces == {p[1] : p \in Pods}
NsKey(n) == <<"namespace", n>>
MetricSet == [values : [Metrics -> Nat \cup {None}], node : BOOLEAN, uid : BOOLEAN]
Sets == [Keys -> MetricSet \cup {NoSet}]
Summed == {"usage", "request"}

\* The metric under a key, None if there is none; and its value, zero for None.
Figure(sets, k, m) == IF Has(sets, k) THEN sets[k].values[m] ELSE None
Value(sets, k, m) == IF Figure(sets, k, m) = None THEN 0 ELSE Figure(sets, k, m)

ContainerValues(m) == [c \in Containers |-> Value(batch, ContainerKey(c), m)]
PodValues(m) == [p \in Pods |-> Value(batch, PodKey(p), m)]
NamespaceValues(m) == [n \in Namespaces |-> Value(batch, NsKey(n), m)]

Early == {"podEnricher", "namespaceEnricher"}
Late == {"namespaceAggregator", "nodeAggregator", "clusterAggregator", "autoscalingEnricher", "done"}
Stages == Early \cup {"podAggregator"} \cup Late

\* What a processor ranges over.
RangeOf(s) == CASE s = "podEnricher" -> {"pod", "container"}
                [] s = "podAggregator" -> {"container"}
                [] s \in {"namespaceAggregator", "nodeAggregator"} -> {"pod"}
                [] s = "clusterAggregator" -> {"namespace"}
                [] OTHER -> {}

ProcTypes ==
    /\ stage \in Stages
    /\ batch \in Sets /\ made \in Sets /\ reported \in Sets
    /\ todo \subseteq KeysOf(batch, RangeOf(stage))
    /\ required \subseteq {PodKey(p) : p \in Pods} \X Metrics
    /\ podLister \subseteq Pods /\ changed \subseteq Pods

\* What a source reports, and what of it stays in the batch.
ReportedInv ==
    /\ \A k \in Keys : Has(reported, k) =>
          k \in ScrapedKeys /\ reported[k].values["usage"] \in {None, Usage[k]}
    /\ \A k \in KeysOf(reported, {"pod", "container"}) : Has(batch, k)
    /\ stage = "podEnricher" => \A k \in Keys : Has(batch, k) => Has(reported, k)
    /\ \A c \in Containers : LET k == ContainerKey(c) IN
          /\ Figure(batch, k, "usage") = Figure(reported, k, "usage")
          /\ Figure(made, k, "usage") = None
          /\ Has(made, k) => stage = "podEnricher" /\ ~Has(batch, k)
    /\ stage = "namespaceEnricher" => made = NoSets

\* Until the pods are aggregated they have what was reported of them.
PodsEarly ==
    stage \in Early =>
        /\ required = {}
        /\ \A p \in Pods : LET k == PodKey(p) IN
              /\ Figure(batch, k, "usage") = Figure(reported, k, "usage")
              /\ Figure(batch, k, "request") = None
              /\ Has(made, k) => ~Has(batch, k)
              /\ \A m \in Summed : Figure(made, k, m) = None

Own(p, m) == m = "usage" /\ Used(PodKey(p))
PodTotal(p, m, D) ==
    IF Own(p, m) THEN Usage[PodKey(p)] ELSE SumFunctionOnSet(ContainerValues(m), D)
ContainersOfPod(p) == {c \in Containers : c[1] = p}
PodsOf(n) == {p \in Pods : p[1] = n}

PodSet(p) == IF Has(batch, PodKey(p)) THEN batch ELSE made

PodsAggregated ==
    /\ stage = "podAggregator" => \A p \in Pods : \A m \in Summed :
          LET k == PodKey(p) IN
          /\ Has(made, k) => ~Has(batch, k)
          /\ Value(PodSet(p), k, m) = PodTotal(p, m, {c \in ContainersOfPod(p) : ContainerKey(c) \notin todo})
          /\ IF Own(p, m) THEN Has(batch, k) /\ batch[k].values[m] # None /\ <<k, m>> \notin required
             ELSE Figure(PodSet(p), k, m) # None => <<k, m>> \in required
    /\ stage \in Late => \A p \in Pods : \A m \in Summed :
          Value(batch, PodKey(p), m) = PodTotal(p, m, ContainersOfPod(p))

NamespacesAggregated ==
    /\ stage \in Early \cup {"podAggregator", "namespaceAggregator"} =>
          \A n \in Namespaces : ~Has(batch, NsKey(n))
    /\ stage # "namespaceAggregator" => \A n \in Namespaces : ~Has(made, NsKey(n))
    /\ stage = "namespaceAggregator" => \A n \in Namespaces : \A m \in Summed :
          Value(made, NsKey(n), m) =
              SumFunctionOnSet(PodValues(m), {p \in PodsOf(n) : PodKey(p) \notin todo})
    /\ stage \in Late \ {"namespaceAggregator"} => \A n \in Namespaces : \A m \in Summed :
          Value(batch, NsKey(n), m) = SumFunctionOnSet(PodValues(m), PodsOf(n))

ClusterAggregated ==
    /\ stage # "clusterAggregator" => ~Has(made, ClusterKey)
    /\ stage \in Late => \A p \in Pods : ~Has(made, PodKey(p))
    /\ stage = "clusterAggregator" => \A m \in Summed :
          Value(made, ClusterKey, m) =
              SumFunctionOnSet(NamespaceValues(m), {n \in Namespaces : NsKey(n) \notin todo})
    /\ stage \in {"autoscalingEnricher", "done"} =>
          /\ Has(batch, ClusterKey)
          /\ \A m \in Summed : Value(batch, ClusterKey, m) =
                SumFunctionOnSet(NamespaceValues(m), Namespaces)

\* The requests
RequestsInv ==
    /\ \A c \in Containers : LET k == ContainerKey(c) IN
          /\ \A sets \in {batch, made} : Figure(sets, k, "request") # None =>
                /\ c \in Declared
                /\ Figure(sets, k, "request") = Request[c]
                /\ Seen(c[1]) /\ c[1] \in podLister \cup changed
          /\ Has(made, k) => Figure(made, k, "request") # None
    /\ stage = "podEnricher" => \A c \in Declared : c[1] \in podLister \ changed =>
          LET k == ContainerKey(c)
              pod == PodKey(c[1]) IN
          /\ Has(batch, k) /\ k \notin todo => Figure(batch, k, "request") # None
          /\ Has(made, pod) \/ (Has(batch, pod) /\ pod \notin todo) => Has(batch, k) \/ Has(made, k)
    /\ stage = "podEnricher" => \A c \in Containers :
          c[1] \in podLister \ changed /\ Has(batch, ContainerKey(c)) /\ ContainerKey(c) \notin todo =>
          Has(batch, PodKey(c[1])) \/ Has(made, PodKey(c[1]))
    /\ stage = "podEnricher" => \A p \in Pods : Has(made, PodKey(p)) => Seen(p)
    /\ stage # "podEnricher" => \A c \in Declared :
          c[1] \in podLister \ changed /\ Seen(c[1]) =>
          Figure(batch, ContainerKey(c), "request") # None

ProcInv == ProcTypes /\ ReportedInv /\ PodsEarly /\ PodsAggregated /\ NamespacesAggregated /\ ClusterAggregated /\ RequestsInv

\* What the steps need of sums: a sum of zeros is zero, and one element more adds
\* its value.  SumLawsHold in ProcessorsProofs proves it.
SumLaws ==
    \A s, f : s \subseteq Containers \/ s \subseteq Pods \/ s \subseteq Namespaces =>
        /\ (\A y \in s : f[y] = 0) => SumFunctionOnSet(f, s) = 0
        /\ \A x : x \notin s /\ (\A y \in s \cup {x} : f[y] \in Int) =>
              SumFunctionOnSet(f, s \cup {x}) = f[x] + SumFunctionOnSet(f, s)

-----------------------------------------------------------------------------
\* The keys and their kinds.
LEMMA KeyKinds ==
    /\ \A c \in Containers : ContainerKey(c) \in Keys /\ ContainerKey(c)[1] = "container"
                                /\ PodOf(ContainerKey(c)) = c[1]
    /\ \A p \in Pods : PodKey(p) \in Keys /\ PodKey(p)[1] = "pod" /\ PodOf(PodKey(p)) = p
    /\ \A n \in Namespaces : NsKey(n) \in Keys /\ NsKey(n)[1] = "namespace"
    /\ NodeKey \in Keys /\ NodeKey[1] = "node"
    /\ ClusterKey \in Keys /\ ClusterKey[1] = "cluster"
  BY Zenon DEF Containers, Namespaces, Keys, ScrapedKeys, ContainerKey, PodKey, NsKey, NamespaceKey,
         NodeKey, ClusterKey, PodOf

\* A key of some kind is the key of something.
LEMMA KeysByKind ==
    ASSUME NEW k \in Keys
    PROVE  /\ k[1] = "container" => \E c \in Containers : k = ContainerKey(c)
           /\ k[1] = "pod" => \E p \in Pods : k = PodKey(p)
           /\ k[1] = "namespace" => \E n \in Namespaces : k = NsKey(n)
           /\ k[1] = "node" => k = NodeKey
           /\ k[1] = "cluster" => k = ClusterKey
  BY DEF Containers, Namespaces, Keys, ScrapedKeys, ContainerKey, PodKey, NsKey, NamespaceKey,
         NodeKey, ClusterKey

\* Different things have different keys.
LEMMA KeysInjective ==
    /\ \A c, d : ContainerKey(c) = ContainerKey(d) => c = d
    /\ \A c, d : PodKey(c) = PodKey(d) => c = d
    /\ \A c, d : NsKey(c) = NsKey(d) => c = d
  BY Zenon DEF ContainerKey, PodKey, NsKey

\* A metric set is not the absence of one.
LEMMA SetsDiffer ==
    ASSUME NEW s \in MetricSet
    PROVE  s # NoSet
<1>1. DOMAIN s = {"values", "node", "uid"} /\ DOMAIN NoSet = {"absent"}
  BY Zenon DEF MetricSet, NoSet
<1> QED
  BY <1>1, Zenon

\* A new set has no metric.
LEMMA EmptyIsSet ==
    ASSUME NEW n \in BOOLEAN, NEW u \in BOOLEAN
    PROVE  /\ EmptySet(n, u) \in MetricSet
           /\ \A m \in Metrics : EmptySet(n, u).values[m] = None
  BY Zenon DEF EmptySet, MetricSet

\* What a map of metric sets holds.
LEMMA FigureType ==
    ASSUME NEW sets \in Sets, NEW k \in Keys, NEW m \in Metrics
    PROVE  /\ Has(sets, k) => sets[k] \in MetricSet
           /\ Figure(sets, k, m) \in Nat \cup {None}
           /\ Value(sets, k, m) \in Nat
  BY Zenon DEF Sets, Figure, Value, Has, MetricSet, None

\* The stubs of addPodInfo: the missing containers of the pod, with their requests.
LEMMA StubFacts ==
    ASSUME batch \in Sets, NEW sets \in Sets, NEW n \in BOOLEAN, NEW p, NEW key \in Keys
    PROVE  LET made2 == StubContainers(p, n, sets)
               stub == \E c \in Declared : c[1] = p /\ key = ContainerKey(c)
                                            /\ ~Has(batch, key) /\ ~Has(sets, key)
           IN  /\ made2[key] \in MetricSet \cup {NoSet}
               /\ stub => /\ Has(made2, key)
                          /\ Figure(made2, key, "usage") = None
                          /\ Figure(made2, key, "request") = Request[key[2]]
               /\ ~stub => made2[key] = sets[key]
<1> DEFINE made2 == StubContainers(p, n, sets)
           stub == \E c \in Declared : c[1] = p /\ key = ContainerKey(c)
                                         /\ ~Has(batch, key) /\ ~Has(sets, key)
           new == [EmptySet(n, FALSE) EXCEPT !.values["request"] = Request[key[2]]]
<1>1. stub => made2[key] = new
  BY Zenon DEF StubContainers
<1>2. ~stub => made2[key] = sets[key]
  BY Zenon DEF StubContainers
<1>3. stub => Request[key[2]] \in Nat
  BY ProcessorsAssumption DEF ContainerKey
<1>4. stub => /\ new \in MetricSet
              /\ new.values["usage"] = None
              /\ new.values["request"] = Request[key[2]]
  BY <1>3, EmptyIsSet, Zenon DEF MetricSet, Metrics
<1> HIDE DEF made2, stub, new
<1>5. sets[key] \in MetricSet \cup {NoSet}
  BY Zenon DEF Sets
<1>6. stub => /\ Has(made2, key)
              /\ Figure(made2, key, "usage") = None
              /\ Figure(made2, key, "request") = Request[key[2]]
  BY <1>1, <1>4, SetsDiffer, Zenon DEF Has, Figure
<1>7. made2[key] \in MetricSet \cup {NoSet}
  BY <1>1, <1>2, <1>4, <1>5, Zenon
<1> QED
  BY <1>2, <1>6, <1>7, Zenon DEF made2, stub

\* Likewise, for the whole map.
LEMMA StubSets ==
    ASSUME batch \in Sets, NEW sets \in Sets, NEW n \in BOOLEAN, NEW p
    PROVE  StubContainers(p, n, sets) \in Sets
<1>1. \A key \in Keys : StubContainers(p, n, sets)[key] \in MetricSet \cup {NoSet}
  BY StubFacts, Zenon
<1>2. StubContainers(p, n, sets) = [key \in Keys |-> StubContainers(p, n, sets)[key]]
  BY Zenon DEF StubContainers
<1> QED
  BY <1>1, <1>2, Zenon DEF Sets

\* The pod whose set or whose container's set the enricher is at.
LEMMA PodOfIn ==
    ASSUME NEW k \in Keys, k[1] \in {"pod", "container"}
    PROVE  /\ PodOf(k) \in Pods
           /\ k[1] = "pod" => k = PodKey(PodOf(k))
           /\ k[1] = "container" => k = ContainerKey(k[2]) /\ k[2] \in Containers /\ k[2][1] = PodOf(k)
<1>1. \A c \in Containers : c[1] \in Pods
  BY ProcessorsAssumption, Zenon DEF Containers
<1> QED
  BY <1>1, KeysByKind, KeyKinds DEF PodOf, ContainerKey, PodKey

\* What one turn of the enricher does to the sets.
Enriched(k) ==
    LET p == PodOf(k)
        pod == PodKey(p)
    IN  /\ batch' \in Sets /\ made' \in Sets
        /\ \A key \in Keys : Has(batch', key) = Has(batch, key)
        /\ \A key \in Keys : \A m \in Summed : Figure(batch', key, m) =
              IF key = k /\ m = "request" /\ k[1] = "container" /\ k[2] \in Declared /\ p \in podLister
              THEN Request[k[2]] ELSE Figure(batch, key, m)
        /\ \A key \in Keys : Has(made, key) => made'[key] = made[key]
        /\ \A key \in Keys : Has(made', key) /\ ~Has(made, key) =>
              /\ p \in podLister /\ ~Has(batch, key)
              /\ Figure(made', key, "usage") = None
              /\ \/ key = pod /\ Figure(made', key, "request") = None
                 \/ \E c \in Declared : /\ c[1] = p /\ key = ContainerKey(c)
                                        /\ Figure(made', key, "request") = Request[c]
        /\ p \in podLister /\ k[1] = "container" => Has(batch, pod) \/ Has(made', pod)
        /\ p \in podLister /\ (k[1] = "pod" \/ (Has(made', pod) /\ ~Has(made, pod))) =>
              \A c \in Declared : c[1] = p => Has(batch, ContainerKey(c)) \/ Has(made', ContainerKey(c))

\* A turn of the enricher does just that.
LEMMA EnrichedTurn ==
    ASSUME ProcTypes, NEW k \in Keys, EnrichPod(k)
    PROVE  Enriched(k)
<1> DEFINE p == PodOf(k)
           pod == PodKey(p)
           node == batch[k].node
<1>1. k \in todo /\ Has(batch, k) /\ k[1] \in {"pod", "container"} /\ stage = "podEnricher"
  BY Zenon DEF ProcTypes, EnrichPod, Turn, KeysOf, RangeOf
<1>2. batch[k] \in MetricSet /\ node \in BOOLEAN
  BY <1>1, FigureType, Zenon DEF ProcTypes, Metrics, MetricSet
<1>3. batch \in Sets /\ made \in Sets
  BY Zenon DEF ProcTypes
<1>4. p \in Pods /\ (k[1] = "container" => k[2] \in Containers /\ k = ContainerKey(k[2]) /\ k[2][1] = p)
  BY <1>1, PodOfIn, Zenon
<1>5. \A c \in Declared : ContainerKey(c) \in Keys /\ ContainerKey(c)[2] = c
  BY KeyKinds, Zenon DEF Containers, ContainerKey
<1>6. pod \in Keys /\ pod[1] = "pod"
  BY <1>4, KeyKinds, Zenon
<1>7. \A c \in Declared : ContainerKey(c) # pod
  BY <1>6, KeyKinds, Zenon DEF Containers
<1> HIDE DEF p, pod, node
<1>8. CASE p \notin podLister
  <2>1. UNCHANGED <<batch, made>>
    BY <1>8, Zenon DEF EnrichPod, p
  <2> QED
    BY <1>3, <1>8, <2>1, Zenon DEF Enriched, p
<1>9. CASE p \in podLister /\ k[1] = "pod"
  <2>1. made' = StubContainers(p, node, made) /\ batch' = batch
    BY <1>9, Zenon DEF EnrichPod, AddPodInfo, p, node
  <2>2. made' \in Sets
    BY <1>2, <1>3, <2>1, StubSets, Zenon
  <2> DEFINE Stub(key) == \E c \in Declared : c[1] = p /\ key = ContainerKey(c)
                                            /\ ~Has(batch, key) /\ ~Has(made, key)
  <2>3. \A key \in Keys :
            /\ Stub(key) => /\ Has(made', key)
                            /\ Figure(made', key, "usage") = None
                            /\ Figure(made', key, "request") = Request[key[2]]
            /\ ~Stub(key) => made'[key] = made[key]
    BY <1>2, <1>3, <2>1, StubFacts
  <2>4. \A key \in Keys : Has(made, key) => made'[key] = made[key]
    BY <2>3, Zenon
  <2>5. ASSUME NEW key \in Keys, Has(made', key), ~Has(made, key)
        PROVE  /\ ~Has(batch, key) /\ Figure(made', key, "usage") = None
               /\ \E c \in Declared : /\ c[1] = p /\ key = ContainerKey(c)
                                      /\ Figure(made', key, "request") = Request[c]
    <3>1. Stub(key)
      BY <2>3, <2>5, Zenon DEF Has
    <3> QED
      BY <1>5, <2>3, <3>1
  <2>6. \A c \in Declared : c[1] = p => Has(batch, ContainerKey(c)) \/ Has(made', ContainerKey(c))
    BY <1>5, <2>3, Zenon DEF Has
  <2> QED
    BY <1>3, <1>9, <2>1, <2>2, <2>4, <2>5, <2>6, Zenon DEF Enriched, p
<1>10. CASE p \in podLister /\ k[1] = "container"
  <2>1. /\ batch' = [batch EXCEPT ![k].values["request"] = IF k[2] \in Declared THEN Request[k[2]] ELSE @]
        /\ made' = IF Has(batch, pod) \/ Has(made, pod) THEN made
                   ELSE StubContainers(p, node, [made EXCEPT ![pod] = EmptySet(node, FALSE)])
    BY <1>10, Zenon DEF EnrichPod, AddContainerInfo, p, pod, node
  <2>2. k[2] \in Declared => Request[k[2]] \in Nat
    BY ProcessorsAssumption, Zenon
  <2>3. /\ batch'[k] \in MetricSet
        /\ batch'[k].values["usage"] = batch[k].values["usage"]
        /\ batch'[k].values["request"] = IF k[2] \in Declared THEN Request[k[2]] ELSE batch[k].values["request"]
    BY <1>2, <1>3, <2>1, <2>2, Zenon DEF MetricSet, Sets, Metrics
  <2>4. batch' \in Sets /\ \A key \in Keys : key # k => batch'[key] = batch[key]
    BY <1>3, <2>1, <2>3, Zenon DEF Sets
  <2>5. \A key \in Keys : Has(batch', key) = Has(batch, key)
    BY <1>1, <2>3, <2>4, SetsDiffer, Zenon DEF Has
  <2>6. \A key \in Keys : \A m \in Summed : Figure(batch', key, m) =
              IF key = k /\ m = "request" /\ k[2] \in Declared
              THEN Request[k[2]] ELSE Figure(batch, key, m)
    BY <1>1, <2>3, <2>4, <2>5, Zenon DEF Figure, Summed
  <2>7. CASE Has(batch, pod) \/ Has(made, pod)
    BY <1>3, <1>10, <2>1, <2>4, <2>5, <2>6, <2>7, Zenon DEF Enriched, p, pod
  <2>8. CASE ~Has(batch, pod) /\ ~Has(made, pod)
    <3> DEFINE made1 == [made EXCEPT ![pod] = EmptySet(node, FALSE)]
               Stub(key) == \E c \in Declared : c[1] = p /\ key = ContainerKey(c)
                                              /\ ~Has(batch, key) /\ ~Has(made1, key)
    <3>1. made1 \in Sets /\ Has(made1, pod)
      BY <1>2, <1>3, <1>6, EmptyIsSet, SetsDiffer, Zenon DEF Sets, Has
    <3>2. Figure(made1, pod, "usage") = None /\ Figure(made1, pod, "request") = None
      BY <1>2, <1>3, <1>6, <3>1, EmptyIsSet, Zenon DEF Sets, Figure, Metrics
    <3>3. \A key \in Keys : key # pod => made1[key] = made[key]
      BY <1>3, Zenon DEF Sets
    <3>4. made' = StubContainers(p, node, made1)
      BY <2>1, <2>8, Zenon
    <3> HIDE DEF made1
    <3>5. made' \in Sets
      BY <1>2, <1>3, <3>1, <3>4, StubSets, Zenon
    <3>6. \A key \in Keys :
            /\ Stub(key) => /\ Has(made', key)
                            /\ Figure(made', key, "usage") = None
                            /\ Figure(made', key, "request") = Request[key[2]]
            /\ ~Stub(key) => made'[key] = made1[key]
      BY <1>2, <1>3, <3>1, <3>4, StubFacts
    <3>7. made'[pod] = made1[pod] /\ Has(made', pod)
      BY <1>6, <1>7, <3>1, <3>6, Zenon DEF Has
    <3>8. \A key \in Keys : Has(made, key) => made'[key] = made[key]
      BY <2>8, <3>3, <3>6, Zenon DEF Has
    <3>9. ASSUME NEW key \in Keys, Has(made', key), ~Has(made, key)
          PROVE  /\ ~Has(batch, key) /\ Figure(made', key, "usage") = None
                 /\ \/ key = pod /\ Figure(made', key, "request") = None
                    \/ \E c \in Declared : /\ c[1] = p /\ key = ContainerKey(c)
                                           /\ Figure(made', key, "request") = Request[c]
      <4>1. CASE key = pod
        BY <2>8, <3>1, <3>2, <3>7, <4>1, Zenon DEF Figure, Has
      <4>2. CASE key # pod
        <5>1. Stub(key)
          BY <3>3, <3>6, <3>9, <4>2, Zenon DEF Has
        <5> QED
          BY <1>5, <3>6, <5>1
      <4> QED
        BY <4>1, <4>2, Zenon
    <3>10. \A c \in Declared : c[1] = p => Has(batch, ContainerKey(c)) \/ Has(made', ContainerKey(c))
      BY <1>5, <3>6, Zenon DEF Has
    <3> QED
      BY <1>10, <2>4, <2>5, <2>6, <3>5, <3>7, <3>8, <3>9, <3>10, Zenon DEF Enriched, p, pod
  <2> QED
    BY <2>7, <2>8, Zenon
<1> QED
  BY <1>1, <1>8, <1>9, <1>10, Zenon

\* A turn of the enricher preserves the invariant.
LEMMA EnrichPodInv ==
    ASSUME ProcInv, NEW k \in Keys, EnrichPod(k)
    PROVE  ProcInv'
<1> DEFINE p == PodOf(k)
           pod == PodKey(p)
<1>1. k \in todo /\ Has(batch, k) /\ k[1] \in {"pod", "container"} /\ stage = "podEnricher"
  BY Zenon DEF ProcInv, ProcTypes, EnrichPod, Turn, KeysOf, RangeOf
<1>2. /\ stage' = stage /\ todo' = todo \ {k} /\ required' = required
      /\ podLister' = podLister /\ changed' = changed /\ reported' = reported
  BY Zenon DEF EnrichPod, Turn
<1>3. Enriched(k)
  BY EnrichedTurn, Zenon DEF ProcInv
<1>4. p \in Pods /\ (k[1] = "pod" => k = pod)
        /\ (k[1] = "container" => k = ContainerKey(k[2]) /\ k[2] \in Containers /\ k[2][1] = p)
  BY <1>1, PodOfIn, Zenon
<1>5. \A c \in Containers : ContainerKey(c) \in Keys /\ ContainerKey(c)[1] = "container" /\ ContainerKey(c)[2] = c
  BY KeyKinds, Zenon DEF ContainerKey
<1>6. \A q \in Pods : PodKey(q) \in Keys /\ PodKey(q)[1] = "pod" /\ PodKey(q)[2] = q
  BY KeyKinds, Zenon DEF PodKey
<1>7. Declared \subseteq Containers
  BY Zenon DEF Containers
<1>8. "usage" \in Summed /\ "request" \in Summed
  BY Zenon DEF Summed
<1> HIDE DEF p, pod
<1>10. ProcTypes'
  BY <1>1, <1>2, <1>3, Zenon DEF ProcInv, ProcTypes, KeysOf, Enriched
<1>11. \A key \in Keys : Has(made, key) => \A m \in Summed : Figure(made', key, m) = Figure(made, key, m)
  BY <1>3, Zenon DEF Enriched, Figure, Has
<1>12. \A key \in Keys : \A m \in Summed : ~Has(made', key) => Figure(made', key, m) = None
  BY Zenon DEF Figure
<1>13. \A key \in Keys : Has(made, key) => Has(made', key)
  BY <1>3, Zenon DEF Enriched, Has
<1>14. \A key \in Keys : Has(made', key) /\ ~Has(made, key) => key = pod \/ \E c \in Declared : key = ContainerKey(c)
  BY <1>3, Zenon DEF Enriched, p, pod
<1>20. ReportedInv'
  <2>1. \A key \in Keys : Has(reported, key)' = Has(reported, key)
    BY <1>2, Zenon DEF Has
  <2>2. KeysOf(reported, {"pod", "container"})' = KeysOf(reported, {"pod", "container"})
    BY <1>2, Zenon DEF Has, KeysOf
  <2>3. \A key \in Keys : Has(reported, key)' =>
            key \in ScrapedKeys /\ reported'[key].values["usage"] \in {None, Usage[key]}
    BY <1>2, Zenon DEF ProcInv, ReportedInv, Has
  <2>4. \A key \in KeysOf(reported, {"pod", "container"})' : Has(batch', key)
    BY <1>3, <2>2, Zenon DEF ProcInv, ReportedInv, Enriched, KeysOf
  <2>5. \A key \in Keys : Has(batch', key) => Has(reported, key)'
    BY <1>1, <1>3, <2>1, Zenon DEF ProcInv, ReportedInv, Enriched
  <2>6. ASSUME NEW c \in Containers
        PROVE  /\ Figure(batch', ContainerKey(c), "usage") = Figure(reported', ContainerKey(c), "usage")
               /\ Figure(made', ContainerKey(c), "usage") = None
               /\ Has(made', ContainerKey(c)) => ~Has(batch', ContainerKey(c))
    <3> DEFINE key == ContainerKey(c)
    <3>1. key \in Keys
      BY <1>5, Zenon
    <3>2. /\ Figure(batch, key, "usage") = Figure(reported, key, "usage")
          /\ Figure(made, key, "usage") = None
          /\ Has(made, key) => ~Has(batch, key)
      BY Zenon DEF ProcInv, ReportedInv
    <3> HIDE DEF key
    <3>3. Figure(batch', key, "usage") = Figure(reported', key, "usage")
      BY <1>2, <1>3, <1>8, <3>1, <3>2, Zenon DEF Enriched
    <3>4. Figure(made', key, "usage") = None
      BY <1>3, <1>8, <1>11, <1>12, <3>1, <3>2, Zenon DEF Enriched
    <3>5. Has(made', key) => ~Has(batch', key)
      BY <1>3, <3>1, <3>2, Zenon DEF Enriched
    <3> QED
      BY <3>3, <3>4, <3>5, Zenon DEF key
  <2> QED
    BY <1>1, <1>2, <2>3, <2>4, <2>5, <2>6, Zenon DEF ReportedInv
<1>30. PodsEarly'
  <2>1. ASSUME NEW q \in Pods
        PROVE  LET key == PodKey(q) IN
               /\ Figure(batch', key, "usage") = Figure(reported', key, "usage")
               /\ Figure(batch', key, "request") = None
               /\ Has(made', key) => ~Has(batch', key)
               /\ \A m \in Summed : Figure(made', key, m) = None
    <3> DEFINE key == PodKey(q)
    <3>1. key \in Keys /\ key[1] = "pod" /\ \A c \in Declared : key # ContainerKey(c)
      BY <1>5, <1>6, <1>7, Zenon
    <3>2. /\ Figure(batch, key, "usage") = Figure(reported, key, "usage")
          /\ Figure(batch, key, "request") = None
          /\ Has(made, key) => ~Has(batch, key)
          /\ \A m \in Summed : Figure(made, key, m) = None
      BY <1>1, Zenon DEF ProcInv, PodsEarly, Early
    <3> HIDE DEF key
    <3>3. Figure(batch', key, "usage") = Figure(reported', key, "usage") /\ Figure(batch', key, "request") = None
      BY <1>2, <1>3, <1>8, <3>1, <3>2, Zenon DEF Enriched
    <3>4. Has(made', key) => ~Has(batch', key)
      BY <1>3, <3>1, <3>2, Zenon DEF Enriched
    <3>5. Figure(made', key, "usage") = None /\ Figure(made', key, "request") = None
      BY <1>3, <1>8, <1>11, <1>12, <3>1, <3>2, Zenon DEF Enriched
    <3> QED
      BY <3>3, <3>4, <3>5, Zenon DEF key, Summed
  <2>2. required' = {}
    BY <1>1, <1>2, Zenon DEF ProcInv, PodsEarly, Early
  <2> QED
    BY <2>1, <2>2, Zenon DEF PodsEarly
<1>40. PodsAggregated'
  BY <1>1, <1>2, Zenon DEF PodsAggregated, Late
<1>50. NamespacesAggregated'
  <2>1. ASSUME NEW n \in Namespaces
        PROVE  ~Has(batch', NsKey(n)) /\ ~Has(made', NsKey(n))
    <3>1. NsKey(n) \in Keys /\ NsKey(n)[1] = "namespace"
      BY KeyKinds, Zenon
    <3>2. ~Has(batch, NsKey(n)) /\ ~Has(made, NsKey(n))
      BY <1>1, Zenon DEF ProcInv, NamespacesAggregated, Early
    <3>3. NsKey(n) # pod /\ \A c \in Declared : NsKey(n) # ContainerKey(c)
      BY <1>4, <1>5, <1>6, <1>7, <3>1, Zenon DEF pod
    <3> QED
      BY <1>3, <1>14, <3>1, <3>2, <3>3, Zenon DEF Enriched
  <2> QED
    BY <1>1, <1>2, <2>1, Zenon DEF NamespacesAggregated, Late
<1>60. ClusterAggregated'
  <2>1. ~Has(made', ClusterKey)
    <3>1. ClusterKey \in Keys /\ ClusterKey[1] = "cluster"
      BY KeyKinds, Zenon
    <3>2. ~Has(made, ClusterKey)
      BY <1>1, Zenon DEF ProcInv, ClusterAggregated
    <3>3. ClusterKey # pod /\ \A c \in Declared : ClusterKey # ContainerKey(c)
      BY <1>4, <1>5, <1>6, <1>7, <3>1, Zenon DEF pod
    <3> QED
      BY <1>14, <3>1, <3>2, <3>3, Zenon
  <2> QED
    BY <1>1, <1>2, <2>1, Zenon DEF ClusterAggregated, Late
<1>70. RequestsInv'
  <2>1. \A q : Seen(q)' = Seen(q)
    BY <1>2, Zenon DEF Seen, KeysOf, Has
  <2>2. Seen(p)
    <3>1. k \in KeysOf(reported, {"pod", "container"})
      BY <1>1, Zenon DEF ProcInv, ReportedInv, KeysOf
    <3> QED
      BY <3>1, Zenon DEF Seen, p
  <2>3. ASSUME NEW c \in Containers
        PROVE  LET key == ContainerKey(c) IN
               /\ \A sets \in {batch', made'} : Figure(sets, key, "request") # None =>
                     /\ c \in Declared
                     /\ Figure(sets, key, "request") = Request[c]
                     /\ Seen(c[1]) /\ c[1] \in podLister \cup changed
               /\ Has(made', key) => Figure(made', key, "request") # None
    <3> DEFINE key == ContainerKey(c)
               Good(f) == f # None => /\ c \in Declared /\ f = Request[c]
                                      /\ Seen(c[1]) /\ c[1] \in podLister \cup changed
    <3>1. key \in Keys /\ key[1] = "container" /\ key[2] = c /\ key # pod
      BY <1>4, <1>5, <1>6, Zenon DEF pod
    <3>2. Good(Figure(batch, key, "request")) /\ Good(Figure(made, key, "request"))
            /\ (Has(made, key) => Figure(made, key, "request") # None)
      BY Zenon DEF ProcInv, RequestsInv
    <3>3. Good(Figure(batch', key, "request"))
      <4>1. CASE key = k /\ c \in Declared /\ p \in podLister
        <5>1. c[1] = p
          BY <1>4, <3>1, <4>1, Zenon
        <5> QED
          BY <1>3, <1>8, <2>2, <3>1, <4>1, <5>1, Zenon DEF Enriched, p
      <4>2. CASE ~(key = k /\ c \in Declared /\ p \in podLister)
        <5>1. Figure(batch', key, "request") = Figure(batch, key, "request")
          BY <1>3, <1>8, <3>1, <4>2, Zenon DEF Enriched, p
        <5> QED
          BY <3>2, <5>1, Zenon
      <4> QED
        BY <4>1, <4>2, Zenon
    <3>4. Good(Figure(made', key, "request")) /\ (Has(made', key) => Figure(made', key, "request") # None)
      <4>1. CASE Has(made, key)
        BY <1>8, <1>11, <3>1, <3>2, <4>1, Zenon
      <4>2. CASE ~Has(made', key)
        BY <1>8, <1>12, <3>1, <4>2, Zenon
      <4>3. CASE ~Has(made, key) /\ Has(made', key)
        <5>1. PICK d \in Declared : d[1] = p /\ key = ContainerKey(d) /\ Figure(made', key, "request") = Request[d]
          BY <1>3, <3>1, <4>3, Zenon DEF Enriched, p, pod
        <5>2. d = c
          BY <5>1, KeysInjective, Zenon
        <5>3. p \in podLister /\ Request[c] # None
          BY <1>3, <3>1, <4>3, <5>1, <5>2, ProcessorsAssumption DEF Enriched, p, None
        <5> QED
          BY <2>2, <5>1, <5>2, <5>3, Zenon
      <4> QED
        BY <4>1, <4>2, <4>3, Zenon
    <3> QED
      BY <3>3, <3>4, Zenon
  <2>4. ASSUME NEW c \in Declared, c[1] \in podLister \ changed
        PROVE  LET key == ContainerKey(c)
                   its == PodKey(c[1]) IN
               /\ Has(batch', key) /\ key \notin todo' => Figure(batch', key, "request") # None
               /\ Has(made', its) \/ (Has(batch', its) /\ its \notin todo') => Has(batch', key) \/ Has(made', key)
    <3> DEFINE key == ContainerKey(c)
               its == PodKey(c[1])
    <3>1. c \in Containers /\ key \in Keys /\ key[1] = "container" /\ key[2] = c /\ Request[c] # None
      BY <1>5, <1>7, ProcessorsAssumption DEF None
    <3>2. c[1] \in Pods /\ its \in Keys /\ its[1] = "pod" /\ its[2] = c[1]
      BY <1>6, ProcessorsAssumption, Zenon
    <3>3. /\ Has(batch, key) /\ key \notin todo => Figure(batch, key, "request") # None
          /\ Has(made, its) \/ (Has(batch, its) /\ its \notin todo) => Has(batch, key) \/ Has(made, key)
      BY <1>1, <2>4, Zenon DEF ProcInv, RequestsInv
    <3>4. its = pod <=> c[1] = p
      BY <3>2, KeysInjective, Zenon DEF pod
    <3> HIDE DEF key, its
    <3>5. Has(batch', key) /\ key \notin todo' => Figure(batch', key, "request") # None
      <4>1. CASE key = k
        <5>1. c[1] = p
          BY <1>4, <3>1, <4>1, Zenon
        <5> QED
          BY <1>3, <1>8, <2>4, <3>1, <4>1, <5>1, Zenon DEF Enriched, p
      <4>2. CASE key # k
        BY <1>2, <1>3, <1>8, <3>1, <3>3, <4>2, Zenon DEF Enriched
      <4> QED
        BY <4>1, <4>2, Zenon
    <3>6. ASSUME Has(made', its) \/ (Has(batch', its) /\ its \notin todo')
          PROVE  Has(batch', key) \/ Has(made', key)
      <4>1. CASE Has(made, its) \/ (Has(batch, its) /\ its \notin todo)
        BY <1>3, <1>13, <3>1, <3>3, <4>1, Zenon DEF Enriched
      <4>2. CASE ~Has(made, its) /\ Has(made', its)
        <5>1. its = pod
          BY <1>5, <1>7, <1>14, <3>2, <4>2, Zenon
        <5> QED
          BY <1>3, <2>4, <3>1, <3>4, <4>2, <5>1, Zenon DEF Enriched, p, pod, key
      <4>3. CASE Has(batch, its) /\ its = k
        <5>1. k[1] = "pod" /\ its = pod
          BY <1>4, <3>2, <4>3, Zenon
        <5> QED
          BY <1>3, <2>4, <3>1, <3>4, <4>3, <5>1, Zenon DEF Enriched, p, pod, key
      <4> QED
        BY <1>2, <1>3, <3>2, <3>6, <4>1, <4>2, <4>3, Zenon DEF Enriched
    <3> QED
      BY <3>5, <3>6, Zenon DEF key, its
  <2>5. ASSUME NEW c \in Containers, c[1] \in podLister \ changed,
               Has(batch', ContainerKey(c)), ContainerKey(c) \notin todo'
        PROVE  Has(batch', PodKey(c[1])) \/ Has(made', PodKey(c[1]))
    <3> DEFINE key == ContainerKey(c)
               its == PodKey(c[1])
    <3>1. key \in Keys /\ key[1] = "container" /\ key[2] = c
      BY <1>5, Zenon
    <3>2. its \in Keys
      BY <1>6, ProcessorsAssumption, Zenon DEF Containers
    <3>3. Has(batch, key) /\ key \notin todo => Has(batch, its) \/ Has(made, its)
      BY <1>1, <2>5, Zenon DEF ProcInv, RequestsInv
    <3>4. Has(batch', key) /\ key \notin todo'
      BY <2>5, Zenon
    <3>5. CASE key = k
      <4>1. c[1] = p /\ its = pod
        BY <1>4, <3>1, <3>5, Zenon DEF pod
      <4> HIDE DEF its, key
      <4> QED
        BY <1>3, <2>5, <3>1, <3>2, <3>5, <4>1, Zenon DEF Enriched, p, pod, its
    <3>6. CASE key # k
      <4> HIDE DEF key
      <4> QED
        BY <1>2, <1>3, <1>13, <3>1, <3>2, <3>3, <3>4, <3>6, Zenon DEF Enriched
    <3> QED
      BY <3>5, <3>6, Zenon
  <2>6. ASSUME NEW q \in Pods, Has(made', PodKey(q))
        PROVE  Seen(q)
    <3>1. Has(made, PodKey(q)) => Seen(q)
      BY <1>1, Zenon DEF ProcInv, RequestsInv
    <3>2. ~Has(made, PodKey(q)) => q = p
      BY <1>5, <1>6, <1>7, <1>14, <2>6, KeysInjective DEF pod
    <3> QED
      BY <2>2, <3>1, <3>2, Zenon
  <2> QED
    BY <1>1, <1>2, <2>1, <2>3, <2>4, <2>5, <2>6, Zenon DEF RequestsInv
<1> QED
  BY <1>10, <1>20, <1>30, <1>40, <1>50, <1>60, <1>70, Zenon DEF ProcInv

\* A change of the pod lister during the range preserves the invariant.
LEMMA WatchPodInv ==
    ASSUME ProcInv, NEW p \in Pods, WatchPod(p)
    PROVE  ProcInv'
<1>1. /\ stage = "podEnricher" /\ changed' = changed \cup {p}
      /\ podLister' = IF p \in podLister THEN podLister \ {p} ELSE podLister \cup {p}
      /\ stage' = stage /\ todo' = todo /\ batch' = batch /\ made' = made
      /\ required' = required /\ reported' = reported
  BY Zenon DEF WatchPod
<1>2. /\ \A q : q \in podLister \cup changed => q \in podLister' \cup changed'
      /\ \A q : q \in podLister' \ changed' => q \in podLister \ changed
  BY <1>1, Zenon
<1>3. ProcTypes' /\ ReportedInv' /\ PodsEarly'
  BY <1>1, Zenon DEF ProcInv, ProcTypes, ReportedInv, PodsEarly, KeysOf, Has, Figure
<1>4. PodsAggregated'
  BY <1>1, Zenon DEF PodsAggregated, Late
<1>5. NamespacesAggregated' /\ ClusterAggregated'
  BY <1>1, Zenon DEF ProcInv, NamespacesAggregated, ClusterAggregated, Late, Has
<1>6. RequestsInv'
  <2>1. \A q : Seen(q)' = Seen(q)
    BY <1>1, Zenon DEF Seen, KeysOf, Has
  <2>2. \A key : Has(batch, key)' = Has(batch, key) /\ Has(made, key)' = Has(made, key)
    BY <1>1, Zenon DEF Has
  <2>3. \A key : /\ Figure(batch', key, "request") = Figure(batch, key, "request")
                 /\ Figure(made', key, "request") = Figure(made, key, "request")
    BY <1>1, Zenon
  <2> QED
    BY <1>1, <1>2, <2>1, <2>2, <2>3, Zenon DEF ProcInv, RequestsInv
<1> QED
  BY <1>3, <1>4, <1>5, <1>6, Zenon DEF ProcInv

\* An empty map has no metric.
LEMMA NoSetsType ==
    NoSets \in Sets /\ \A k \in Keys : ~Has(NoSets, k) /\ \A m \in Metrics : Figure(NoSets, k, m) = None
  BY Zenon DEF NoSets, Sets, Has, Figure

\* What the end of a range does.
Merges(s, next, types) ==
    /\ ProcTypes'
    /\ stage = s /\ todo = {} /\ stage' = next /\ todo' = KeysOf(batch', types)
    /\ made' = NoSets /\ required' = {}
    /\ podLister' = podLister /\ changed' = changed /\ reported' = reported
    /\ \A k \in Keys : /\ Has(batch', k) = (Has(batch, k) \/ Has(made, k))
                       /\ ~Has(made', k)
    /\ \A k \in Keys : \A m \in Metrics :
          /\ Figure(batch', k, m) = IF Has(made, k) THEN Figure(made, k, m) ELSE Figure(batch, k, m)
          /\ Figure(made', k, m) = None

\* The end of a range merges what was made into the batch.
LEMMA FinishMerges ==
    ASSUME ProcTypes, NEW s, NEW next \in Stages, NEW types, Finish(s, next, types), types \subseteq RangeOf(next)
    PROVE  Merges(s, next, types)
<1>1. /\ stage = s /\ todo = {} /\ stage' = next /\ todo' = KeysOf(batch', types)
      /\ made' = NoSets /\ required' = {}
      /\ batch' = [k \in Keys |-> IF Has(made, k) THEN made[k] ELSE batch[k]]
      /\ podLister' = podLister /\ changed' = changed /\ reported' = reported
  BY Zenon DEF Finish
<1>2. batch' \in Sets
  BY <1>1, Zenon DEF ProcTypes, Sets
<1>3. ProcTypes'
  BY <1>1, <1>2, NoSetsType, Zenon DEF ProcTypes, KeysOf
<1>4. \A k \in Keys : Has(batch', k) = (Has(batch, k) \/ Has(made, k)) /\ ~Has(made', k)
  BY <1>1, NoSetsType, Zenon DEF Has
<1>5. \A k \in Keys : \A m \in Metrics :
          /\ Figure(batch', k, m) = IF Has(made, k) THEN Figure(made, k, m) ELSE Figure(batch, k, m)
          /\ Figure(made', k, m) = None
  BY <1>1, NoSetsType, Zenon DEF Figure, Has
<1> QED
  BY <1>1, <1>3, <1>4, <1>5, Zenon DEF Merges

\* The end of the pod enricher's range.
LEMMA FinishEnricherInv ==
    ASSUME ProcInv, Finish("podEnricher", "namespaceEnricher", {})
    PROVE  ProcInv'
<1>0. Merges("podEnricher", "namespaceEnricher", {})
  BY FinishMerges, Zenon DEF ProcInv, Stages, Early
<1>1. /\ ProcTypes'
      /\ stage = "podEnricher" /\ todo = {} /\ stage' = "namespaceEnricher"
      /\ made' = NoSets /\ required' = {}
      /\ podLister' = podLister /\ changed' = changed /\ reported' = reported
  BY <1>0, Zenon DEF Merges
<1>2. \A k \in Keys : Has(batch', k) = (Has(batch, k) \/ Has(made, k)) /\ ~Has(made', k)
  BY <1>0, Zenon DEF Merges
<1>3. \A k \in Keys : \A m \in Metrics :
          /\ Figure(batch', k, m) = IF Has(made, k) THEN Figure(made, k, m) ELSE Figure(batch, k, m)
          /\ Figure(made', k, m) = None
  BY <1>0, Zenon DEF Merges
<1>4. \A k : \A m : ~Has(batch, k) => Figure(batch, k, m) = None
  BY Zenon DEF Figure
<1>5. /\ \A c \in Containers : ContainerKey(c) \in Keys
      /\ \A q \in Pods : PodKey(q) \in Keys
      /\ \A n \in Namespaces : NsKey(n) \in Keys
      /\ ClusterKey \in Keys
  BY KeyKinds, Zenon
<1>6. "usage" \in Metrics /\ "request" \in Metrics /\ Summed = {"usage", "request"}
  BY Zenon DEF Metrics, Summed
<1>10. ReportedInv'
  <2>1. \A key \in Keys : Has(reported, key)' =>
            key \in ScrapedKeys /\ reported'[key].values["usage"] \in {None, Usage[key]}
    BY <1>1, Zenon DEF ProcInv, ReportedInv, Has
  <2>2. \A key \in KeysOf(reported, {"pod", "container"})' : Has(batch', key)
    BY <1>1, <1>2, Zenon DEF ProcInv, ReportedInv, KeysOf, Has
  <2>3. ASSUME NEW c \in Containers
        PROVE  /\ Figure(batch', ContainerKey(c), "usage") = Figure(reported', ContainerKey(c), "usage")
               /\ Figure(made', ContainerKey(c), "usage") = None
               /\ ~Has(made', ContainerKey(c))
    <3>1. /\ Figure(batch, ContainerKey(c), "usage") = Figure(reported, ContainerKey(c), "usage")
          /\ Figure(made, ContainerKey(c), "usage") = None
          /\ Has(made, ContainerKey(c)) => ~Has(batch, ContainerKey(c))
      BY Zenon DEF ProcInv, ReportedInv
    <3> QED
      BY <1>1, <1>2, <1>3, <1>4, <1>5, <1>6, <3>1, Zenon
  <2> QED
    BY <1>1, <2>1, <2>2, <2>3, Zenon DEF ReportedInv
<1>20. PodsEarly'
  <2>1. ASSUME NEW q \in Pods
        PROVE  LET key == PodKey(q) IN
               /\ Figure(batch', key, "usage") = Figure(reported', key, "usage")
               /\ Figure(batch', key, "request") = None
               /\ Has(made', key) => ~Has(batch', key)
               /\ \A m \in Summed : Figure(made', key, m) = None
    <3> DEFINE key == PodKey(q)
    <3>1. /\ Figure(batch, key, "usage") = Figure(reported, key, "usage")
          /\ Figure(batch, key, "request") = None
          /\ Has(made, key) => ~Has(batch, key)
          /\ \A m \in Summed : Figure(made, key, m) = None
      BY <1>1, Zenon DEF ProcInv, PodsEarly, Early
    <3>2. key \in Keys
      BY <1>5, Zenon
    <3> HIDE DEF key
    <3> QED
      BY <1>1, <1>2, <1>3, <1>4, <1>6, <3>1, <3>2, Zenon DEF key
  <2> QED
    BY <1>1, <2>1, Zenon DEF PodsEarly
<1>30. PodsAggregated'
  BY <1>1, Zenon DEF PodsAggregated, Late
<1>40. NamespacesAggregated' /\ ClusterAggregated'
  BY <1>1, <1>2, <1>5, Zenon DEF ProcInv, NamespacesAggregated, ClusterAggregated, Early, Late
<1>50. RequestsInv'
  <2>1. \A q : Seen(q)' = Seen(q)
    BY <1>1, Zenon DEF Seen, KeysOf, Has
  <2>2. ASSUME NEW c \in Containers
        PROVE  LET key == ContainerKey(c) IN
               /\ \A sets \in {batch', made'} : Figure(sets, key, "request") # None =>
                     /\ c \in Declared
                     /\ Figure(sets, key, "request") = Request[c]
                     /\ Seen(c[1]) /\ c[1] \in podLister \cup changed
               /\ ~Has(made', key)
    <3> DEFINE key == ContainerKey(c)
               Good(f) == f # None => /\ c \in Declared /\ f = Request[c]
                                      /\ Seen(c[1]) /\ c[1] \in podLister \cup changed
    <3>1. Good(Figure(batch, key, "request")) /\ Good(Figure(made, key, "request"))
      BY Zenon DEF ProcInv, RequestsInv
    <3>2. key \in Keys
      BY <1>5, Zenon
    <3>3. Good(Figure(batch', key, "request")) /\ Good(Figure(made', key, "request")) /\ ~Has(made', key)
      BY <1>2, <1>3, <1>6, <3>1, <3>2, Zenon
    <3> QED
      BY <3>3, Zenon
  <2>3. ASSUME NEW c \in Declared, c[1] \in podLister \ changed, Seen(c[1])
        PROVE  Figure(batch', ContainerKey(c), "request") # None
    <3> DEFINE key == ContainerKey(c)
               pod == PodKey(c[1])
    <3>1. c \in Containers /\ key \in Keys /\ c[1] \in Pods /\ pod \in Keys
      BY <1>5, ProcessorsAssumption, Zenon DEF Containers
    <3>2. Has(batch, pod) \/ Has(made, pod)
      <4>1. PICK k \in KeysOf(reported, {"pod", "container"}) : PodOf(k) = c[1]
        BY <2>3, Zenon DEF Seen
      <4>2. Has(batch, k) /\ k \in Keys /\ k[1] \in {"pod", "container"}
        BY Zenon DEF ProcInv, ReportedInv, KeysOf
      <4>3. CASE k[1] = "pod"
        BY <4>1, <4>2, <4>3, PodOfIn, Zenon
      <4>4. CASE k[1] = "container"
        <5>1. k = ContainerKey(k[2]) /\ k[2] \in Containers /\ k[2][1] = c[1]
          BY <4>1, <4>2, <4>4, PodOfIn, Zenon
        <5> QED
          BY <1>1, <2>3, <4>2, <5>1, Zenon DEF ProcInv, RequestsInv
      <4> QED
        BY <4>2, <4>3, <4>4, Zenon
    <3>3. /\ Has(batch, key) => Figure(batch, key, "request") # None
          /\ Has(batch, key) \/ Has(made, key)
      BY <1>1, <2>3, <3>2, Zenon DEF ProcInv, RequestsInv
    <3>4. Has(made, key) => Figure(made, key, "request") # None
      BY <3>1, Zenon DEF ProcInv, RequestsInv
    <3> QED
      BY <1>3, <1>6, <3>1, <3>3, <3>4, Zenon
  <2> QED
    BY <1>1, <2>1, <2>2, <2>3, Zenon DEF RequestsInv
<1> QED
  BY <1>1, <1>10, <1>20, <1>30, <1>40, <1>50, Zenon DEF ProcInv

-----------------------------------------------------------------------------
\* After the enricher no step changes the metrics of a container.
ContainersStay ==
    /\ stage # "podEnricher" /\ stage' \notin Early
    /\ podLister' = podLister /\ changed' = changed /\ reported' = reported
    /\ \A k \in Keys : Has(batch, k) => Has(batch', k)
    /\ \A c \in Containers :
          /\ ~Has(made', ContainerKey(c))
          /\ \A m \in Summed : Figure(batch', ContainerKey(c), m) = Figure(batch, ContainerKey(c), m)

\* So what is known of the containers, and of the requests, stays known.
LEMMA ContainersKept ==
    ASSUME ProcInv, ContainersStay
    PROVE  /\ ReportedInv' /\ PodsEarly' /\ RequestsInv'
           /\ \A m \in Summed : ContainerValues(m)' = ContainerValues(m)
           /\ \A p \in Pods : \A m \in Summed : Own(p, m)' = Own(p, m)
<1>1. Summed = {"usage", "request"}
  BY Zenon DEF Summed
<1>2. /\ stage # "podEnricher" /\ stage' \notin Early
      /\ podLister' = podLister /\ changed' = changed /\ reported' = reported
  BY Zenon DEF ContainersStay
<1>3. \A k \in Keys : Has(batch, k) => Has(batch', k)
  BY Zenon DEF ContainersStay
<1>4. \A c \in Containers :
          /\ ~Has(made', ContainerKey(c))
          /\ \A m \in Summed : Figure(batch', ContainerKey(c), m) = Figure(batch, ContainerKey(c), m)
  BY Zenon DEF ContainersStay
<1>5. \A c \in Containers : \A m : Figure(made', ContainerKey(c), m) = None
  BY <1>4, Zenon DEF Figure
<1>10. ReportedInv'
  <2>1. \A key \in Keys : Has(reported, key)' =>
            key \in ScrapedKeys /\ reported'[key].values["usage"] \in {None, Usage[key]}
    BY <1>2, Zenon DEF ProcInv, ReportedInv, Has
  <2>2. \A key \in KeysOf(reported, {"pod", "container"})' : Has(batch', key)
    BY <1>2, <1>3, Zenon DEF ProcInv, ReportedInv, KeysOf, Has
  <2>3. \A c \in Containers :
            Figure(batch', ContainerKey(c), "usage") = Figure(reported', ContainerKey(c), "usage")
    BY <1>1, <1>2, <1>4, Zenon DEF ProcInv, ReportedInv
  <2> QED
    BY <1>2, <1>4, <1>5, <2>1, <2>2, <2>3, Zenon DEF ReportedInv, Early
<1>20. PodsEarly'
  BY <1>2, Zenon DEF PodsEarly
<1>30. RequestsInv'
  <2>1. \A q : Seen(q)' = Seen(q)
    BY <1>2, Zenon DEF Seen, KeysOf, Has
  <2>2. \A c \in Containers : Figure(batch', ContainerKey(c), "request") # None =>
            /\ c \in Declared
            /\ Figure(batch', ContainerKey(c), "request") = Request[c]
            /\ Seen(c[1]) /\ c[1] \in podLister \cup changed
    BY <1>1, <1>4, Zenon DEF ProcInv, RequestsInv
  <2>3. \A c \in Declared : c[1] \in podLister \ changed /\ Seen(c[1]) =>
            Figure(batch', ContainerKey(c), "request") # None
    <3>1. Declared \subseteq Containers
      BY Zenon DEF Containers
    <3> QED
      BY <1>1, <1>2, <1>4, <3>1, Zenon DEF ProcInv, RequestsInv
  <2> QED
    BY <1>2, <1>4, <1>5, <2>1, <2>2, <2>3, Zenon DEF RequestsInv, Early
<1>40. \A m \in Summed : ContainerValues(m)' = ContainerValues(m)
  BY <1>4, Zenon DEF ContainerValues, Value
<1>50. \A p \in Pods : \A m \in Summed : Own(p, m)' = Own(p, m)
  BY <1>2, Zenon DEF Own, Used, Has
<1> QED
  BY <1>10, <1>20, <1>30, <1>40, <1>50, Zenon

\* All that is summed is a number.
LEMMA ValuesAreNumbers ==
    ASSUME ProcTypes, NEW m \in Summed
    PROVE  /\ \A c \in Containers : ContainerValues(m)[c] \in Nat
           /\ \A p \in Pods : PodValues(m)[p] \in Nat
           /\ \A n \in Namespaces : NamespaceValues(m)[n] \in Nat
<1>1. m \in Metrics
  BY Zenon DEF Summed, Metrics
<1> QED
  BY <1>1, FigureType, KeyKinds, Zenon DEF ProcTypes, ContainerValues, PodValues, NamespaceValues

\* The namespace enricher changes no metric, and the pods have all they were
\* reported with when their aggregation begins.
LEMMA EnrichNamespaceInv ==
    ASSUME SumLaws, ProcInv, EnrichNamespace
    PROVE  ProcInv'
<1>1. /\ stage = "namespaceEnricher" /\ stage' = "podAggregator"
      /\ made' = made /\ made = NoSets /\ required' = required
      /\ podLister' = podLister /\ changed' = changed /\ reported' = reported
      /\ todo' = KeysOf(batch', {"container"})
  BY Zenon DEF EnrichNamespace, ProcInv, ReportedInv
<1>2. \A k \in Keys : ~Has(made', k) /\ \A m \in Metrics : Figure(made', k, m) = None
  BY <1>1, NoSetsType, Zenon
<1>3. batch' = [k \in Keys |->
          IF k \in KeysOf(batch, {"container", "pod", "namespace"}) /\ NamespaceOf(k) \in NamespaceStore
          THEN [batch[k] EXCEPT !.uid = TRUE] ELSE batch[k]]
  BY Zenon DEF EnrichNamespace
<1>4. ASSUME NEW k \in Keys
      PROVE  /\ batch'[k] \in MetricSet \cup {NoSet} /\ Has(batch', k) = Has(batch, k)
             /\ \A m \in Metrics : Figure(batch', k, m) = Figure(batch, k, m)
  <2>1. CASE Has(batch, k) /\ batch'[k] = [batch[k] EXCEPT !.uid = TRUE]
    <3>1. batch[k] \in MetricSet
      BY <2>1, Zenon DEF ProcInv, ProcTypes, Sets, Has
    <3>2. batch'[k] \in MetricSet /\ batch'[k].values = batch[k].values
      BY <2>1, <3>1, Zenon DEF MetricSet
    <3>3. Has(batch', k)
      BY <3>2, SetsDiffer, Zenon DEF Has
    <3> QED
      BY <2>1, <3>2, <3>3, Zenon DEF Figure
  <2>2. CASE batch'[k] = batch[k]
    BY <2>2, Zenon DEF ProcInv, ProcTypes, Sets, Has, Figure
  <2> QED
    BY <1>3, <2>1, <2>2, Zenon DEF KeysOf
<1>5. "usage" \in Metrics /\ "request" \in Metrics /\ Summed = {"usage", "request"}
  BY Zenon DEF Metrics, Summed
<1>6. /\ \A c \in Containers : ContainerKey(c) \in Keys /\ ContainerKey(c)[1] = "container"
      /\ \A q \in Pods : PodKey(q) \in Keys
      /\ \A n \in Namespaces : NsKey(n) \in Keys
      /\ ClusterKey \in Keys
  BY KeyKinds, Zenon
<1>7. batch' \in Sets
  BY <1>3, <1>4, Zenon DEF Sets
<1>8. ProcTypes'
  <2>1. stage' \in Stages /\ RangeOf("podAggregator") = {"container"}
    BY <1>1, Zenon DEF Stages, RangeOf
  <2> QED
    BY <1>1, <1>7, <2>1, Zenon DEF ProcInv, ProcTypes
<1>9. ContainersStay
  BY <1>1, <1>2, <1>4, <1>5, <1>6, Zenon DEF ContainersStay, Early
<1>10. ReportedInv' /\ PodsEarly' /\ RequestsInv'
  BY <1>9, ContainersKept, Zenon
<1>20. PodsAggregated'
  <2>1. ASSUME NEW p \in Pods, NEW m \in Summed
        PROVE  LET k == PodKey(p) IN
          /\ Has(made', k) => ~Has(batch', k)
          /\ Value(PodSet(p)', k, m) =
                PodTotal(p, m, {c \in ContainersOfPod(p) : ContainerKey(c) \notin todo})'
          /\ IF Own(p, m)' THEN Has(batch', k) /\ batch'[k].values[m] # None /\ <<k, m>> \notin required'
             ELSE Figure(PodSet(p)', k, m) # None => <<k, m>> \in required'
    <3> DEFINE k == PodKey(p)
               D == {c \in ContainersOfPod(p) : ContainerKey(c) \notin todo'}
    <3>1. k \in Keys /\ m \in Metrics
      BY <1>5, <1>6, Zenon
    <3>2. /\ Figure(batch, k, "usage") = Figure(reported, k, "usage")
          /\ Figure(batch, k, "request") = None
          /\ required = {}
      BY <1>1, Zenon DEF ProcInv, PodsEarly, Early
    <3>3. Own(p, m)' = Own(p, m)
      BY <1>9, ContainersKept, Zenon
    <3>4. Figure(PodSet(p)', k, m) = Figure(batch, k, m)
      BY <1>2, <1>4, <3>1, Zenon DEF PodSet, Figure
    <3>5. CASE Own(p, m)
      <4>1. m = "usage" /\ Has(reported, k) /\ reported[k].values["usage"] # None
        BY <3>5, Zenon DEF Own, Used
      <4>2. reported[k].values["usage"] = Usage[k]
        BY <3>1, <4>1, Zenon DEF ProcInv, ReportedInv
      <4>3. Figure(batch, k, m) = Usage[k] /\ Usage[k] # None
        BY <3>2, <4>1, <4>2, Zenon DEF Figure
      <4>4. Has(batch, k) /\ Figure(batch', k, m) = Usage[k] /\ Has(batch', k)
        BY <1>4, <3>1, <4>3, Zenon DEF Figure
      <4>5. PodTotal(p, m, {c \in ContainersOfPod(p) : ContainerKey(c) \notin todo})' = Usage[k]
        BY <3>3, <3>5, Zenon DEF PodTotal
      <4>6. Value(PodSet(p)', k, m) = Usage[k]
        BY <3>4, <4>3, Zenon DEF Value
      <4>7. batch'[k].values[m] # None
        BY <4>3, <4>4, Zenon DEF Figure
      <4> QED
        BY <1>1, <1>2, <3>1, <3>2, <3>3, <3>5, <4>4, <4>5, <4>6, <4>7, Zenon
    <3>6. CASE ~Own(p, m)
      <4>1. Figure(batch, k, m) = None
        BY <1>5, <3>2, <3>6, Zenon DEF Own, Used, Figure
      <4>2. Value(PodSet(p)', k, m) = 0
        BY <3>4, <4>1, Zenon DEF Value
      <4>3. \A c \in D : (ContainerValues(m)')[c] = 0
        <5> TAKE c \in D
        <5>1. c \in Containers /\ ContainerKey(c) \notin todo'
          BY Zenon DEF ContainersOfPod
        <5>2. ~Has(batch', ContainerKey(c))
          BY <1>1, <1>6, <5>1, Zenon DEF KeysOf
        <5> QED
          BY <5>1, <5>2, Zenon DEF ContainerValues, Value, Figure
      <4>4. D \subseteq Containers
        BY Zenon DEF ContainersOfPod
      <4>5. SumFunctionOnSet(ContainerValues(m)', D) = 0
        <5> HIDE DEF D
        <5> QED
          BY <4>3, <4>4, Zenon DEF SumLaws
      <4>6. PodTotal(p, m, {c \in ContainersOfPod(p) : ContainerKey(c) \notin todo})' = 0
        BY <3>3, <3>6, <4>5, Zenon DEF PodTotal, ContainersOfPod
      <4> QED
        BY <1>2, <3>1, <3>3, <3>4, <3>6, <4>1, <4>2, <4>6, Zenon
    <3> QED
      BY <3>5, <3>6, Zenon
  <2> QED
    BY <1>1, <2>1, Zenon DEF PodsAggregated, Late
<1>30. NamespacesAggregated' /\ ClusterAggregated'
  BY <1>1, <1>2, <1>4, <1>6, Zenon DEF ProcInv, NamespacesAggregated, ClusterAggregated, Early, Late
<1> QED
  BY <1>8, <1>10, <1>20, <1>30, Zenon DEF ProcInv

-----------------------------------------------------------------------------
(* The aggregators, and the enricher that follows them                     *)

\* What one turn of the pod aggregator does: the metrics of the container at k
\* are added to those of its pod.
Aggregated(k) ==
    LET p == PodOf(k)
        key == PodKey(p)
    IN  /\ batch' \in Sets /\ made' \in Sets
        /\ \A l \in Keys : Has(batch', l) = Has(batch, l)
        /\ \A l \in Keys : l # key => batch'[l] = batch[l] /\ made'[l] = made[l]
        /\ Has(made', key) = ~Has(batch, key)
        /\ \A m \in Summed :
              LET old == Figure(PodSet(p), key, m)
                  new == Figure(PodSet(p)', key, m)
                  add == Figure(batch, k, m)
              IN  /\ new = IF add = None THEN old
                           ELSE IF old = None THEN add
                           ELSE IF <<key, m>> \in required THEN old + add ELSE old
                  /\ <<key, m>> \in required' <=> <<key, m>> \in required \/ (old = None /\ new # None)
        /\ required' \subseteq {PodKey(q) : q \in Pods} \X Metrics
        /\ \A q \in Pods : \A m \in Metrics : q # p => (<<PodKey(q), m>> \in required' <=> <<PodKey(q), m>> \in required)

\* A turn of the pod aggregator does just that.
LEMMA AggregatedTurn ==
    ASSUME ProcInv, NEW k \in Keys, AggregatePod(k)
    PROVE  Aggregated(k)
<1> DEFINE p == PodOf(k)
           key == PodKey(p)
           pod == IF Has(batch, key) THEN batch[key]
                  ELSE IF Has(made, key) THEN made[key] ELSE PodMetricSet(batch[k])
           values == AggregatedValues(pod, batch[k], key)
           new == [pod EXCEPT !.values = values]
<1>1. k \in todo /\ Has(batch, k) /\ k[1] = "container" /\ stage = "podAggregator"
  BY Zenon DEF ProcInv, ProcTypes, AggregatePod, Turn, KeysOf, RangeOf
<1>2. /\ batch' = (IF Has(batch, key) THEN [batch EXCEPT ![key] = new] ELSE batch)
      /\ made' = (IF Has(batch, key) THEN made ELSE [made EXCEPT ![key] = new])
      /\ required' = required \cup
              {<<key, m>> : m \in {n \in Metrics : pod.values[n] = None /\ new.values[n] # None}}
  BY Zenon DEF AggregatePod
<1>3. batch \in Sets /\ made \in Sets /\ required \subseteq {PodKey(q) : q \in Pods} \X Metrics
  BY Zenon DEF ProcInv, ProcTypes
<1>4. batch[k] \in MetricSet
  BY <1>1, <1>3, Zenon DEF Sets, Has
<1>5. p \in Pods
  BY <1>1, PodOfIn, Zenon
<1>6. key \in Keys
  BY <1>5, KeyKinds, Zenon
<1> HIDE DEF p, key
<1>7. pod \in MetricSet
  BY <1>3, <1>4, <1>6, EmptyIsSet, Zenon DEF Sets, Has, PodMetricSet, MetricSet
<1>8. \A m \in Metrics : PodMetricSet(batch[k]).values[m] = None
  BY <1>4, EmptyIsSet, Zenon DEF PodMetricSet, MetricSet
<1>9. \A m \in Summed : m \in Metrics /\ m \notin SkippedMetrics
  BY Zenon DEF Summed, Metrics, SkippedMetrics
<1>10. \A m \in Metrics : pod.values[m] \in Nat \cup {None} /\ batch[k].values[m] \in Nat \cup {None}
  BY <1>4, <1>7, Zenon DEF MetricSet
<1>11. \A m \in Summed : Figure(PodSet(p), key, m) = pod.values[m] /\ Figure(batch, k, m) = batch[k].values[m]
  BY <1>1, <1>8, <1>9, Zenon DEF Figure, PodSet, key
<1> HIDE DEF pod
<1>12. values \in [Metrics -> Nat \cup {None}]
  BY <1>10 DEF AggregatedValues, None
<1>13. \A m \in Summed : values[m] =
          IF batch[k].values[m] = None THEN pod.values[m]
          ELSE IF pod.values[m] = None THEN batch[k].values[m]
          ELSE IF <<key, m>> \in required THEN pod.values[m] + batch[k].values[m] ELSE pod.values[m]
  BY <1>9, Zenon DEF AggregatedValues
<1> HIDE DEF values
<1>14. new \in MetricSet /\ new.values = values
  BY <1>7, <1>12, Zenon DEF MetricSet
<1> HIDE DEF new
<1>15. new # NoSet
  BY <1>14, SetsDiffer, Zenon
<1>16. batch' \in Sets /\ made' \in Sets
  BY <1>2, <1>3, <1>14, Zenon DEF Sets
<1>17. \A l \in Keys : l # key => batch'[l] = batch[l] /\ made'[l] = made[l]
  BY <1>2, <1>3, Zenon DEF Sets
<1>18. /\ Has(batch, key) => batch'[key] = new /\ Has(batch', key) /\ made' = made
       /\ ~Has(batch, key) => batch' = batch /\ made'[key] = new /\ Has(made', key)
  BY <1>2, <1>3, <1>6, <1>15, Zenon DEF Sets, Has
<1>19. \A l \in Keys : Has(batch', l) = Has(batch, l)
  BY <1>17, <1>18, Zenon DEF Has
<1>20. Has(made, key) => ~Has(batch, key)
  BY <1>1, <1>5, Zenon DEF ProcInv, PodsAggregated, key, Summed
<1>21. Has(made', key) = ~Has(batch, key)
  BY <1>18, <1>20, Zenon DEF Has
<1>22. \A m \in Summed : Figure(PodSet(p)', key, m) = values[m]
  BY <1>14, <1>18, <1>21, Zenon DEF PodSet, Figure, key
<1>23. \A m \in Summed : <<key, m>> \in required' <=>
            <<key, m>> \in required \/ (pod.values[m] = None /\ values[m] # None)
  BY <1>2, <1>9, <1>14, Zenon
<1>24. required' \subseteq {PodKey(q) : q \in Pods} \X Metrics
  BY <1>2, <1>3, <1>5 DEF key
<1>25. \A q \in Pods : \A m \in Metrics : q # p => (<<PodKey(q), m>> \in required' <=> <<PodKey(q), m>> \in required)
  BY <1>2, KeysInjective, Zenon DEF key
<1>30. ASSUME NEW m \in Summed
       PROVE  LET old == Figure(PodSet(p), key, m)
                  now == Figure(PodSet(p)', key, m)
                  add == Figure(batch, k, m)
              IN  /\ now = IF add = None THEN old
                           ELSE IF old = None THEN add
                           ELSE IF <<key, m>> \in required THEN old + add ELSE old
                  /\ <<key, m>> \in required' <=> <<key, m>> \in required \/ (old = None /\ now # None)
  BY <1>11, <1>13, <1>22, <1>23
<1> QED
  BY <1>16, <1>17, <1>19, <1>21, <1>24, <1>25, <1>30, Zenon DEF Aggregated, p, key

\* A turn of the pod aggregator preserves the invariant.
LEMMA AggregatePodInv ==
    ASSUME SumLaws, ProcInv, NEW k \in Keys, AggregatePod(k)
    PROVE  ProcInv'
<1> DEFINE p == PodOf(k)
           key == PodKey(p)
           con == k[2]
<1>1. k \in todo /\ Has(batch, k) /\ k[1] = "container" /\ stage = "podAggregator"
  BY Zenon DEF ProcInv, ProcTypes, AggregatePod, Turn, KeysOf, RangeOf
<1>2. /\ stage' = stage /\ todo' = todo \ {k}
      /\ podLister' = podLister /\ changed' = changed /\ reported' = reported
  BY Zenon DEF AggregatePod, Turn
<1>3. Aggregated(k)
  BY AggregatedTurn, Zenon
<1>4. p \in Pods /\ k = ContainerKey(con) /\ con \in Containers /\ con[1] = p
  BY <1>1, PodOfIn, Zenon
<1>5. \A c \in Containers : ContainerKey(c) \in Keys /\ ContainerKey(c)[1] = "container"
  BY KeyKinds, Zenon
<1>6. \A q \in Pods : PodKey(q) \in Keys /\ PodKey(q)[1] = "pod"
  BY KeyKinds, Zenon
<1>7. /\ \A n \in Namespaces : NsKey(n) \in Keys /\ NsKey(n)[1] = "namespace"
      /\ ClusterKey \in Keys /\ ClusterKey[1] = "cluster"
  BY KeyKinds, Zenon
<1>8. key \in Keys /\ key[1] = "pod"
  BY <1>4, <1>6, Zenon
<1> HIDE DEF p, key, con
<1>9. \A l \in Keys : l # key => /\ batch'[l] = batch[l] /\ made'[l] = made[l]
                                 /\ Has(made', l) = Has(made, l)
                                 /\ \A m : Figure(batch', l, m) = Figure(batch, l, m) /\ Figure(made', l, m) = Figure(made, l, m)
  BY <1>3, Zenon DEF Aggregated, Has, Figure, p, key
<1>10. \A l \in Keys : Has(batch', l) = Has(batch, l)
  BY <1>3, Zenon DEF Aggregated
<1>11. ProcTypes'
  BY <1>1, <1>2, <1>3, <1>10, Zenon DEF ProcInv, ProcTypes, Aggregated, KeysOf
<1>12. \A c \in Containers : ~Has(made, ContainerKey(c))
  BY <1>1, Zenon DEF ProcInv, ReportedInv
<1>13. ContainersStay
  BY <1>1, <1>2, <1>5, <1>8, <1>9, <1>10, <1>12 DEF ContainersStay, Early
<1>14. ReportedInv' /\ PodsEarly' /\ RequestsInv'
  BY <1>13, ContainersKept, Zenon
<1>20. PodsAggregated'
  <2>1. ASSUME NEW q \in Pods, NEW m \in Summed
        PROVE  LET l == PodKey(q) IN
          /\ Has(made', l) => ~Has(batch', l)
          /\ Value(PodSet(q)', l, m) =
                PodTotal(q, m, {c \in ContainersOfPod(q) : ContainerKey(c) \notin todo})'
          /\ IF Own(q, m)' THEN Has(batch', l) /\ batch'[l].values[m] # None /\ <<l, m>> \notin required'
             ELSE Figure(PodSet(q)', l, m) # None => <<l, m>> \in required'
    <3> DEFINE l == PodKey(q)
               f == ContainerValues(m)
               D == {c \in ContainersOfPod(q) : ContainerKey(c) \notin todo}
               E == {c \in ContainersOfPod(q) : ContainerKey(c) \notin todo'}
               old == Figure(PodSet(q), l, m)
               new == Figure(PodSet(q)', l, m)
    <3>1. l \in Keys /\ m \in Metrics
      BY <1>6, Zenon DEF Summed, Metrics
    <3>2. /\ Has(made, l) => ~Has(batch, l)
          /\ Value(PodSet(q), l, m) = PodTotal(q, m, D)
          /\ IF Own(q, m) THEN Has(batch, l) /\ batch[l].values[m] # None /\ <<l, m>> \notin required
             ELSE old # None => <<l, m>> \in required
      BY <1>1, Zenon DEF ProcInv, PodsAggregated
    <3>3. Own(q, m)' = Own(q, m) /\ ContainerValues(m)' = f
      BY <1>13, ContainersKept, Zenon
    <3>4. PodTotal(q, m, {c \in ContainersOfPod(q) : ContainerKey(c) \notin todo})' = PodTotal(q, m, E)
      BY <3>3, Zenon DEF PodTotal, ContainersOfPod
    <3>5. CASE q # p
      <4>1. l # key
        BY <3>5, KeysInjective, Zenon DEF key
      <4>2. new = old
        BY <1>9, <1>10, <3>1, <4>1, Zenon DEF PodSet
      <4>3. E = D
        <5>1. \A c \in ContainersOfPod(q) : ContainerKey(c) # k
          BY <1>4, <3>5, KeysInjective, Zenon DEF ContainersOfPod
        <5> QED
          BY <1>2, <5>1, Zenon
      <4>4. <<l, m>> \in required' <=> <<l, m>> \in required
        BY <1>3, <3>1, <3>5, Zenon DEF Aggregated, p
      <4>5. Value(PodSet(q)', l, m) = PodTotal(q, m, E)
        BY <3>2, <4>2, <4>3, Zenon DEF Value
      <4>6. Has(made', l) => ~Has(batch', l)
        BY <1>9, <1>10, <3>1, <3>2, <4>1, Zenon
      <4>7. Own(q, m) => Has(batch', l) /\ batch'[l].values[m] # None
        BY <1>9, <1>10, <3>1, <3>2, <4>1, Zenon
      <4> QED
        BY <3>2, <3>3, <3>4, <4>2, <4>4, <4>5, <4>6, <4>7, Zenon
    <3>6. CASE q = p
      <4> DEFINE add == Figure(batch, k, m)
      <4>1. l = key /\ Has(made', l) = ~Has(batch', l)
        BY <1>3, <1>8, <1>10, <3>6, Zenon DEF Aggregated, p, key
      <4>2. /\ new = IF add = None THEN old
                     ELSE IF old = None THEN add
                     ELSE IF <<l, m>> \in required THEN old + add ELSE old
            /\ <<l, m>> \in required' <=> <<l, m>> \in required \/ (old = None /\ new # None)
        BY <1>3, <3>6, Zenon DEF Aggregated, p
      <4>3. add \in Nat \cup {None} /\ old \in Nat \cup {None}
        BY <1>1, <3>1, FigureType, Zenon DEF ProcInv, ProcTypes, PodSet
      <4>4. Value(PodSet(q), l, m) = (IF old = None THEN 0 ELSE old)
              /\ Value(PodSet(q)', l, m) = (IF new = None THEN 0 ELSE new)
        BY Zenon DEF Value
      <4> HIDE DEF new, old, add
      <4>5. CASE Own(q, m)
        <5>1. Has(batch, l) /\ old = batch[l].values[m] /\ old # None
          BY <3>2, <4>5, Zenon DEF old, PodSet, Figure
        <5>2. new = old /\ ~(<<l, m>> \in required')
          BY <3>2, <4>2, <4>5, <5>1, Zenon
        <5>3. Has(batch', l)
          BY <1>10, <3>1, <5>1, Zenon
        <5>4. batch'[l].values[m] # None
          BY <5>1, <5>2, <5>3, Zenon DEF new, PodSet, Figure
        <5>5. PodTotal(q, m, E) = PodTotal(q, m, D)
          BY <4>5, Zenon DEF PodTotal
        <5> QED
          BY <3>2, <3>3, <3>4, <4>1, <4>4, <4>5, <5>2, <5>3, <5>4, <5>5, Zenon
      <4>6. CASE ~Own(q, m)
        <5>1. /\ PodTotal(q, m, D) = SumFunctionOnSet(f, D)
              /\ PodTotal(q, m, E) = SumFunctionOnSet(f, E)
          BY <4>6, Zenon DEF PodTotal
        <5>2. E = D \cup {con} /\ con \notin D /\ con \in ContainersOfPod(q)
          <6>1. con \in ContainersOfPod(q)
            BY <1>4, <3>6, Zenon DEF ContainersOfPod
          <6>2. \A c : ContainerKey(c) = k <=> c = con
            BY <1>4, KeysInjective, Zenon
          <6> QED
            BY <1>1, <1>2, <6>1, <6>2, Zenon
        <5>3. D \subseteq Containers /\ \A c \in D \cup {con} : f[c] \in Int
          <6>1. D \subseteq Containers
            BY Zenon DEF ContainersOfPod
          <6>2. \A c \in Containers : f[c] \in Int
            BY ValuesAreNumbers DEF ProcInv
          <6> QED
            BY <1>4, <6>1, <6>2, Zenon DEF ContainersOfPod
        <5>4. f[con] = IF add = None THEN 0 ELSE add
          BY <1>4, Zenon DEF ContainerValues, Value, add
        <5> HIDE DEF D, E, f
        <5>5. SumFunctionOnSet(f, E) = f[con] + SumFunctionOnSet(f, D)
          BY <5>2, <5>3, Zenon DEF SumLaws
        <5>6. SumFunctionOnSet(f, D) = (IF old = None THEN 0 ELSE old)
          BY <3>2, <4>4, <5>1, Zenon
        <5>7. (IF new = None THEN 0 ELSE new) = SumFunctionOnSet(f, E)
          <6>1. CASE add = None
            BY <4>2, <4>3, <5>4, <5>5, <5>6, <6>1 DEF None
          <6>2. CASE add # None /\ old = None
            BY <4>2, <4>3, <5>4, <5>5, <5>6, <6>2 DEF None
          <6>3. CASE add # None /\ old # None
            <7>1. new = old + add
              BY <3>2, <4>2, <4>6, <6>3, Zenon DEF old
            <7> QED
              BY <4>3, <5>4, <5>5, <5>6, <6>3, <7>1 DEF None
          <6> QED
            BY <6>1, <6>2, <6>3, Zenon
        <5>8. new # None => <<l, m>> \in required'
          BY <3>2, <4>2, <4>6, Zenon DEF old
        <5> QED
          BY <3>3, <3>4, <4>1, <4>4, <4>6, <5>1, <5>7, <5>8, Zenon DEF new, E
      <4> QED
        BY <4>5, <4>6, Zenon
    <3> QED
      BY <3>5, <3>6, Zenon
  <2> QED
    BY <1>1, <1>2, <2>1, Zenon DEF PodsAggregated, Late
<1>30. NamespacesAggregated' /\ ClusterAggregated'
  <2>1. \A n \in Namespaces : ~Has(batch', NsKey(n)) /\ ~Has(made', NsKey(n))
    BY <1>1, <1>7, <1>8, <1>9, <1>10, Zenon DEF ProcInv, NamespacesAggregated
  <2>2. ~Has(made', ClusterKey)
    BY <1>1, <1>7, <1>8, <1>9, Zenon DEF ProcInv, ClusterAggregated
  <2> QED
    BY <1>1, <1>2, <2>1, <2>2, Zenon DEF NamespacesAggregated, ClusterAggregated, Late
<1> QED
  BY <1>11, <1>14, <1>20, <1>30, Zenon DEF ProcInv

\* The end of the pod aggregator's range.
LEMMA FinishPodsInv ==
    ASSUME SumLaws, ProcInv, Finish("podAggregator", "namespaceAggregator", {"pod"})
    PROVE  ProcInv'
<1>0. Merges("podAggregator", "namespaceAggregator", {"pod"})
  BY FinishMerges, Zenon DEF ProcInv, Stages, Late, RangeOf
<1>1. /\ ProcTypes' /\ todo' = KeysOf(batch', {"pod"})
      /\ stage = "podAggregator" /\ todo = {} /\ stage' = "namespaceAggregator"
      /\ podLister' = podLister /\ changed' = changed /\ reported' = reported
  BY <1>0, Zenon DEF Merges
<1>2. \A k \in Keys : Has(batch', k) = (Has(batch, k) \/ Has(made, k)) /\ ~Has(made', k)
  BY <1>0, Zenon DEF Merges
<1>3. \A k \in Keys : \A m \in Metrics :
          /\ Figure(batch', k, m) = IF Has(made, k) THEN Figure(made, k, m) ELSE Figure(batch, k, m)
          /\ Figure(made', k, m) = None
  BY <1>0, Zenon DEF Merges
<1>4. /\ \A c \in Containers : ContainerKey(c) \in Keys
      /\ \A q \in Pods : PodKey(q) \in Keys /\ PodKey(q)[1] = "pod"
      /\ \A n \in Namespaces : NsKey(n) \in Keys
      /\ ClusterKey \in Keys
  BY KeyKinds, Zenon
<1>5. \A m \in Summed : m \in Metrics
  BY Zenon DEF Metrics, Summed
<1>6. \A c \in Containers : ~Has(made, ContainerKey(c))
  BY <1>1, Zenon DEF ProcInv, ReportedInv
<1>7. ContainersStay
  BY <1>1, <1>2, <1>3, <1>4, <1>5, <1>6, Zenon DEF ContainersStay, Early
<1>8. ReportedInv' /\ PodsEarly' /\ RequestsInv'
  BY <1>7, ContainersKept, Zenon
<1>10. PodsAggregated'
  <2>1. ASSUME NEW p \in Pods, NEW m \in Summed
        PROVE  Value(batch', PodKey(p), m) = PodTotal(p, m, ContainersOfPod(p))'
    <3> DEFINE k == PodKey(p)
    <3>1. /\ Has(made, k) => ~Has(batch, k)
          /\ Value(PodSet(p), k, m) =
                PodTotal(p, m, {c \in ContainersOfPod(p) : ContainerKey(c) \notin todo})
      BY <1>1, Zenon DEF ProcInv, PodsAggregated
    <3>2. {c \in ContainersOfPod(p) : ContainerKey(c) \notin todo} = ContainersOfPod(p)
      BY <1>1, Zenon
    <3>3. Figure(batch', k, m) = Figure(PodSet(p), k, m)
      BY <1>3, <1>4, <1>5, <3>1, Zenon DEF PodSet, Figure
    <3>4. PodTotal(p, m, ContainersOfPod(p))' = PodTotal(p, m, ContainersOfPod(p))
      BY <1>7, ContainersKept, Zenon DEF PodTotal, ContainersOfPod
    <3> QED
      BY <3>1, <3>2, <3>3, <3>4, Zenon DEF Value
  <2> QED
    BY <1>1, <2>1, Zenon DEF PodsAggregated
<1>20. NamespacesAggregated'
  <2>1. \A n \in Namespaces : ~Has(batch', NsKey(n))
    BY <1>1, <1>2, <1>4, Zenon DEF ProcInv, NamespacesAggregated
  <2>2. ASSUME NEW n \in Namespaces, NEW m \in Summed
        PROVE  Value(made', NsKey(n), m) =
                  SumFunctionOnSet(PodValues(m), {p \in PodsOf(n) : PodKey(p) \notin todo})'
    <3> DEFINE D == {p \in PodsOf(n) : PodKey(p) \notin todo'}
    <3>1. \A p \in D : (PodValues(m)')[p] = 0
      <4> TAKE p \in D
      <4>1. p \in Pods /\ PodKey(p) \notin todo'
        BY Zenon DEF PodsOf
      <4>2. ~Has(batch', PodKey(p))
        BY <1>1, <1>4, <4>1, Zenon DEF KeysOf
      <4> QED
        BY <4>1, <4>2, Zenon DEF PodValues, Value, Figure
    <3>2. D \subseteq Pods
      BY Zenon DEF PodsOf
    <3>3. SumFunctionOnSet(PodValues(m)', D) = 0
      <4> HIDE DEF D
      <4> QED
        BY <3>1, <3>2, Zenon DEF SumLaws
    <3>4. Value(made', NsKey(n), m) = 0
      BY <1>3, <1>4, <1>5, Zenon DEF Value
    <3> QED
      BY <3>3, <3>4, Zenon DEF PodsOf
  <2> QED
    BY <1>1, <2>1, <2>2, Zenon DEF NamespacesAggregated, Late
<1>30. ClusterAggregated'
  BY <1>1, <1>2, <1>4, Zenon DEF ClusterAggregated
<1> QED
  BY <1>1, <1>8, <1>10, <1>20, <1>30, Zenon DEF ProcInv

-----------------------------------------------------------------------------

\* Once the pods are aggregated, a step that leaves their metrics alone.
LEMMA PodsKept ==
    ASSUME ProcInv, ContainersStay, stage \in Late, stage' \in Late,
           \A p \in Pods : \A m \in Summed : Figure(batch', PodKey(p), m) = Figure(batch, PodKey(p), m)
    PROVE  PodsAggregated' /\ \A m \in Summed : PodValues(m)' = PodValues(m)
<1>1. \A m \in Summed : PodValues(m)' = PodValues(m)
  BY Zenon DEF PodValues, Value
<1>2. ASSUME NEW p \in Pods, NEW m \in Summed
      PROVE  Value(batch', PodKey(p), m) = PodTotal(p, m, ContainersOfPod(p))'
  <2>1. PodTotal(p, m, ContainersOfPod(p))' = PodTotal(p, m, ContainersOfPod(p))
    BY ContainersKept, Zenon DEF PodTotal, ContainersOfPod
  <2> QED
    BY <2>1, Zenon DEF Value, ProcInv, PodsAggregated
<1>3. stage' # "podAggregator"
  BY Zenon DEF Late
<1> QED
  BY <1>1, <1>2, <1>3, Zenon DEF PodsAggregated

\* Likewise for the namespaces.
LEMMA NamespacesKept ==
    ASSUME ProcInv, {stage, stage'} \subseteq Late \ {"namespaceAggregator"},
           \A m \in Summed : PodValues(m)' = PodValues(m),
           \A n \in Namespaces : ~Has(made', NsKey(n)),
           \A n \in Namespaces : \A m \in Summed : Figure(batch', NsKey(n), m) = Figure(batch, NsKey(n), m)
    PROVE  NamespacesAggregated' /\ \A m \in Summed : NamespaceValues(m)' = NamespaceValues(m)
<1>1. \A m \in Summed : NamespaceValues(m)' = NamespaceValues(m)
  BY Zenon DEF NamespaceValues, Value
<1>2. ASSUME NEW n \in Namespaces, NEW m \in Summed
      PROVE  Value(batch', NsKey(n), m) = SumFunctionOnSet(PodValues(m), PodsOf(n))'
  <2>1. SumFunctionOnSet(PodValues(m), PodsOf(n))' = SumFunctionOnSet(PodValues(m), PodsOf(n))
    BY Zenon DEF PodsOf
  <2> QED
    BY <2>1, Zenon DEF Value, ProcInv, NamespacesAggregated
<1>3. stage' \notin Early \cup {"podAggregator", "namespaceAggregator"}
  BY Zenon DEF Late, Early
<1> QED
  BY <1>1, <1>2, <1>3, Zenon DEF NamespacesAggregated

\* What aggregate returns.
LEMMA AggregateFacts ==
    ASSUME NEW src \in MetricSet, NEW dst \in MetricSet, NEW metrics
    PROVE  /\ Aggregate(src, dst, metrics) \in MetricSet
           /\ Aggregate(src, dst, metrics) # NoSet
           /\ \A m \in Metrics : Aggregate(src, dst, metrics).values[m] =
                 IF m \notin metrics \/ src.values[m] = None THEN dst.values[m]
                 ELSE IF dst.values[m] = None THEN src.values[m]
                 ELSE dst.values[m] + src.values[m]
<1>1. \A m \in Metrics : src.values[m] \in Nat \cup {None} /\ dst.values[m] \in Nat \cup {None}
  BY Zenon DEF MetricSet
<1> DEFINE values == [m \in Metrics |->
              IF m \notin metrics \/ src.values[m] = None THEN dst.values[m]
              ELSE IF dst.values[m] = None THEN src.values[m]
              ELSE dst.values[m] + src.values[m]]
<1>2. values \in [Metrics -> Nat \cup {None}]
  BY <1>1 DEF None
<1>3. Aggregate(src, dst, metrics) = [dst EXCEPT !.values = values]
  BY Zenon DEF Aggregate
<1>4. \A m \in Metrics : values[m] =
                 IF m \notin metrics \/ src.values[m] = None THEN dst.values[m]
                 ELSE IF dst.values[m] = None THEN src.values[m]
                 ELSE dst.values[m] + src.values[m]
  BY Zenon
<1> HIDE DEF values
<1>5. Aggregate(src, dst, metrics) \in MetricSet /\ Aggregate(src, dst, metrics).values = values
  BY <1>2, <1>3, Zenon DEF MetricSet
<1> QED
  BY <1>4, <1>5, SetsDiffer, Zenon

\* A set that takes the metrics of another one: the set made under key, or an
\* empty one, with those of the set at k.
LEMMA Collected ==
    ASSUME ProcTypes, NEW k \in Keys, Has(batch, k), NEW key \in Keys, NEW uid \in BOOLEAN,
           made' = [made EXCEPT ![key] = Aggregate(batch[k],
                       IF Has(made, key) THEN made[key] ELSE EmptySet(FALSE, uid), Summed)]
    PROVE  /\ made' \in Sets
           /\ \A l \in Keys : l # key => made'[l] = made[l]
           /\ \A m \in Summed : Value(made', key, m) = Value(batch, k, m) + Value(made, key, m)
<1> DEFINE dst == IF Has(made, key) THEN made[key] ELSE EmptySet(FALSE, uid)
           new == Aggregate(batch[k], dst, Summed)
<1>1. batch[k] \in MetricSet /\ made \in Sets
  BY Zenon DEF ProcTypes, Sets, Has
<1>2. dst \in MetricSet
  BY <1>1, EmptyIsSet, Zenon DEF Sets, Has
<1>3. \A m \in Summed : m \in Metrics
  BY Zenon DEF Summed, Metrics
<1>4. \A m \in Summed : dst.values[m] = Figure(made, key, m) /\ batch[k].values[m] = Figure(batch, k, m)
  BY <1>3, EmptyIsSet, Zenon DEF Figure
<1>5. made' = [made EXCEPT ![key] = new]
  BY Zenon
<1> HIDE DEF dst
<1>6. /\ new \in MetricSet /\ new # NoSet
      /\ \A m \in Summed : new.values[m] =
                 IF batch[k].values[m] = None THEN dst.values[m]
                 ELSE IF dst.values[m] = None THEN batch[k].values[m]
                 ELSE dst.values[m] + batch[k].values[m]
  BY <1>1, <1>2, <1>3, AggregateFacts
<1> HIDE DEF new
<1>7. made' \in Sets /\ made'[key] = new /\ \A l \in Keys : l # key => made'[l] = made[l]
  BY <1>1, <1>5, <1>6 DEF Sets
<1>8. ASSUME NEW m \in Summed
      PROVE  Value(made', key, m) = Value(batch, k, m) + Value(made, key, m)
  <2> DEFINE old == Figure(made, key, m)
             add == Figure(batch, k, m)
  <2>1. old \in Nat \cup {None} /\ add \in Nat \cup {None}
    BY <1>1, <1>3, FigureType, Zenon DEF ProcTypes
  <2>2. Figure(made', key, m) = IF add = None THEN old ELSE IF old = None THEN add ELSE old + add
    <3>1. Figure(made', key, m) = new.values[m]
      BY <1>6, <1>7, Zenon DEF Figure, Has
    <3>2. dst.values[m] = old /\ batch[k].values[m] = add
      BY <1>4, Zenon
    <3> HIDE DEF old, add
    <3> QED
      BY <1>6, <3>1, <3>2, Zenon
  <2> HIDE DEF old, add
  <2> QED
    BY <2>1, <2>2 DEF Value, old, add, None
<1> QED
  BY <1>7, <1>8, Zenon

\* A turn of the namespace aggregator preserves the invariant.
LEMMA AggregateNamespaceInv ==
    ASSUME SumLaws, ProcInv, NEW k \in Keys, AggregateNamespace(k)
    PROVE  ProcInv'
<1> DEFINE p == PodOf(k)
           key == NsKey(p[1])
<1>1. k \in todo /\ Has(batch, k) /\ k[1] = "pod" /\ stage = "namespaceAggregator"
  BY Zenon DEF ProcInv, ProcTypes, AggregateNamespace, Turn, KeysOf, RangeOf
<1>2. /\ stage' = stage /\ todo' = todo \ {k} /\ batch' = batch /\ required' = required
      /\ podLister' = podLister /\ changed' = changed /\ reported' = reported
  BY Zenon DEF AggregateNamespace, Turn
<1>3. p \in Pods /\ k = PodKey(p)
  BY <1>1, PodOfIn, Zenon
<1>4. key \in Keys /\ p[1] \in Namespaces /\ key = NamespaceKey(p)
  BY <1>3, KeyKinds, Zenon DEF Namespaces, NsKey, NamespaceKey
<1>5. batch[k].uid \in BOOLEAN
  BY <1>1, Zenon DEF ProcInv, ProcTypes, Sets, Has, MetricSet
<1>6. made' = [made EXCEPT ![key] = Aggregate(batch[k],
                  IF Has(made, key) THEN made[key] ELSE EmptySet(FALSE, batch[k].uid), Summed)]
  BY <1>4, Zenon DEF AggregateNamespace, Summed
<1> HIDE DEF p, key
<1>7. /\ made' \in Sets
      /\ \A l \in Keys : l # key => made'[l] = made[l]
      /\ \A m \in Summed : Value(made', key, m) = Value(batch, k, m) + Value(made, key, m)
  BY <1>1, <1>4, <1>5, <1>6, Collected, Zenon DEF ProcInv
<1>8. ProcTypes'
  BY <1>1, <1>2, <1>7, Zenon DEF ProcInv, ProcTypes, KeysOf, Has
<1>9. /\ \A c \in Containers : ContainerKey(c) \in Keys /\ ContainerKey(c)[1] = "container"
      /\ \A q \in Pods : PodKey(q) \in Keys /\ PodKey(q)[1] = "pod"
      /\ \A n \in Namespaces : NsKey(n) \in Keys /\ NsKey(n)[1] = "namespace"
      /\ ClusterKey \in Keys /\ ClusterKey[1] = "cluster"
  BY KeyKinds, Zenon
<1>10. key[1] = "namespace"
  BY <1>4, <1>9, Zenon DEF key
<1>11. \A l \in Keys : l # key => Has(made', l) = Has(made, l)
  BY <1>7, Zenon DEF Has
<1>12. ContainersStay
  <2>1. \A c \in Containers : ~Has(made', ContainerKey(c))
    BY <1>1, <1>9, <1>10, <1>11, Zenon DEF ProcInv, ReportedInv
  <2> QED
    BY <1>1, <1>2, <2>1, Zenon DEF ContainersStay, Early, Has, Figure
<1>13. ReportedInv' /\ PodsEarly' /\ RequestsInv'
  BY <1>12, ContainersKept, Zenon
<1>14. PodsAggregated' /\ \A m \in Summed : PodValues(m)' = PodValues(m)
  BY <1>1, <1>2, <1>12, PodsKept, Zenon DEF Late
<1>15. ClusterAggregated'
  <2>1. ~Has(made', ClusterKey)
    BY <1>1, <1>9, <1>10, <1>11, Zenon DEF ProcInv, ClusterAggregated
  <2>2. \A q \in Pods : ~Has(made', PodKey(q))
    BY <1>1, <1>9, <1>10, <1>11, Zenon DEF ProcInv, ClusterAggregated, Late
  <2> QED
    BY <1>1, <1>2, <2>1, <2>2, Zenon DEF ClusterAggregated
<1>20. NamespacesAggregated'
  <2>1. \A n \in Namespaces : ~Has(batch', NsKey(n))
    BY <1>1, <1>2, Zenon DEF ProcInv, NamespacesAggregated
  <2>2. ASSUME NEW n \in Namespaces, NEW m \in Summed
        PROVE  Value(made', NsKey(n), m) =
                  SumFunctionOnSet(PodValues(m), {q \in PodsOf(n) : PodKey(q) \notin todo})'
    <3> DEFINE f == PodValues(m)
               D == {q \in PodsOf(n) : PodKey(q) \notin todo}
               E == {q \in PodsOf(n) : PodKey(q) \notin todo'}
    <3>1. Value(made, NsKey(n), m) = SumFunctionOnSet(f, D)
      BY <1>1, Zenon DEF ProcInv, NamespacesAggregated
    <3>2. SumFunctionOnSet(PodValues(m), {q \in PodsOf(n) : PodKey(q) \notin todo})' = SumFunctionOnSet(f, E)
      BY <1>14, Zenon DEF PodsOf
    <3>3. \A q : PodKey(q) = k <=> q = p
      BY <1>3, KeysInjective, Zenon
    <3>4. CASE n # p[1]
      <4>1. NsKey(n) # key
        BY <3>4, KeysInjective, Zenon DEF key
      <4>2. Value(made', NsKey(n), m) = Value(made, NsKey(n), m)
        BY <1>7, <1>9, <4>1, Zenon DEF Value, Figure, Has
      <4>3. E = D
        BY <1>2, <3>3, <3>4, Zenon DEF PodsOf
      <4> QED
        BY <3>1, <3>2, <4>2, <4>3, Zenon
    <3>5. CASE n = p[1]
      <4>1. NsKey(n) = key
        BY <3>5, Zenon DEF key
      <4>2. E = D \cup {p} /\ p \notin D /\ p \in PodsOf(n)
        <5>1. p \in PodsOf(n)
          BY <1>3, <3>5, Zenon DEF PodsOf
        <5> QED
          BY <1>1, <1>2, <3>3, <5>1, Zenon
      <4>3. D \subseteq Pods /\ \A q \in D \cup {p} : f[q] \in Int
        <5>1. D \subseteq Pods
          BY Zenon DEF PodsOf
        <5>2. \A q \in Pods : f[q] \in Int
          BY ValuesAreNumbers DEF ProcInv
        <5> QED
          BY <4>2, <5>1, <5>2, Zenon DEF PodsOf
      <4>4. f[p] = Value(batch, k, m)
        BY <1>3, Zenon DEF PodValues
      <4> HIDE DEF D, E, f
      <4>5. SumFunctionOnSet(f, E) = f[p] + SumFunctionOnSet(f, D)
        BY <4>2, <4>3, Zenon DEF SumLaws
      <4> QED
        BY <1>7, <3>1, <3>2, <4>1, <4>4, <4>5, Zenon DEF E
    <3> QED
      BY <3>4, <3>5, Zenon
  <2> QED
    BY <1>1, <1>2, <2>1, <2>2, Zenon DEF NamespacesAggregated, Late
<1> QED
  BY <1>8, <1>13, <1>14, <1>15, <1>20, Zenon DEF ProcInv

\* The end of the namespace aggregator's range.
LEMMA FinishNamespacesInv ==
    ASSUME ProcInv, Finish("namespaceAggregator", "nodeAggregator", {"pod"})
    PROVE  ProcInv'
<1>0. Merges("namespaceAggregator", "nodeAggregator", {"pod"})
  BY FinishMerges, Zenon DEF ProcInv, Stages, Late, RangeOf
<1>1. /\ ProcTypes'
      /\ stage = "namespaceAggregator" /\ todo = {} /\ stage' = "nodeAggregator"
      /\ podLister' = podLister /\ changed' = changed /\ reported' = reported
  BY <1>0, Zenon DEF Merges
<1>2. \A k \in Keys : Has(batch', k) = (Has(batch, k) \/ Has(made, k)) /\ ~Has(made', k)
  BY <1>0, Zenon DEF Merges
<1>3. \A k \in Keys : \A m \in Metrics :
          /\ Figure(batch', k, m) = IF Has(made, k) THEN Figure(made, k, m) ELSE Figure(batch, k, m)
          /\ Figure(made', k, m) = None
  BY <1>0, Zenon DEF Merges
<1>4. /\ \A c \in Containers : ContainerKey(c) \in Keys
      /\ \A q \in Pods : PodKey(q) \in Keys
      /\ \A n \in Namespaces : NsKey(n) \in Keys
      /\ ClusterKey \in Keys
  BY KeyKinds, Zenon
<1>5. \A m \in Summed : m \in Metrics
  BY Zenon DEF Metrics, Summed
<1>6. \A c \in Containers : ~Has(made, ContainerKey(c))
  BY <1>1, Zenon DEF ProcInv, ReportedInv
<1>7. \A q \in Pods : ~Has(made, PodKey(q))
  BY <1>1, Zenon DEF ProcInv, ClusterAggregated, Late
<1>8. ContainersStay
  BY <1>1, <1>2, <1>3, <1>4, <1>5, <1>6, Zenon DEF ContainersStay, Early
<1>9. ReportedInv' /\ PodsEarly' /\ RequestsInv'
  BY <1>8, ContainersKept, Zenon
<1>10. PodsAggregated' /\ \A m \in Summed : PodValues(m)' = PodValues(m)
  BY <1>1, <1>3, <1>4, <1>5, <1>7, <1>8, PodsKept, Zenon DEF Late
<1>20. NamespacesAggregated'
  <2>1. ASSUME NEW n \in Namespaces, NEW m \in Summed
        PROVE  Value(batch', NsKey(n), m) = SumFunctionOnSet(PodValues(m), PodsOf(n))'
    <3>1. ~Has(batch, NsKey(n)) /\ Value(made, NsKey(n), m) =
              SumFunctionOnSet(PodValues(m), {p \in PodsOf(n) : PodKey(p) \notin todo})
      BY <1>1, Zenon DEF ProcInv, NamespacesAggregated
    <3>2. {p \in PodsOf(n) : PodKey(p) \notin todo} = PodsOf(n)
      BY <1>1, Zenon
    <3>3. SumFunctionOnSet(PodValues(m), PodsOf(n))' = SumFunctionOnSet(PodValues(m), PodsOf(n))
      BY <1>10, Zenon DEF PodsOf
    <3>4. Figure(batch', NsKey(n), m) = Figure(made, NsKey(n), m)
      BY <1>3, <1>4, <1>5, <3>1, Zenon DEF Figure
    <3> QED
      BY <3>1, <3>2, <3>3, <3>4, Zenon DEF Value
  <2> QED
    BY <1>1, <1>2, <1>4, <2>1, Zenon DEF NamespacesAggregated, Early
<1>30. ClusterAggregated'
  BY <1>1, <1>2, <1>4, Zenon DEF ClusterAggregated
<1> QED
  BY <1>1, <1>9, <1>10, <1>20, <1>30, Zenon DEF ProcInv

\* A turn of the node aggregator changes the node's set only.
LEMMA AggregateNodeInv ==
    ASSUME ProcInv, NEW k \in Keys, AggregateNode(k)
    PROVE  ProcInv'
<1>1. k \in todo /\ Has(batch, k) /\ stage = "nodeAggregator"
  BY Zenon DEF ProcInv, ProcTypes, AggregateNode, Turn, KeysOf, RangeOf
<1>2. /\ stage' = stage /\ todo' = todo \ {k} /\ made' = made /\ required' = required
      /\ podLister' = podLister /\ changed' = changed /\ reported' = reported
  BY Zenon DEF AggregateNode, Turn
<1>3. batch \in Sets /\ batch[k] \in MetricSet
  BY <1>1, Zenon DEF ProcInv, ProcTypes, Sets, Has
<1>4. /\ \A c \in Containers : ContainerKey(c) \in Keys /\ ContainerKey(c)[1] = "container"
      /\ \A q \in Pods : PodKey(q) \in Keys /\ PodKey(q)[1] = "pod"
      /\ \A n \in Namespaces : NsKey(n) \in Keys /\ NsKey(n)[1] = "namespace"
      /\ ClusterKey \in Keys /\ ClusterKey[1] = "cluster"
      /\ NodeKey \in Keys /\ NodeKey[1] = "node"
  BY KeyKinds, Zenon
<1>5. /\ batch' \in Sets
      /\ \A l \in Keys : Has(batch', l) = Has(batch, l)
      /\ \A l \in Keys : l # NodeKey => batch'[l] = batch[l]
  <2>1. CASE batch' = batch
    BY <1>3, <2>1, Zenon
  <2>2. CASE Has(batch, NodeKey) /\ batch' = [batch EXCEPT ![NodeKey] = Aggregate(batch[k], batch[NodeKey], {"request"})]
    <3> DEFINE new == Aggregate(batch[k], batch[NodeKey], {"request"})
    <3>1. batch[NodeKey] \in MetricSet
      BY <1>3, <1>4, <2>2, Zenon DEF Sets, Has
    <3>2. new \in MetricSet /\ new # NoSet
      BY <1>3, <3>1, AggregateFacts, Zenon
    <3> HIDE DEF new
    <3> QED
      BY <1>3, <1>4, <2>2, <3>2, Zenon DEF Sets, Has, new
  <2> QED
    BY <2>1, <2>2, Zenon DEF AggregateNode
<1>6. ProcTypes'
  BY <1>1, <1>2, <1>5, Zenon DEF ProcInv, ProcTypes, KeysOf
<1>7. \A l \in Keys : l # NodeKey => \A m : Figure(batch', l, m) = Figure(batch, l, m)
  BY <1>5, Zenon DEF Figure, Has
<1>8. ContainersStay
  <2>1. \A c \in Containers : ~Has(made', ContainerKey(c))
    BY <1>1, <1>2, Zenon DEF ProcInv, ReportedInv
  <2> QED
    BY <1>1, <1>2, <1>4, <1>5, <1>7, <2>1, Zenon DEF ContainersStay, Early
<1>9. ReportedInv' /\ PodsEarly' /\ RequestsInv'
  BY <1>8, ContainersKept, Zenon
<1>10. PodsAggregated' /\ \A m \in Summed : PodValues(m)' = PodValues(m)
  BY <1>1, <1>2, <1>4, <1>7, <1>8, PodsKept, Zenon DEF Late
<1>11. NamespacesAggregated'
  <2>1. \A n \in Namespaces : ~Has(made', NsKey(n))
    BY <1>1, <1>2, Zenon DEF ProcInv, NamespacesAggregated
  <2> QED
    BY <1>1, <1>2, <1>4, <1>7, <1>10, <2>1, NamespacesKept, Zenon DEF Late
<1>12. ClusterAggregated'
  BY <1>1, <1>2, Zenon DEF ProcInv, ClusterAggregated
<1> QED
  BY <1>6, <1>9, <1>10, <1>11, <1>12, Zenon DEF ProcInv

\* The end of the node aggregator's range.
LEMMA FinishNodeInv ==
    ASSUME SumLaws, ProcInv, Finish("nodeAggregator", "clusterAggregator", {"namespace"})
    PROVE  ProcInv'
<1>0. Merges("nodeAggregator", "clusterAggregator", {"namespace"})
  BY FinishMerges, Zenon DEF ProcInv, Stages, Late, RangeOf
<1>1. /\ ProcTypes' /\ todo' = KeysOf(batch', {"namespace"})
      /\ stage = "nodeAggregator" /\ todo = {} /\ stage' = "clusterAggregator"
      /\ podLister' = podLister /\ changed' = changed /\ reported' = reported
  BY <1>0, Zenon DEF Merges
<1>2. \A k \in Keys : Has(batch', k) = (Has(batch, k) \/ Has(made, k)) /\ ~Has(made', k)
  BY <1>0, Zenon DEF Merges
<1>3. \A k \in Keys : \A m \in Metrics :
          /\ Figure(batch', k, m) = IF Has(made, k) THEN Figure(made, k, m) ELSE Figure(batch, k, m)
          /\ Figure(made', k, m) = None
  BY <1>0, Zenon DEF Merges
<1>4. /\ \A c \in Containers : ContainerKey(c) \in Keys
      /\ \A q \in Pods : PodKey(q) \in Keys
      /\ \A n \in Namespaces : NsKey(n) \in Keys /\ NsKey(n)[1] = "namespace"
      /\ ClusterKey \in Keys
  BY KeyKinds, Zenon
<1>5. \A m \in Summed : m \in Metrics
  BY Zenon DEF Metrics, Summed
<1>6. \A c \in Containers : ~Has(made, ContainerKey(c))
  BY <1>1, Zenon DEF ProcInv, ReportedInv
<1>7. \A q \in Pods : ~Has(made, PodKey(q))
  BY <1>1, Zenon DEF ProcInv, ClusterAggregated, Late
<1>8. ContainersStay
  BY <1>1, <1>2, <1>3, <1>4, <1>5, <1>6, Zenon DEF ContainersStay, Early
<1>9. ReportedInv' /\ PodsEarly' /\ RequestsInv'
  BY <1>8, ContainersKept, Zenon
<1>10. PodsAggregated' /\ \A m \in Summed : PodValues(m)' = PodValues(m)
  BY <1>1, <1>3, <1>4, <1>5, <1>7, <1>8, PodsKept, Zenon DEF Late
<1>11. NamespacesAggregated'
  <2>1. \A n \in Namespaces : ~Has(made, NsKey(n)) /\ ~Has(made', NsKey(n))
    BY <1>1, <1>2, <1>4, Zenon DEF ProcInv, NamespacesAggregated
  <2> QED
    BY <1>1, <1>3, <1>4, <1>5, <1>10, <2>1, NamespacesKept, Zenon DEF Late
<1>20. ClusterAggregated'
  <2>1. ASSUME NEW m \in Summed
        PROVE  Value(made', ClusterKey, m) =
                  SumFunctionOnSet(NamespaceValues(m), {n \in Namespaces : NsKey(n) \notin todo})'
    <3> DEFINE D == {n \in Namespaces : NsKey(n) \notin todo'}
    <3>1. \A n \in D : (NamespaceValues(m)')[n] = 0
      <4> TAKE n \in D
      <4>1. ~Has(batch', NsKey(n))
        BY <1>1, <1>4, Zenon DEF KeysOf
      <4> QED
        BY <4>1, Zenon DEF NamespaceValues, Value, Figure
    <3>2. D \subseteq Namespaces
      BY Zenon
    <3>3. SumFunctionOnSet(NamespaceValues(m)', D) = 0
      <4> HIDE DEF D
      <4> QED
        BY <3>1, <3>2, Zenon DEF SumLaws
    <3>4. Value(made', ClusterKey, m) = 0
      BY <1>3, <1>4, <1>5, Zenon DEF Value
    <3> QED
      BY <3>3, <3>4, Zenon
  <2> QED
    BY <1>1, <1>2, <1>4, <2>1, Zenon DEF ClusterAggregated
<1> QED
  BY <1>1, <1>9, <1>10, <1>11, <1>20, Zenon DEF ProcInv

\* A turn of the cluster aggregator preserves the invariant.
LEMMA AggregateClusterInv ==
    ASSUME SumLaws, ProcInv, NEW k \in Keys, AggregateCluster(k)
    PROVE  ProcInv'
<1>1. k \in todo /\ Has(batch, k) /\ k[1] = "namespace" /\ stage = "clusterAggregator"
  BY Zenon DEF ProcInv, ProcTypes, AggregateCluster, Turn, KeysOf, RangeOf
<1>2. /\ stage' = stage /\ todo' = todo \ {k} /\ batch' = batch /\ required' = required
      /\ podLister' = podLister /\ changed' = changed /\ reported' = reported
  BY Zenon DEF AggregateCluster, Turn
<1>3. PICK ns \in Namespaces : k = NsKey(ns)
  BY <1>1, KeysByKind, Zenon
<1>4. /\ \A c \in Containers : ContainerKey(c) \in Keys /\ ContainerKey(c)[1] = "container"
      /\ \A q \in Pods : PodKey(q) \in Keys /\ PodKey(q)[1] = "pod"
      /\ \A n \in Namespaces : NsKey(n) \in Keys /\ NsKey(n)[1] = "namespace"
      /\ ClusterKey \in Keys /\ ClusterKey[1] = "cluster"
  BY KeyKinds, Zenon
<1>5. made' = [made EXCEPT ![ClusterKey] = Aggregate(batch[k],
                  IF Has(made, ClusterKey) THEN made[ClusterKey] ELSE EmptySet(FALSE, FALSE), Summed)]
  BY Zenon DEF AggregateCluster, Summed
<1>6. /\ made' \in Sets
      /\ \A l \in Keys : l # ClusterKey => made'[l] = made[l]
      /\ \A m \in Summed : Value(made', ClusterKey, m) = Value(batch, k, m) + Value(made, ClusterKey, m)
  BY <1>1, <1>4, <1>5, Collected, Zenon DEF ProcInv
<1>7. ProcTypes'
  BY <1>1, <1>2, <1>6, Zenon DEF ProcInv, ProcTypes, KeysOf, Has
<1>8. \A l \in Keys : l # ClusterKey => Has(made', l) = Has(made, l)
  BY <1>6, Zenon DEF Has
<1>9. ContainersStay
  <2>1. \A c \in Containers : ~Has(made', ContainerKey(c))
    BY <1>1, <1>4, <1>8, Zenon DEF ProcInv, ReportedInv
  <2> QED
    BY <1>1, <1>2, <2>1, Zenon DEF ContainersStay, Early, Has, Figure
<1>10. ReportedInv' /\ PodsEarly' /\ RequestsInv'
  BY <1>9, ContainersKept, Zenon
<1>11. PodsAggregated' /\ \A m \in Summed : PodValues(m)' = PodValues(m)
  BY <1>1, <1>2, <1>9, PodsKept, Zenon DEF Late
<1>12. NamespacesAggregated' /\ \A m \in Summed : NamespaceValues(m)' = NamespaceValues(m)
  <2>1. \A n \in Namespaces : ~Has(made', NsKey(n))
    BY <1>1, <1>4, <1>8, Zenon DEF ProcInv, NamespacesAggregated
  <2> QED
    BY <1>1, <1>2, <1>11, <2>1, NamespacesKept, Zenon DEF Late
<1>20. ClusterAggregated'
  <2>1. \A q \in Pods : ~Has(made', PodKey(q))
    BY <1>1, <1>4, <1>8, Zenon DEF ProcInv, ClusterAggregated, Late
  <2>2. ASSUME NEW m \in Summed
        PROVE  Value(made', ClusterKey, m) =
                  SumFunctionOnSet(NamespaceValues(m), {n \in Namespaces : NsKey(n) \notin todo})'
    <3> DEFINE f == NamespaceValues(m)
               D == {n \in Namespaces : NsKey(n) \notin todo}
               E == {n \in Namespaces : NsKey(n) \notin todo'}
    <3>1. Value(made, ClusterKey, m) = SumFunctionOnSet(f, D)
      BY <1>1, Zenon DEF ProcInv, ClusterAggregated
    <3>2. SumFunctionOnSet(NamespaceValues(m), {n \in Namespaces : NsKey(n) \notin todo})' = SumFunctionOnSet(f, E)
      BY <1>12, Zenon
    <3>3. \A n : NsKey(n) = k <=> n = ns
      BY <1>3, KeysInjective, Zenon
    <3>4. E = D \cup {ns} /\ ns \notin D
      BY <1>1, <1>2, <1>3, <3>3, Zenon
    <3>5. D \subseteq Namespaces
      BY Zenon
    <3>6. \A n \in D \cup {ns} : f[n] \in Int
      BY ValuesAreNumbers DEF ProcInv
    <3>7. f[ns] = Value(batch, k, m)
      BY <1>3, Zenon DEF NamespaceValues
    <3> HIDE DEF D, E, f
    <3>8. SumFunctionOnSet(f, E) = f[ns] + SumFunctionOnSet(f, D)
      BY <3>4, <3>5, <3>6, Zenon DEF SumLaws
    <3> QED
      BY <1>6, <3>1, <3>2, <3>7, <3>8, Zenon DEF E
  <2> QED
    BY <1>1, <1>2, <2>1, <2>2, Zenon DEF ClusterAggregated
<1> QED
  BY <1>7, <1>10, <1>11, <1>12, <1>20, Zenon DEF ProcInv

\* The end of the cluster aggregator's range.
LEMMA FinishClusterInv ==
    ASSUME ProcInv, FinishCluster
    PROVE  ProcInv'
<1> DEFINE new == IF Has(made, ClusterKey) THEN made[ClusterKey] ELSE EmptySet(FALSE, FALSE)
<1>1. /\ stage = "clusterAggregator" /\ todo = {} /\ stage' = "autoscalingEnricher" /\ todo' = todo
      /\ batch' = [batch EXCEPT ![ClusterKey] = new] /\ made' = NoSets /\ required' = required
      /\ podLister' = podLister /\ changed' = changed /\ reported' = reported
  BY Zenon DEF FinishCluster
<1>2. /\ \A c \in Containers : ContainerKey(c) \in Keys /\ ContainerKey(c)[1] = "container"
      /\ \A q \in Pods : PodKey(q) \in Keys /\ PodKey(q)[1] = "pod"
      /\ \A n \in Namespaces : NsKey(n) \in Keys /\ NsKey(n)[1] = "namespace"
      /\ ClusterKey \in Keys /\ ClusterKey[1] = "cluster"
  BY KeyKinds, Zenon
<1>3. batch \in Sets /\ made \in Sets
  BY Zenon DEF ProcInv, ProcTypes
<1>4. new \in MetricSet /\ new # NoSet /\ \A m \in Metrics : new.values[m] = Figure(made, ClusterKey, m)
  BY <1>2, <1>3, EmptyIsSet, SetsDiffer, Zenon DEF Sets, Has, Figure
<1> HIDE DEF new
<1>5. batch' \in Sets /\ batch'[ClusterKey] = new /\ \A l \in Keys : l # ClusterKey => batch'[l] = batch[l]
  BY <1>1, <1>2, <1>3, <1>4, Zenon DEF Sets
<1>6. \A k \in Keys : ~Has(made', k)
  BY <1>1, NoSetsType, Zenon
<1>7. ProcTypes'
  BY <1>1, <1>5, NoSetsType, Zenon DEF ProcInv, ProcTypes, Stages, Late
<1>8. \A l \in Keys : l # ClusterKey => /\ Has(batch', l) = Has(batch, l)
                                        /\ \A m : Figure(batch', l, m) = Figure(batch, l, m)
  BY <1>5, Zenon DEF Has, Figure
<1>9. Has(batch', ClusterKey)
  BY <1>4, <1>5, Zenon DEF Has
<1>10. ContainersStay
  BY <1>1, <1>2, <1>6, <1>8, <1>9, Zenon DEF ContainersStay, Early
<1>11. ReportedInv' /\ PodsEarly' /\ RequestsInv'
  BY <1>10, ContainersKept, Zenon
<1>12. PodsAggregated' /\ \A m \in Summed : PodValues(m)' = PodValues(m)
  BY <1>1, <1>2, <1>8, <1>10, PodsKept, Zenon DEF Late
<1>13. NamespacesAggregated' /\ \A m \in Summed : NamespaceValues(m)' = NamespaceValues(m)
  BY <1>1, <1>2, <1>6, <1>8, <1>12, NamespacesKept, Zenon DEF Late
<1>20. ClusterAggregated'
  <2>1. ASSUME NEW m \in Summed
        PROVE  Value(batch', ClusterKey, m) = SumFunctionOnSet(NamespaceValues(m), Namespaces)'
    <3>1. Value(made, ClusterKey, m) =
              SumFunctionOnSet(NamespaceValues(m), {n \in Namespaces : NsKey(n) \notin todo})
      BY <1>1, Zenon DEF ProcInv, ClusterAggregated
    <3>2. {n \in Namespaces : NsKey(n) \notin todo} = Namespaces
      BY <1>1, Zenon
    <3>3. Figure(batch', ClusterKey, m) = Figure(made, ClusterKey, m)
      <4>1. m \in Metrics
        BY Zenon DEF Summed, Metrics
      <4> QED
        BY <1>4, <1>5, <1>9, <4>1, Zenon DEF Figure
    <3> QED
      BY <1>13, <3>1, <3>2, <3>3, Zenon DEF Value
  <2> QED
    BY <1>1, <1>2, <1>6, <1>9, <2>1, Zenon DEF ClusterAggregated
<1> QED
  BY <1>7, <1>11, <1>12, <1>13, <1>20, Zenon DEF ProcInv

\* The node's autoscaling metrics are not of the batch's sets that are summed.
LEMMA EnrichNodeInv ==
    ASSUME ProcInv, EnrichNode
    PROVE  ProcInv'
<1>1. /\ stage = "autoscalingEnricher" /\ stage' = "done" /\ todo' = todo
      /\ batch' = batch /\ made' = made /\ required' = required
      /\ podLister' = podLister /\ changed' = changed /\ reported' = reported
  BY Zenon DEF EnrichNode
<1>2. \A k : Has(batch', k) = Has(batch, k) /\ Has(made', k) = Has(made, k)
  BY <1>1, Zenon DEF Has
<1>3. ProcTypes'
  BY <1>1, Zenon DEF ProcInv, ProcTypes, Stages, Late, RangeOf, KeysOf, Has
<1>4. ContainersStay
  <2>1. \A c \in Containers : ~Has(made', ContainerKey(c))
    BY <1>1, <1>2, Zenon DEF ProcInv, ReportedInv
  <2> QED
    BY <1>1, <1>2, <2>1, Zenon DEF ContainersStay, Early
<1>5. ReportedInv' /\ PodsEarly' /\ RequestsInv'
  BY <1>4, ContainersKept, Zenon
<1>6. PodsAggregated' /\ \A m \in Summed : PodValues(m)' = PodValues(m)
  BY <1>1, <1>4, PodsKept, Zenon DEF Late
<1>7. NamespacesAggregated' /\ \A m \in Summed : NamespaceValues(m)' = NamespaceValues(m)
  <2>1. \A n \in Namespaces : ~Has(made', NsKey(n))
    BY <1>1, <1>2, Zenon DEF ProcInv, NamespacesAggregated
  <2> QED
    BY <1>1, <1>6, <2>1, NamespacesKept, Zenon DEF Late
<1>8. ClusterAggregated'
  <2>1. \A m \in Summed : Value(batch', ClusterKey, m) = SumFunctionOnSet(NamespaceValues(m), Namespaces)'
    BY <1>1, <1>7, Zenon DEF ProcInv, ClusterAggregated
  <2> QED
    BY <1>1, <1>2, <2>1, Zenon DEF ProcInv, ClusterAggregated, Late
<1> QED
  BY <1>3, <1>5, <1>6, <1>7, <1>8, Zenon DEF ProcInv
=============================================================================
