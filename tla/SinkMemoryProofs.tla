-------------------------- MODULE SinkMemoryProofs ---------------------------
(***************************************************************************)
(* What sinks remember from one export to the next.                        *)
(*                                                                         *)
(* The Hawkular sink's cache of the tags that the server has, for any      *)
(* number of exports and any age at which an entry is dropped, while the   *)
(* goroutines that update the tags answer in any order, fail or race.      *)
(*                                                                         *)
(* The stores of the metric sink, for any durations and any resolution.    *)
(***************************************************************************)
EXTENDS HawkularSink, MetricStores, WellFoundedInduction, TLAPS

-----------------------------------------------------------------------------
(* The Hawkular sink's cache                                               *)

\* The goroutines of an export may be under way.
Fetching == hkPhase \in {"exporting", "waiting"}

\* Only an export has goroutines, and a sink that has not been registered has done nothing.
HkTypeInv ==
    /\ runId \in Nat
    /\ seen \in Seq(SUBSET Ids)
    /\ todo \in Seq([set : HkSets, tags : HkTags])
    /\ \A u \in updaters :
          /\ u = [n |-> u.n, key |-> u.key, metric |-> u.metric, at |-> u.at, alone |-> u.alone]
          /\ u.key \in Ids /\ u.at \in {"call", "answer"}
    /\ updaters # {} => Fetching
    /\ hkPhase = "new" => expReg = NoItems /\ runId = 0 /\ seen = <<>>

\* The entries of the cache.
RegInv == \A k \in DOMAIN expReg : expReg[k] = [hash |-> expReg[k].hash, ttl |-> expReg[k].ttl]

\* A goroutine that shares its id with no other since it began has set the tags
\* once the server has answered it.
AloneInv ==
    \A u \in updaters : u.alone =>
        /\ \A v \in updaters : v.key = u.key => v = u
        /\ u.at = "answer" => u.key \in DOMAIN tagsOf /\ tagsOf[u.key] = TagsOf(u.metric)

\* The server has answered, and the entry is about to be made.
Awaited(k) == \E u \in updaters : u.key = k /\ u.at = "answer"

\* An entry has the server's tags but for the labels, unless a goroutine is about to renew it.
TrueInv ==
    \A k \in DOMAIN expReg \ unsure : ~Awaited(k) => k \in DOMAIN tagsOf /\ expReg[k].hash.rest = tagsOf[k].rest

\* The position in seen of export r.
Place(r) == r - (runId - Len(seen))

\* The ttl of an entry is the last export that found it or made it; what an export
\* found is still in the cache, with a ttl that is no older.
SeenInv ==
    Fetching \/ hkPhase = "idle" =>
        /\ Len(seen) = IF runId < CacheAge THEN runId ELSE CacheAge
        /\ Fetching => runId > 0
        /\ \A k \in DOMAIN expReg :
              /\ expReg[k].ttl \in 0 .. runId
              /\ expReg[k].ttl > runId - Len(seen) => k \in seen[Place(expReg[k].ttl)]
              /\ hkPhase = "idle" => expReg[k].ttl + CacheAge > runId
        /\ \A i \in 1 .. Len(seen) : \A k \in seen[i] : k \in DOMAIN expReg /\ i <= Place(expReg[k].ttl)

\* The inductive invariant.
HkInv == HkTypeInv /\ RegInv /\ AloneInv /\ TrueInv /\ SeenInv
\* What is left of the metrics of an export, when the first is taken.
LEMMA HeadIn == ASSUME NEW S, NEW s \in Seq(S), s # <<>> PROVE Head(s) \in S /\ Tail(s) \in Seq(S)
OBVIOUS

\* The goroutines with one more, for the given metric.
Joined(key, m, n) ==
    {[u EXCEPT !.alone = u.key # key /\ @] : u \in updaters}
        \cup {[n |-> n, key |-> key, metric |-> m, at |-> "call", alone |-> \A u \in updaters : u.key # key]}

\* What a metric that the cache has, and one that it has not, make the export do.
Hit(key) == key \in DOMAIN expReg /\ expReg' = Touch(expReg, key) /\ Sees(key) /\ UNCHANGED updaters
Missed(key, m, n) == updaters' = Joined(key, m, n) /\ UNCHANGED <<expReg, seen>>

\* What a step of the export does to a metric's registration.
LEMMA RegisterCases ==
    ASSUME HkTypeInv, RegisterLabeledIfNecessaryInline
    PROVE  /\ todo' = Tail(todo) /\ todo # <<>>
           /\ hkPhase = "exporting"
           /\ UNCHANGED <<hkPhase, models, runId, tagsOf, unsure>>
           /\ \/ UNCHANGED <<expReg, updaters, seen>>
              \/ \E key \in Ids : Hit(key)
              \/ \E key \in Ids : \E m, n : Missed(key, m, n)
<1> DEFINE m == Head(todo)
           key == IdName(m.set)
<1>1. todo # <<>> /\ todo' = Tail(todo) /\ hkPhase = "exporting"
      /\ UNCHANGED <<hkPhase, models, runId, tagsOf, unsure>>
  BY Zenon DEF RegisterLabeledIfNecessaryInline
<1>2. CASE ~LabelFilter(m.set)
  BY <1>1, <1>2, Zenon DEF RegisterLabeledIfNecessaryInline
<1>3. CASE LabelFilter(m.set)
  <2>1. m \in [set : HkSets, tags : HkTags]
    BY <1>1, HeadIn, Zenon DEF HkTypeInv
  <2>2. key \in Ids
    BY <1>3, <2>1, Zenon DEF Ids
  <2>3. CASE ~models
    BY <1>1, <1>3, <2>3, Zenon DEF RegisterLabeledIfNecessaryInline
  <2>4. CASE models /\ CheckCache(expReg, key, CreateDefinitionFromModel(m))
    <3>1. key \in DOMAIN expReg
      BY <2>4, Zenon DEF CheckCache
    <3>2. expReg' = Touch(expReg, key) /\ Sees(key) /\ UNCHANGED updaters
      BY <1>3, <2>4, Zenon DEF RegisterLabeledIfNecessaryInline
    <3> QED BY <1>1, <2>2, <3>1, <3>2, Zenon DEF Hit
  <2>5. CASE models /\ ~CheckCache(expReg, key, CreateDefinitionFromModel(m))
    <3> DEFINE rivals == {u \in updaters : u.key = key}
    <3>1. /\ updaters' = {[u EXCEPT !.alone = u \notin rivals /\ @] : u \in updaters}
                \cup {[n |-> Len(todo), key |-> key, metric |-> m, at |-> "call", alone |-> rivals = {}]}
          /\ UNCHANGED <<expReg, seen>>
      BY <1>3, <2>5, Zenon DEF RegisterLabeledIfNecessaryInline
    <3>2. (rivals = {}) = (\A u \in updaters : u.key # key)
      BY Zenon
    <3>3. {[u EXCEPT !.alone = u \notin rivals /\ @] : u \in updaters}
          = {[u EXCEPT !.alone = u.key # key /\ @] : u \in updaters}
      BY Zenon
    <3>4. updaters' = Joined(key, m, Len(todo))
      BY <3>1, <3>2, <3>3, Zenon DEF Joined
    <3> HIDE DEF m, key, rivals
    <3>5. Missed(key, m, Len(todo))
      BY <3>1, <3>4, Zenon DEF Missed
    <3> QED BY <1>1, <2>2, <3>5, Zenon
  <2> QED BY <2>3, <2>4, <2>5, Zenon
<1> QED BY <1>2, <1>3, Zenon

\* Noting that an id was found changes the entry of this export alone.
LEMMA SeesIn ==
    ASSUME HkTypeInv, NEW key \in Ids, Sees(key), Len(seen) > 0
    PROVE  /\ seen' \in Seq(SUBSET Ids) /\ Len(seen') = Len(seen)
           /\ seen'[Len(seen)] = seen[Len(seen)] \cup {key}
           /\ \A i \in 1 .. Len(seen) : i # Len(seen) => seen'[i] = seen[i]
<1>1. seen \in Seq(SUBSET Ids)
  BY Zenon DEF HkTypeInv
<1>2. seen' = [seen EXCEPT ![Len(seen)] = @ \cup {key}]
  BY Zenon DEF Sees
<1>3. seen[Len(seen)] \cup {key} \in SUBSET Ids
  BY <1>1
<1> QED BY <1>1, <1>2, <1>3

\* Every step of the export and of its goroutines keeps the types.
LEMMA HkTypeStep == HkTypeInv /\ SeenInv /\ [HkNext]_hkVars => HkTypeInv'
<1> SUFFICES ASSUME HkTypeInv, SeenInv, [HkNext]_hkVars PROVE HkTypeInv'
  BY Zenon
<1>1. CASE HkRefuse
  BY <1>1, Zenon DEF HkRefuse, HkTypeInv, Fetching
<1>2. CASE HkRegister
  BY <1>2, Zenon DEF HkRegister, HkTypeInv, Fetching
<1>3. CASE HkExportData
  <2> DEFINE R == [set : HkSets, tags : HkTags]
  <2>1. todo' \in Seq(R)
    <3>1. PICK n \in 0 .. HkMetrics : \E ms \in [1 .. n -> R] : todo' = ms
      BY <1>3, Zenon DEF HkExportData
    <3>2. todo' \in [1 .. n -> R]
      BY <3>1, Zenon
    <3> HIDE DEF R
    <3>3. ASSUME NEW i \in 1 .. n PROVE todo'[i] \in R
      BY <3>2, Zenon
    <3>4. todo' = [i \in 1 .. n |-> todo'[i]]
      BY <3>2, Zenon
    <3> QED BY <3>3, <3>4
  <2>2. runId' \in Nat /\ updaters' = updaters /\ hkPhase = "idle" /\ Fetching'
    BY <1>3 DEF HkExportData, HkTypeInv, Fetching
  <2>3. seen' \in Seq(SUBSET Ids)
    <3> DEFINE S == SUBSET Ids
               kept == IF Len(seen) < CacheAge THEN seen ELSE Tail(seen)
    <3>1. seen' = Append(kept, {}) /\ {} \in S /\ seen \in Seq(S)
      BY <1>3, Zenon DEF HkExportData, HkTypeInv
    <3>2. Len(seen) >= CacheAge => seen # <<>>
      BY HawkularAssumption, <3>1
    <3>3. kept \in Seq(S)
      BY <3>1, <3>2, HeadIn, HawkularAssumption
    <3> HIDE DEF S, kept
    <3>4. Append(kept, {}) \in Seq(S)
      BY <3>1, <3>3
    <3> QED BY <3>1, <3>4, Zenon DEF S
  <2> QED BY <2>1, <2>2, <2>3, Zenon DEF HkTypeInv, Fetching
<1>4. CASE RegisterLabeledIfNecessaryInline
  <2>1. todo' \in Seq([set : HkSets, tags : HkTags])
    <3>1. todo # <<>> /\ todo' = Tail(todo)
      BY <1>4, RegisterCases, Zenon
    <3> QED BY <3>1, HeadIn, Zenon DEF HkTypeInv
  <2>2. runId' = runId /\ hkPhase = "exporting" /\ hkPhase' = "exporting"
    BY <1>4, RegisterCases, Zenon
  <2>3. CASE UNCHANGED <<expReg, updaters, seen>>
    BY <2>1, <2>2, <2>3, Zenon DEF HkTypeInv, Fetching
  <2>4. CASE \E key \in Ids : Hit(key)
    <3>1. PICK key \in Ids : Sees(key) /\ UNCHANGED updaters
      BY <2>4, Zenon DEF Hit
    <3>2. Len(seen) > 0
      BY <2>2, HawkularAssumption DEF SeenInv, HkTypeInv, Fetching
    <3>3. seen' \in Seq(SUBSET Ids)
      BY <3>1, <3>2, SeesIn, Zenon
    <3> QED BY <2>1, <2>2, <3>1, <3>3, Zenon DEF HkTypeInv, Fetching
  <2>5. CASE \E key \in Ids : \E m, n : Missed(key, m, n)
    <3>0. PICK key \in Ids : \E m, n : Missed(key, m, n)
      BY <2>5, Zenon
    <3>1. PICK m, n : Missed(key, m, n)
      BY <3>0, Zenon
    <3>2. ASSUME NEW v \in updaters'
          PROVE  /\ v = [n |-> v.n, key |-> v.key, metric |-> v.metric, at |-> v.at, alone |-> v.alone]
                 /\ v.key \in Ids /\ v.at \in {"call", "answer"}
      <4>1. CASE \E u \in updaters : v = [u EXCEPT !.alone = u.key # key /\ @]
        BY <4>1, Zenon DEF HkTypeInv
      <4>2. CASE v = [n |-> n, key |-> key, metric |-> m, at |-> "call",
                      alone |-> \A u \in updaters : u.key # key]
        BY <4>2, Zenon
      <4> QED BY <3>1, <4>1, <4>2, Zenon DEF Missed, Joined
    <3> QED BY <2>1, <2>2, <3>1, <3>2, Zenon DEF HkTypeInv, Fetching, Missed
  <2> QED BY <1>4, <2>3, <2>4, <2>5, RegisterCases, Zenon
<1>5. CASE HkSendData
  BY <1>5, Zenon DEF HkSendData, HkTypeInv, Fetching
<1>6. CASE HkReturn
  BY <1>6, Zenon DEF HkReturn, HkTypeInv, Fetching
<1>7. CASE HkStop
  BY <1>7, Zenon DEF HkStop, HkTypeInv, Fetching
<1>8. ASSUME NEW u \in updaters, UpdateTags(u) PROVE HkTypeInv'
  BY <1>8 DEF UpdateTags, HkTypeInv, Fetching
<1>9. ASSUME NEW u \in updaters, UpdateAnswered(u) PROVE HkTypeInv'
  <2>1. Len(seen) > 0
    BY <1>9, HawkularAssumption DEF SeenInv, HkTypeInv, Fetching
  <2>2. seen' \in Seq(SUBSET Ids)
    BY <1>9, <2>1, SeesIn, Zenon DEF UpdateAnswered, HkTypeInv
  <2> QED BY <1>9, <2>2, Zenon DEF UpdateAnswered, HkTypeInv, Fetching
<1>10. CASE UNCHANGED hkVars
  BY <1>10, Zenon DEF hkVars, HkTypeInv, Fetching
<1> QED BY <1>1, <1>2, <1>3, <1>4, <1>5, <1>6, <1>7, <1>8, <1>9, <1>10, Zenon DEF HkNext

\* pushToCache, checkCache and expireCache keep whole entries.
LEMMA RegStep == HkTypeInv /\ RegInv /\ [HkNext]_hkVars => RegInv'
<1> SUFFICES ASSUME HkTypeInv, RegInv, [HkNext]_hkVars PROVE RegInv'
  BY Zenon
<1>1. CASE UNCHANGED expReg
  BY <1>1, Zenon DEF RegInv
<1>2. CASE HkRegister
  BY <1>1, <1>2 DEF HkRegister, UpdateDefinitions, RegInv
<1>3. CASE RegisterLabeledIfNecessaryInline
  <2>1. CASE \E key \in Ids : Hit(key)
    BY <2>1, Zenon DEF Hit, Touch, RegInv
  <2> QED BY <1>1, <1>3, <2>1, RegisterCases, Zenon DEF Missed
<1>4. CASE HkReturn
  BY <1>4, Zenon DEF HkReturn, ExpireCache, Dropping, RegInv
<1>5. CASE HkStop
  BY <1>5, Zenon DEF HkStop, NoItems, RegInv
<1>6. ASSUME NEW u \in updaters, UpdateAnswered(u) PROVE RegInv'
  BY <1>6, Zenon DEF UpdateAnswered, PushToCache, Put, RegInv
<1> QED BY <1>1, <1>2, <1>3, <1>4, <1>5, <1>6, Zenon
        DEF HkNext, HkRefuse, HkExportData, HkSendData, UpdateTags, hkVars

\* A goroutine that joins takes the solitude of the others with its id.
LEMMA AloneStep == HkTypeInv /\ AloneInv /\ [HkNext]_hkVars => AloneInv'
<1> SUFFICES ASSUME HkTypeInv, AloneInv, [HkNext]_hkVars PROVE AloneInv'
  BY Zenon
<1>1. CASE UNCHANGED <<updaters, tagsOf>>
  BY <1>1, Zenon DEF AloneInv
<1>2. CASE HkRegister
  <2>1. updaters' = {}
    BY <1>2, Zenon DEF HkRegister, HkTypeInv, Fetching
  <2> QED BY <2>1, Zenon DEF AloneInv
<1>3. CASE RegisterLabeledIfNecessaryInline
  <2>1. CASE UNCHANGED updaters
    BY <1>3, <2>1, RegisterCases, Zenon DEF AloneInv
  <2>2. CASE \E key \in Ids : \E m, n : Missed(key, m, n)
    <3>0. PICK key \in Ids : \E m, n : Missed(key, m, n)
      BY <2>2, Zenon
    <3>1. PICK m, n : Missed(key, m, n)
      BY <3>0, Zenon
    <3> DEFINE new == [n |-> n, key |-> key, metric |-> m, at |-> "call",
                       alone |-> \A u \in updaters : u.key # key]
               Old(u) == [u EXCEPT !.alone = u.key # key /\ @]
    <3>2. new.key = key /\ new.at = "call" /\ (new.alone => \A u \in updaters : u.key # key)
      BY Zenon
    <3>3. ASSUME NEW u \in updaters
          PROVE  /\ Old(u).key = u.key /\ Old(u).at = u.at /\ Old(u).metric = u.metric
                 /\ Old(u).alone => u.key # key /\ u.alone
      <4>1. u = [n |-> u.n, key |-> u.key, metric |-> u.metric, at |-> u.at, alone |-> u.alone]
        BY Zenon DEF HkTypeInv
      <4>2. Old(u).alone = (u.key # key /\ u.alone)
        BY <4>1, Zenon
      <4>3. Old(u).key = u.key /\ Old(u).at = u.at /\ Old(u).metric = u.metric
        BY <4>1, Zenon
      <4> QED BY <4>2, <4>3, Zenon
    <3>4. \A v \in updaters' : v = new \/ \E u \in updaters : v = Old(u)
      BY <3>1, Zenon DEF Missed, Joined
    <3>5. tagsOf' = tagsOf
      BY <1>3, RegisterCases, Zenon
    <3> HIDE DEF new, Old
    <3> SUFFICES ASSUME NEW v \in updaters', v.alone
                 PROVE  /\ \A w \in updaters' : w.key = v.key => w = v
                        /\ v.at = "answer" => v.key \in DOMAIN tagsOf /\ tagsOf[v.key] = TagsOf(v.metric)
      BY <3>5, Zenon DEF AloneInv
    <3>6. CASE v = new
      BY <3>2, <3>3, <3>4, <3>6
    <3>7. CASE \E u \in updaters : v = Old(u)
      <4>1. PICK u \in updaters : v = Old(u)
        BY <3>7, Zenon
      <4>2. u.alone /\ u.key # key /\ v.key = u.key /\ v.at = u.at /\ v.metric = u.metric
        BY <3>3, <4>1, Zenon
      <4>3. ASSUME NEW w \in updaters', w.key = v.key PROVE w = v
        BY <3>2, <3>3, <3>4, <4>1, <4>2, <4>3 DEF AloneInv
      <4> QED BY <4>2, <4>3, Zenon DEF AloneInv
    <3> QED BY <3>4, <3>6, <3>7, Zenon
  <2> QED BY <1>3, <2>1, <2>2, RegisterCases, Zenon DEF Hit
<1>4. ASSUME NEW u \in updaters, UpdateTags(u) PROVE AloneInv'
  <2>1. u.at = "call"
    BY <1>4, Zenon DEF UpdateTags
  <2>2. CASE updaters' = updaters \ {u}
    <3>1. ASSUME NEW k \in DOMAIN tagsOf, k # u.key PROVE k \in DOMAIN tagsOf' /\ tagsOf'[k] = tagsOf[k]
      BY <1>4, <3>1, Zenon DEF UpdateTags, Put
    <3> QED BY <2>1, <2>2, <3>1, Zenon DEF AloneInv
  <2>3. CASE updaters' = (updaters \ {u}) \cup {[u EXCEPT !.at = "answer"]} /\ tagsOf' = Put(tagsOf, u.key, TagsOf(u.metric))
    <3> DEFINE a == [u EXCEPT !.at = "answer"]
    <3>1. a.key = u.key /\ a.metric = u.metric /\ a.alone = u.alone
      BY DEF HkTypeInv
    <3> HIDE DEF a
    <3>2. \A v \in updaters' : v = a \/ v \in updaters \ {u}
      BY <2>3, Zenon DEF a
    <3>3. u.key \in DOMAIN tagsOf' /\ tagsOf'[u.key] = TagsOf(u.metric)
          /\ \A k \in DOMAIN tagsOf : k \in DOMAIN tagsOf' /\ (k # u.key => tagsOf'[k] = tagsOf[k])
      BY <2>3, Zenon DEF Put
    <3> QED BY <2>1, <3>1, <3>2, <3>3 DEF AloneInv
  <2> QED BY <1>4, <2>2, <2>3, Zenon DEF UpdateTags
<1>5. ASSUME NEW u \in updaters, UpdateAnswered(u) PROVE AloneInv'
  BY <1>5, Zenon DEF UpdateAnswered, AloneInv
<1> QED BY <1>1, <1>2, <1>3, <1>4, <1>5, Zenon
        DEF HkNext, HkRefuse, HkExportData, HkSendData, HkReturn, HkStop, hkVars

\* The cache stays true through lost answers and goroutines that race: only what
\* is unsure may differ.
LEMMA TrueStep == HkTypeInv /\ AloneInv /\ TrueInv /\ [HkNext]_hkVars => TrueInv'
<1> SUFFICES ASSUME HkTypeInv, AloneInv, TrueInv, [HkNext]_hkVars PROVE TrueInv'
  BY Zenon
<1>1. CASE UNCHANGED <<updaters, tagsOf, expReg, unsure>>
  BY <1>1, Zenon DEF TrueInv, Awaited
<1>2. CASE HkRegister
  <2>1. CASE UNCHANGED <<expReg, tagsOf>>
    BY <1>2, <2>1, Zenon DEF HkRegister, TrueInv, Awaited
  <2>2. CASE \E cached \in SUBSET DOMAIN tagsOf : UpdateDefinitions(cached)
    BY <2>2 DEF UpdateDefinitions, HashDefinition, TrueInv
  <2> QED BY <1>2, <2>1, <2>2, Zenon DEF HkRegister
<1>3. CASE RegisterLabeledIfNecessaryInline
  <2>1. tagsOf' = tagsOf /\ unsure' = unsure
    BY <1>3, RegisterCases, Zenon
  <2>2. CASE UNCHANGED <<expReg, updaters, seen>>
    BY <2>1, <2>2, <1>1, Zenon
  <2>3. CASE \E key \in Ids : Hit(key)
    <3>1. DOMAIN expReg' = DOMAIN expReg /\ \A k \in DOMAIN expReg : expReg'[k].hash = expReg[k].hash
      BY <2>3 DEF Hit, Touch
    <3> QED BY <2>1, <2>3, <3>1, Zenon DEF Hit, TrueInv, Awaited
  <2>4. CASE \E key \in Ids : \E m, n : Missed(key, m, n)
    <3>1. PICK key \in Ids :
             \A u \in updaters : [u EXCEPT !.alone = u.key # key /\ @] \in updaters'
      BY <2>4, Zenon DEF Missed, Joined
    <3>2. ASSUME NEW u \in updaters
          PROVE  \E v \in updaters' : v.key = u.key /\ v.at = u.at
      BY <3>1, Zenon DEF HkTypeInv
    <3>3. ASSUME NEW k, Awaited(k) PROVE Awaited(k)'
      BY <3>2, <3>3, Zenon DEF Awaited
    <3> QED BY <2>1, <2>4, <3>3, Zenon DEF Missed, TrueInv
  <2> QED BY <1>3, <2>2, <2>3, <2>4, RegisterCases, Zenon
<1>4. CASE HkReturn
  BY <1>4, Zenon DEF HkReturn, ExpireCache, Dropping, TrueInv, Awaited
<1>5. CASE HkStop
  BY <1>5, Zenon DEF HkStop, NoItems, TrueInv
<1>6. ASSUME NEW u \in updaters, UpdateTags(u) PROVE TrueInv'
  <2>1. \A k : k # u.key /\ Awaited(k) => Awaited(k)'
    BY <1>6, Zenon DEF UpdateTags, Awaited
  <2>2. \A k \in DOMAIN tagsOf : k # u.key => k \in DOMAIN tagsOf' /\ tagsOf'[k] = tagsOf[k]
    BY <1>6, Zenon DEF UpdateTags, Put
  <2>3. u.key \in unsure' \/ Awaited(u.key)' \/ (UNCHANGED <<tagsOf, unsure>> /\ (Awaited(u.key) => Awaited(u.key)'))
    <3>1. CASE updaters' = (updaters \ {u}) \cup {[u EXCEPT !.at = "answer"]}
      <4>1. [u EXCEPT !.at = "answer"].key = u.key /\ [u EXCEPT !.at = "answer"].at = "answer"
        BY DEF HkTypeInv
      <4> QED BY <3>1, <4>1, Zenon DEF Awaited
    <3>2. CASE updaters' = updaters \ {u} /\ UNCHANGED <<tagsOf, unsure>>
      BY <1>6, <3>2, Zenon DEF Awaited, UpdateTags
    <3> QED BY <1>6, <3>1, <3>2, Zenon DEF UpdateTags
  <2>4. expReg' = expReg /\ unsure \subseteq unsure'
    BY <1>6, Zenon DEF UpdateTags
  <2> QED BY <2>1, <2>2, <2>3, <2>4, Zenon DEF TrueInv
<1>7. ASSUME NEW u \in updaters, UpdateAnswered(u) PROVE TrueInv'
  <2>1. \A k : k # u.key /\ Awaited(k) => Awaited(k)'
    BY <1>7, Zenon DEF UpdateAnswered, Awaited
  <2>2. /\ DOMAIN expReg' = DOMAIN expReg \cup {u.key}
        /\ expReg'[u.key].hash.rest = TagsOf(u.metric).rest
        /\ \A k \in DOMAIN expReg : k # u.key => expReg'[k] = expReg[k]
    BY <1>7, Zenon DEF UpdateAnswered, PushToCache, Put, CreateDefinitionFromModel, TagsOf
  <2>3. \A k \in unsure : k # u.key => k \in unsure'
    BY <1>7, Zenon DEF UpdateAnswered
  <2>4. u.alone \/ u.key \in unsure'
    BY <1>7, Zenon DEF UpdateAnswered
  <2>5. u.at = "answer" /\ tagsOf' = tagsOf
    BY <1>7, Zenon DEF UpdateAnswered
  <2>6. u.alone => u.key \in DOMAIN tagsOf /\ tagsOf[u.key] = TagsOf(u.metric)
    BY <2>5, Zenon DEF AloneInv
  <2> QED BY <2>1, <2>2, <2>3, <2>4, <2>5, <2>6, Zenon DEF TrueInv
<1> QED BY <1>1, <1>2, <1>3, <1>4, <1>5, <1>6, <1>7, Zenon
        DEF HkNext, HkRefuse, HkExportData, HkSendData, hkVars

\* An entry that is found or made takes the number of this export as its ttl.
LEMMA Renewed ==
    ASSUME HkTypeInv, SeenInv, Fetching, UNCHANGED <<hkPhase, runId>>,
           NEW key \in Ids, Sees(key),
           DOMAIN expReg' = DOMAIN expReg \cup {key},
           expReg'[key].ttl = runId,
           \A k \in DOMAIN expReg : k # key => expReg'[k].ttl = expReg[k].ttl
    PROVE  SeenInv'
<1>1. /\ runId \in Nat /\ Len(seen) \in Nat /\ runId > 0
      /\ Len(seen) = IF runId < CacheAge THEN runId ELSE CacheAge
  BY DEF HkTypeInv, SeenInv
<1>2. Len(seen) > 0
  BY <1>1, HawkularAssumption
<1>3. /\ Len(seen') = Len(seen)
      /\ seen'[Len(seen)] = seen[Len(seen)] \cup {key}
      /\ \A i \in 1 .. Len(seen) : i # Len(seen) => seen'[i] = seen[i]
  BY <1>2, SeesIn, Zenon
<1>4. \A r : Place(r)' = Place(r)
  BY <1>3, Zenon DEF Place
<1>5. Place(runId) = Len(seen)
  BY <1>1 DEF Place
<1>6. hkPhase' # "idle" /\ Fetching'
  BY Zenon DEF Fetching
<1>7. ASSUME NEW k \in DOMAIN expReg'
      PROVE  /\ expReg'[k].ttl \in 0 .. runId
             /\ expReg'[k].ttl > runId - Len(seen) => k \in seen'[Place(expReg'[k].ttl)]
  <2>1. CASE k = key
    BY <1>1, <1>3, <1>5, <2>1
  <2>2. CASE k # key
    <3> DEFINE t == expReg[k].ttl
    <3>1. k \in DOMAIN expReg /\ expReg'[k].ttl = t
      BY <2>2, Zenon
    <3>2. t \in 0 .. runId /\ (t > runId - Len(seen) => k \in seen[Place(t)])
      BY <3>1, Zenon DEF SeenInv
    <3>3. t > runId - Len(seen) => Place(t) \in 1 .. Len(seen)
      BY <3>2, <1>1 DEF Place
    <3> HIDE DEF t
    <3>4. t > runId - Len(seen) => k \in seen'[Place(t)]
      BY <1>3, <3>2, <3>3, Zenon
    <3> QED BY <3>1, <3>2, <3>4, Zenon
  <2> QED BY <2>1, <2>2, Zenon
<1>8. ASSUME NEW i \in 1 .. Len(seen), NEW k \in seen'[i]
      PROVE  k \in DOMAIN expReg' /\ i <= Place(expReg'[k].ttl)
  <2>1. CASE k = key
    BY <1>1, <1>5, <2>1
  <2>2. CASE k # key
    <3>1. k \in seen[i]
      BY <1>3, <2>2, Zenon
    <3>2. k \in DOMAIN expReg /\ i <= Place(expReg[k].ttl)
      BY <3>1, Zenon DEF SeenInv
    <3> QED BY <2>2, <3>2, Zenon
  <2> QED BY <2>1, <2>2, Zenon
<1> QED BY <1>1, <1>3, <1>4, <1>6, <1>7, <1>8, Zenon DEF SeenInv

\* A new export moves the window of CacheAge exports on by one.
LEMMA ExportSeen == HkTypeInv /\ SeenInv /\ HkExportData => SeenInv'
<1> SUFFICES ASSUME HkTypeInv, SeenInv, HkExportData PROVE SeenInv'
  BY Zenon
<1> DEFINE L == Len(seen)
           Moved(r) == r - (runId' - Len(seen'))
<1>1. /\ runId \in Nat /\ L \in Nat /\ runId' = runId + 1 /\ expReg' = expReg
      /\ Fetching' /\ hkPhase' # "idle" /\ hkPhase = "idle"
      /\ seen' = Append(IF L < CacheAge THEN seen ELSE Tail(seen), {})
  BY DEF HkTypeInv, HkExportData, Fetching
<1>0. runId \in Nat /\ L \in Nat /\ runId' = runId + 1
  BY <1>1, Zenon
<1>2. L = IF runId < CacheAge THEN runId ELSE CacheAge
  BY <1>1, Zenon DEF SeenInv, Place
<1>3. ASSUME NEW k \in DOMAIN expReg
      PROVE  /\ expReg[k].ttl \in 0 .. runId
             /\ expReg[k].ttl > runId - L => k \in seen[Place(expReg[k].ttl)]
  BY <1>1, Zenon DEF SeenInv, Place
<1>4. ASSUME NEW i \in 1 .. L, NEW k \in seen[i]
      PROVE  k \in DOMAIN expReg /\ i <= Place(expReg[k].ttl)
  BY <1>1, Zenon DEF SeenInv, Place
<1> DEFINE S == SUBSET Ids
<1>5. seen \in Seq(S) /\ {} \in S
  BY Zenon DEF HkTypeInv
<1> HIDE DEF S
<1>6. CASE runId < CacheAge
  <2>1. seen' = Append(seen, {}) /\ L = runId
    BY <1>1, <1>2, <1>6, HawkularAssumption, Zenon
  <2>2. Len(seen') = runId' /\ seen'[L + 1] = {} /\ \A i \in 1 .. L : seen'[i] = seen[i]
    BY <1>1, <1>5, <2>1
  <2>3. Len(seen') = IF runId' < CacheAge THEN runId' ELSE CacheAge
    BY <1>1, <1>6, <2>2, HawkularAssumption
  <2>4. \A r \in Int : Moved(r) = r /\ Place(r) = r
    BY <1>1, <2>1, <2>2 DEF Place
  <2>5. ASSUME NEW k \in DOMAIN expReg', expReg'[k].ttl > runId' - Len(seen')
        PROVE  k \in seen'[Moved(expReg'[k].ttl)]
    <3> DEFINE t == expReg[k].ttl
    <3>0. expReg' = expReg /\ Len(seen') = runId'
      BY <1>1, <2>2, Zenon
    <3>1. expReg' = expReg /\ t \in 0 .. runId /\ t > 0
      BY <1>0, <1>3, <2>5, <3>0
    <3>2. runId - L = 0 /\ t \in Int
      BY <1>0, <2>1, <3>1
    <3>3. Place(t) = t /\ Moved(t) = t
      BY <2>4, <3>2, Zenon
    <3>4. k \in seen[Place(t)]
      BY <1>3, <3>1, <3>2, Zenon
    <3> HIDE DEF t
    <3>5. k \in seen'[Moved(t)]
      BY <1>0, <2>1, <2>2, <3>1, <3>3, <3>4
    <3> QED BY <3>1, <3>5, Zenon DEF t
  <2>6. ASSUME NEW i \in 1 .. Len(seen'), NEW k \in seen'[i]
        PROVE  k \in DOMAIN expReg' /\ i <= Moved(expReg'[k].ttl)
    <3>1. i \in 1 .. L /\ k \in seen[i]
      BY <1>1, <2>1, <2>2
    <3>2. k \in DOMAIN expReg /\ i <= Place(expReg[k].ttl) /\ expReg[k].ttl \in Int
      BY <1>3, <1>4, <3>1
    <3> QED BY <1>1, <2>4, <3>2, Zenon
  <2>7. \A k \in DOMAIN expReg' : expReg'[k].ttl \in 0 .. runId'
    BY <1>1, <1>3
  <2>8. hkPhase' # "idle" /\ runId' > 0
    BY <1>1
  <2> QED BY <2>3, <2>5, <2>6, <2>7, <2>8, Zenon DEF SeenInv, Place
<1>7. CASE runId >= CacheAge
  <2>1. seen' = Append(Tail(seen), {}) /\ L = CacheAge /\ L > 0
    BY <1>1, <1>2, <1>7, HawkularAssumption
  <2>2. Tail(seen) \in Seq(S) /\ Len(Tail(seen)) = L - 1 /\ \A i \in 1 .. L - 1 : Tail(seen)[i] = seen[i + 1]
    BY <1>1, <1>5, <2>1
  <2>3. Len(seen') = L /\ seen'[L] = {} /\ \A i \in 1 .. L - 1 : seen'[i] = seen[i + 1]
    BY <1>1, <1>5, <2>1, <2>2
  <2>4. Len(seen') = IF runId' < CacheAge THEN runId' ELSE CacheAge
    BY <1>1, <1>7, <2>1, <2>3, HawkularAssumption
  <2>5. ASSUME NEW r \in Int PROVE Moved(r) = Place(r) - 1 /\ Place(r) = r - (runId - L)
    <3>1. Len(seen') = L
      BY <2>3, Zenon
    <3> QED BY <1>0, <3>1 DEF Place
  <2>6. ASSUME NEW k \in DOMAIN expReg', expReg'[k].ttl > runId' - Len(seen')
        PROVE  k \in seen'[Moved(expReg'[k].ttl)]
    <3> DEFINE t == expReg[k].ttl
    <3>0. expReg' = expReg /\ Len(seen') = L
      BY <1>1, <2>3, Zenon
    <3>1. t \in 0 .. runId /\ t > runId + 1 - L /\ k \in seen[Place(t)]
      BY <1>0, <1>3, <2>6, <3>0
    <3>2. Place(t) \in 2 .. L
      BY <1>0, <3>1 DEF Place
    <3> HIDE DEF t
    <3>3. Moved(t) = Place(t) - 1
      BY <2>5, <3>1, <1>1
    <3>4. k \in seen'[Place(t) - 1]
      BY <1>1, <2>3, <3>1, <3>2
    <3>5. k \in seen'[Moved(t)]
      BY <3>3, <3>4, Zenon
    <3> QED BY <1>1, <3>5, Zenon DEF t
  <2>7. ASSUME NEW i \in 1 .. Len(seen'), NEW k \in seen'[i]
        PROVE  k \in DOMAIN expReg' /\ i <= Moved(expReg'[k].ttl)
    <3>1. i + 1 \in 1 .. L /\ k \in seen[i + 1]
      BY <1>1, <2>3
    <3>2. k \in DOMAIN expReg /\ i + 1 <= Place(expReg[k].ttl) /\ expReg[k].ttl \in Int
      BY <1>3, <1>4, <3>1
    <3>3. expReg' = expReg /\ Len(seen') = L
      BY <1>1, <2>3, Zenon
    <3> QED BY <1>0, <3>2, <3>3 DEF Place
  <2>8. \A k \in DOMAIN expReg' : expReg'[k].ttl \in 0 .. runId'
    BY <1>1, <1>3
  <2>9. hkPhase' # "idle" /\ runId' > 0
    BY <1>1
  <2> QED BY <2>4, <2>6, <2>7, <2>8, <2>9, Zenon DEF SeenInv, Place
<1> QED BY <1>1, <1>6, <1>7, HawkularAssumption

\* expireCache drops what none of the last CacheAge exports found, and nothing else.
LEMMA SeenStep == HkTypeInv /\ RegInv /\ SeenInv /\ [HkNext]_hkVars => SeenInv'
<1> SUFFICES ASSUME HkTypeInv, RegInv, SeenInv, [HkNext]_hkVars PROVE SeenInv'
  BY Zenon
<1>1. CASE UNCHANGED <<hkPhase, runId, seen, expReg>>
  BY <1>1, Zenon DEF SeenInv, Fetching, Place
<1>2. CASE HkRefuse \/ HkStop
  BY <1>2, Zenon DEF HkRefuse, HkStop, SeenInv, Fetching
<1>3. CASE HkRegister
  <2>1. runId = 0 /\ runId' = 0 /\ seen' = <<>> /\ hkPhase' = "idle" /\ expReg = NoItems
    BY <1>3, Zenon DEF HkRegister, HkTypeInv
  <2>2. \A k \in DOMAIN expReg' : expReg'[k].ttl = 0
    <3>1. CASE expReg' = expReg
      BY <2>1, <3>1, Zenon DEF NoItems
    <3>2. CASE \E cached \in SUBSET DOMAIN tagsOf : UpdateDefinitions(cached)
      BY <2>1, <3>2 DEF UpdateDefinitions
    <3> QED BY <1>3, <3>1, <3>2, Zenon DEF HkRegister
  <2>3. Len(seen') = 0
    BY <2>1, Zenon
  <2>4. ~Fetching'
    BY <2>1, Zenon DEF Fetching
  <2> QED BY <2>1, <2>2, <2>3, <2>4, HawkularAssumption DEF SeenInv
<1>4. CASE HkExportData
  BY <1>4, ExportSeen, Zenon
<1>5. CASE RegisterLabeledIfNecessaryInline
  <2>1. UNCHANGED <<hkPhase, runId>> /\ Fetching
    BY <1>5, RegisterCases, Zenon DEF Fetching
  <2>2. CASE UNCHANGED <<expReg, seen>>
    BY <1>1, <2>1, <2>2, Zenon
  <2>3. CASE \E key \in Ids : Hit(key)
    <3>1. PICK key \in Ids : key \in DOMAIN expReg /\ expReg' = Touch(expReg, key) /\ Sees(key)
      BY <2>3, Zenon DEF Hit
    <3>2. DOMAIN expReg' = DOMAIN expReg \cup {key} /\ \A k \in DOMAIN expReg : k # key => expReg'[k].ttl = expReg[k].ttl
      BY <3>1, Zenon DEF Touch
    <3>3. expReg'[key].ttl = runId
      BY <3>1 DEF Touch, RegInv
    <3> QED BY <2>1, <3>1, <3>2, <3>3, Renewed, Zenon
  <2> QED BY <1>5, <2>2, <2>3, RegisterCases, Zenon DEF Missed
<1>6. CASE HkSendData
  BY <1>6, Zenon DEF HkSendData, SeenInv, Fetching, Place
<1>7. CASE HkReturn
  <2>1. /\ UNCHANGED <<runId, seen>> /\ Fetching /\ hkPhase' = "idle"
        /\ expReg' = ExpireCache(expReg, runId)
    BY <1>7, Zenon DEF HkReturn, Fetching
  <2>2. runId \in Nat /\ Len(seen) = IF runId < CacheAge THEN runId ELSE CacheAge
    BY <2>1, Zenon DEF SeenInv, HkTypeInv
  <2>3. DOMAIN expReg' = {k \in DOMAIN expReg : ~(expReg[k].ttl + CacheAge <= runId)}
        /\ \A k \in DOMAIN expReg' : expReg'[k] = expReg[k]
    BY <2>1, Zenon DEF ExpireCache, Dropping
  <2>4. \A r : Place(r)' = Place(r)
    BY <2>1, Zenon DEF Place
  <2>5. ASSUME NEW k \in DOMAIN expReg'
        PROVE  /\ expReg'[k].ttl \in 0 .. runId
               /\ expReg'[k].ttl > runId - Len(seen) => k \in seen[Place(expReg'[k].ttl)]
               /\ expReg'[k].ttl + CacheAge > runId
    <3>1. k \in DOMAIN expReg /\ expReg'[k] = expReg[k] /\ ~(expReg[k].ttl + CacheAge <= runId)
      BY <2>3, Zenon
    <3>2. expReg[k].ttl \in 0 .. runId
          /\ (expReg[k].ttl > runId - Len(seen) => k \in seen[Place(expReg[k].ttl)])
      BY <2>1, <3>1, Zenon DEF SeenInv
    <3>3. expReg[k].ttl + CacheAge > runId
      BY <2>2, <3>1, <3>2, HawkularAssumption
    <3> QED BY <3>1, <3>2, <3>3, Zenon
  <2>6. ASSUME NEW i \in 1 .. Len(seen), NEW k \in seen[i]
        PROVE  k \in DOMAIN expReg' /\ i <= Place(expReg'[k].ttl)
    <3>1. k \in DOMAIN expReg /\ i <= Place(expReg[k].ttl)
      BY <2>1, Zenon DEF SeenInv
    <3>2. expReg[k].ttl \in 0 .. runId
      BY <2>1, <3>1, Zenon DEF SeenInv
    <3>3. ~(expReg[k].ttl + CacheAge <= runId)
      BY <2>2, <3>1, <3>2, HawkularAssumption DEF Place, HkTypeInv
    <3> QED BY <2>3, <3>1, <3>3, Zenon
  <2>7. ~Fetching'
    BY <2>1, Zenon DEF Fetching
  <2> QED BY <2>1, <2>2, <2>4, <2>5, <2>6, <2>7, Zenon DEF SeenInv
<1>8. ASSUME NEW u \in updaters, UpdateTags(u) PROVE SeenInv'
  BY <1>1, <1>8, Zenon DEF UpdateTags
<1>9. ASSUME NEW u \in updaters, UpdateAnswered(u) PROVE SeenInv'
  <2>1. UNCHANGED <<hkPhase, runId>> /\ Fetching /\ u.key \in Ids /\ Sees(u.key)
    BY <1>9, Zenon DEF UpdateAnswered, HkTypeInv
  <2>2. /\ DOMAIN expReg' = DOMAIN expReg \cup {u.key}
        /\ expReg'[u.key].ttl = runId
        /\ \A k \in DOMAIN expReg : k # u.key => expReg'[k].ttl = expReg[k].ttl
    BY <1>9, Zenon DEF UpdateAnswered, PushToCache, Put
  <2> QED BY <2>1, <2>2, Renewed, Zenon
<1> QED BY <1>1, <1>2, <1>3, <1>4, <1>5, <1>6, <1>7, <1>8, <1>9, Zenon DEF HkNext, hkVars

\* Whenever no export is under way, an entry of the cache of the Hawkular sink stands for
\* tags that the server has, the labels of the metric set left out as they are from
\* the hash, but for ids whose update was lost or raced; and after CacheAge exports the
\* cache has exactly the ids that the last CacheAge of them found or updated.
THEOREM CacheAlwaysSound == HkSpec => []CacheSound
<1>1. HkInit => HkInv
  <2> SUFFICES ASSUME HkInit PROVE HkInv
    BY Zenon
  <2>1. HkTypeInv
    BY DEF HkInit, HkTypeInv, Fetching
  <2>2. RegInv /\ AloneInv /\ TrueInv /\ SeenInv
    BY Zenon DEF HkInit, RegInv, AloneInv, TrueInv, SeenInv, NoItems, Fetching
  <2> QED BY <2>1, <2>2, Zenon DEF HkInv
<1>2. HkInv /\ [HkNext]_hkVars => HkInv'
  BY HkTypeStep, RegStep, AloneStep, TrueStep, SeenStep, Zenon DEF HkInv
<1>3. HkInv => CacheSound
  <2> SUFFICES ASSUME HkInv, hkPhase = "idle"
               PROVE  /\ \A k \in DOMAIN expReg \ unsure : k \in DOMAIN tagsOf /\ expReg[k].hash.rest = tagsOf[k].rest
                      /\ runId >= CacheAge => DOMAIN expReg = UNION {seen[i] : i \in DOMAIN seen}
    BY Zenon DEF CacheSound
  <2>1. updaters = {} /\ runId \in Nat /\ seen \in Seq(SUBSET Ids)
    BY Zenon DEF HkInv, HkTypeInv, Fetching
  <2>2. \A k \in DOMAIN expReg \ unsure : k \in DOMAIN tagsOf /\ expReg[k].hash.rest = tagsOf[k].rest
    BY <2>1, Zenon DEF HkInv, TrueInv, Awaited
  <2>3. ASSUME runId >= CacheAge PROVE DOMAIN expReg = UNION {seen[i] : i \in DOMAIN seen}
    <3>1. ASSUME NEW k \in DOMAIN expReg PROVE k \in UNION {seen[i] : i \in DOMAIN seen}
      <4> DEFINE t == expReg[k].ttl
      <4>1. /\ t \in 0 .. runId /\ t + CacheAge > runId /\ Len(seen) = CacheAge
            /\ t > runId - Len(seen) => k \in seen[Place(t)]
        BY <2>1, <2>3, HawkularAssumption DEF HkInv, SeenInv
      <4>2. Place(t) \in 1 .. Len(seen) /\ k \in seen[Place(t)]
        BY <2>1, <4>1, HawkularAssumption DEF Place
      <4> HIDE DEF t
      <4>3. DOMAIN seen = 1 .. Len(seen)
        BY <2>1
      <4> QED BY <4>2, <4>3, Zenon
    <3>2. ASSUME NEW k \in UNION {seen[i] : i \in DOMAIN seen} PROVE k \in DOMAIN expReg
      <4>1. PICK i \in DOMAIN seen : k \in seen[i]
        BY <3>2, Zenon
      <4>2. i \in 1 .. Len(seen)
        BY <2>1
      <4> QED BY <4>1, <4>2, Zenon DEF HkInv, SeenInv
    <3> QED BY <3>1, <3>2, Zenon
  <2> QED BY <2>2, <2>3, Zenon
<1> QED BY <1>1, <1>2, <1>3, PTL DEF HkSpec

-----------------------------------------------------------------------------
(* The stores of the metric sink                                           *)

\* A set of numbers has a least one.
LEMMA LeastNumber ==
    ASSUME NEW T \in SUBSET Nat, T # {}
    PROVE  \E m \in T : \A n \in T : m <= n
<1> DEFINE R == OpToRel(<, Nat)
<1>1. IsWellFoundedOn(R, Nat)
  BY NatLessThanWellFounded, Zenon
<1> HIDE DEF R
<1>2. PICK m \in T : \A n \in T : ~ (<<n, m>> \in R)
  BY <1>1, WFMin, Zenon
<1>3. \A n \in T : ~(n < m)
  BY <1>2, Zenon DEF R, OpToRel
<1>4. \A n \in T : m <= n
  BY <1>3
<1> QED
  BY <1>4, Zenon

\* What holds of 0 and passes from one number to the next holds up to n, for the
\* sets G that stand for the loop's invariants below.
LEMMA UpTo ==
    ASSUME NEW n \in Nat, NEW G \in SUBSET Nat, 0 \in G, \A m \in 0 .. (n - 1) : m \in G => m + 1 \in G
    PROVE  0 .. n \subseteq G
<1> DEFINE T == (0 .. n) \ G
<1> SUFFICES ASSUME T # {} PROVE FALSE
  BY Zenon
<1>1. T \in SUBSET Nat
  OBVIOUS
<1>2. PICK m \in T : \A k \in T : m <= k
  BY <1>1, LeastNumber, Zenon
<1>3. m # 0
  BY <1>2, Zenon
<1>4. m - 1 \in 0 .. (n - 1) /\ ~(m <= m - 1) /\ (m - 1) + 1 = m /\ m - 1 \in 0 .. n
  BY <1>1, <1>2, <1>3
<1>5. m - 1 \in G
  BY <1>2, <1>4, Zenon
<1>6. m \in G
  BY <1>4, <1>5, Zenon
<1> QED BY <1>6, Zenon

\* One more element at the end.
LEMMA AppendRange ==
    ASSUME NEW S, NEW s \in Seq(S), NEW x \in S
    PROVE  Append(s, x) \in Seq(S) /\ Range(Append(s, x)) = Range(s) \cup {x}
<1> DEFINE n == Len(s)
           a == Append(s, x)
<1>1. n \in Nat /\ DOMAIN s = 1 .. n /\ a \in Seq(S) /\ DOMAIN a = 1 .. (n + 1) /\ a[n + 1] = x
  OBVIOUS
<1>2. \A i \in 1 .. n : a[i] = s[i]
  OBVIOUS
<1>3. \A i : i \in 1 .. (n + 1) <=> i \in 1 .. n \/ i = n + 1
  BY <1>1
<1> HIDE DEF n, a
<1>4. Range(a) = Range(s) \cup {x}
  BY <1>1, <1>2, <1>3, Zenon DEF Range
<1> QED BY <1>1, <1>4, Zenon DEF a

\* One more element that was not there is there once.
LEMMA AppendInjective ==
    ASSUME NEW S, NEW s \in Seq(S), NEW x \in S, IsInjective(s), x \notin Range(s)
    PROVE  IsInjective(Append(s, x))
<1> DEFINE n == Len(s)
           a == Append(s, x)
<1>1. n \in Nat /\ DOMAIN s = 1 .. n /\ a \in Seq(S) /\ DOMAIN a = 1 .. (n + 1) /\ a[n + 1] = x
  OBVIOUS
<1>2. \A i \in 1 .. n : a[i] = s[i]
  OBVIOUS
<1>3. \A i : i \in 1 .. (n + 1) <=> i \in 1 .. n \/ i = n + 1
  BY <1>1
<1> HIDE DEF n, a
<1>4. \A i \in 1 .. n : s[i] # x
  BY <1>1, Zenon DEF Range
<1>5. IsInjective(a)
  BY <1>1, <1>2, <1>3, <1>4, Zenon DEF IsInjective
<1> QED BY <1>5, Zenon DEF a

\* The loop of popOld, as an equation of the results after each turn.
Turned(store, cutoff, f) ==
    [i \in 0 .. Len(store) |->
        IF i = 0 THEN << >>
        ELSE IF store[i] > cutoff THEN Append(f[i - 1], store[i]) ELSE f[i - 1]]

\* popOld returns the last of them.
LEMMA PopOldIsLoop ==
    ASSUME NEW store, NEW cutoff
    PROVE  PopOld(store, cutoff) = (CHOOSE f : f = Turned(store, cutoff, f))[Len(store)]
BY Zenon DEF PopOld, Turned

\* After m turns the loop has looked at the first m elements.
Looked(store, cutoff, f, m) ==
    [i \in 0 .. m |->
        IF i = 0 THEN << >>
        ELSE IF store[i] > cutoff THEN Append(f[i - 1], store[i]) ELSE f[i - 1]]

\* The loop has results.
LEMMA LoopExists ==
    ASSUME NEW store \in Seq(Int), NEW cutoff \in Int
    PROVE  \E f : f = Turned(store, cutoff, f)
<1> DEFINE n == Len(store)
           G == {m \in Nat : \E f : f = Looked(store, cutoff, f, m)}
<1>1. 0 \in G
  <2> DEFINE f == [i \in 0 .. 0 |-> << >>]
  <2>1. f = Looked(store, cutoff, f, 0)
    BY DEF Looked
  <2> QED BY <2>1, Zenon
<1>2. ASSUME NEW m \in 0 .. (n - 1), m \in G PROVE m + 1 \in G
  <2>1. PICK f : f = Looked(store, cutoff, f, m)
    BY <1>2, Zenon
  <2> DEFINE last == IF store[m + 1] > cutoff THEN Append(f[m], store[m + 1]) ELSE f[m]
             g == [i \in 0 .. (m + 1) |-> IF i = m + 1 THEN last ELSE f[i]]
  <2>2. m \in Nat /\ m + 1 \in Nat /\ (m + 1) - 1 = m /\ m + 1 # 0 /\ m # m + 1
    BY <1>2
  <2>3. \A i \in 0 .. (m + 1) : i # m + 1 => /\ i \in 0 .. m
                                             /\ i # 0 => i - 1 \in 0 .. (m + 1) /\ i - 1 # m + 1
    BY <2>2
  <2>4. m \in 0 .. (m + 1)
    BY <2>2
  <2> HIDE DEF last
  <2>5. \A i \in 0 .. (m + 1) :
            g[i] = IF i = 0 THEN << >>
                   ELSE IF store[i] > cutoff THEN Append(g[i - 1], store[i]) ELSE g[i - 1]
    <3> SUFFICES ASSUME NEW i \in 0 .. (m + 1)
                 PROVE  g[i] = IF i = 0 THEN << >>
                               ELSE IF store[i] > cutoff THEN Append(g[i - 1], store[i]) ELSE g[i - 1]
      BY Zenon
    <3>1. CASE i = m + 1
      <4>1. g[i] = last /\ g[m] = f[m] /\ i - 1 = m /\ i # 0
        BY <2>2, <2>4, <3>1, Zenon
      <4> QED BY <3>1, <4>1, Zenon DEF last
    <3>2. CASE i # m + 1
      <4>1. g[i] = f[i] /\ i \in 0 .. m /\ (i # 0 => g[i - 1] = f[i - 1])
        BY <2>3, <3>2, Zenon
      <4>2. f[i] = IF i = 0 THEN << >>
                   ELSE IF store[i] > cutoff THEN Append(f[i - 1], store[i]) ELSE f[i - 1]
        BY <2>1, <4>1, Zenon DEF Looked
      <4> QED BY <4>1, <4>2, Zenon
    <3> QED BY <3>1, <3>2, Zenon
  <2>6. g = Looked(store, cutoff, g, m + 1)
    BY <2>5, Zenon DEF Looked
  <2> QED BY <2>2, <2>6, Zenon
<1>3. n \in Nat
  OBVIOUS
<1> HIDE DEF n, G
<1>4. 0 .. n \subseteq G
  <2>1. G \in SUBSET Nat
    BY Zenon DEF G
  <2> QED BY <1>1, <1>2, <1>3, <2>1, UpTo, Zenon
<1>5. n \in G
  BY <1>3, <1>4
<1> QED BY <1>5, Zenon DEF n, G, Looked, Turned

\* popOld keeps the elements after the cutoff, each as often as it was there.
LEMMA PopOldKeeps ==
    ASSUME NEW store \in Seq(Int), NEW cutoff \in Int
    PROVE  /\ PopOld(store, cutoff) \in Seq(Int)
           /\ Range(PopOld(store, cutoff)) = {t \in Range(store) : t > cutoff}
           /\ IsInjective(store) => IsInjective(PopOld(store, cutoff))
<1> DEFINE f == CHOOSE g : g = Turned(store, cutoff, g)
           n == Len(store)
           Done(m) == {store[i] : i \in {j \in 1 .. m : store[j] > cutoff}}
           G == {m \in Nat : m <= n => /\ f[m] \in Seq(Int) /\ Range(f[m]) = Done(m)
                                       /\ IsInjective(store) => IsInjective(f[m])}
<1>1. f = Turned(store, cutoff, f)
  BY LoopExists, Zenon
<1>2. PopOld(store, cutoff) = f[n] /\ n \in Nat
  BY PopOldIsLoop
<1> HIDE DEF f
<1>3. \A i \in 0 .. n : f[i] = IF i = 0 THEN << >>
                               ELSE IF store[i] > cutoff THEN Append(f[i - 1], store[i]) ELSE f[i - 1]
  BY <1>1, Zenon DEF Turned
<1>4. 0 \in G
  <2>1. f[0] = << >>
    BY <1>2, <1>3
  <2>2. Done(0) = {} /\ << >> \in Seq(Int) /\ Range(<< >>) = {} /\ IsInjective(<< >>)
    BY DEF Range, IsInjective
  <2> QED BY <2>1, <2>2, Zenon
<1>5. ASSUME NEW m \in 0 .. (n - 1), m \in G PROVE m + 1 \in G
  <2> DEFINE x == store[m + 1]
  <2>1. /\ m \in Nat /\ m + 1 \in Nat /\ m <= n /\ (m + 1) - 1 = m /\ m + 1 # 0
        /\ m + 1 \in 0 .. n /\ m + 1 \in 1 .. n /\ \A i \in 1 .. m : i \in 1 .. n /\ i # m + 1
    BY <1>2, <1>5
  <2>2. /\ f[m] \in Seq(Int) /\ Range(f[m]) = Done(m)
        /\ IsInjective(store) => IsInjective(f[m])
    BY <1>5, <2>1, Zenon
  <2>3. f[m + 1] = IF x > cutoff THEN Append(f[m], x) ELSE f[m]
    BY <1>3, <2>1, Zenon
  <2>4. x \in Int
    BY <2>1
  <2>5. \A j : j \in 1 .. (m + 1) <=> j \in 1 .. m \/ j = m + 1
    BY <2>1
  <2>6. Done(m + 1) = IF x > cutoff THEN Done(m) \cup {x} ELSE Done(m)
    BY <2>5, Zenon
  <2>7. IsInjective(store) => x \notin Done(m)
    <3>1. DOMAIN store = 1 .. n
      OBVIOUS
    <3> QED BY <2>1, <3>1, Zenon DEF IsInjective
  <2> HIDE DEF x, Done
  <2>8. CASE x > cutoff
    <3> DEFINE s == f[m]
    <3> HIDE DEF s
    <3>1. s \in Seq(Int) /\ Range(s) = Done(m) /\ (IsInjective(store) => IsInjective(s)) /\ f[m + 1] = Append(s, x)
      BY <2>2, <2>3, <2>8, Zenon DEF s
    <3>2. Append(s, x) \in Seq(Int) /\ Range(Append(s, x)) = Range(s) \cup {x}
      BY <2>4, <3>1, AppendRange
    <3>3. IsInjective(store) => IsInjective(Append(s, x))
      BY <2>4, <2>7, <3>1, AppendInjective, Zenon
    <3> QED BY <2>1, <2>6, <2>8, <3>1, <3>2, <3>3, Zenon
  <2>9. CASE ~(x > cutoff)
    BY <2>1, <2>2, <2>3, <2>6, <2>9, Zenon
  <2> QED BY <2>8, <2>9, Zenon
<1>6. n \in G
  <2> HIDE DEF G
  <2>1. G \in SUBSET Nat
    BY Zenon DEF G
  <2>2. 0 .. n \subseteq G
    BY <1>2, <1>4, <1>5, <2>1, UpTo, Zenon
  <2> QED BY <1>2, <2>2
<1>7. /\ f[n] \in Seq(Int) /\ Range(f[n]) = Done(n)
      /\ IsInjective(store) => IsInjective(f[n])
  BY <1>2, <1>6
<1>8. Done(n) = {t \in Range(store) : t > cutoff}
  <2>1. DOMAIN store = 1 .. n
    OBVIOUS
  <2> QED BY <2>1, Zenon DEF Range
<1> QED BY <1>2, <1>7, <1>8, Zenon

\* What is in the stores, and what has been exported when.
StoreTypes ==
    /\ now \in Nat
    /\ shortStore \in Seq(Int) /\ longStore \in Seq(Int)
    /\ exports \in Seq(Timestamps \X Nat)

\* The batches a store is to hold have been exported, and of those it is to hold
\* after one more export it was to hold all but the new one before.
LEMMA RetainedStep ==
    ASSUME StoreTypes, NEW t \in Timestamps, ExportData(t), NEW duration \in Nat
    PROVE  /\ Retained(duration)' = {x \in Retained(duration) : x > now - duration} \cup {t}
           /\ t \notin Retained(duration)
<1> DEFINE n == Len(exports)
           Kept(i) == \A j \in DOMAIN exports : j > i => exports[i][1] > exports[j][2] - duration
           Kept1(i) == \A j \in DOMAIN exports' : j > i => exports'[i][1] > exports'[j][2] - duration
<1>1. /\ n \in Nat /\ DOMAIN exports = 1 .. n /\ DOMAIN exports' = 1 .. (n + 1)
      /\ \A i \in 1 .. n : exports'[i] = exports[i]
      /\ exports'[n + 1] = <<t, now>>
  BY DEF StoreTypes, ExportData
<1>2. Retained(duration) = {exports[i][1] : i \in {l \in 1 .. n : Kept(l)}}
  BY <1>1, Zenon DEF Retained
<1>3. Retained(duration)' = {exports'[i][1] : i \in {l \in 1 .. (n + 1) : Kept1(l)}}
  BY <1>1, Zenon DEF Retained
<1>4. \A i : i \in 1 .. (n + 1) <=> i \in 1 .. n \/ i = n + 1
  BY <1>1
<1>5. \A i \in 1 .. n : n + 1 > i
  BY <1>1
<1>6. \A j \in 1 .. (n + 1) : ~(j > n + 1)
  BY <1>1
<1>7. Kept1(n + 1) /\ exports'[n + 1][1] = t /\ exports'[n + 1][2] = now
  <2>1. <<t, now>>[1] = t /\ <<t, now>>[2] = now
    BY Zenon
  <2> HIDE DEF n
  <2>2. Kept1(n + 1)
    BY <1>1, <1>6, Zenon
  <2> QED BY <1>1, <2>1, <2>2, Zenon
<1>8. ASSUME NEW i \in 1 .. n
      PROVE  (Kept1(i) <=> Kept(i) /\ exports[i][1] > now - duration) /\ exports'[i][1] = exports[i][1]
  BY <1>1, <1>4, <1>5, <1>7, Zenon
<1> HIDE DEF n, Kept, Kept1
<1>9. Retained(duration)' = {x \in Retained(duration) : x > now - duration} \cup {t}
  <2>1. ASSUME NEW x \in Retained(duration)'
        PROVE  x \in {y \in Retained(duration) : y > now - duration} \cup {t}
    <3>1. PICK i \in 1 .. (n + 1) : Kept1(i) /\ x = exports'[i][1]
      BY <1>3, <2>1, Zenon
    <3> QED BY <1>2, <1>4, <1>7, <1>8, <3>1, Zenon
  <2>2. ASSUME NEW x \in Retained(duration), x > now - duration PROVE x \in Retained(duration)'
    <3>1. PICK i \in 1 .. n : Kept(i) /\ x = exports[i][1]
      BY <1>2, <2>2, Zenon
    <3> QED BY <1>3, <1>4, <1>8, <2>2, <3>1, Zenon
  <2>3. t \in Retained(duration)'
    BY <1>3, <1>4, <1>7, Zenon
  <2> QED BY <2>1, <2>2, <2>3, Zenon
<1>10. t \notin Retained(duration)
  BY <1>1, <1>2, Zenon DEF ExportData
<1> QED BY <1>9, <1>10, Zenon

\* A store is exact.
Exact(store, duration) == Range(store) = Retained(duration) /\ IsInjective(store)

\* A store that ExportData prunes and extends stays exact.
LEMMA ExactStep ==
    ASSUME StoreTypes, NEW t \in Timestamps, ExportData(t), NEW duration \in Nat,
           NEW store \in Seq(Int), Exact(store, duration), NEW new,
           new = Append(PopOld(store, now - duration), t)
    PROVE  new \in Seq(Int) /\ Range(new) = Retained(duration)' /\ IsInjective(new)
<1> DEFINE p == PopOld(store, now - duration)
<1>1. t \in Int /\ now - duration \in Int
  BY DEF StoreTypes, Timestamps
<1>2. p \in Seq(Int) /\ Range(p) = {x \in Range(store) : x > now - duration} /\ IsInjective(p)
  BY <1>1, PopOldKeeps, Zenon DEF Exact
<1>3. /\ Retained(duration)' = {x \in Retained(duration) : x > now - duration} \cup {t}
      /\ t \notin Retained(duration)
  BY RetainedStep, Zenon
<1>3a. new = Append(p, t)
  BY Zenon
<1> HIDE DEF p
<1>3b. t \notin Range(store)
  BY <1>3, Zenon DEF Exact
<1>4. new = Append(p, t) /\ t \notin Range(p)
  BY <1>2, <1>3a, <1>3b, Zenon
<1>5. Append(p, t) \in Seq(Int) /\ Range(Append(p, t)) = Range(p) \cup {t}
  <2>1. p \in Seq(Int) /\ t \in Int
    BY <1>1, <1>2, Zenon
  <2> QED BY <2>1, AppendRange
<1>6. IsInjective(Append(p, t))
  BY <1>1, <1>2, <1>4, AppendInjective, Zenon
<1> QED BY <1>2, <1>3, <1>4, <1>5, <1>6, Zenon DEF Exact

\* The inductive invariant of the stores.
StoreInv == StoreTypes /\ Exact(shortStore, ShortStoreDuration) /\ Exact(longStore, LongStoreDuration)

\* The stores of the metric sink hold, once each, the batches that were within the
\* store's duration at every later export, and the newest: for any durations and
\* resolution, for batches that come late or out of order, and any number of them.
THEOREM RetentionAlwaysExact == StoresSpec => []RetentionExact
<1>1. StoresInit => StoreInv
  <2> SUFFICES ASSUME StoresInit PROVE StoreInv
    BY Zenon
  <2>1. now = 0 /\ shortStore = << >> /\ longStore = << >> /\ exports = << >>
    BY Zenon DEF StoresInit
  <2>2. StoreTypes
    BY <2>1 DEF StoreTypes
  <2>3. DOMAIN << >> = {}
    OBVIOUS
  <2>4. \A d : Retained(d) = {}
    BY <2>1, <2>3, Zenon DEF Retained
  <2>5. Range(<< >>) = {} /\ IsInjective(<< >>)
    BY <2>3, Zenon DEF Range, IsInjective
  <2> QED BY <2>1, <2>2, <2>4, <2>5, Zenon DEF StoreInv, Exact
<1>2. StoreInv /\ [StoresNext]_<<now, storeVars>> => StoreInv'
  <2> SUFFICES ASSUME StoreInv, [StoresNext]_<<now, storeVars>> PROVE StoreInv'
    BY Zenon
  <2>1. StoreTypes
    BY Zenon DEF StoreInv
  <2>2. CASE UNCHANGED storeVars /\ (now' = now \/ Tick)
    <3>1. now' \in Nat
      BY <2>1, <2>2 DEF StoreTypes, Tick
    <3>2. \A d : Retained(d)' = Retained(d)
      BY <2>2, Zenon DEF storeVars, Retained
    <3> QED BY <2>1, <2>2, <3>1, <3>2, Zenon DEF StoreInv, Exact, StoreTypes, storeVars
  <2>3. ASSUME NEW t \in Timestamps, ExportData(t) PROVE StoreInv'
    <3>1. ShortStoreDuration \in Nat /\ LongStoreDuration \in Nat
      BY DurationsAssumption, Zenon
    <3>2. shortStore' = Append(PopOld(shortStore, now - ShortStoreDuration), t)
      BY <2>3, Zenon DEF ExportData
    <3>3. shortStore' \in Seq(Int) /\ Exact(shortStore, ShortStoreDuration)'
      BY <2>1, <2>3, <3>1, <3>2, ExactStep, Zenon DEF StoreInv, StoreTypes, Exact
    <3>4. longStore' = Append(PopOld(longStore, now - LongStoreDuration), t)
      BY <2>3, Zenon DEF ExportData
    <3>5. longStore' \in Seq(Int) /\ Exact(longStore, LongStoreDuration)'
      BY <2>1, <2>3, <3>1, <3>4, ExactStep, Zenon DEF StoreInv, StoreTypes, Exact
    <3>6. now' \in Nat /\ exports' \in Seq(Timestamps \X Nat)
      BY <2>1, <2>3 DEF ExportData, StoreTypes
    <3> QED BY <3>3, <3>5, <3>6, Zenon DEF StoreInv, StoreTypes
  <2> QED BY <2>2, <2>3, Zenon DEF StoresNext, Tick, storeVars
<1>3. StoreInv => RetentionExact
  BY Zenon DEF StoreInv, Exact, RetentionExact
<1> QED BY <1>1, <1>2, <1>3, PTL DEF StoresSpec
=============================================================================
