---------------------------- MODULE HawkularSink -----------------------------
(***************************************************************************)
(* The Hawkular sink.  Before it writes the points of a batch it sees to   *)
(* it that the server has the tags of each metric: a goroutine per metric  *)
(* updates them, unless the expiring cache expReg holds the hash of the    *)
(* same tags under the metric's id.  The hash leaves out the labels of the *)
(* metric set, which are tags as well.  The answers arrive in any order,   *)
(* are errors or are lost.                                                 *)
(***************************************************************************)
EXTENDS Naturals, Sequences

CONSTANTS
    HkSets,     \* the metric sets that are exported, by their labels
    HkTags,     \* the tags of a metric beside its set's labels: those of its model,
                \* the user's labels, its own labels and its group
    HkHidden,   \* the types of metric set that the filters drop
    HkByTenant, \* labelToTenant is given, and names the namespace
    HkBatch,    \* batchSize; zero for one message
    CacheAge,   \* cacheAge: 2 in the code
    HkMetrics,  \* bound: the metrics of an export
    MaxRun      \* bound: the exports

ASSUME HawkularAssumption == CacheAge \in Nat \ {0} /\ HkMetrics \in Nat /\ MaxRun \in Nat

VARIABLES
    hkPhase,    \* "off", "new", "refused", "idle", "exporting", "waiting" or "stopped"
    models,     \* the descriptors have been registered
    runId,      \* runId
    expReg,     \* the cache: for an id the hash and the ttl
    tagsOf,     \* the tags of each id on the server: its set's labels and the rest
    todo,       \* the metrics of the export not yet looked at
    headers,    \* tmhs: the metrics to be written
    messages,   \* per tenant, the messages that were written
    updaters,   \* the goroutines of the export that update tags
    seen,       \* history: for the last CacheAge exports, the ids found in the cache or put there
    unsure      \* history: the ids whose tags on the server are not known for sure

hkVars == <<hkPhase, models, runId, expReg, tagsOf, todo, headers, messages, updaters, seen, unsure>>

-----------------------------------------------------------------------------
\* The name of a node, by the label that labelNodeId names or by nodename.
NodeName(ms) == ms.node

\* The id of a metric of the set, its name left out.  A system container has no
\* pod id, and the name of its node is no part of the id.
IdName(ms) ==
    CASE ms.type = "node" -> <<"machine", NodeName(ms)>>
      [] ms.type = "sys_container" -> <<"sys_container", ms.name, ms.pod>>
      [] ms.type = "cluster" -> <<"cluster">>
      [] ms.type = "ns" -> <<"ns", ms.ns>>
      [] ms.type = "pod" -> <<"pod", ms.pod>>
      [] ms.type = "pod_container" -> <<ms.name, ms.pod>>
      [] OTHER -> IF ms.pod # "" THEN <<ms.name, ms.pod>> ELSE <<ms.name, NodeName(ms)>>

\* The tags of a metric: the labels of the metric set and the rest.  A hash is what it
\* is computed from.  createDefinitionFromModel leaves out the labels of the metric
\* set; hashDefinition is over all tags, so that the two never agree.
TagsOf(m) == [labels |-> m.set, rest |-> m.tags]
CreateDefinitionFromModel(m) == [rest |-> m.tags]
HashDefinition(tags) == [rest |-> tags.rest, labels |-> tags.labels]

LabelFilter(ms) == ms.type \notin HkHidden
Ids == {IdName(ms) : ms \in {m \in HkSets : LabelFilter(m)}}

Tenant(ms) == IF HkByTenant /\ ms.ns # "" THEN ms.ns ELSE "heapster"

\* A partial function, changed at one point.
Put(fn, k, v) == [x \in DOMAIN fn \cup {k} |-> IF x = k THEN v ELSE fn[x]]
Dropping(fn, gone) == [x \in DOMAIN fn \ gone |-> fn[x]]
NoItems == [x \in {} |-> 0]

PushToCache(reg, key, hash) == Put(reg, key, [hash |-> hash, ttl |-> runId])

CheckCache(reg, key, hash) == key \in DOMAIN reg /\ reg[key].hash = hash

\* A hit renews the entry.
Touch(reg, key) == [reg EXCEPT ![key].ttl = runId]

ExpireCache(reg, run) == Dropping(reg, {k \in DOMAIN reg : reg[k].ttl + CacheAge <= run})

\* The messages for the headers: of n headers each, the last of the rest.
ToBatches(hs, n) ==
    IF n = 0 THEN <<hs>>
    ELSE LET size == (Len(hs) + n - 1) \div n
         IN [i \in 1 .. size |-> SubSeq(hs, (i - 1) * n + 1, IF Len(hs) < i * n THEN Len(hs) ELSE i * n)]

-----------------------------------------------------------------------------
\* The definitions that the server has are put into the cache, in the order in
\* which it lists them.  One without some tag of its model gets that tag, with an
\* empty value, first; an error there ends it, and the sink starts all the same.
Recent(tags) == tags.rest # "incomplete"

UpdateDefinitions(cached) ==
    /\ cached # DOMAIN tagsOf => \E k \in DOMAIN tagsOf \ cached : ~Recent(tagsOf[k])
    /\ tagsOf' = [k \in DOMAIN tagsOf |->
          IF k \in cached /\ ~Recent(tagsOf[k]) THEN [tagsOf[k] EXCEPT !.rest = "blank"] ELSE tagsOf[k]]
    /\ expReg' = [k \in cached |-> [hash |-> HashDefinition(tagsOf'[k]), ttl |-> runId]]

HkInit ==
    /\ hkPhase = "new" /\ models = FALSE /\ runId = 0
    /\ expReg = NoItems
    /\ \E known \in SUBSET Ids :
          tagsOf \in {t \in [known -> [labels : HkSets, rest : {"incomplete"} \cup HkTags]] :
                         \A k \in known : IdName(t[k].labels) = k}
    /\ todo = <<>> /\ headers = <<>> /\ messages = NoItems /\ updaters = {}
    /\ seen = <<>> /\ unsure = {}

HkOff ==
    /\ hkPhase = "off" /\ models = FALSE /\ runId = 0
    /\ expReg = NoItems /\ tagsOf = NoItems
    /\ todo = <<>> /\ headers = <<>> /\ messages = NoItems /\ updaters = {}
    /\ seen = <<>> /\ unsure = {}

\* NewHawkularSink.  init refuses options that cannot be parsed, files that cannot be
\* read, and some that do not go together.
HkRefuse ==
    /\ hkPhase = "new"
    /\ hkPhase' = "refused"
    /\ UNCHANGED <<models, runId, expReg, tagsOf, todo, headers, messages, updaters, seen, unsure>>

\* The definitions are fetched unless that is disabled, or fails.
HkRegister ==
    /\ hkPhase = "new"
    /\ hkPhase' = "idle" /\ models' = TRUE
    /\ \/ UNCHANGED <<expReg, tagsOf>>
       \/ \E cached \in SUBSET DOMAIN tagsOf : UpdateDefinitions(cached)
    /\ UNCHANGED <<runId, todo, headers, messages, updaters, seen, unsure>>

\* ExportData begins, with the metrics in some order.  There may be metric sets
\* without metrics; without metric sets nothing is written.
HkExportData ==
    /\ hkPhase = "idle" /\ runId < MaxRun
    /\ runId' = runId + 1
    /\ \E n \in 0 .. HkMetrics : \E ms \in [1 .. n -> [set : HkSets, tags : HkTags]] : todo' = ms
    /\ hkPhase' = "exporting" \/ (hkPhase' = "waiting" /\ todo' = <<>>)
    /\ seen' = Append(IF Len(seen) < CacheAge THEN seen ELSE Tail(seen), {})
    /\ UNCHANGED <<models, expReg, tagsOf, headers, messages, updaters, unsure>>

Sees(key) == seen' = [seen EXCEPT ![Len(seen)] = @ \cup {key}]

\* registerLabeledIfNecessaryInline, and the header of the metric.
RegisterLabeledIfNecessaryInline ==
    /\ hkPhase = "exporting" /\ todo # <<>>
    /\ todo' = Tail(todo)
    /\ LET m == Head(todo)
           key == IdName(m.set)
           hash == CreateDefinitionFromModel(m)
           rivals == {u \in updaters : u.key = key}
       IN IF ~LabelFilter(m.set) THEN UNCHANGED <<headers, expReg, updaters, seen>>
          ELSE /\ headers' = Append(headers, m)
               /\ IF ~models THEN UNCHANGED <<expReg, updaters, seen>>
                  ELSE IF CheckCache(expReg, key, hash)
                  THEN expReg' = Touch(expReg, key) /\ Sees(key) /\ UNCHANGED updaters
                  ELSE /\ updaters' = {[u EXCEPT !.alone = u \notin rivals /\ @] : u \in updaters}
                            \cup {[n |-> Len(todo), key |-> key, metric |-> m, at |-> "call", alone |-> rivals = {}]}
                       /\ UNCHANGED <<expReg, seen>>
    /\ UNCHANGED <<hkPhase, models, runId, tagsOf, messages, unsure>>

\* Mutant: the entry is made before the server has answered.
UpdateTagsEarly(u) ==
    /\ u.at = "call"
    /\ expReg' = PushToCache(expReg, u.key, CreateDefinitionFromModel(u.metric))
    /\ \/ /\ updaters' = (updaters \ {u}) \cup {[u EXCEPT !.at = "answer"]}
          /\ tagsOf' = Put(tagsOf, u.key, TagsOf(u.metric))
       \/ updaters' = updaters \ {u} /\ UNCHANGED tagsOf
    /\ UNCHANGED <<hkPhase, models, runId, todo, headers, messages, seen, unsure>>

\* UpdateTags of a goroutine: answered, carried out with the answer lost, or not
\* carried out.  An error leaves the cache as it is.
UpdateTags(u) ==
    /\ u.at = "call"
    /\ \/ /\ updaters' = (updaters \ {u}) \cup {[u EXCEPT !.at = "answer"]}
          /\ tagsOf' = Put(tagsOf, u.key, TagsOf(u.metric)) /\ UNCHANGED unsure
       \/ updaters' = updaters \ {u} /\ tagsOf' = Put(tagsOf, u.key, TagsOf(u.metric)) /\ unsure' = unsure \cup {u.key}
       \/ updaters' = updaters \ {u} /\ UNCHANGED <<tagsOf, unsure>>
    /\ UNCHANGED <<hkPhase, models, runId, expReg, todo, headers, messages, seen>>

\* The goroutine remembers the tags.
UpdateAnswered(u) ==
    /\ u.at = "answer"
    /\ expReg' = PushToCache(expReg, u.key, CreateDefinitionFromModel(u.metric))
    /\ Sees(u.key)
    /\ unsure' = IF u.alone THEN unsure \ {u.key} ELSE unsure \cup {u.key}
    /\ updaters' = updaters \ {u}
    /\ UNCHANGED <<hkPhase, models, runId, tagsOf, todo, headers, messages>>

\* sendData; an error of a write is only logged.  Without labelToTenant the one
\* tenant is written to even if it has no headers.
HeadersFor(t) == SelectSeq(headers, LAMBDA m : Tenant(m.set) = t)
Tenants == {Tenant(headers[i].set) : i \in DOMAIN headers} \cup (IF HkByTenant THEN {} ELSE {"heapster"})
HkSendData ==
    /\ hkPhase = "exporting" /\ todo = <<>>
    /\ messages' = [t \in Tenants |-> ToBatches(HeadersFor(t), HkBatch)]
    /\ hkPhase' = "waiting"
    /\ UNCHANGED <<models, runId, expReg, tagsOf, todo, headers, updaters, seen, unsure>>

\* All goroutines have finished.
HkReturn ==
    /\ hkPhase = "waiting" /\ updaters = {}
    /\ expReg' = ExpireCache(expReg, runId)
    /\ hkPhase' = "idle" /\ headers' = <<>> /\ messages' = NoItems
    /\ UNCHANGED <<models, runId, tagsOf, todo, updaters, seen, unsure>>

\* Stop initialises the sink anew, without descriptors.
HkStop ==
    /\ hkPhase = "idle"
    /\ hkPhase' = "stopped" /\ models' = FALSE /\ runId' = 0 /\ expReg' = NoItems
    /\ UNCHANGED <<tagsOf, todo, headers, messages, updaters, seen, unsure>>

HkNext ==
    \/ HkRefuse \/ HkRegister \/ HkExportData \/ RegisterLabeledIfNecessaryInline \/ HkSendData \/ HkReturn \/ HkStop
    \/ \E u \in updaters : UpdateTags(u) \/ UpdateAnswered(u)

HkSpec == HkInit /\ [][HkNext]_hkVars

-----------------------------------------------------------------------------
\* What an entry of the cache is worth.  The server has the tags that the hash covers,
\* so that passing over the update loses none of these, unless the answer to an update
\* was lost or two goroutines updated the same id at once; of the labels of the metric
\* set, which the hash leaves out, nothing is promised.  And the cache holds the ids
\* that were found or updated in the last CacheAge exports and no other: an id that
\* keeps coming is never forgotten, one that went away is, and what the server had at
\* the start is forgotten as well.
CacheSound ==
    hkPhase = "idle" =>
        /\ \A k \in DOMAIN expReg \ unsure : k \in DOMAIN tagsOf /\ expReg[k].hash.rest = tagsOf[k].rest
        /\ runId >= CacheAge => DOMAIN expReg = UNION {seen[i] : i \in DOMAIN seen}
=============================================================================
