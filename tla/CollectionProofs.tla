------------------------- MODULE CollectionProofs ----------------------------
(***************************************************************************)
(* Proofs about what the first steps of a round collect.  The rate         *)
(* calculator, which every round passes through: for any number of rounds, *)
(* any set of keys and any parallelism.  And the call of the source        *)
(* manager's ScrapeMetrics before it: for any number of sources, any       *)
(* timeout and any lateness of the collector, whatever the sources answer. *)
(***************************************************************************)
EXTENDS SourceManager, RateCalculator, FiniteSetTheorems, TLAPS

-----------------------------------------------------------------------------
(* The rate calculator                                                     *)

Positions == {"none", "scrape", "process", "first", "compare", "rates", "enrich", "done", "lost"}

RateTypes ==
    /\ tokens \in Nat
    /\ pc \in [Batches -> Positions]
    /\ data \in [Batches -> [RateKeys -> Reading \cup {Absent}]]
    /\ pending \in [Batches -> SUBSET RateKeys]
    /\ base \in [Batches -> [RateKeys -> 0 .. MaxBatch]]
    /\ prev \in 0 .. MaxBatch
    /\ overlapped \in BOOLEAN

\* A batch is published in previousBatch only when it has been through the
\* calculator, so what it is compared with no longer changes; and previousBatch
\* is not nil again once it is set.
Published ==
    /\ prev # 0 => pc[prev] \in {"enrich", "done"}
    /\ \A b \in Batches : pc[b] \in {"compare", "rates"} => prev # 0
    /\ \A b \in Batches : pending[b] # {} => pc[b] = "rates"
    /\ \A b \in Batches : \A k \in pending[b] : data[b][k] # Absent
    /\ \A b \in Batches, k \in RateKeys : base[b][k] # 0 =>
          /\ pc[b] \in {"rates", "enrich", "done"}
          /\ pc[base[b][k]] \in {"enrich", "done"}

\* A reading is of the round it came in or of the one before it, and a rate is over
\* two readings that are there.
Dated ==
    \A b \in Batches, k \in RateKeys :
        /\ data[b][k] # Absent => data[b][k].scrape \in {b - 1, b}
        /\ base[b][k] # 0 => data[b][k] # Absent /\ data[base[b][k]][k] # Absent

SoundInv == RateTypes /\ Published /\ Dated

-----------------------------------------------------------------------------
\* The invariant holds at the start.
LEMMA SoundInit ==
    ASSUME RateInit
    PROVE  SoundInv
<1>1. RateTypes
  <2>1. overlapped \in BOOLEAN
    BY Zenon DEF RateInit
  <2>2. /\ tokens \in Nat /\ prev \in 0 .. MaxBatch
        /\ base \in [Batches -> [RateKeys -> 0 .. MaxBatch]]
    BY RateAssumption DEF RateInit
  <2> QED
    BY <2>1, <2>2, Zenon DEF RateInit, RateTypes, Positions
<1>2. Published /\ Dated
  BY DEF RateInit, Published, Dated, Batches
<1> QED
  BY <1>1, <1>2, Zenon DEF SoundInv

\* The start of a round moves the round and nothing else.
LEMMA SoundBegin ==
    ASSUME SoundInv, NEW b \in Batches, Begin(b)
    PROVE  SoundInv'
<1>1. RateTypes'
  BY Zenon DEF Begin, Goto, SoundInv, RateTypes, Positions
<1>2. \A c \in Batches : pc'[c] # pc[c] => pc[c] = "none" /\ pc'[c] = "scrape"
  BY Zenon DEF Begin, Goto, SoundInv, RateTypes
<1>3. Published'
  <2>1. prev # 0 => prev \in Batches
    BY DEF SoundInv, RateTypes, Batches
  <2>2. \A c \in Batches, k \in RateKeys : base[c][k] # 0 => base[c][k] \in Batches
    BY DEF SoundInv, RateTypes, Batches
  <2>3. ASSUME NEW c \in Batches, NEW k \in RateKeys, base[c][k] # 0
        PROVE  pc'[c] = pc[c] /\ pc'[base[c][k]] = pc[base[c][k]]
    BY <1>2, <2>2, <2>3 DEF SoundInv, Published
  <2> QED
    BY <1>2, <2>1, <2>3 DEF Begin, SoundInv, Published
<1>4. Dated'
  BY Zenon DEF Begin, SoundInv, Dated
<1> QED
  BY <1>1, <1>3, <1>4, Zenon DEF SoundInv

\* A scrape fills a batch that nothing was compared with.
LEMMA SoundScrape ==
    ASSUME SoundInv, NEW b \in Batches, Scrape(b)
    PROVE  SoundInv'
<1>1. PICK d \in [RateKeys -> Readings(b)] : data' = [data EXCEPT ![b] = d]
  BY Zenon DEF Scrape
<1>2. Readings(b) \subseteq Reading \cup {Absent}
  BY RateAssumption DEF Readings, Reading, Batches
<1>3. RateTypes'
  BY <1>1, <1>2, Zenon DEF Scrape, Goto, SoundInv, RateTypes, Positions, Batches
<1>4. Published'
  BY <1>1 DEF Scrape, Goto, SoundInv, RateTypes, Positions, Published, Batches
<1>5. ASSUME NEW c \in Batches, NEW k \in RateKeys, base[c][k] # 0
      PROVE  data'[c] = data[c] /\ data'[base[c][k]] = data[base[c][k]]
  <2>1. base[c][k] \in Batches
    BY <1>5 DEF SoundInv, RateTypes, Batches
  <2>2. pc[c] # "scrape" /\ pc[base[c][k]] # "scrape"
    BY <1>5, Zenon DEF SoundInv, Published
  <2>3. c # b /\ base[c][k] # b
    BY <2>2, Zenon DEF Scrape, Goto
  <2> QED
    BY <1>1, <2>1, <2>3, Zenon DEF SoundInv, RateTypes
<1>6. ASSUME NEW c \in Batches, NEW k \in RateKeys
      PROVE  data'[c][k] # Absent => data'[c][k].scrape \in {c - 1, c}
  <2>1. CASE c = b
    <3>1. data'[c][k] \in Readings(c)
      BY <1>1, <2>1, Zenon DEF SoundInv, RateTypes
    <3> QED
      BY <3>1 DEF Readings
  <2>2. CASE c # b
    <3>1. data'[c] = data[c]
      BY <1>1, <2>2, Zenon DEF SoundInv, RateTypes
    <3> QED
      BY <3>1, Zenon DEF SoundInv, Dated
  <2> QED
    BY <2>1, <2>2, Zenon
<1>7. Dated'
  <2>1. base' = base
    BY Zenon DEF Scrape
  <2>2. ASSUME NEW c \in Batches, NEW k \in RateKeys, base[c][k] # 0
        PROVE  data'[c][k] # Absent /\ data'[base[c][k]][k] # Absent
    BY <1>5, <2>2 DEF SoundInv, Dated
  <2> QED
    BY <1>6, <2>1, <2>2, Zenon DEF Dated
<1> QED
  BY <1>3, <1>4, <1>7, Zenon DEF SoundInv

\* A step that computes no rate is sound if no batch goes back to the calculator
\* once it has left it, and previousBatch holds one that has.
LEMMA SoundMove ==
    ASSUME SoundInv, RateTypes', data' = data, base' = base,
           \A c \in Batches :
               /\ pc[c] \in {"enrich", "done"} => pc'[c] \in {"enrich", "done"}
               /\ pc[c] = "rates" => pc'[c] \in {"rates", "enrich", "done"},
           prev' # 0 => pc'[prev'] \in {"enrich", "done"},
           \A c \in Batches :
               /\ pc'[c] \in {"compare", "rates"} => prev' # 0
               /\ pending'[c] # {} => pc'[c] = "rates"
               /\ \A k \in pending'[c] : data[c][k] # Absent
    PROVE  SoundInv'
<1>1. \A c \in Batches, k \in RateKeys : base[c][k] # 0 => base[c][k] \in Batches
  BY DEF SoundInv, RateTypes, Batches
<1>2. ASSUME NEW c \in Batches, NEW k \in RateKeys, base'[c][k] # 0
      PROVE  pc'[c] \in {"rates", "enrich", "done"} /\ pc'[base'[c][k]] \in {"enrich", "done"}
  <2>1. pc[c] \in {"rates", "enrich", "done"} /\ pc[base[c][k]] \in {"enrich", "done"}
    BY <1>2, Zenon DEF SoundInv, Published
  <2> QED
    BY <1>1, <1>2, <2>1, Zenon
<1>3. Published'
  BY <1>2 DEF Published
<1>4. Dated'
  BY Zenon DEF SoundInv, Dated
<1> QED
  BY <1>3, <1>4, Zenon DEF SoundInv

\* A round that is lost was not in the calculator.
LEMMA SoundLose ==
    ASSUME SoundInv, NEW b \in Batches, Lose(b)
    PROVE  SoundInv'
<1>1. /\ pc[b] \in {"none", "scrape"} /\ pc'[b] = "lost"
      /\ \A c \in Batches : c # b => pc'[c] = pc[c]
      /\ UNCHANGED <<tokens, data, base>>
  BY Zenon DEF Lose, SoundInv, RateTypes
<1>2. prev # 0 => prev \in Batches
  BY DEF SoundInv, RateTypes, Batches
<1>3. RateTypes'
  <2>1. pc' \in [Batches -> Positions]
    BY DEF Lose, SoundInv, RateTypes, Positions
  <2> QED
    BY <2>1, Zenon DEF Lose, SoundInv, RateTypes
<1>4. prev' # 0 => pc'[prev'] \in {"enrich", "done"}
  BY <1>1, <1>2 DEF Lose, SoundInv, Published
<1>5. ASSUME NEW c \in Batches
      PROVE  /\ pc'[c] \in {"compare", "rates"} => prev' # 0
             /\ pending'[c] # {} => pc'[c] = "rates"
             /\ \A k \in pending'[c] : data[c][k] # Absent
  BY <1>1 DEF Lose, SoundInv, Published
<1>6. \A c \in Batches :
        /\ pc[c] \in {"enrich", "done"} => pc'[c] \in {"enrich", "done"}
        /\ pc[c] = "rates" => pc'[c] \in {"rates", "enrich", "done"}
  BY <1>1, Zenon
<1> QED
  BY <1>1, <1>3, <1>4, <1>5, <1>6, SoundMove, Zenon

\* Looking at previousBatch changes only where the round is.
LEMMA SoundCheckNil ==
    ASSUME SoundInv, NEW b \in Batches, CheckNil(b)
    PROVE  SoundInv'
<1>1. /\ pc[b] = "process" /\ pc'[b] \in {"first", "compare"}
      /\ \A c \in Batches : c # b => pc'[c] = pc[c]
      /\ UNCHANGED <<tokens, data, base>>
  BY Zenon DEF CheckNil, Goto, SoundInv, RateTypes
<1>2. prev # 0 => prev \in Batches
  BY DEF SoundInv, RateTypes, Batches
<1>3. RateTypes'
  BY Zenon DEF CheckNil, Goto, SoundInv, RateTypes, Positions, Batches
<1>4. prev' # 0 => pc'[prev'] \in {"enrich", "done"}
  BY <1>1, <1>2, Zenon DEF CheckNil, SoundInv, Published
<1>5. ASSUME NEW c \in Batches
      PROVE  /\ pc'[c] \in {"compare", "rates"} => prev' # 0
             /\ pending'[c] # {} => pc'[c] = "rates"
             /\ \A k \in pending'[c] : data[c][k] # Absent
  BY <1>1 DEF CheckNil, Goto, SoundInv, Published
<1>6. \A c \in Batches :
        /\ pc[c] \in {"enrich", "done"} => pc'[c] \in {"enrich", "done"}
        /\ pc[c] = "rates" => pc'[c] \in {"rates", "enrich", "done"}
  BY <1>1, Zenon
<1> QED
  BY <1>1, <1>3, <1>4, <1>5, <1>6, SoundMove, Zenon

\* The batch that becomes previousBatch is complete.
LEMMA SoundStoreFirst ==
    ASSUME SoundInv, NEW b \in Batches, StoreFirst(b)
    PROVE  SoundInv'
<1>1. /\ pc[b] = "first" /\ pc'[b] \in {"enrich"}
      /\ \A c \in Batches : c # b => pc'[c] = pc[c]
      /\ UNCHANGED <<tokens, data, base>>
  BY Zenon DEF StoreFirst, Goto, SoundInv, RateTypes
<1>2. prev # 0 => prev \in Batches
  BY DEF SoundInv, RateTypes, Batches
<1>3. RateTypes'
  BY DEF StoreFirst, Goto, SoundInv, RateTypes, Positions, Batches
<1>4. prev' # 0 => pc'[prev'] \in {"enrich", "done"}
  BY <1>1, <1>2, Zenon DEF StoreFirst, SoundInv, Published
<1>5. ASSUME NEW c \in Batches
      PROVE  /\ pc'[c] \in {"compare", "rates"} => prev' # 0
             /\ pending'[c] # {} => pc'[c] = "rates"
             /\ \A k \in pending'[c] : data[c][k] # Absent
  BY <1>1 DEF StoreFirst, Goto, SoundInv, Published, Batches
<1>6. \A c \in Batches :
        /\ pc[c] \in {"enrich", "done"} => pc'[c] \in {"enrich", "done"}
        /\ pc[c] = "rates" => pc'[c] \in {"rates", "enrich", "done"}
  BY <1>1, Zenon
<1> QED
  BY <1>1, <1>3, <1>4, <1>5, <1>6, SoundMove, Zenon

\* The range is over the metric sets that are there.
LEMMA SoundCheckTimestamp ==
    ASSUME SoundInv, NEW b \in Batches, CheckTimestamp(b)
    PROVE  SoundInv'
<1>1. /\ pc[b] = "compare" /\ pc'[b] \in {"rates", "enrich"}
      /\ \A c \in Batches : c # b => pc'[c] = pc[c]
      /\ UNCHANGED <<tokens, data, base>>
  BY Zenon DEF CheckTimestamp, Goto, SoundInv, RateTypes
<1>2. prev # 0 => prev \in Batches
  BY DEF SoundInv, RateTypes, Batches
<1>3. RateTypes'
  BY Zenon DEF CheckTimestamp, Goto, SoundInv, RateTypes, Positions, Batches
<1>4. prev' # 0 => pc'[prev'] \in {"enrich", "done"}
  BY <1>1, <1>2, Zenon DEF CheckTimestamp, SoundInv, Published
<1>5. ASSUME NEW c \in Batches
      PROVE  /\ pc'[c] \in {"compare", "rates"} => prev' # 0
             /\ pending'[c] # {} => pc'[c] = "rates"
             /\ \A k \in pending'[c] : data[c][k] # Absent
  <2>1. CASE c = b
    BY <1>1, <2>1, Zenon DEF CheckTimestamp, Goto, SoundInv, RateTypes, Published
  <2>2. CASE c # b
    BY <1>1, <2>2 DEF CheckTimestamp, SoundInv, RateTypes, Published
  <2> QED
    BY <2>1, <2>2, Zenon
<1>6. \A c \in Batches :
        /\ pc[c] \in {"enrich", "done"} => pc'[c] \in {"enrich", "done"}
        /\ pc[c] = "rates" => pc'[c] \in {"rates", "enrich", "done"}
  BY <1>1, Zenon
<1> QED
  BY <1>1, <1>3, <1>4, <1>5, <1>6, SoundMove, Zenon

\* A rate is computed against the batch that is in previousBatch at that moment,
\* which need not be the one whose timestamp was checked.
LEMMA SoundRate ==
    ASSUME SoundInv, NEW b \in Batches, NEW k \in RateKeys, Rate(b, k)
    PROVE  SoundInv'
<1> DEFINE v == IF Comparable(data[b][k], data[prev][k]) THEN prev ELSE 0
<1>1. /\ v \in 0 .. MaxBatch
      /\ base' = [base EXCEPT ![b][k] = v]
      /\ v # 0 => prev # 0 /\ v = prev /\ Comparable(data[b][k], data[v][k])
  BY RateAssumption DEF Rate, SoundInv, RateTypes
<1> HIDE DEF v
<1>2. RateTypes'
  BY <1>1 DEF Rate, SoundInv, RateTypes, Positions
<1>3. /\ base'[b][k] = v
      /\ \A c \in Batches, l \in RateKeys : c # b \/ l # k => base'[c][l] = base[c][l]
  BY <1>1, Zenon DEF SoundInv, RateTypes
<1>4. Published'
  <2>1. \A c \in Batches : pending'[c] \subseteq pending[c]
    BY Zenon DEF Rate, SoundInv, RateTypes
  <2>2. pc[b] = "rates" /\ prev # 0 /\ pc[prev] \in {"enrich", "done"}
    BY Zenon DEF Rate, SoundInv, Published
  <2>3. ASSUME NEW c \in Batches, NEW l \in RateKeys, base'[c][l] # 0
        PROVE  pc[c] \in {"rates", "enrich", "done"} /\ pc[base'[c][l]] \in {"enrich", "done"}
    BY <1>1, <1>3, <2>2, <2>3 DEF SoundInv, Published
  <2> QED
    BY <2>1, <2>2, <2>3 DEF Rate, SoundInv, Published
<1>5. ASSUME NEW c \in Batches, NEW l \in RateKeys, base'[c][l] # 0
      PROVE  data[c][l] # Absent /\ data[base'[c][l]][l] # Absent
  <2>1. CASE c = b /\ l = k
    BY <1>1, <1>3, <1>5, <2>1 DEF Rate, Comparable, SoundInv, Published
  <2>2. CASE c # b \/ l # k
    BY <1>3, <1>5, <2>2 DEF SoundInv, Dated
  <2> QED
    BY <2>1, <2>2, Zenon
<1>6. Dated'
  BY <1>5, Zenon DEF Rate, SoundInv, Dated
<1> QED
  BY <1>2, <1>4, <1>6, Zenon DEF SoundInv

\* As for the first batch.
LEMMA SoundStore ==
    ASSUME SoundInv, NEW b \in Batches, Store(b)
    PROVE  SoundInv'
<1>1. /\ pc[b] = "rates" /\ pc'[b] \in {"enrich"}
      /\ \A c \in Batches : c # b => pc'[c] = pc[c]
      /\ UNCHANGED <<tokens, data, base>>
  BY Zenon DEF Store, Goto, SoundInv, RateTypes
<1>2. prev # 0 => prev \in Batches
  BY DEF SoundInv, RateTypes, Batches
<1>3. RateTypes'
  BY DEF Store, Goto, SoundInv, RateTypes, Positions, Batches
<1>4. prev' # 0 => pc'[prev'] \in {"enrich", "done"}
  BY <1>1, <1>2, Zenon DEF Store, SoundInv, Published
<1>5. ASSUME NEW c \in Batches
      PROVE  /\ pc'[c] \in {"compare", "rates"} => prev' # 0
             /\ pending'[c] # {} => pc'[c] = "rates"
             /\ \A k \in pending'[c] : data[c][k] # Absent
  BY <1>1 DEF Store, Goto, SoundInv, Published, Batches
<1>6. \A c \in Batches :
        /\ pc[c] \in {"enrich", "done"} => pc'[c] \in {"enrich", "done"}
        /\ pc[c] = "rates" => pc'[c] \in {"rates", "enrich", "done"}
  BY <1>1, Zenon
<1> QED
  BY <1>1, <1>3, <1>4, <1>5, <1>6, SoundMove, Zenon

\* The end of a round.
LEMMA SoundEnrich ==
    ASSUME SoundInv, NEW b \in Batches, Enrich(b)
    PROVE  SoundInv'
<1>1. /\ pc[b] = "enrich" /\ pc'[b] \in {"done"}
      /\ \A c \in Batches : c # b => pc'[c] = pc[c]
      /\ UNCHANGED <<tokens, data, base>>
  BY Zenon DEF Enrich, Goto, SoundInv, RateTypes
<1>2. prev # 0 => prev \in Batches
  BY DEF SoundInv, RateTypes, Batches
<1>3. RateTypes'
  BY Zenon DEF Enrich, Goto, SoundInv, RateTypes, Positions, Batches
<1>4. prev' # 0 => pc'[prev'] \in {"enrich", "done"}
  BY <1>1, <1>2, Zenon DEF Enrich, SoundInv, Published
<1>5. ASSUME NEW c \in Batches
      PROVE  /\ pc'[c] \in {"compare", "rates"} => prev' # 0
             /\ pending'[c] # {} => pc'[c] = "rates"
             /\ \A k \in pending'[c] : data[c][k] # Absent
  BY <1>1, Zenon DEF Enrich, Goto, SoundInv, Published
<1>6. \A c \in Batches :
        /\ pc[c] \in {"enrich", "done"} => pc'[c] \in {"enrich", "done"}
        /\ pc[c] = "rates" => pc'[c] \in {"rates", "enrich", "done"}
  BY <1>1, Zenon
<1> QED
  BY <1>1, <1>3, <1>4, <1>5, <1>6, SoundMove, Zenon

\* SoundInv is inductive.
LEMMA SoundStep ==
    ASSUME SoundInv, [RateNext]_rateVars
    PROVE  SoundInv'
<1>1. CASE UNCHANGED rateVars
  BY <1>1 DEF rateVars, SoundInv, RateTypes, Published, Dated
<1>2. ASSUME NEW b \in Batches, RoundStep(b)
      PROVE  SoundInv'
  BY <1>2, SoundBegin, SoundScrape, SoundLose, SoundCheckNil, SoundStoreFirst, SoundCheckTimestamp,
     SoundRate, SoundStore, SoundEnrich, Zenon DEF RoundStep
<1> QED
  BY <1>1, <1>2, Zenon DEF RateNext

-----------------------------------------------------------------------------
(* One round in the calculator at a time                                   *)

\* As long as no two rounds met in the calculator, the rates of a key were computed
\* in the order of the batches: those that have one are behind previousBatch, except
\* the batch that is being compared, which is ahead of it.
InTurn ==
    /\ \A b, c \in Inside : b = c
    /\ \A b \in Batches : pc[b] = "first" => prev = 0
    /\ \A b \in Batches : pc[b] = "rates" => prev < b
    /\ \A b \in Batches, k \in RateKeys : base[b][k] # 0 => pc[b] = "rates" \/ b <= prev
    /\ \A a, b \in Batches, k \in RateKeys :
          a < b /\ base[a][k] # 0 /\ base[b][k] # 0 => a <= base[b][k]

OnceInv == SoundInv /\ (~overlapped => InTurn)

\* A round enters the calculator when no other is inside.
LEMMA OnceCheckNil ==
    ASSUME SoundInv, InTurn, NEW b \in Batches, CheckNil(b), ~overlapped'
    PROVE  InTurn'
<1>1. /\ pc[b] = "process" /\ pc'[b] = IF prev = 0 THEN "first" ELSE "compare"
      /\ \A c \in Batches : c # b => pc'[c] = pc[c]
  BY Zenon DEF CheckNil, Goto, SoundInv, RateTypes
<1>2. Inside = {}
  BY Zenon DEF CheckNil
<1>3. \A c \in Batches : pc'[c] \in {"first", "compare", "rates"} => c = b
  BY <1>1, <1>2, Zenon DEF Inside
<1> QED
  BY <1>1, <1>3, Zenon DEF CheckNil, InTurn, Inside

\* A round that is not about to enter or to leave the calculator.
LEMMA OnceOutside ==
    ASSUME InTurn, UNCHANGED <<base, prev>>,
           \A c \in Batches : /\ pc[c] = "rates" => pc'[c] = "rates"
                              /\ pc'[c] \in {"first", "rates"} => pc'[c] = pc[c]
                              /\ pc'[c] \in {"first", "compare", "rates"} => c \in Inside
    PROVE  InTurn'
<1>1. Inside' \subseteq Inside
  BY Zenon DEF Inside
<1> QED
  BY <1>1, Zenon DEF InTurn

\* The first batch finds no rate computed.
LEMMA OnceStoreFirst ==
    ASSUME SoundInv, InTurn, NEW b \in Batches, StoreFirst(b)
    PROVE  InTurn'
<1>1. /\ pc[b] = "first" /\ pc'[b] = "enrich"
      /\ \A c \in Batches : c # b => pc'[c] = pc[c]
      /\ base' = base
  BY Zenon DEF StoreFirst, Goto, SoundInv, RateTypes
<1>2. \A c \in Batches : pc'[c] \notin {"first", "compare", "rates"}
  BY <1>1 DEF InTurn, Inside
<1>3. \A c \in Batches : pc[c] # "rates"
  BY <1>1 DEF InTurn, Inside
<1>4. \A c \in Batches, k \in RateKeys : base[c][k] = 0
  BY <1>1, <1>3 DEF InTurn, Batches
<1> QED
  BY <1>1, <1>2, <1>4, Zenon DEF InTurn, Inside

\* A batch that is compared is newer than previousBatch.
LEMMA OnceCheckTimestamp ==
    ASSUME SoundInv, InTurn, NEW b \in Batches, CheckTimestamp(b)
    PROVE  InTurn'
<1>1. /\ pc[b] = "compare" /\ pc'[b] \in {"rates", "enrich"} /\ (pc'[b] = "rates" => b > prev)
      /\ \A c \in Batches : c # b => pc'[c] = pc[c]
      /\ UNCHANGED <<base, prev>>
  BY Zenon DEF CheckTimestamp, Goto, SoundInv, RateTypes
<1>2. \A c \in Batches : pc'[c] \in {"first", "compare", "rates"} => c = b
  BY <1>1, Zenon DEF InTurn, Inside
<1>3. \A c \in Batches : pc[c] # "rates"
  BY <1>1 DEF InTurn, Inside
<1>4. pc'[b] = "rates" => prev < b
  BY <1>1 DEF SoundInv, RateTypes, Batches
<1> QED
  BY <1>1, <1>2, <1>3, <1>4, Zenon DEF InTurn, Inside

\* previousBatch, which the rate is computed against, is not behind any batch that
\* has a rate.
LEMMA OnceRate ==
    ASSUME SoundInv, InTurn, NEW b \in Batches, NEW k \in RateKeys, Rate(b, k)
    PROVE  InTurn'
<1>1. /\ base'[b][k] \in {0, prev}
      /\ \A c \in Batches, l \in RateKeys : c # b \/ l # k => base'[c][l] = base[c][l]
  BY Zenon DEF Rate, SoundInv, RateTypes
<1>2. pc[b] = "rates" /\ prev < b /\ UNCHANGED <<pc, prev>>
  BY Zenon DEF Rate, InTurn
<1>3. \A c \in Batches, l \in RateKeys : c # b /\ base[c][l] # 0 => c <= prev
  BY <1>2, Zenon DEF InTurn, Inside
<1>4. \A c \in Batches, l \in RateKeys : base'[c][l] # 0 => pc[c] = "rates" \/ c <= prev
  BY <1>1, <1>2, Zenon DEF InTurn
<1>5. ASSUME NEW a \in Batches, NEW c \in Batches, NEW l \in RateKeys,
             a < c, base'[a][l] # 0, base'[c][l] # 0
      PROVE  a <= base'[c][l]
  <2>1. CASE a = b
    <3>1. c <= prev
      BY <1>1, <1>3, <1>5, <2>1 DEF Batches
    <3> QED
      BY <1>2, <1>5, <2>1, <3>1 DEF SoundInv, RateTypes, Batches
  <2>2. CASE a # b /\ c = b /\ l = k
    <3>1. a <= prev /\ base'[c][l] = prev
      BY <1>1, <1>3, <1>5, <2>2, Zenon
    <3> QED
      BY <3>1, Zenon
  <2>3. CASE a # b /\ (c # b \/ l # k)
    BY <1>1, <1>5, <2>3, Zenon DEF InTurn
  <2> QED
    BY <2>1, <2>2, <2>3, Zenon
<1> QED
  BY <1>2, <1>4, <1>5, Zenon DEF InTurn, Inside

\* previousBatch moves on to the batch that was compared.
LEMMA OnceStore ==
    ASSUME SoundInv, InTurn, NEW b \in Batches, Store(b)
    PROVE  InTurn'
<1>1. /\ pc[b] = "rates" /\ pc'[b] = "enrich" /\ prev' = b
      /\ \A c \in Batches : c # b => pc'[c] = pc[c]
      /\ base' = base
  BY Zenon DEF Store, Goto, SoundInv, RateTypes
<1>2. \A c \in Batches : pc'[c] \notin {"first", "compare", "rates"}
  BY <1>1 DEF InTurn, Inside
<1>3. prev < b
  BY <1>1, Zenon DEF InTurn
<1>4. \A c \in Batches, k \in RateKeys : base[c][k] # 0 => c <= b
  <2>1. ASSUME NEW c \in Batches, NEW k \in RateKeys, base[c][k] # 0
        PROVE  c = b \/ c <= prev
    BY <1>1, <2>1, Zenon DEF InTurn, Inside
  <2> QED
    BY <1>3, <2>1 DEF SoundInv, RateTypes, Batches
<1> QED
  BY <1>1, <1>2, <1>4, Zenon DEF InTurn, Inside

\* OnceInv is inductive.
LEMMA OnceStep ==
    ASSUME OnceInv, [RateNext]_rateVars
    PROVE  OnceInv'
<1>1. SoundInv'
  BY SoundStep, Zenon DEF OnceInv
<1>2. CASE UNCHANGED rateVars
  BY <1>1, <1>2, Zenon DEF rateVars, OnceInv, InTurn, Inside
<1>3. ASSUME NEW b \in Batches, RoundStep(b), ~overlapped'
      PROVE  InTurn'
  <2>1. ~overlapped
    BY <1>3, Zenon DEF RoundStep, Begin, Scrape, Lose, CheckNil, StoreFirst, CheckTimestamp, Rate, Store, Enrich
  <2>2. SoundInv /\ InTurn
    BY <2>1, Zenon DEF OnceInv
  <2>3. ASSUME Begin(b) \/ Scrape(b) \/ Lose(b) \/ Enrich(b)
        PROVE  InTurn'
    <3>1. \E from \in {"none", "scrape", "enrich"}, to \in {"scrape", "process", "lost", "done"} :
            pc[b] = from /\ pc' = [pc EXCEPT ![b] = to]
      BY <2>3, Zenon DEF Begin, Scrape, Lose, Enrich, Goto
    <3>2. UNCHANGED <<base, prev>>
      BY <2>3, Zenon DEF Begin, Scrape, Lose, Enrich
    <3>3. /\ pc[b] \notin {"first", "compare", "rates"} /\ pc'[b] \notin {"first", "compare", "rates"}
          /\ \A c \in Batches : c # b => pc'[c] = pc[c]
      BY <2>2, <3>1, Zenon DEF SoundInv, RateTypes
    <3> QED
      BY <2>2, <3>2, <3>3, OnceOutside, Zenon DEF Inside
  <2> QED
    BY <1>3, <2>2, <2>3, OnceCheckNil, OnceStoreFirst, OnceCheckTimestamp, OnceRate, OnceStore, Zenon DEF RoundStep
<1> QED
  BY <1>1, <1>2, <1>3, Zenon DEF OnceInv, RateNext

\* However many rounds scrape and export side by side, in whatever order they reach
\* the calculator and whichever are lost: unless two met inside Process, no stretch
\* of time is in two rates of a key.
THEOREM RatesAlwaysOnce == RateSpec => []RatedOnce
<1>1. RateInit => OnceInv
  <2>1. RateInit => SoundInv
    BY SoundInit, Zenon
  <2>2. RateInit => InTurn
    BY DEF RateInit, InTurn, Inside
  <2> QED
    BY <2>1, <2>2, Zenon DEF OnceInv
<1>2. OnceInv /\ [RateNext]_rateVars => OnceInv'
  BY OnceStep, Zenon
<1>3. OnceInv => RatedOnce
  <2> SUFFICES ASSUME OnceInv, ~overlapped, NEW a \in Batches, NEW b \in Batches, NEW k \in RateKeys,
                      a < b, base[a][k] # 0, base[b][k] # 0
               PROVE  data[a][k].scrape <= data[base[b][k]][k].scrape
    BY Zenon DEF RatedOnce
  <2>1. a <= base[b][k]
    BY Zenon DEF OnceInv, InTurn
  <2>2. base[b][k] \in Batches
    BY DEF OnceInv, SoundInv, RateTypes, Batches
  <2>3. data[a][k] # Absent /\ data[base[b][k]][k] # Absent
    BY Zenon DEF OnceInv, SoundInv, Dated
  <2>4. /\ data[a][k].scrape \in {a - 1, a}
        /\ data[base[b][k]][k].scrape \in {base[b][k] - 1, base[b][k]}
    BY <2>2, <2>3, Zenon DEF OnceInv, SoundInv, Dated
  <2>5. CASE a = base[b][k]
    BY <2>4, <2>5 DEF Batches
  <2>6. CASE a < base[b][k]
    BY <2>2, <2>4, <2>6 DEF Batches
  <2> QED
    BY <2>1, <2>2, <2>5, <2>6 DEF Batches
<1> QED
  BY <1>1, <1>2, <1>3, PTL DEF RateSpec

-----------------------------------------------------------------------------
(* With one token                                                          *)

Over == {"done", "lost"}
Comparing == {"scrape", "process", "first", "compare", "rates"}

\* A round starts only when all before it are over, and finds the last batch that
\* went through the calculator in previousBatch.
OneRound ==
    /\ \A a, b \in Batches : a < b /\ pc[b] # "none" => pc[a] # "none"
    /\ \A a, b \in Batches : a < b /\ pc[b] \notin {"none", "lost"} => pc[a] \in Over
    /\ \A b \in Batches : pc[b] \in {"enrich", "done"} => b <= prev
    /\ \A b \in Batches : pc[b] = "first" => prev = 0

\* Batch a is the last one before b that was not lost.
Before(a, b) == a < b /\ pc[a] = "done" /\ \A c \in (a + 1) .. (b - 1) : pc[c] = "lost"

\* The keys over which a round has ranged have the rates they can have.
RatedSoFar ==
    \A a, b \in Batches : Before(a, b) /\ pc[b] \in {"rates", "enrich", "done"} =>
        \A k \in RateKeys \ pending[b] :
            data[b][k] # Absent /\ Comparable(data[b][k], data[a][k]) => base[b][k] = a

CompleteInv == SoundInv /\ (tokens = 1 => OneRound /\ RatedSoFar)

\* With a single token a round starts when none is in flight.
LEMMA BeginAlone ==
    ASSUME SoundInv, tokens = 1, NEW b \in Batches, Begin(b)
    PROVE  \A c \in Batches : pc[c] \in {"none", "done", "lost"}
<1>1. IsFiniteSet(Batches)
  BY FS_Interval, RateAssumption DEF Batches
<1>2. IsFiniteSet(InFlight)
  BY <1>1, FS_Subset, Zenon DEF InFlight
<1>3. Cardinality(InFlight) = 0
  BY <1>2, FS_CardinalityType DEF Begin
<1>4. InFlight = {}
  BY <1>2, <1>3, FS_EmptySet, Zenon
<1> QED
  BY <1>4, Zenon DEF InFlight

\* All rounds before one that has started have started.
LEMMA StartedInOrder ==
    ASSUME OneRound, NEW b \in Batches, b > 1 => pc[b - 1] # "none"
    PROVE  \A c \in Batches : c < b => pc[c] # "none"
<1>1. CASE b = 1
  BY <1>1 DEF Batches
<1>2. CASE b > 1
  <2>1. b - 1 \in Batches
    BY <1>2, RateAssumption DEF Batches
  <2>2. ASSUME NEW c \in Batches, c < b
        PROVE  c = b - 1 \/ c < b - 1
    BY <2>2 DEF Batches
  <2> QED
    BY <1>2, <2>1, <2>2, Zenon DEF OneRound
<1> QED
  BY <1>1, <1>2 DEF Batches

\* previousBatch lies behind a round that compares, and the rounds between the two
\* were lost.
LEMMA BehindIt ==
    ASSUME CompleteInv, tokens = 1, NEW b \in Batches, pc[b] \in Comparing
    PROVE  /\ prev < b
           /\ \A a \in Batches : Before(a, b) => a = prev
<1>1. prev # 0 => prev \in Batches /\ pc[prev] \in {"enrich", "done"}
  BY DEF CompleteInv, SoundInv, RateTypes, Published, Batches
<1>2. prev < b
  <2>1. ASSUME b < prev PROVE FALSE
    <3>1. prev \in Batches /\ pc[prev] \notin {"none", "lost"}
      BY <1>1, <2>1 DEF CompleteInv, SoundInv, RateTypes, Batches
    <3>2. pc[b] \in Over
      BY <2>1, <3>1, Zenon DEF CompleteInv, OneRound
    <3> QED
      BY <3>2 DEF Over, Comparing
  <2>2. b # prev
    BY <1>1 DEF Comparing, Batches
  <2> QED
    BY <2>1, <2>2 DEF CompleteInv, SoundInv, RateTypes, Batches
<1>3. ASSUME NEW a \in Batches, Before(a, b)
      PROVE  a = prev
  <2>1. a <= prev
    BY <1>3, Zenon DEF Before, CompleteInv, OneRound
  <2>2. a < prev => prev \in (a + 1) .. (b - 1) /\ pc[prev] # "lost"
    BY <1>1, <1>2 DEF CompleteInv, SoundInv, RateTypes, Batches
  <2>3. ~(a < prev)
    BY <1>3, <2>2, Zenon DEF Before
  <2> QED
    BY <2>1, <2>3 DEF CompleteInv, SoundInv, RateTypes, Batches
<1> QED
  BY <1>2, <1>3, Zenon

\* A round that moves on: it is the only one, so the order of the rounds is kept.
LEMMA CompleteMove ==
    ASSUME CompleteInv, tokens = 1, NEW b \in Batches, pc[b] \notin {"none", "done", "lost"},
           NEW to \in Positions \ {"none", "lost"}, pc' = [pc EXCEPT ![b] = to],
           prev' \in Nat, prev <= prev',
           to = "first" => prev = 0,
           to \in {"enrich", "done"} => b <= prev',
           prev' # prev => pc[b] \in {"first", "rates"} /\ to # "first"
    PROVE  OneRound'
<1>1. pc'[b] = to /\ \A c \in Batches : c # b => pc'[c] = pc[c]
  BY Zenon DEF CompleteInv, SoundInv, RateTypes
<1>2. \A c \in Batches : c > b => pc[c] \in {"none", "lost"}
  BY Zenon DEF CompleteInv, OneRound, Over
<1>3. \A c \in Batches : c < b => pc[c] \in Over
  BY Zenon DEF CompleteInv, OneRound
<1>4. \A a, c \in Batches : a < c /\ pc'[c] # "none" => pc'[a] # "none"
  BY <1>1, Zenon DEF CompleteInv, OneRound
<1>5. \A a, c \in Batches : a < c /\ pc'[c] \notin {"none", "lost"} => pc'[a] \in Over
  BY <1>1, <1>2, <1>3 DEF Batches
<1>6. \A c \in Batches : pc'[c] \in {"enrich", "done"} => c <= prev'
  BY <1>1 DEF CompleteInv, OneRound, SoundInv, RateTypes, Batches
<1>7. \A c \in Batches : pc'[c] = "first" => prev' = 0
  <2>1. \A c \in Batches : c # b => pc[c] # "first"
    BY <1>2, <1>3 DEF Over, Batches
  <2> QED
    BY <1>1, <2>1, Zenon
<1> QED
  BY <1>4, <1>5, <1>6, <1>7, Zenon DEF OneRound

\* Whatever round moves on, the pairs of batches with none but lost ones between them
\* are those there were, unless the later of the two is the round itself.
LEMMA BeforeKept ==
    ASSUME CompleteInv, tokens = 1, NEW b \in Batches, pc[b] # "done", pc[b] # "lost",
           NEW to \in Positions, pc' = [pc EXCEPT ![b] = to],
           NEW a \in Batches, NEW c \in Batches, Before(a, c)', pc'[c] \in {"rates", "enrich", "done"}
    PROVE  a # b /\ Before(a, c) /\ (c # b => pc[c] = pc'[c])
<1>1. pc'[b] = to /\ \A d \in Batches : d # b => pc'[d] = pc[d]
  BY Zenon DEF CompleteInv, SoundInv, RateTypes
<1>2. CASE c = b
  <2>1. a # b
    BY <1>2 DEF Before, Batches
  <2>2. ASSUME NEW d \in (a + 1) .. (c - 1) PROVE pc[d] = "lost"
    <3>1. d \in Batches /\ d # b
      BY <1>2, RateAssumption DEF Batches
    <3> QED
      BY <1>1, <3>1, Zenon DEF Before
  <2> QED
    BY <1>1, <1>2, <2>1, <2>2, Zenon DEF Before
<1>3. CASE c # b
  <2>1. pc[c] = pc'[c]
    BY <1>1, <1>3, Zenon
  <2>2. ~(b < c)
    BY <2>1 DEF CompleteInv, OneRound, Over
  <2>3. a # b
    BY <2>2, Zenon DEF Before
  <2>4. ASSUME NEW d \in (a + 1) .. (c - 1) PROVE pc[d] = "lost"
    <3>1. d \in Batches /\ d # b
      BY <2>2, RateAssumption DEF Batches
    <3> QED
      BY <1>1, <3>1, Zenon DEF Before
  <2> QED
    BY <1>1, <1>3, <2>1, <2>3, <2>4, Zenon DEF Before
<1> QED
  BY <1>2, <1>3, Zenon

\* A round that moves on and computes no rate keeps the rates there are.
LEMMA RatedMove ==
    ASSUME CompleteInv, tokens = 1, NEW b \in Batches, pc[b] # "done", pc[b] # "lost",
           NEW to \in Positions, pc' = [pc EXCEPT ![b] = to],
           UNCHANGED <<data, base>>,
           \A c \in Batches : c # b => pending'[c] = pending[c],
           to \in {"rates", "enrich", "done"} =>
               \/ pc[b] \in {"rates", "enrich"} /\ pending'[b] = pending[b]
               \/ \A k \in RateKeys \ pending'[b] : data[b][k] = Absent
               \/ \A a \in Batches : ~Before(a, b)
    PROVE  RatedSoFar'
<1> SUFFICES ASSUME NEW a \in Batches, NEW c \in Batches, Before(a, c)', pc'[c] \in {"rates", "enrich", "done"},
                    NEW k \in RateKeys \ pending'[c],
                    data[c][k] # Absent, Comparable(data[c][k], data[a][k])
             PROVE  base[c][k] = a
  BY Zenon DEF RatedSoFar
<1>1. Before(a, c) /\ (c # b => pc[c] = pc'[c])
  BY BeforeKept, Zenon
<1>2. CASE c # b
  BY <1>1, <1>2, Zenon DEF CompleteInv, RatedSoFar
<1>3. CASE c = b
  <2>1. to \in {"rates", "enrich", "done"}
    BY <1>3, Zenon DEF CompleteInv, SoundInv, RateTypes
  <2>2. pc[b] \in {"rates", "enrich"} /\ pending'[b] = pending[b]
    BY <1>1, <1>3, <2>1, Zenon
  <2> QED
    BY <1>1, <1>3, <2>2, Zenon DEF CompleteInv, RatedSoFar
<1> QED
  BY <1>2, <1>3, Zenon

\* The round that starts is the next one.
LEMMA CompleteBegin ==
    ASSUME CompleteInv, tokens = 1, NEW b \in Batches, Begin(b)
    PROVE  (OneRound /\ RatedSoFar)'
<1>1. pc[b] = "none" /\ pc' = [pc EXCEPT ![b] = "scrape"] /\ prev' = prev
  BY Zenon DEF Begin, Goto
<1>2. pc'[b] = "scrape" /\ \A c \in Batches : c # b => pc'[c] = pc[c]
  BY <1>1, Zenon DEF CompleteInv, SoundInv, RateTypes
<1>3. \A c \in Batches : c < b => pc[c] # "none"
  BY StartedInOrder, Zenon DEF Begin, CompleteInv
<1>4. \A c \in Batches : c < b => pc[c] \in Over
  BY <1>3, BeginAlone, Zenon DEF CompleteInv, Over
<1>5. \A c \in Batches : c > b => pc[c] = "none"
  BY <1>1, Zenon DEF CompleteInv, OneRound
<1>6. OneRound'
  <2>1. \A a, c \in Batches : a < c /\ pc'[c] # "none" => pc'[a] # "none"
    BY <1>2, <1>3, <1>5 DEF Batches
  <2>2. \A a, c \in Batches : a < c /\ pc'[c] \notin {"none", "lost"} => pc'[a] \in Over
    BY <1>2, <1>4, <1>5 DEF CompleteInv, OneRound, Batches
  <2> QED
    BY <1>1, <1>2, <2>1, <2>2, Zenon DEF CompleteInv, OneRound
<1>7. RatedSoFar'
  BY <1>1, RatedMove, Zenon DEF Begin, Positions
<1> QED
  BY <1>6, <1>7, Zenon

\* A round that is lost leaves previousBatch to the one after it.
LEMMA CompleteLose ==
    ASSUME CompleteInv, tokens = 1, NEW b \in Batches, Lose(b)
    PROVE  (OneRound /\ RatedSoFar)'
<1>1. pc[b] \in {"none", "scrape"} /\ pc' = [pc EXCEPT ![b] = "lost"] /\ prev' = prev
  BY Zenon DEF Lose
<1>2. pc'[b] = "lost" /\ \A c \in Batches : c # b => pc'[c] = pc[c]
  BY <1>1, Zenon DEF CompleteInv, SoundInv, RateTypes
<1>3. \A c \in Batches : c < b => pc[c] # "none"
  BY StartedInOrder, Zenon DEF Lose, CompleteInv
<1>4. OneRound'
  <2>1. \A a, c \in Batches : a < c /\ pc'[c] # "none" => pc'[a] # "none"
    BY <1>2, <1>3, Zenon DEF CompleteInv, OneRound
  <2>2. \A a, c \in Batches : a < c /\ pc'[c] \notin {"none", "lost"} => pc'[a] \in Over
    BY <1>2, Zenon DEF CompleteInv, OneRound, Over
  <2> QED
    BY <1>1, <1>2, <2>1, <2>2, Zenon DEF CompleteInv, OneRound
<1>5. RatedSoFar'
  BY <1>1, RatedMove, Zenon DEF Lose, Positions
<1> QED
  BY <1>4, <1>5, Zenon

\* A scrape does not touch the batches that rates were computed from.
LEMMA CompleteScrape ==
    ASSUME CompleteInv, tokens = 1, NEW b \in Batches, Scrape(b)
    PROVE  (OneRound /\ RatedSoFar)'
<1>1. pc[b] = "scrape" /\ pc' = [pc EXCEPT ![b] = "process"] /\ prev' = prev
  BY Zenon DEF Scrape, Goto
<1>2. prev' \in Nat /\ prev <= prev'
  BY <1>1 DEF CompleteInv, SoundInv, RateTypes
<1>3. OneRound'
  BY <1>1, <1>2, CompleteMove, Zenon DEF Positions
<1>4. /\ pc'[b] = "process"
      /\ \A c \in Batches : c # b => data'[c] = data[c]
  BY <1>1, Zenon DEF Scrape, CompleteInv, SoundInv, RateTypes
<1>5. ASSUME NEW a \in Batches, NEW c \in Batches, Before(a, c)', pc'[c] \in {"rates", "enrich", "done"}
      PROVE  Before(a, c) /\ a # b /\ c # b /\ pc[c] = pc'[c]
  <2>1. a # b /\ Before(a, c) /\ (c # b => pc[c] = pc'[c])
    BY <1>1, <1>5, BeforeKept, Zenon DEF Positions
  <2>2. c # b
    BY <1>4, <1>5
  <2> QED
    BY <2>1, <2>2, Zenon
<1>6. RatedSoFar'
  <2> SUFFICES ASSUME NEW a \in Batches, NEW c \in Batches, Before(a, c)', pc'[c] \in {"rates", "enrich", "done"},
                      NEW k \in RateKeys \ pending[c],
                      data'[c][k] # Absent, Comparable(data'[c][k], data'[a][k])
               PROVE  base[c][k] = a
    <3>1. base' = base /\ pending' = pending
      BY Zenon DEF Scrape
    <3> QED
      BY <3>1, Zenon DEF RatedSoFar
  <2>1. data'[c][k] = data[c][k] /\ data'[a][k] = data[a][k]
    BY <1>4, <1>5, Zenon
  <2>2. data[c][k] # Absent /\ Comparable(data[c][k], data[a][k])
    BY <2>1
  <2> QED
    BY <1>5, <2>2, Zenon DEF CompleteInv, RatedSoFar
<1> QED
  BY <1>3, <1>6, Zenon

\* A round finds previousBatch nil or goes on to compare.
LEMMA CompleteCheckNil ==
    ASSUME CompleteInv, tokens = 1, NEW b \in Batches, CheckNil(b)
    PROVE  (OneRound /\ RatedSoFar)'
<1> DEFINE to == IF prev = 0 THEN "first" ELSE "compare"
<1>1. pc[b] = "process" /\ pc' = [pc EXCEPT ![b] = to] /\ prev' = prev
  BY Zenon DEF CheckNil, Goto
<1>2. to \in {"first", "compare"} /\ (to = "first" => prev = 0)
  BY Zenon
<1>3. prev' \in Nat /\ prev <= prev'
  BY <1>1 DEF CompleteInv, SoundInv, RateTypes
<1> HIDE DEF to
<1>4. OneRound'
  BY <1>1, <1>2, <1>3, CompleteMove, Zenon DEF Positions
<1>5. RatedSoFar'
  <2>1. to \in Positions /\ to \notin {"rates", "enrich", "done"}
    BY <1>2, Zenon DEF Positions
  <2> QED
    BY <1>1, <2>1, RatedMove, Zenon DEF CheckNil
<1> QED
  BY <1>4, <1>5, Zenon

\* The first batch is compared with none: no round before it went through.
LEMMA CompleteStoreFirst ==
    ASSUME CompleteInv, tokens = 1, NEW b \in Batches, StoreFirst(b)
    PROVE  (OneRound /\ RatedSoFar)'
<1>1. pc[b] = "first" /\ pc' = [pc EXCEPT ![b] = "enrich"] /\ prev' = b
  BY Zenon DEF StoreFirst, Goto
<1>2. prev = 0
  BY <1>1, Zenon DEF CompleteInv, OneRound
<1>3. OneRound'
  <2>1. prev' \in Nat /\ prev <= prev' /\ b <= prev'
    BY <1>1, <1>2 DEF Batches
  <2> QED
    BY <1>1, <1>2, <2>1, CompleteMove, Zenon DEF Positions
<1>4. \A a \in Batches : ~Before(a, b)
  BY <1>1, <1>2, BehindIt DEF Comparing, Batches
<1>5. RatedSoFar'
  BY <1>1, <1>4, RatedMove, Zenon DEF StoreFirst, Positions
<1> QED
  BY <1>3, <1>5, Zenon

\* A batch is always newer than previousBatch.
LEMMA CompleteCheckTimestamp ==
    ASSUME CompleteInv, tokens = 1, NEW b \in Batches, CheckTimestamp(b)
    PROVE  (OneRound /\ RatedSoFar)'
<1>1. prev < b /\ prev \in Nat
  BY BehindIt DEF CheckTimestamp, Goto, Comparing, CompleteInv, SoundInv, RateTypes
<1>2. b > prev
  BY <1>1 DEF Batches
<1>3. pc[b] = "compare" /\ pc' = [pc EXCEPT ![b] = "rates"] /\ prev' = prev
  BY <1>2, Zenon DEF CheckTimestamp, Goto
<1>4. OneRound'
  <2>1. prev' \in Nat /\ prev <= prev'
    BY <1>1, <1>3
  <2> QED
    BY <1>3, <2>1, CompleteMove, Zenon DEF Positions
<1>5. /\ pending'[b] = {k \in RateKeys : data[b][k] # Absent}
      /\ \A c \in Batches : c # b => pending'[c] = pending[c]
  BY <1>2, Zenon DEF CheckTimestamp, CompleteInv, SoundInv, RateTypes
<1>6. \A k \in RateKeys \ pending'[b] : data[b][k] = Absent
  BY <1>5, Zenon
<1>7. RatedSoFar'
  BY <1>3, <1>5, <1>6, RatedMove, Zenon DEF CheckTimestamp, Positions
<1> QED
  BY <1>4, <1>7, Zenon

\* The rate of a key is computed against the last batch that went through.
LEMMA CompleteRate ==
    ASSUME CompleteInv, tokens = 1, NEW b \in Batches, NEW k \in RateKeys, Rate(b, k)
    PROVE  (OneRound /\ RatedSoFar)'
<1>1. OneRound'
  BY Zenon DEF Rate, CompleteInv, OneRound
<1>2. \A a \in Batches : Before(a, b) => a = prev
  BY BehindIt, Zenon DEF Rate, Comparing
<1>3. \A c \in Batches : c # b => pending'[c] = pending[c] /\ base'[c] = base[c]
  BY Zenon DEF Rate, CompleteInv, SoundInv, RateTypes
<1>4. pending'[b] = pending[b] \ {k}
  BY Zenon DEF Rate, CompleteInv, SoundInv, RateTypes
<1>5. \A l \in RateKeys : l # k => base'[b][l] = base[b][l]
  BY Zenon DEF Rate, CompleteInv, SoundInv, RateTypes
<1>6. base'[b][k] = IF Comparable(data[b][k], data[prev][k]) THEN prev ELSE 0
  BY Zenon DEF Rate, CompleteInv, SoundInv, RateTypes
<1>7. RatedSoFar'
  <2>1. ASSUME NEW a \in Batches, NEW c \in Batches, Before(a, c), pc[c] \in {"rates", "enrich", "done"},
               NEW l \in RateKeys \ pending'[c], data[c][l] # Absent, Comparable(data[c][l], data[a][l])
        PROVE  base'[c][l] = a
    <3>1. CASE c # b
      BY <1>3, <2>1, <3>1 DEF CompleteInv, RatedSoFar
    <3>2. CASE c = b /\ l # k
      BY <1>4, <1>5, <2>1, <3>2, Zenon DEF CompleteInv, RatedSoFar
    <3>3. CASE c = b /\ l = k
      BY <1>2, <1>6, <2>1, <3>3, Zenon
    <3> QED
      BY <3>1, <3>2, <3>3, Zenon
  <2>2. pc' = pc /\ data' = data
    BY Zenon DEF Rate
  <2> QED
    BY <2>1, <2>2 DEF RatedSoFar, Before
<1> QED
  BY <1>1, <1>7, Zenon

\* The batch is stored when no key is left.
LEMMA CompleteStore ==
    ASSUME CompleteInv, tokens = 1, NEW b \in Batches, Store(b)
    PROVE  (OneRound /\ RatedSoFar)'
<1>1. pc[b] = "rates" /\ pc' = [pc EXCEPT ![b] = "enrich"] /\ prev' = b
  BY Zenon DEF Store, Goto
<1>2. prev < b
  BY <1>1, BehindIt, Zenon DEF Comparing
<1>3. OneRound'
  <2>1. prev' \in Nat /\ prev <= prev' /\ b <= prev'
    BY <1>1, <1>2 DEF CompleteInv, SoundInv, RateTypes, Batches
  <2> QED
    BY <1>1, <2>1, CompleteMove, Zenon DEF Positions
<1>4. RatedSoFar'
  BY <1>1, RatedMove, Zenon DEF Store, Positions
<1> QED
  BY <1>3, <1>4, Zenon

\* The end of a round makes room for the next.
LEMMA CompleteEnrich ==
    ASSUME CompleteInv, tokens = 1, NEW b \in Batches, Enrich(b)
    PROVE  (OneRound /\ RatedSoFar)'
<1>1. pc[b] = "enrich" /\ pc' = [pc EXCEPT ![b] = "done"] /\ prev' = prev
  BY Zenon DEF Enrich, Goto
<1>2. prev' \in Nat /\ prev <= prev' /\ b <= prev'
  BY <1>1 DEF CompleteInv, OneRound, SoundInv, RateTypes
<1>3. OneRound'
  BY <1>1, <1>2, CompleteMove, Zenon DEF Positions
<1>4. RatedSoFar'
  BY <1>1, RatedMove, Zenon DEF Enrich, Positions
<1> QED
  BY <1>3, <1>4, Zenon

\* CompleteInv is inductive.
LEMMA CompleteStep ==
    ASSUME CompleteInv, [RateNext]_rateVars
    PROVE  CompleteInv'
<1>1. SoundInv'
  BY SoundStep, Zenon DEF CompleteInv
<1>2. tokens' = tokens
  BY Zenon DEF RateNext, rateVars, RoundStep, Begin, Scrape, Lose, CheckNil, StoreFirst, CheckTimestamp,
     Rate, Store, Enrich, Goto
<1>3. ASSUME tokens = 1, UNCHANGED rateVars
      PROVE  (OneRound /\ RatedSoFar)'
  BY <1>3 DEF rateVars, CompleteInv, OneRound, RatedSoFar, Before
<1>4. ASSUME tokens = 1, NEW b \in Batches, RoundStep(b)
      PROVE  (OneRound /\ RatedSoFar)'
  BY <1>4, CompleteBegin, CompleteScrape, CompleteLose, CompleteCheckNil, CompleteStoreFirst,
     CompleteCheckTimestamp, CompleteRate, CompleteStore, CompleteEnrich, Zenon DEF RoundStep
<1> QED
  BY <1>1, <1>2, <1>3, <1>4, Zenon DEF CompleteInv, RateNext

\* With one round at a time Process compares each batch with the last one before it
\* that was not lost: a rate is missing only where the readings do not allow one.
THEOREM RatesAlwaysComplete == RateSpec => []RatesComplete
<1>1. RateInit => CompleteInv
  <2>1. RateInit => SoundInv
    BY SoundInit, Zenon
  <2>2. RateInit => OneRound /\ RatedSoFar
    BY DEF RateInit, OneRound, RatedSoFar
  <2> QED
    BY <2>1, <2>2, Zenon DEF CompleteInv
<1>2. CompleteInv /\ [RateNext]_rateVars => CompleteInv'
  BY CompleteStep, Zenon
<1>3. CompleteInv => RatesComplete
  <2> SUFFICES ASSUME CompleteInv, tokens = 1, NEW a \in Batches, NEW b \in Batches,
                      pc[a] = "done", pc[b] = "done", a < b, \A c \in (a + 1) .. (b - 1) : pc[c] = "lost",
                      NEW k \in RateKeys, data[b][k] # Absent, Comparable(data[b][k], data[a][k])
               PROVE  base[b][k] = a
    BY Zenon DEF RatesComplete
  <2>1. pending[b] = {}
    BY Zenon DEF CompleteInv, SoundInv, Published
  <2> QED
    BY <2>1, Zenon DEF CompleteInv, RatedSoFar, Before
<1> QED
  BY <1>1, <1>2, <1>3, PTL DEF RateSpec

-----------------------------------------------------------------------------
(* The source manager                                                      *)

SourceStates == {"none", "scrape", "answer", "select", "sent", "gone"}
CollectorStates == {"top", "select", "returned", "crashed"}

Types ==
    /\ sources \subseteq Nodes
    /\ now \in Nat /\ since \in Nat
    /\ source \in [Nodes -> SourceStates]
    /\ coll \in CollectorStates
    /\ answers \in Seq(Nodes)

Sent == {s \in Nodes : source[s] = "sent"}

\* The collector has received once from each source that got rid of its answer,
\* and from no other; in a process that crashed no source is left.
Received ==
    /\ IsInjective(answers)
    /\ coll # "crashed" =>
        /\ \A s \in Nodes : source[s] = "sent" <=> \E i \in DOMAIN answers : answers[i] = s
        /\ Len(answers) = Cardinality(Sent)
        /\ \A s \in Nodes : source[s] # "none" => s \in sources
    /\ coll = "crashed" => \A s \in Nodes : source[s] = "gone"

\* The collector looks at the clock at the head of its loop, and no answer is
\* offered to it after the deadline.
OnTime ==
    /\ since <= Timeout
    /\ coll = "top" => now <= since + MaxLateness
    /\ coll = "select" => now <= Timeout + MaxLateness
    /\ coll = "select" => now < Timeout \/ \A s \in Nodes : source[s] # "select"
    /\ coll = "returned" => now >= Timeout \/ Len(answers) >= Cardinality(sources)

ScrapeInv == Types /\ Received /\ OnTime

-----------------------------------------------------------------------------
\* The sources, and those that have answered, are finitely many.
LEMMA SourcesFinite ==
    ASSUME Types
    PROVE  /\ IsFiniteSet(Sent) /\ IsFiniteSet(sources)
           /\ Cardinality(Sent) \in Nat /\ Cardinality(sources) \in Nat
<1>1. Sent \subseteq Nodes /\ sources \subseteq Nodes
  BY Zenon DEF Sent, Types
<1>2. IsFiniteSet(Sent) /\ IsFiniteSet(sources)
  BY <1>1, SourcesAssumption, FS_Subset, Zenon
<1> QED
  BY <1>2, FS_CardinalityType, Zenon

\* ScrapeInv holds when ScrapeMetrics starts.
LEMMA ScrapeInit ==
    ASSUME Init
    PROVE  ScrapeInv
<1>1. sources \subseteq Nodes
  <2>1. GetMetricsSources(cluster) \subseteq DOMAIN cluster.nodes
    BY Zenon DEF GetMetricsSources, KubeletGetMetricsSources, SummaryGetMetricsSources
  <2> QED
    BY <2>1, ClustersAssumption, Zenon DEF Init
<1>2. Types
  BY <1>1 DEF Init, Types, SourceStates, CollectorStates
<1>3. Sent = {} /\ Len(answers) = 0 /\ DOMAIN answers = {}
  BY DEF Init, Sent
<1>4. Cardinality(Sent) = 0
  BY <1>3, FS_EmptySet, Zenon
<1>5. Received
  BY <1>3, <1>4, Zenon DEF Init, Received, IsInjective
<1>6. OnTime
  BY TimesAssumption DEF Init, OnTime
<1> QED
  BY <1>2, <1>5, <1>6, Zenon DEF ScrapeInv

\* A goroutine that moves on without having handed over its answer.
LEMMA ScrapeMoves ==
    ASSUME ScrapeInv, NEW s \in Nodes, NEW to \in {"answer", "select", "gone"},
           source[s] \in {"scrape", "answer", "select"},
           source' = [source EXCEPT ![s] = to],
           to = "select" => now < Timeout,
           UNCHANGED <<callVars, now, coll, since, answers>>
    PROVE  ScrapeInv'
<1>1. /\ source'[s] = to /\ \A n \in Nodes : n # s => source'[n] = source[n]
      /\ UNCHANGED <<sources, now, coll, since, answers>>
  BY Zenon DEF callVars, ScrapeInv, Types
<1>2. Types'
  BY <1>1, Zenon DEF ScrapeInv, Types, SourceStates
<1>3. Sent' = Sent
  BY <1>1, Zenon DEF Sent
<1>4. coll # "crashed"
  BY Zenon DEF ScrapeInv, Received
<1>5. Received'
  <2>1. \A n \in Nodes : source'[n] = "sent" <=> source[n] = "sent"
    BY <1>1, Zenon
  <2>2. \A n \in Nodes : source'[n] # "none" => source[n] # "none"
    BY <1>1, Zenon
  <2> QED
    BY <1>1, <1>3, <1>4, <2>1, <2>2 DEF ScrapeInv, Received
<1>6. OnTime'
  <2>1. now < Timeout \/ \A n \in Nodes : source'[n] = "select" => source[n] = "select"
    BY <1>1, Zenon
  <2> QED
    BY <1>1, <2>1, Zenon DEF ScrapeInv, OnTime
<1> QED
  BY <1>2, <1>5, <1>6, Zenon DEF ScrapeInv

\* A panic ends every goroutine.
LEMMA ScrapeCrash ==
    ASSUME ScrapeInv, NEW s \in Nodes, ScrapePanics(s)
    PROVE  ScrapeInv'
<1>1. /\ coll' = "crashed" /\ source' = [n \in Nodes |-> "gone"]
      /\ UNCHANGED <<sources, now, since, answers>>
  BY Zenon DEF ScrapePanics, callVars
<1>2. Types'
  BY <1>1, Zenon DEF ScrapeInv, Types, SourceStates, CollectorStates
<1>3. Received' /\ OnTime'
  BY <1>1, Zenon DEF ScrapeInv, Received, OnTime
<1> QED
  BY <1>2, <1>3, Zenon DEF ScrapeInv

\* The collector takes an answer: it has one more, of a source it had none of.
LEMMA ScrapeReceive ==
    ASSUME ScrapeInv, NEW s \in Nodes, Receive(s)
    PROVE  ScrapeInv'
<1>1. /\ coll = "select" /\ coll' = "top" /\ source[s] = "select" /\ source'[s] = "sent"
      /\ \A n \in Nodes : n # s => source'[n] = source[n]
      /\ answers' = Append(answers, s) /\ since' = now
      /\ UNCHANGED <<sources, now>>
  BY Zenon DEF Receive, callVars, ScrapeInv, Types
<1>2. Types'
  <2>1. source' \in [Nodes -> SourceStates]
    BY Zenon DEF Receive, ScrapeInv, Types, SourceStates
  <2> QED
    BY <1>1, <2>1 DEF ScrapeInv, Types, CollectorStates
<1>3. /\ answers \in Seq(Nodes) /\ DOMAIN answers = 1 .. Len(answers) /\ Len(answers) \in Nat
      /\ Len(answers') = Len(answers) + 1 /\ DOMAIN answers' = 1 .. Len(answers) + 1
      /\ answers'[Len(answers) + 1] = s
      /\ \A i \in 1 .. Len(answers) : answers'[i] = answers[i]
  BY <1>1 DEF ScrapeInv, Types
<1>4. \A i \in 1 .. Len(answers) : answers[i] # s
  BY <1>1, <1>3, Zenon DEF ScrapeInv, Received
<1>5. IsInjective(answers')
  BY <1>3, <1>4 DEF ScrapeInv, Received, IsInjective
<1>6. Sent' = Sent \cup {s} /\ s \notin Sent
  BY <1>1, Zenon DEF Sent
<1>7. Len(answers') = Cardinality(Sent')
  <2>1. Len(answers) = Cardinality(Sent)
    BY <1>1, Zenon DEF ScrapeInv, Received
  <2>2. IsFiniteSet(Sent)
    BY SourcesFinite, Zenon DEF ScrapeInv
  <2>3. Cardinality(Sent \cup {s}) = Cardinality(Sent) + 1
    BY <1>6, <2>2, FS_AddElement, Zenon
  <2> QED
    BY <1>3, <1>6, <2>1, <2>3, Zenon
<1>8. \A n \in Nodes : source'[n] = "sent" <=> \E i \in DOMAIN answers' : answers'[i] = n
  <2>1. \A n \in Nodes : source[n] = "sent" <=> \E i \in 1 .. Len(answers) : answers[i] = n
    BY <1>1, <1>3, Zenon DEF ScrapeInv, Received
  <2>2. ASSUME NEW n \in Nodes, n # s
        PROVE  (\E i \in DOMAIN answers' : answers'[i] = n) <=> \E i \in 1 .. Len(answers) : answers[i] = n
    BY <1>3, <2>2
  <2>3. Len(answers) + 1 \in DOMAIN answers'
    BY <1>3
  <2> QED
    BY <1>1, <1>3, <2>1, <2>2, <2>3
<1>9. Received'
  <2>1. \A n \in Nodes : source'[n] # "none" => n \in sources'
    BY <1>1, Zenon DEF ScrapeInv, Received
  <2> QED
    BY <1>1, <1>5, <1>7, <1>8, <2>1, Zenon DEF Received
<1>10. OnTime'
  <2>1. now < Timeout
    BY <1>1, Zenon DEF ScrapeInv, OnTime
  <2> QED
    BY <1>1, <2>1, TimesAssumption DEF ScrapeInv, Types, OnTime
<1> QED
  BY <1>2, <1>9, <1>10, Zenon DEF ScrapeInv

\* The head of the loop, the collector's timeout and the clock.
LEMMA ScrapeWaits ==
    ASSUME ScrapeInv, CollectorTop \/ CollectorTimeout \/ Tick
    PROVE  ScrapeInv'
<1>1. /\ UNCHANGED <<sources, source, since, answers>>
      /\ coll # "crashed" /\ coll' # "crashed"
  BY Zenon DEF CollectorTop, CollectorTimeout, Tick, CollectorMayWait, callVars
<1>2. Types'
  BY <1>1 DEF CollectorTop, CollectorTimeout, Tick, ScrapeInv, Types, CollectorStates
<1>3. Sent' = Sent
  BY <1>1, Zenon DEF Sent
<1>4. Received'
  BY <1>1, <1>3, Zenon DEF ScrapeInv, Received
<1>5. Len(answers) \in Nat /\ Cardinality(sources) \in Nat
  BY SourcesFinite DEF ScrapeInv, Types
<1>6. OnTime'
  <2>1. CASE CollectorTop
    BY <1>1, <1>5, <2>1, TimesAssumption DEF CollectorTop, ScrapeInv, Types, OnTime
  <2>2. CASE CollectorTimeout
    BY <1>1, <2>2, Zenon DEF CollectorTimeout, ScrapeInv, Types, OnTime
  <2>3. CASE Tick
    BY <1>1, <2>3, TimesAssumption DEF Tick, CollectorMayWait, ScrapeInv, Types, OnTime
  <2> QED
    BY <2>1, <2>2, <2>3, Zenon
<1> QED
  BY <1>2, <1>4, <1>6, Zenon DEF ScrapeInv

\* No step of ScrapeMetrics breaks ScrapeInv.
LEMMA ScrapeStep ==
    ASSUME ScrapeInv, [Next]_scrapeVars
    PROVE  ScrapeInv'
<1>1. CASE UNCHANGED scrapeVars
  <2>1. Sent' = Sent
    BY <1>1, Zenon DEF scrapeVars, Sent
  <2> QED
    BY <1>1, <2>1, Zenon DEF scrapeVars, ScrapeInv, Types, Received, OnTime
<1>2. ASSUME NEW s \in Nodes, ScrapeOk(s) \/ ScrapeFails(s) \/ CheckTime(s) \/ SourceTimeout(s)
      PROVE  ScrapeInv'
  <2>1. PICK to \in {"answer", "select", "gone"} :
          source' = [source EXCEPT ![s] = to] /\ (to = "select" => now < Timeout)
    BY <1>2, Zenon DEF ScrapeOk, ScrapeFails, CheckTime, SourceTimeout
  <2>2. /\ source[s] \in {"scrape", "answer", "select"}
        /\ UNCHANGED <<callVars, now, coll, since, answers>>
    BY <1>2, Zenon DEF ScrapeOk, ScrapeFails, CheckTime, SourceTimeout
  <2> QED
    BY <2>1, <2>2, ScrapeMoves, Zenon
<1> QED
  BY <1>1, <1>2, ScrapeCrash, ScrapeReceive, ScrapeWaits, Zenon DEF Next, CollectorStep

\* Whatever the sources do and whenever they answer, the collector has received
\* exactly once from each source that reports its response passed.
THEOREM AnswersAlwaysAccounted == Spec => []AnswersAccounted
<1>1. ScrapeInv => AnswersAccounted
  BY DEF ScrapeInv, Types, Received, AnswersAccounted, Range
<1> QED
  BY <1>1, ScrapeInit, ScrapeStep, PTL DEF Spec

\* However many sources there are, ScrapeMetrics returns by the timeout plus one
\* delay of the collector, and before the timeout only with every answer.
THEOREM AlwaysReturnsInTime == Spec => []ReturnsInTime
<1>1. ScrapeInv => ReturnsInTime
  <2>1. SUFFICES ASSUME ScrapeInv
                 PROVE  ReturnsInTime
    BY Zenon
  <2>2. coll \notin {"returned", "crashed"} => now <= Timeout + MaxLateness
    BY <2>1, TimesAssumption DEF ScrapeInv, Types, CollectorStates, OnTime
  <2>3. ASSUME coll = "returned", now < Timeout, NEW s \in sources
        PROVE  source[s] = "sent"
    <3>1. /\ IsFiniteSet(Sent) /\ IsFiniteSet(sources)
          /\ Cardinality(Sent) \in Nat /\ Cardinality(sources) \in Nat
      BY <2>1, SourcesFinite, Zenon DEF ScrapeInv
    <3>2. Sent \subseteq sources /\ Cardinality(Sent) >= Cardinality(sources)
      BY <2>1, <2>3, TimesAssumption DEF ScrapeInv, Types, Received, OnTime, Sent
    <3>3. Sent = sources
      BY <3>1, <3>2, FS_Subset
    <3> QED
      BY <3>3, Zenon DEF Sent
  <2> QED
    BY <2>2, <2>3, Zenon DEF ReturnsInTime
<1> QED
  BY <1>1, ScrapeInit, ScrapeStep, PTL DEF Spec
=============================================================================
