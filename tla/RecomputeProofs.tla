-------------------------- MODULE RecomputeProofs --------------------------
(***************************************************************************)
(* Theorems about the recompute for every range, block size and length of  *)
(* the minute, every set of sensors and contents of their files, whatever  *)
(* the table held before, and however often the process dies.              *)
(***************************************************************************)
EXTENDS RecomputeProperties, EngineLemmas, SequenceTheorems

USE TsRangeAssumption, TimeoutAssumption, TtlAssumption, BlockAssumption,
    RecomputeAssumption

-----------------------------------------------------------------------------
(* The inductive invariant, in parts. *)

\* Where the run is.
RunInv ==
  /\ pc \in {"start", "read", "feed", "write", "done"}
  /\ minute \in From - 1 .. To - 1 /\ nextWrite \in From .. To
  /\ minute < From => nextWrite = From /\ pc \in {"start", "read", "feed"}
  /\ finished => pc \in {"write", "done"} /\ confirmed = TsMax /\ blocks = NoRows
  /\ pc = "start" => latest = [s \in {} |-> TsMin] /\ counted = "none"
                     /\ buckets = NoRows /\ produced = NoRows

\* The time of a record of minute m.
IsRecordOf(x, m) ==
  /\ x.source \in DOMAIN Declared /\ x.frame \in Frames /\ x.ts \in EventTimes
  /\ StartOf(m) <= x.ts /\ x.ts < StartOf(m + 1)

\* The records are fed in the order of their times: no sensor has been heard
\* later than what is pending or will be read.
TimeInv ==
  /\ watermark = TsMin \/ \E s \in DOMAIN latest : watermark <= latest[s]
  /\ \A s \in DOMAIN latest :
       /\ latest[s] < StartOf(minute + 1)
       /\ pc = "read" => latest[s] < StartOf(minute)
       /\ \A x \in pending : latest[s] <= x.ts
  /\ pc = "feed" => \A x \in pending : IsRecordOf(x, minute)
  /\ pc # "feed" => pending = {}
  /\ ~finished /\ minute >= From => nextWrite <= minute
  /\ counted # "dropped_late"

\* The positions p of this run by their keys; a pending one, in b, is its block's
\* last.
PositionsOK(p, b) ==
  /\ \A k \in DOMAIN p :
       /\ k \in Keys /\ RowKey(p[k]) = k /\ p[k].ts = k[2] * Block
       /\ KeyEnd(k) = (k[2] + 1) * Block
       /\ p[k].ts < StartOf(minute + 1)
  /\ \A k \in DOMAIN b : k \in DOMAIN p /\ p[k] = b[k]

ProducedInv == PositionsOK(produced, blocks)

\* A row collected for minute m: a position whose block is closed.
CollectedOK(p) ==
  \A m \in DOMAIN buckets : \A r \in buckets[m] :
    /\ RowKey(r) \in DOMAIN p /\ p[RowKey(r)] = r
    /\ MinuteOf(r) = m /\ KeyEnd(RowKey(r)) <= confirmed

\* Rows are collected for minutes not written yet; what is written is confirmed.
BucketInv ==
  /\ nextWrite > From => StartOf(nextWrite) <= confirmed
  /\ \A m \in DOMAIN buckets :
       /\ m \in Int /\ nextWrite <= m /\ m < To /\ buckets[m] # {}
       /\ pc = "read" => confirmed < StartOf(m + 1)
  /\ CollectedOK(produced)

\* A position of the range is pending, collected, or in the table.
CoveredOK(p, b) ==
  \A k \in DOMAIN p :
    InRange(p[k]) =>
      \/ k \in DOMAIN b
      \/ MinuteOf(p[k]) \in DOMAIN buckets /\ p[k] \in buckets[MinuteOf(p[k])]
      \/ MinuteOf(p[k]) < nextWrite /\ k \in DOMAIN db /\ db[k] = p[k]

CoverInv == CoveredOK(produced, blocks)

\* What the table has for the minutes this run has written is its positions.
WrittenOK(p) ==
  \A k \in DOMAIN db :
    From <= MinuteOf(db[k]) /\ MinuteOf(db[k]) < nextWrite =>
      k \in DOMAIN p /\ p[k] = db[k]

\* The table has one row for each key, and outside the range it is the old one.
RowsInv ==
  /\ \A k \in DOMAIN db : db[k].ts \in Int /\ RowKey(db[k]) = k
  /\ OutsideUntouched

TableInv == WrittenOK(produced) /\ RowsInv

RecomputeInv ==
  /\ EngineInv /\ RunInv /\ TimeInv /\ ProducedInv /\ BucketInv /\ CoverInv /\ TableInv

-----------------------------------------------------------------------------
(* Blocks and minutes. *)

LEMMA TimesMonotone ==
  ASSUME NEW a \in Int, NEW b \in Int, NEW c \in Nat, a <= b
  PROVE  a * c <= b * c
<1>1. (b - a) * c >= 0
  OBVIOUS
<1>2. b * c = (b - a) * c + a * c
  OBVIOUS
<1> QED BY <1>1, <1>2

\* A time is in the block or minute that starts at or before it and ends after
\* it, and in no other.
LEMMA DivUnique ==
  ASSUME NEW t \in Int, NEW w \in Nat \ {0}, NEW q \in Int
  PROVE  t \div w = q <=> q * w <= t /\ t < (q + 1) * w
<1> DEFINE d == t \div w
<1>1. d \in Int /\ d * w <= t /\ t < (d + 1) * w
  BY DivFacts
<1> HIDE DEF d
<1>2. q * w \in Int /\ (q + 1) * w \in Int /\ d * w \in Int /\ (d + 1) * w \in Int
  BY <1>1
<1>3. q < d => (q + 1) * w <= d * w
  BY <1>1, TimesMonotone
<1>4. d < q => (d + 1) * w <= q * w
  BY <1>1, TimesMonotone
<1>5. d = q <=> q * w <= t /\ t < (q + 1) * w
  BY <1>1, <1>2, <1>3, <1>4
<1> QED BY <1>5 DEF d

LEMMA MinuteFacts ==
  ASSUME NEW m \in Int
  PROVE  /\ StartOf(m) \in Int /\ StartOf(m + 1) = StartOf(m) + Minute
         /\ \A n \in Int : m <= n <=> StartOf(m) <= StartOf(n)
         /\ \A n \in Int : m < n <=> StartOf(m + 1) <= StartOf(n)
         /\ \A t \in Int : t \div Minute = m <=> StartOf(m) <= t /\ t < StartOf(m + 1)
<1>1. StartOf(m) \in Int /\ StartOf(m + 1) = StartOf(m) + Minute
  BY DEF StartOf
<1>2. \A i, j \in Int : i <= j => StartOf(i) <= StartOf(j)
  BY TimesMonotone DEF StartOf
<1>3. \A i \in Int : StartOf(i) \in Int /\ StartOf(i) < StartOf(i + 1)
  BY DEF StartOf
<1>4. ASSUME NEW n \in Int
      PROVE  /\ m <= n <=> StartOf(m) <= StartOf(n)
             /\ m < n <=> StartOf(m + 1) <= StartOf(n)
  <2>1. n < m => StartOf(n + 1) <= StartOf(m)
    BY <1>2
  <2>2. m < n => StartOf(m + 1) <= StartOf(n)
    BY <1>2
  <2>3. /\ StartOf(m) \in Int /\ StartOf(n) \in Int /\ StartOf(m + 1) \in Int
        /\ StartOf(n + 1) \in Int /\ StartOf(m) < StartOf(m + 1)
        /\ StartOf(n) < StartOf(n + 1)
    BY <1>3, m + 1 \in Int, n + 1 \in Int
  <2>4. CASE m < n
    BY <2>2, <2>3, <2>4
  <2>5. CASE n < m
    BY <2>1, <2>3, <2>5
  <2>6. CASE m = n
    BY <2>3, <2>6
  <2> QED BY <2>4, <2>5, <2>6
<1>5. \A t \in Int : t \div Minute = m <=> StartOf(m) <= t /\ t < StartOf(m + 1)
  BY DivUnique DEF StartOf
<1> QED BY <1>1, <1>4, <1>5

LEMMA StartFacts ==
  ASSUME NEW m \in Int
  PROVE  StartOf(m) \in Int /\ StartOf(m + 1) \in Int /\ StartOf(m) < StartOf(m + 1)
<1>1. StartOf(m) \in Int /\ StartOf(m + 1) = StartOf(m) + Minute
  BY MinuteFacts
<1> QED BY <1>1

\* A block is within one minute: the one of any time in it.
LEMMA BlockInMinute ==
  ASSUME NEW t \in Int, NEW m \in Int
  PROVE  t \div Minute = m <=>
           StartOf(m) <= BlockId(t) * Block /\ (BlockId(t) + 1) * Block <= StartOf(m + 1)
<1> DEFINE q == t \div Block
           n == Minute \div Block
<1>1. n \in Int /\ Minute = n * Block
  <2>1. n \in Int /\ Minute = n * Block + (Minute % Block)
    OBVIOUS
  <2> QED BY <2>1
<1>2. q \in Int /\ q * Block <= t /\ t < (q + 1) * Block
  BY DivFacts
<1> HIDE DEF q, n
<1>3. StartOf(m) = (m * n) * Block /\ StartOf(m + 1) = ((m + 1) * n) * Block
  <2>1. \A i \in Int : i * (n * Block) = (i * n) * Block
    BY <1>1
  <2> QED BY <1>1, <2>1 DEF StartOf
<1>4. /\ m * n \in Int /\ (m + 1) * n \in Int
      /\ (m * n) * Block \in Int /\ ((m + 1) * n) * Block \in Int
      /\ q * Block \in Int /\ (q + 1) * Block \in Int
  BY <1>1, <1>2
<1>5. m * n <= q => (m * n) * Block <= q * Block
  BY <1>2, <1>4, TimesMonotone
<1>6. q < m * n => (q + 1) * Block <= (m * n) * Block
  <2>1. q < m * n => q + 1 <= m * n
    BY <1>2, <1>4
  <2>2. q + 1 \in Int
    BY <1>2
  <2> QED BY <1>4, <2>1, <2>2, TimesMonotone
<1>7. q < (m + 1) * n => (q + 1) * Block <= ((m + 1) * n) * Block
  <2>1. q < (m + 1) * n => q + 1 <= (m + 1) * n
    BY <1>2, <1>4
  <2>2. q + 1 \in Int
    BY <1>2
  <2> QED BY <1>4, <2>1, <2>2, TimesMonotone
<1>8. (m + 1) * n <= q => ((m + 1) * n) * Block <= q * Block
  BY <1>2, <1>4, TimesMonotone
<1>9. StartOf(m) <= t /\ t < StartOf(m + 1) <=>
        StartOf(m) <= q * Block /\ (q + 1) * Block <= StartOf(m + 1)
  BY <1>2, <1>3, <1>4, <1>5, <1>6, <1>7, <1>8
<1> QED BY <1>9, MinuteFacts DEF q, BlockId

\* So rows of one key are rows of one minute.
LEMMA KeyMinute ==
  ASSUME NEW r, NEW q, r.ts \in Int, q.ts \in Int, RowKey(r) = RowKey(q)
  PROVE  MinuteOf(r) = MinuteOf(q)
<1>1. BlockId(r.ts) = BlockId(q.ts)
  BY DEF RowKey
<1>2. r.ts \div Minute \in Int
  BY DivFacts
<1>3. q.ts \div Minute = r.ts \div Minute
  <2>1. PICK m \in Int : m = r.ts \div Minute
    BY <1>2
  <2>2. r.ts \div Minute = m <=>
          StartOf(m) <= BlockId(r.ts) * Block /\ (BlockId(r.ts) + 1) * Block <= StartOf(m + 1)
    BY ONLY r.ts \in Int, BlockInMinute
  <2>3. q.ts \div Minute = m <=>
          StartOf(m) <= BlockId(q.ts) * Block /\ (BlockId(q.ts) + 1) * Block <= StartOf(m + 1)
    BY ONLY q.ts \in Int, BlockInMinute
  <2> QED BY ONLY <1>1, <2>1, <2>2, <2>3
<1> QED BY <1>3 DEF MinuteOf

LEMMA BlockStart ==
  ASSUME NEW q \in Int
  PROVE  BlockId(q * Block) = q
  BY DivUnique DEF BlockId

\* The minute of a row that is filed by its block.
LEMMA RowMinute ==
  ASSUME NEW k \in Keys, NEW r, r.ts = k[2] * Block, KeyEnd(k) = (k[2] + 1) * Block
  PROVE  /\ r.ts \in Int /\ KeyEnd(k) \in Int /\ r.ts < KeyEnd(k)
         /\ MinuteOf(r) \in Int
         /\ \A m \in Int : MinuteOf(r) = m <=>
              StartOf(m) <= r.ts /\ KeyEnd(k) <= StartOf(m + 1)
<1>1. k[2] \in Int
  BY DEF Keys
<1>2. /\ k[2] * Block \in Int /\ (k[2] + 1) * Block \in Int
      /\ (k[2] + 1) * Block = k[2] * Block + Block
  BY <1>1
<1>3. BlockId(r.ts) = k[2]
  BY <1>1, BlockStart
<1>4. \A m \in Int : r.ts \div Minute = m <=>
        StartOf(m) <= k[2] * Block /\ (k[2] + 1) * Block <= StartOf(m + 1)
  <2>1. r.ts \in Int /\ r.ts = k[2] * Block
    BY <1>2
  <2>2. ASSUME NEW m \in Int
        PROVE  r.ts \div Minute = m <=>
                 StartOf(m) <= BlockId(r.ts) * Block /\ (BlockId(r.ts) + 1) * Block <= StartOf(m + 1)
    BY ONLY <2>1, <2>2, BlockInMinute
  <2> QED BY ONLY <1>3, <2>2
<1>5. r.ts \div Minute \in Int
  <2>1. r.ts \in Int /\ Minute \in Int /\ Minute > 0
    BY <1>2
  <2> QED BY <2>1, DivFacts
<1> QED BY <1>2, <1>4, <1>5 DEF MinuteOf
-----------------------------------------------------------------------------
(* A new run. *)

\* What a run starts from: a new engine, nothing fed, and the table.
Fresh ==
  /\ UncalledEngine
  /\ pc \in {"start", "read"}
  /\ minute = From - 1 /\ pending = {} /\ buckets = NoRows
  /\ nextWrite = From /\ produced = NoRows
  /\ RowsInv

LEMMA FreshInv == Fresh => RecomputeInv
<1> SUFFICES ASSUME Fresh PROVE RecomputeInv
  OBVIOUS
<1>1. /\ UncalledEngine /\ pc \in {"start", "read"} /\ minute = From - 1
      /\ pending = {} /\ buckets = NoRows /\ nextWrite = From
      /\ produced = NoRows /\ RowsInv
  BY DEF Fresh
<1>2. /\ latest = [s \in {} |-> TsMin] /\ watermark = TsMin /\ blocks = NoRows
      /\ finished = FALSE /\ counted = "none" /\ DOMAIN NoRows = {}
  BY <1>1 DEF UncalledEngine, NoRows
<1>3. EngineInv
  BY <1>1, UncalledEngineInv
<1>4. RunInv
  BY <1>1, <1>2 DEF RunInv
<1>5. TimeInv
  BY <1>1, <1>2 DEF TimeInv
<1>6. ProducedInv /\ CoverInv
  BY <1>1, <1>2 DEF ProducedInv, PositionsOK, CoverInv, CoveredOK
<1>7. BucketInv
  BY <1>1, <1>2 DEF BucketInv, CollectedOK
<1>8. WrittenOK(produced)
  <2>1. \A k \in DOMAIN db : MinuteOf(db[k]) \in Int
    <3> TAKE k \in DOMAIN db
    <3>1. db[k].ts \in Int /\ Minute \in Int /\ Minute > 0
      BY <1>1 DEF RowsInv
    <3> QED BY <3>1, DivFacts DEF MinuteOf
  <2> QED BY <1>1, <2>1 DEF WrittenOK
<1> QED BY <1>1, <1>3, <1>4, <1>5, <1>6, <1>7, <1>8 DEF RecomputeInv, TableInv

\* The same for the state a step leads to.
LEMMA FreshNext == Fresh' => RecomputeInv'
  BY FreshInv, PTL

LEMMA InitInv == RecomputeInit => RecomputeInv
<1> SUFFICES ASSUME RecomputeInit PROVE Fresh
  BY FreshInv
<1>1. EngineInit /\ db = OldRows
  BY DEF RecomputeInit
<1>2. UncalledEngine
  BY <1>1, EngineInitFresh
<1>3. RowsInv
  BY <1>1 DEF RowsInv, OutsideUntouched
<1> QED BY <1>2, <1>3 DEF Fresh, RecomputeInit

\* A restart, or the first step of a run, leaves a new one.
LEMMA NewRunFresh ==
  ASSUME NEW rows, NewEngine(rows), NewRun, pc' \in {"start", "read"}, RowsInv'
  PROVE  Fresh'
<1>1. UncalledEngine'
  BY DEF NewEngine, UncalledEngine, Restored
<1> QED BY <1>1 DEF Fresh, NewRun
-----------------------------------------------------------------------------
(* Reading a minute. *)

\* What a minute's files hold is records of that minute.
LEMMA ReadRecords ==
  ASSUME RunInv, ReadMinute, NEW x \in pending'
  PROVE  IsRecordOf(x, minute)
<1>1. PICK new \in [Sensors -> UNION Range(Contents)] :
        /\ \A s \in Sensors : new[s] \in Contents[s]
        /\ \A s \in Sensors : <<s, minute>> \in DOMAIN files => new[s] = files[<<s, minute>>]
        /\ files' = [y \in DOMAIN files \cup (Sensors \X {minute}) |->
                       IF y \in DOMAIN files THEN files[y] ELSE new[y[1]]]
  BY DEF ReadMinute
<1>2. \A s \in Sensors : files'[<<s, minute>>] \in Contents[s]
  BY <1>1
<1>3. x \in MinuteRecords(files', minute)
  BY DEF ReadMinute
<1>4. PICK i \in DOMAIN Declared :
        x \in SensorRecords(minute, i, files'[<<Declared[i], minute>>])
  BY <1>3 DEF MinuteRecords
<1> DEFINE f == files'[<<Declared[i], minute>>]
<1>5. Declared[i] \in Sensors /\ f \in Contents[Declared[i]]
  BY <1>2, <1>4
<1> HIDE DEF f
<1>6. f \in Seq(FileRecords)
  BY <1>5
<1>7. PICK j \in DOMAIN f : x = MinuteRecord(minute, i, f, j)
  BY <1>4 DEF SensorRecords, f
<1>8. j \in 1 .. Len(f) /\ f[j] \in FileRecords
  BY <1>6
<1>9. f[j].rel \in 0 .. Minute - 1 /\ f[j].frame \in Frames
  BY <1>8 DEF FileRecords
<1>10. /\ x.ts = StartOf(minute) + f[j].rel
       /\ x.frame = f[j].frame /\ x.source = i
  BY <1>7 DEF MinuteRecord
<1>11. minute \in From - 1 .. To - 1 /\ minute \in Int
  BY DEF RunInv
<1>12. x.ts \in EventTimes
  <2>1. minute * Minute + f[j].rel \in EventTimes
    BY <1>5, <1>8, <1>11
  <2> QED BY <1>10, <2>1 DEF StartOf
<1>13. StartOf(minute) \in Int /\ StartOf(minute + 1) = StartOf(minute) + Minute
  BY <1>11, MinuteFacts
<1>14. StartOf(minute) <= x.ts /\ x.ts < StartOf(minute + 1)
  BY <1>9, <1>10, <1>13, SMTT(30)
<1> QED BY <1>4, <1>9, <1>10, <1>12, <1>14 DEF IsRecordOf

\* A fed record is an event that no watermark has passed.
LEMMA FedEvent ==
  ASSUME RecomputeInv, pc = "feed", NEW x \in pending
  PROVE  /\ EventOf(x) \in Events /\ EventOf(x).ts = x.ts
         /\ x.ts \in EventTimes /\ x.ts \in Int
         /\ StartOf(minute) <= x.ts /\ x.ts < StartOf(minute + 1)
         /\ ~Late(EventOf(x))
<1>1. IsRecordOf(x, minute)
  BY DEF RecomputeInv, TimeInv
<1>2. /\ x.source \in DOMAIN Declared /\ x.frame \in Frames /\ x.ts \in EventTimes
      /\ StartOf(minute) <= x.ts /\ x.ts < StartOf(minute + 1)
  BY <1>1 DEF IsRecordOf
<1>3. Declared[x.source] \in Sensors
  BY <1>2
<1>4. EventOf(x) \in Events /\ EventOf(x).ts = x.ts
  BY <1>2, <1>3 DEF EventOf, Events
<1>5. x.ts \in Int /\ TsMin <= x.ts
  BY <1>2, EventTimesAssumption DEF Ts
<1>6. /\ watermark \in Int
      /\ \A s \in DOMAIN latest : latest[s] \in Int /\ latest[s] <= x.ts
      /\ watermark = TsMin \/ \E s \in DOMAIN latest : watermark <= latest[s]
  BY EventTimesAssumption DEF RecomputeInv, EngineInv, LatestOK, TimeInv, Ts
<1>7. watermark <= x.ts
  BY <1>5, <1>6
<1> QED BY <1>2, <1>4, <1>5, <1>6, <1>7 DEF Late

\* The watermark moves to a time that some sensor has been heard at or after.
LEMMA CandidateHeard ==
  ASSUME NEW l, LatestOK(l), DOMAIN l # {}
  PROVE  \E s \in DOMAIN l : Min(ActiveTimes(l)) <= l[s]
<1>1. Frontier(l) \in Range(l) /\ Cutoff(l) = Clamp(Frontier(l) - Timeout)
  BY CandidateFacts
<1>2. PICK s \in DOMAIN l : l[s] = Frontier(l)
  BY <1>1 DEF Range
<1>3. l[s] \in Int /\ l[s] >= TsMin
  BY EventTimesAssumption DEF LatestOK, Ts
<1>4. l[s] - Timeout \in Int /\ l[s] - Timeout <= l[s]
  BY <1>3
<1>5. l[s] >= Cutoff(l)
  BY <1>1, <1>2, <1>3, <1>4, ClampFacts DEF Clamp
<1> QED BY <1>5, CandidateFacts

\* Feeding the earliest pending record keeps the times in order.
LEMMA FeedTime ==
  ASSUME RecomputeInv, pc = "feed", NEW x \in pending,
         \A y \in pending \ {x} : Before(x, y), pending' = pending \ {x},
         Observe(EventOf(x).sensor, EventOf(x).ts), counted' # "dropped_late",
         finished' = finished, UNCHANGED <<pc, minute, nextWrite>>
  PROVE  TimeInv'
<1> DEFINE s == EventOf(x).sensor
<1>1. /\ s \in Sensors /\ EventOf(x).ts = x.ts /\ x.ts \in EventTimes /\ x.ts \in Int
      /\ x.ts < StartOf(minute + 1)
  BY FedEvent DEF Events
<1>2. /\ LatestOK(latest) /\ watermark \in Ts /\ watermark < TsMax
  BY DEF RecomputeInv, EngineInv
<1>3. Observe(s, x.ts)
  BY <1>1
<1> HIDE DEF s
<1>4. /\ LatestOK(latest')
      /\ DOMAIN latest' = DOMAIN latest \cup {s}
      /\ \A z \in DOMAIN latest : z # s => latest'[z] = latest[z]
      /\ \A z \in DOMAIN latest : latest[z] <= latest'[z]
      /\ watermark' \in Ts
      /\ watermark' = watermark \/ watermark' = Min(ActiveTimes(latest'))
  BY <1>1, <1>2, <1>3, ObserveFacts
<1>5. latest'[s] = x.ts \/ (s \in DOMAIN latest /\ latest'[s] = latest[s])
  BY <1>3 DEF Observe, ObserveLatest
<1>6. /\ \A z \in DOMAIN latest : latest[z] \in Int
      /\ \A z \in DOMAIN latest' : latest'[z] \in Int
      /\ watermark \in Int
  BY <1>2, <1>4, EventTimesAssumption DEF LatestOK, Ts
<1>7. TimeInv
  BY DEF RecomputeInv
<1>8. watermark' = TsMin \/ \E z \in DOMAIN latest' : watermark' <= latest'[z]
  <2>1. CASE watermark' = watermark
    <3>1. CASE watermark = TsMin
      BY <2>1, <3>1
    <3>2. CASE watermark # TsMin
      <4>1. PICK z \in DOMAIN latest : watermark <= latest[z]
        BY <1>7, <3>2 DEF TimeInv
      <4>2. z \in DOMAIN latest' /\ latest[z] <= latest'[z]
        BY <1>4
      <4> QED BY <1>6, <2>1, <4>1, <4>2
    <3> QED BY <3>1, <3>2
  <2>2. CASE watermark' = Min(ActiveTimes(latest'))
    BY <1>4, <2>2, CandidateHeard
  <2> QED BY <1>4, <2>1, <2>2
<1>9. \A y \in pending' : x.ts <= y.ts /\ y \in pending
  <2> TAKE y \in pending'
  <2>1. y \in pending \ {x}
    OBVIOUS
  <2>2. Before(x, y)
    BY <2>1
  <2>3. y.ts \in Int
    BY <2>1, FedEvent
  <2>4. x.ts < y.ts \/ x.ts = y.ts
    BY <2>2, Zenon DEF Before
  <2>5. x.ts \in Int
    BY <1>1
  <2> QED BY ONLY <2>1, <2>3, <2>4, <2>5
<1>10. ASSUME NEW z \in DOMAIN latest'
       PROVE  /\ latest'[z] < StartOf(minute + 1)
              /\ \A y \in pending' : latest'[z] <= y.ts
  <2>1. CASE z = s /\ latest'[s] = x.ts
    BY <1>1, <1>9, <2>1
  <2>2. CASE z \in DOMAIN latest /\ latest'[z] = latest[z]
    BY <1>7, <1>9, <2>2 DEF TimeInv
  <2> QED BY <1>4, <1>5, <2>1, <2>2
<1>11. \A y \in pending' : IsRecordOf(y, minute)
  BY <1>7, <1>9 DEF TimeInv
<1>12. ~finished /\ minute >= From => nextWrite <= minute
  BY <1>7 DEF TimeInv
<1>13. minute' = minute /\ nextWrite' = nextWrite /\ pc' = pc
  OBVIOUS
<1>14. \A y : IsRecordOf(y, minute)' <=> IsRecordOf(y, minute')
  BY DEF IsRecordOf
<1> QED
  BY <1>8, <1>10, <1>11, <1>12, <1>13 DEF TimeInv, IsRecordOf, StartOf
-----------------------------------------------------------------------------
(* Collecting what a call returns. *)

\* The rows of minute m among rows, if they are in the range.
ReturnedFor(rows, m) == {r \in Range(rows) : InRange(r) /\ MinuteOf(r) = m}

LEMMA CollectFacts ==
  ASSUME NEW rows
  PROVE  /\ \A m : m \in DOMAIN Collect(rows) <=>
              m \in DOMAIN buckets \/ \E r \in Range(rows) : InRange(r) /\ MinuteOf(r) = m
         /\ \A m \in DOMAIN Collect(rows) : \A r :
              r \in Collect(rows)[m] <=>
                \/ m \in DOMAIN buckets /\ r \in buckets[m]
                \/ r \in Range(rows) /\ InRange(r) /\ MinuteOf(r) = m
<1> DEFINE kept == {r \in Range(rows) : InRange(r)}
<1>1. DOMAIN Collect(rows) = DOMAIN buckets \cup {BucketOf(r) : r \in kept}
  BY DEF Collect
<1>2. \A r : r \in kept <=> r \in Range(rows) /\ InRange(r)
  OBVIOUS
<1>3. ASSUME NEW m \in DOMAIN Collect(rows), NEW r
      PROVE  r \in Collect(rows)[m] <=>
               \/ m \in DOMAIN buckets /\ r \in buckets[m]
               \/ r \in Range(rows) /\ InRange(r) /\ MinuteOf(r) = m
  <2> DEFINE into == {q \in kept : BucketOf(q) = m}
  <2>1. Collect(rows)[m] = IF m \in DOMAIN buckets THEN buckets[m] \cup into ELSE into
    BY DEF Collect
  <2>2. r \in into <=> r \in Range(rows) /\ InRange(r) /\ MinuteOf(r) = m
    BY <1>2 DEF BucketOf
  <2> HIDE DEF into
  <2> QED BY <2>1, <2>2
<1> HIDE DEF kept
<1>4. ASSUME NEW m
      PROVE  m \in DOMAIN Collect(rows) <=>
               m \in DOMAIN buckets \/ \E r \in Range(rows) : InRange(r) /\ MinuteOf(r) = m
  BY <1>1, <1>2 DEF BucketOf
<1> QED BY <1>3, <1>4

\* A call leaves some of the pending positions b and returns the others, whose
\* blocks are closed: every position is still accounted for.
LEMMA Collecting ==
  ASSUME RunInv, NEW p, NEW b, PositionsOK(p, b), CollectedOK(p), CoveredOK(p, b),
         WrittenOK(p), RowsInv, BucketInv,
         \A k \in DOMAIN b : KeyEnd(k) > confirmed,
         confirmed \in Int, confirmed' \in Int, confirmed <= confirmed',
         \A k \in DOMAIN blocks' : k \in DOMAIN b /\ blocks'[k] = b[k],
         \A k \in DOMAIN out' : k \in DOMAIN b /\ out'[k] = b[k]
                                /\ KeyEnd(k) <= confirmed',
         \A k \in DOMAIN b : k \in DOMAIN blocks' \/ k \in DOMAIN out',
         buckets' = Collect(out'), produced' = p, pc' # "read",
         UNCHANGED <<minute, nextWrite, db>>
  PROVE  ProducedInv' /\ BucketInv' /\ CoverInv' /\ TableInv'
<1>1. minute' = minute /\ nextWrite' = nextWrite /\ db' = db
  OBVIOUS
<1>2. ProducedInv'
  BY <1>1 DEF ProducedInv, PositionsOK, StartOf
<1>3. \A r \in Range(out') :
        /\ RowKey(r) \in DOMAIN out' /\ RowKey(r) \in DOMAIN p /\ p[RowKey(r)] = r
        /\ RowKey(r) \in DOMAIN b /\ b[RowKey(r)] = r
        /\ KeyEnd(RowKey(r)) <= confirmed' /\ KeyEnd(RowKey(r)) > confirmed
        /\ MinuteOf(r) \in Int /\ KeyEnd(RowKey(r)) \in Int
        /\ KeyEnd(RowKey(r)) <= StartOf(MinuteOf(r) + 1)
  <2> TAKE r \in Range(out')
  <2>1. PICK k \in DOMAIN out' : r = out'[k]
    BY DEF Range
  <2>2. /\ k \in DOMAIN b /\ r = b[k] /\ KeyEnd(k) <= confirmed' /\ KeyEnd(k) > confirmed
    BY <2>1
  <2>3. /\ k \in DOMAIN p /\ p[k] = r /\ RowKey(r) = k /\ k \in Keys
        /\ r.ts = k[2] * Block /\ KeyEnd(k) = (k[2] + 1) * Block
    BY <2>2 DEF PositionsOK
  <2>4. MinuteOf(r) \in Int /\ KeyEnd(k) <= StartOf(MinuteOf(r) + 1) /\ KeyEnd(k) \in Int
    BY <2>3, RowMinute
  <2> QED BY <2>1, <2>2, <2>3, <2>4
<1>4. /\ nextWrite \in Int /\ From \in Int /\ To \in Int /\ From <= nextWrite
      /\ nextWrite > From => StartOf(nextWrite) <= confirmed
      /\ StartOf(nextWrite) \in Int
  BY MinuteFacts DEF RunInv, BucketInv
<1>5. \A r \in Range(out') : InRange(r) => nextWrite <= MinuteOf(r) /\ MinuteOf(r) < To
  <2> TAKE r \in Range(out')
  <2> HAVE InRange(r)
  <2> DEFINE m == MinuteOf(r)
  <2>1. m \in Int /\ From <= m /\ m < To /\ KeyEnd(RowKey(r)) \in Int
        /\ KeyEnd(RowKey(r)) <= StartOf(m + 1) /\ KeyEnd(RowKey(r)) > confirmed
    BY <1>3 DEF InRange
  <2> HIDE DEF m
  <2>2. StartOf(m + 1) \in Int /\ (m < nextWrite => StartOf(m + 1) <= StartOf(nextWrite))
    BY <1>4, <2>1, MinuteFacts, m + 1 \in Int
  <2>3. nextWrite <= m
    BY <1>4, <2>1, <2>2
  <2> QED BY <2>1, <2>3 DEF m
<1>6. /\ \A m : m \in DOMAIN buckets' <=>
           m \in DOMAIN buckets \/ \E r \in Range(out') : InRange(r) /\ MinuteOf(r) = m
      /\ \A m \in DOMAIN buckets' : \A r :
           r \in buckets'[m] <=>
             \/ m \in DOMAIN buckets /\ r \in buckets[m]
             \/ r \in Range(out') /\ InRange(r) /\ MinuteOf(r) = m
  BY CollectFacts
<1>7. \A m \in DOMAIN buckets' : m \in Int /\ nextWrite <= m /\ m < To /\ buckets'[m] # {}
  <2> TAKE m \in DOMAIN buckets'
  <2>1. CASE m \in DOMAIN buckets
    BY <1>6, <2>1 DEF BucketInv
  <2>2. CASE \E r \in Range(out') : InRange(r) /\ MinuteOf(r) = m
    BY <1>3, <1>5, <1>6, <2>2
  <2> QED BY <1>6, <2>1, <2>2
<1>8. \A m \in DOMAIN buckets' : \A r \in buckets'[m] :
        /\ RowKey(r) \in DOMAIN p /\ p[RowKey(r)] = r
        /\ MinuteOf(r) = m /\ KeyEnd(RowKey(r)) <= confirmed'
  <2> TAKE m \in DOMAIN buckets'
  <2> TAKE r \in buckets'[m]
  <2>1. CASE m \in DOMAIN buckets /\ r \in buckets[m]
    <3>1. /\ RowKey(r) \in DOMAIN p /\ p[RowKey(r)] = r
          /\ MinuteOf(r) = m /\ KeyEnd(RowKey(r)) <= confirmed
      BY <2>1 DEF CollectedOK
    <3>2. KeyEnd(RowKey(r)) \in Int
      BY <3>1, KeyEndType DEF PositionsOK, Ts
    <3> QED BY <3>1, <3>2
  <2>2. CASE r \in Range(out') /\ InRange(r) /\ MinuteOf(r) = m
    BY <1>3, <2>2
  <2> QED BY <1>6, <2>1, <2>2
<1>9. BucketInv'
  <2>1. nextWrite > From => StartOf(nextWrite) <= confirmed'
    BY <1>4
  <2>2. CollectedOK(produced)'
    BY <1>8 DEF CollectedOK
  <2> QED BY <1>1, <1>7, <2>1, <2>2 DEF BucketInv, StartOf
<1>10. ASSUME NEW k \in DOMAIN p, InRange(p[k])
       PROVE  \/ k \in DOMAIN blocks'
              \/ MinuteOf(p[k]) \in DOMAIN buckets' /\ p[k] \in buckets'[MinuteOf(p[k])]
              \/ MinuteOf(p[k]) < nextWrite /\ k \in DOMAIN db /\ db[k] = p[k]
  <2>1. \/ k \in DOMAIN b
        \/ MinuteOf(p[k]) \in DOMAIN buckets /\ p[k] \in buckets[MinuteOf(p[k])]
        \/ MinuteOf(p[k]) < nextWrite /\ k \in DOMAIN db /\ db[k] = p[k]
    BY <1>10 DEF CoveredOK
  <2>2. CASE k \in DOMAIN b /\ k \in DOMAIN out'
    <3>1. out'[k] = p[k]
      BY <2>2 DEF PositionsOK
    <3>2. p[k] \in Range(out')
      BY <2>2, <3>1 DEF Range
    <3> QED BY <1>6, <1>10, <3>2
  <2> QED BY <1>6, <2>1, <2>2
<1>11. CoverInv'
  BY <1>1, <1>10 DEF CoverInv, CoveredOK, InRange
<1>12. TableInv'
  BY <1>1 DEF TableInv, WrittenOK, RowsInv, OutsideUntouched
<1> QED BY <1>2, <1>9, <1>11, <1>12
-----------------------------------------------------------------------------
(* Feeding a record. *)

\* A record's position is of its own minute, and filed under the record's key.
LEMMA PositionFacts ==
  ASSUME NEW ev \in Events, NEW r \in ProcessRecords(ev), NEW m \in Int,
         StartOf(m) <= ev.ts, ev.ts < StartOf(m + 1)
  PROVE  /\ RowKey(Rounded(r)) = Key(r) /\ Key(r) \in Keys
         /\ Rounded(r).ts = Key(r)[2] * Block
         /\ KeyEnd(Key(r)) = (Key(r)[2] + 1) * Block
         /\ Rounded(r).ts \in Int /\ Rounded(r).ts < StartOf(m + 1)
         /\ MinuteOf(Rounded(r)) = m
<1>1. ev.ts \in EventTimes /\ ev.ts \in Int
  BY EventTimesAssumption DEF Events, Ts
<1>2. /\ r.ts = ev.ts /\ r.mode_s_code \in Icaos
      /\ Rounded(r).ts = BlockId(ev.ts) * Block
      /\ Rounded(r).mode_s_code = r.mode_s_code
  BY RecordFacts
<1>3. BlockId(ev.ts) \in Int /\ BlockEnd(BlockId(ev.ts)) = (BlockId(ev.ts) + 1) * Block
  BY <1>1, BlockEndAfter
<1>4. /\ Key(r) = <<r.mode_s_code, BlockId(ev.ts)>> /\ Key(r) \in Keys
      /\ Key(r)[2] = BlockId(ev.ts)
  BY <1>2, <1>3 DEF Key, Keys
<1>5. KeyEnd(Key(r)) = (Key(r)[2] + 1) * Block
  BY <1>3, <1>4 DEF KeyEnd
<1>6. BlockId(BlockId(ev.ts) * Block) = BlockId(ev.ts)
  BY <1>3, BlockStart
<1>7. RowKey(Rounded(r)) = Key(r)
  BY <1>2, <1>4, <1>6 DEF RowKey
<1>8. ev.ts \div Minute = m
  BY <1>1, MinuteFacts
<1>9. StartOf(m) <= BlockId(ev.ts) * Block /\ (BlockId(ev.ts) + 1) * Block <= StartOf(m + 1)
  BY <1>1, <1>8, BlockInMinute
<1>10. /\ Rounded(r).ts \in Int /\ Rounded(r).ts < KeyEnd(Key(r)) /\ KeyEnd(Key(r)) \in Int
       /\ MinuteOf(Rounded(r)) = m
  <2> DEFINE k == Key(r)
             row == Rounded(r)
  <2>1. k \in Keys /\ row.ts = k[2] * Block /\ KeyEnd(k) = (k[2] + 1) * Block
    BY <1>2, <1>4, <1>5
  <2>2. StartOf(m) <= row.ts /\ KeyEnd(k) <= StartOf(m + 1)
    BY <1>2, <1>4, <1>5, <1>9
  <2> HIDE DEF k, row
  <2>3. row.ts \in Int /\ row.ts < KeyEnd(k) /\ KeyEnd(k) \in Int /\ MinuteOf(row) = m
    BY ONLY m \in Int, <2>1, <2>2, RowMinute
  <2> QED BY <2>3 DEF k, row
<1>11. Rounded(r).ts < StartOf(m + 1)
  <2>1. StartOf(m + 1) \in Int
    BY m + 1 \in Int, MinuteFacts
  <2>2. KeyEnd(Key(r)) <= StartOf(m + 1)
    BY <1>4, <1>5, <1>9
  <2> QED BY <1>10, <2>1, <2>2
<1> QED BY <1>2, <1>4, <1>5, <1>7, <1>10, <1>11

\* The history gets that position, and nothing else.
LEMMA ProducedFacts ==
  ASSUME NEW ev \in Events, NEW r \in ProcessRecords(ev), RowKey(Rounded(r)) = Key(r),
         NEW p, p = Produced(ProcessRecords(ev))
  PROVE  /\ DOMAIN p = DOMAIN produced \cup {Key(r)}
         /\ p[Key(r)] = Rounded(r)
         /\ \A k \in DOMAIN produced \ {Key(r)} : p[k] = produced[k]
<1> DEFINE rows == {Rounded(q) : q \in ProcessRecords(ev)}
<1>1. ProcessRecords(ev) = {r}
  BY OneRecord
<1>2. rows = {Rounded(r)}
  BY <1>1
<1>3. p = [k \in DOMAIN produced \cup {RowKey(q) : q \in rows} |->
             IF \E q \in rows : RowKey(q) = k THEN CHOOSE q \in rows : RowKey(q) = k
             ELSE produced[k]]
  BY DEF Produced
<1> HIDE DEF rows
<1>4. {RowKey(q) : q \in rows} = {Key(r)}
  BY <1>2
<1>5. DOMAIN p = DOMAIN produced \cup {Key(r)}
  BY <1>3, <1>4
<1>6. p[Key(r)] = Rounded(r)
  <2>1. p[Key(r)] = CHOOSE q \in rows : RowKey(q) = Key(r)
    BY <1>2, <1>3, <1>4
  <2> QED BY <1>2, <2>1
<1>7. \A k \in DOMAIN produced \ {Key(r)} : p[k] = produced[k]
  BY <1>2, <1>3, <1>4
<1> QED BY <1>5, <1>6, <1>7

\* A new position is of the minute being fed: it is not in a bucket nor in a
\* minute already written, so what is said of those still holds.
LEMMA AddPosition ==
  ASSUME RecomputeInv, ~finished, NEW ev \in Events, NEW r \in ProcessRecords(ev),
         StartOf(minute) <= ev.ts, ev.ts < StartOf(minute + 1), confirmed <= ev.ts,
         NEW p, p = Produced(ProcessRecords(ev)), NEW b, b = Ingest(r)
  PROVE  PositionsOK(p, b) /\ CollectedOK(p) /\ CoveredOK(p, b) /\ WrittenOK(p)
<1> DEFINE K == Key(r)
           R == Rounded(r)
<1>1. minute \in Int /\ nextWrite \in Int /\ From \in Int
  BY DEF RecomputeInv, RunInv
<1>2. /\ RowKey(R) = K /\ K \in Keys /\ R.ts = K[2] * Block
      /\ KeyEnd(K) = (K[2] + 1) * Block
      /\ R.ts \in Int /\ R.ts < StartOf(minute + 1) /\ MinuteOf(R) = minute
  BY <1>1, PositionFacts
<1>3. /\ DOMAIN p = DOMAIN produced \cup {K} /\ p[K] = R
      /\ \A k \in DOMAIN produced \ {K} : p[k] = produced[k]
  <2>1. RowKey(Rounded(r)) = Key(r)
    BY <1>2
  <2>2. ev \in Events /\ r \in ProcessRecords(ev) /\ p = Produced(ProcessRecords(ev))
    OBVIOUS
  <2>3. /\ DOMAIN p = DOMAIN produced \cup {Key(r)}
        /\ p[Key(r)] = Rounded(r)
        /\ \A k \in DOMAIN produced \ {Key(r)} : p[k] = produced[k]
    BY ONLY <2>1, <2>2, ProducedFacts
  <2> QED BY ONLY <2>3 DEF K, R
<1>4. /\ KeyEnd(K) > confirmed
      /\ DOMAIN b = DOMAIN blocks \cup {K} /\ b[K] = R
      /\ \A k \in DOMAIN blocks \ {K} : b[k] = blocks[k]
  BY IngestFacts DEF RecomputeInv, EngineInv
<1>5. minute >= From => nextWrite <= minute
  BY DEF RecomputeInv, TimeInv
<1> HIDE DEF K, R
<1>6. PositionsOK(p, b)
  BY <1>2, <1>3, <1>4 DEF RecomputeInv, ProducedInv, PositionsOK
<1>7. CollectedOK(p)
  <2>1. CollectedOK(produced) /\ confirmed \in Int /\ KeyEnd(K) \in Int
    BY <1>2, KeyEndType DEF RecomputeInv, BucketInv, EngineInv, Ts
  <2>2. \A m \in DOMAIN buckets : \A q \in buckets[m] : RowKey(q) # K
    BY <1>4, <2>1 DEF CollectedOK
  <2> QED BY <1>3, <2>1, <2>2 DEF CollectedOK
<1>8. CoveredOK(p, b)
  <2>1. CoveredOK(produced, blocks)
    BY DEF RecomputeInv, CoverInv
  <2>2. ASSUME NEW k \in DOMAIN p, InRange(p[k]), k # K
        PROVE  \/ k \in DOMAIN b
               \/ MinuteOf(p[k]) \in DOMAIN buckets /\ p[k] \in buckets[MinuteOf(p[k])]
               \/ MinuteOf(p[k]) < nextWrite /\ k \in DOMAIN db /\ db[k] = p[k]
    <3>1. k \in DOMAIN produced /\ p[k] = produced[k]
      BY <1>3, <2>2
    <3> QED BY <1>4, <2>1, <2>2, <3>1 DEF CoveredOK
  <2>3. K \in DOMAIN b
    BY <1>4
  <2> QED BY <2>2, <2>3 DEF CoveredOK
<1>9. WrittenOK(p)
  <2>1. /\ WrittenOK(produced)
        /\ \A k \in DOMAIN db : db[k].ts \in Int /\ RowKey(db[k]) = k
    BY DEF RecomputeInv, TableInv, RowsInv
  <2>2. ASSUME NEW k \in DOMAIN db, From <= MinuteOf(db[k]), MinuteOf(db[k]) < nextWrite
        PROVE  k \in DOMAIN p /\ p[k] = db[k]
    <3>1. k \in DOMAIN produced /\ produced[k] = db[k]
      BY <2>1, <2>2 DEF WrittenOK
    <3>2. CASE k = K
      <4>1. RowKey(db[k]) = RowKey(R) /\ db[k].ts \in Int
        BY <1>2, <2>1, <3>2
      <4>2. MinuteOf(db[k]) = minute
        BY <1>2, <4>1, KeyMinute
      <4> QED BY <1>1, <1>5, <2>2, <4>2
    <3>3. CASE k # K
      BY <1>3, <3>1, <3>3
    <3> QED BY <3>2, <3>3
  <2> QED BY <2>2 DEF WrittenOK
<1> QED BY <1>6, <1>7, <1>8, <1>9

\* A record that brings no position leaves the history as it is.
LEMMA NoPosition ==
  ASSUME RecomputeInv, NEW p, DOMAIN p = DOMAIN produced,
         \A k \in DOMAIN p : p[k] = produced[k]
  PROVE  /\ PositionsOK(p, blocks) /\ CollectedOK(p)
         /\ CoveredOK(p, blocks) /\ WrittenOK(p)
<1>1. /\ PositionsOK(produced, blocks) /\ CollectedOK(produced)
      /\ CoveredOK(produced, blocks) /\ WrittenOK(produced)
  BY DEF RecomputeInv, ProducedInv, BucketInv, CoverInv, TableInv
<1>2. PositionsOK(p, blocks)
  BY <1>1 DEF PositionsOK
<1>3. CollectedOK(p)
  BY <1>1 DEF CollectedOK
<1>4. CoveredOK(p, blocks)
  BY <1>1 DEF CoveredOK
<1>5. WrittenOK(p)
  BY <1>1 DEF WrittenOK
<1> QED BY <1>2, <1>3, <1>4, <1>5

\* What is left to show of a call once it is known what it fed and confirmed.
LEMMA CallInv ==
  ASSUME RecomputeInv, ~finished, EngineInv', TimeInv', pc' = pc, pc # "read",
         pc # "start", finished' = finished,
         NEW p, NEW b, PositionsOK(p, b), CollectedOK(p), CoveredOK(p, b), WrittenOK(p),
         PendingOK(b, confirmed), confirmed' >= confirmed,
         blocks' = Beyond(b, confirmed'), out' = UpTo(b, confirmed'),
         produced' = p, buckets' = Collect(out'), UNCHANGED <<minute, nextWrite, db>>
  PROVE  RecomputeInv'
<1>1. /\ RunInv /\ BucketInv /\ RowsInv
      /\ confirmed \in Int /\ confirmed' \in Int
  BY DEF RecomputeInv, EngineInv, TableInv, Ts
<1>2. \A k \in DOMAIN b : KeyEnd(k) > confirmed /\ KeyEnd(k) \in Int
  BY KeyEndType DEF PendingOK, WellFiled, Ts
<1>3. /\ \A k \in DOMAIN blocks' : k \in DOMAIN b /\ blocks'[k] = b[k]
      /\ \A k \in DOMAIN out' : k \in DOMAIN b /\ out'[k] = b[k] /\ KeyEnd(k) <= confirmed'
      /\ \A k \in DOMAIN b : k \in DOMAIN blocks' \/ k \in DOMAIN out'
  BY <1>1, <1>2 DEF Beyond, UpTo
<1>4. ProducedInv' /\ BucketInv' /\ CoverInv' /\ TableInv'
  BY <1>1, <1>2, <1>3, Collecting
<1>5. RunInv'
  BY <1>1 DEF RunInv
<1> QED BY <1>4, <1>5 DEF RecomputeInv

\* What a first copy counts is not a drop.
LEMMA CountedNotLate ==
  ASSUME NEW ev
  PROVE  Counted(ev) # "dropped_late"
<1> DEFINE d == DecodeFrame(ev.frame)
<1>1. CASE d.kind = "CrcInvalid"
  BY <1>1 DEF Counted
<1>2. CASE d.kind = "ParseError"
  BY <1>2 DEF Counted
<1>3. CASE d.kind = "UnsupportedDf"
  BY <1>3 DEF Counted
<1>4. CASE d.kind \notin {"CrcInvalid", "ParseError", "UnsupportedDf"}
  BY <1>4 DEF Counted
<1> QED BY <1>1, <1>2, <1>3, <1>4

LEMMA FeedInv ==
  ASSUME RecomputeInv, Feed
  PROVE  RecomputeInv'
<1>1. PICK x \in pending :
        /\ \A y \in pending \ {x} : Before(x, y)
        /\ pending' = pending \ {x}
        /\ \/ DropLate(EventOf(x)) /\ UNCHANGED produced
           \/ ProcessFirst(EventOf(x)) /\ produced' = Produced(ProcessRecords(EventOf(x)))
           \/ ProcessDuplicate(EventOf(x)) /\ UNCHANGED produced
  BY DEF Feed
<1>2. /\ pc = "feed" /\ buckets' = Collect(out')
      /\ pc' = pc /\ minute' = minute /\ nextWrite' = nextWrite /\ db' = db
  BY DEF Feed, storeVars
<1> DEFINE ev == EventOf(x)
<1>3. /\ ev \in Events /\ ev.ts = x.ts /\ ~Late(ev)
      /\ StartOf(minute) <= ev.ts /\ ev.ts < StartOf(minute + 1)
  BY <1>2, FedEvent
<1>4. ~DropLate(ev)
  BY <1>3 DEF DropLate
<1> HIDE DEF ev
<1>5. EngineInv
  BY DEF RecomputeInv
<1>6. CASE ProcessFirst(ev) /\ produced' = Produced(ProcessRecords(ev))
  <2> DEFINE b == BlocksWith(ProcessRecords(ev))
             s == AcceptSeen(ev.frame)
             e == AcceptExpiry(ev.frame, ev.ts)
  <2>1. /\ ~finished /\ finished' = finished
        /\ confirmed <= ev.ts /\ Observe(ev.sensor, ev.ts)
        /\ LatestOK(latest') /\ watermark' \in Ts /\ watermark' < TsMax
        /\ watermark' >= watermark /\ DOMAIN aircraft' = Icaos
        /\ ConfirmIfDue(s, e, b) /\ MemoryOK(s, e, confirmed) /\ PendingOK(b, confirmed)
    BY <1>3, <1>5, <1>6, FirstCall
  <2>2. PositionsOK(produced', b) /\ CollectedOK(produced')
        /\ CoveredOK(produced', b) /\ WrittenOK(produced')
    <3>1. CASE ProcessRecords(ev) = {}
      <4>1. /\ DOMAIN produced' = DOMAIN produced
            /\ \A k \in DOMAIN produced' : produced'[k] = produced[k]
        BY <1>6, <3>1 DEF Produced
      <4>2. b = blocks
        BY <3>1 DEF BlocksWith
      <4> QED BY <4>1, <4>2, NoPosition
    <3>2. CASE ProcessRecords(ev) # {}
      <4>1. PICK r \in ProcessRecords(ev) : b = Ingest(r)
        BY <3>2 DEF BlocksWith
      <4> QED BY <1>3, <1>6, <2>1, <4>1, AddPosition
    <3> QED BY <3>1, <3>2
  <2> HIDE DEF b, s, e
  <2>3. /\ EngineInv' /\ confirmed' >= confirmed
        /\ blocks' = Beyond(b, confirmed') /\ out' = UpTo(b, confirmed')
    BY <1>5, <2>1, ConfirmingCall
  <2>4. counted' # "dropped_late"
    BY <1>6, CountedNotLate DEF ProcessFirst
  <2>5. TimeInv'
    BY <1>1, <1>2, <2>1, <2>4, FeedTime DEF ev
  <2> QED BY <1>2, <2>1, <2>2, <2>3, <2>5, CallInv
<1>7. CASE ProcessDuplicate(ev) /\ UNCHANGED produced
  <2>1. /\ ~finished /\ finished' = finished /\ aircraft' = aircraft
        /\ Observe(ev.sensor, ev.ts)
        /\ LatestOK(latest') /\ watermark' \in Ts /\ watermark' < TsMax
        /\ watermark' >= watermark
        /\ ConfirmIfDue(seen, expiry, blocks)
    BY <1>3, <1>5, <1>7, DuplicateCall
  <2>2. DOMAIN aircraft' = Icaos /\ MemoryOK(seen, expiry, confirmed)
        /\ PendingOK(blocks, confirmed)
    BY <1>5, <2>1 DEF EngineInv
  <2>3. /\ EngineInv' /\ confirmed' >= confirmed
        /\ blocks' = Beyond(blocks, confirmed') /\ out' = UpTo(blocks, confirmed')
    BY <1>5, <2>1, <2>2, ConfirmingCall
  <2>4. PositionsOK(produced, blocks) /\ CollectedOK(produced)
        /\ CoveredOK(produced, blocks) /\ WrittenOK(produced)
    BY NoPosition
  <2>5. counted' # "dropped_late"
    BY <1>7 DEF ProcessDuplicate
  <2>6. TimeInv'
    BY <1>1, <1>2, <2>1, <2>5, FeedTime DEF ev
  <2> QED BY <1>2, <1>7, <2>1, <2>2, <2>3, <2>4, <2>6, CallInv
<1> QED BY <1>1, <1>4, <1>6, <1>7 DEF ev
-----------------------------------------------------------------------------
(* The steps around the feed. *)

\* A step that leaves the engine leaves its invariant.
LEMMA EngineIdle ==
  ASSUME EngineInv, UNCHANGED engineVars
  PROVE  /\ EngineInv' /\ latest' = latest /\ watermark' = watermark
         /\ blocks' = blocks /\ confirmed' = confirmed /\ finished' = finished
         /\ counted' = counted
  BY DEF EngineInv, engineVars

LEMMA ReadInv ==
  ASSUME RecomputeInv, ReadMinute
  PROVE  RecomputeInv'
<1>1. /\ pc = "read" /\ pc' = "feed" /\ UNCHANGED engineVars
      /\ minute' = minute /\ buckets' = buckets /\ nextWrite' = nextWrite
      /\ produced' = produced /\ db' = db
  BY DEF ReadMinute
<1>2. /\ EngineInv' /\ latest' = latest /\ watermark' = watermark /\ blocks' = blocks
      /\ confirmed' = confirmed /\ finished' = finished /\ counted' = counted
  BY <1>1, EngineIdle DEF RecomputeInv
<1>3. RunInv'
  BY <1>1, <1>2 DEF RecomputeInv, RunInv
<1>4. \A x \in pending' : IsRecordOf(x, minute)
  BY ReadRecords DEF RecomputeInv
<1>5. \A s \in DOMAIN latest : latest[s] < StartOf(minute) /\ latest[s] \in Int
  BY <1>1, EventTimesAssumption DEF RecomputeInv, TimeInv, EngineInv, LatestOK, Ts
<1>6. \A s \in DOMAIN latest : \A x \in pending' : latest[s] <= x.ts
  <2> TAKE s \in DOMAIN latest
  <2> TAKE x \in pending'
  <2>1. x.ts \in Int /\ StartOf(minute) <= x.ts
    BY <1>4, EventTimesAssumption DEF IsRecordOf, Ts
  <2>2. StartOf(minute) \in Int
    BY MinuteFacts DEF RecomputeInv, RunInv
  <2> QED BY <1>5, <2>1, <2>2
<1>7. TimeInv'
  BY <1>1, <1>2, <1>4, <1>6 DEF RecomputeInv, TimeInv, IsRecordOf, StartOf
<1>8. ProducedInv' /\ CoverInv' /\ BucketInv' /\ TableInv'
  BY <1>1, <1>2
     DEF RecomputeInv, ProducedInv, PositionsOK, CoverInv, CoveredOK, BucketInv,
         CollectedOK, TableInv, WrittenOK, RowsInv, OutsideUntouched, StartOf
<1> QED BY <1>2, <1>3, <1>7, <1>8 DEF RecomputeInv

\* While the minute before the range is fed nothing is collected.
LEMMA WarmUpCollectsNothing ==
  ASSUME RecomputeInv, minute < From
  PROVE  DOMAIN buckets = {}
<1> SUFFICES ASSUME NEW m \in DOMAIN buckets PROVE FALSE
  OBVIOUS
<1>1. /\ m \in Int /\ nextWrite <= m /\ nextWrite \in Int /\ From \in Int
      /\ From <= nextWrite /\ minute \in Int
  BY DEF RecomputeInv, BucketInv, RunInv
<1>2. PICK r \in buckets[m] : TRUE
  BY DEF RecomputeInv, BucketInv
<1>3. /\ RowKey(r) \in DOMAIN produced /\ produced[RowKey(r)] = r /\ MinuteOf(r) = m
  BY DEF RecomputeInv, BucketInv, CollectedOK
<1>4. /\ RowKey(r) \in Keys /\ r.ts = RowKey(r)[2] * Block
      /\ KeyEnd(RowKey(r)) = (RowKey(r)[2] + 1) * Block
      /\ r.ts < StartOf(minute + 1)
  BY <1>3 DEF RecomputeInv, ProducedInv, PositionsOK
<1>5. StartOf(m) <= r.ts /\ r.ts \in Int
  BY <1>1, <1>3, <1>4, RowMinute
<1>6. minute + 1 <= m /\ minute + 1 \in Int
  BY <1>1
<1>7. StartOf(minute + 1) <= StartOf(m) /\ StartOf(m) \in Int /\ StartOf(minute + 1) \in Int
  BY <1>1, <1>6, MinuteFacts
<1> QED BY <1>4, <1>5, <1>7

\* The next minute is read: its records are later than all that were fed.
LEMMA NextRead ==
  ASSUME RecomputeInv, ~finished, pc \in {"feed", "write"}, pending = {},
         minute + 1 < To, nextWrite <= minute + 1,
         \A m \in DOMAIN buckets : confirmed < StartOf(m + 1),
         pc' = "read", minute' = minute + 1,
         UNCHANGED <<engineVars, pending, buckets, nextWrite, produced, db>>
  PROVE  RecomputeInv'
<1>1. /\ EngineInv' /\ latest' = latest /\ watermark' = watermark /\ blocks' = blocks
      /\ confirmed' = confirmed /\ finished' = finished /\ counted' = counted
  BY EngineIdle DEF RecomputeInv
<1>2. minute \in Int /\ minute \in From - 1 .. To - 1 /\ From \in Int /\ To \in Int
      /\ nextWrite \in From .. To
  BY DEF RecomputeInv, RunInv
<1>3. RunInv'
  BY <1>1, <1>2 DEF RecomputeInv, RunInv
<1>4. /\ StartOf(minute + 1) \in Int
      /\ StartOf(minute' + 1) \in Int /\ StartOf(minute + 1) < StartOf(minute' + 1)
  <2>1. minute + 1 \in Int
    BY <1>2
  <2> QED BY <2>1, StartFacts
<1>5. TimeInv'
  <2>1. \A s \in DOMAIN latest : latest[s] < StartOf(minute + 1) /\ latest[s] \in Int
    BY EventTimesAssumption DEF RecomputeInv, TimeInv, EngineInv, LatestOK, Ts
  <2>2. \A s \in DOMAIN latest : latest[s] < StartOf(minute') /\ latest[s] < StartOf(minute' + 1)
    BY <1>4, <2>1
  <2> QED BY <1>1, <2>2 DEF RecomputeInv, TimeInv, StartOf
<1>6. ProducedInv'
  <2>1. \A k \in DOMAIN produced :
          produced[k].ts < StartOf(minute + 1) /\ produced[k].ts \in Int
    BY RowMinute DEF RecomputeInv, ProducedInv, PositionsOK
  <2>2. \A k \in DOMAIN produced : produced[k].ts < StartOf(minute' + 1)
    BY <1>4, <2>1
  <2> QED BY <1>1, <2>2 DEF RecomputeInv, ProducedInv, PositionsOK, StartOf
<1>7. BucketInv'
  BY <1>1 DEF RecomputeInv, BucketInv, CollectedOK, StartOf
<1>8. CoverInv' /\ TableInv'
  BY <1>1 DEF RecomputeInv, CoverInv, CoveredOK, TableInv, WrittenOK, RowsInv, OutsideUntouched
<1> QED BY <1>1, <1>3, <1>5, <1>6, <1>7, <1>8 DEF RecomputeInv

LEMMA MinuteFedInv ==
  ASSUME RecomputeInv, MinuteFed
  PROVE  RecomputeInv'
<1>1. /\ pc = "feed" /\ pending = {} /\ ~finished /\ minute \in Int /\ From \in Int
      /\ UNCHANGED <<engineVars, pending, buckets, nextWrite, produced, db>>
  BY DEF MinuteFed, RecomputeInv, RunInv, storeVars
<1>2. CASE minute < From
  <2>1. minute' = minute + 1 /\ pc' = "read"
    BY <1>2 DEF MinuteFed
  <2>2. minute + 1 < To \/ minute + 1 = From
    BY <1>1, <1>2 DEF RecomputeInv, RunInv
  <2>3. minute + 1 < To /\ nextWrite <= minute + 1
    BY <1>1, <1>2, <2>2 DEF RecomputeInv, RunInv
  <2>4. DOMAIN buckets = {}
    BY <1>2, WarmUpCollectsNothing
  <2> QED BY <1>1, <2>1, <2>3, <2>4, NextRead
<1>3. CASE ~(minute < From)
  <2>1. minute' = minute /\ pc' = "write"
    BY <1>3 DEF MinuteFed
  <2>2. /\ EngineInv' /\ latest' = latest /\ watermark' = watermark /\ blocks' = blocks
        /\ confirmed' = confirmed /\ finished' = finished /\ counted' = counted
    BY <1>1, EngineIdle DEF RecomputeInv
  <2>3. RunInv' /\ TimeInv'
    BY <1>1, <1>3, <2>1, <2>2 DEF RecomputeInv, RunInv, TimeInv, StartOf
  <2>4. ProducedInv' /\ CoverInv' /\ BucketInv' /\ TableInv'
    BY <1>1, <2>1, <2>2
       DEF RecomputeInv, ProducedInv, PositionsOK, CoverInv, CoveredOK, BucketInv,
           CollectedOK, TableInv, WrittenOK, RowsInv, OutsideUntouched, StartOf
  <2> QED BY <2>2, <2>3, <2>4 DEF RecomputeInv
<1> QED BY <1>2, <1>3

LEMMA NextMinuteInv ==
  ASSUME RecomputeInv, NextMinute
  PROVE  RecomputeInv'
<1>1. /\ pc = "write" /\ ~finished /\ ~Ready /\ minute + 1 < To
      /\ minute' = minute + 1 /\ pc' = "read"
      /\ UNCHANGED <<engineVars, pending, buckets, nextWrite, produced, db>>
  BY DEF NextMinute, storeVars
<1>2. /\ minute \in Int /\ From \in Int /\ To \in Int /\ nextWrite \in Int
      /\ minute >= From /\ nextWrite <= minute /\ pending = {} /\ confirmed \in Int
  BY <1>1, SMTT(30) DEF RecomputeInv, RunInv, TimeInv, EngineInv, Ts
<1>3. nextWrite + 1 \in Int /\ StartOf(nextWrite + 1) \in Int
  <2>1. nextWrite \in Int
    BY <1>2
  <2>2. nextWrite + 1 \in Int
    BY ONLY <2>1
  <2> QED BY ONLY <2>1, <2>2, StartFacts
<1>4. confirmed < StartOf(nextWrite + 1)
  BY <1>1, <1>2, <1>3 DEF Ready
<1>5. ASSUME NEW m \in DOMAIN buckets PROVE confirmed < StartOf(m + 1)
  <2>1. m \in Int /\ nextWrite <= m
    BY DEF RecomputeInv, BucketInv
  <2>2. StartOf(nextWrite + 1) <= StartOf(m + 1) /\ StartOf(m + 1) \in Int
    BY <1>2, <1>3, <2>1, m + 1 \in Int, nextWrite + 1 <= m + 1, MinuteFacts
  <2> QED BY <1>2, <1>3, <1>4, <2>2
<1> QED BY <1>1, <1>2, <1>5, NextRead

LEMMA FinishInv ==
  ASSUME RecomputeInv, FinishInput
  PROVE  RecomputeInv'
<1>1. /\ pc = "write" /\ Finish /\ buckets' = Collect(out') /\ pc' = pc
      /\ minute' = minute /\ pending' = pending /\ nextWrite' = nextWrite
      /\ produced' = produced /\ db' = db
  BY DEF FinishInput, storeVars
<1>2. /\ EngineInv' /\ ~finished /\ finished' = TRUE /\ confirmed' = TsMax
      /\ blocks' = NoRows /\ out' = [k \in DOMAIN blocks |-> blocks[k]]
      /\ latest' = latest /\ watermark' = watermark /\ counted' = "none"
  BY <1>1, FinishCall DEF RecomputeInv, Finish
<1>3. /\ confirmed \in Ts /\ confirmed \in Int /\ confirmed <= TsMax
      /\ PendingOK(blocks, confirmed)
  BY <1>2 DEF RecomputeInv, EngineInv, Ts
<1>4. \A k \in DOMAIN blocks : KeyEnd(k) > confirmed /\ KeyEnd(k) <= TsMax
  BY <1>3, KeyEndType DEF PendingOK, WellFiled, Ts
<1>5. PositionsOK(produced, blocks) /\ CollectedOK(produced)
      /\ CoveredOK(produced, blocks) /\ WrittenOK(produced) /\ RowsInv /\ BucketInv /\ RunInv
  BY DEF RecomputeInv, ProducedInv, BucketInv, CoverInv, TableInv
<1>6. /\ DOMAIN blocks' = {}
      /\ \A k \in DOMAIN out' : k \in DOMAIN blocks /\ out'[k] = blocks[k]
                                /\ KeyEnd(k) <= confirmed'
      /\ \A k \in DOMAIN blocks : k \in DOMAIN out'
  BY <1>2, <1>4 DEF NoRows
<1>7. ProducedInv' /\ BucketInv' /\ CoverInv' /\ TableInv'
  BY <1>1, <1>2, <1>3, <1>4, <1>5, <1>6, Collecting
<1>8. RunInv'
  BY <1>1, <1>2 DEF RecomputeInv, RunInv
<1>9. TimeInv'
  BY <1>1, <1>2 DEF RecomputeInv, TimeInv, StartOf
<1> QED BY <1>2, <1>7, <1>8, <1>9 DEF RecomputeInv

LEMMA RunDoneInv ==
  ASSUME RecomputeInv, RunDone
  PROVE  RecomputeInv'
<1>1. /\ pc = "write" /\ finished /\ pc' = "done" /\ minute' = minute /\ db' = db
      /\ UNCHANGED <<engineVars, pending, buckets, nextWrite, produced>>
  BY DEF RunDone, storeVars
<1>2. /\ EngineInv' /\ latest' = latest /\ watermark' = watermark /\ blocks' = blocks
      /\ confirmed' = confirmed /\ finished' = finished /\ counted' = counted
  BY <1>1, EngineIdle DEF RecomputeInv
<1>3. RunInv' /\ TimeInv'
  BY <1>1, <1>2 DEF RecomputeInv, RunInv, TimeInv, StartOf
<1>4. ProducedInv' /\ CoverInv' /\ BucketInv' /\ TableInv'
  BY <1>1, <1>2
     DEF RecomputeInv, ProducedInv, PositionsOK, CoverInv, CoveredOK, BucketInv,
         CollectedOK, TableInv, WrittenOK, RowsInv, OutsideUntouched, StartOf
<1> QED BY <1>2, <1>3, <1>4 DEF RecomputeInv
-----------------------------------------------------------------------------
(* Replacing a minute. *)

\* What the transaction makes of the table: the rows of its minute are those of
\* the bucket, every other row is what it was.
LEMMA ReplaceFacts ==
  ASSUME RecomputeInv, nextWrite < To, ReplaceMinute(nextWrite)
  PROVE  /\ \A k \in DOMAIN db' :
              \/ \E r \in BucketRows(nextWrite) : RowKey(r) = k /\ db'[k] = r
              \/ k \in DOMAIN db /\ db'[k] = db[k] /\ MinuteOf(db[k]) # nextWrite
         /\ \A k \in DOMAIN db : MinuteOf(db[k]) # nextWrite =>
              k \in DOMAIN db' /\ db'[k] = db[k]
         /\ \A r \in BucketRows(nextWrite) :
              RowKey(r) \in DOMAIN db' /\ db'[RowKey(r)] = r
         /\ RowsInv'
<1> DEFINE m == nextWrite
           kept == DOMAIN db \ Deleted(db, m)
           rows == BucketRows(m)
<1>1. /\ db' = [k \in kept \cup {RowKey(r) : r \in rows} |->
                  IF \E r \in rows : RowKey(r) = k THEN CHOOSE r \in rows : RowKey(r) = k
                  ELSE db[k]]
  BY DEF ReplaceMinute
<1>2. m \in Int /\ From \in Int /\ To \in Int /\ From <= m /\ m < To
  BY DEF RecomputeInv, RunInv
<1>3. \A k \in DOMAIN db : db[k].ts \in Int /\ RowKey(db[k]) = k
  BY DEF RecomputeInv, TableInv, RowsInv
<1>4. \A k \in DOMAIN db : k \in kept <=> MinuteOf(db[k]) # m
  <2> TAKE k \in DOMAIN db
  <2>1. db[k].ts \in Int
    BY <1>3
  <2>2. db[k].ts \div Minute = m <=> StartOf(m) <= db[k].ts /\ db[k].ts < StartOf(m + 1)
    BY <1>2, <2>1, MinuteFacts
  <2> QED BY <2>2 DEF Deleted, MinuteOf
<1>5. \A r \in rows :
        /\ RowKey(r) \in DOMAIN produced /\ produced[RowKey(r)] = r
        /\ MinuteOf(r) = m /\ r.ts \in Int
  <2> TAKE r \in rows
  <2>1. m \in DOMAIN buckets /\ r \in buckets[m]
    BY DEF BucketRows
  <2>2. RowKey(r) \in DOMAIN produced /\ produced[RowKey(r)] = r /\ MinuteOf(r) = m
    BY <2>1 DEF RecomputeInv, BucketInv, CollectedOK
  <2>3. r.ts \in Int
    BY <2>2, RowMinute DEF RecomputeInv, ProducedInv, PositionsOK
  <2> QED BY <2>2, <2>3
<1> HIDE DEF m, kept, rows
<1>6. \A r, q \in rows : RowKey(r) = RowKey(q) => r = q
  BY <1>5
<1>7. \A r \in rows : RowKey(r) \in DOMAIN db' /\ db'[RowKey(r)] = r
  <2> TAKE r \in rows
  <2>1. /\ RowKey(r) \in DOMAIN db'
        /\ db'[RowKey(r)] = CHOOSE q \in rows : RowKey(q) = RowKey(r)
    BY <1>1
  <2> QED BY <1>6, <2>1
<1>8. \A k \in DOMAIN db : MinuteOf(db[k]) # m => k \in DOMAIN db' /\ db'[k] = db[k]
  <2> TAKE k \in DOMAIN db
  <2> HAVE MinuteOf(db[k]) # m
  <2>1. \A r \in rows : RowKey(r) # k
    BY <1>3, <1>5, KeyMinute
  <2> QED BY <1>1, <1>4, <2>1
<1>9. \A k \in DOMAIN db' :
        \/ \E r \in rows : RowKey(r) = k /\ db'[k] = r
        \/ k \in DOMAIN db /\ db'[k] = db[k] /\ MinuteOf(db[k]) # m
  <2> TAKE k \in DOMAIN db'
  <2>1. CASE \E r \in rows : RowKey(r) = k
    BY <1>7, <2>1
  <2>2. CASE ~\E r \in rows : RowKey(r) = k
    <3>1. k \in kept
      BY <1>1, <2>2
    <3>2. k \in DOMAIN db
      BY <3>1 DEF kept
    <3> QED BY <1>4, <1>8, <3>1, <3>2
  <2> QED BY <2>1, <2>2
<1>10. \A r \in rows : InRange(r)
  BY <1>2, <1>5 DEF InRange
<1>11. RowsInv'
  <2>1. \A k \in DOMAIN db' : db'[k].ts \in Int /\ RowKey(db'[k]) = k
    BY <1>3, <1>5, <1>9
  <2>2. OutsideUntouched
    BY DEF RecomputeInv, TableInv, RowsInv
  <2>3. ASSUME NEW k \in DOMAIN OldRows, ~InRange(OldRows[k])
        PROVE  k \in DOMAIN db' /\ db'[k] = OldRows[k]
    <3>1. k \in DOMAIN db /\ db[k] = OldRows[k]
      BY <2>2, <2>3 DEF OutsideUntouched
    <3>2. MinuteOf(db[k]) # m
      BY <1>2, <2>3, <3>1 DEF InRange
    <3> QED BY <1>8, <3>1, <3>2
  <2>4. ASSUME NEW k \in DOMAIN db', ~InRange(db'[k])
        PROVE  k \in DOMAIN OldRows
    <3>1. k \in DOMAIN db /\ ~InRange(db[k])
      BY <1>9, <1>10, <2>4
    <3> QED BY <2>2, <3>1 DEF OutsideUntouched
  <2>5. OutsideUntouched'
    BY <2>3, <2>4 DEF OutsideUntouched, InRange
  <2> QED BY <2>1, <2>5 DEF RowsInv
<1> QED BY <1>7, <1>8, <1>9, <1>11 DEF m, rows

\* What is written is what the minute will ever have: the feed is beyond it.
LEMMA WriteInv ==
  ASSUME RecomputeInv, WriteMinute
  PROVE  RecomputeInv'
<1>1. /\ pc = "write" /\ pc' = pc /\ nextWrite < To /\ StartOf(nextWrite + 1) <= confirmed
      /\ ReplaceMinute(nextWrite)
      /\ buckets' = [m \in DOMAIN buckets \ {nextWrite} |-> buckets[m]]
      /\ nextWrite' = nextWrite + 1
      /\ UNCHANGED engineVars
      /\ minute' = minute /\ pending' = pending /\ produced' = produced
  BY DEF WriteMinute, Ready, AfterWrite
<1>2. /\ EngineInv' /\ latest' = latest /\ watermark' = watermark /\ blocks' = blocks
      /\ confirmed' = confirmed /\ finished' = finished /\ counted' = counted
  BY <1>1, EngineIdle DEF RecomputeInv
<1>3. /\ nextWrite \in Int /\ From \in Int /\ To \in Int /\ From <= nextWrite
      /\ minute \in Int /\ minute >= From /\ confirmed \in Int /\ watermark \in Int
      /\ StartOf(nextWrite + 1) \in Int /\ nextWrite + 1 \in Int
  BY <1>1, StartFacts DEF RecomputeInv, RunInv, EngineInv, Ts
<1>4. /\ \A k \in DOMAIN db' :
           \/ \E r \in BucketRows(nextWrite) : RowKey(r) = k /\ db'[k] = r
           \/ k \in DOMAIN db /\ db'[k] = db[k] /\ MinuteOf(db[k]) # nextWrite
      /\ \A k \in DOMAIN db : MinuteOf(db[k]) # nextWrite =>
           k \in DOMAIN db' /\ db'[k] = db[k]
      /\ \A r \in BucketRows(nextWrite) : RowKey(r) \in DOMAIN db' /\ db'[RowKey(r)] = r
      /\ RowsInv'
  BY <1>1, ReplaceFacts
<1>5. \A r \in BucketRows(nextWrite) :
        RowKey(r) \in DOMAIN produced /\ produced[RowKey(r)] = r /\ MinuteOf(r) = nextWrite
  BY DEF BucketRows, RecomputeInv, BucketInv, CollectedOK
<1>6. \A k \in DOMAIN produced : MinuteOf(produced[k]) \in Int
  BY RowMinute DEF RecomputeInv, ProducedInv, PositionsOK
<1>7. ~finished => nextWrite + 1 <= minute
  <2> HAVE ~finished
  <2>1. confirmed <= watermark
    BY DEF RecomputeInv, EngineInv, Lag
  <2>2. StartOf(nextWrite + 1) > TsMin
    <3>1. From - 1 <= nextWrite + 1 /\ From - 1 \in Int
      BY <1>3
    <3>2. StartOf(From - 1) <= StartOf(nextWrite + 1) /\ StartOf(From - 1) \in Int
      BY <1>3, <3>1, MinuteFacts
    <3>3. TsMin < StartOf(From - 1) /\ TsMin \in Int
      BY DEF StartOf
    <3> QED BY <1>3, <3>2, <3>3
  <2>3. watermark # TsMin
    BY <1>1, <1>3, <2>1, <2>2
  <2>4. PICK s \in DOMAIN latest : watermark <= latest[s] /\ latest[s] < StartOf(minute + 1)
    BY <2>3 DEF RecomputeInv, TimeInv
  <2>5. latest[s] \in Int /\ StartOf(minute + 1) \in Int
    BY <1>3, StartFacts, EventTimesAssumption DEF RecomputeInv, EngineInv, LatestOK, Ts
  <2>6. StartOf(nextWrite + 1) < StartOf(minute + 1)
    <3>1. StartOf(nextWrite + 1) <= confirmed
      BY <1>1
    <3> QED BY ONLY <1>3, <2>1, <2>4, <2>5, <3>1
  <2>7. minute + 1 \in Int /\ ~(minute + 1 <= nextWrite + 1)
    <3>1. minute + 1 \in Int /\ nextWrite + 1 \in Int /\ StartOf(nextWrite + 1) \in Int
      BY <1>3
    <3>2. minute + 1 <= nextWrite + 1 => StartOf(minute + 1) <= StartOf(nextWrite + 1)
      BY ONLY <3>1, MinuteFacts
    <3> QED BY ONLY <2>5, <2>6, <3>1, <3>2
  <2> QED BY <1>3, <2>7
<1>8. RunInv'
  BY <1>1, <1>2, <1>3 DEF RecomputeInv, RunInv
<1>9. TimeInv'
  BY <1>1, <1>2, <1>7 DEF RecomputeInv, TimeInv, StartOf
<1>10. ProducedInv'
  BY <1>1, <1>2 DEF RecomputeInv, ProducedInv, PositionsOK, StartOf
<1>11. /\ DOMAIN buckets' = DOMAIN buckets \ {nextWrite}
       /\ \A m \in DOMAIN buckets' : buckets'[m] = buckets[m]
  BY <1>1
<1>12. BucketInv'
  <2>1. \A m \in DOMAIN buckets' : m \in Int /\ nextWrite' <= m /\ m < To /\ buckets'[m] # {}
    BY <1>1, <1>3, <1>11 DEF RecomputeInv, BucketInv
  <2>2. CollectedOK(produced)'
    BY <1>1, <1>2, <1>11 DEF RecomputeInv, BucketInv, CollectedOK
  <2>3. StartOf(nextWrite') <= confirmed'
    BY <1>1, <1>2
  <2> QED BY <1>1, <2>1, <2>2, <2>3 DEF BucketInv, StartOf
<1>13. ASSUME NEW k \in DOMAIN produced, InRange(produced[k])
       PROVE  \/ k \in DOMAIN blocks
              \/ MinuteOf(produced[k]) \in DOMAIN buckets' /\ produced[k] \in buckets'[MinuteOf(produced[k])]
              \/ MinuteOf(produced[k]) < nextWrite' /\ k \in DOMAIN db' /\ db'[k] = produced[k]
  <2> DEFINE m == MinuteOf(produced[k])
  <2>1. \/ k \in DOMAIN blocks
        \/ m \in DOMAIN buckets /\ produced[k] \in buckets[m]
        \/ m < nextWrite /\ k \in DOMAIN db /\ db[k] = produced[k]
    BY <1>13 DEF RecomputeInv, CoverInv, CoveredOK
  <2>2. CASE m \in DOMAIN buckets /\ produced[k] \in buckets[m] /\ m # nextWrite
    BY <1>11, <2>2
  <2>3. CASE m \in DOMAIN buckets /\ produced[k] \in buckets[m] /\ m = nextWrite
    <3>1. produced[k] \in BucketRows(nextWrite) /\ RowKey(produced[k]) = k
      BY <2>3 DEF BucketRows, RecomputeInv, ProducedInv, PositionsOK
    <3> QED BY <1>1, <1>3, <1>4, <2>3, <3>1
  <2>4. CASE m < nextWrite /\ k \in DOMAIN db /\ db[k] = produced[k]
    BY <1>1, <1>3, <1>4, <1>6, <2>4
  <2> QED BY <2>1, <2>2, <2>3, <2>4
<1>14. CoverInv'
  BY <1>1, <1>2, <1>13 DEF CoverInv, CoveredOK, InRange
<1>15. ASSUME NEW k \in DOMAIN db', From <= MinuteOf(db'[k]), MinuteOf(db'[k]) < nextWrite'
       PROVE  k \in DOMAIN produced /\ produced[k] = db'[k]
  <2>1. CASE \E r \in BucketRows(nextWrite) : RowKey(r) = k /\ db'[k] = r
    BY <1>5, <2>1
  <2>2. CASE k \in DOMAIN db /\ db'[k] = db[k] /\ MinuteOf(db[k]) # nextWrite
    <3>1. db[k].ts \in Int /\ Minute \in Int /\ Minute > 0
      BY <2>2 DEF RecomputeInv, TableInv, RowsInv
    <3>2. MinuteOf(db[k]) \in Int
      BY <3>1, DivFacts DEF MinuteOf
    <3>3. From <= MinuteOf(db[k]) /\ MinuteOf(db[k]) < nextWrite
      BY <1>1, <1>3, <1>15, <2>2, <3>2
    <3> QED BY <2>2, <3>3 DEF RecomputeInv, TableInv, WrittenOK
  <2> QED BY <1>4, <2>1, <2>2
<1>16. TableInv'
  BY <1>1, <1>4, <1>15 DEF TableInv, WrittenOK
<1> QED BY <1>2, <1>8, <1>9, <1>10, <1>12, <1>14, <1>16 DEF RecomputeInv
-----------------------------------------------------------------------------
(* Every step. *)

\* A restart keeps nothing but the table, which has its old rows outside the
\* range whether or not the last transaction was committed.
LEMMA RestartInv ==
  ASSUME RecomputeInv, Start \/ Abort \/ CommitThenAbort
  PROVE  RecomputeInv'
<1>1. RowsInv'
  <2>1. CASE Start \/ Abort
    <3>1. db' = db
      BY <2>1 DEF Start, Abort, storeVars
    <3> QED BY <3>1 DEF RecomputeInv, TableInv, RowsInv, OutsideUntouched
  <2>2. CASE CommitThenAbort
    BY <2>2, ReplaceFacts DEF CommitThenAbort, Ready
  <2> QED BY <2>1, <2>2
<1>2. (\E rows : NewEngine(rows)) /\ NewRun /\ pc' \in {"start", "read"}
  BY DEF Start, Abort, CommitThenAbort, Restart
<1>3. Fresh'
  BY <1>1, <1>2, NewRunFresh
<1> QED BY <1>3, FreshNext

LEMMA RecomputeStep ==
  ASSUME RecomputeInv, [RecomputeNext]_recomputeVars
  PROVE  RecomputeInv'
<1>1. CASE UNCHANGED recomputeVars
  <2>1. /\ pc' = pc /\ minute' = minute /\ pending' = pending /\ buckets' = buckets
        /\ nextWrite' = nextWrite /\ produced' = produced /\ db' = db
        /\ UNCHANGED engineVars
    BY <1>1 DEF recomputeVars, runVars, storeVars
  <2>2. /\ EngineInv' /\ latest' = latest /\ watermark' = watermark /\ blocks' = blocks
        /\ confirmed' = confirmed /\ finished' = finished /\ counted' = counted
    BY <2>1, EngineIdle DEF RecomputeInv
  <2>3. RunInv' /\ TimeInv'
    BY <2>1, <2>2 DEF RecomputeInv, RunInv, TimeInv, IsRecordOf, StartOf
  <2>4. ProducedInv' /\ CoverInv' /\ BucketInv' /\ TableInv'
    BY <2>1, <2>2
       DEF RecomputeInv, ProducedInv, PositionsOK, CoverInv, CoveredOK, BucketInv,
           CollectedOK, TableInv, WrittenOK, RowsInv, OutsideUntouched, StartOf
  <2> QED BY <2>2, <2>3, <2>4 DEF RecomputeInv
<1>2. CASE Start \/ Abort \/ CommitThenAbort
  BY <1>2, RestartInv
<1>3. CASE ReadMinute
  BY <1>3, ReadInv
<1>4. CASE Feed
  BY <1>4, FeedInv
<1>5. CASE MinuteFed
  BY <1>5, MinuteFedInv
<1>6. CASE WriteMinute
  BY <1>6, WriteInv
<1>7. CASE NextMinute
  BY <1>7, NextMinuteInv
<1>8. CASE FinishInput
  BY <1>8, FinishInv
<1>9. CASE RunDone
  BY <1>9, RunDoneInv
<1> QED
  BY <1>1, <1>2, <1>3, <1>4, <1>5, <1>6, <1>7, <1>8, <1>9 DEF RecomputeNext, RunStep

THEOREM RecomputeInvariant == RecomputeSpec => []RecomputeInv
<1>1. RecomputeInit => RecomputeInv
  BY InitInv
<1>2. RecomputeInv /\ [RecomputeNext]_recomputeVars => RecomputeInv'
  BY RecomputeStep
<1> QED BY <1>1, <1>2, PTL DEF RecomputeSpec

-----------------------------------------------------------------------------
(* The properties. *)

\* The run's state has its type, and no minute is written ahead of the feed.
THEOREM RecomputeTypes == RecomputeSpec => []RecomputeTypeOK
<1>1. RecomputeInv => RecomputeTypeOK
  <2> SUFFICES ASSUME RecomputeInv PROVE RecomputeTypeOK
    OBVIOUS
  <2>1. EngineTypeOK
    BY DEF RecomputeInv, EngineInv, EngineTypeOK, LatestOK
  <2>2. finished \/ nextWrite <= minute \/ minute < From
    BY DEF RecomputeInv, RunInv, TimeInv
  <2> QED
    BY <2>1, <2>2
       DEF RecomputeInv, RunInv, BucketInv, CollectedOK, TableInv, RowsInv, RecomputeTypeOK
<1> QED BY <1>1, RecomputeInvariant, PTL

\* No record is dropped as late: app.rs feeds the files of a minute merged in
\* time order, and the watermark never passes the last record fed.
THEOREM NoneLate == RecomputeSpec => []NothingLate
<1>1. RecomputeInv => NothingLate
  BY DEF RecomputeInv, TimeInv, NothingLate
<1> QED BY <1>1, RecomputeInvariant, PTL

\* A minute that app.rs has written holds the last position of each of its
\* blocks and no other row, and nothing fed later belongs to it.
THEOREM WrittenIsComplete == RecomputeSpec => []WrittenMinutesComplete
<1>1. RecomputeInv => WrittenMinutesComplete
  <2> SUFFICES ASSUME RecomputeInv, NEW m \in From .. nextWrite - 1
               PROVE  /\ InMinute(db, m) = InMinute(produced, m)
                      /\ \A k \in InMinute(db, m) : db[k] = produced[k]
    BY DEF WrittenMinutesComplete
  <2>1. /\ nextWrite \in Int /\ From \in Int /\ To \in Int /\ nextWrite <= To
        /\ m \in Int /\ From <= m /\ m < nextWrite /\ nextWrite > From
    BY DEF RecomputeInv, RunInv
  <2>2. \A k \in InMinute(db, m) : k \in InMinute(produced, m) /\ db[k] = produced[k]
    BY <2>1 DEF InMinute, RecomputeInv, TableInv, WrittenOK
  <2>3. ASSUME NEW k \in InMinute(produced, m) PROVE k \in InMinute(db, m)
    <3>1. k \in DOMAIN produced /\ MinuteOf(produced[k]) = m /\ InRange(produced[k])
      BY <2>1 DEF InMinute, InRange
    <3>2. k \notin DOMAIN blocks
      <4> SUFFICES ASSUME k \in DOMAIN blocks PROVE FALSE
        OBVIOUS
      <4>1. ~finished
        BY DEF RecomputeInv, RunInv, NoRows
      <4>2. KeyEnd(k) > confirmed /\ confirmed \in Int
        BY <4>1 DEF RecomputeInv, EngineInv, PendingOK, Ts
      <4>3. KeyEnd(k) <= StartOf(m + 1) /\ KeyEnd(k) \in Int
        BY <2>1, <3>1, RowMinute DEF RecomputeInv, ProducedInv, PositionsOK
      <4>4. /\ StartOf(m + 1) <= StartOf(nextWrite) /\ StartOf(nextWrite) <= confirmed
            /\ StartOf(m + 1) \in Int /\ StartOf(nextWrite) \in Int
        BY <2>1, MinuteFacts, StartFacts DEF RecomputeInv, BucketInv
      <4> QED BY <4>2, <4>3, <4>4
    <3>3. ~(m \in DOMAIN buckets)
      BY <2>1 DEF RecomputeInv, BucketInv
    <3>4. k \in DOMAIN db /\ db[k] = produced[k]
      BY <3>1, <3>2, <3>3 DEF RecomputeInv, CoverInv, CoveredOK
    <3> QED BY <3>1, <3>4 DEF InMinute
  <2> QED BY <2>2, <2>3
<1> QED BY <1>1, RecomputeInvariant, PTL

\* The buckets hold the minutes still to be written, and while a minute is read
\* only the one the confirmed time lies in.
THEOREM BucketsStayBounded == RecomputeSpec => []BucketsBounded
<1>1. RecomputeInv => BucketsBounded
  <2> SUFFICES ASSUME RecomputeInv, NEW m \in DOMAIN buckets
               PROVE  /\ nextWrite <= m /\ m < To
                      /\ pc = "read" => StartOf(m) < confirmed /\ confirmed < StartOf(m + 1)
    BY DEF BucketsBounded
  <2>1. /\ m \in Int /\ nextWrite <= m /\ m < To /\ buckets[m] # {}
        /\ pc = "read" => confirmed < StartOf(m + 1)
    BY DEF RecomputeInv, BucketInv
  <2>2. PICK r \in buckets[m] : TRUE
    BY <2>1
  <2>3. /\ RowKey(r) \in DOMAIN produced /\ produced[RowKey(r)] = r
        /\ MinuteOf(r) = m /\ KeyEnd(RowKey(r)) <= confirmed
    BY DEF RecomputeInv, BucketInv, CollectedOK
  <2>4. /\ RowKey(r) \in Keys /\ r.ts = RowKey(r)[2] * Block
        /\ KeyEnd(RowKey(r)) = (RowKey(r)[2] + 1) * Block
    BY <2>3 DEF RecomputeInv, ProducedInv, PositionsOK
  <2>5. /\ StartOf(m) <= r.ts /\ r.ts < KeyEnd(RowKey(r))
        /\ r.ts \in Int /\ KeyEnd(RowKey(r)) \in Int
    BY <2>1, <2>3, <2>4, RowMinute
  <2>6. StartOf(m) \in Int /\ confirmed \in Int
    BY <2>1, StartFacts DEF RecomputeInv, EngineInv, Ts
  <2>7. StartOf(m) < confirmed
    BY <2>3, <2>5, <2>6
  <2> QED BY <2>1, <2>7
<1> QED BY <1>1, RecomputeInvariant, PTL

\* Rows outside the range are those of before the first run, wherever any of
\* the runs died.
THEOREM OutsideIsUntouched == RecomputeSpec => []OutsideUntouched
<1>1. RecomputeInv => OutsideUntouched
  BY DEF RecomputeInv, TableInv, RowsInv
<1> QED BY <1>1, RecomputeInvariant, PTL
=============================================================================
