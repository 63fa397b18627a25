--------------------------- MODULE RealtimeProofs ---------------------------
(***************************************************************************)
(* Theorems about the two tasks of the realtime mode for every capacity of *)
(* the channels, every batch size, every number of attempts, and any set   *)
(* of blocks and rows.                                                     *)
(***************************************************************************)
EXTENDS RealtimeProperties, FiniteSetTheorems, SequenceTheorems, TLAPS

RowRecords == [key : BlockKeys, row : Rows]

-----------------------------------------------------------------------------
(* The inductive invariant, in parts. *)

\* The engine: open blocks end after the frontier, closed ones do not, and
\* there are finitely many of each.
EngineInv ==
  /\ frontier \in Times
  /\ DOMAIN open \subseteq BlockKeys /\ DOMAIN closed \subseteq BlockKeys
  /\ IsFiniteSet(DOMAIN open) /\ IsFiniteSet(DOMAIN closed)
  /\ \A k \in DOMAIN open : open[k] \in Rows /\ EndOf(k) > frontier
  /\ \A k \in DOMAIN closed : closed[k] \in Rows /\ EndOf(k) <= frontier

\* The channels, the batch and the attempts, with their bounds.
QueueInv ==
  /\ rxIn \in Seq(BlockKeys) /\ Len(rxIn) <= ChanCap
  /\ outbox \subseteq RowRecords /\ IsFiniteSet(outbox)
  /\ txDb \in Seq(RowRecords) /\ Len(txDb) <= ChanCap
  /\ batch \in Seq(RowRecords) /\ Len(batch) <= BatchSize
  /\ writer = "select" => Len(batch) < BatchSize
  /\ writer \in {"flush", "sleep"} => batch # <<>>
  /\ attempt \in 1 .. Attempts
  /\ metrics \in [db_upserts : Nat]

\* How far the two tasks have come: the loop is left with an empty engine, the
\* sender is dropped when every row is sent, and the writer ends after it has
\* seen the channel closed and empty.
ControlInv ==
  /\ receiver \in {"running", "ended"} /\ ctrlC \in BOOLEAN
  /\ main \in {"select", "send", "join", "done"}
  /\ writer \in {"select", "flush", "sleep", "done"}
  /\ main = "send" <=> outbox # {}
  /\ main = "select" => ~finishing
  /\ main \in {"join", "done"} => finishing
  /\ txDbOpen <=> main \notin {"join", "done"}
  /\ finishing => /\ DOMAIN open = {} /\ receiver = "ended"
                  /\ ctrlC \/ rxIn = <<>>
  /\ closing => ~txDbOpen /\ txDb = <<>> /\ writer # "select"
  /\ writer = "done" => closing /\ batch = <<>>
  /\ main = "done" => writer = "done"

\* A key is in one place of the loop, the channel and the batch, once, and it
\* has not been given up.
PlaceInv ==
  /\ \A i, j \in 1 .. Len(txDb) : txDb[i].key = txDb[j].key => i = j
  /\ \A i, j \in 1 .. Len(batch) : batch[i].key = batch[j].key => i = j
  /\ \A i \in 1 .. Len(txDb), j \in 1 .. Len(batch) : txDb[i].key # batch[j].key
  /\ \A r \in outbox, i \in 1 .. Len(txDb) : txDb[i].key # r.key
  /\ \A r \in outbox, i \in 1 .. Len(batch) : batch[i].key # r.key
  /\ \A r \in InFlight : r.key \notin dropped

\* The rows are those the engine has closed, and their number is right.
AccountInv ==
  /\ RowsAccounted
  /\ dropped \subseteq DOMAIN closed

RealtimeInv == EngineInv /\ QueueInv /\ ControlInv /\ PlaceInv /\ AccountInv

USE RealtimeAssumption, TasksAssumption

-----------------------------------------------------------------------------
(* One call of the engine. *)

\* The rows that are open once any write of the call is done.
Writable(o) ==
  /\ DOMAIN o \subseteq BlockKeys /\ IsFiniteSet(DOMAIN o)
  /\ \A k \in DOMAIN o : o[k] \in Rows /\ EndOf(k) > frontier

\* The rows an event leaves open: one key more at the most, of a block that has
\* not ended.
LEMMA IngestedWritable ==
  ASSUME EngineInv, NEW k \in BlockKeys, NEW o \in Ingested(k)
  PROVE  Writable(o)
<1>1. CASE o = open
  BY <1>1 DEF EngineInv, Writable
<1>2. CASE o # open
  <2>1. /\ EndOf(k) > frontier
        /\ \E row \in Rows :
             o = [x \in DOMAIN open \cup {k} |-> IF x = k THEN row ELSE open[x]]
    BY <1>2 DEF Ingested
  <2>2. IsFiniteSet(DOMAIN open \cup {k})
    BY FS_AddElement DEF EngineInv
  <2> QED BY <2>1, <2>2 DEF EngineInv, Writable
<1> QED BY <1>1, <1>2

\* What a call changes in the ledger: closed rows stay as they are.
LEMMA CallFacts ==
  ASSUME EngineInv, NEW o, Writable(o), frontier' \in Times, CloseUpTo(o)
  PROVE  /\ EngineInv'
         /\ DOMAIN closed \subseteq DOMAIN closed'
         /\ \A k \in DOMAIN closed : closed'[k] = closed[k]
<1> DEFINE ended == {x \in DOMAIN o : EndOf(x) <= frontier'}
           left == {x \in DOMAIN o : EndOf(x) > frontier'}
<1>1. IsFiniteSet(ended) /\ IsFiniteSet(left)
  BY FS_Subset DEF Writable
<1>2. IsFiniteSet(DOMAIN closed \cup ended)
  BY <1>1, FS_Union DEF EngineInv
<1>3. DOMAIN open' = left /\ \A k \in left : open'[k] = o[k]
  BY DEF CloseUpTo
<1>4. DOMAIN closed' = DOMAIN closed \cup ended
  BY DEF CloseUpTo
<1>5. \A k \in DOMAIN closed : closed'[k] = closed[k]
  BY DEF CloseUpTo
<1>6. \A k \in ended \ DOMAIN closed : closed'[k] = o[k]
  BY DEF CloseUpTo
<1>7. \A k \in BlockKeys : EndOf(k) \in Int
  OBVIOUS
<1>8. frontier' >= frontier /\ frontier \in Int /\ frontier' \in Int
  BY DEF CloseUpTo, EngineInv, Times
<1>9. \A k \in DOMAIN closed' : closed'[k] \in Rows /\ EndOf(k) <= frontier'
  BY <1>4, <1>5, <1>6, <1>7, <1>8 DEF EngineInv, Writable
<1>10. \A k \in DOMAIN open' : open'[k] \in Rows /\ EndOf(k) > frontier'
  BY <1>3 DEF Writable
<1>11. DOMAIN open' \subseteq BlockKeys /\ DOMAIN closed' \subseteq BlockKeys
  BY <1>3, <1>4 DEF EngineInv, Writable
<1> QED BY <1>1, <1>2, <1>3, <1>4, <1>5, <1>9, <1>10, <1>11 DEF EngineInv

\* The rows a call returns are the newly closed ones, one for each key.
LEMMA ReturnedFacts ==
  ASSUME EngineInv, EngineInv', DOMAIN closed \subseteq DOMAIN closed'
  PROVE  /\ Returned \subseteq RowRecords /\ IsFiniteSet(Returned)
         /\ Cardinality(DOMAIN closed')
              = Cardinality(DOMAIN closed) + Cardinality(Returned)
         /\ \A r \in Returned :
              r.key \in DOMAIN closed' \ DOMAIN closed /\ r.row = closed'[r.key]
         /\ \A k \in DOMAIN closed' \ DOMAIN closed : \E r \in Returned : r.key = k
<1> DEFINE new == DOMAIN closed' \ DOMAIN closed
           f == [k \in new |-> Record(k, closed'[k])]
<1>1. IsFiniteSet(new) /\ Cardinality(new) = Cardinality(DOMAIN closed') - Cardinality(DOMAIN closed)
  <2>1. IsFiniteSet(DOMAIN closed') /\ IsFiniteSet(DOMAIN closed)
    BY DEF EngineInv
  <2>2. DOMAIN closed' \cap DOMAIN closed = DOMAIN closed
    OBVIOUS
  <2> QED BY <2>1, <2>2, FS_Difference
<1>2. f \in Surjection(new, Returned)
  BY DEF Surjection, Returned
<1>3. f \in Injection(new, Returned)
  <2>1. \A k \in new : f[k] = Record(k, closed'[k])
    OBVIOUS
  <2>2. \A k \in new : f[k].key = k
    BY <2>1 DEF Record
  <2>3. f \in [new -> Returned]
    BY <1>2 DEF Surjection
  <2> HIDE DEF f
  <2>4. \A j, k \in new : f[j] = f[k] => j = k
    BY <2>2
  <2> QED BY <2>3, <2>4 DEF Injection, IsInjective
<1>4. IsFiniteSet(Returned) /\ Cardinality(Returned) = Cardinality(new)
  BY <1>1, <1>2, <1>3, FS_Surjection
<1>5. \A k \in new : k \in BlockKeys /\ closed'[k] \in Rows
  BY DEF EngineInv
<1>6. \A r \in Returned : \E k \in new : r = Record(k, closed'[k])
  BY DEF Returned
<1>7. /\ Returned \subseteq RowRecords
      /\ \A r \in Returned : r.key \in new /\ r.row = closed'[r.key]
  BY <1>5, <1>6 DEF Record, RowRecords
<1>8. ASSUME NEW k \in new
      PROVE  \E r \in Returned : r.key = k
  <2>1. Record(k, closed'[k]) \in Returned
    BY DEF Returned
  <2>2. Record(k, closed'[k]).key = k
    BY DEF Record
  <2> QED BY <2>1, <2>2
<1>9. Cardinality(DOMAIN closed') \in Nat /\ Cardinality(DOMAIN closed) \in Nat
  BY FS_CardinalityType DEF EngineInv
<1> QED BY <1>1, <1>4, <1>7, <1>8, <1>9

-----------------------------------------------------------------------------
(* Steps that move no row. *)

\* Where the rows are does not change if none of these does.
LEMMA RowsUnmoved ==
  ASSUME RealtimeInv,
         UNCHANGED <<open, closed, outbox, txDb, batch, db, dropped, metrics>>
  PROVE  PlaceInv' /\ AccountInv'
  BY SMTT(30) DEF RealtimeInv, PlaceInv, AccountInv, RowsAccounted, InFlight, HowManyInFlight, Elements

\* The receiver, the signal and the join touch no row.
LEMMA OutsideStep ==
  ASSUME RealtimeInv,
         \/ Receive \/ ReceiverEnds \/ (PressCtrlC /\ UNCHANGED ledgerVars)
         \/ (JoinWriter /\ UNCHANGED ledgerVars) \/ UNCHANGED vars
  PROVE  RealtimeInv'
<1> USE DEF ledgerVars, mainVars, inputVars, writerVars, taskVars, vars
<1>1. UNCHANGED <<frontier, open, closed, outbox, finishing, txDbOpen, txDb, writerVars>>
  BY DEF Receive, ReceiverEnds, PressCtrlC, JoinWriter
<1>2. PlaceInv' /\ AccountInv'
  BY <1>1, RowsUnmoved
<1>3. EngineInv'
  BY <1>1 DEF RealtimeInv, EngineInv
<1>4. QueueInv'
  <2>1. CASE Receive
    <3>1. PICK k \in BlockKeys : rxIn' = Append(rxIn, k)
      BY <2>1 DEF Receive
    <3>2. rxIn' \in Seq(BlockKeys) /\ Len(rxIn') = Len(rxIn) + 1
      BY <3>1, AppendProperties DEF RealtimeInv, QueueInv
    <3>3. Len(rxIn') <= ChanCap
      BY <2>1, <3>2, LenProperties DEF Receive, RealtimeInv, QueueInv
    <3> QED BY <1>1, <3>2, <3>3 DEF RealtimeInv, QueueInv
  <2>2. CASE ~Receive
    <3>1. rxIn' = rxIn
      BY <2>2 DEF ReceiverEnds, PressCtrlC, JoinWriter
    <3> QED BY <1>1, <3>1 DEF RealtimeInv, QueueInv
  <2> QED BY <2>1, <2>2
<1>5. ControlInv'
  <2>1. CASE Receive
    BY <1>1, <2>1 DEF Receive, RealtimeInv, ControlInv
  <2>2. CASE ReceiverEnds
    BY <1>1, <2>2 DEF ReceiverEnds, RealtimeInv, ControlInv
  <2>3. CASE PressCtrlC
    BY <1>1, <2>3 DEF PressCtrlC, RealtimeInv, ControlInv
  <2>4. CASE JoinWriter
    BY <1>1, <2>4 DEF JoinWriter, RealtimeInv, ControlInv
  <2>5. CASE UNCHANGED vars
    BY <2>5 DEF RealtimeInv, ControlInv
  <2> QED BY <2>1, <2>2, <2>3, <2>4, <2>5
<1> QED BY <1>2, <1>3, <1>4, <1>5 DEF RealtimeInv

\* The writer's tick, the end of its pause, the close of its channel, and an
\* attempt that fails.
LEMMA WriterModeStep ==
  ASSUME RealtimeInv, UNCHANGED ledgerVars, BatchTick \/ Wake \/ ChannelClosed
  PROVE  RealtimeInv'
<1> USE DEF ledgerVars, mainVars, inputVars, AtClose, TickFlushes
<1>1. /\ UNCHANGED <<ledgerVars, inputVars, mainVars, txDb>>
      /\ UNCHANGED <<batch, attempt, db, dropped, metrics>>
  BY DEF BatchTick, Wake, ChannelClosed
<1>2. PlaceInv' /\ AccountInv'
  BY <1>1, RowsUnmoved
<1>3. EngineInv'
  BY <1>1 DEF RealtimeInv, EngineInv
<1>4. /\ writer' = "flush" => batch # <<>>
      /\ writer' \in {"flush", "done"}
  BY DEF BatchTick, Wake, ChannelClosed, RealtimeInv, QueueInv
<1>5. QueueInv'
  BY <1>1, <1>4 DEF RealtimeInv, QueueInv
<1>6. ControlInv'
  <2>1. CASE BatchTick
    BY <1>1, <2>1 DEF BatchTick, RealtimeInv, ControlInv
  <2>2. CASE Wake
    BY <1>1, <2>2 DEF Wake, RealtimeInv, ControlInv
  <2>3. CASE ChannelClosed
    BY <1>1, <2>3 DEF ChannelClosed, RealtimeInv, ControlInv
  <2> QED BY <2>1, <2>2, <2>3
<1> QED BY <1>2, <1>3, <1>5, <1>6 DEF RealtimeInv

-----------------------------------------------------------------------------
(* A row moves: the elements of a channel or batch. *)

LEMMA ElementsFacts ==
  ASSUME NEW s \in Seq(RowRecords)
  PROVE  /\ Len(s) \in Nat /\ DOMAIN s = 1 .. Len(s)
         /\ Elements(s) = {s[i] : i \in 1 .. Len(s)}
         /\ \A i \in 1 .. Len(s) : s[i] \in RowRecords /\ s[i] \in Elements(s)
  BY LenProperties, ElementOfSeq DEF Elements

LEMMA ElementsAppend ==
  ASSUME NEW s \in Seq(RowRecords), NEW r \in RowRecords
  PROVE  Elements(Append(s, r)) = Elements(s) \cup {r}
<1> DEFINE t == Append(s, r)
<1>1. /\ t \in Seq(RowRecords) /\ Len(t) = Len(s) + 1 /\ t[Len(s) + 1] = r
      /\ \A i \in 1 .. Len(s) : t[i] = s[i]
  BY AppendProperties
<1>2. Len(s) \in Nat /\ DOMAIN s = 1 .. Len(s) /\ DOMAIN t = 1 .. Len(s) + 1
  BY <1>1, LenProperties
<1> HIDE DEF t
<1>3. Elements(t) = {t[i] : i \in 1 .. Len(s) + 1}
  BY <1>2 DEF Elements
<1>4. Elements(s) = {s[i] : i \in 1 .. Len(s)}
  BY <1>2 DEF Elements
<1>5. 1 .. Len(s) + 1 = (1 .. Len(s)) \cup {Len(s) + 1}
  BY <1>2
<1> QED BY <1>1, <1>3, <1>4, <1>5 DEF t

LEMMA ElementsTail ==
  ASSUME NEW s \in Seq(RowRecords), s # <<>>
  PROVE  Elements(s) = {Head(s)} \cup Elements(Tail(s))
<1> DEFINE t == Tail(s)
<1>1. t \in Seq(RowRecords) /\ Len(t) = Len(s) - 1 /\ \A i \in 1 .. Len(t) : t[i] = s[i + 1]
  BY HeadTailProperties
<1>2. Len(s) \in Nat \ {0} /\ DOMAIN s = 1 .. Len(s) /\ DOMAIN t = 1 .. Len(s) - 1
  BY <1>1, LenProperties, EmptySeq
<1>3. Head(s) = s[1]
  OBVIOUS
<1> HIDE DEF t
<1>4. Elements(t) = {t[i] : i \in 1 .. Len(s) - 1}
  BY <1>2 DEF Elements
<1>5. Elements(s) = {s[i] : i \in 1 .. Len(s)}
  BY <1>2 DEF Elements
<1>6. \A i \in 1 .. Len(s) : i = 1 \/ (i - 1 \in 1 .. Len(s) - 1 /\ s[i] = t[i - 1])
  BY <1>1, <1>2
<1>7. \A i \in 1 .. Len(s) - 1 : i + 1 \in 1 .. Len(s) /\ t[i] = s[i + 1]
  BY <1>1, <1>2
<1>8. Elements(s) \subseteq {s[1]} \cup Elements(t)
  BY <1>4, <1>5, <1>6
<1>9. {s[1]} \cup Elements(t) \subseteq Elements(s)
  BY <1>2, <1>4, <1>5, <1>7
<1> QED BY <1>3, <1>8, <1>9 DEF t

\* A row is sent: out of the returned rows, onto the channel.
LEMMA SendStep ==
  ASSUME RealtimeInv, Send, UNCHANGED ledgerVars
  PROVE  RealtimeInv'
<1> USE DEF ledgerVars, inputVars, writerVars
<1>1. PICK r \in outbox : txDb' = Append(txDb, r) /\ outbox' = outbox \ {r}
  BY DEF Send
<1>2. r \in RowRecords /\ txDb \in Seq(RowRecords) /\ batch \in Seq(RowRecords)
  BY DEF RealtimeInv, QueueInv
<1>3. /\ txDb' \in Seq(RowRecords) /\ Len(txDb') = Len(txDb) + 1
      /\ txDb'[Len(txDb) + 1] = r /\ \A i \in 1 .. Len(txDb) : txDb'[i] = txDb[i]
  BY <1>1, <1>2, AppendProperties
<1>4. Len(txDb) \in Nat /\ Len(batch) \in Nat
  BY <1>2, LenProperties
<1>5. Elements(txDb') = Elements(txDb) \cup {r}
  BY <1>1, <1>2, ElementsAppend
<1>6. InFlight' = InFlight
  BY <1>1, <1>5 DEF InFlight, Elements, Send
<1>7. IsFiniteSet(outbox') /\ Cardinality(outbox') = Cardinality(outbox) - 1
  BY <1>1, FS_RemoveElement DEF RealtimeInv, QueueInv
<1>8. EngineInv'
  BY DEF RealtimeInv, EngineInv
<1>9. QueueInv'
  BY <1>1, <1>3, <1>4, <1>7 DEF Send, RealtimeInv, QueueInv
<1>10. ControlInv'
  BY <1>1, <1>3 DEF Send, SenderKept, RealtimeInv, ControlInv
<1>11. PlaceInv'
  <2>1. /\ \A i \in 1 .. Len(txDb) : txDb[i].key # r.key
        /\ \A i \in 1 .. Len(batch) : batch[i].key # r.key
    BY DEF RealtimeInv, PlaceInv
  <2>2. \A i, j \in 1 .. Len(txDb') : txDb'[i].key = txDb'[j].key => i = j
    BY <1>3, <1>4, <2>1 DEF RealtimeInv, PlaceInv
  <2>3. \A i \in 1 .. Len(txDb'), j \in 1 .. Len(batch) : txDb'[i].key # batch[j].key
    BY <1>3, <1>4, <2>1 DEF RealtimeInv, PlaceInv
  <2>4. \A s \in outbox' : s.key # r.key
    <3> SUFFICES ASSUME NEW s \in outbox', s.key = r.key PROVE FALSE
      OBVIOUS
    <3>1. s \in InFlight /\ r \in InFlight /\ s # r
      BY <1>1 DEF InFlight
    <3>2. s \in RowRecords /\ r \in RowRecords /\ s.row = r.row
      BY <1>1, <1>2, <3>1 DEF RealtimeInv, AccountInv, RowsAccounted, QueueInv
    <3> QED BY <3>1, <3>2 DEF RowRecords
  <2>5. \A s \in outbox', i \in 1 .. Len(txDb') : txDb'[i].key # s.key
    BY <1>1, <1>3, <1>4, <2>4 DEF RealtimeInv, PlaceInv
  <2> QED BY <1>1, <1>6, <2>2, <2>3, <2>5 DEF Send, RealtimeInv, PlaceInv
<1>12. HowManyInFlight' = HowManyInFlight
  <2>1. Cardinality(outbox) \in Nat
    BY FS_CardinalityType DEF RealtimeInv, QueueInv
  <2> QED BY <1>3, <1>4, <1>7, <2>1 DEF HowManyInFlight, Send
<1>13. AccountInv'
  BY <1>6, <1>12 DEF Send, RealtimeInv, AccountInv, RowsAccounted
<1> QED BY <1>8, <1>9, <1>10, <1>11, <1>13 DEF RealtimeInv

\* A row is batched: off the channel, onto the batch.
LEMMA BatchRowStep ==
  ASSUME RealtimeInv, BatchRow, UNCHANGED ledgerVars
  PROVE  RealtimeInv'
<1> USE DEF ledgerVars, inputVars, mainVars
<1> DEFINE r == Head(txDb)
<1>1. txDb \in Seq(RowRecords) /\ batch \in Seq(RowRecords) /\ txDb # <<>>
  BY DEF BatchRow, RealtimeInv, QueueInv
<1>2. /\ r \in RowRecords /\ txDb' \in Seq(RowRecords) /\ Len(txDb') = Len(txDb) - 1
      /\ \A i \in 1 .. Len(txDb') : txDb'[i] = txDb[i + 1]
  BY <1>1, HeadTailProperties DEF BatchRow
<1>3. /\ batch' \in Seq(RowRecords) /\ Len(batch') = Len(batch) + 1 /\ batch' # <<>>
      /\ batch'[Len(batch) + 1] = r /\ \A i \in 1 .. Len(batch) : batch'[i] = batch[i]
  BY <1>1, <1>2, AppendProperties DEF BatchRow
<1>4. Len(txDb) \in Nat \ {0} /\ Len(batch) \in Nat /\ r = txDb[1]
  BY <1>1, LenProperties, EmptySeq
<1>5. InFlight' = InFlight
  <2>1. Elements(txDb) = {r} \cup Elements(txDb')
    BY <1>1, ElementsTail DEF BatchRow
  <2>2. Elements(batch') = Elements(batch) \cup {r}
    BY <1>1, <1>2, ElementsAppend DEF BatchRow
  <2>3. outbox' = outbox
    BY DEF BatchRow
  <2>4. InFlight' = outbox' \cup Elements(txDb') \cup Elements(batch')
    BY DEF InFlight, Elements
  <2> QED BY <2>1, <2>2, <2>3, <2>4 DEF InFlight
<1> HIDE DEF r
<1>6. EngineInv'
  BY DEF RealtimeInv, EngineInv
<1>7. QueueInv'
  BY <1>2, <1>3, <1>4 DEF BatchRow, BatchFull, RealtimeInv, QueueInv
<1>8. ControlInv'
  BY <1>1 DEF BatchRow, RealtimeInv, ControlInv
<1>9. PlaceInv'
  <2>1. /\ \A i \in 2 .. Len(txDb) : txDb[i].key # r.key
        /\ \A i \in 1 .. Len(batch) : batch[i].key # r.key
        /\ \A s \in outbox : s.key # r.key
    BY <1>4 DEF RealtimeInv, PlaceInv
  <2>2. ASSUME NEW i \in 1 .. Len(txDb'), NEW j \in 1 .. Len(txDb'),
               txDb'[i].key = txDb'[j].key
        PROVE  i = j
    <3>1. i + 1 \in 1 .. Len(txDb) /\ j + 1 \in 1 .. Len(txDb)
      BY <1>2, <1>4
    <3>2. txDb[i + 1].key = txDb[j + 1].key
      BY <1>2, <2>2
    <3>3. i + 1 = j + 1
      BY <3>1, <3>2 DEF RealtimeInv, PlaceInv
    <3> QED BY <3>3
  <2>3. \A i, j \in 1 .. Len(batch') : batch'[i].key = batch'[j].key => i = j
    BY <1>3, <1>4, <2>1 DEF RealtimeInv, PlaceInv
  <2>4. \A i \in 1 .. Len(txDb') : i + 1 \in 2 .. Len(txDb) /\ i + 1 \in 1 .. Len(txDb)
    BY <1>2, <1>4
  <2>5. \A i \in 1 .. Len(txDb'), j \in 1 .. Len(batch') : txDb'[i].key # batch'[j].key
    BY <1>2, <1>3, <1>4, <2>1, <2>4 DEF RealtimeInv, PlaceInv
  <2>6. \A s \in outbox', i \in 1 .. Len(txDb') : txDb'[i].key # s.key
    BY <1>2, <2>4 DEF BatchRow, RealtimeInv, PlaceInv
  <2>7. \A s \in outbox', i \in 1 .. Len(batch') : batch'[i].key # s.key
    BY <1>3, <1>4, <2>1 DEF BatchRow, RealtimeInv, PlaceInv
  <2> QED BY <1>5, <2>2, <2>3, <2>5, <2>6, <2>7 DEF BatchRow, RealtimeInv, PlaceInv
<1>10. HowManyInFlight' = HowManyInFlight
  <2>1. Cardinality(outbox) \in Nat
    BY FS_CardinalityType DEF RealtimeInv, QueueInv
  <2> QED BY <1>2, <1>3, <1>4, <2>1 DEF HowManyInFlight, BatchRow
<1>11. AccountInv'
  BY <1>5, <1>10 DEF BatchRow, RealtimeInv, AccountInv, RowsAccounted
<1> QED BY <1>6, <1>7, <1>8, <1>9, <1>11 DEF RealtimeInv

-----------------------------------------------------------------------------
(* The upsert of a batch. *)

\* A batch has as many keys as rows, all of them closed, none given up: the
\* statement is one that the database accepts.
LEMMA BatchFacts ==
  ASSUME RealtimeInv
  PROVE  /\ IsFiniteSet(BatchKeys) /\ Cardinality(BatchKeys) = Len(batch)
         /\ BatchKeys \subseteq DOMAIN closed
         /\ BatchKeys \cap dropped = {}
         /\ \A k \in BatchKeys : \E r \in Elements(batch) : r.key = k
         /\ \A r \in Elements(batch) : r.key \in BatchKeys
<1> DEFINE f == [i \in 1 .. Len(batch) |-> batch[i].key]
<1>1. /\ Len(batch) \in Nat /\ DOMAIN batch = 1 .. Len(batch)
      /\ \A i \in 1 .. Len(batch) : batch[i] \in RowRecords /\ batch[i] \in InFlight
  BY ElementsFacts DEF RealtimeInv, QueueInv, InFlight
<1>2. /\ \A k \in BatchKeys : \E i \in 1 .. Len(batch) : k = batch[i].key
      /\ \A i \in 1 .. Len(batch) : batch[i].key \in BatchKeys
  BY <1>1 DEF BatchKeys
<1>3. f \in Surjection(1 .. Len(batch), BatchKeys)
  BY <1>2 DEF Surjection
<1>4. f \in Injection(1 .. Len(batch), BatchKeys)
  BY <1>3 DEF Surjection, Injection, IsInjective, RealtimeInv, PlaceInv
<1>5. IsFiniteSet(1 .. Len(batch)) /\ Cardinality(1 .. Len(batch)) = Len(batch)
  BY <1>1, FS_Interval
<1>6. IsFiniteSet(BatchKeys) /\ Cardinality(BatchKeys) = Len(batch)
  BY <1>3, <1>4, <1>5, FS_Surjection
<1>7. \A i \in 1 .. Len(batch) :
        batch[i].key \in DOMAIN closed /\ batch[i].key \notin dropped
  BY <1>1 DEF RealtimeInv, PlaceInv, AccountInv, RowsAccounted
<1>8. \A r \in Elements(batch) : \E i \in 1 .. Len(batch) : r = batch[i]
  BY <1>1 DEF Elements
<1>9. \A i \in 1 .. Len(batch) : batch[i] \in Elements(batch)
  BY <1>1 DEF Elements
<1> QED BY <1>2, <1>6, <1>7, <1>8, <1>9

\* The table after the statement holds the closed row of every key it has.
LEMMA UpsertedFacts ==
  ASSUME RealtimeInv, db' = db \/ db' = Upserted
  PROVE  /\ DOMAIN db' \subseteq DOMAIN db \cup BatchKeys
         /\ DOMAIN db \subseteq DOMAIN db'
         /\ db' = Upserted => BatchKeys \subseteq DOMAIN db'
         /\ \A k \in DOMAIN db' : k \in DOMAIN closed /\ db'[k] = closed[k]
<1>1. \A k \in DOMAIN db : k \in DOMAIN closed /\ db[k] = closed[k]
  BY DEF RealtimeInv, AccountInv, RowsAccounted
<1>2. CASE db' = db
  BY <1>1, <1>2 DEF Upserted
<1>3. CASE db' = Upserted
  <2>1. DOMAIN db' = DOMAIN db \cup BatchKeys
    BY <1>3 DEF Upserted
  <2>2. ASSUME NEW k \in BatchKeys
        PROVE  db'[k] = closed[k]
    <3> DEFINE i == CHOOSE i \in DOMAIN batch : batch[i].key = k
    <3>1. i \in DOMAIN batch /\ batch[i].key = k
      BY DEF BatchKeys
    <3>2. batch[i] \in InFlight
      BY <3>1 DEF InFlight, Elements
    <3>3. batch[i].row = closed[k]
      BY <3>1, <3>2 DEF RealtimeInv, AccountInv, RowsAccounted
    <3> QED BY <1>3, <3>3 DEF Upserted
  <2>3. \A k \in DOMAIN db \ BatchKeys : db'[k] = db[k]
    BY <1>3 DEF Upserted
  <2> QED BY <1>1, <2>1, <2>2, <2>3, BatchFacts
<1> QED BY <1>2, <1>3

\* An attempt that fails leaves the rows where they are; the table may hold them
\* all the same.
LEMMA RetryStep ==
  ASSUME RealtimeInv, Retry, UNCHANGED ledgerVars
  PROVE  RealtimeInv'
<1> USE DEF ledgerVars, inputVars, mainVars
<1>1. db' = db \/ db' = Upserted
  BY DEF Retry, Failed
<1>2. InFlight' = InFlight /\ HowManyInFlight' = HowManyInFlight
  BY DEF Retry, InFlight, HowManyInFlight, Elements
<1>3. EngineInv'
  BY DEF RealtimeInv, EngineInv
<1>4. QueueInv'
  BY DEF Retry, RealtimeInv, QueueInv
<1>5. ControlInv'
  BY DEF Retry, RealtimeInv, ControlInv
<1>6. PlaceInv'
  BY <1>2 DEF Retry, RealtimeInv, PlaceInv
<1>7. AccountInv'
  BY <1>1, <1>2, UpsertedFacts DEF Retry, RealtimeInv, AccountInv, RowsAccounted
<1> QED BY <1>3, <1>4, <1>5, <1>6, <1>7 DEF RealtimeInv

\* The batch is done with: its rows are in the table and counted, or given up.
LEMMA FlushDoneStep ==
  ASSUME RealtimeInv, UpsertOk \/ Drop, UNCHANGED ledgerVars
  PROVE  RealtimeInv'
<1> USE DEF ledgerVars, inputVars, mainVars
<1>1. /\ writer = "flush" /\ batch' = <<>> /\ attempt' = 1
      /\ writer' = IF closing THEN "done" ELSE "select"
      /\ UNCHANGED <<inputVars, mainVars, txDb, closing>>
  BY DEF UpsertOk, Drop, FlushDone, AfterFlush
<1>2. db' = db \/ db' = Upserted
  BY DEF UpsertOk, Drop, Failed
<1>3. batch \in Seq(RowRecords) /\ Len(batch) \in Nat
  BY LenProperties DEF RealtimeInv, QueueInv
<1>4. batch' \in Seq(RowRecords) /\ Len(batch') = 0 /\ Elements(batch') = {}
  BY <1>1, EmptySeq DEF Elements
<1>5. metrics \in [db_upserts : Nat]
  BY DEF RealtimeInv, QueueInv
<1>6. \/ /\ db' = Upserted /\ UNCHANGED dropped
         /\ metrics' \in [db_upserts : Nat]
         /\ metrics'.db_upserts = metrics.db_upserts + Len(batch)
      \/ /\ dropped' = dropped \cup BatchKeys /\ UNCHANGED metrics
  BY <1>3, <1>5 DEF UpsertOk, Drop
<1>7. EngineInv'
  BY DEF RealtimeInv, EngineInv
<1>8. QueueInv'
  <2>1. 0 < BatchSize /\ 0 <= BatchSize /\ 1 \in 1 .. Attempts
    OBVIOUS
  <2> QED BY <1>1, <1>4, <1>5, <1>6, <2>1 DEF RealtimeInv, QueueInv
<1>9. ControlInv'
  BY <1>1 DEF RealtimeInv, ControlInv
<1>10. /\ InFlight' = outbox \cup Elements(txDb)
       /\ InFlight = InFlight' \cup Elements(batch)
  BY <1>1, <1>4 DEF InFlight, Elements
<1>11. \A r \in InFlight' : r.key \notin BatchKeys
  <2>1. \A r \in Elements(txDb) : \E i \in 1 .. Len(txDb) : r = txDb[i]
    BY ElementsFacts DEF RealtimeInv, QueueInv
  <2>2. \A k \in BatchKeys : \E i \in 1 .. Len(batch) : k = batch[i].key
    BY <1>3, LenProperties DEF BatchKeys
  <2> QED BY <1>10, <2>1, <2>2 DEF RealtimeInv, PlaceInv
<1>12. PlaceInv'
  BY <1>1, <1>4, <1>6, <1>10, <1>11 DEF RealtimeInv, PlaceInv
<1>13. /\ dropped' \subseteq DOMAIN closed'
       /\ Cardinality(dropped') \in Nat /\ Cardinality(dropped) \in Nat
       /\ dropped' = dropped \cup BatchKeys =>
            Cardinality(dropped') = Cardinality(dropped) + Len(batch)
  <2>1. dropped \subseteq DOMAIN closed /\ IsFiniteSet(dropped)
    BY FS_Subset DEF RealtimeInv, EngineInv, AccountInv
  <2>2. IsFiniteSet(dropped \cup BatchKeys)
        /\ Cardinality(dropped \cup BatchKeys) = Cardinality(dropped) + Len(batch)
    <3>1. dropped \cap BatchKeys = {} /\ Cardinality({}) = 0
      BY BatchFacts, FS_EmptySet
    <3>2. IsFiniteSet(BatchKeys) /\ Cardinality(BatchKeys) = Len(batch)
      BY BatchFacts
    <3>3. /\ IsFiniteSet(dropped \cup BatchKeys)
          /\ Cardinality(dropped \cup BatchKeys)
               = Cardinality(dropped) + Cardinality(BatchKeys) - Cardinality(dropped \cap BatchKeys)
      BY <2>1, <3>2, FS_Union
    <3>4. Cardinality(dropped) \in Nat
      BY <2>1, FS_CardinalityType
    <3>5. Cardinality(dropped \cap BatchKeys) = 0
      BY <3>1
    <3> QED BY <1>3, <3>2, <3>3, <3>4, <3>5
  <2> QED BY <1>6, <2>1, <2>2, BatchFacts, FS_CardinalityType
<1>14. HowManyInFlight' + metrics'.db_upserts + Cardinality(dropped')
         = HowManyInFlight + metrics.db_upserts + Cardinality(dropped)
  <2>1. Cardinality(outbox) \in Nat /\ Len(txDb) \in Nat
    BY FS_CardinalityType, LenProperties DEF RealtimeInv, QueueInv
  <2>2. /\ HowManyInFlight = Cardinality(outbox) + Len(txDb) + Len(batch)
        /\ HowManyInFlight' = Cardinality(outbox) + Len(txDb)
    BY <1>1, <1>4, <2>1 DEF HowManyInFlight
  <2>3. /\ metrics.db_upserts \in Nat
        /\ \/ /\ Cardinality(dropped') = Cardinality(dropped)
              /\ metrics'.db_upserts = metrics.db_upserts + Len(batch)
           \/ /\ metrics'.db_upserts = metrics.db_upserts
              /\ Cardinality(dropped') = Cardinality(dropped) + Len(batch)
    BY <1>5, <1>6, <1>13
  <2> QED BY <1>3, <1>13, <2>1, <2>2, <2>3, SMTT(30)
<1>15. \A k \in DOMAIN closed' : (\E r \in InFlight' : r.key = k) \/ k \in DOMAIN db' \cup dropped'
  <2>1. \A k \in DOMAIN closed : (\E r \in InFlight : r.key = k) \/ k \in DOMAIN db \cup dropped
    BY DEF RealtimeInv, AccountInv, RowsAccounted
  <2>2. \A r \in Elements(batch) : r.key \in DOMAIN db' \cup dropped'
    BY <1>6, <1>2, BatchFacts, UpsertedFacts
  <2>3. DOMAIN db \cup dropped \subseteq DOMAIN db' \cup dropped'
    BY <1>6, <1>2, UpsertedFacts
  <2> QED BY <1>10, <2>1, <2>2, <2>3
<1>16. AccountInv'
  <2>1. \A r \in InFlight' : r.key \in DOMAIN closed' /\ r.row = closed'[r.key]
    BY <1>10 DEF RealtimeInv, AccountInv, RowsAccounted
  <2>2. \A k \in DOMAIN db' : k \in DOMAIN closed' /\ db'[k] = closed'[k]
    BY <1>2, UpsertedFacts
  <2>3. HowManyInFlight' + metrics'.db_upserts + Cardinality(dropped') = Cardinality(DOMAIN closed')
    BY <1>14 DEF RealtimeInv, AccountInv, RowsAccounted
  <2> QED BY <1>13, <1>15, <2>1, <2>2, <2>3 DEF AccountInv, RowsAccounted
<1> QED BY <1>7, <1>8, <1>9, <1>12, <1>16 DEF RealtimeInv

-----------------------------------------------------------------------------
(* The engine's calls. *)

\* Each of the loop's calls is a call of the engine on writable rows, and hands
\* out the rows it closes.
LEMMA EngineStepFacts ==
  ASSUME RealtimeInv, ProcessEvent \/ DrainTick \/ FinishEngine
  PROVE  /\ main = "select" /\ frontier' \in Times
         /\ \E o : Writable(o) /\ CloseUpTo(o)
         /\ outbox' = Returned
         /\ UNCHANGED <<ctrlC, txDb, writerVars>>
<1> USE DEF inputVars
<1>1. EngineInv /\ rxIn \in Seq(BlockKeys)
  BY DEF RealtimeInv, QueueInv
<1>2. Writable(open)
  BY <1>1 DEF EngineInv, Writable
<1>3. LastTime \in Times
  BY DEF Times
<1>4. CASE ProcessEvent
  <2>1. PICK o \in Ingested(Head(rxIn)), f \in Times : frontier' = f /\ CloseUpTo(o)
    BY <1>4 DEF ProcessEvent
  <2>2. Head(rxIn) \in BlockKeys
    BY <1>1, <1>4, HeadTailProperties DEF ProcessEvent
  <2>3. Writable(o)
    BY <1>1, <2>2, IngestedWritable
  <2> QED BY <1>4, <2>1, <2>3 DEF ProcessEvent, TakeEvent, Return
<1>5. CASE DrainTick
  BY <1>2, <1>5 DEF DrainTick, TakeTick, Return
<1>6. CASE FinishEngine
  BY <1>2, <1>3, <1>6 DEF FinishEngine, LeaveLoop
<1> QED BY <1>4, <1>5, <1>6

\* The modes of the loop around a call.
LEMMA EngineStepControl ==
  ASSUME RealtimeInv,
         ProcessEvent \/ DrainTick \/ TakeCtrlC \/ InputClosed
  PROVE  /\ ControlInv'
         /\ rxIn' \in Seq(BlockKeys) /\ Len(rxIn') <= ChanCap
<1> USE DEF inputVars, writerVars
<1>1. rxIn \in Seq(BlockKeys) /\ Len(rxIn) <= ChanCap
  BY DEF RealtimeInv, QueueInv
<1>2. CASE ProcessEvent
  <2>1. /\ main = "select" /\ rxIn # <<>> /\ rxIn' = Tail(rxIn)
        /\ main' = IF outbox' = {} THEN "select" ELSE "send"
        /\ UNCHANGED <<receiver, ctrlC, finishing, txDbOpen, txDb, writerVars>>
    BY <1>2 DEF ProcessEvent, TakeEvent, Return
  <2>2. rxIn' \in Seq(BlockKeys) /\ Len(rxIn') = Len(rxIn) - 1 /\ Len(rxIn) \in Nat
    BY <1>1, <2>1, HeadTailProperties, LenProperties
  <2> QED BY <1>1, <2>1, <2>2 DEF RealtimeInv, ControlInv
<1>3. CASE DrainTick
  <2>1. /\ main = "select"
        /\ main' = IF outbox' = {} THEN "select" ELSE "send"
        /\ UNCHANGED <<inputVars, finishing, txDbOpen, txDb, writerVars>>
    BY <1>3 DEF DrainTick, TakeTick, Return
  <2> QED BY <1>1, <2>1 DEF RealtimeInv, ControlInv
<1>4. CASE TakeCtrlC \/ InputClosed
  <2>1. /\ main = "select" /\ receiver' = "ended" /\ finishing' = TRUE
        /\ main' = IF outbox' = {} THEN "join" ELSE "send"
        /\ txDbOpen' = (main' # "join")
        /\ UNCHANGED <<rxIn, ctrlC, txDb, writerVars>>
    BY <1>4 DEF TakeCtrlC, InputClosed, FinishEngine, LeaveLoop, SenderKept
  <2>2. ctrlC \/ rxIn = <<>>
    BY <1>4 DEF TakeCtrlC, InputClosed
  <2>3. DOMAIN open' = {}
    <3>1. frontier' = LastTime /\ CloseUpTo(open)
      BY <1>4 DEF TakeCtrlC, InputClosed, FinishEngine
    <3>2. \A k \in DOMAIN open : EndOf(k) \in Start + 1 .. LastTime
      BY DEF RealtimeInv, EngineInv
    <3>3. ASSUME NEW k \in DOMAIN open
          PROVE  ~(EndOf(k) > LastTime)
      <4> DEFINE e == EndOf(k)
      <4>1. e \in Start + 1 .. LastTime
        BY <3>2
      <4> HIDE DEF e
      <4>2. ~(e > LastTime)
        BY <4>1
      <4> QED BY <4>2 DEF e
    <3> QED BY <3>1, <3>3 DEF CloseUpTo
  <2> QED BY <1>1, <2>1, <2>2, <2>3 DEF RealtimeInv, ControlInv
<1> QED BY <1>2, <1>3, <1>4

LEMMA EngineStep ==
  ASSUME RealtimeInv,
         ProcessEvent \/ DrainTick \/ TakeCtrlC \/ InputClosed
  PROVE  RealtimeInv'
<1> USE DEF writerVars
<1>1. /\ main = "select" /\ outbox' = Returned /\ UNCHANGED <<ctrlC, txDb, writerVars>>
      /\ frontier' \in Times
  BY EngineStepFacts DEF TakeCtrlC, InputClosed
<1>2. PICK o : Writable(o) /\ CloseUpTo(o)
  BY EngineStepFacts DEF TakeCtrlC, InputClosed
<1>3. EngineInv
  BY DEF RealtimeInv
<1>4. /\ EngineInv' /\ DOMAIN closed \subseteq DOMAIN closed'
      /\ \A k \in DOMAIN closed : closed'[k] = closed[k]
  BY <1>1, <1>2, <1>3, CallFacts
<1>5. /\ outbox' \subseteq RowRecords /\ IsFiniteSet(outbox')
      /\ Cardinality(DOMAIN closed') = Cardinality(DOMAIN closed) + Cardinality(outbox')
      /\ \A r \in outbox' : r.key \in DOMAIN closed' \ DOMAIN closed /\ r.row = closed'[r.key]
      /\ \A k \in DOMAIN closed' \ DOMAIN closed : \E r \in outbox' : r.key = k
  BY <1>1, <1>3, <1>4, ReturnedFacts
<1>6. outbox = {}
  BY <1>1 DEF RealtimeInv, ControlInv
<1>7. InFlight' = outbox' \cup InFlight
  BY <1>1, <1>6 DEF InFlight, Elements
<1>8. QueueInv'
  BY <1>1, <1>5, EngineStepControl DEF RealtimeInv, QueueInv
<1>9. \A r \in InFlight : r.key \in DOMAIN closed /\ r.row = closed[r.key]
  BY DEF RealtimeInv, AccountInv, RowsAccounted
<1>10. PlaceInv'
  <2>1. /\ \A i \in 1 .. Len(txDb) : txDb[i].key \in DOMAIN closed
        /\ \A i \in 1 .. Len(batch) : batch[i].key \in DOMAIN closed
    BY <1>9, ElementsFacts DEF InFlight, RealtimeInv, QueueInv
  <2>2. \A r \in InFlight' : r.key \notin dropped
    BY <1>5, <1>7 DEF RealtimeInv, PlaceInv, AccountInv
  <2> QED BY <1>1, <1>5, <2>1, <2>2 DEF RealtimeInv, PlaceInv
<1>11. AccountInv'
  <2>1. HowManyInFlight' = HowManyInFlight + Cardinality(outbox')
    <3>1. Cardinality(outbox) = 0 /\ Cardinality(outbox') \in Nat
      BY <1>5, <1>6, FS_EmptySet, FS_CardinalityType
    <3>2. Len(txDb) \in Nat /\ Len(batch) \in Nat
      BY LenProperties DEF RealtimeInv, QueueInv
    <3> QED BY <1>1, <3>1, <3>2 DEF HowManyInFlight
  <2>2. HowManyInFlight' + metrics'.db_upserts + Cardinality(dropped') = Cardinality(DOMAIN closed')
    <3>1. HowManyInFlight + metrics.db_upserts + Cardinality(dropped) = Cardinality(DOMAIN closed)
      BY DEF RealtimeInv, AccountInv, RowsAccounted
    <3>2. /\ HowManyInFlight \in Nat /\ metrics.db_upserts \in Nat
          /\ Cardinality(dropped) \in Nat /\ Cardinality(outbox') \in Nat
      <4>1. IsFiniteSet(dropped) /\ IsFiniteSet(outbox)
        BY FS_Subset DEF RealtimeInv, AccountInv, EngineInv, QueueInv
      <4>2. Cardinality(outbox) \in Nat /\ Len(txDb) \in Nat /\ Len(batch) \in Nat
        BY <4>1, LenProperties, FS_CardinalityType DEF RealtimeInv, QueueInv
      <4> QED BY <1>5, <4>1, <4>2, FS_CardinalityType DEF HowManyInFlight, RealtimeInv, QueueInv
    <3> QED BY <1>1, <1>5, <2>1, <3>1, <3>2
  <2>3. \A r \in InFlight' : r.key \in DOMAIN closed' /\ r.row = closed'[r.key]
    BY <1>4, <1>5, <1>7, <1>9
  <2>4. \A k \in DOMAIN closed' : (\E r \in InFlight' : r.key = k) \/ k \in DOMAIN db' \cup dropped'
    BY <1>1, <1>5, <1>7 DEF RealtimeInv, AccountInv, RowsAccounted
  <2>5. \A k \in DOMAIN db' : k \in DOMAIN closed' /\ db'[k] = closed'[k]
    BY <1>1, <1>4 DEF RealtimeInv, AccountInv, RowsAccounted
  <2>6. dropped' \subseteq DOMAIN closed'
    BY <1>1, <1>4 DEF RealtimeInv, AccountInv
  <2> QED BY <2>2, <2>3, <2>4, <2>5, <2>6 DEF AccountInv, RowsAccounted
<1> QED BY <1>4, <1>8, <1>10, <1>11, EngineStepControl DEF RealtimeInv

-----------------------------------------------------------------------------
(* The theorems. *)

LEMMA RealtimeInvInit == RealtimeInit => RealtimeInv
<1> SUFFICES ASSUME RealtimeInit PROVE RealtimeInv
  OBVIOUS
<1> USE DEF RealtimeInit, LedgerInit, TasksInit, TasksIdle
<1>1. DOMAIN open = {} /\ DOMAIN closed = {} /\ DOMAIN db = {} /\ Start \in Times
  BY DEF Times
<1>2. InFlight = {}
  BY DEF InFlight, Elements
<1>3. IsFiniteSet({}) /\ Cardinality({}) = 0
  BY FS_EmptySet
<1>4. EngineInv
  BY <1>1, <1>3 DEF EngineInv
<1>5. QueueInv
  BY <1>3, EmptySeq DEF QueueInv
<1>6. ControlInv
  BY DEF ControlInv
<1>7. PlaceInv
  BY <1>2 DEF PlaceInv
<1>8. AccountInv
  BY <1>1, <1>2, <1>3 DEF AccountInv, RowsAccounted, HowManyInFlight
<1> QED BY <1>4, <1>5, <1>6, <1>7, <1>8 DEF RealtimeInv

LEMMA RealtimeInvStep == RealtimeInv /\ [RealtimeNext]_vars => RealtimeInv'
<1> SUFFICES ASSUME RealtimeInv, [RealtimeNext]_vars PROVE RealtimeInv'
  OBVIOUS
<1>1. CASE \/ Receive \/ ReceiverEnds \/ (PressCtrlC /\ UNCHANGED ledgerVars)
           \/ UNCHANGED vars
  BY <1>1, OutsideStep
<1>2. CASE MainStep
  <2>1. CASE ProcessEvent \/ DrainTick \/ TakeCtrlC \/ InputClosed
    BY <2>1, EngineStep
  <2>2. CASE Send /\ UNCHANGED ledgerVars
    BY <2>2, SendStep
  <2>3. CASE JoinWriter /\ UNCHANGED ledgerVars
    BY <2>3, OutsideStep
  <2> QED BY <1>2, <2>1, <2>2, <2>3 DEF MainStep
<1>3. CASE WriterTask
  <2>1. CASE BatchTick \/ ChannelClosed \/ Wake
    BY <1>3, <2>1, WriterModeStep DEF WriterTask
  <2>2. CASE BatchRow
    BY <1>3, <2>2, BatchRowStep DEF WriterTask
  <2>3. CASE UpsertOk \/ Drop
    BY <1>3, <2>3, FlushDoneStep DEF WriterTask
  <2>4. CASE Retry
    BY <1>3, <2>4, RetryStep DEF WriterTask
  <2> QED BY <1>3, <2>1, <2>2, <2>3, <2>4 DEF WriterTask, WriterStep
<1> QED BY <1>1, <1>2, <1>3 DEF RealtimeNext

\* The parts of the invariant hold in every state the realtime mode reaches.
LEMMA RealtimeInvariance == RealtimeSpec => []RealtimeInv
  BY RealtimeInvInit, RealtimeInvStep, PTL DEF RealtimeSpec

\* Types and bounds: no channel holds more than its capacity, and no batch more
\* than its size, whatever these are; a flush has rows to send.
THEOREM RealtimeTypes == RealtimeSpec => []RealtimeTypeOK
<1>1. RealtimeInv => RealtimeTypeOK
  <2> SUFFICES ASSUME RealtimeInv PROVE RealtimeTypeOK
    OBVIOUS
  <2>1. InFlight \subseteq RowRecords
    BY ElementsFacts DEF InFlight, Elements, RealtimeInv, QueueInv
  <2>2. /\ txDb \in Seq(RowRecords) /\ batch \in Seq(RowRecords)
        /\ metrics.db_upserts \in Nat
    BY DEF RealtimeInv, QueueInv
  <2> QED BY <2>1, <2>2 DEF RealtimeTypeOK, RealtimeInv, EngineInv, QueueInv, ControlInv, RowRecords
<1> QED BY <1>1, RealtimeInvariance, PTL

\* No row is lost, sent twice or counted twice between the engine and the table,
\* however the two tasks interleave and the database fails (app.rs, run_realtime
\* and db_writer); so no batch holds a key twice.
THEOREM RowsAreAccounted == RealtimeSpec => []RowsAccounted
<1>1. RealtimeInv => RowsAccounted
  BY DEF RealtimeInv, AccountInv
<1> QED BY <1>1, RealtimeInvariance, PTL

\* The statement the writer sends is one that the database accepts: the rows of
\* a batch have different keys, so UpsertOk is never held back by Insertable.
THEOREM BatchesInsertable == RealtimeSpec => []Insertable
<1>1. RealtimeInv => Insertable
  BY BatchFacts DEF Insertable
<1> QED BY <1>1, RealtimeInvariance, PTL

\* A shutdown leaves no block in the engine and no row on its way: each row the
\* engine returned is in the table or was given up.
THEOREM ShutdownIsClean == RealtimeSpec => []ShutdownDrains
<1>1. RealtimeInv => ShutdownDrains
  <2> SUFFICES ASSUME RealtimeInv, main = "done" PROVE ShutdownDrains
    BY DEF ShutdownDrains
  <2>1. /\ writer = "done" /\ finishing /\ outbox = {} /\ txDb = <<>> /\ batch = <<>>
        /\ DOMAIN open = {}
        /\ ctrlC \/ rxIn = <<>>
    BY DEF RealtimeInv, ControlInv
  <2>2. InFlight = {}
    BY <2>1 DEF InFlight, Elements
  <2>3. DOMAIN closed = DOMAIN db \cup dropped
    BY <2>2 DEF RealtimeInv, AccountInv, RowsAccounted
  <2> QED BY <2>1, <2>2, <2>3 DEF ShutdownDrains
<1> QED BY <1>1, RealtimeInvariance, PTL

-----------------------------------------------------------------------------
\* A row in the table is never replaced by another one: repeated attempts and
\* later batches write what is there already, or other keys.
THEOREM StoredRowsFinal ==
  RealtimeSpec => [][\A k \in DOMAIN db : k \in DOMAIN db' /\ db'[k] = db[k]]_vars
<1>1. ASSUME RealtimeInv, RealtimeInv', [RealtimeNext]_vars
      PROVE  \A k \in DOMAIN db : k \in DOMAIN db' /\ db'[k] = db[k]
  <2>1. db' = db \/ (db' = Upserted /\ closed' = closed)
    <3>1. CASE WriterTask
      BY <3>1 DEF WriterTask, WriterStep, BatchRow, BatchTick, ChannelClosed,
                  UpsertOk, Retry, Drop, Wake, Failed, ledgerVars
    <3>2. CASE ~WriterTask
      BY <1>1, <3>2, EngineStepFacts
         DEF RealtimeNext, Receive, ReceiverEnds, PressCtrlC, MainStep, TakeCtrlC,
             InputClosed, Send, JoinWriter, writerVars, taskVars, vars
    <3> QED BY <3>1, <3>2
  <2>2. \A k \in DOMAIN db : db[k] = closed[k]
    BY <1>1 DEF RealtimeInv, AccountInv, RowsAccounted
  <2> QED BY <1>1, <2>1, <2>2, UpsertedFacts
<1>2. RealtimeInv /\ RealtimeInv' /\ [RealtimeNext]_vars =>
        [\A k \in DOMAIN db : k \in DOMAIN db' /\ db'[k] = db[k]]_vars
  BY <1>1
<1> QED BY <1>2, RealtimeInvariance, PTL DEF RealtimeSpec
=============================================================================
