--------------------------- MODULE PipelineProofs ---------------------------
(***************************************************************************)
(* Theorems about the realtime mode as a whole for every sequence of       *)
(* messages and records, every setting of the engine, the channels, the    *)
(* batches and the delays, and any number of failures and deaths.          *)
(***************************************************************************)
EXTENDS PipelineProperties, EngineLemmas, SequenceTheorems, FiniteSetTheorems

USE TsRangeAssumption, TtlAssumption, BlockAssumption, AircraftAssumption

-----------------------------------------------------------------------------
(* The inductive invariant, in parts. *)

Messages == DOMAIN Header

\* The records that messages have.
Slots == {x \in Messages \X Nat : x[2] \in DOMAIN Content[x[1]]}

\* Whatever is on its way, from the broker to the engine, has been published.
ArrivalsInv ==
  /\ published \in Nat
  /\ queue \in Seq(Messages) /\ unacked \in Seq(Messages) /\ orphaned \in Seq(Messages)
  /\ inbox \in Seq(Messages)
  /\ index \in Nat \ {0}
  /\ pc = "push" => current \in Messages
  /\ rxIn \in Seq(Slots)

\* The filter remembers an accepted event until its time to live is confirmed.
Remembers(ev) == <<ev.ts + Ttl, ev.frame>> \in expiry \/ ev.ts + Ttl <= confirmed

AcceptedInv ==
  /\ accepted \in Seq(Slots)
  /\ Ttl > 0 => RedeliveryFiltered
  /\ ~finished => \A i \in DOMAIN accepted : Remembers(EventOf(accepted[i]))

\* The rows that have been returned are those of blocks that have ended.
ReturnedInv ==
  \A k \in DOMAIN returned \cup DOMAIN out : k \in Keys /\ KeyEnd(k) <= confirmed

\* What an aircraft's state holds is what some frame had.
StateInv(st) ==
  /\ st = [even |-> st.even, odd |-> st.odd, call_sign |-> st.call_sign,
           squawk |-> st.squawk, alt |-> st.alt]
  /\ st.even # None => st.even.pos \in Positions
  /\ st.odd # None => st.odd.pos \in Positions
  /\ st.call_sign = [confirmed |-> st.call_sign.confirmed, candidate |-> st.call_sign.candidate]
  /\ st.squawk = [confirmed |-> st.squawk.confirmed, candidate |-> st.squawk.candidate]
  /\ st.call_sign.confirmed \in CallSigns
  /\ st.squawk.confirmed \in Squawks
  /\ st.alt \in Altitudes

AircraftInv == \A a \in Icaos : StateInv(aircraft[a])

PipelineInv == ArrivalsInv /\ EngineInv /\ AcceptedInv /\ ReturnedInv /\ AircraftInv

-----------------------------------------------------------------------------
(* What arrives. *)

\* Removing an element of a sequence leaves a sequence of its elements.
LEMMA RemoveFirstType ==
  ASSUME NEW S, NEW s \in Seq(S), NEW e
  PROVE  Receiver!RemoveFirst(s, e) \in Seq(S)
<1>1. CASE ~\E i \in 1 .. Len(s) : s[i] = e
  BY <1>1 DEF Receiver!RemoveFirst
<1>2. CASE \E i \in 1 .. Len(s) : s[i] = e
  <2> DEFINE I == {i \in 1 .. Len(s) : s[i] = e}
             n == Receiver!SelectInSeq(s, LAMBDA v : v = e)
  <2>1. I \in SUBSET Nat /\ I # {}
    BY <1>2
  <2>2. PICK m \in I : \A j \in I : m <= j
    BY <2>1, LeastNat
  <2>3. Receiver!Min(I) \in I
    BY <2>2 DEF Receiver!Min
  <2>4. n = Receiver!Min(I)
    BY <2>1 DEF Receiver!SelectInSeq
  <2>5. n \in 1 .. Len(s) /\ Len(s) \in Nat
    BY <2>3, <2>4, LenProperties
  <2>6. Receiver!RemoveFirst(s, e) = Receiver!RemoveAt(s, n)
    BY <1>2 DEF Receiver!RemoveFirst
  <2> HIDE DEF n, I
  <2>7. Receiver!RemoveAt(s, n) = SubSeq(s, 1, n - 1) \o SubSeq(s, n + 1, Len(s))
    BY DEF Receiver!RemoveAt
  <2>8. SubSeq(s, 1, n - 1) \in Seq(S) /\ SubSeq(s, n + 1, Len(s)) \in Seq(S)
    BY <2>5, SubSeqProperties
  <2> QED BY <2>6, <2>7, <2>8, ConcatProperties
<1> QED BY <1>1, <1>2

\* The message published next is one of them.
LEMMA NextPublished ==
  ASSUME published \in Nat, published < Receiver!Cardinality(Receiver!Messages)
  PROVE  published + 1 \in Messages
<1>1. Messages = 1 .. Len(Header) /\ Len(Header) \in Nat
  BY LenProperties, ContentAssumption DEF Messages, Receiver!ReceiverAssumption
<1>2. Cardinality(1 .. Len(Header)) = Len(Header)
  <2>1. 1 \in Int /\ Len(Header) \in Int
    BY <1>1
  <2>2. Cardinality(1 .. Len(Header)) = IF 1 > Len(Header) THEN 0 ELSE Len(Header) - 1 + 1
    BY <2>1, FS_Interval, Zenon
  <2> QED BY <1>1, <2>2
<1>3. Receiver!Cardinality(1 .. Len(Header)) = Cardinality(1 .. Len(Header))
  BY DEF Receiver!Cardinality, Cardinality
<1> QED BY <1>1, <1>2, <1>3 DEF Messages, Receiver!Messages

\* A record that is pushed is one of its message's.
LEMMA PushedSlot ==
  ASSUME ArrivalsInv, Receiver!AtRecord("ok")
  PROVE  <<current, index>> \in Slots
<1>1. /\ pc = "push" /\ current \in Messages /\ index \in Nat \ {0}
      /\ index <= Len(Records[current])
  BY DEF ArrivalsInv, Receiver!AtRecord
<1>2. Records[current] \in Seq({"ok", "short"})
  BY <1>1, ContentAssumption DEF Messages, Receiver!ReceiverAssumption
<1>3. index \in DOMAIN Records[current]
  BY <1>1, <1>2, LenProperties
<1>4. DOMAIN Content[current] = DOMAIN Records[current]
  BY <1>1, ContentAssumption DEF Messages
<1> QED BY <1>1, <1>3, <1>4 DEF Slots

\* What the records carry are events of declared sensors.
LEMMA SlotEvent ==
  ASSUME NEW x \in Slots
  PROVE  EventOf(x) \in Events
  BY ContentAssumption DEF Slots, Messages, EventOf

\* The receiver passes on what the broker has delivered.
LEMMA ArrivalsOfReceiver ==
  ASSUME ArrivalsInv, Receiver!ReceiverStep
  PROVE  ArrivalsInv'
<1> USE DEF ArrivalsInv, Receiver!brokerVars, Receiver!linkVars, Receiver!taskVars,
            Receiver!channelVars, Receiver!countVars
<1>1. CASE Receiver!Connect
  BY <1>1, EmptySeq DEF Receiver!Connect
<1>2. CASE Receiver!ConnectFails \/ Receiver!ConnectionLost \/ Receiver!Wake
  BY <1>2 DEF Receiver!ConnectFails, Receiver!ConnectionLost, Receiver!SessionEnds, Receiver!Wake
<1>3. CASE Receiver!RejectMessage
  <2>1. Tail(inbox) \in Seq(Messages)
    BY <1>3, HeadTailProperties DEF Receiver!RejectMessage, Receiver!Take
  <2> QED BY <1>3, <2>1 DEF Receiver!RejectMessage, Receiver!Take
<1>4. CASE Receiver!AcceptMessage
  <2>1. Tail(inbox) \in Seq(Messages) /\ Head(inbox) \in Messages
    BY <1>4, HeadTailProperties DEF Receiver!AcceptMessage, Receiver!Take
  <2> QED BY <1>4, <2>1 DEF Receiver!AcceptMessage, Receiver!Take
<1>5. CASE Receiver!PushRecord
  <2>1. <<current, index>> \in Slots
    BY <1>5, PushedSlot DEF Receiver!PushRecord
  <2>2. Append(rxIn, <<current, index>>) \in Seq(Slots)
    BY <2>1, AppendProperties
  <2> QED BY <1>5, <2>2 DEF Receiver!PushRecord
<1>6. CASE Receiver!SkipRecord
  BY <1>6 DEF Receiver!SkipRecord, Receiver!AfterReject
<1>7. CASE Receiver!InputClosed
  <2>1. orphaned \o unacked \in Seq(Messages)
    BY ConcatProperties
  <2> QED BY <1>7, <2>1, EmptySeq DEF Receiver!InputClosed, Receiver!TaskGone, Receiver!Disconnect
<1>8. CASE Receiver!MessageDone
  BY <1>8 DEF Receiver!MessageDone
<1> QED
  BY <1>1, <1>2, <1>3, <1>4, <1>5, <1>6, <1>7, <1>8 DEF Receiver!ReceiverStep

\* The broker holds what has been published.
LEMMA ArrivalsOfBroker ==
  ASSUME ArrivalsInv,
         \/ Receiver!BrokerStep \/ Receiver!Publish \/ Receiver!LoseConnection
  PROVE  ArrivalsInv'
<1> USE DEF ArrivalsInv, Receiver!brokerVars, Receiver!linkVars, Receiver!taskVars,
            Receiver!channelVars, Receiver!countVars
<1>1. CASE Receiver!Deliver
  <2>1. Tail(queue) \in Seq(Messages) /\ Head(queue) \in Messages
    BY <1>1, HeadTailProperties DEF Receiver!Deliver
  <2>2. /\ Append(unacked, Head(queue)) \in Seq(Messages)
        /\ Append(inbox, Head(queue)) \in Seq(Messages)
    BY <2>1, AppendProperties
  <2> QED BY <1>1, <2>1, <2>2 DEF Receiver!Deliver
<1>2. CASE Receiver!AckArrives
  <2>1. Receiver!RemoveFirst(unacked, Head(acks)) \in Seq(Messages)
    BY RemoveFirstType
  <2> QED BY <1>2, <2>1 DEF Receiver!AckArrives
<1>3. CASE Receiver!Requeue
  <2>1. orphaned \o queue \in Seq(Messages)
    BY ConcatProperties
  <2> QED BY <1>3, <2>1, EmptySeq DEF Receiver!Requeue
<1>4. CASE Receiver!Publish
  <2>1. published + 1 \in Messages
    BY <1>4, NextPublished DEF Receiver!Publish
  <2>2. Append(queue, published + 1) \in Seq(Messages)
    BY <2>1, AppendProperties
  <2> QED BY <1>4, <2>2 DEF Receiver!Publish
<1>5. CASE Receiver!LoseConnection
  <2>1. orphaned \o unacked \in Seq(Messages)
    BY ConcatProperties
  <2>2. ASSUME NEW n \in 0 .. Len(inbox)
        PROVE  SubSeq(inbox, 1, n) \in Seq(Messages)
    BY SubSeqProperties, LenProperties
  <2> QED BY <1>5, <2>1, <2>2, EmptySeq DEF Receiver!LoseConnection, Receiver!Disconnect
<1> QED BY <1>1, <1>2, <1>3, <1>4, <1>5 DEF Receiver!BrokerStep

\* The parts of the program that only take part in a step.
LEMMA ArrivalsOfLoop ==
  ASSUME ArrivalsInv, HandleEvent \/ HandleTick \/ HandleCtrlC
  PROVE  ArrivalsInv'
<1> USE DEF ArrivalsInv, receiverVars, brokerVars
<1>1. CASE HandleEvent
  <2>1. Tail(rxIn) \in Seq(Slots)
    BY <1>1, HeadTailProperties DEF HandleEvent
  <2> QED BY <1>1, <2>1 DEF HandleEvent, TakeEvent
<1>2. CASE HandleTick
  BY <1>2 DEF HandleTick, TakeTick, inputVars
<1>3. CASE HandleCtrlC
  <2>1. orphaned \o unacked \in Seq(Messages)
    BY ConcatProperties
  <2> QED BY <1>3, <2>1, EmptySeq DEF HandleCtrlC, LeaveLoop, Receiver!Abort, Receiver!TaskGone,
                             Receiver!Disconnect, Receiver!channelVars
<1> QED BY <1>1, <1>2, <1>3

\* ArrivalsInv is inductive.
LEMMA ArrivalsStep ==
  ASSUME ArrivalsInv, [PipelineNext]_pipelineVars
  PROVE  ArrivalsInv'
<1>1. CASE ReceiverTask
  BY <1>1, ArrivalsOfReceiver DEF ReceiverTask
<1>2. CASE Broker \/ World
  BY <1>2, ArrivalsOfBroker DEF Broker, World
<1>3. CASE HandleEvent \/ HandleTick \/ HandleCtrlC
  BY <1>3, ArrivalsOfLoop
<1>4. CASE SendRows \/ WriterTask \/ CtrlC \/ EndInOrder
  BY <1>4 DEF ArrivalsInv, receiverVars, brokerVars, inputVars, mainVars,
       SendRows, Send, WriterTask, WriterStep, BatchRow, BatchTick, ChannelClosed, UpsertOk,
       Retry, Drop, Wake, FlushDone, CtrlC, PressCtrlC, EndInOrder, JoinWriter
<1>5. CASE Restart
  <2>1. orphaned \o unacked \in Seq(Messages)
    BY ConcatProperties DEF ArrivalsInv
  <2> QED BY <1>5, <2>1, EmptySeq DEF ArrivalsInv, Restart, FreshTasks, FreshReceiver,
                                   Receiver!Disconnect
<1>6. CASE UNCHANGED pipelineVars
  BY <1>6 DEF ArrivalsInv, pipelineVars, receiverVars, brokerVars, taskVars, inputVars
<1> QED BY <1>1, <1>2, <1>3, <1>4, <1>5, <1>6 DEF PipelineNext

-----------------------------------------------------------------------------
(* The engine. *)

\* A call leaves pending what of b ends after the confirmed time, and returns
\* the rest.
Closes(b) ==
  /\ confirmed' \in Ts /\ confirmed' >= confirmed
  /\ PendingOK(b, confirmed)
  /\ blocks' = Beyond(b, confirmed')
  /\ out' = UpTo(b, confirmed')

\* What the filter remembers it forgets only when it is confirmed.
Forgets == \A x \in expiry \ expiry' : x[1] <= confirmed'

\* A late event leaves the engine as it is.
LEMMA LateCall ==
  ASSUME EngineInv, NEW ev \in Events, DropLate(ev)
  PROVE  EngineInv' /\ Closes(blocks) /\ Forgets
<1>1. /\ ~finished /\ out' = NoRows
      /\ UNCHANGED <<latest, watermark, seen, expiry, blocks, aircraft, confirmed, finished>>
  BY DEF DropLate
<1>2. confirmed \in Ts /\ confirmed \in Int /\ PendingOK(blocks, confirmed)
  BY <1>1 DEF EngineInv, Ts
<1>3. {x \in DOMAIN blocks : KeyEnd(x) > confirmed} = DOMAIN blocks
  BY <1>2 DEF PendingOK
<1>4. {x \in DOMAIN blocks : KeyEnd(x) <= confirmed} = {}
  <2>1. \A x \in DOMAIN blocks : KeyEnd(x) \in Int
    BY <1>2, KeyEndType DEF PendingOK, WellFiled, Ts
  <2> QED BY <1>2, <2>1 DEF PendingOK
<1>5. blocks = Beyond(blocks, confirmed)
  BY <1>2, <1>3 DEF Beyond, PendingOK
<1>6. NoRows = UpTo(blocks, confirmed)
  BY <1>4 DEF UpTo, NoRows
<1>7. Closes(blocks)
  BY <1>1, <1>2, <1>5, <1>6 DEF Closes
<1>8. WellFiled(NoRows)
  BY DEF WellFiled, NoRows
<1> QED BY <1>1, <1>7, <1>8 DEF EngineInv, Forgets, PendingOK, MemoryOK, Lag

\* A first copy writes the block of its record, if it gives one.
LEMMA FirstCloses ==
  ASSUME EngineInv, NEW ev \in Events, ProcessFirst(ev)
  PROVE  /\ EngineInv' /\ Forgets /\ confirmed <= ev.ts
         /\ Closes(BlocksWith(ProcessRecords(ev)))
         /\ <<ev.ts + Ttl, ev.frame>> \in expiry' \/ ev.ts + Ttl <= confirmed'
<1> DEFINE s == AcceptSeen(ev.frame)
           e == AcceptExpiry(ev.frame, ev.ts)
           b == BlocksWith(ProcessRecords(ev))
           x == <<ev.ts + Ttl, ev.frame>>
<1>1. /\ ~finished /\ finished' = finished /\ confirmed <= ev.ts
      /\ LatestOK(latest') /\ watermark' \in Ts /\ watermark' < TsMax
      /\ watermark' >= watermark /\ DOMAIN aircraft' = Icaos
      /\ ConfirmIfDue(s, e, b)
      /\ MemoryOK(s, e, confirmed) /\ e = expiry \cup {x} /\ PendingOK(b, confirmed)
  BY FirstCall
<1>2. x[1] = ev.ts + Ttl
  OBVIOUS
<1> HIDE DEF s, e, b, x
<1>3. /\ EngineInv' /\ confirmed' \in Ts /\ confirmed' >= confirmed
      /\ \A y \in e \ expiry' : y[1] <= confirmed'
      /\ blocks' = Beyond(b, confirmed') /\ out' = UpTo(b, confirmed')
  BY <1>1, ConfirmingCall
<1>4. Forgets
  BY <1>1, <1>3 DEF Forgets
<1>5. x \in expiry' \/ ev.ts + Ttl <= confirmed'
  BY <1>1, <1>2, <1>3
<1>6. Closes(b)
  BY <1>1, <1>3 DEF Closes
<1> QED BY <1>1, <1>3, <1>4, <1>5, <1>6 DEF b, x

\* The other calls only close blocks.
LEMMA QuietCall ==
  ASSUME EngineInv, ~finished, finished' = finished, aircraft' = aircraft,
         LatestOK(latest'), watermark' \in Ts, watermark' < TsMax,
         watermark' >= watermark, ConfirmIfDue(seen, expiry, blocks)
  PROVE  EngineInv' /\ Closes(blocks) /\ Forgets
<1> DEFINE s == seen
           e == expiry
           b == blocks
<1>1. /\ MemoryOK(s, e, confirmed) /\ PendingOK(b, confirmed) /\ DOMAIN aircraft' = Icaos
      /\ ConfirmIfDue(s, e, b)
  BY DEF EngineInv
<1> HIDE DEF s, e, b
<1>2. /\ EngineInv' /\ confirmed' \in Ts /\ confirmed' >= confirmed
      /\ \A y \in e \ expiry' : y[1] <= confirmed'
      /\ blocks' = Beyond(b, confirmed') /\ out' = UpTo(b, confirmed')
  BY <1>1, ConfirmingCall
<1> QED BY <1>1, <1>2 DEF Closes, Forgets, s, e, b

\* A duplicate writes nothing and may close blocks.
LEMMA DuplicateCloses ==
  ASSUME EngineInv, NEW ev \in Events, ProcessDuplicate(ev)
  PROVE  EngineInv' /\ Closes(blocks) /\ Forgets
  BY DuplicateCall, QuietCall

\* So may the tick.
LEMMA TickCloses ==
  ASSUME EngineInv, NEW now \in NowTimes, AdvanceWallclock(now)
  PROVE  EngineInv' /\ Closes(blocks) /\ Forgets
<1>1. /\ ~finished /\ AdvanceTo(now) /\ ConfirmIfDue(seen, expiry, blocks)
      /\ finished' = finished /\ aircraft' = aircraft
  BY DEF AdvanceWallclock
<1>2. watermark \in Ts /\ watermark < TsMax /\ LatestOK(latest)
  BY DEF EngineInv
<1>3. /\ watermark' \in Ts /\ watermark' < TsMax /\ watermark' >= watermark
      /\ latest' = latest
  BY <1>1, <1>2, AdvanceToFacts
<1> QED BY <1>1, <1>2, <1>3, QuietCall

\* The end of the input closes every block.
LEMMA FinishCloses ==
  ASSUME EngineInv, Finish
  PROVE  EngineInv' /\ Closes(blocks)
<1>1. /\ EngineInv' /\ ~finished /\ confirmed' = TsMax
      /\ blocks' = NoRows /\ out' = [k \in DOMAIN blocks |-> blocks[k]]
  BY FinishCall
<1>2. PendingOK(blocks, confirmed) /\ confirmed \in Ts /\ TsMax \in Ts /\ TsMax >= confirmed
  BY <1>1 DEF EngineInv, Ts
<1>3. \A k \in DOMAIN blocks : KeyEnd(k) \in Int /\ KeyEnd(k) <= TsMax
  BY <1>2, KeyEndType DEF PendingOK, WellFiled, Ts
<1>4. /\ {k \in DOMAIN blocks : KeyEnd(k) > TsMax} = {}
      /\ {k \in DOMAIN blocks : KeyEnd(k) <= TsMax} = DOMAIN blocks
  BY <1>3, TsRangeAssumption
<1>5. NoRows = Beyond(blocks, TsMax) /\ out' = UpTo(blocks, TsMax)
  BY <1>1, <1>4 DEF NoRows, Beyond, UpTo
<1> QED BY <1>1, <1>2, <1>5 DEF Closes

\* A new process has a new engine.
LEMMA FreshIsUncalled ==
  ASSUME FreshEngine
  PROVE  EngineInv'
<1>1. UncalledEngine'
  BY DEF FreshEngine, UncalledEngine, Restored
<1>2. UncalledEngine' => EngineInv'
  BY UncalledEngineInv, PTL
<1> QED BY <1>1, <1>2

\* The calls of the loop, and what a step is otherwise.
LEMMA StepKinds ==
  ASSUME [PipelineNext]_pipelineVars
  PROVE  \/ HandleEvent \/ HandleTick \/ HandleCtrlC \/ Restart
         \/ UNCHANGED <<engineVars, lifeVars>>
  BY DEF PipelineNext, pipelineVars, historyVars, ReceiverTask, Broker, World, CtrlC,
         SendRows, WriterTask, EndInOrder

\* What the loop takes from the channel is a record of a message.
LEMMA HeadSlot ==
  ASSUME ArrivalsInv, rxIn # <<>>
  PROVE  Head(rxIn) \in Slots /\ EventOf(Head(rxIn)) \in Events
<1>1. Head(rxIn) \in Slots
  BY HeadTailProperties DEF ArrivalsInv
<1> QED BY <1>1, SlotEvent

\* What a call that is not a first copy's does.
LEMMA QuietSteps ==
  ASSUME ArrivalsInv, EngineInv
  PROVE  /\ \A ev \in Events : DropLate(ev) \/ ProcessDuplicate(ev) =>
              EngineInv' /\ Closes(blocks) /\ Forgets /\ UNCHANGED aircraft
         /\ HandleTick => EngineInv' /\ Closes(blocks) /\ Forgets /\ UNCHANGED aircraft
         /\ HandleCtrlC => EngineInv' /\ Closes(blocks) /\ finished' /\ UNCHANGED aircraft
<1>1. ASSUME NEW ev \in Events, DropLate(ev) \/ ProcessDuplicate(ev)
      PROVE  EngineInv' /\ Closes(blocks) /\ Forgets /\ UNCHANGED aircraft
  BY <1>1, LateCall, DuplicateCloses DEF DropLate, ProcessDuplicate
<1>2. ASSUME HandleTick
      PROVE  EngineInv' /\ Closes(blocks) /\ Forgets /\ UNCHANGED aircraft
  <2>1. PICK now \in NowTimes : AdvanceWallclock(now)
    BY <1>2 DEF HandleTick
  <2> QED BY <2>1, TickCloses DEF AdvanceWallclock
<1>3. ASSUME HandleCtrlC
      PROVE  EngineInv' /\ Closes(blocks) /\ finished' /\ UNCHANGED aircraft
  <2>1. Finish
    BY <1>3 DEF HandleCtrlC
  <2> QED BY <2>1, FinishCloses, FinishCall
<1> QED BY <1>1, <1>2, <1>3

\* EngineInv is inductive in the whole, whatever is received.
LEMMA EngineStep ==
  ASSUME ArrivalsInv, EngineInv, [PipelineNext]_pipelineVars
  PROVE  EngineInv'
<1>1. CASE HandleEvent
  <2> DEFINE ev == EventOf(Head(rxIn))
  <2>1. ev \in Events /\ (DropLate(ev) \/ ProcessDuplicate(ev) \/ ProcessFirst(ev))
    BY <1>1, HeadSlot DEF HandleEvent
  <2> HIDE DEF ev
  <2> QED BY <2>1, QuietSteps, FirstCloses
<1>2. CASE HandleTick \/ HandleCtrlC
  BY <1>2, QuietSteps
<1>3. CASE Restart
  BY <1>3, FreshIsUncalled DEF Restart
<1>4. CASE UNCHANGED <<engineVars, lifeVars>>
  BY <1>4 DEF engineVars, EngineInv, LatestOK, WellFiled, Lag, MemoryOK, PendingOK, Unexpired
<1> QED BY <1>1, <1>2, <1>3, <1>4, StepKinds

-----------------------------------------------------------------------------
(* What has been accepted. *)

\* What is remembered stays so as time is confirmed.
LEMMA RememberedStays ==
  ASSUME NEW ev \in Events, EngineInv, Remembers(ev), Forgets,
         confirmed' \in Ts, confirmed' >= confirmed
  PROVE  Remembers(ev)'
<1>1. ev.ts + Ttl \in Int /\ confirmed \in Int /\ confirmed' \in Int
  <2>1. ev.ts \in EventTimes
    BY DEF Events
  <2>2. ev.ts \in Ts /\ confirmed \in Ts
    BY <2>1, EventTimesAssumption DEF EngineInv
  <2> QED BY <2>2 DEF Ts
<1> DEFINE x == <<ev.ts + Ttl, ev.frame>>
<1>2. x[1] = ev.ts + Ttl
  OBVIOUS
<1>3. CASE x \in expiry
  BY <1>2, <1>3 DEF Forgets, Remembers
<1>4. CASE ev.ts + Ttl <= confirmed
  BY <1>1, <1>4 DEF Remembers
<1> QED BY <1>3, <1>4 DEF Remembers

\* A first copy of a frame is not remembered, if anything is.
LEMMA FirstIsNew ==
  ASSUME EngineInv, NEW ev \in Events, ProcessFirst(ev), Ttl > 0
  PROVE  ~Remembers(ev)
<1>1. confirmed <= ev.ts
  BY FirstCloses
<1>2. ~(ev.ts + Ttl <= confirmed)
  <2>1. ev.ts \in EventTimes
    BY DEF Events
  <2>2. ev.ts \in Ts /\ confirmed \in Ts
    BY <2>1, EventTimesAssumption DEF EngineInv
  <2> QED BY <1>1, <2>2 DEF Ts
<1>3. seen = {x[2] : x \in expiry} /\ ev.frame \notin seen
  BY DEF ProcessFirst, EngineInv, MemoryOK, Accepts
<1>4. <<ev.ts + Ttl, ev.frame>> \notin expiry
  BY <1>3
<1> QED BY <1>1, <1>2, <1>4 DEF Remembers

\* The filter lets an event through once: one that was accepted is remembered, or
\* its time to live has been confirmed and a further copy is late.
LEMMA AcceptedOfEvent ==
  ASSUME ArrivalsInv, EngineInv, AcceptedInv, HandleEvent
  PROVE  AcceptedInv'
<1> DEFINE h == Head(rxIn)
           ev == EventOf(h)
<1>1. h \in Slots /\ ev \in Events
  BY HeadSlot DEF HandleEvent
<1>2. /\ accepted \in Seq(Slots)
      /\ \A i \in DOMAIN accepted : accepted[i] \in Slots /\ EventOf(accepted[i]) \in Events
  <2>1. \A i \in DOMAIN accepted : accepted[i] \in Slots
    BY ElementOfSeq, LenProperties DEF AcceptedInv
  <2> QED BY <2>1, SlotEvent DEF AcceptedInv
<1>3. CASE (DropLate(ev) \/ ProcessDuplicate(ev)) /\ UNCHANGED accepted
  <2>1. Closes(blocks) /\ Forgets /\ ~finished
    BY <1>1, <1>3, QuietSteps DEF DropLate, ProcessDuplicate
  <2>2. confirmed' \in Ts /\ confirmed' >= confirmed
    BY <2>1 DEF Closes
  <2>3. \A i \in DOMAIN accepted : Remembers(EventOf(accepted[i]))'
    <3> TAKE i \in DOMAIN accepted
    <3> DEFINE v == EventOf(accepted[i])
    <3>1. v \in Events /\ Remembers(v) /\ v' = v
      BY <1>2, <1>3, <2>1 DEF AcceptedInv, EventOf
    <3> HIDE DEF v
    <3>2. <<v.ts + Ttl, v.frame>> \in expiry' \/ v.ts + Ttl <= confirmed'
      BY <2>1, <2>2, <3>1, RememberedStays DEF Remembers
    <3> QED BY <3>1, <3>2 DEF Remembers, v
  <2> QED BY <1>3, <2>3 DEF AcceptedInv, RedeliveryFiltered
<1>4. CASE ProcessFirst(ev) /\ accepted' = Append(accepted, h)
  <2> DEFINE n == Len(accepted)
  <2>1. /\ n \in Nat /\ DOMAIN accepted = 1 .. n
        /\ accepted' \in Seq(Slots) /\ DOMAIN accepted' = 1 .. n + 1
        /\ \A i \in 1 .. n : accepted'[i] = accepted[i]
        /\ accepted'[n + 1] = h
    BY <1>1, <1>2, <1>4, AppendProperties, LenProperties
  <2> HIDE DEF n
  <2>2. /\ Forgets /\ ~finished /\ confirmed' \in Ts /\ confirmed' >= confirmed
        /\ <<ev.ts + Ttl, ev.frame>> \in expiry' \/ ev.ts + Ttl <= confirmed'
    BY <1>1, <1>4, FirstCloses DEF Closes, ProcessFirst
  <2>3. \A i \in 1 .. n : Remembers(EventOf(accepted[i]))
    BY <2>1, <2>2 DEF AcceptedInv
  <2>4. ASSUME NEW i \in DOMAIN accepted'
        PROVE  Remembers(EventOf(accepted[i]))'
    <3> DEFINE v == EventOf(accepted'[i])
    <3>1. <<v.ts + Ttl, v.frame>> \in expiry' \/ v.ts + Ttl <= confirmed'
      <4>1. CASE i \in 1 .. n
        <5>1. v = EventOf(accepted[i]) /\ v \in Events /\ Remembers(v)
          BY <1>2, <2>1, <2>3, <4>1
        <5> HIDE DEF v
        <5> QED BY <2>2, <5>1, RememberedStays DEF Remembers
      <4>2. CASE i = n + 1
        <5>1. v = ev
          BY <2>1, <4>2
        <5> HIDE DEF v, ev
        <5> QED BY <2>2, <5>1
      <4> QED BY <2>1, <4>1, <4>2
    <3> QED BY <3>1 DEF Remembers, EventOf
  <2>5. ASSUME Ttl > 0
        PROVE  RedeliveryFiltered'
    <3>1. ~Remembers(ev)
      BY <1>1, <1>4, <2>5, FirstIsNew
    <3>2. \A i \in 1 .. n : accepted[i] # h
      BY <2>3, <3>1
    <3>3. \A i, j \in 1 .. n : accepted[i] = accepted[j] => i = j
      BY <2>1, <2>5 DEF AcceptedInv, RedeliveryFiltered
    <3> HIDE DEF h, ev
    <3> QED BY <2>1, <3>2, <3>3 DEF RedeliveryFiltered
  <2> QED BY <2>1, <2>4, <2>5 DEF AcceptedInv
<1> QED BY <1>3, <1>4 DEF HandleEvent

\* AcceptedInv is inductive, given the invariants of the channel and the engine.
LEMMA AcceptedStep ==
  ASSUME ArrivalsInv, EngineInv, AcceptedInv, [PipelineNext]_pipelineVars
  PROVE  AcceptedInv'
<1>1. CASE HandleEvent
  BY <1>1, AcceptedOfEvent
<1>2. CASE HandleTick
  <2>1. Closes(blocks) /\ Forgets /\ accepted' = accepted
    BY <1>2, QuietSteps DEF HandleTick
  <2>2. ~finished /\ confirmed' \in Ts /\ confirmed' >= confirmed
    BY <1>2, <2>1 DEF Closes, HandleTick, AdvanceWallclock
  <2>3. \A i \in DOMAIN accepted : EventOf(accepted[i]) \in Events
    <3>1. \A i \in DOMAIN accepted : accepted[i] \in Slots
      BY ElementOfSeq, LenProperties DEF AcceptedInv
    <3> QED BY <3>1, SlotEvent
  <2>4. \A i \in DOMAIN accepted : Remembers(EventOf(accepted[i]))'
    <3> TAKE i \in DOMAIN accepted
    <3> DEFINE v == EventOf(accepted[i])
    <3>1. v \in Events /\ Remembers(v) /\ v' = v
      BY <2>1, <2>2, <2>3 DEF AcceptedInv, EventOf
    <3> HIDE DEF v
    <3>2. <<v.ts + Ttl, v.frame>> \in expiry' \/ v.ts + Ttl <= confirmed'
      BY <2>1, <2>2, <3>1, RememberedStays DEF Remembers
    <3> QED BY <3>1, <3>2 DEF Remembers, v
  <2> QED BY <2>1, <2>4 DEF AcceptedInv, RedeliveryFiltered
<1>3. CASE HandleCtrlC
  <2>1. finished' /\ accepted' = accepted
    BY <1>3, QuietSteps DEF HandleCtrlC
  <2> QED BY <2>1 DEF AcceptedInv, RedeliveryFiltered
<1>4. CASE Restart
  <2>1. accepted' = <<>>
    BY <1>4 DEF Restart
  <2> QED BY <2>1, EmptySeq DEF AcceptedInv, RedeliveryFiltered
<1>5. CASE UNCHANGED <<engineVars, lifeVars>>
  BY <1>5 DEF engineVars, lifeVars, AcceptedInv, RedeliveryFiltered, Remembers, EventOf
<1> QED BY <1>1, <1>2, <1>3, <1>4, <1>5, StepKinds

-----------------------------------------------------------------------------
(* What an aircraft's state holds, and the rows made of it. *)

\* An identity holds a value of V.
Holds(d, V) ==
  /\ d = [confirmed |-> d.confirmed, candidate |-> d.candidate]
  /\ d.confirmed \in V

\* An observed value replaces only the candidate or the confirmed one.
LEMMA ObserveHolds ==
  ASSUME NEW d, NEW V, Holds(d, V), NEW v \in V
  PROVE  Holds(DebounceObserve(d, v), V) /\ Holds(DebounceForce(v), V)
  BY DEF Holds, DebounceObserve, DebounceForce

\* What a decoded frame has is among what the frames have.
LEMMA DecodedFacts ==
  ASSUME NEW f \in Frames, NEW d, d = DecodeFrame(f)
  PROVE  /\ d.kind = "Airborne" =>
              d.pos \in Positions /\ d.pos.alt \in Altitudes /\ d.on_ground \in BOOLEAN
         /\ d.kind = "Surface" => d.pos \in SurfacePositions
         /\ d.kind = "BaroAltitude" => d.alt \in Altitudes
         /\ d.kind = "Callsign" => d.value \in CallSigns
         /\ d.kind = "Squawk" => d.value \in Squawks
<1>1. d \in Decoded(d.kind)
  BY DEF Decoded
<1>2. d.kind = "Airborne" => d.on_ground \in BOOLEAN
  BY DEF DecodeFrame, DecodeMe, ClassifyError
<1> QED BY <1>1, <1>2 DEF Positions, SurfacePositions, Altitudes, CallSigns, Squawks

\* Updating a state with a decoded frame keeps to what frames have.
LEMMA UpdatedState ==
  ASSUME NEW st, StateInv(st), NEW f \in Frames, NEW d, d = DecodeFrame(f), NEW ts
  PROVE  StateInv(Updated(st, d, ts))
<1>1. CASE d.kind = "Callsign"
  <2>1. Holds(st.call_sign, CallSigns)
    BY DEF StateInv, Holds
  <2>2. PICK c : c = DebounceObserve(st.call_sign, d.value) /\ Holds(c, CallSigns)
    BY <1>1, <2>1, DecodedFacts, ObserveHolds
  <2>3. Updated(st, d, ts) = [st EXCEPT !.call_sign = c]
    BY <1>1, <2>2 DEF Updated
  <2> QED BY <2>2, <2>3 DEF StateInv, Holds
<1>2. CASE d.kind = "Squawk"
  <2>1. Holds(st.squawk, Squawks)
    BY DEF StateInv, Holds
  <2>2. PICK c : /\ c = IF d.emergency THEN DebounceForce(d.value)
                        ELSE DebounceObserve(st.squawk, d.value)
                 /\ Holds(c, Squawks)
    BY <1>2, <2>1, DecodedFacts, ObserveHolds
  <2>3. Updated(st, d, ts) = [st EXCEPT !.squawk = c]
    BY <1>2, <2>2 DEF Updated
  <2> QED BY <2>2, <2>3 DEF StateInv, Holds
<1>3. CASE d.kind = "BaroAltitude"
  <2>1. Updated(st, d, ts) = [st EXCEPT !.alt = d.alt] /\ d.alt \in Altitudes
    BY <1>3, DecodedFacts DEF Updated
  <2> QED BY <2>1 DEF StateInv
<1>4. CASE d.kind = "Airborne"
  <2> DEFINE c == [ts |-> ts, pos |-> d.pos]
  <2>1. c.pos \in Positions
    BY <1>4, DecodedFacts
  <2>2. Updated(st, d, ts) = IF d.pos.parity = "Even" THEN [st EXCEPT !.even = c]
                             ELSE IF d.pos.parity = "Odd" THEN [st EXCEPT !.odd = c] ELSE st
    BY <1>4 DEF Updated
  <2> HIDE DEF c
  <2> QED BY <2>1, <2>2 DEF StateInv
<1>5. CASE d.kind \notin {"Callsign", "Squawk", "BaroAltitude", "Airborne"}
  BY <1>5 DEF Updated
<1> QED BY <1>1, <1>2, <1>3, <1>4, <1>5

\* So does a state restored from the table.
LEMMA RestoredState ==
  ASSUME NEW a \in Icaos
  PROVE  StateInv(Restored(Restore)[a])
<1> DEFINE mine == {r \in Restore : r.icao = a}
           r == CHOOSE x \in mine : TRUE
<1>1. StateInv(DefaultState)
  BY DEF StateInv, DefaultState, NoDebounced, CallSigns, Squawks, Altitudes
<1>2. CASE mine = {}
  BY <1>1, <1>2 DEF Restored
<1>3. CASE mine # {}
  <2>1. r \in Restore
    BY <1>3
  <2>2. r.call_sign \in CallSigns /\ r.squawk \in Squawks
    BY <2>1 DEF CallSigns, Squawks
  <2>3. Restored(Restore)[a] = [DefaultState EXCEPT !.call_sign.confirmed = r.call_sign,
                                                   !.squawk.confirmed = r.squawk]
    BY <1>3 DEF Restored
  <2> HIDE DEF r, mine
  <2>4. Restored(Restore)[a] =
          [even |-> None, odd |-> None,
           call_sign |-> [confirmed |-> r.call_sign, candidate |-> None],
           squawk |-> [confirmed |-> r.squawk, candidate |-> None], alt |-> None]
    BY <2>3 DEF DefaultState, NoDebounced
  <2> QED BY <2>2, <2>4 DEF StateInv, Altitudes
<1> QED BY <1>2, <1>3

\* AircraftInv is inductive.
LEMMA AircraftStep ==
  ASSUME ArrivalsInv, EngineInv, AircraftInv, [PipelineNext]_pipelineVars
  PROVE  AircraftInv'
<1>1. CASE HandleEvent
  <2> DEFINE ev == EventOf(Head(rxIn))
  <2>1. ev \in Events /\ (DropLate(ev) \/ ProcessDuplicate(ev) \/ ProcessFirst(ev))
    BY <1>1, HeadSlot DEF HandleEvent
  <2> HIDE DEF ev
  <2>2. CASE DropLate(ev) \/ ProcessDuplicate(ev)
    BY <2>1, <2>2, QuietSteps DEF AircraftInv
  <2>3. CASE ProcessFirst(ev)
    <3>1. PICK d : d = DecodeFrame(ev.frame)
      OBVIOUS
    <3>2. ev.frame \in Frames /\ aircraft' = ProcessAircraft(ev) /\ DOMAIN aircraft = Icaos
      BY <2>1, <2>3 DEF Events, ProcessFirst, EngineInv
    <3>3. ASSUME NEW a \in Icaos PROVE StateInv(aircraft'[a])
      <4>1. aircraft'[a] = aircraft[a] \/ aircraft'[a] = Updated(aircraft[a], d, ev.ts)
        BY <3>1, <3>2 DEF ProcessAircraft
      <4> QED BY <3>1, <3>2, <4>1, UpdatedState DEF AircraftInv
    <3> QED BY <3>3 DEF AircraftInv
  <2> QED BY <2>1, <2>2, <2>3
<1>2. CASE HandleTick \/ HandleCtrlC
  BY <1>2, QuietSteps DEF AircraftInv
<1>3. CASE Restart
  <2>1. aircraft' = Restored(Restore)
    BY <1>3 DEF Restart, FreshEngine
  <2> QED BY <2>1, RestoredState DEF AircraftInv
<1>4. CASE UNCHANGED <<engineVars, lifeVars>>
  BY <1>4 DEF engineVars, AircraftInv
<1> QED BY <1>1, <1>2, <1>3, <1>4, StepKinds

Row(icao, ts, loc, alt, name, squawk, ground) ==
  [mode_s_code |-> icao, ts |-> ts, location |-> loc, alt |-> alt, call_sign |-> name,
   squawk |-> squawk, on_ground |-> ground]

\* A row made of such parts, rounded to its block, is one the frames can give.
LEMMA RoundedRow ==
  ASSUME NEW icao \in Icaos, NEW ts \in EventTimes, NEW loc \in Locatable,
         NEW alt \in Altitudes, NEW name \in CallSigns, NEW squawk \in Squawks,
         NEW ground \in BOOLEAN
  PROVE  Rounded(Row(icao, ts, loc, alt, name, squawk, ground)) \in PossibleRows
<1>1. BlockId(ts) * Block \in {BlockId(t) * Block : t \in EventTimes}
  OBVIOUS
<1> DEFINE start == BlockId(ts) * Block
<1>2. Rounded(Row(icao, ts, loc, alt, name, squawk, ground)) =
        Row(icao, start, loc, alt, name, squawk, ground)
  BY DEF Rounded, Row
<1> HIDE DEF start
<1> QED BY <1>1, <1>2 DEF PossibleRows, Row, start

\* The location of a pair of airborne positions, and of a surface position, is one
\* the frames can give.
LEMMA LocatedPair ==
  ASSUME NEW p \in Positions, NEW q \in Positions, NEW loc \in GlobalAirborne(p, q)
  PROVE  loc \in Locatable
<1>1. <<p, q>> \in Positions \X Positions
  OBVIOUS
<1>2. GlobalAirborne(p, q) \in {GlobalAirborne(x[1], x[2]) : x \in Positions \X Positions}
  BY <1>1
<1>3. loc \in PairLocations
  BY <1>2 DEF PairLocations
<1> QED BY <1>3 DEF Locatable

\* As LocatedPair, for a surface position.
LEMMA LocatedNearby ==
  ASSUME NEW p \in SurfacePositions, NEW loc \in LocalSurface(p, SurfaceRef)
  PROVE  loc \in Locatable
<1>1. LocalSurface(p, SurfaceRef) \in {LocalSurface(x, SurfaceRef) : x \in SurfacePositions}
  OBVIOUS
<1>2. loc \in NearbyLocations
  BY <1>1 DEF NearbyLocations
<1> QED BY <1>2 DEF Locatable

\* The row an event gives is one the frames can give, in the event's block.
LEMMA GivenRow ==
  ASSUME EngineInv, AircraftInv, NEW ev \in Events, NEW r \in ProcessRecords(ev)
  PROVE  Key(r) = KeyOf(ev) /\ Rounded(r) \in PossibleRows
<1>1. PICK d : d = DecodeFrame(ev.frame)
  OBVIOUS
<1>2. PICK st : st = aircraft[d.icao]
  OBVIOUS
<1>3. ev.frame \in Frames /\ ev.ts \in EventTimes
  BY DEF Events
<1>4. /\ r.ts = ev.ts /\ r.mode_s_code \in Icaos
      /\ Rounded(r).ts = BlockId(ev.ts) * Block
  BY RecordFacts
<1>5. PICK loc \in Locations(st, d, ev.ts) : r = PositionRecord(st, d, ev.ts, loc)
  BY <1>1, <1>2 DEF ProcessRecords, PositionRecords
<1>6. d.kind \in {"Airborne", "Surface"}
  BY <1>5 DEF Locations
<1>7. d.icao = r.mode_s_code
  BY <1>5 DEF PositionRecord
<1>8. StateInv(st)
  BY <1>2, <1>4, <1>7 DEF AircraftInv
<1>9. loc \in Locatable
  <2>1. CASE d.kind = "Airborne"
    <3>1. PICK other : /\ other = IF d.pos.parity = "Even" THEN st.odd ELSE st.even
                       /\ other # None /\ loc \in GlobalAirborne(other.pos, d.pos)
      BY <1>5, <2>1 DEF Locations, Pairs
    <3>2. other.pos \in Positions /\ d.pos \in Positions
      BY <1>1, <1>3, <1>8, <2>1, <3>1, DecodedFacts DEF StateInv
    <3> QED BY <3>1, <3>2, LocatedPair
  <2>2. CASE d.kind = "Surface"
    <3>1. loc \in LocalSurface(d.pos, SurfaceRef)
      BY <1>5, <2>2 DEF Locations
    <3>2. d.pos \in SurfacePositions
      BY <1>1, <1>3, <2>2, DecodedFacts
    <3> QED BY <3>1, <3>2, LocatedNearby
  <2> QED BY <1>6, <2>1, <2>2
<1>10. Altitude(st, d) \in Altitudes
  BY <1>1, <1>3, <1>6, <1>8, DecodedFacts DEF Altitude, StateInv, Altitudes
<1>11. /\ st.call_sign.confirmed \in CallSigns /\ st.squawk.confirmed \in Squawks
  BY <1>8 DEF StateInv
<1>12. PICK ground \in BOOLEAN : ground = IF d.kind = "Surface" THEN TRUE ELSE d.on_ground
  BY <1>1, <1>3, <1>6, DecodedFacts
<1>13. Key(r) = KeyOf(ev)
  BY <1>1, <1>4, <1>7 DEF Key, KeyOf
<1>14. r = Row(r.mode_s_code, ev.ts, loc, Altitude(st, d), st.call_sign.confirmed,
               st.squawk.confirmed, ground)
  BY <1>5, <1>7, <1>12 DEF PositionRecord, Row
<1>15. Rounded(r) \in PossibleRows
  BY <1>3, <1>4, <1>9, <1>10, <1>11, <1>14, RoundedRow
<1> QED BY <1>13, <1>15

-----------------------------------------------------------------------------
(* What has been returned. *)

\* A call returns blocks that had not ended when the rows before were returned,
\* and that have now: for the ledger it closes them.
LEMMA ClosingCall ==
  ASSUME EngineInv, ReturnedInv, NEW b, Closes(b), returned' = Upsert(returned, out)
  PROVE  /\ ReturnedInv'
         /\ Rt!CloseUpTo(b)
         /\ Rt!Returned = Outgoing(out')
<1> DEFINE closed == Upsert(returned, out)
           ended == {x \in DOMAIN b : KeyEnd(x) <= confirmed'}
<1>1. /\ confirmed \in Ts /\ confirmed' \in Ts /\ confirmed' >= confirmed
      /\ confirmed \in Int /\ confirmed' \in Int
  BY DEF EngineInv, Closes, Ts
<1>2. DOMAIN out' = ended /\ \A k \in ended : out'[k] = b[k]
  BY DEF Closes, UpTo
<1>3. \A k \in DOMAIN closed : k \in Keys /\ KeyEnd(k) <= confirmed
  BY DEF Upsert, ReturnedInv
<1>4. \A k \in DOMAIN b : k \in Keys /\ KeyEnd(k) > confirmed
  BY DEF Closes, PendingOK, WellFiled
<1>5. \A k \in Keys : KeyEnd(k) \in Int
  BY KeyEndType DEF Ts
<1>6. DOMAIN closed \cap ended = {}
  BY <1>1, <1>3, <1>4, <1>5
<1>7. Upsert(returned', out') =
        [k \in DOMAIN closed \cup ended |-> IF k \in DOMAIN closed THEN closed[k] ELSE b[k]]
  <2>1. Upsert(returned', out') =
          [k \in DOMAIN closed \cup DOMAIN out' |->
             IF k \in DOMAIN out' THEN out'[k] ELSE closed[k]]
    BY DEF Upsert
  <2> HIDE DEF closed, ended
  <2> QED BY <2>1, <1>2, <1>6
<1>8. DOMAIN returned' = DOMAIN closed
  BY DEF Upsert
<1> HIDE DEF closed
<1>9. ReturnedInv'
  <2>1. ASSUME NEW k \in DOMAIN returned' \cup DOMAIN out'
        PROVE  k \in Keys /\ KeyEnd(k) <= confirmed'
    BY <1>1, <1>2, <1>3, <1>4, <1>5, <1>8, <2>1
  <2> QED BY <2>1 DEF ReturnedInv
<1>10. Rt!CloseUpTo(b)
  BY <1>1, <1>7 DEF Rt!CloseUpTo, Closes, Beyond, closed
<1>11. Rt!Returned = Outgoing(out')
  <2> DEFINE new == Upsert(returned', out')
  <2>1. DOMAIN new \ DOMAIN closed = DOMAIN out' /\ \A k \in DOMAIN out' : new[k] = out'[k]
    BY <1>2, <1>6, <1>7
  <2>2. Rt!Returned = {Record(k, new[k]) : k \in DOMAIN new \ DOMAIN closed}
    BY DEF Rt!Returned, Rt!Record, Record, closed
  <2> HIDE DEF new
  <2> QED BY <2>1, <2>2 DEF Outgoing
<1> QED BY <1>9, <1>10, <1>11

\* ReturnedInv is inductive.
LEMMA ReturnedStep ==
  ASSUME ArrivalsInv, EngineInv, ReturnedInv, [PipelineNext]_pipelineVars
  PROVE  ReturnedInv'
<1>1. CASE HandleEvent
  <2> DEFINE ev == EventOf(Head(rxIn))
  <2>1. /\ ev \in Events /\ (DropLate(ev) \/ ProcessDuplicate(ev) \/ ProcessFirst(ev))
        /\ returned' = Upsert(returned, out)
    BY <1>1, HeadSlot DEF HandleEvent
  <2> HIDE DEF ev
  <2>2. \E b : Closes(b)
    BY <2>1, QuietSteps, FirstCloses
  <2> QED BY <2>1, <2>2, ClosingCall
<1>2. CASE HandleTick \/ HandleCtrlC
  <2>1. returned' = Upsert(returned, out)
    BY <1>2 DEF HandleTick, HandleCtrlC
  <2> QED BY <1>2, <2>1, QuietSteps, ClosingCall
<1>3. CASE Restart
  BY <1>3 DEF Restart, FreshEngine, NoRows, ReturnedInv
<1>4. CASE UNCHANGED <<engineVars, lifeVars>>
  BY <1>4 DEF engineVars, lifeVars, ReturnedInv
<1> QED BY <1>1, <1>2, <1>3, <1>4, StepKinds

-----------------------------------------------------------------------------
(* The invariant. *)

\* The invariant holds when the first process starts.
LEMMA PipelineInitInv == PipelineInit => PipelineInv
<1> SUFFICES ASSUME PipelineInit PROVE PipelineInv
  OBVIOUS
<1>1. ArrivalsInv
  BY EmptySeq DEF PipelineInit, TasksInit, TasksIdle, Receiver!ReceiverInit,
                  Receiver!TaskInit, ArrivalsInv
<1>2. EngineInv
  BY EngineInitInv DEF PipelineInit
<1>3. AcceptedInv
  BY EmptySeq DEF PipelineInit, AcceptedInv, RedeliveryFiltered
<1>4. ReturnedInv
  BY DEF PipelineInit, EngineInit, NoRows, ReturnedInv
<1>5. AircraftInv
  BY RestoredState DEF PipelineInit, EngineInit, AircraftInv
<1> QED BY <1>1, <1>2, <1>3, <1>4, <1>5 DEF PipelineInv

\* Whatever is published, delivered, lost and delivered again, and whenever the
\* process ends and is started again: the channel holds records of messages, the
\* engine keeps its invariant, what it accepted is remembered until it is too old
\* to come again, and the rows it has returned are those of blocks that have ended.
THEOREM PipelineInvariance == PipelineSpec => []PipelineInv
<1>1. PipelineInv /\ [PipelineNext]_pipelineVars => PipelineInv'
  BY ArrivalsStep, EngineStep, AcceptedStep, ReturnedStep, AircraftStep DEF PipelineInv
<1> QED BY PipelineInitInv, <1>1, PTL DEF PipelineSpec

\* src/receiver.rs acknowledges a message before its records are passed on and the
\* broker may deliver it again to the same process: a record reaches the aircraft
\* state once.  With a time to live of zero the filter forgets a frame as soon as
\* its time is confirmed, when a copy of it is not late yet.
THEOREM RedeliveryIsFiltered ==
  ASSUME Ttl > 0
  PROVE  PipelineSpec => []RedeliveryFiltered
<1>1. PipelineInv => RedeliveryFiltered
  BY DEF PipelineInv, AcceptedInv
<1> QED BY <1>1, PipelineInvariance, PTL

-----------------------------------------------------------------------------
(* The whole implements Realtime. *)

\* Events as Realtime has them.
BlocksOf(s) == [i \in DOMAIN s |-> KeyOf(EventOf(s[i]))]

BlockKeys == {KeyOf(ev) : ev \in Events}

\* The channel of blocks is filled and emptied with the channel of events.
LEMMA BlocksFacts ==
  ASSUME NEW s \in Seq(Slots)
  PROVE  /\ BlocksOf(s) \in Seq(BlockKeys) /\ Len(BlocksOf(s)) = Len(s)
         /\ s # <<>> => /\ BlocksOf(s) # <<>>
                        /\ Head(BlocksOf(s)) = KeyOf(EventOf(Head(s)))
                        /\ Tail(BlocksOf(s)) = BlocksOf(Tail(s))
<1> DEFINE b == BlocksOf(s)
<1>1. Len(s) \in Nat /\ DOMAIN s = 1 .. Len(s) /\ \A i \in 1 .. Len(s) : s[i] \in Slots
  BY LenProperties, ElementOfSeq
<1>2. \A i \in 1 .. Len(s) : KeyOf(EventOf(s[i])) \in BlockKeys
  BY <1>1, SlotEvent DEF BlockKeys
<1>3. b = [i \in 1 .. Len(s) |-> KeyOf(EventOf(s[i]))]
  BY <1>1 DEF BlocksOf
<1>4. b \in [1 .. Len(s) -> BlockKeys]
  BY <1>2, <1>3
<1> HIDE DEF b
<1>5. b \in Seq(BlockKeys) /\ Len(b) = Len(s)
  BY <1>1, <1>4, SeqDef, LenProperties
<1>6. ASSUME s # <<>>
      PROVE  b # <<>> /\ Head(b) = KeyOf(EventOf(Head(s))) /\ Tail(b) = BlocksOf(Tail(s))
  <2>1. Len(s) >= 1 /\ b # <<>> /\ Head(b) = b[1] /\ Head(s) = s[1]
    BY <1>1, <1>5, <1>6, EmptySeq, HeadTailProperties
  <2>2. /\ Tail(s) \in Seq(Slots) /\ Len(Tail(s)) = Len(s) - 1
        /\ \A i \in 1 .. Len(s) - 1 : Tail(s)[i] = s[i + 1]
        /\ DOMAIN Tail(s) = 1 .. Len(s) - 1
    BY <1>1, <1>6, HeadTailProperties, LenProperties
  <2>3. /\ Tail(b) \in Seq(BlockKeys) /\ Len(Tail(b)) = Len(s) - 1
        /\ \A i \in 1 .. Len(s) - 1 : Tail(b)[i] = b[i + 1]
        /\ DOMAIN Tail(b) = 1 .. Len(s) - 1
    BY <1>1, <1>5, <2>1, HeadTailProperties, LenProperties
  <2> DEFINE q == Tail(b)
             n == Len(s) - 1
  <2>4. q \in Seq(BlockKeys) /\ Len(q) = n
    BY <2>3
  <2>5. \A i \in 1 .. n : q[i] = KeyOf(EventOf(Tail(s)[i]))
    BY <1>1, <1>3, <2>2, <2>3
  <2> HIDE DEF q, n
  <2>6. q = [i \in 1 .. n |-> q[i]]
    BY <2>4, LenProperties
  <2>7. BlocksOf(Tail(s)) = [i \in 1 .. n |-> KeyOf(EventOf(Tail(s)[i]))]
    BY <2>2 DEF BlocksOf, n
  <2>8. q = BlocksOf(Tail(s))
    BY <2>5, <2>6, <2>7
  <2>9. 1 \in 1 .. Len(s) /\ Head(b) = KeyOf(EventOf(Head(s)))
    BY <1>1, <1>3, <2>1
  <2> QED BY <2>1, <2>8, <2>9 DEF q
<1> QED BY <1>5, <1>6 DEF b

\* As BlocksFacts, for an event that is pushed.
LEMMA BlocksAppend ==
  ASSUME NEW s \in Seq(Slots), NEW x \in Slots
  PROVE  BlocksOf(Append(s, x)) = Append(BlocksOf(s), KeyOf(EventOf(x)))
<1> DEFINE b == BlocksOf(s)
           c == Append(b, KeyOf(EventOf(x)))
           t == Append(s, x)
           n == Len(s)
<1>1. n \in Nat /\ DOMAIN s = 1 .. n
  BY LenProperties
<1>2. /\ DOMAIN t = 1 .. n + 1 /\ t[n + 1] = x
      /\ \A i \in 1 .. n : t[i] = s[i]
  BY <1>1, AppendProperties, LenProperties
<1>3. b \in Seq(BlockKeys) /\ Len(b) = n /\ KeyOf(EventOf(x)) \in BlockKeys
  BY BlocksFacts, SlotEvent DEF BlockKeys
<1>4. \A i \in 1 .. n : b[i] = KeyOf(EventOf(s[i]))
  BY <1>1 DEF BlocksOf
<1> HIDE DEF b, t, n
<1>5. /\ c \in Seq(BlockKeys) /\ Len(c) = n + 1 /\ c[n + 1] = KeyOf(EventOf(x))
      /\ \A i \in 1 .. n : c[i] = b[i]
  BY <1>1, <1>3, AppendProperties
<1>6. c = [i \in 1 .. n + 1 |-> c[i]]
  BY <1>5, LenProperties
<1> HIDE DEF c
<1>7. \A i \in 1 .. n + 1 : c[i] = KeyOf(EventOf(t[i]))
  <2> TAKE i \in 1 .. n + 1
  <2>1. i \in 1 .. n \/ i = n + 1
    BY <1>1
  <2> QED BY <1>2, <1>4, <1>5, <2>1
<1>8. BlocksOf(t) = [i \in 1 .. n + 1 |-> KeyOf(EventOf(t[i]))]
  BY <1>2 DEF BlocksOf
<1> QED BY <1>6, <1>7, <1>8 DEF b, c, t

\* The whole starts as Realtime does.
LEMMA InitialImplements == PipelineInit => Rt!RealtimeInit
<1> SUFFICES ASSUME PipelineInit PROVE Rt!RealtimeInit
  OBVIOUS
<1>1. /\ confirmed = TsMin /\ blocks = [k \in {} |-> k]
      /\ returned = NoRows /\ out = NoRows /\ TasksInit /\ rxIn = <<>>
  BY DEF PipelineInit, EngineInit, DownsamplerInit, TasksInit, TasksIdle
<1>2. Upsert(returned, out) = [k \in {} |-> k]
  BY <1>1 DEF Upsert, NoRows
<1>3. [i \in DOMAIN rxIn |-> KeyOf(EventOf(rxIn[i]))] = <<>>
  BY <1>1
<1>4. Rt!LedgerInit
  BY <1>1, <1>2 DEF Rt!LedgerInit
<1>5. Rt!TasksInit
  BY <1>1, <1>3 DEF TasksInit, TasksIdle, Rt!TasksInit, Rt!TasksIdle
<1> QED BY <1>4, <1>5 DEF Rt!RealtimeInit

\* What the call for an event leaves pending is what Realtime allows for its block.
LEMMA EventIngested ==
  ASSUME EngineInv, AircraftInv, ReturnedInv, NEW ev \in Events,
         DropLate(ev) \/ ProcessDuplicate(ev) \/ ProcessFirst(ev), ArrivalsInv
  PROVE  \E b \in Rt!Ingested(KeyOf(ev)) : Closes(b)
<1>1. CASE DropLate(ev) \/ ProcessDuplicate(ev)
  BY <1>1, QuietSteps DEF Rt!Ingested
<1>2. CASE ProcessFirst(ev)
  <2> DEFINE b == BlocksWith(ProcessRecords(ev))
             k == KeyOf(ev)
  <2>1. Closes(b) /\ confirmed <= ev.ts
    BY <1>2, FirstCloses
  <2>2. confirmed \in Ts /\ PendingOK(blocks, confirmed)
    BY <1>2 DEF EngineInv, ProcessFirst
  <2>3. b = blocks \/ \E r \in ProcessRecords(ev) : b = Ingest(r)
    BY <2>1, <2>2, BlocksWithFacts
  <2> HIDE DEF b
  <2>4. CASE b = blocks
    BY <2>1, <2>4 DEF Rt!Ingested
  <2>5. ASSUME NEW r \in ProcessRecords(ev), b = Ingest(r)
        PROVE  b \in Rt!Ingested(k)
    <3>1. Key(r) = k /\ Rounded(r) \in PossibleRows
      BY GivenRow
    <3>2. KeyEnd(k) > confirmed
      BY <2>1, <2>2, <3>1, IngestFacts
    <3> PICK row \in PossibleRows : row = Rounded(r)
      BY <3>1
    <3> HIDE DEF k
    <3>3. b = [x \in DOMAIN blocks \cup {k} |-> IF x = k THEN row ELSE blocks[x]]
      BY <2>5, <3>1 DEF Ingest
    <3> QED BY <3>2, <3>3 DEF Rt!Ingested
  <2> QED BY <2>1, <2>3, <2>4, <2>5
<1> QED BY <1>1, <1>2

\* The engine's call for an event, with the events it is given and the rows it
\* returns, is what Realtime has.
LEMMA EventImplements ==
  ASSUME PipelineInv, HandleEvent
  PROVE  Rt!ProcessEvent
<1> USE DEF PipelineInv
<1> DEFINE ev == EventOf(Head(rxIn))
           rx == BlocksOf(rxIn)
<1>1. /\ rxIn # <<>> /\ main = "select" /\ TakeEvent(Outgoing(out'))
      /\ returned' = Upsert(returned, out)
      /\ DropLate(ev) \/ ProcessDuplicate(ev) \/ ProcessFirst(ev)
  BY DEF HandleEvent
<1>2. ev \in Events
  BY <1>1, HeadSlot
<1>3. rx # <<>> /\ Head(rx) = KeyOf(ev) /\ Tail(rx) = BlocksOf(Tail(rxIn))
  BY <1>1, BlocksFacts DEF ArrivalsInv
<1> HIDE DEF ev
<1>4. PICK b \in Rt!Ingested(KeyOf(ev)) : Closes(b)
  BY <1>1, <1>2, EventIngested
<1>5. Rt!CloseUpTo(b) /\ Rt!Returned = Outgoing(out')
  BY <1>1, <1>4, ClosingCall
<1>6. confirmed' \in Rt!Times
  BY <1>4 DEF Rt!Times, Closes, Ts
<1>7. rx' = Tail(rx)
  BY <1>1, <1>3 DEF TakeEvent, BlocksOf, EventOf
<1>8. Rt!TakeEvent(Rt!Returned)
  BY <1>1, <1>3, <1>5, <1>7 DEF Rt!TakeEvent, TakeEvent, Rt!Return, Return, BlocksOf,
       Rt!writerVars, writerVars
<1> QED BY <1>1, <1>3, <1>4, <1>5, <1>6, <1>8 DEF Rt!ProcessEvent, BlocksOf

\* The drain tick is that of Realtime.
LEMMA TickImplements ==
  ASSUME PipelineInv, HandleTick
  PROVE  Rt!DrainTick
<1>1. Closes(blocks) /\ EngineInv /\ ReturnedInv
  BY QuietSteps DEF PipelineInv
<1>2. main = "select" /\ TakeTick(Outgoing(out')) /\ returned' = Upsert(returned, out)
  BY DEF HandleTick
<1>3. Rt!CloseUpTo(blocks) /\ Rt!Returned = Outgoing(out') /\ confirmed' \in Rt!Times
  BY <1>1, <1>2, ClosingCall DEF Rt!Times, Closes, Ts
<1>4. Rt!TakeTick(Rt!Returned)
  BY <1>2, <1>3 DEF Rt!TakeTick, TakeTick, Rt!Return, Return, EventOf,
       Rt!inputVars, inputVars, Rt!writerVars, writerVars
<1> QED BY <1>2, <1>3, <1>4 DEF Rt!DrainTick

\* Ctrl-c is that of Realtime: the engine is finished, and the loop is left.
LEMMA CtrlCImplements ==
  ASSUME PipelineInv, HandleCtrlC
  PROVE  Rt!TakeCtrlC
<1>1. Closes(blocks) /\ EngineInv /\ ReturnedInv
  BY QuietSteps DEF PipelineInv
<1>2. /\ main = "select" /\ ctrlC /\ Finish
      /\ LeaveLoop(Outgoing(out')) /\ returned' = Upsert(returned, out)
  BY DEF HandleCtrlC
<1>3. Rt!CloseUpTo(blocks) /\ Rt!Returned = Outgoing(out') /\ confirmed' = TsMax
  BY <1>1, <1>2, ClosingCall DEF Finish
<1>4. Rt!LeaveLoop(Rt!Returned)
  BY <1>2, <1>3 DEF Rt!LeaveLoop, LeaveLoop, Rt!SenderKept, SenderKept, EventOf,
       Rt!writerVars, writerVars
<1> QED BY <1>2, <1>3, <1>4 DEF Rt!TakeCtrlC, Rt!FinishEngine

\* The two tasks are the same, over channels of events and of blocks.
LEMMA TasksImplement ==
  ASSUME SendRows \/ WriterTask \/ CtrlC \/ EndInOrder
  PROVE  Rt!RealtimeNext
<1> USE DEF Rt!inputVars, inputVars, Rt!mainVars, mainVars, Rt!writerVars, writerVars, EventOf
<1>1. UNCHANGED Rt!ledgerVars
  BY DEF SendRows, WriterTask, CtrlC, EndInOrder, engineVars, historyVars, lifeVars,
         Rt!ledgerVars
<1>2. CASE SendRows
  BY <1>1, <1>2 DEF SendRows, Send, Rt!Send, SenderKept, Rt!SenderKept, Rt!MainStep,
                    Rt!RealtimeNext
<1>3. CASE EndInOrder
  BY <1>1, <1>3 DEF EndInOrder, JoinWriter, Rt!JoinWriter, Rt!MainStep, Rt!RealtimeNext
<1>4. CASE CtrlC
  BY <1>1, <1>4 DEF CtrlC, PressCtrlC, Rt!PressCtrlC, Rt!RealtimeNext
<1>5. CASE WriterTask
  <2>0. /\ Insertable <=> Rt!Insertable
        /\ Upserted = Rt!Upserted /\ BatchKeys = Rt!BatchKeys
        /\ FlushDone => Rt!FlushDone
    <3>1. BatchKeys = Rt!BatchKeys
      BY DEF BatchKeys, Rt!BatchKeys
    <3>2. Cardinality(BatchKeys) = Rt!Cardinality(BatchKeys)
      BY DEF Cardinality, Rt!Cardinality
    <3>3. Insertable <=> Rt!Insertable
      BY <3>1, <3>2 DEF Insertable, Rt!Insertable
    <3>4. Upserted = Rt!Upserted
      BY <3>1 DEF Upserted, Rt!Upserted
    <3>5. FlushDone => Rt!FlushDone
      BY DEF FlushDone, Rt!FlushDone, AfterFlush, Rt!AfterFlush
    <3> QED BY <3>1, <3>3, <3>4, <3>5
  <2>1. BatchRow => Rt!BatchRow
    BY DEF BatchRow, Rt!BatchRow, BatchFull, Rt!BatchFull
  <2>2. BatchTick => Rt!BatchTick
    BY DEF BatchTick, Rt!BatchTick, TickFlushes, Rt!TickFlushes
  <2>3. ChannelClosed => Rt!ChannelClosed
    BY DEF ChannelClosed, Rt!ChannelClosed, AtClose, Rt!AtClose
  <2>4. UpsertOk => Rt!UpsertOk
    BY <2>0 DEF UpsertOk, Rt!UpsertOk
  <2>5. Retry => Rt!Retry
    BY <2>0 DEF Retry, Rt!Retry, Failed, Rt!Failed
  <2>6. Drop => Rt!Drop
    BY <2>0 DEF Drop, Rt!Drop, Failed, Rt!Failed
  <2>7. Wake => Rt!Wake
    BY DEF Wake, Rt!Wake
  <2>8. Rt!WriterStep
    BY <1>5, <2>1, <2>2, <2>3, <2>4, <2>5, <2>6, <2>7 DEF WriterTask, WriterStep, Rt!WriterStep
  <2> QED BY <1>1, <2>8 DEF Rt!WriterTask, Rt!RealtimeNext
<1> QED BY <1>2, <1>3, <1>4, <1>5

\* Of the receiver and the broker Realtime has only what is pushed.
LEMMA ArrivalImplements ==
  ASSUME ArrivalsInv, ReceiverTask \/ Broker \/ World
  PROVE  Rt!Receive \/ UNCHANGED Rt!vars
<1> USE DEF Rt!vars, Rt!ledgerVars, Rt!taskVars, Rt!inputVars, Rt!mainVars, Rt!writerVars
<1>1. UNCHANGED <<confirmed, blocks, out, returned, receiver, ctrlC, mainVars, txDb, writerVars>>
  BY DEF ReceiverTask, Broker, World, engineVars, taskVars, inputVars, historyVars, lifeVars
<1>2. CASE UNCHANGED rxIn
  BY <1>1, <1>2 DEF mainVars, writerVars, EventOf
<1>3. CASE ReceiverTask /\ Receiver!PushRecord
  <2> DEFINE x == <<current, index>>
             rx == BlocksOf(rxIn)
             k == KeyOf(EventOf(x))
  <2>1. rxIn' = Append(rxIn, x) /\ x \in Slots /\ rxIn \in Seq(Slots)
        /\ Len(rxIn) < ChanCap /\ receiver = "running"
    BY <1>3, PushedSlot DEF ReceiverTask, Receiver!PushRecord, Receiver!HasRoom, ArrivalsInv
  <2> HIDE DEF x
  <2>2. k \in BlockKeys /\ Len(rx) = Len(rxIn) /\ BlocksOf(Append(rxIn, x)) = Append(rx, k)
    BY <2>1, SlotEvent, BlocksFacts, BlocksAppend DEF BlockKeys
  <2>3. rx' = BlocksOf(Append(rxIn, x))
    BY <2>1 DEF BlocksOf, EventOf
  <2> HIDE DEF k
  <2>4. \E c \in BlockKeys : rx' = Append(rx, c)
    BY <2>2, <2>3
  <2> QED BY <1>1, <2>1, <2>2, <2>4 DEF Rt!Receive, BlocksOf, BlockKeys, mainVars, writerVars
<1>4. UNCHANGED rxIn \/ (ReceiverTask /\ Receiver!PushRecord)
  BY DEF ReceiverTask, Broker, World, Receiver!ReceiverStep, Receiver!BrokerStep,
         Receiver!Connect, Receiver!ConnectFails, Receiver!ConnectionLost, Receiver!Wake,
         Receiver!SessionEnds, Receiver!RejectMessage, Receiver!AcceptMessage, Receiver!Take,
         Receiver!SkipRecord, Receiver!InputClosed, Receiver!MessageDone, Receiver!Deliver,
         Receiver!AckArrives, Receiver!Requeue, Receiver!Publish, Receiver!LoseConnection,
         Receiver!channelVars, taskVars, inputVars
<1> QED BY <1>2, <1>3, <1>4

\* Within the life of a process, the program around its broker, with the real
\* engine fed by the real receiver, does to the rows only what the ledger of
\* Realtime allows: a row is pending until its block ends, is handed to the
\* writer then, and never again.
THEOREM PipelineImplementsRealtime == PipelineSpec => ImplementsRealtime
<1>1. ASSUME PipelineInv, [PipelineNext]_pipelineVars
      PROVE  Rt!RealtimeNext \/ Restart \/ UNCHANGED Rt!vars
  <2>1. CASE ReceiverTask \/ Broker \/ World
    BY <1>1, <2>1, ArrivalImplements DEF PipelineInv, Rt!RealtimeNext
  <2>2. CASE HandleEvent \/ HandleTick \/ HandleCtrlC
    BY <1>1, <2>2, EventImplements, TickImplements, CtrlCImplements DEF Rt!RealtimeNext, Rt!MainStep
  <2>3. CASE SendRows \/ WriterTask \/ CtrlC \/ EndInOrder
    BY <2>3, TasksImplement
  <2>4. CASE UNCHANGED pipelineVars
    BY <2>4 DEF pipelineVars, engineVars, taskVars, inputVars, mainVars, writerVars,
         historyVars, lifeVars, EventOf, Rt!vars, Rt!ledgerVars, Rt!taskVars, Rt!inputVars,
         Rt!mainVars, Rt!writerVars
  <2> QED BY <1>1, <2>1, <2>2, <2>3, <2>4 DEF PipelineNext
<1>2. PipelineInv /\ [PipelineNext]_pipelineVars =>
        [Rt!RealtimeNext \/ Restart]_(Rt!vars)
  BY <1>1
<1> QED
  BY InitialImplements, <1>2, PipelineInvariance, PTL DEF PipelineSpec, ImplementsRealtime

-----------------------------------------------------------------------------
(* What may be left unread. *)

\* Every record some message has that can be passed on.
AllGood == UNION {Good(m) : m \in DOMAIN Header}

\* What a process that ends may have acknowledged and not given its engine.
Share == ChanCap + Max(Sizes)

\* Once the loop is left nothing more is received.
ControlInv ==
  /\ finishing \in BOOLEAN
  /\ main = "select" => ~finishing
  /\ main = "join" => finishing
  /\ finishing => receiver = "ended" /\ acks = <<>>
  /\ ~rxInOpen => finishing

\* An acknowledgement is for records an engine was given, or that are coming to one.
AckInv ==
  \A m \in Range(acks) : Header[m] = "ok" => Good(m) \subseteq Handled \cup Coming

UnreadInv ==
  /\ deaths \in Nat
  /\ handled \in Seq(Slots) /\ acks \in Seq(Messages)
  /\ Len(rxIn) <= ChanCap
  /\ ControlInv /\ AckInv /\ UnreadBounded

\* A nonempty set of natural numbers that is bounded has a greatest element.
LEMMA GreatestNat ==
  ASSUME NEW S \in SUBSET Nat, S # {}, NEW c \in Nat, \A x \in S : x <= c
  PROVE  Max(S) \in S /\ \A x \in S : x <= Max(S)
<1> DEFINE below == {n \in Nat : c - n \in S}
<1>1. below # {}
  <2> PICK x \in S : TRUE
    OBVIOUS
  <2>1. c - x \in Nat /\ c - (c - x) = x
    OBVIOUS
  <2> QED BY <2>1
<1>2. PICK n \in below : \A m \in below : n <= m
  BY <1>1, LeastNat
<1>3. ASSUME NEW x \in S PROVE x <= c - n
  <2>1. c - x \in Nat /\ c - (c - x) = x
    OBVIOUS
  <2>2. n <= c - x
    BY <1>2, <2>1
  <2> QED BY <2>2
<1>4. \E x \in S : \A y \in S : x >= y
  BY <1>2, <1>3
<1> QED BY <1>4 DEF Max

\* A good record is one of its message's.
LEMMA GoodFacts ==
  ASSUME NEW m \in Messages, NEW y \in Good(m)
  PROVE  /\ y = <<m, y[2]>> /\ y[2] \in Nat
         /\ y[2] \in 1 .. Len(Records[m])
         /\ Records[m][y[2]] = "ok"
<1>1. Len(Records[m]) \in Nat /\ DOMAIN Records[m] = 1 .. Len(Records[m])
  BY LenProperties, ContentAssumption DEF Messages, Receiver!ReceiverAssumption
<1>2. PICK i \in 1 .. Len(Records[m]) : Records[m][i] = "ok" /\ y = <<m, i>>
  BY <1>1 DEF Good
<1> QED BY <1>1, <1>2

\* The records of the messages are finitely many.
LEMMA GoodFinite ==
  /\ \A m \in Messages : IsFiniteSet(Good(m))
  /\ IsFiniteSet(AllGood)
<1>1. /\ Messages = 1 .. Len(Header) /\ Len(Header) \in Nat
      /\ \A m \in Messages : Records[m] \in Seq({"ok", "short"})
  BY LenProperties, ContentAssumption DEF Messages, Receiver!ReceiverAssumption
<1>2. ASSUME NEW m \in Messages PROVE IsFiniteSet(Good(m))
  <2> DEFINE n == Len(Records[m])
  <2>1. n \in Int /\ DOMAIN Records[m] = 1 .. n /\ 1 \in Int
    BY <1>1, LenProperties
  <2>2. Good(m) \subseteq {m} \X (1 .. n)
    BY <2>1 DEF Good
  <2> HIDE DEF n
  <2>3. IsFiniteSet(1 .. n) /\ IsFiniteSet({m})
    BY <2>1, FS_Interval, FS_Singleton
  <2>4. IsFiniteSet({m} \X (1 .. n))
    BY <2>3, FS_Product
  <2> QED BY <2>2, <2>4, FS_Subset
<1>3. IsFiniteSet({Good(m) : m \in Messages})
  <2> DEFINE G == {Good(m) : m \in Messages}
             g == [m \in Messages |-> Good(m)]
  <2>1. g \in Surjection(Messages, G)
    BY DEF Surjection
  <2>2. IsFiniteSet(Messages)
    <3>1. 1 \in Int /\ Len(Header) \in Int
      BY <1>1
    <3> QED BY <1>1, <3>1, FS_Interval
  <2> HIDE DEF g, G
  <2>3. IsFiniteSet(G)
    BY <2>1, <2>2, FS_Surjection
  <2> QED BY <2>3 DEF G
<1>4. \A T \in {Good(m) : m \in Messages} : IsFiniteSet(T)
  BY <1>2
<1>5. IsFiniteSet(UNION {Good(m) : m \in Messages})
  BY <1>3, <1>4, FS_UNION
<1> QED BY <1>2, <1>5 DEF AllGood, Messages

\* No message has more records than Share allows for.
LEMMA ShareFacts ==
  /\ Share \in Nat /\ ChanCap <= Share
  /\ \A m \in Messages : Cardinality(Good(m)) + ChanCap <= Share
<1> DEFINE c == Cardinality(AllGood)
<1>1. c \in Nat
  BY GoodFinite, FS_CardinalityType
<1>2. ASSUME NEW m \in Messages
      PROVE  Cardinality(Good(m)) \in Nat /\ Cardinality(Good(m)) <= c
  <2>1. Good(m) \subseteq AllGood
    BY DEF AllGood, Messages
  <2> QED BY <2>1, GoodFinite, FS_Subset, FS_CardinalityType
<1> HIDE DEF c
<1>3. /\ Sizes \in SUBSET Nat /\ Sizes # {} /\ \A x \in Sizes : x <= c
      /\ \A m \in Messages : Cardinality(Good(m)) \in Sizes
  BY <1>1, <1>2 DEF Sizes, Messages
<1>4. Max(Sizes) \in Nat /\ \A x \in Sizes : x <= Max(Sizes)
  BY <1>1, <1>3, GreatestNat
<1>5. ChanCap \in Nat
  BY ContentAssumption DEF Receiver!ReceiverAssumption
<1> QED BY <1>2, <1>3, <1>4, <1>5 DEF Share

\* What a sequence holds once an element is appended, taken or removed.
LEMMA RangeAppend ==
  ASSUME NEW S, NEW s \in Seq(S), NEW x \in S
  PROVE  Range(Append(s, x)) = Range(s) \cup {x}
<1>1. Append(s, x) \in Seq(S) /\ Len(s) \in Nat /\ Len(Append(s, x)) = Len(s) + 1
  BY AppendProperties, LenProperties
<1>2. /\ Range(s) = {s[i] : i \in 1 .. Len(s)}
      /\ Range(Append(s, x)) = {Append(s, x)[i] : i \in 1 .. Len(s) + 1}
  BY <1>1, RangeEquality
<1>3. /\ \A i \in 1 .. Len(s) : Append(s, x)[i] = s[i]
      /\ Append(s, x)[Len(s) + 1] = x
  BY AppendProperties
<1> QED BY <1>1, <1>2, <1>3

\* As RangeAppend, for the first element.
LEMMA RangeHeadTail ==
  ASSUME NEW S, NEW s \in Seq(S), s # <<>>
  PROVE  Range(s) = {Head(s)} \cup Range(Tail(s))
<1>1. /\ Tail(s) \in Seq(S) /\ Len(s) \in Nat /\ Len(Tail(s)) = Len(s) - 1
      /\ \A i \in 1 .. Len(Tail(s)) : Tail(s)[i] = s[i + 1]
      /\ Head(s) = s[1] /\ Len(s) >= 1
  BY HeadTailProperties, LenProperties, EmptySeq
<1>2. /\ Range(s) = {s[i] : i \in 1 .. Len(s)}
      /\ Range(Tail(s)) = {Tail(s)[i] : i \in 1 .. Len(s) - 1}
  <2>1. Range(s) = {s[i] : i \in 1 .. Len(s)}
    BY RangeEquality
  <2>2. Range(Tail(s)) = {Tail(s)[i] : i \in 1 .. Len(Tail(s))}
    BY <1>1, RangeEquality
  <2> QED BY <1>1, <2>1, <2>2, Zenon
<1>3. ASSUME NEW i \in 1 .. Len(s) PROVE s[i] \in {Head(s)} \cup Range(Tail(s))
  <2>1. CASE i = 1
    BY <1>1, <2>1
  <2>2. CASE i # 1
    <3>1. i - 1 \in 1 .. Len(s) - 1 /\ s[i] = Tail(s)[i - 1]
      BY <1>1, <2>2
    <3> QED BY <1>2, <3>1
  <2> QED BY <2>1, <2>2
<1>4. ASSUME NEW i \in 1 .. Len(s) - 1 PROVE Tail(s)[i] \in Range(s)
  <2>1. i + 1 \in 1 .. Len(s) /\ Tail(s)[i] = s[i + 1]
    BY <1>1
  <2> QED BY <1>2, <2>1
<1>5. Head(s) \in Range(s)
  <2>1. 1 \in 1 .. Len(s)
    BY <1>1
  <2> QED BY <1>1, <1>2, <2>1
<1>6. \A y \in Range(s) : y \in {Head(s)} \cup Range(Tail(s))
  BY <1>2, <1>3
<1>7. \A y \in Range(Tail(s)) : y \in Range(s)
  BY <1>2, <1>4
<1> QED BY <1>5, <1>6, <1>7

\* Removing the first e leaves everything else.
LEMMA RangeRemoveFirst ==
  ASSUME NEW S, NEW s \in Seq(S), NEW e
  PROVE  Range(s) \ {e} \subseteq Range(Receiver!RemoveFirst(s, e))
<1>1. CASE ~\E i \in 1 .. Len(s) : s[i] = e
  BY <1>1 DEF Receiver!RemoveFirst
<1>2. CASE \E i \in 1 .. Len(s) : s[i] = e
  <2> DEFINE I == {i \in 1 .. Len(s) : s[i] = e}
             n == Receiver!SelectInSeq(s, LAMBDA v : v = e)
             a == SubSeq(s, 1, n - 1)
             b == SubSeq(s, n + 1, Len(s))
  <2>1. I \in SUBSET Nat /\ I # {}
    BY <1>2
  <2>2. PICK m \in I : \A j \in I : m <= j
    BY <2>1, LeastNat
  <2>3. Receiver!Min(I) \in I
    BY <2>2 DEF Receiver!Min
  <2>4. n = Receiver!Min(I)
    BY <2>1 DEF Receiver!SelectInSeq
  <2>5. n \in 1 .. Len(s) /\ Len(s) \in Nat /\ s[n] = e
    BY <2>3, <2>4, LenProperties
  <2>6. Receiver!RemoveFirst(s, e) = Receiver!RemoveAt(s, n)
    BY <1>2 DEF Receiver!RemoveFirst
  <2> HIDE DEF n, I
  <2>7. Receiver!RemoveAt(s, n) = a \o b
    BY DEF Receiver!RemoveAt
  <2>8. /\ a \in Seq(S) /\ Len(a) = n - 1 /\ \A i \in 1 .. n - 1 : a[i] = s[i]
        /\ b \in Seq(S) /\ Len(b) = Len(s) - n
        /\ \A i \in 1 .. Len(s) - n : b[i] = s[n + i]
    <3>1. /\ n - 1 \in Int /\ n + 1 \in Int /\ Len(s) \in Int /\ 1 \in Int
          /\ \A i \in 1 .. n - 1 : s[i] \in S
          /\ \A i \in n + 1 .. Len(s) : s[i] \in S
      BY <2>5
    <3>2. a \in Seq(S) /\ Len(a) = n - 1 /\ \A i \in 1 .. n - 1 : a[i] = s[i]
      BY <2>5, <3>1, SubSeqProperties
    <3>3. /\ b \in Seq(S) /\ Len(b) = Len(s) - n
          /\ \A i \in 1 .. Len(s) - n : b[i] = s[n + i]
      BY <2>5, <3>1, SubSeqProperties
    <3> QED BY <3>2, <3>3
  <2> HIDE DEF a, b
  <2>9. Range(a \o b) = Range(a) \cup Range(b)
    BY <2>8, RangeConcatenation
  <2>10. /\ Range(a) = {a[i] : i \in 1 .. n - 1} /\ Range(b) = {b[i] : i \in 1 .. Len(s) - n}
         /\ Range(s) = {s[i] : i \in 1 .. Len(s)}
    <3>1. Range(a) = {a[i] : i \in 1 .. Len(a)} /\ Range(b) = {b[i] : i \in 1 .. Len(b)}
      BY <2>8, RangeEquality
    <3>2. Range(s) = {s[i] : i \in 1 .. Len(s)}
      BY RangeEquality
    <3> QED BY <2>8, <3>1, <3>2, Zenon
  <2>11. ASSUME NEW i \in 1 .. Len(s), s[i] # e PROVE s[i] \in Range(a) \cup Range(b)
    <3>1. CASE i < n
      <4>1. i \in 1 .. n - 1 /\ s[i] = a[i]
        BY <2>5, <2>8, <3>1
      <4> QED BY <2>10, <4>1
    <3>2. CASE i > n
      <4>1. i - n \in 1 .. Len(s) - n /\ s[n + (i - n)] = s[i]
        BY <2>5, <3>2
      <4>2. b[i - n] = s[i]
        BY <2>8, <4>1
      <4> QED BY <2>10, <4>1, <4>2
    <3> QED BY <2>5, <2>11, <3>1, <3>2
  <2> QED BY <2>6, <2>7, <2>9, <2>10, <2>11
<1> QED BY <1>1, <1>2

\* A sequence holds no more elements than it is long.
LEMMA RangeCardinality ==
  ASSUME NEW S, NEW s \in Seq(S)
  PROVE  IsFiniteSet(Range(s)) /\ Cardinality(Range(s)) <= Len(s)
<1> DEFINE n == Len(s)
           R == Range(s)
<1>1. n \in Nat /\ s \in [1 .. n -> S] /\ R = {s[i] : i \in 1 .. n}
  BY LenProperties, RangeEquality, SeqDef
<1>2. s \in Surjection(1 .. n, R)
  BY <1>1 DEF Surjection
<1> HIDE DEF n, R
<1>3. n \in Int /\ 1 \in Int
  BY <1>1
<1>4. IsFiniteSet(1 .. n) /\ Cardinality(1 .. n) = IF 1 > n THEN 0 ELSE n - 1 + 1
  BY <1>3, FS_Interval, Zenon
<1>5. IsFiniteSet(R) /\ Cardinality(R) <= Cardinality(1 .. n)
  BY <1>2, <1>4, FS_Surjection
<1> QED BY <1>1, <1>4, <1>5 DEF n, R

\* Messages the broker still has.
Kept == Range(queue) \cup Range(unacked) \cup Range(orphaned)

\* The broker lets a message go only when an acknowledgement for it arrives.
LEMMA LetGoStep ==
  ASSUME ArrivalsInv, acks \in Seq(Messages), [PipelineNext]_pipelineVars
  PROVE  \A m \in Messages : LetGo(m)' => LetGo(m) \/ m \in Range(acks)
<1> USE DEF ArrivalsInv
<1>1. CASE Kept \subseteq Kept' /\ published' = published
  BY <1>1 DEF Kept, LetGo
<1> DEFINE back == orphaned \o unacked
<1>2. back \in Seq(Messages) /\ Range(back) = Range(orphaned) \cup Range(unacked)
  BY ConcatProperties, RangeConcatenation
<1> HIDE DEF back
<1>3. CASE Receiver!Disconnect
  BY <1>1, <1>2, <1>3 DEF Receiver!Disconnect, Kept, back
<1>4. CASE UNCHANGED brokerVars
  BY <1>1, <1>4 DEF brokerVars, Kept
<1>5. CASE UNCHANGED <<queue, unacked, orphaned, published>>
  BY <1>1, <1>5 DEF Kept
<1>6. CASE ReceiverTask
  <2>1. Receiver!Disconnect \/ UNCHANGED <<queue, unacked, orphaned, published>>
    BY <1>6 DEF ReceiverTask, Receiver!ReceiverStep, Receiver!brokerVars,
         Receiver!Connect, Receiver!ConnectFails, Receiver!ConnectionLost, Receiver!Wake,
         Receiver!SessionEnds, Receiver!RejectMessage, Receiver!AcceptMessage, Receiver!Take,
         Receiver!PushRecord, Receiver!SkipRecord, Receiver!InputClosed, Receiver!TaskGone,
         Receiver!MessageDone
  <2> QED BY <1>3, <1>5, <2>1
<1>7. CASE Broker
  <2>1. CASE Receiver!Deliver
    <3>1. Range(queue) = {Head(queue)} \cup Range(Tail(queue)) /\ Head(queue) \in Messages
      BY <2>1, RangeHeadTail, HeadTailProperties DEF Receiver!Deliver
    <3>2. Range(Append(unacked, Head(queue))) = Range(unacked) \cup {Head(queue)}
      BY <3>1, RangeAppend
    <3> QED BY <1>1, <2>1, <3>1, <3>2 DEF Receiver!Deliver, Kept
  <2>2. CASE Receiver!AckArrives
    <3>1. Range(unacked) \ {Head(acks)} \subseteq Range(unacked')
      BY <2>2, RangeRemoveFirst DEF Receiver!AckArrives
    <3>2. Head(acks) \in Range(acks)
      BY <2>2, RangeHeadTail DEF Receiver!AckArrives
    <3> QED BY <2>2, <3>1, <3>2 DEF Receiver!AckArrives, LetGo
  <2>3. CASE Receiver!Requeue
    <3>1. Range(orphaned \o queue) = Range(orphaned) \cup Range(queue)
      BY RangeConcatenation
    <3> QED BY <1>1, <2>3, <3>1 DEF Receiver!Requeue, Kept
  <2> QED BY <1>7, <2>1, <2>2, <2>3 DEF Broker, Receiver!BrokerStep
<1>8. CASE World
  <2>1. CASE Receiver!Publish
    <3>1. published + 1 \in Messages
      BY <2>1, NextPublished DEF Receiver!Publish
    <3>2. Range(queue') = Range(queue) \cup {published + 1}
      BY <2>1, <3>1, RangeAppend DEF Receiver!Publish
    <3>3. \A m \in Messages : m <= published + 1 => m <= published \/ m = published + 1
      <4>1. \A m \in Messages : m \in Int
        BY LenProperties, ContentAssumption DEF Messages, Receiver!ReceiverAssumption
      <4> QED BY <4>1
    <3> QED BY <2>1, <3>2, <3>3 DEF Receiver!Publish, LetGo
  <2> QED BY <1>3, <1>8, <2>1 DEF World, Receiver!LoseConnection
<1>9. CASE HandleCtrlC \/ Restart
  BY <1>3, <1>9 DEF HandleCtrlC, Receiver!Abort, Receiver!TaskGone, Restart, FreshReceiver
<1>10. CASE HandleEvent \/ HandleTick \/ SendRows \/ WriterTask \/ CtrlC \/ EndInOrder
            \/ UNCHANGED pipelineVars
  <2>1. UNCHANGED brokerVars
    BY <1>10 DEF HandleEvent, HandleTick, SendRows, WriterTask, CtrlC, EndInOrder,
         pipelineVars, receiverVars
  <2> QED BY <1>4, <2>1
<1> QED BY <1>6, <1>7, <1>8, <1>9, <1>10 DEF PipelineNext

\* Steps other than an end of the process.
GoingOn == [PipelineNext]_pipelineVars /\ ~HandleCtrlC /\ ~Restart

\* What is handled or coming stays so as long as the process goes on.
LEMMA ComingStep ==
  ASSUME ArrivalsInv, UnreadInv, GoingOn
  PROVE  Handled \cup Coming \subseteq Handled' \cup Coming'
<1> DEFINE rest == IF pc = "push" THEN {x \in Good(current) : x[2] >= index} ELSE {}
<1> USE DEF ArrivalsInv, UnreadInv, ControlInv
<1>1. Coming = IF finishing THEN {} ELSE Range(rxIn) \cup rest
  BY DEF Coming
<1>2. Coming' = IF finishing' THEN {} ELSE Range(rxIn') \cup rest'
  BY DEF Coming, Good
<1>3. CASE UNCHANGED <<before, handled, finishing>> /\ (finishing \/ Range(rxIn) \cup rest
             \subseteq Range(rxIn') \cup rest')
  BY <1>1, <1>2, <1>3 DEF Handled
<1>4. CASE UNCHANGED <<rxIn, pc, current, index, finishing, before, handled>>
  BY <1>4 DEF Handled, Coming
<1>5. CASE ReceiverTask
  <2>1. UNCHANGED <<before, handled, finishing>> /\ ~finishing
    BY <1>5 DEF ReceiverTask, historyVars, lifeVars, mainVars
  <2>2. CASE Receiver!PushRecord
    <3> DEFINE x == <<current, index>>
    <3>1. x \in Slots /\ rxIn' = Append(rxIn, x)
      BY <2>2, PushedSlot DEF Receiver!PushRecord
    <3> HIDE DEF x
    <3>2. Range(rxIn') = Range(rxIn) \cup {x}
      <4>1. rxIn \in Seq(Slots)
        OBVIOUS
      <4> QED BY <3>1, <4>1, RangeAppend
    <3> USE DEF x
    <3>3. rest \subseteq rest' \cup {x}
      <4>1. pc = "push" /\ pc' = pc /\ current' = current /\ index' = index + 1
        BY <2>2 DEF Receiver!PushRecord, Receiver!AtRecord
      <4>2. \A y \in Good(current) : y = <<current, y[2]>> /\ y[2] \in Nat
        BY <4>1, GoodFacts
      <4> QED BY <4>1, <4>2 DEF Good
    <3> HIDE DEF x, rest
    <3> QED BY <1>3, <2>1, <3>2, <3>3
  <2>3. CASE Receiver!SkipRecord
    <3>1. /\ pc = "push" /\ pc' = pc /\ current' = current /\ index' = index + 1
          /\ rxIn' = rxIn /\ Records[current][index] = "short" /\ current \in Messages
      BY <2>3 DEF Receiver!SkipRecord, Receiver!AfterReject, Receiver!AtRecord,
           Receiver!channelVars
    <3>2. \A y \in Good(current) : y[2] \in Nat /\ Records[current][y[2]] = "ok"
      BY <3>1, GoodFacts
    <3>3. rest \subseteq rest'
      BY <3>1, <3>2 DEF Good
    <3> HIDE DEF rest
    <3> QED BY <1>3, <2>1, <3>1, <3>3
  <2>4. CASE Receiver!MessageDone
    <3>1. /\ pc = "push" /\ current \in Messages /\ index > Len(Records[current]) /\ rxIn' = rxIn
      BY <2>4 DEF Receiver!MessageDone, Receiver!channelVars
    <3>2. \A y \in Good(current) : y[2] \in 1 .. Len(Records[current])
      BY <3>1, GoodFacts
    <3>3. Len(Records[current]) \in Nat
      BY <3>1, LenProperties, ContentAssumption DEF Messages, Receiver!ReceiverAssumption
    <3>4. rest = {}
      BY <3>1, <3>2, <3>3
    <3> HIDE DEF rest
    <3> QED BY <1>3, <2>1, <3>1, <3>4
  <2>5. CASE Receiver!InputClosed
    BY <2>1, <2>5 DEF Receiver!InputClosed
  <2>6. CASE ~(Receiver!PushRecord \/ Receiver!SkipRecord \/ Receiver!MessageDone
               \/ Receiver!InputClosed)
    <3>1. pc # "push" /\ rxIn' = rxIn
      BY <1>5, <2>6 DEF ReceiverTask, Receiver!ReceiverStep, Receiver!Connect,
           Receiver!ConnectFails, Receiver!ConnectionLost, Receiver!Wake, Receiver!SessionEnds,
           Receiver!RejectMessage, Receiver!AcceptMessage, Receiver!Take, Receiver!channelVars
    <3>2. rest = {}
      BY <3>1
    <3> HIDE DEF rest
    <3> QED BY <1>3, <2>1, <3>1, <3>2
  <2> QED BY <2>2, <2>3, <2>4, <2>5, <2>6
<1>6. CASE HandleEvent
  <2>1. /\ rxIn # <<>> /\ rxIn' = Tail(rxIn) /\ handled' = Append(handled, Head(rxIn))
        /\ UNCHANGED <<before, finishing, pc, current, index>>
    BY <1>6 DEF HandleEvent, TakeEvent, receiverVars
  <2>2. Range(rxIn) = {Head(rxIn)} \cup Range(rxIn') /\ Head(rxIn) \in Slots
    BY <2>1, RangeHeadTail, HeadTailProperties
  <2>3. Range(handled') = Range(handled) \cup {Head(rxIn)}
    BY <2>1, <2>2, RangeAppend
  <2>4. rest' = rest
    BY <2>1 DEF Good
  <2> HIDE DEF rest
  <2> QED BY <1>1, <1>2, <2>1, <2>2, <2>3, <2>4 DEF Handled
<1>7. CASE Broker \/ World
  <2>1. UNCHANGED <<rxIn, pc, current, index, finishing, before, handled>>
    BY <1>7 DEF Broker, World, Receiver!BrokerStep, Receiver!Deliver, Receiver!AckArrives,
         Receiver!Requeue, Receiver!Publish, Receiver!LoseConnection, Receiver!taskVars,
         taskVars, inputVars, mainVars, historyVars, lifeVars
  <2> QED BY <1>4, <2>1
<1>8. CASE HandleTick \/ SendRows \/ WriterTask \/ CtrlC \/ EndInOrder \/ UNCHANGED pipelineVars
  <2>1. UNCHANGED <<rxIn, pc, current, index, finishing, before, handled>>
    BY <1>8 DEF HandleTick, TakeTick, SendRows, Send, CtrlC, PressCtrlC, EndInOrder, JoinWriter,
         WriterTask, WriterStep, BatchRow, BatchTick, ChannelClosed, UpsertOk, Retry, Drop, Wake,
         FlushDone, pipelineVars, receiverVars, taskVars, inputVars, mainVars, historyVars, lifeVars
  <2> QED BY <1>4, <2>1
<1> QED BY <1>5, <1>6, <1>7, <1>8 DEF GoingOn, PipelineNext

\* An acknowledgement is given when its message is next, and nothing else adds one.
LEMMA AcksStep ==
  ASSUME ArrivalsInv, UnreadInv, [PipelineNext]_pipelineVars
  PROVE  /\ acks' \in Seq(Messages)
         /\ \/ Range(acks') \subseteq Range(acks)
            \/ /\ ReceiverTask
               /\ \E m \in Messages :
                    /\ Range(acks') = Range(acks) \cup {m}
                    /\ Header[m] = "ok" =>
                         pc' = "push" /\ current' = m /\ index' = 1
<1> USE DEF ArrivalsInv, UnreadInv
<1>1. CASE acks' = acks
  BY <1>1
<1>2. CASE acks' = <<>>
  <2>1. \A S : <<>> \in Seq(S) /\ Len(<<>>) = 0
    BY EmptySeq
  <2>2. Range(<<>>) = {}
    BY <2>1 DEF Range
  <2> QED BY <1>2, <2>1, <2>2
<1>3. CASE ReceiverTask
  <2>1. CASE Receiver!Take /\ acks' = Receiver!Ack(Head(inbox))
              /\ (Header[Head(inbox)] = "ok" => pc' = "push" /\ current' = Head(inbox) /\ index' = 1)
    <3>1. Head(inbox) \in Messages
      BY <2>1, HeadTailProperties DEF Receiver!Take
    <3>2. CASE acks' = Append(acks, Head(inbox))
      <4>1. acks' \in Seq(Messages) /\ Range(acks') = Range(acks) \cup {Head(inbox)}
        BY <3>1, <3>2, AppendProperties, RangeAppend
      <4> QED BY <1>3, <2>1, <3>1, <4>1
    <3> QED BY <1>1, <2>1, <3>2 DEF Receiver!Ack
  <2>2. CASE Receiver!RejectMessage
    BY <2>1, <2>2 DEF Receiver!RejectMessage, Receiver!AckRejected
  <2>3. CASE Receiver!AcceptMessage
    BY <2>1, <2>3 DEF Receiver!AcceptMessage
  <2>4. CASE ~(Receiver!RejectMessage \/ Receiver!AcceptMessage)
    <3>1. acks' = acks \/ acks' = <<>>
      BY <1>3, <2>4 DEF ReceiverTask, Receiver!ReceiverStep, Receiver!brokerVars,
           Receiver!Connect, Receiver!ConnectFails, Receiver!ConnectionLost, Receiver!Wake,
           Receiver!SessionEnds, Receiver!PushRecord, Receiver!SkipRecord,
           Receiver!InputClosed, Receiver!TaskGone, Receiver!Disconnect, Receiver!MessageDone
    <3> QED BY <1>1, <1>2, <3>1
  <2> QED BY <2>2, <2>3, <2>4
<1>4. CASE Broker
  <2>1. CASE Receiver!AckArrives
    <3>1. acks' = Tail(acks) /\ acks # <<>>
      BY <2>1 DEF Receiver!AckArrives
    <3>2. acks' \in Seq(Messages) /\ Range(acks') \subseteq Range(acks)
      BY <3>1, HeadTailProperties, RangeHeadTail
    <3> QED BY <3>2
  <2> QED BY <1>1, <1>4, <2>1 DEF Broker, Receiver!BrokerStep, Receiver!Deliver, Receiver!Requeue
<1>5. CASE World \/ HandleCtrlC \/ Restart
  BY <1>1, <1>2, <1>5 DEF World, Receiver!Publish, Receiver!LoseConnection, Receiver!Disconnect,
       HandleCtrlC, Receiver!Abort, Receiver!TaskGone, Restart, FreshReceiver
<1>6. CASE HandleEvent \/ HandleTick \/ SendRows \/ WriterTask \/ CtrlC \/ EndInOrder
            \/ UNCHANGED pipelineVars
  <2>1. acks' = acks
    BY <1>6 DEF HandleEvent, HandleTick, SendRows, WriterTask, CtrlC, EndInOrder,
         pipelineVars, receiverVars, brokerVars
  <2> QED BY <1>1, <2>1
<1> QED BY <1>3, <1>4, <1>5, <1>6 DEF PipelineNext

\* ControlInv is inductive.
LEMMA ControlStep ==
  ASSUME ArrivalsInv, UnreadInv, [PipelineNext]_pipelineVars
  PROVE  ControlInv'
<1> USE DEF UnreadInv, ControlInv
<1>1. CASE ReceiverTask
  BY <1>1 DEF ReceiverTask, mainVars, Receiver!ReceiverStep, Receiver!channelVars,
       Receiver!Connect, Receiver!ConnectFails, Receiver!ConnectionLost, Receiver!Wake,
       Receiver!SessionEnds, Receiver!RejectMessage, Receiver!AcceptMessage, Receiver!Take,
       Receiver!PushRecord, Receiver!SkipRecord, Receiver!InputClosed, Receiver!MessageDone
<1>2. CASE Broker
  BY <1>2 DEF Broker, Receiver!BrokerStep, Receiver!Deliver, Receiver!AckArrives,
       Receiver!Requeue, Receiver!channelVars, taskVars, inputVars, mainVars
<1>3. CASE World
  BY <1>3 DEF World, Receiver!Publish, Receiver!LoseConnection, Receiver!Disconnect,
       Receiver!channelVars, taskVars, inputVars, mainVars
<1>4. CASE HandleEvent \/ HandleTick
  BY <1>4 DEF HandleEvent, TakeEvent, HandleTick, TakeTick, Return, inputVars,
       receiverVars, brokerVars
<1>5. CASE HandleCtrlC
  BY <1>5 DEF HandleCtrlC, LeaveLoop, Receiver!Abort, Receiver!TaskGone, Receiver!Disconnect,
       Receiver!channelVars
<1>6. CASE SendRows \/ CtrlC \/ EndInOrder
  BY <1>6 DEF SendRows, Send, CtrlC, PressCtrlC, EndInOrder, JoinWriter, inputVars, mainVars,
       receiverVars, brokerVars
<1>7. CASE WriterTask
  BY <1>7 DEF WriterTask, WriterStep, BatchRow, BatchTick, ChannelClosed, UpsertOk, Retry,
       Drop, Wake, FlushDone, inputVars, mainVars, receiverVars, brokerVars
<1>8. CASE Restart
  BY <1>8 DEF Restart, FreshTasks, FreshReceiver
<1>9. CASE UNCHANGED pipelineVars
  BY <1>9 DEF pipelineVars, taskVars, inputVars, mainVars, receiverVars, brokerVars
<1> QED BY <1>1, <1>2, <1>3, <1>4, <1>5, <1>6, <1>7, <1>8, <1>9 DEF PipelineNext

\* The channel holds no more than it can.
LEMMA RoomStep ==
  ASSUME ArrivalsInv, UnreadInv, [PipelineNext]_pipelineVars
  PROVE  Len(rxIn') <= ChanCap /\ handled' \in Seq(Slots)
<1> USE DEF ArrivalsInv, UnreadInv
<1>1. CASE rxIn' = rxIn /\ handled' = handled
  BY <1>1
<1>2. CASE rxIn' = <<>> /\ (handled' = handled \/ handled' = <<>>)
  <2>1. \A S : <<>> \in Seq(S) /\ Len(<<>>) = 0
    BY EmptySeq
  <2>2. 0 <= ChanCap
    BY ContentAssumption DEF Receiver!ReceiverAssumption
  <2> QED BY <1>2, <2>1, <2>2
<1>3. CASE ReceiverTask /\ Receiver!PushRecord
  <2>1. /\ rxIn' = Append(rxIn, <<current, index>>) /\ <<current, index>> \in Slots
        /\ Len(rxIn) < ChanCap /\ handled' = handled
    BY <1>3, PushedSlot DEF ReceiverTask, Receiver!PushRecord, Receiver!HasRoom,
         historyVars, lifeVars
  <2>2. Len(rxIn') = Len(rxIn) + 1 /\ Len(rxIn) \in Nat
    BY <2>1, AppendProperties, LenProperties
  <2>3. ChanCap \in Nat
    BY ContentAssumption DEF Receiver!ReceiverAssumption
  <2> QED BY <2>1, <2>2, <2>3
<1>4. CASE HandleEvent
  <2>1. /\ rxIn # <<>> /\ rxIn' = Tail(rxIn) /\ handled' = Append(handled, Head(rxIn))
    BY <1>4 DEF HandleEvent, TakeEvent
  <2>2. /\ Len(rxIn') = Len(rxIn) - 1 /\ Len(rxIn) \in Nat /\ handled' \in Seq(Slots)
    BY <2>1, HeadTailProperties, AppendProperties, LenProperties
  <2>3. ChanCap \in Nat /\ Len(rxIn) <= ChanCap
    BY ContentAssumption DEF Receiver!ReceiverAssumption
  <2>4. Len(rxIn') <= ChanCap
    BY <2>2, <2>3
  <2> QED BY <2>2, <2>4
<1>5. CASE Restart
  BY <1>2, <1>5 DEF Restart, FreshTasks
<1>6. CASE ~(HandleEvent \/ Restart \/ (ReceiverTask /\ Receiver!PushRecord))
  <2>1. handled' = handled
    BY <1>6 DEF PipelineNext, ReceiverTask, Broker, World, CtrlC, HandleTick, HandleCtrlC,
         SendRows, WriterTask, EndInOrder, historyVars, lifeVars, pipelineVars
  <2>2. CASE ReceiverTask \/ Broker \/ World
    <3>1. rxIn' = rxIn
      BY <1>6, <2>2 DEF ReceiverTask, Broker, World, Receiver!ReceiverStep, Receiver!BrokerStep,
         Receiver!Connect, Receiver!ConnectFails, Receiver!ConnectionLost, Receiver!Wake,
         Receiver!SessionEnds, Receiver!RejectMessage, Receiver!AcceptMessage, Receiver!Take,
         Receiver!SkipRecord, Receiver!InputClosed, Receiver!MessageDone, Receiver!Deliver,
         Receiver!AckArrives, Receiver!Requeue, Receiver!Publish, Receiver!LoseConnection,
         Receiver!channelVars, taskVars, inputVars
    <3> QED BY <1>1, <2>1, <3>1
  <2>3. CASE ~(ReceiverTask \/ Broker \/ World)
    <3>1. rxIn' = rxIn
      BY <1>6, <2>3 DEF PipelineNext, HandleTick, TakeTick, HandleCtrlC, LeaveLoop,
         SendRows, Send, CtrlC, PressCtrlC, EndInOrder, JoinWriter,
         WriterTask, WriterStep, BatchRow, BatchTick, ChannelClosed, UpsertOk, Retry, Drop, Wake,
         FlushDone, pipelineVars, taskVars, inputVars
    <3> QED BY <1>1, <2>1, <3>1
  <2> QED BY <2>2, <2>3
<1> QED BY <1>3, <1>4, <1>5, <1>6

\* AckInv is inductive: an acknowledgement is given when the whole of its message is
\* coming, and a connection takes its acknowledgements with it when it ends.
LEMMA AckStep ==
  ASSUME ArrivalsInv, UnreadInv, [PipelineNext]_pipelineVars
  PROVE  AckInv'
<1>1. CASE HandleCtrlC \/ Restart
  <2>1. acks' = <<>>
    BY <1>1 DEF HandleCtrlC, Receiver!Abort, Receiver!TaskGone, Receiver!Disconnect,
         Restart, FreshReceiver
  <2>2. Range(<<>>) = {}
    BY EmptySeq DEF Range
  <2> QED BY <2>1, <2>2 DEF AckInv
<1>2. CASE GoingOn
  <2>1. Handled \cup Coming \subseteq Handled' \cup Coming'
    BY <1>2, ComingStep
  <2>2. \A m \in Range(acks) : Header[m] = "ok" => Good(m) \subseteq Handled' \cup Coming'
    BY <2>1 DEF UnreadInv, AckInv
  <2>3. CASE Range(acks') \subseteq Range(acks)
    BY <2>2, <2>3 DEF AckInv, Good
  <2>4. ASSUME ReceiverTask, NEW m \in Messages, Header[m] = "ok",
               pc' = "push" /\ current' = m /\ index' = 1
        PROVE  Good(m) \subseteq Coming'
    <3>1. ~finishing' /\ Coming' = Range(rxIn') \cup {x \in Good(m) : x[2] >= 1}
      BY <2>4 DEF Coming, Good, ReceiverTask, UnreadInv, ControlInv, mainVars
    <3>2. \A x \in Good(m) : x[2] >= 1
      <4> TAKE x \in Good(m)
      <4>1. x[2] \in 1 .. Len(Records[m]) /\ Len(Records[m]) \in Nat
        BY GoodFacts, LenProperties, ContentAssumption DEF Messages, Receiver!ReceiverAssumption
      <4> QED BY <4>1
    <3> QED BY <3>1, <3>2
  <2>5. CASE \E m \in Messages : /\ ReceiverTask /\ Range(acks') = Range(acks) \cup {m}
                                 /\ Header[m] = "ok" => pc' = "push" /\ current' = m /\ index' = 1
    BY <2>2, <2>4, <2>5 DEF AckInv, Good
  <2> QED BY <2>3, <2>5, AcksStep
<1> QED BY <1>1, <1>2 DEF GoingOn

\* What is coming is at most a full channel and the records of one message.
LEMMA ComingBounded ==
  ASSUME ArrivalsInv, UnreadInv
  PROVE  IsFiniteSet(Coming) /\ Cardinality(Coming) <= Share
<1> DEFINE rest == IF pc = "push" THEN {x \in Good(current) : x[2] >= index} ELSE {}
           chan == Range(rxIn)
<1>1. Coming \subseteq chan \cup rest
  BY DEF Coming
<1>2. IsFiniteSet(chan) /\ Cardinality(chan) <= ChanCap /\ Cardinality(chan) \in Nat
  <2>1. IsFiniteSet(chan) /\ Cardinality(chan) <= Len(rxIn) /\ Len(rxIn) \in Nat
    BY RangeCardinality, LenProperties DEF ArrivalsInv
  <2>2. Cardinality(chan) \in Nat /\ ChanCap \in Nat /\ Len(rxIn) <= ChanCap
    BY <2>1, FS_CardinalityType, ContentAssumption DEF Receiver!ReceiverAssumption, UnreadInv
  <2> HIDE DEF chan
  <2> QED BY <2>1, <2>2
<1>3. /\ IsFiniteSet(rest) /\ Cardinality(rest) \in Nat
      /\ Cardinality(rest) + ChanCap <= Share
  <2>1. CASE pc = "push"
    <3>1. current \in Messages /\ rest \in SUBSET Good(current)
      BY <2>1 DEF ArrivalsInv
    <3> HIDE DEF rest
    <3>2. /\ IsFiniteSet(rest) /\ Cardinality(rest) <= Cardinality(Good(current))
          /\ Cardinality(rest) \in Nat /\ Cardinality(Good(current)) \in Nat
      BY <3>1, GoodFinite, FS_Subset, FS_CardinalityType
    <3>3. Cardinality(Good(current)) + ChanCap <= Share /\ ChanCap \in Nat /\ Share \in Nat
      BY <3>1, ShareFacts, ContentAssumption DEF Receiver!ReceiverAssumption
    <3> QED BY <3>2, <3>3
  <2>2. CASE pc # "push"
    <3>1. rest = {} /\ IsFiniteSet({}) /\ Cardinality({}) = 0
      BY <2>2, FS_EmptySet
    <3>2. ChanCap \in Nat /\ Share \in Nat /\ ChanCap <= Share
      BY ShareFacts, ContentAssumption DEF Receiver!ReceiverAssumption
    <3> HIDE DEF rest
    <3> QED BY <3>1, <3>2
  <2> QED BY <2>1, <2>2
<1>4. Share \in Nat /\ ChanCap \in Nat
  BY ShareFacts, ContentAssumption DEF Receiver!ReceiverAssumption
<1> HIDE DEF rest, chan
<1>5. /\ IsFiniteSet(chan \cup rest)
      /\ Cardinality(chan \cup rest) =
           Cardinality(chan) + Cardinality(rest) - Cardinality(chan \cap rest)
  BY <1>2, <1>3, FS_Union
<1>6. Cardinality(chan \cap rest) \in Nat
  BY <1>2, FS_Intersection, FS_CardinalityType
<1>7. /\ IsFiniteSet(Coming) /\ Cardinality(Coming) <= Cardinality(chan \cup rest)
      /\ Cardinality(Coming) \in Nat
  BY <1>1, <1>5, FS_Subset, FS_CardinalityType
<1> QED BY <1>2, <1>3, <1>4, <1>5, <1>6, <1>7

\* Finitely many events are left unread.
LEMMA UnreadFinite ==
  IsFiniteSet(Unread) /\ Cardinality(Unread) \in Nat
<1>1. Unread \subseteq AllGood
  BY DEF Unread, AllGood
<1> QED BY <1>1, GoodFinite, FS_Subset, FS_CardinalityType

\* An event is unread when its message is let go, no engine was given it, and it is not
\* coming.
LEMMA UnreadMembers ==
  \A x : x \in Unread <=> /\ x \notin Handled \cup Coming
                       /\ \E m \in Messages : LetGo(m) /\ x \in Good(m)
<1> DEFINE gone == {m \in Messages : LetGo(m)}
           all == UNION {Good(m) : m \in gone}
<1>1. Unread = all \ (Handled \cup Coming)
  BY DEF Unread, Messages
<1>2. \A m \in Messages : m \in gone <=> LetGo(m)
  OBVIOUS
<1>3. \A m \in gone : m \in Messages
  OBVIOUS
<1> HIDE DEF gone
<1>4. \A x : x \in all <=> \E m \in gone : x \in Good(m)
  OBVIOUS
<1> HIDE DEF all
<1> QED BY <1>1, <1>2, <1>3, <1>4

\* A step leaves unread only what was handled or coming and is so no more.
LEMMA UnreadStep ==
  ASSUME ArrivalsInv, UnreadInv, [PipelineNext]_pipelineVars
  PROVE  Unread' \subseteq Unread \cup ((Handled \cup Coming) \ (Handled' \cup Coming'))
<1>0. (\A x : x \in Unread <=> /\ x \notin Handled \cup Coming
                           /\ \E m \in Messages : LetGo(m) /\ x \in Good(m))'
  BY UnreadMembers, PTL
<1> SUFFICES ASSUME NEW x \in Unread'
             PROVE  x \in Unread \cup ((Handled \cup Coming) \ (Handled' \cup Coming'))
  OBVIOUS
<1>1. PICK m \in Messages : LetGo(m)' /\ x \in Good(m) /\ x \notin Handled' \cup Coming'
  BY <1>0 DEF Messages, Good
<1>2. CASE x \in Handled \cup Coming
  BY <1>1, <1>2
<1>3. CASE x \notin Handled \cup Coming
  <2>1. Header[m] = "ok"
    BY <1>1 DEF LetGo
  <2>2. m \notin Range(acks)
    BY <1>1, <1>3, <2>1 DEF UnreadInv, AckInv
  <2>3. LetGo(m)
    BY <1>1, <2>2, LetGoStep DEF UnreadInv
  <2> QED BY <1>1, <1>3, <2>3, UnreadMembers
<1> QED BY <1>2, <1>3

\* UnreadInv is inductive: only an end of the process leaves anything unread, at most
\* what was coming.
LEMMA UnreadInvStep ==
  ASSUME ArrivalsInv, UnreadInv, [PipelineNext]_pipelineVars
  PROVE  UnreadInv'
<1> DEFINE c == Cardinality(Unread)
           ends == deaths + IF finishing THEN 1 ELSE 0
           goal == deaths \in Nat /\ c <= ends * Share
<1>1. c \in Nat /\ c' \in Nat /\ c <= ends * Share /\ Share \in Nat /\ deaths \in Nat
  <2>1. (IsFiniteSet(Unread) /\ Cardinality(Unread) \in Nat)'
    BY UnreadFinite, PTL
  <2> QED BY <2>1, UnreadFinite, ShareFacts DEF UnreadInv, UnreadBounded, Share
<1>2. finishing \in BOOLEAN /\ finishing' \in BOOLEAN /\ ControlInv'
  BY ControlStep DEF UnreadInv, ControlInv
<1>3. goal'
  <2>1. CASE GoingOn
    <3>1. Unread' \subseteq Unread
      BY <2>1, UnreadStep, ComingStep
    <3>2. c' <= c
      BY <3>1, UnreadFinite, FS_Subset
    <3>3. deaths' = deaths /\ finishing' = finishing
      BY <2>1 DEF GoingOn, PipelineNext, ReceiverTask, Broker, World, CtrlC, PressCtrlC,
         HandleEvent, TakeEvent, HandleTick, TakeTick, SendRows, Send, WriterTask, WriterStep,
         BatchRow, BatchTick, ChannelClosed, UpsertOk, Retry, Drop, Wake, FlushDone,
         EndInOrder, JoinWriter, historyVars, pipelineVars, taskVars, mainVars
    <3> HIDE DEF c
    <3> QED BY <1>1, <3>2, <3>3
  <2>2. CASE HandleCtrlC \/ Restart
    <3>1. Handled \subseteq Handled'
      <4>1. CASE HandleCtrlC
        BY <4>1 DEF HandleCtrlC, Handled
      <4>2. CASE Restart
        BY <4>2 DEF Restart, Handled
      <4> QED BY <2>2, <4>1, <4>2
    <3>2. Unread' \subseteq Unread \cup Coming
      BY <3>1, UnreadStep
    <3>3. /\ IsFiniteSet(Coming) /\ Cardinality(Coming) <= Share /\ Cardinality(Coming) \in Nat
          /\ finishing => Coming = {}
      BY ComingBounded, FS_CardinalityType DEF Coming
    <3>4. /\ IsFiniteSet(Unread \cup Coming) /\ Cardinality(Unread \cup Coming) \in Nat
          /\ Cardinality(Unread \cup Coming) = c + Cardinality(Coming) - Cardinality(Unread \cap Coming)
          /\ Cardinality(Unread \cap Coming) \in Nat
      BY <3>3, UnreadFinite, FS_Union, FS_Intersection, FS_CardinalityType
    <3>5. c' <= Cardinality(Unread \cup Coming)
      BY <3>2, <3>4, FS_Subset
    <3>6. CASE finishing
      <4>1. c' <= c
        <5>1. Unread \cup Coming = Unread
          BY <3>3, <3>6
        <5> QED BY <3>5, <5>1
      <4>2. Restart
        BY <2>2, <3>6 DEF HandleCtrlC, UnreadInv, ControlInv
      <4>3. deaths' = deaths + 1 /\ finishing' = FALSE
        BY <4>2 DEF Restart, FreshTasks
      <4> HIDE DEF c
      <4> QED BY <1>1, <3>6, <4>1, <4>3
    <3>7. CASE ~finishing
      <4>1. c' <= c + Share
        BY <1>1, <3>3, <3>4, <3>5
      <4>2. ends = deaths /\ ends' = deaths + 1 /\ deaths' \in Nat
        BY <1>1, <2>2, <3>7 DEF HandleCtrlC, LeaveLoop, Restart, FreshTasks
      <4>3. (deaths + 1) * Share = deaths * Share + Share /\ deaths * Share \in Nat
        BY <1>1
      <4> HIDE DEF c, ends
      <4>4. ends * Share = deaths * Share /\ ends' * Share = (deaths + 1) * Share
        BY <4>2
      <4>5. c' <= ends' * Share
        BY <1>1, <4>1, <4>3, <4>4
      <4> QED BY <4>2, <4>5
    <3> QED BY <1>2, <3>6, <3>7
  <2>3. GoingOn \/ HandleCtrlC \/ Restart
    BY DEF GoingOn
  <2> HIDE DEF goal
  <2> QED BY <2>1, <2>2, <2>3
<1>4. UnreadBounded'
  BY <1>3 DEF UnreadBounded, Share, Sizes, Good
<1> QED BY <1>2, <1>3, <1>4, AcksStep, RoomStep, AckStep DEF UnreadInv

\* What is acknowledged is handled, coming, or unread since a process ended,
\* whatever is published, delivered and delivered again.
THEOREM UnreadInvariance == PipelineSpec => []UnreadInv
<1>1. PipelineInit => UnreadInv
  <2> SUFFICES ASSUME PipelineInit PROVE UnreadInv
    OBVIOUS
  <2>1. /\ deaths = 0 /\ handled = <<>> /\ acks = <<>> /\ rxIn = <<>> /\ published = 0
        /\ finishing = FALSE /\ main = "select" /\ rxInOpen = TRUE
    BY DEF PipelineInit, TasksInit, TasksIdle, Receiver!ReceiverInit, Receiver!TaskInit
  <2>2. \A S : <<>> \in Seq(S) /\ Len(<<>>) = 0
    BY EmptySeq
  <2>3. Range(acks) = {}
    BY <2>1 DEF Range
  <2>4. \A m \in Messages : ~LetGo(m)
    <3>1. \A m \in Messages : m \in Nat /\ m >= 1
      BY LenProperties, ContentAssumption DEF Messages, Receiver!ReceiverAssumption
    <3> QED BY <2>1, <3>1 DEF LetGo
  <2>5. Unread = {}
    BY <2>4 DEF Unread, Messages
  <2>6. UnreadBounded
    <3>1. Cardinality(Unread) = 0 /\ Share \in Nat /\ 0 * Share = 0
      BY <2>5, FS_EmptySet, ShareFacts
    <3> QED BY <2>1, <3>1 DEF UnreadBounded, Share
  <2>7. ControlInv
    BY <2>1 DEF ControlInv
  <2>8. Len(rxIn) <= ChanCap
    BY <2>1, <2>2, ContentAssumption DEF Receiver!ReceiverAssumption
  <2> QED BY <2>1, <2>2, <2>3, <2>6, <2>7, <2>8 DEF UnreadInv, AckInv
<1>2. ArrivalsInv /\ UnreadInv /\ [PipelineNext]_pipelineVars => UnreadInv'
  BY UnreadInvStep
<1>3. PipelineInv => ArrivalsInv
  BY DEF PipelineInv
<1> QED BY <1>1, <1>2, <1>3, PipelineInvariance, PTL DEF PipelineSpec

\* docs/DESIGN.md 4.0 accepts that records of a message which is acknowledged before
\* they are passed on may be lost on the way to the engine: each process that
\* ends leaves at most a full channel and one message unread, and none are left
\* while it runs, however often the connection is lost and whatever the broker
\* delivers again.  For what an engine was given see UnsavedIsHeld.
THEOREM UnreadIsBounded == PipelineSpec => []UnreadBounded
<1>1. UnreadInv => UnreadBounded
  BY DEF UnreadInv
<1> QED BY <1>1, UnreadInvariance, PTL

-----------------------------------------------------------------------------
(* What the table has in the end. *)

\* The rows returned so far, and what of them is on the way to the table.
Closed == Upsert(returned, out)

Underway == {Record(k, Closed[k]) : k \in DOMAIN Closed}

KeysOf(s) == {s[i].key : i \in 1 .. Len(s)}

OnTheWay == {r.key : r \in outbox} \cup KeysOf(txDb) \cup KeysOf(batch)

\* What is on the way is what was returned.
RowsInv ==
  /\ outbox \subseteq Underway
  /\ txDb \in Seq(Underway)
  /\ batch \in Seq(Underway)

\* Whatever was returned is on the way, in the table, or was given up.
Settled(k) == k \in dropped \/ (k \in DOMAIN db /\ db[k] = Closed[k])

SettledInv == \A k \in DOMAIN Closed : k \in OnTheWay \/ Settled(k)

\* The last position of a block is pending, or is the row that was returned.
LastIn(p, b) ==
  \A k \in DOMAIN p :
    \/ k \in DOMAIN b /\ b[k] = p[k]
    \/ k \in DOMAIN Closed /\ Closed[k] = p[k]

LastInv == LastIn(produced, blocks)

\* How the tasks end: the loop with an empty engine, the sender when everything
\* is sent, and the writer when the channel is closed and empty.
EndInv ==
  /\ main \in {"select", "send", "join", "done"}
  /\ main # "send" => outbox = {}
  /\ main \in {"select", "send"} <=> txDbOpen
  /\ main \in {"join", "done"} => finishing
  /\ main = "done" => writer = "done"
  /\ finishing => finished /\ DOMAIN blocks = {}
  /\ closing => ~txDbOpen /\ txDb = <<>> /\ writer \in {"flush", "sleep", "done"}
  /\ writer = "done" => closing /\ batch = <<>>

TableInv == RowsInv /\ SettledInv /\ LastInv /\ EndInv

\* A row on the way is the one returned for its key.
LEMMA UnderwayFacts ==
  /\ \A r \in Underway : r.key \in DOMAIN Closed /\ r.row = Closed[r.key]
  /\ \A k \in DOMAIN Closed : Record(k, Closed[k]) \in Underway /\ Record(k, Closed[k]).key = k
<1>1. ASSUME NEW k \in DOMAIN Closed
      PROVE  /\ Record(k, Closed[k]) \in Underway /\ Record(k, Closed[k]).key = k
             /\ Record(k, Closed[k]).row = Closed[k]
  BY DEF Underway, Record
<1>2. ASSUME NEW r \in Underway
      PROVE  r.key \in DOMAIN Closed /\ r.row = Closed[r.key]
  <2>1. PICK k \in DOMAIN Closed : r = Record(k, Closed[k])
    BY DEF Underway
  <2> QED BY <1>1, <2>1
<1> QED BY <1>1, <1>2

\* A sequence over a set is one over every larger set.
LEMMA SeqGrows ==
  ASSUME NEW S, NEW T, S \subseteq T, NEW s \in Seq(S)
  PROVE  s \in Seq(T)
<1>1. Len(s) \in Nat /\ s \in [1 .. Len(s) -> S]
  BY LenProperties
<1>2. s \in [1 .. Len(s) -> T]
  BY <1>1
<1> QED BY <1>1, <1>2, SeqDef

\* The keys of a channel or batch, as rows enter and leave it.
LEMMA KeysAppend ==
  ASSUME NEW S, NEW s \in Seq(S), NEW x \in S
  PROVE  KeysOf(Append(s, x)) = KeysOf(s) \cup {x.key}
<1> DEFINE t == Append(s, x)
           n == Len(s)
<1>1. /\ n \in Nat /\ Len(t) = n + 1 /\ t[n + 1] = x
      /\ \A i \in 1 .. n : t[i] = s[i]
  BY AppendProperties, LenProperties
<1> HIDE DEF t
<1>2. KeysOf(s) = {s[i].key : i \in 1 .. n} /\ KeysOf(t) = {t[i].key : i \in 1 .. n + 1}
  BY <1>1 DEF KeysOf
<1> HIDE DEF n
<1>3. ASSUME NEW k \in KeysOf(t) PROVE k \in KeysOf(s) \cup {x.key}
  <2>1. PICK i \in 1 .. n + 1 : k = t[i].key
    BY <1>2
  <2>2. i \in 1 .. n \/ i = n + 1
    BY <1>1
  <2> QED BY <1>1, <1>2, <2>1, <2>2
<1>4. ASSUME NEW k \in KeysOf(s) \cup {x.key} PROVE k \in KeysOf(t)
  <2>1. CASE k = x.key
    <3>1. n + 1 \in 1 .. n + 1
      BY <1>1
    <3> QED BY <1>1, <1>2, <2>1, <3>1
  <2>2. CASE k \in KeysOf(s)
    <3>1. PICK i \in 1 .. n : k = s[i].key
      BY <1>2, <2>2
    <3>2. i \in 1 .. n + 1
      BY <1>1
    <3> QED BY <1>1, <1>2, <3>1, <3>2
  <2> QED BY <1>4, <2>1, <2>2
<1> QED BY <1>3, <1>4 DEF t

\* As KeysAppend, for a row that is taken out.
LEMMA KeysHeadTail ==
  ASSUME NEW S, NEW s \in Seq(S), s # <<>>
  PROVE  KeysOf(s) = {Head(s).key} \cup KeysOf(Tail(s))
<1> DEFINE t == Tail(s)
           n == Len(s)
<1>1. /\ n \in Nat /\ n >= 1 /\ Len(t) = n - 1 /\ Head(s) = s[1]
      /\ \A i \in 1 .. n - 1 : t[i] = s[i + 1]
  BY HeadTailProperties, LenProperties, EmptySeq
<1> HIDE DEF t
<1>2. KeysOf(s) = {s[i].key : i \in 1 .. n} /\ KeysOf(t) = {t[i].key : i \in 1 .. n - 1}
  BY <1>1 DEF KeysOf
<1> HIDE DEF n
<1>3. ASSUME NEW k \in KeysOf(s) PROVE k = s[1].key \/ k \in KeysOf(t)
  <2>1. PICK i \in 1 .. n : k = s[i].key
    BY <1>2
  <2>2. i = 1 \/ i - 1 \in 1 .. n - 1
    BY <1>1
  <2>3. i - 1 \in 1 .. n - 1 => t[i - 1] = s[i]
    <3>1. (i - 1) + 1 = i
      OBVIOUS
    <3> QED BY <1>1, <3>1
  <2> QED BY <1>2, <2>1, <2>2, <2>3
<1>4. ASSUME NEW k \in KeysOf(t) PROVE k \in KeysOf(s)
  <2>1. PICK i \in 1 .. n - 1 : k = t[i].key
    BY <1>2
  <2>2. i + 1 \in 1 .. n /\ t[i] = s[i + 1]
    BY <1>1
  <2> QED BY <1>2, <2>1, <2>2
<1>5. s[1].key \in KeysOf(s)
  <2>1. 1 \in 1 .. n
    BY <1>1
  <2> QED BY <1>2, <2>1
<1>6. Head(s).key = s[1].key
  BY <1>1
<1> QED BY <1>3, <1>4, <1>5, <1>6 DEF t

\* Nothing is in an empty one.
LEMMA KeysEmpty == KeysOf(<<>>) = {}
<1>1. Len(<<>>) = 0
  BY EmptySeq
<1> QED BY <1>1 DEF KeysOf

\* A call adds the rows it returns to those returned before.
LEMMA ClosedGrows ==
  ASSUME EngineInv, ReturnedInv, NEW b, Closes(b), returned' = Upsert(returned, out)
  PROVE  /\ DOMAIN Closed' = DOMAIN Closed \cup DOMAIN out'
         /\ \A k \in DOMAIN Closed : Closed'[k] = Closed[k]
         /\ \A k \in DOMAIN out' : Closed'[k] = out'[k] /\ k \in DOMAIN b /\ out'[k] = b[k]
         /\ \A k \in DOMAIN b :
              k \in DOMAIN out' \/ (k \in DOMAIN blocks' /\ blocks'[k] = b[k])
<1> DEFINE ended == {x \in DOMAIN b : KeyEnd(x) <= confirmed'}
<1>1. confirmed \in Int /\ confirmed' \in Int /\ confirmed' >= confirmed
  BY DEF EngineInv, Closes, Ts
<1>2. DOMAIN out' = ended /\ \A k \in ended : out'[k] = b[k]
  BY DEF Closes, UpTo
<1>3. \A k \in DOMAIN Closed : k \in Keys /\ KeyEnd(k) <= confirmed
  BY DEF Closed, Upsert, ReturnedInv
<1>4. \A k \in DOMAIN b : k \in Keys /\ KeyEnd(k) > confirmed
  BY DEF Closes, PendingOK, WellFiled
<1>5. \A k \in Keys : KeyEnd(k) \in Int
  BY KeyEndType DEF Ts
<1>6. DOMAIN Closed \cap ended = {}
  BY <1>1, <1>3, <1>4, <1>5
<1>7. Closed' = [k \in DOMAIN Closed \cup DOMAIN out' |->
                   IF k \in DOMAIN out' THEN out'[k] ELSE Closed[k]]
  <2>1. Closed' = Upsert(returned', out') /\ returned' = Closed
    BY DEF Closed
  <2> QED BY <2>1 DEF Upsert
<1>8. ASSUME NEW k \in DOMAIN b, k \notin DOMAIN out'
      PROVE  k \in DOMAIN blocks' /\ blocks'[k] = b[k]
  <2>1. KeyEnd(k) > confirmed'
    BY <1>1, <1>2, <1>4, <1>5, <1>8
  <2> QED BY <2>1 DEF Closes, Beyond
<1> QED BY <1>2, <1>6, <1>7, <1>8

\* So the rows it returns are on the way, and the others are where they were.
LEMMA ReturnedOnTheWay ==
  ASSUME EngineInv, ReturnedInv, RowsInv, SettledInv, NEW b, Closes(b),
         returned' = Upsert(returned, out), outbox' = Outgoing(out'), outbox = {},
         UNCHANGED <<txDb, batch, db, dropped>>
  PROVE  RowsInv' /\ SettledInv'
<1>1. /\ DOMAIN Closed' = DOMAIN Closed \cup DOMAIN out'
      /\ \A k \in DOMAIN Closed : Closed'[k] = Closed[k]
      /\ \A k \in DOMAIN out' : Closed'[k] = out'[k]
  BY ClosedGrows
<1>2. Underway \subseteq Underway'
  <2>1. ASSUME NEW k \in DOMAIN Closed PROVE Record(k, Closed[k]) \in Underway'
    <3>1. k \in DOMAIN Closed' /\ Closed'[k] = Closed[k]
      BY <1>1
    <3> QED BY <3>1 DEF Underway, Record
  <2> QED BY <2>1 DEF Underway
<1>3. outbox' \subseteq Underway'
  <2>1. ASSUME NEW k \in DOMAIN out' PROVE Record(k, out'[k]) \in Underway'
    <3>1. k \in DOMAIN Closed' /\ Closed'[k] = out'[k]
      BY <1>1
    <3> QED BY <3>1 DEF Underway, Record
  <2> QED BY <2>1 DEF Outgoing
<1>4. txDb' \in Seq(Underway') /\ batch' \in Seq(Underway')
  BY <1>2, SeqGrows DEF RowsInv
<1>5. DOMAIN out' \subseteq {r.key : r \in outbox'}
  <2>1. ASSUME NEW k \in DOMAIN out' PROVE \E r \in outbox' : r.key = k
    <3>1. Record(k, out'[k]) \in outbox' /\ Record(k, out'[k]).key = k
      BY DEF Outgoing, Record
    <3> QED BY <3>1
  <2> QED BY <2>1
<1>6. OnTheWay = KeysOf(txDb) \cup KeysOf(batch)
  BY DEF OnTheWay
<1>7. OnTheWay' = {r.key : r \in outbox'} \cup KeysOf(txDb) \cup KeysOf(batch)
  BY DEF OnTheWay, KeysOf
<1>8. ASSUME NEW k \in DOMAIN Closed' PROVE k \in OnTheWay' \/ Settled(k)'
  <2>1. CASE k \in DOMAIN out'
    BY <1>5, <1>7, <2>1
  <2>2. CASE k \in DOMAIN Closed
    <3>1. k \in OnTheWay \/ Settled(k)
      BY <2>2 DEF SettledInv
    <3>2. Settled(k) => Settled(k)'
      BY <1>1, <2>2 DEF Settled
    <3> QED BY <1>6, <1>7, <3>1, <3>2
  <2> QED BY <1>1, <1>8, <2>1, <2>2
<1> QED BY <1>3, <1>4, <1>8 DEF RowsInv, SettledInv

\* And the last positions, if the call has merged what it was given, stay pending or
\* are returned.
LEMMA LastReturned ==
  ASSUME EngineInv, ReturnedInv, NEW b, Closes(b), returned' = Upsert(returned, out),
         LastIn(produced', b)
  PROVE  LastInv'
<1>1. /\ DOMAIN Closed' = DOMAIN Closed \cup DOMAIN out'
      /\ \A k \in DOMAIN Closed : Closed'[k] = Closed[k]
      /\ \A k \in DOMAIN out' : Closed'[k] = out'[k] /\ k \in DOMAIN b /\ out'[k] = b[k]
      /\ \A k \in DOMAIN b :
           k \in DOMAIN out' \/ (k \in DOMAIN blocks' /\ blocks'[k] = b[k])
  BY ClosedGrows
<1>2. ASSUME NEW k \in DOMAIN produced'
      PROVE  \/ k \in DOMAIN blocks' /\ blocks'[k] = produced'[k]
             \/ k \in DOMAIN Closed' /\ Closed'[k] = produced'[k]
  BY <1>1 DEF LastIn
<1> QED BY <1>2 DEF LastInv, LastIn

\* The position an event gives replaces that of its block before it.
LEMMA LastMerged ==
  ASSUME EngineInv, LastInv, NEW ev \in Events, ProcessFirst(ev), NEW p,
         p = Upsert(produced, RowsOf(ProcessRecords(ev)))
  PROVE  LastIn(p, BlocksWith(ProcessRecords(ev)))
<1> DEFINE recs == ProcessRecords(ev)
           b == BlocksWith(recs)
<1>1. CASE recs = {}
  <2>1. b = blocks
    BY <1>1 DEF BlocksWith
  <2>2. RowsOf(recs) = NoRows /\ DOMAIN NoRows = {}
    BY <1>1 DEF RowsOf, NoRows
  <2> HIDE DEF recs, b
  <2>3. DOMAIN p = DOMAIN produced /\ \A k \in DOMAIN produced : p[k] = produced[k]
    BY <2>2 DEF Upsert, recs
  <2> QED BY <2>1, <2>3 DEF LastInv, LastIn, b, recs
<1>2. CASE recs # {}
  <2>1. PICK r \in recs : r = CHOOSE x \in recs : TRUE
    BY <1>2
  <2>2. b = Ingest(r)
    BY <1>2, <2>1 DEF BlocksWith
  <2>3. RowsOf(recs) = [k \in {Key(r)} |-> Rounded(r)]
    BY <1>2, <2>1 DEF RowsOf
  <2>4. /\ p[Key(r)] = Rounded(r) /\ DOMAIN p = DOMAIN produced \cup {Key(r)}
        /\ \A k \in DOMAIN produced \ {Key(r)} : p[k] = produced[k]
    BY <2>3 DEF Upsert
  <2>5. /\ b[Key(r)] = Rounded(r) /\ DOMAIN b = DOMAIN blocks \cup {Key(r)}
        /\ \A k \in DOMAIN blocks \ {Key(r)} : b[k] = blocks[k]
    BY <2>2 DEF Ingest
  <2> HIDE DEF recs, b
  <2>6. LastIn(p, b)
    BY <2>4, <2>5 DEF LastInv, LastIn
  <2> QED BY <2>6 DEF b, recs
<1> QED BY <1>1, <1>2

\* A statement writes what was returned, and leaves what it does not write.
LEMMA UpsertSettles ==
  ASSUME RowsInv, db' = Upserted, NEW k \in DOMAIN Closed
  PROVE  /\ k \in KeysOf(batch) => k \in DOMAIN db' /\ db'[k] = Closed[k]
         /\ k \in DOMAIN db /\ db[k] = Closed[k] => k \in DOMAIN db' /\ db'[k] = Closed[k]
<1>1. /\ DOMAIN batch = 1 .. Len(batch) /\ BatchKeys = KeysOf(batch)
      /\ \A i \in DOMAIN batch : batch[i] \in Underway
  BY LenProperties, ElementOfSeq DEF RowsInv, BatchKeys, KeysOf
<1>2. ASSUME k \in BatchKeys PROVE k \in DOMAIN db' /\ db'[k] = Closed[k]
  <2>1. \E i \in DOMAIN batch : batch[i].key = k
    BY <1>2 DEF BatchKeys
  <2>2. PICK i \in DOMAIN batch :
          batch[i].key = k /\ i = CHOOSE j \in DOMAIN batch : batch[j].key = k
    BY <2>1
  <2>3. k \in DOMAIN db' /\ db'[k] = batch[i].row
    BY <1>2, <2>2 DEF Upserted
  <2>4. batch[i].row = Closed[k]
    BY <1>1, <2>2, UnderwayFacts
  <2> QED BY <2>3, <2>4
<1>3. ASSUME k \notin BatchKeys, k \in DOMAIN db
      PROVE  k \in DOMAIN db' /\ db'[k] = db[k]
  BY <1>3 DEF Upserted
<1> QED BY <1>1, <1>2, <1>3

\* The table, after a statement that has been carried out or not.
LEMMA SettledStays ==
  ASSUME RowsInv, db' = db \/ db' = Upserted, Closed' = Closed, dropped \subseteq dropped',
         NEW k \in DOMAIN Closed, Settled(k)
  PROVE  Settled(k)'
  BY UpsertSettles DEF Settled

\* The two tasks pass the rows on, up to the table.
LEMMA RowsOfTasks ==
  ASSUME RowsInv, SettledInv, Closed' = Closed, Underway' = Underway, Send \/ WriterStep
  PROVE  RowsInv' /\ SettledInv'
<1> DEFINE held == {r.key : r \in outbox}
<1>0. OnTheWay = held \cup KeysOf(txDb) \cup KeysOf(batch)
  BY DEF OnTheWay
<1>1. CASE Send
  <2>1. PICK r \in outbox : txDb' = Append(txDb, r) /\ outbox' = outbox \ {r}
    BY <1>1 DEF Send
  <2>2. batch' = batch /\ db' = db /\ dropped' = dropped
    BY <1>1 DEF Send, writerVars
  <2>3. RowsInv'
    <3>1. r \in Underway
      BY <2>1 DEF RowsInv
    <3>2. txDb' \in Seq(Underway)
      BY <2>1, <3>1, AppendProperties DEF RowsInv
    <3> QED BY <2>1, <2>2, <3>2 DEF RowsInv
  <2>4. KeysOf(txDb)' = KeysOf(txDb) \cup {r.key}
    <3>1. r \in Underway /\ txDb \in Seq(Underway)
      BY <2>1 DEF RowsInv
    <3>2. KeysOf(Append(txDb, r)) = KeysOf(txDb) \cup {r.key}
      BY <3>1, KeysAppend
    <3> QED BY <2>1, <3>2 DEF KeysOf
  <2>5. held \subseteq held' \cup {r.key}
    BY <2>1
  <2>6. OnTheWay' = held' \cup KeysOf(txDb)' \cup KeysOf(batch)
    BY <2>2 DEF OnTheWay, KeysOf
  <2> HIDE DEF held
  <2>7. OnTheWay \subseteq OnTheWay'
    BY <1>0, <2>4, <2>5, <2>6
  <2>8. \A k \in DOMAIN Closed : Settled(k) => Settled(k)'
    BY <2>2 DEF Settled
  <2> QED BY <2>3, <2>7, <2>8 DEF SettledInv
<1>2. CASE BatchRow
  <2>1. /\ txDb # <<>> /\ batch' = Append(batch, Head(txDb)) /\ txDb' = Tail(txDb)
        /\ outbox' = outbox /\ db' = db /\ dropped' = dropped
    BY <1>2 DEF BatchRow, mainVars
  <2>2. Head(txDb) \in Underway /\ Tail(txDb) \in Seq(Underway)
    BY <2>1, HeadTailProperties DEF RowsInv
  <2>3. RowsInv'
    BY <2>1, <2>2, AppendProperties DEF RowsInv
  <2>4. KeysOf(txDb) = {Head(txDb).key} \cup KeysOf(Tail(txDb))
    BY <2>1, KeysHeadTail DEF RowsInv
  <2>5. KeysOf(Append(batch, Head(txDb))) = KeysOf(batch) \cup {Head(txDb).key}
    BY <2>2, KeysAppend DEF RowsInv
  <2>6. OnTheWay' = held \cup KeysOf(Tail(txDb)) \cup KeysOf(Append(batch, Head(txDb)))
    BY <2>1 DEF OnTheWay, KeysOf
  <2> HIDE DEF held
  <2>7. OnTheWay' = OnTheWay
    BY <1>0, <2>4, <2>5, <2>6
  <2>8. \A k \in DOMAIN Closed : Settled(k) => Settled(k)'
    BY <2>1 DEF Settled
  <2> QED BY <2>3, <2>7, <2>8 DEF SettledInv
<1>3. CASE BatchTick \/ ChannelClosed \/ Retry \/ Wake
  <2>1. /\ UNCHANGED <<outbox, txDb, batch, dropped>>
        /\ db' = db \/ db' = Upserted
    BY <1>3 DEF BatchTick, ChannelClosed, Retry, Wake, Failed, mainVars
  <2>2. OnTheWay' = OnTheWay /\ RowsInv'
    BY <2>1 DEF OnTheWay, KeysOf, RowsInv
  <2>3. \A k \in DOMAIN Closed : Settled(k) => Settled(k)'
    BY <2>1, SettledStays
  <2> QED BY <2>2, <2>3 DEF SettledInv
<1>4. CASE UpsertOk \/ Drop
  <2>1. /\ UNCHANGED <<outbox, txDb>> /\ batch' = <<>>
        /\ (db' = Upserted /\ dropped' = dropped)
             \/ ((db' = db \/ db' = Upserted) /\ dropped' = dropped \cup BatchKeys)
    BY <1>4 DEF UpsertOk, Drop, Failed, FlushDone, AfterFlush, mainVars
  <2>2. RowsInv'
    BY <2>1, EmptySeq DEF RowsInv
  <2>3. OnTheWay' = held \cup KeysOf(txDb)
    <3>1. KeysOf(batch)' = {}
      BY <2>1, KeysEmpty DEF KeysOf
    <3> QED BY <2>1, <3>1 DEF OnTheWay, KeysOf
  <2>4. BatchKeys = KeysOf(batch)
    BY LenProperties DEF RowsInv, BatchKeys, KeysOf
  <2> HIDE DEF held
  <2>5. ASSUME NEW k \in DOMAIN Closed PROVE k \in OnTheWay' \/ Settled(k)'
    <3>1. CASE k \in KeysOf(batch)
      <4>1. CASE k \in dropped'
        BY <4>1 DEF Settled
      <4>2. CASE db' = Upserted
        <5>1. k \in DOMAIN db' /\ db'[k] = Closed[k]
          BY <3>1, <4>2, UpsertSettles
        <5> QED BY <5>1 DEF Settled
      <4> QED BY <2>1, <2>4, <3>1, <4>1, <4>2
    <3>2. CASE Settled(k)
      BY <2>1, <3>2, SettledStays
    <3> QED BY <1>0, <2>3, <3>1, <3>2 DEF SettledInv
  <2> QED BY <2>2, <2>5 DEF SettledInv
<1> QED BY <1>1, <1>2, <1>3, <1>4 DEF WriterStep

\* What the tasks have is left alone by everything else.
LEMMA TableKinds ==
  ASSUME [PipelineNext]_pipelineVars
  PROVE  \/ HandleEvent \/ HandleTick \/ HandleCtrlC \/ Restart
         \/ UNCHANGED <<engineVars, lifeVars>> /\ (Send \/ WriterStep)
         \/ UNCHANGED <<engineVars, lifeVars, outbox, txDb, batch, db, dropped>>
<1>1. CASE ReceiverTask \/ Broker \/ World
  BY <1>1 DEF ReceiverTask, Broker, World, historyVars, taskVars, mainVars, writerVars
<1>2. CASE CtrlC \/ EndInOrder
  BY <1>2 DEF CtrlC, PressCtrlC, EndInOrder, JoinWriter, historyVars, mainVars, writerVars
<1>3. CASE SendRows \/ WriterTask
  BY <1>3 DEF SendRows, WriterTask, historyVars
<1>4. CASE UNCHANGED pipelineVars
  BY <1>4 DEF pipelineVars, historyVars, taskVars, mainVars, writerVars
<1> QED BY <1>1, <1>2, <1>3, <1>4 DEF PipelineNext

\* An engine call of the loop merges its event and closes blocks, and its rows
\* are taken over.
LEMMA LoopCall ==
  ASSUME PipelineInv, TableInv, HandleEvent \/ HandleTick \/ HandleCtrlC
  PROVE  \E b : /\ Closes(b) /\ LastIn(produced', b)
                /\ returned' = Upsert(returned, out) /\ outbox' = Outgoing(out')
                /\ outbox = {} /\ UNCHANGED <<txDb, batch, db, dropped>>
<1> USE DEF PipelineInv, TableInv
<1>1. /\ returned' = Upsert(returned, out) /\ outbox' = Outgoing(out')
      /\ outbox = {} /\ UNCHANGED <<txDb, batch, db, dropped>>
  BY DEF HandleEvent, TakeEvent, HandleTick, TakeTick, HandleCtrlC, LeaveLoop, Return,
         writerVars, EndInv
<1>2. CASE HandleEvent
  <2> DEFINE ev == EventOf(Head(rxIn))
             b == BlocksWith(ProcessRecords(ev))
  <2>1. /\ ev \in Events
        /\ \/ (DropLate(ev) \/ ProcessDuplicate(ev)) /\ produced' = produced
           \/ /\ ProcessFirst(ev)
              /\ produced' = Upsert(produced, RowsOf(ProcessRecords(ev)))
    BY <1>2, HeadSlot DEF HandleEvent
  <2> HIDE DEF ev
  <2>2. CASE (DropLate(ev) \/ ProcessDuplicate(ev)) /\ produced' = produced
    <3>1. Closes(blocks) /\ LastIn(produced', blocks)
      BY <2>1, <2>2, QuietSteps DEF LastInv
    <3> QED BY <1>1, <3>1
  <2>3. CASE ProcessFirst(ev) /\ produced' = Upsert(produced, RowsOf(ProcessRecords(ev)))
    <3>1. Closes(b)
      BY <2>1, <2>3, FirstCloses
    <3>2. LastIn(produced', b)
      BY <2>1, <2>3, LastMerged
    <3> HIDE DEF b
    <3> QED BY <1>1, <3>1, <3>2
  <2> QED BY <2>1, <2>2, <2>3
<1>3. CASE HandleTick \/ HandleCtrlC
  <2>1. Closes(blocks) /\ produced' = produced
    BY <1>3, QuietSteps DEF HandleTick, HandleCtrlC
  <2>2. LastIn(produced', blocks)
    BY <2>1 DEF LastInv
  <2> QED BY <1>1, <2>1, <2>2
<1> QED BY <1>2, <1>3

\* RowsInv, SettledInv and LastInv are inductive.
LEMMA TableStep ==
  ASSUME PipelineInv, TableInv, [PipelineNext]_pipelineVars
  PROVE  RowsInv' /\ SettledInv' /\ LastInv'
<1> USE DEF PipelineInv, TableInv
<1>1. CASE HandleEvent \/ HandleTick \/ HandleCtrlC
  <2>1. PICK b : /\ Closes(b) /\ LastIn(produced', b)
                 /\ returned' = Upsert(returned, out) /\ outbox' = Outgoing(out')
                 /\ outbox = {} /\ UNCHANGED <<txDb, batch, db, dropped>>
    BY <1>1, LoopCall
  <2> QED BY <2>1, ReturnedOnTheWay, LastReturned
<1>2. CASE Restart
  <2>1. /\ out' = NoRows /\ returned' = NoRows /\ produced' = NoRows
        /\ outbox' = {} /\ txDb' = <<>> /\ batch' = <<>>
    BY <1>2 DEF Restart, FreshEngine, FreshTasks
  <2>2. DOMAIN Closed' = {} /\ DOMAIN produced' = {}
    BY <2>1 DEF Closed, Upsert, NoRows
  <2> QED BY <2>1, <2>2, EmptySeq DEF RowsInv, SettledInv, LastInv, LastIn
<1>3. CASE UNCHANGED <<engineVars, lifeVars>>
  <2>1. /\ UNCHANGED <<blocks, out, returned, produced>>
    BY <1>3 DEF engineVars, lifeVars
  <2>2. Closed' = Closed /\ Underway' = Underway /\ LastInv'
    BY <2>1 DEF Closed, Upsert, Underway, LastInv, LastIn
  <2>3. CASE Send \/ WriterStep
    BY <2>2, <2>3, RowsOfTasks
  <2>4. CASE UNCHANGED <<outbox, txDb, batch, db, dropped>>
    <3>1. RowsInv' /\ OnTheWay' = OnTheWay
      BY <2>2, <2>4 DEF RowsInv, OnTheWay, KeysOf
    <3>2. \A k \in DOMAIN Closed : Settled(k) => Settled(k)'
      BY <2>2, <2>4 DEF Settled
    <3> QED BY <2>2, <3>1, <3>2 DEF SettledInv
  <2> QED BY <1>1, <1>2, <2>2, <2>3, <2>4, TableKinds
<1> QED BY <1>1, <1>2, <1>3, TableKinds

\* The engine as it is once the loop is left, and before.
LEMMA EndOfEngine ==
  ASSUME PipelineInv, EndInv, ControlInv, [PipelineNext]_pipelineVars
  PROVE  finishing' => finished' /\ DOMAIN blocks' = {}
<1>1. CASE HandleEvent \/ HandleTick
  <2>1. ~finishing /\ finishing' = finishing
    BY <1>1 DEF HandleEvent, TakeEvent, HandleTick, TakeTick, ControlInv
  <2> QED BY <2>1
<1>2. CASE HandleCtrlC
  BY <1>2 DEF HandleCtrlC, Finish, NoRows
<1>3. CASE Restart
  BY <1>3 DEF Restart, FreshTasks
<1>4. CASE ~(HandleEvent \/ HandleTick \/ HandleCtrlC \/ Restart)
  <2>1. UNCHANGED <<finishing, finished, blocks>>
    BY <1>4, StepKinds DEF PipelineNext, pipelineVars, taskVars, mainVars, engineVars,
         ReceiverTask, Broker, World, CtrlC, PressCtrlC, SendRows, Send, WriterTask, WriterStep,
         BatchRow, BatchTick, ChannelClosed, UpsertOk, Retry, Drop, Wake, FlushDone,
         EndInOrder, JoinWriter
  <2> QED BY <2>1 DEF EndInv
<1> QED BY <1>1, <1>2, <1>3, <1>4

\* EndInv is inductive.
LEMMA EndStep ==
  ASSUME PipelineInv, EndInv, RowsInv, ControlInv, [PipelineNext]_pipelineVars
  PROVE  EndInv'
<1> USE DEF EndInv
<1>0. finishing' => finished' /\ DOMAIN blocks' = {}
  BY EndOfEngine
<1>1. CASE ReceiverTask \/ Broker \/ World \/ CtrlC \/ UNCHANGED pipelineVars
  <2>1. UNCHANGED <<main, outbox, txDbOpen, finishing, writer, closing, txDb, batch>>
    BY <1>1 DEF ReceiverTask, Broker, World, CtrlC, PressCtrlC, pipelineVars, taskVars,
         mainVars, writerVars
  <2> QED BY <1>0, <2>1
<1>2. CASE HandleEvent \/ HandleTick
  BY <1>0, <1>2 DEF HandleEvent, TakeEvent, HandleTick, TakeTick, Return, writerVars
<1>3. CASE HandleCtrlC
  BY <1>0, <1>3 DEF HandleCtrlC, LeaveLoop, SenderKept, writerVars
<1>4. CASE SendRows
  BY <1>0, <1>4 DEF SendRows, Send, SenderKept, writerVars
<1>5. CASE EndInOrder
  BY <1>0, <1>5 DEF EndInOrder, JoinWriter, writerVars
<1>6. CASE WriterTask
  <2>0. UNCHANGED <<main, outbox, txDbOpen, finishing>>
    BY <1>6 DEF WriterTask, WriterStep, BatchRow, BatchTick, ChannelClosed, UpsertOk, Retry,
         Drop, Wake, FlushDone, mainVars
  <2>1. CASE BatchRow
    BY <1>0, <2>0, <2>1 DEF BatchRow
  <2>2. CASE BatchTick \/ Wake
    BY <1>0, <2>0, <2>2 DEF BatchTick, Wake
  <2>3. CASE ChannelClosed
    BY <1>0, <2>0, <2>3 DEF ChannelClosed, AtClose
  <2>4. CASE UpsertOk \/ Drop
    BY <1>0, <2>0, <2>4 DEF UpsertOk, Drop, FlushDone, AfterFlush
  <2>5. CASE Retry
    BY <1>0, <2>0, <2>5 DEF Retry
  <2> QED BY <1>6, <2>1, <2>2, <2>3, <2>4, <2>5 DEF WriterTask, WriterStep
<1>7. CASE Restart
  BY <1>0, <1>7 DEF Restart, FreshTasks
<1> QED BY <1>1, <1>2, <1>3, <1>4, <1>5, <1>6, <1>7 DEF PipelineNext

THEOREM TableInvariance == PipelineSpec => []TableInv
<1>1. PipelineInit => TableInv
  <2> SUFFICES ASSUME PipelineInit PROVE TableInv
    OBVIOUS
  <2>1. /\ out = NoRows /\ returned = NoRows /\ produced = NoRows /\ TasksIdle
    BY DEF PipelineInit, EngineInit, TasksInit
  <2>2. DOMAIN Closed = {} /\ DOMAIN produced = {}
    BY <2>1 DEF Closed, Upsert, NoRows
  <2>3. RowsInv /\ SettledInv /\ LastInv
    BY <2>1, <2>2, EmptySeq DEF TasksIdle, RowsInv, SettledInv, LastInv, LastIn
  <2>4. EndInv
    BY <2>1 DEF TasksIdle, EndInv
  <2> QED BY <2>3, <2>4 DEF TableInv
<1>2. PipelineInv /\ UnreadInv /\ TableInv /\ [PipelineNext]_pipelineVars => TableInv'
  <2> SUFFICES ASSUME PipelineInv, UnreadInv, TableInv, [PipelineNext]_pipelineVars
               PROVE  TableInv'
    OBVIOUS
  <2>1. EndInv'
    BY EndStep DEF TableInv, UnreadInv
  <2> QED BY <2>1, TableStep DEF TableInv
<1> QED BY <1>1, <1>2, PipelineInvariance, UnreadInvariance, PTL DEF PipelineSpec

\* docs/CODE_GUIDE.md 15: the program stores what it has on its way out.  When a
\* process has ended in order, its table holds for every block the row of the last
\* position its engine let through, or the batch with it was given up, whatever
\* earlier processes left there and however often a statement failed.
THEOREM TableHoldsLast == PipelineSpec => []TableIsLastAccepted
<1>1. TableInv => TableIsLastAccepted
  <2> SUFFICES ASSUME TableInv, main = "done", NEW k \in DOMAIN produced
               PROVE  k \in dropped \/ (k \in DOMAIN db /\ db[k] = produced[k])
    BY DEF TableIsLastAccepted
  <2>1. /\ outbox = {} /\ txDb = <<>> /\ batch = <<>> /\ DOMAIN blocks = {}
    BY DEF TableInv, EndInv
  <2>2. OnTheWay = {}
    BY <2>1, KeysEmpty DEF OnTheWay
  <2>3. k \in DOMAIN Closed /\ Closed[k] = produced[k]
    BY <2>1 DEF TableInv, LastInv, LastIn
  <2>4. Settled(k)
    BY <2>2, <2>3 DEF TableInv, SettledInv
  <2> QED BY <2>3, <2>4 DEF Settled
<1> QED BY <1>1, TableInvariance, PTL

\* The row of a last position that is not stored or given up is where UnsavedHeld
\* says.
LEMMA UnsavedPlaces ==
  ASSUME TableInv, NEW k \in Unsaved
  PROVE  \/ k \in DOMAIN blocks /\ blocks[k] = produced[k]
         \/ Record(k, produced[k]) \in outbox
         \/ Record(k, produced[k]) \in Range(txDb) /\ k \in KeysOf(txDb)
         \/ Record(k, produced[k]) \in Range(batch) /\ k \in KeysOf(batch)
<1> USE DEF TableInv
<1>1. k \in DOMAIN produced /\ k \notin dropped /\ ~(k \in DOMAIN db /\ db[k] = produced[k])
  BY DEF Unsaved
<1>2. CASE k \in DOMAIN blocks /\ blocks[k] = produced[k]
  BY <1>2
<1>3. CASE k \in DOMAIN Closed /\ Closed[k] = produced[k]
  <2>1. k \in OnTheWay
    BY <1>1, <1>3 DEF SettledInv, Settled
  <2>2. ASSUME NEW r \in Underway, r.key = k PROVE r = Record(k, produced[k])
    <3>1. PICK x \in DOMAIN Closed : r = Record(x, Closed[x])
      BY DEF Underway
    <3>2. r.key = x
      BY <3>1 DEF Record
    <3> QED BY <1>3, <2>2, <3>1, <3>2
  <2>3. CASE k \in {r.key : r \in outbox}
    BY <2>2, <2>3 DEF RowsInv
  <2>4. ASSUME NEW s \in Seq(Underway), k \in KeysOf(s) PROVE Record(k, produced[k]) \in Range(s)
    <3>1. PICK i \in 1 .. Len(s) : k = s[i].key
      BY <2>4 DEF KeysOf
    <3>2. i \in DOMAIN s /\ s[i] \in Underway
      BY <3>1, LenProperties, ElementOfSeq
    <3>3. s[i] = Record(k, produced[k])
      BY <2>2, <3>1, <3>2
    <3> QED BY <3>2, <3>3 DEF Range
  <2> QED BY <2>1, <2>3, <2>4 DEF OnTheWay, RowsInv
<1> QED BY <1>1, <1>2, <1>3 DEF LastInv, LastIn

\* While a process runs a row is lost only with a batch that is given up, and when it
\* dies only the rows it still holds, for any frames, messages and settings.
THEOREM UnsavedIsHeld == PipelineSpec => []UnsavedHeld
<1>1. TableInv => UnsavedHeld
  BY UnsavedPlaces DEF UnsavedHeld
<1> QED BY <1>1, TableInvariance, PTL

\* The channel and the batch keep within their capacities, and the writer waits for
\* more only while the batch is not full.
SizesInv ==
  /\ Len(txDb) <= ChanCap /\ Len(batch) <= BatchSize
  /\ writer = "select" => Len(batch) < BatchSize

LEMMA SizesStep ==
  ASSUME RowsInv, SizesInv, [PipelineNext]_pipelineVars
  PROVE  SizesInv'
<1> USE DEF RowsInv, SizesInv
<1>0. Len(txDb) \in Nat /\ Len(batch) \in Nat /\ ChanCap \in Nat /\ BatchSize \in Nat \ {0}
  BY TasksAssumption, LenProperties
<1>1. CASE SendRows
  <2>1. UNCHANGED <<batch, writer>> /\ Len(txDb) < ChanCap
    BY <1>1 DEF SendRows, Send, writerVars
  <2>2. PICK r \in outbox : txDb' = Append(txDb, r)
    BY <1>1 DEF SendRows, Send
  <2>3. r \in Underway
    BY <2>2
  <2>4. Len(txDb') = Len(txDb) + 1
    BY <2>2, <2>3, AppendProperties
  <2> QED BY <1>0, <2>1, <2>4
<1>2. CASE WriterTask /\ BatchRow
  <2>1. /\ writer = "select" /\ txDb # <<>> /\ txDb' = Tail(txDb)
        /\ batch' = Append(batch, Head(txDb))
        /\ writer' = IF Len(batch') >= BatchSize THEN "flush" ELSE "select"
    BY <1>2 DEF BatchRow, BatchFull
  <2>2. Len(txDb') = Len(txDb) - 1 /\ Head(txDb) \in Underway
    BY <2>1, HeadTailProperties
  <2>3. Len(batch') = Len(batch) + 1
    BY <2>1, <2>2, AppendProperties
  <2> QED BY <1>0, <2>1, <2>2, <2>3
<1>3. CASE WriterTask /\ (BatchTick \/ ChannelClosed \/ Retry \/ Wake)
  <2>1. UNCHANGED <<txDb, batch>> /\ writer' # "select"
    BY <1>3 DEF BatchTick, ChannelClosed, AtClose, Retry, Wake
  <2> QED BY <2>1
<1>4. CASE WriterTask /\ (UpsertOk \/ Drop)
  <2>1. txDb' = txDb /\ batch' = <<>>
    BY <1>4 DEF UpsertOk, Drop, FlushDone, AfterFlush
  <2>2. Len(batch') = 0
    BY <2>1, EmptySeq
  <2> QED BY <1>0, <2>1, <2>2
<1>5. CASE Restart
  <2>1. txDb' = <<>> /\ batch' = <<>>
    BY <1>5 DEF Restart, FreshTasks
  <2>2. Len(txDb') = 0 /\ Len(batch') = 0
    BY <2>1, EmptySeq
  <2> QED BY <1>0, <2>2
<1>6. CASE UNCHANGED <<txDb, batch, writer>>
  BY <1>6
<1>7. SendRows \/ WriterTask \/ Restart \/ UNCHANGED <<txDb, batch, writer>>
  BY DEF PipelineNext, ReceiverTask, Broker, World, CtrlC, PressCtrlC, HandleEvent, TakeEvent,
         HandleTick, TakeTick, HandleCtrlC, LeaveLoop, EndInOrder, JoinWriter, pipelineVars,
         taskVars, writerVars
<1> QED BY <1>1, <1>2, <1>3, <1>4, <1>5, <1>6, <1>7 DEF WriterTask, WriterStep

\* A sequence has at most as many keys as places.
LEMMA KeysBounded ==
  ASSUME NEW S, NEW s \in Seq(S)
  PROVE  IsFiniteSet(KeysOf(s)) /\ Cardinality(KeysOf(s)) <= Len(s)
<1> DEFINE n == Len(s)
           f == [i \in 1 .. n |-> s[i].key]
<1>1. n \in Nat /\ n \in Int /\ 1 \in Int
  BY LenProperties
<1>2. f \in Surjection(1 .. n, KeysOf(s))
  BY DEF Surjection, KeysOf
<1> HIDE DEF f, n
<1>3. IsFiniteSet(1 .. n) /\ Cardinality(1 .. n) = n
  <2>1. IsFiniteSet(1 .. n)
    BY <1>1, FS_Interval
  <2>2. Cardinality(1 .. n) = IF 1 > n THEN 0 ELSE n - 1 + 1
    BY <1>1, FS_Interval
  <2> QED BY <1>1, <2>1, <2>2
<1>4. IsFiniteSet(KeysOf(s)) /\ Cardinality(KeysOf(s)) <= Cardinality(1 .. n)
  BY <1>2, <1>3, FS_Surjection
<1> QED BY <1>3, <1>4 DEF n

\* Unsaved rows that are not in the engine or among the rows of its last call any
\* more.
UnsavedSent ==
  {k \in Unsaved : k \notin DOMAIN blocks /\ Record(k, produced[k]) \notin outbox}

\* Of the rows that a process loses if it dies, at most a full channel and a full
\* batch have left the engine loop, however long the database has been failing.
THEOREM UnsavedSentBounded ==
  PipelineSpec => [](IsFiniteSet(UnsavedSent) /\ Cardinality(UnsavedSent) <= ChanCap + BatchSize)
<1>1. PipelineInit => SizesInv
  <2> SUFFICES ASSUME PipelineInit PROVE SizesInv
    OBVIOUS
  <2>1. txDb = <<>> /\ batch = <<>>
    BY DEF PipelineInit, TasksInit, TasksIdle
  <2>2. Len(txDb) = 0 /\ Len(batch) = 0
    BY <2>1, EmptySeq
  <2> QED BY <2>2, TasksAssumption DEF SizesInv
<1>2. TableInv /\ SizesInv /\ [PipelineNext]_pipelineVars => SizesInv'
  BY SizesStep DEF TableInv
<1>3. TableInv /\ SizesInv =>
        IsFiniteSet(UnsavedSent) /\ Cardinality(UnsavedSent) <= ChanCap + BatchSize
  <2> SUFFICES ASSUME TableInv, SizesInv
               PROVE  IsFiniteSet(UnsavedSent) /\ Cardinality(UnsavedSent) <= ChanCap + BatchSize
    OBVIOUS
  <2> DEFINE A == KeysOf(txDb)
             B == KeysOf(batch)
  <2>1. UnsavedSent \subseteq A \cup B
    BY UnsavedPlaces DEF UnsavedSent
  <2>2. /\ IsFiniteSet(A) /\ Cardinality(A) <= Len(txDb)
        /\ IsFiniteSet(B) /\ Cardinality(B) <= Len(batch)
    BY KeysBounded DEF TableInv, RowsInv
  <2>3. Len(txDb) \in Nat /\ Len(batch) \in Nat
    BY LenProperties DEF TableInv, RowsInv
  <2> HIDE DEF A, B
  <2>4. /\ IsFiniteSet(A \cup B)
        /\ Cardinality(A \cup B) = Cardinality(A) + Cardinality(B) - Cardinality(A \cap B)
        /\ IsFiniteSet(A \cap B)
    BY <2>2, FS_Union, FS_Intersection
  <2>5. IsFiniteSet(UnsavedSent) /\ Cardinality(UnsavedSent) <= Cardinality(A \cup B)
    BY <2>1, <2>4, FS_Subset
  <2>6. /\ Cardinality(A) \in Nat /\ Cardinality(B) \in Nat /\ Cardinality(A \cap B) \in Nat
        /\ Cardinality(A \cup B) \in Nat /\ Cardinality(UnsavedSent) \in Nat
    BY <2>2, <2>4, <2>5, FS_CardinalityType
  <2> QED BY <2>2, <2>3, <2>4, <2>5, <2>6, TasksAssumption DEF SizesInv
<1> QED BY <1>1, <1>2, <1>3, TableInvariance, PTL DEF PipelineSpec
=============================================================================
