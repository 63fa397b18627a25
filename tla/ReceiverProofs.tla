--------------------------- MODULE ReceiverProofs ---------------------------
(***************************************************************************)
(* Theorems about the receiver for every sequence of messages, window of   *)
(* unacknowledged deliveries, capacity of the channel, range of delays,    *)
(* and number of failures.                                                 *)
(***************************************************************************)
EXTENDS ReceiverProperties, FiniteSetTheorems, SequenceTheorems, TLAPS

USE ReceiverAssumption

-----------------------------------------------------------------------------
(* The inductive invariant, in parts. *)

\* The delay before the n-th sleep after the one that follows a session.
Delay(n) ==
  IF InitialBackoff * 2 ^ n < MaxBackoff THEN InitialBackoff * 2 ^ n ELSE MaxBackoff

\* The task: where it is in a message, its counters, and its delay.
TaskInv ==
  /\ pc \in {"connect", "next", "push", "backoff", "returned"}
  /\ txOpen \in BOOLEAN /\ Len(tx) <= ChanCap /\ tx \in Seq(Messages \X Nat)
  /\ pc = "push" => current \in Messages /\ index \in 1 .. Len(Records[current]) + 1
  /\ metrics \in [Counters -> Nat]
  /\ sleeps \in Nat /\ backoff \in InitialBackoff .. MaxBackoff
  /\ pc = "connect" => backoff = Delay(sleeps)
  /\ pc = "backoff" => sleeps > 0 /\ backoff = Delay(sleeps - 1)

\* The connection: what is unacknowledged is what the acknowledgements on their
\* way are for, and behind it what the consumer has not taken yet.
LinkInv ==
  /\ published \in 0 .. Len(Header)
  /\ queue \in Seq(Messages) /\ orphaned \in Seq(Messages)
  /\ acks \in Seq(Messages) /\ inbox \in Seq(Messages) /\ unacked \in Seq(Messages)
  /\ connected \in BOOLEAN
  /\ connected => pc \in {"next", "push"} /\ unacked = acks \o inbox
  /\ ~connected => unacked = <<>> /\ acks = <<>>
  /\ Prefetch # 0 => Len(unacked) <= Prefetch /\ Len(inbox) <= Prefetch

\* The records of a message are pushed, up to the one at hand.
Passed(m) ==
  IF pc = "push" /\ current = m
  THEN {i \in GoodRecords(m) : i < index} \subseteq sent[m]
  ELSE sent[m] = GoodRecords(m)

\* The broker, or the consumer on a live connection, still has the message.
Kept(m) ==
  Contains(queue, m) \/ Contains(orphaned, m) \/ (connected /\ Contains(inbox, m))

\* A published message that can be decoded is kept until it is passed on.
HandledInv ==
  /\ sent \in [Messages -> SUBSET Nat]
  /\ \A m \in Messages : sent[m] \subseteq GoodRecords(m)
  /\ pc # "returned" /\ txOpen =>
       \A m \in Messages : m <= published /\ Header[m] = "ok" => Kept(m) \/ Passed(m)

ReceiverInv == TaskInv /\ LinkInv /\ HandledInv

-----------------------------------------------------------------------------
(* The delays. *)

\* Powers of two, from the number of subsets: a set with one element more has
\* each subset twice, without that element and with it.
LEMMA PowerFacts ==
  ASSUME NEW n \in Nat
  PROVE  2 ^ n \in Nat /\ 2 ^ n >= 1 /\ 2 ^ (n + 1) = 2 * 2 ^ n
<1> DEFINE S == 1 .. n
           T == 1 .. n + 1
           P == (SUBSET S) \X {0, 1}
           f == [x \in P |-> IF x[2] = 0 THEN x[1] ELSE x[1] \cup {n + 1}]
<1>1. IsFiniteSet(S) /\ Cardinality(S) = n /\ IsFiniteSet(T) /\ Cardinality(T) = n + 1
  BY FS_Interval
<1>2. /\ IsFiniteSet(SUBSET S) /\ Cardinality(SUBSET S) = 2 ^ n
      /\ IsFiniteSet(SUBSET T) /\ Cardinality(SUBSET T) = 2 ^ (n + 1)
  BY <1>1, FS_SUBSET
<1>3. 2 ^ n \in Nat /\ 2 ^ n >= 1
  <2>1. Cardinality(SUBSET S) \in Nat
    BY <1>2, FS_CardinalityType
  <2>2. SUBSET S # {}
    OBVIOUS
  <2>3. Cardinality(SUBSET S) # 0
    BY <1>2, <2>2, FS_EmptySet
  <2> QED BY <1>2, <2>1, <2>3
<1>4. IsFiniteSet({0, 1}) /\ Cardinality({0, 1}) = 2
  <2>1. IsFiniteSet(0 .. 1) /\ Cardinality(0 .. 1) = 2
    <3>1. 0 \in Int /\ 1 \in Int
      OBVIOUS
    <3>2. IsFiniteSet(0 .. 1) /\ Cardinality(0 .. 1) = IF 0 > 1 THEN 0 ELSE 1 - 0 + 1
      BY <3>1, FS_Interval, Zenon
    <3> QED BY <3>2
  <2>2. {0, 1} = 0 .. 1
    OBVIOUS
  <2> QED BY <2>1, <2>2, Zenon
<1>5. IsFiniteSet(P) /\ Cardinality(P) = 2 ^ n * 2
  BY <1>2, <1>4, FS_Product
<1>6. n + 1 \notin S /\ T = S \cup {n + 1}
  OBVIOUS
<1>7. f \in Surjection(P, SUBSET T)
  <2>1. f \in [P -> SUBSET T]
    BY <1>6
  <2>2. ASSUME NEW U \in SUBSET T
        PROVE  \E x \in P : f[x] = U
    <3>1. CASE n + 1 \in U
      <4>1. <<U \ {n + 1}, 1>> \in P
        BY <1>6
      <4>2. f[<<U \ {n + 1}, 1>>] = U
        BY <3>1, <4>1
      <4> QED BY <4>1, <4>2
    <3>2. CASE n + 1 \notin U
      <4>1. <<U, 0>> \in P
        BY <1>6, <3>2
      <4>2. f[<<U, 0>>] = U
        BY <4>1
      <4> QED BY <4>1, <4>2
    <3> QED BY <3>1, <3>2
  <2> QED BY <2>1, <2>2 DEF Surjection
<1>8. f \in Injection(P, SUBSET T)
  <2>1. ASSUME NEW x \in P, NEW y \in P, f[x] = f[y]
        PROVE  x = y
    <3>1. /\ x = <<x[1], x[2]>> /\ x[1] \subseteq S /\ x[2] \in {0, 1}
          /\ y = <<y[1], y[2]>> /\ y[1] \subseteq S /\ y[2] \in {0, 1}
      OBVIOUS
    <3>2. (n + 1 \in f[x] <=> x[2] = 1) /\ (n + 1 \in f[y] <=> y[2] = 1)
      BY <1>6, <3>1
    <3>3. x[2] = y[2]
      BY <2>1, <3>1, <3>2
    <3>4. x[1] = f[x] \ {n + 1} /\ y[1] = f[y] \ {n + 1}
      BY <1>6, <3>1
    <3>5. x[1] = y[1]
      BY <2>1, <3>4
    <3> QED BY <3>1, <3>3, <3>5
  <2> QED BY <1>7, <2>1 DEF Surjection, Injection, IsInjective
<1> HIDE DEF S, T, P, f
<1>9. Cardinality(SUBSET T) = Cardinality(P)
  BY <1>5, <1>7, <1>8, FS_Surjection
<1> QED BY <1>2, <1>3, <1>5, <1>9

\* The first delay is the initial one, and each is twice the last, up to the
\* limit.
LEMMA DelayFacts ==
  /\ Delay(0) = InitialBackoff
  /\ \A n \in Nat : Delay(n) \in InitialBackoff .. MaxBackoff
  /\ \A n \in Nat : Delay(n + 1) = IF Delay(n) * 2 < MaxBackoff THEN Delay(n) * 2 ELSE MaxBackoff
<1>1. 2 ^ 0 = 1
  OBVIOUS
<1>2. ASSUME NEW n \in Nat
      PROVE  /\ Delay(n) \in InitialBackoff .. MaxBackoff
             /\ Delay(n + 1) = IF Delay(n) * 2 < MaxBackoff THEN Delay(n) * 2 ELSE MaxBackoff
  <2> DEFINE p == 2 ^ n
             q == InitialBackoff * p
  <2>1. p \in Nat /\ p >= 1 /\ 2 ^ (n + 1) = 2 * p
    BY PowerFacts
  <2> HIDE DEF p
  <2>2. q \in Nat /\ q >= InitialBackoff /\ InitialBackoff * (2 * p) = 2 * q
    <3>1. InitialBackoff * (p - 1) >= 0
      BY <2>1
    <3>2. InitialBackoff * p = InitialBackoff * (p - 1) + InitialBackoff
      BY <2>1
    <3>3. InitialBackoff * (2 * p) = 2 * (InitialBackoff * p)
      BY <2>1
    <3> QED BY <2>1, <3>1, <3>2, <3>3
  <2>3. /\ Delay(n) = IF q < MaxBackoff THEN q ELSE MaxBackoff
        /\ Delay(n + 1) = IF 2 * q < MaxBackoff THEN 2 * q ELSE MaxBackoff
    BY <2>1, <2>2 DEF Delay, p
  <2> HIDE DEF q
  <2> QED BY <2>2, <2>3
<1>3. Delay(0) = InitialBackoff
  BY <1>1 DEF Delay
<1> QED BY <1>2, <1>3

-----------------------------------------------------------------------------
(* What a sequence contains. *)

LEMMA AppendContains ==
  ASSUME NEW S, NEW s \in Seq(S), NEW e \in S, NEW m
  PROVE  Contains(Append(s, e), m) <=> Contains(s, m) \/ m = e
<1>1. /\ Append(s, e) \in Seq(S) /\ Len(Append(s, e)) = Len(s) + 1 /\ Len(s) \in Nat
      /\ \A i \in 1 .. Len(s) : Append(s, e)[i] = s[i]
      /\ Append(s, e)[Len(s) + 1] = e
  BY AppendProperties, LenProperties
<1> QED BY <1>1 DEF Contains

LEMMA TailContains ==
  ASSUME NEW S, NEW s \in Seq(S), s # <<>>, NEW m
  PROVE  Contains(s, m) <=> Contains(Tail(s), m) \/ m = Head(s)
<1>1. /\ Len(Tail(s)) = Len(s) - 1 /\ Len(s) \in Nat /\ Len(s) > 0
      /\ \A i \in 1 .. Len(Tail(s)) : Tail(s)[i] = s[i + 1]
      /\ Head(s) = s[1]
  BY HeadTailProperties, EmptySeq, LenProperties
<1>2. ASSUME NEW i \in 1 .. Len(s)
      PROVE  i = 1 \/ (i - 1 \in 1 .. Len(Tail(s)) /\ Tail(s)[i - 1] = s[i])
  BY <1>1
<1>3. ASSUME NEW i \in 1 .. Len(Tail(s))
      PROVE  i + 1 \in 1 .. Len(s) /\ Tail(s)[i] = s[i + 1]
  BY <1>1
<1>4. 1 \in 1 .. Len(s)
  BY <1>1
<1>5. Contains(Tail(s), m) => Contains(s, m)
  BY <1>3 DEF Contains
<1>6. m = Head(s) => Contains(s, m)
  BY <1>1, <1>4 DEF Contains
<1>7. Contains(s, m) => Contains(Tail(s), m) \/ m = Head(s)
  BY <1>1, <1>2 DEF Contains
<1> QED BY <1>5, <1>6, <1>7

LEMMA ConcatContains ==
  ASSUME NEW S, NEW s \in Seq(S), NEW t \in Seq(S), NEW m
  PROVE  Contains(s \o t, m) <=> Contains(s, m) \/ Contains(t, m)
<1>1. /\ Len(s \o t) = Len(s) + Len(t) /\ Len(s) \in Nat /\ Len(t) \in Nat
      /\ \A i \in 1 .. Len(s) + Len(t) : (s \o t)[i] = IF i <= Len(s) THEN s[i] ELSE t[i - Len(s)]
  BY ConcatProperties, LenProperties
<1>2. ASSUME NEW i \in 1 .. Len(t)
      PROVE  i + Len(s) \in 1 .. Len(s \o t) /\ (s \o t)[i + Len(s)] = t[i]
  BY <1>1
<1>3. ASSUME NEW i \in 1 .. Len(s)
      PROVE  i \in 1 .. Len(s \o t) /\ (s \o t)[i] = s[i]
  BY <1>1
<1>4. ASSUME NEW i \in 1 .. Len(s \o t)
      PROVE  \/ i \in 1 .. Len(s) /\ (s \o t)[i] = s[i]
             \/ i - Len(s) \in 1 .. Len(t) /\ (s \o t)[i] = t[i - Len(s)]
  BY <1>1
<1> QED BY <1>2, <1>3, <1>4 DEF Contains

LEMMA HeadAndTail ==
  ASSUME NEW S, NEW s \in Seq(S), s # <<>>
  PROVE  s = <<Head(s)>> \o Tail(s)
<1>1. Len(s) \in Nat \ {0} /\ Head(s) = s[1]
  BY EmptySeq
<1>2. SubSeq(s, 1, Len(s)) = <<s[1]>> \o SubSeq(s, 1 + 1, Len(s))
  BY <1>1, SubSeqRecursiveFirst
<1>3. SubSeq(s, 1, Len(s)) = s /\ Tail(s) = SubSeq(s, 2, Len(s))
  BY SubSeqFull, TailIsSubSeq
<1> QED BY <1>1, <1>2, <1>3

LEMMA ConcatHeadTail ==
  ASSUME NEW S, NEW s \in Seq(S), s # <<>>, NEW t \in Seq(S)
  PROVE  /\ s \o t # <<>> /\ Head(s \o t) = Head(s) /\ Tail(s \o t) = Tail(s) \o t
<1>1. /\ Len(s) \in Nat \ {0} /\ Len(t) \in Nat /\ Tail(s) \in Seq(S)
      /\ Len(Tail(s)) = Len(s) - 1
      /\ \A i \in 1 .. Len(Tail(s)) : Tail(s)[i] = s[i + 1]
  BY EmptySeq, LenProperties, HeadTailProperties
<1>2. /\ s \o t \in Seq(S) /\ Len(s \o t) = Len(s) + Len(t)
      /\ \A i \in 1 .. Len(s) + Len(t) : (s \o t)[i] = IF i <= Len(s) THEN s[i] ELSE t[i - Len(s)]
  BY ConcatProperties
<1>3. /\ Tail(s) \o t \in Seq(S) /\ Len(Tail(s) \o t) = Len(Tail(s)) + Len(t)
      /\ \A i \in 1 .. Len(Tail(s)) + Len(t) :
           (Tail(s) \o t)[i] = IF i <= Len(Tail(s)) THEN Tail(s)[i] ELSE t[i - Len(Tail(s))]
  BY <1>1, ConcatProperties
<1>4. s \o t # <<>>
  BY <1>1, <1>2, EmptySeq
<1>5. /\ Tail(s \o t) \in Seq(S) /\ Len(Tail(s \o t)) = Len(s) + Len(t) - 1
      /\ \A i \in 1 .. Len(Tail(s \o t)) : Tail(s \o t)[i] = (s \o t)[i + 1]
  BY <1>2, <1>4, HeadTailProperties
<1>6. Tail(s \o t) = Tail(s) \o t
  <2>1. ASSUME NEW i \in 1 .. Len(Tail(s \o t))
        PROVE  Tail(s \o t)[i] = (Tail(s) \o t)[i]
    <3>1. i \in 1 .. Len(s) + Len(t) - 1 /\ i + 1 \in 1 .. Len(s) + Len(t)
      BY <1>1, <1>5
    <3>2. CASE i <= Len(s) - 1
      BY <1>1, <1>2, <1>3, <1>5, <3>1, <3>2
    <3>3. CASE i > Len(s) - 1
      <4>1. i - Len(Tail(s)) = i + 1 - Len(s)
        BY <1>1, <3>1
      <4>2. Tail(s \o t)[i] = t[i + 1 - Len(s)]
        BY <1>1, <1>2, <1>5, <3>1, <3>3
      <4>3. (Tail(s) \o t)[i] = t[i - Len(Tail(s))]
        BY <1>1, <1>3, <3>1, <3>3
      <4> QED BY <4>1, <4>2, <4>3
    <3> QED BY <1>1, <3>1, <3>2, <3>3
  <2>2. Len(Tail(s \o t)) = Len(Tail(s) \o t)
    BY <1>1, <1>3, <1>5
  <2> QED BY <1>3, <1>5, <2>1, <2>2, SeqEqual
<1>7. Head(s \o t) = Head(s)
  BY <1>1, <1>2
<1> QED BY <1>4, <1>6, <1>7

\* The first of a sequence is its oldest, whatever comes again behind it.
LEMMA RemoveHead ==
  ASSUME NEW S, NEW s \in Seq(S), s # <<>>
  PROVE  RemoveFirst(s, Head(s)) = Tail(s)
<1> DEFINE I == {i \in 1 .. Len(s) : s[i] = Head(s)}
<1>1. /\ Len(s) \in Nat /\ Len(s) > 0 /\ Head(s) = s[1]
      /\ Tail(s) = SubSeq(s, 2, Len(s))
  BY HeadTailProperties, EmptySeq, LenProperties
<1>2. 1 \in I /\ \A i \in I : 1 <= i
  BY <1>1
<1>3. Min(I) = 1
  <2>1. \A x \in I : (\A y \in I : x <= y) => x = 1
    BY <1>2
  <2> QED BY <1>2, <2>1 DEF Min
<1>4. SelectInSeq(s, LAMBDA v : v = Head(s)) = 1
  BY <1>2, <1>3 DEF SelectInSeq
<1>5. RemoveFirst(s, Head(s)) = RemoveAt(s, 1)
  BY <1>2, <1>4 DEF RemoveFirst
<1>6. RemoveAt(s, 1) = SubSeq(s, 1, 0) \o SubSeq(s, 2, Len(s))
  BY <1>1 DEF RemoveAt
<1>7. SubSeq(s, 1, 0) = <<>>
  BY SubSeqProperties, EmptySeq
<1> QED BY <1>1, <1>5, <1>6, <1>7, SMTT(30)

-----------------------------------------------------------------------------
(* The task. *)

LEMMA CountersStep ==
  ASSUME metrics \in [Counters -> Nat], NEW c \in Counters, Incremented(c)
  PROVE  metrics' \in [Counters -> Nat]
  BY DEF Incremented

\* Every counter of a step is one of the receiver's.
LEMMA CounterNames ==
  {"parse_error", "unknown_sensor", "malformed_short_frame", "amqp_reconnects"} \subseteq Counters
  BY DEF Counters

LEMMA TaskStep ==
  ASSUME ReceiverInv, [ReceiverNext]_vars
  PROVE  TaskInv'
<1> USE DEF ReceiverInv, TaskInv, brokerVars, linkVars, taskVars, channelVars, countVars
<1>1. CASE UNCHANGED vars
  BY <1>1 DEF vars
<1>2. CASE Publish \/ Deliver \/ AckArrives \/ Requeue \/ LoseConnection
  BY <1>2 DEF Publish, Deliver, AckArrives, Requeue, LoseConnection
<1>3. CASE Consume
  <2>1. tx' \in Seq(Messages \X Nat) /\ Len(tx') <= ChanCap
    BY <1>3, HeadTailProperties, LenProperties DEF Consume
  <2> QED BY <1>3, <2>1 DEF Consume
<1>4. CASE CloseInput
  <2>1. tx' \in Seq(Messages \X Nat) /\ Len(tx') <= ChanCap
    BY <1>4, EmptySeq DEF CloseInput
  <2> QED BY <1>4, <2>1 DEF CloseInput
<1>5. CASE Abort \/ InputClosed
  BY <1>5 DEF Abort, InputClosed, TaskGone
<1>6. CASE Connect
  BY <1>6 DEF Connect
<1>7. CASE ConnectFails
  <2>1. metrics' \in [Counters -> Nat]
    BY <1>7, CounterNames, CountersStep DEF ConnectFails, SessionEnds
  <2> QED BY <1>7, <2>1 DEF ConnectFails, SessionEnds
<1>8. CASE ConnectionLost
  <2>1. metrics' \in [Counters -> Nat]
    BY <1>8, CounterNames, CountersStep DEF ConnectionLost, SessionEnds
  <2>2. pc' = "backoff" => backoff' = Delay(0)
    BY <1>8, DelayFacts DEF ConnectionLost, SessionEnds, AfterSession
  <2> QED BY <1>8, <2>1, <2>2 DEF ConnectionLost, SessionEnds, AfterSession
<1>9. CASE Wake
  <2>1. PICK n \in Nat : n = sleeps - 1 /\ backoff = Delay(n)
    BY <1>9 DEF Wake
  <2>2. backoff' = Delay(n + 1)
    BY <1>9, <2>1, DelayFacts DEF Wake, NextBackoff
  <2>3. backoff' = Delay(sleeps) /\ backoff' \in InitialBackoff .. MaxBackoff
    <3>1. n + 1 \in Nat /\ n + 1 = sleeps
      BY <2>1
    <3> QED BY <2>2, <3>1, DelayFacts
  <2> QED BY <1>9, <2>3 DEF Wake
<1>10. CASE RejectMessage
  <2>1. metrics' \in [Counters -> Nat]
    BY <1>10, CounterNames, CountersStep DEF RejectMessage
  <2> QED BY <1>10, <2>1 DEF RejectMessage, Take
<1>11. CASE AcceptMessage
  <2>1. current' \in Messages
    BY <1>11, HeadTailProperties DEF AcceptMessage, Take, LinkInv
  <2>2. index' = 1 /\ Len(Records[current']) \in Nat
    BY <1>11, <2>1, LenProperties DEF AcceptMessage, Messages
  <2> QED BY <1>11, <2>1, <2>2 DEF AcceptMessage, Take
<1>12. CASE PushRecord
  <2>1. current \in Messages /\ index \in Nat /\ index' = index + 1 /\ index <= Len(Records[current])
    BY <1>12, LenProperties DEF PushRecord, AtRecord
  <2>2. Len(Records[current]) \in Nat
    BY <2>1, LenProperties DEF Messages
  <2>3. tx' \in Seq(Messages \X Nat) /\ Len(tx') = Len(tx) + 1
    BY <1>12, <2>1, AppendProperties DEF PushRecord
  <2>4. Len(tx) < ChanCap /\ Len(tx) \in Nat
    BY <1>12, LenProperties DEF PushRecord, HasRoom
  <2>5. Len(tx') <= ChanCap
    BY <2>3, <2>4
  <2>6. index' \in 1 .. Len(Records[current]) + 1
    BY <2>1, <2>2
  <2> QED BY <1>12, <2>3, <2>5, <2>6 DEF PushRecord
<1>13. CASE SkipRecord
  <2>1. metrics' \in [Counters -> Nat]
    BY <1>13, CounterNames, CountersStep DEF SkipRecord
  <2>2. current \in Messages /\ index \in Nat /\ index' = index + 1 /\ index <= Len(Records[current])
    BY <1>13 DEF SkipRecord, AtRecord, AfterReject
  <2>3. Len(Records[current]) \in Nat
    BY <2>2, LenProperties DEF Messages
  <2>4. index' \in 1 .. Len(Records[current]) + 1
    BY <2>2, <2>3
  <2> QED BY <1>13, <2>1, <2>4 DEF SkipRecord
<1>14. CASE MessageDone
  BY <1>14 DEF MessageDone
<1> QED BY <1>1, <1>2, <1>3, <1>4, <1>5, <1>6, <1>7, <1>8, <1>9, <1>10, <1>11, <1>12,
           <1>13, <1>14 DEF ReceiverNext, ReceiverStep, BrokerStep

-----------------------------------------------------------------------------
(* The connection. *)

LEMMA MessageNumbers ==
  Len(Header) \in Nat /\ Messages = 1 .. Len(Header) /\ Cardinality(Messages) = Len(Header)
<1>1. Len(Header) \in Nat /\ Messages = 1 .. Len(Header)
  BY LenProperties DEF Messages
<1>2. Cardinality(1 .. Len(Header)) = IF 1 > Len(Header) THEN 0 ELSE Len(Header) - 1 + 1
  <2>1. 1 \in Int /\ Len(Header) \in Int
    BY <1>1
  <2> QED BY <2>1, FS_Interval, Zenon
<1>3. Cardinality(1 .. Len(Header)) = Len(Header)
  BY <1>1, <1>2
<1> QED BY <1>1, <1>3

\* The deliveries behind the first, on a live connection.
LEMMA InboxTail ==
  ASSUME ReceiverInv, inbox # <<>>
  PROVE  /\ Head(inbox) \in Messages /\ Tail(inbox) \in Seq(Messages)
         /\ Len(Tail(inbox)) < Len(inbox) /\ Len(inbox) \in Nat /\ Len(Tail(inbox)) \in Nat
         /\ acks \o inbox = Append(acks, Head(inbox)) \o Tail(inbox)
<1>1. inbox \in Seq(Messages) /\ acks \in Seq(Messages)
  BY DEF ReceiverInv, LinkInv
<1>2. /\ Head(inbox) \in Messages /\ Tail(inbox) \in Seq(Messages)
      /\ Len(Tail(inbox)) < Len(inbox) /\ Len(inbox) \in Nat /\ Len(Tail(inbox)) \in Nat
  BY <1>1, HeadTailProperties, LenProperties
<1>3. inbox = <<Head(inbox)>> \o Tail(inbox)
  BY <1>1, HeadAndTail
<1>4. Append(acks, Head(inbox)) = acks \o <<Head(inbox)>>
  BY <1>1, <1>2, AppendIsConcat
<1>5. <<Head(inbox)>> \in Seq(Messages)
  BY <1>2
<1>6. (acks \o <<Head(inbox)>>) \o Tail(inbox) = acks \o (<<Head(inbox)>> \o Tail(inbox))
  BY <1>1, <1>2, <1>5, ConcatAssociative
<1> QED BY <1>2, <1>3, <1>4, <1>6

\* The first acknowledgement is for the first delivery.
LEMMA OldestSettled ==
  ASSUME ReceiverInv, connected, acks # <<>>
  PROVE  RemoveFirst(unacked, Head(acks)) = Tail(acks) \o inbox
<1>1. inbox \in Seq(Messages) /\ acks \in Seq(Messages) /\ unacked \in Seq(Messages)
      /\ unacked = acks \o inbox
  BY DEF ReceiverInv, LinkInv
<1>2. /\ unacked # <<>> /\ Head(unacked) = Head(acks)
      /\ Tail(unacked) = Tail(acks) \o inbox
  BY <1>1, ConcatHeadTail
<1> QED BY <1>1, <1>2, RemoveHead

LEMMA LinkStep ==
  ASSUME ReceiverInv, [ReceiverNext]_vars
  PROVE  LinkInv'
<1> USE DEF ReceiverInv, LinkInv, brokerVars, linkVars, taskVars, channelVars, countVars
<1>0. Len(Header) \in Nat /\ Messages = 1 .. Len(Header) /\ Cardinality(Messages) = Len(Header)
  BY MessageNumbers
<1>1. CASE UNCHANGED <<brokerVars, linkVars, pc>>
  BY <1>1
<1>2. CASE UNCHANGED <<brokerVars, linkVars>> /\ ~connected
  BY <1>2
<1>3. CASE Publish
  <2>1. published + 1 \in Messages /\ published' \in 0 .. Len(Header)
    BY <1>0, <1>3, SMTT(30) DEF Publish
  <2>2. queue' \in Seq(Messages)
    BY <1>3, <2>1, AppendProperties DEF Publish
  <2> QED BY <1>3, <2>1, <2>2 DEF Publish
<1>4. CASE Deliver
  <2>1. Head(queue) \in Messages /\ queue' \in Seq(Messages)
    BY <1>4, HeadTailProperties DEF Deliver
  <2>2. /\ inbox' \in Seq(Messages) /\ Len(inbox') = Len(inbox) + 1
        /\ unacked' \in Seq(Messages) /\ Len(unacked') = Len(unacked) + 1
    BY <1>4, <2>1, AppendProperties DEF Deliver
  <2>3. acks \o Append(inbox, Head(queue)) = Append(acks \o inbox, Head(queue))
    <3>1. /\ <<Head(queue)>> \in Seq(Messages) /\ acks \o inbox \in Seq(Messages)
          /\ acks \in Seq(Messages) /\ inbox \in Seq(Messages)
      BY <2>1, ConcatProperties
    <3>2. /\ Append(inbox, Head(queue)) = inbox \o <<Head(queue)>>
          /\ Append(acks \o inbox, Head(queue)) = (acks \o inbox) \o <<Head(queue)>>
      BY <2>1, <3>1, AppendIsConcat
    <3>3. (acks \o inbox) \o <<Head(queue)>> = acks \o (inbox \o <<Head(queue)>>)
      BY ONLY <3>1, ConcatAssociative
    <3> QED BY <3>2, <3>3
  <2>4. unacked' = acks' \o inbox'
    BY <1>4, <2>3 DEF Deliver
  <2>5. Len(unacked) = Len(acks) + Len(inbox) /\ Len(acks) \in Nat /\ Len(inbox) \in Nat
    BY <1>4, ConcatProperties, LenProperties DEF Deliver
  <2>6. Prefetch # 0 => Len(unacked') <= Prefetch /\ Len(inbox') <= Prefetch
    BY <1>4, <2>2, <2>5 DEF Deliver
  <2> QED BY <1>4, <2>1, <2>2, <2>4, <2>6 DEF Deliver
<1>5. CASE AckArrives
  <2>1. unacked' = acks' \o inbox' /\ acks' = Tail(acks) /\ inbox' = inbox
    BY <1>5, OldestSettled DEF AckArrives
  <2>2. acks' \in Seq(Messages) /\ Len(acks') = Len(acks) - 1
    BY <1>5, <2>1, HeadTailProperties DEF AckArrives
  <2>3. unacked' \in Seq(Messages) /\ Len(unacked') = Len(acks') + Len(inbox)
    BY <2>1, <2>2, ConcatProperties
  <2>4. Len(unacked) = Len(acks) + Len(inbox) /\ Len(acks) \in Nat /\ Len(inbox) \in Nat
    BY <1>5, ConcatProperties, LenProperties DEF AckArrives
  <2>5. Prefetch # 0 => Len(unacked') <= Prefetch
    BY <2>2, <2>3, <2>4
  <2> QED BY <1>5, <2>1, <2>2, <2>3, <2>5 DEF AckArrives
<1>6. CASE Disconnect /\ (inbox' = <<>> \/ \E n \in 0 .. Len(inbox) : inbox' = SubSeq(inbox, 1, n))
  <2>1. orphaned' \in Seq(Messages)
    BY <1>6, ConcatProperties DEF Disconnect
  <2>2. inbox' \in Seq(Messages) /\ Len(inbox') <= Len(inbox) /\ Len(inbox) \in Nat /\ Len(inbox') \in Nat
    <3>1. Len(inbox) \in Nat
      BY LenProperties
    <3>2. CASE inbox' = <<>>
      BY <3>1, <3>2, EmptySeq
    <3>3. ASSUME NEW n \in 0 .. Len(inbox), inbox' = SubSeq(inbox, 1, n)
          PROVE  inbox' \in Seq(Messages) /\ Len(inbox') = n
      <4>1. \A i \in 1 .. n : inbox[i] \in Messages
        BY <3>1, ElementOfSeq
      <4> QED BY <3>1, <3>3, <4>1, SubSeqProperties
    <3> QED BY <1>6, <3>1, <3>2, <3>3
  <2>3. <<>> \in Seq(Messages) /\ Len(<<>>) = 0
    BY EmptySeq
  <2>4. Prefetch # 0 => Len(unacked') <= Prefetch /\ Len(inbox') <= Prefetch
    BY <1>6, <2>2, <2>3 DEF Disconnect
  <2> QED BY <1>6, <2>1, <2>2, <2>3, <2>4 DEF Disconnect
<1>7. CASE Requeue
  <2>1. queue' \in Seq(Messages) /\ orphaned' \in Seq(Messages)
    BY <1>7, ConcatProperties, EmptySeq DEF Requeue
  <2> QED BY <1>7, <2>1 DEF Requeue
<1>8. CASE Connect
  <2>1. ~connected /\ unacked' = <<>> /\ acks' = <<>> /\ inbox' = <<>> /\ pc' = "next"
    BY <1>8 DEF Connect
  <2>2. <<>> \in Seq(Messages) /\ Len(<<>>) = 0
    BY EmptySeq
  <2>3. unacked' = acks' \o inbox'
    BY <2>1, <2>2, ConcatEmptySeq
  <2> QED BY <1>8, <2>1, <2>2, <2>3 DEF Connect
<1>9. CASE RejectMessage \/ AcceptMessage
  <2>1. /\ inbox # <<>> /\ inbox' = Tail(inbox) /\ pc' \in {"next", "push"}
        /\ acks' = IF connected THEN Append(acks, Head(inbox)) ELSE acks
        /\ UNCHANGED <<published, queue, unacked, orphaned, connected>>
    BY <1>9 DEF RejectMessage, AcceptMessage, Take, AckRejected, Ack
  <2>2. acks' \in Seq(Messages)
    BY <2>1, InboxTail, AppendProperties
  <2>3. connected => unacked' = acks' \o inbox'
    BY <2>1, InboxTail
  <2> QED BY <2>1, <2>2, <2>3, InboxTail, SMTT(30)
<1>10. CASE ConnectFails \/ ConnectionLost \/ Wake
  <2>1. ~connected
    BY <1>10 DEF ConnectFails, ConnectionLost, Wake
  <2> QED BY <1>2, <1>10, <2>1 DEF ConnectFails, ConnectionLost, Wake, SessionEnds
<1>11. CASE LoseConnection \/ Abort \/ InputClosed
  BY <1>6, <1>11 DEF LoseConnection, Abort, InputClosed, TaskGone
<1>12. CASE Consume \/ CloseInput \/ PushRecord \/ SkipRecord
  BY <1>1, <1>12 DEF Consume, CloseInput, PushRecord, SkipRecord
<1>13. CASE MessageDone
  BY <1>13 DEF MessageDone
<1>14. CASE UNCHANGED vars
  BY <1>1, <1>14 DEF vars
<1> QED BY <1>3, <1>4, <1>5, <1>7, <1>8, <1>9, <1>10, <1>11, <1>12, <1>13, <1>14
        DEF ReceiverNext, ReceiverStep, BrokerStep

-----------------------------------------------------------------------------
(* What becomes of a message. *)

\* A message that the task has not at hand, and leaves alone.
LEMMA PassedStays ==
  ASSUME NEW m, Passed(m), sent'[m] = sent[m], ~(pc = "push" /\ current = m),
         ~(pc' = "push" /\ current' = m)
  PROVE  Passed(m)'
  BY DEF Passed, GoodRecords

\* The connection and the broker lose nothing: what the consumer had not taken
\* is with the broker again.
LEMMA KeptStep ==
  ASSUME ReceiverInv,
         \/ Publish \/ Deliver \/ AckArrives \/ Requeue \/ LoseConnection
         \/ ConnectFails \/ ConnectionLost \/ Wake \/ Connect,
         NEW m \in Messages, m <= published', m <= published => Kept(m)
  PROVE  Kept(m)'
<1> USE DEF Kept, brokerVars, linkVars, taskVars, channelVars, countVars
<1>0. /\ published \in 0 .. Len(Header) /\ Messages \subseteq Nat
      /\ queue \in Seq(Messages) /\ orphaned \in Seq(Messages)
      /\ acks \in Seq(Messages) /\ inbox \in Seq(Messages)
      /\ connected => unacked = acks \o inbox
      /\ published < Cardinality(Messages) => published + 1 \in Messages
  BY MessageNumbers DEF ReceiverInv, LinkInv
<1>1. CASE Publish
  <2>1. Contains(queue', m) <=> Contains(queue, m) \/ m = published + 1
    BY <1>0, <1>1, AppendContains DEF Publish
  <2>2. m <= published \/ m = published + 1
    BY <1>0, <1>1 DEF Publish
  <2> QED BY <1>1, <2>1, <2>2 DEF Publish
<1>2. CASE Deliver
  <2>1. Contains(queue, m) <=> Contains(queue', m) \/ m = Head(queue)
    BY <1>0, <1>2, TailContains DEF Deliver
  <2>2. Head(queue) \in Messages
    BY <1>0, <1>2, HeadTailProperties DEF Deliver
  <2>3. Contains(inbox', m) <=> Contains(inbox, m) \/ m = Head(queue)
    BY <1>0, <1>2, <2>2, AppendContains DEF Deliver
  <2> QED BY <1>2, <2>1, <2>3 DEF Deliver
<1>3. CASE AckArrives
  BY <1>3 DEF AckArrives
<1>4. CASE Requeue
  <2>1. Contains(queue', m) <=> Contains(orphaned, m) \/ Contains(queue, m)
    BY <1>0, <1>4, ConcatContains DEF Requeue
  <2> QED BY <1>4, <2>1 DEF Requeue
<1>5. CASE LoseConnection
  <2>1. connected /\ orphaned' = orphaned \o (acks \o inbox) /\ queue' = queue /\ published' = published
    BY <1>0, <1>5 DEF LoseConnection, Disconnect
  <2>2. acks \o inbox \in Seq(Messages)
    BY <1>0, ConcatProperties
  <2>3. /\ Contains(acks \o inbox, m) <=> Contains(acks, m) \/ Contains(inbox, m)
        /\ Contains(orphaned', m) <=> Contains(orphaned, m) \/ Contains(acks \o inbox, m)
    BY <1>0, <2>1, <2>2, ConcatContains
  <2> QED BY <2>1, <2>3
<1>6. CASE ConnectFails \/ ConnectionLost \/ Wake
  BY <1>6 DEF ConnectFails, ConnectionLost, Wake, SessionEnds
<1>7. CASE Connect
  <2>1. ~connected
    BY <1>7 DEF Connect, ReceiverInv, LinkInv
  <2> QED BY <1>7, <2>1 DEF Connect
<1> QED BY <1>1, <1>2, <1>3, <1>4, <1>5, <1>6, <1>7

LEMMA HandledStep ==
  ASSUME ReceiverInv, [ReceiverNext]_vars
  PROVE  HandledInv'
<1> USE DEF ReceiverInv, HandledInv, brokerVars, linkVars, taskVars, channelVars, countVars
<1>0. Messages \subseteq Nat /\ published \in Nat
  BY MessageNumbers DEF LinkInv
<1>1. CASE UNCHANGED vars
  BY <1>1 DEF vars, Kept, Passed, GoodRecords
<1>2. CASE \/ Publish \/ Deliver \/ AckArrives \/ Requeue \/ LoseConnection
           \/ ConnectFails \/ ConnectionLost \/ Wake \/ Connect
  <2>1. UNCHANGED <<sent, current, index, txOpen>>
    BY <1>2 DEF Publish, Deliver, AckArrives, Requeue, LoseConnection, Disconnect,
                ConnectFails, ConnectionLost, Wake, Connect, SessionEnds
  <2>2. pc' = pc \/ (pc # "push" /\ pc' # "push")
    BY <1>2 DEF Publish, Deliver, AckArrives, Requeue, LoseConnection, Disconnect,
                ConnectFails, ConnectionLost, Wake, Connect, SessionEnds
  <2>3. pc = "returned" => pc' = "returned"
    BY <1>2 DEF Publish, Deliver, AckArrives, Requeue, LoseConnection, Disconnect,
                ConnectFails, ConnectionLost, Wake, Connect, SessionEnds
  <2>4. ASSUME NEW m \in Messages, m <= published', Header[m] = "ok", pc' # "returned", txOpen'
        PROVE  Kept(m)' \/ Passed(m)'
    <3>1. CASE Passed(m)
      BY <2>1, <2>2, <3>1 DEF Passed, GoodRecords
    <3>2. CASE ~Passed(m)
      <4>1. m <= published => Kept(m)
        BY <2>1, <2>3, <2>4, <3>2
      <4> QED BY <1>2, <2>4, <4>1, KeptStep
    <3> QED BY <3>1, <3>2
  <2> QED BY <2>1, <2>4
<1>3. CASE Consume
  BY <1>3 DEF Consume, Kept, Passed, GoodRecords
<1>4. CASE CloseInput \/ Abort \/ InputClosed
  BY <1>4 DEF CloseInput, Abort, InputClosed, TaskGone
<1>5. CASE RejectMessage \/ AcceptMessage
  <2>1. /\ pc = "next" /\ inbox # <<>> /\ inbox' = Tail(inbox)
        /\ UNCHANGED <<published, queue, orphaned, connected, sent, txOpen>>
    BY <1>5 DEF RejectMessage, AcceptMessage, Take
  <2>2. pc' = "next" \/ (AcceptMessage /\ pc' = "push" /\ current' = Head(inbox) /\ index' = 1)
    BY <1>5 DEF RejectMessage, AcceptMessage, Take
  <2>3. ASSUME NEW m \in Messages, m <= published', Header[m] = "ok", txOpen'
        PROVE  Kept(m)' \/ Passed(m)'
    <3>1. CASE pc' = "push" /\ current' = m
      <4>1. {i \in GoodRecords(m) : i < index'} = {}
        BY <2>2, <3>1, LenProperties DEF GoodRecords, Messages
      <4> QED BY <3>1, <4>1 DEF Passed, GoodRecords
    <3>2. CASE ~(pc' = "push" /\ current' = m)
      <4>1. m # Head(inbox)
        BY <1>5, <2>2, <2>3, <3>2 DEF RejectMessage, AcceptMessage
      <4>2. Kept(m) => Kept(m)'
        <5>1. Contains(inbox, m) <=> Contains(inbox', m) \/ m = Head(inbox)
          BY <2>1, TailContains DEF LinkInv
        <5> QED BY <2>1, <4>1, <5>1 DEF Kept
      <4>3. Passed(m) => Passed(m)'
        BY <2>1, <3>2, PassedStays
      <4> QED BY <2>1, <2>3, <4>2, <4>3
    <3> QED BY <3>1, <3>2
  <2> QED BY <2>1, <2>3
<1>6. CASE PushRecord
  <2> DEFINE m0 == current
  <2>1. /\ m0 \in Messages /\ pc = "push" /\ index \in GoodRecords(m0)
        /\ index \in Nat /\ index' = index + 1
        /\ sent' = [sent EXCEPT ![m0] = @ \cup {index}]
        /\ UNCHANGED <<published, queue, orphaned, connected, inbox, pc, current, txOpen>>
    <3>1. m0 \in Messages /\ index \in 1 .. Len(Records[m0]) + 1 /\ index <= Len(Records[m0])
      BY <1>6 DEF PushRecord, AtRecord, TaskInv
    <3>2. DOMAIN Records[m0] = 1 .. Len(Records[m0]) /\ Len(Records[m0]) \in Nat
      BY <3>1, LenProperties DEF Messages
    <3>3. index \in DOMAIN Records[m0] /\ index \in Nat
      BY <3>1, <3>2
    <3> QED BY <1>6, <3>1, <3>3 DEF PushRecord, AtRecord, GoodRecords
  <2>2. GoodRecords(m0) \subseteq Nat
    BY <2>1, LenProperties DEF GoodRecords, Messages
  <2>3. sent' \in [Messages -> SUBSET Nat] /\ \A m \in Messages : sent'[m] \subseteq GoodRecords(m)
    BY <2>1
  <2>4. ASSUME NEW m \in Messages, m <= published', Header[m] = "ok", pc' # "returned", txOpen'
        PROVE  Kept(m)' \/ Passed(m)'
    <3>1. Kept(m) \/ Passed(m)
      BY <2>1, <2>4
    <3>2. Kept(m) => Kept(m)'
      BY <2>1 DEF Kept
    <3>3. ASSUME Passed(m), m = m0
          PROVE  Passed(m)'
      <4>1. {i \in GoodRecords(m) : i < index'} \subseteq {i \in GoodRecords(m) : i < index} \cup {index}
        BY <2>1, <2>2, <3>3
      <4>2. {i \in GoodRecords(m) : i < index} \subseteq sent[m]
        BY <2>1, <3>3 DEF Passed
      <4>3. sent'[m] = sent[m] \cup {index}
        BY <2>1, <3>3
      <4> QED BY <2>1, <3>3, <4>1, <4>2, <4>3 DEF Passed, GoodRecords
    <3>4. ASSUME Passed(m), m # m0
          PROVE  Passed(m)'
      BY <2>1, <3>4, PassedStays
    <3> QED BY <3>1, <3>2, <3>3, <3>4
  <2> QED BY <2>3, <2>4 DEF GoodRecords
<1>7. CASE SkipRecord
  <2>1. /\ current \in Messages /\ pc = "push" /\ Records[current][index] = "short"
        /\ index \in Nat /\ index' = index + 1
        /\ UNCHANGED <<published, queue, orphaned, connected, inbox, sent, pc, current, txOpen>>
    BY <1>7 DEF SkipRecord, AtRecord, AfterReject, TaskInv
  <2>2. ASSUME NEW m \in Messages, Passed(m)
        PROVE  Passed(m)'
    <3>1. CASE m = current
      <4>1. GoodRecords(m) \subseteq Nat /\ index \notin GoodRecords(m)
        BY <2>1, <3>1, LenProperties DEF GoodRecords, Messages
      <4>2. {i \in GoodRecords(m) : i < index'} \subseteq {i \in GoodRecords(m) : i < index}
        BY <2>1, <4>1
      <4>3. {i \in GoodRecords(m) : i < index} \subseteq sent[m]
        BY <2>1, <2>2, <3>1 DEF Passed
      <4> QED BY <2>1, <3>1, <4>2, <4>3 DEF Passed, GoodRecords
    <3>2. CASE m # current
      BY <2>1, <2>2, <3>2, PassedStays
    <3> QED BY <3>1, <3>2
  <2>3. ASSUME NEW m \in Messages
        PROVE  Kept(m) => Kept(m)'
    BY <2>1 DEF Kept
  <2> QED BY <2>1, <2>2, <2>3 DEF GoodRecords
<1>8. CASE MessageDone
  <2>1. /\ current \in Messages /\ pc = "push" /\ pc' = "next"
        /\ index \in Nat /\ index > Len(Records[current])
        /\ UNCHANGED <<published, queue, orphaned, connected, inbox, sent, current, index, txOpen>>
    BY <1>8, LenProperties DEF MessageDone, TaskInv, Messages
  <2>2. ASSUME NEW m \in Messages, Passed(m)
        PROVE  Passed(m)'
    <3>1. CASE m = current
      <4>1. GoodRecords(m) \subseteq 1 .. Len(Records[m]) /\ Len(Records[m]) \in Nat
        BY LenProperties DEF GoodRecords, Messages
      <4>2. {i \in GoodRecords(m) : i < index} = GoodRecords(m)
        BY <2>1, <3>1, <4>1
      <4>3. GoodRecords(m) \subseteq sent[m]
        BY <2>1, <2>2, <3>1, <4>2 DEF Passed
      <4>4. sent[m] = GoodRecords(m)
        BY <4>3
      <4> QED BY <2>1, <4>4 DEF Passed, GoodRecords
    <3>2. CASE m # current
      BY <2>1, <2>2, <3>2, PassedStays
    <3> QED BY <3>1, <3>2
  <2>3. ASSUME NEW m \in Messages
        PROVE  Kept(m) => Kept(m)'
    BY <2>1 DEF Kept
  <2> QED BY <2>1, <2>2, <2>3 DEF GoodRecords
<1> QED BY <1>1, <1>2, <1>3, <1>4, <1>5, <1>6, <1>7, <1>8
        DEF ReceiverNext, ReceiverStep, BrokerStep

-----------------------------------------------------------------------------
(* The theorems. *)

LEMMA ReceiverInvInit == ReceiverInit => ReceiverInv
<1> SUFFICES ASSUME ReceiverInit PROVE ReceiverInv
  OBVIOUS
<1> USE DEF ReceiverInit, TaskInit
<1>1. /\ <<>> \in Seq(Messages) /\ <<>> \in Seq(Messages \X Nat) /\ Len(<<>>) = 0
  BY EmptySeq
<1>2. TaskInv
  BY <1>1, DelayFacts DEF TaskInv
<1>3. LinkInv
  <2>1. published \in 0 .. Len(Header)
    BY MessageNumbers
  <2>2. /\ queue \in Seq(Messages) /\ orphaned \in Seq(Messages)
        /\ acks \in Seq(Messages) /\ inbox \in Seq(Messages) /\ unacked \in Seq(Messages)
        /\ Len(inbox) = 0 /\ Len(unacked) = 0
    BY <1>1
  <2>3. connected \in BOOLEAN /\ ~connected /\ unacked = <<>> /\ acks = <<>>
    OBVIOUS
  <2>4. Prefetch # 0 => Len(unacked) <= Prefetch /\ Len(inbox) <= Prefetch
    BY <2>2
  <2> QED BY ONLY <2>1, <2>2, <2>3, <2>4 DEF LinkInv
<1>4. HandledInv
  BY MessageNumbers DEF HandledInv
<1> QED BY <1>2, <1>3, <1>4 DEF ReceiverInv

LEMMA ReceiverInvariance == ReceiverSpec => []ReceiverInv
<1>1. ReceiverInv /\ [ReceiverNext]_vars => ReceiverInv'
  BY TaskStep, LinkStep, HandledStep DEF ReceiverInv
<1> QED BY <1>1, ReceiverInvInit, PTL DEF ReceiverSpec

\* What the task holds of the broker's is bounded by the prefetch window, and
\* what it gives the engine by the channel, whatever fails (receiver.rs).
THEOREM ReceiverTypes == ReceiverSpec => []ReceiverTypeOK
<1>1. ReceiverInv => ReceiverTypeOK
  <2> SUFFICES ASSUME ReceiverInv PROVE ReceiverTypeOK
    OBVIOUS
  <2>1. ASSUME connected
        PROVE  Range(acks) \subseteq Range(unacked) /\ Len(inbox) + Len(acks) <= Len(unacked)
    <3>1. acks \in Seq(Messages) /\ inbox \in Seq(Messages) /\ unacked = acks \o inbox
      BY <2>1 DEF ReceiverInv, LinkInv
    <3>2. /\ Len(unacked) = Len(acks) + Len(inbox) /\ Len(acks) \in Nat /\ Len(inbox) \in Nat
          /\ Range(unacked) = Range(acks) \cup Range(inbox)
      BY <3>1, ConcatProperties, LenProperties, RangeConcatenation
    <3> QED BY <3>2
  <2>2. published \in 0 .. Cardinality(Messages)
    BY MessageNumbers DEF ReceiverInv, LinkInv
  <2> QED BY <2>1, <2>2 DEF ReceiverTypeOK, ReceiverInv, TaskInv, LinkInv
<1> QED BY <1>1, ReceiverInvariance, PTL

\* Although a message is acknowledged before its records are pushed, what the
\* broker has let go is not lost while the task runs, however often the
\* connection breaks (receiver.rs, run_session).
THEOREM AckedIsNotLost == ReceiverSpec => []AckedIsPassedOn
<1>1. ReceiverInv => AckedIsPassedOn
  <2> SUFFICES ASSUME ReceiverInv, pc # "returned", txOpen,
                      NEW m \in Messages, Gone(m), Header[m] = "ok"
               PROVE  Passed(m)
    BY DEF AckedIsPassedOn, Passed
  <2>1. /\ queue \in Seq(Messages) /\ orphaned \in Seq(Messages)
        /\ unacked \in Seq(Messages) /\ acks \in Seq(Messages) /\ inbox \in Seq(Messages)
        /\ connected => unacked = acks \o inbox
    BY DEF ReceiverInv, LinkInv
  <2>2. ~Contains(queue, m) /\ ~Contains(unacked, m) /\ ~Contains(orphaned, m)
    <3>1. queue \o unacked \in Seq(Messages)
      BY <2>1, ConcatProperties
    <3>2. /\ Contains((queue \o unacked) \o orphaned, m)
                <=> Contains(queue \o unacked, m) \/ Contains(orphaned, m)
          /\ Contains(queue \o unacked, m) <=> Contains(queue, m) \/ Contains(unacked, m)
      BY <2>1, <3>1, ConcatContains
    <3> QED BY <3>2 DEF Gone
  <2>3. connected => ~Contains(inbox, m)
    <3>1. Contains(acks \o inbox, m) <=> Contains(acks, m) \/ Contains(inbox, m)
      BY <2>1, ConcatContains
    <3> QED BY <2>1, <2>2, <3>1
  <2>4. ~Kept(m)
    BY <2>2, <2>3 DEF Kept
  <2> QED BY <2>4 DEF ReceiverInv, HandledInv, Gone
<1> QED BY <1>1, ReceiverInvariance, PTL

\* Each sleep without a session in between is twice as long as the last, up to
\* the limit, and the first after a session is the shortest (run_amqp).
THEOREM DelaysAreScheduled == ReceiverSpec => []BackoffSchedule
<1>1. ReceiverInv => BackoffSchedule
  <2> SUFFICES ASSUME ReceiverInv, pc = "backoff" PROVE BackoffSchedule
    BY DEF BackoffSchedule
  <2>1. sleeps - 1 \in Nat /\ backoff = Delay(sleeps - 1)
    BY DEF ReceiverInv, TaskInv
  <2> DEFINE d == InitialBackoff * 2 ^ (sleeps - 1)
  <2>2. d \in Nat
    BY <2>1, PowerFacts
  <2>3. backoff = IF d < MaxBackoff THEN d ELSE MaxBackoff
    BY <2>1 DEF Delay
  <2> HIDE DEF d
  <2>4. /\ backoff \in {d, MaxBackoff} /\ \A y \in {d, MaxBackoff} : backoff <= y
        /\ \A x \in {d, MaxBackoff} :
             (\A y \in {d, MaxBackoff} : x <= y) => x = backoff
    BY <2>2, <2>3
  <2>5. Min({d, MaxBackoff}) = backoff
    BY <2>4 DEF Min
  <2> QED BY <2>5 DEF BackoffSchedule, d
<1> QED BY <1>1, ReceiverInvariance, PTL
=============================================================================
