---------------------------- MODULE AmqpReceiver ----------------------------
(***************************************************************************)
(* The receiver task of src/receiver.rs against its broker.  A session     *)
(* connects, declares the topology and consumes; a message is acknowledged *)
(* when its header is accepted or rejected, and its records are then       *)
(* pushed into the channel one by one.  When the session ends, the task    *)
(* sleeps and connects again, for ever.                                    *)
(*                                                                         *)
(* Messages are numbered in the order they are published.  The broker is   *)
(* modelled by what AMQP gives the consumer: at most Prefetch              *)
(* unacknowledged deliveries, and what a dead connection has not           *)
(* acknowledged goes back to the front of the queue, some time later.      *)
(* The queue exists from the start.                                        *)
(***************************************************************************)
EXTENDS Integers, Sequences, FiniteSets, SequencesExt

CONSTANTS
  Header,          \* message -> "ok", "malformed" or "unknown" (undeclared sensor)
  Records,         \* message -> its records: "ok", or "short" (why rejected)
  Prefetch,        \* cfg.prefetch; 0 is no limit, as in AMQP
  ChanCap,         \* CHAN_CAP
  InitialBackoff,
  MaxBackoff,
  MaxTroubles      \* bound: failed sessions and lost connections together

ASSUME ReceiverAssumption ==
  /\ Header \in Seq({"ok", "malformed", "unknown"})
  /\ DOMAIN Records = DOMAIN Header
  /\ \A m \in DOMAIN Records : Records[m] \in Seq({"ok", "short"})
  /\ Prefetch \in Nat /\ ChanCap \in Nat \ {0}
  /\ InitialBackoff \in Nat \ {0} /\ MaxBackoff \in Nat /\ InitialBackoff <= MaxBackoff

VARIABLES
  published,   \* messages published so far
  queue,       \* the broker: messages to deliver
  unacked,     \* delivered on the live connection and not acknowledged, in order
  orphaned,    \* the same of a dead connection
  acks,        \* acknowledgements on their way, in order
  connected,   \* the connection is up
  inbox,       \* deliveries the consumer stream holds
  pc,          \* "connect", "next", "push", "backoff" or "returned"
  current,     \* the message being pushed
  index,       \* its next record
  backoff,     \* the delay of the next sleep, or of this one
  tx,          \* the channel to the engine: <<message, record>>, oldest first
  txOpen,      \* its receiver is there
  metrics,     \* the counters of the receiver
  troubles,    \* sessions failed and connections lost so far
  sent,        \* history: message -> records pushed at least once
  sleeps       \* history: sleeps since a session last got to its consumer

brokerVars == <<published, queue, unacked, orphaned, acks>>
linkVars == <<connected, inbox>>
taskVars == <<pc, current, index, backoff>>
channelVars == <<tx, txOpen>>
countVars == <<metrics, troubles, sent, sleeps>>
vars == <<brokerVars, linkVars, taskVars, channelVars, countVars>>

Messages == DOMAIN Header

\* The counters the receiver may increment.
Counters == {"parse_error", "unknown_sensor", "malformed_short_frame", "amqp_reconnects"}

Incremented(c) == metrics' = [metrics EXCEPT ![c] = @ + 1]

\* The task when the program starts.
TaskInit ==
  /\ connected = FALSE /\ inbox = <<>>
  /\ pc = "connect" /\ current = 0 /\ index = 1 /\ backoff = InitialBackoff
  /\ tx = <<>> /\ txOpen = TRUE
  /\ metrics = [c \in Counters |-> 0]
  /\ sleeps = 0

ReceiverInit ==
  /\ TaskInit
  /\ published = 0 /\ queue = <<>> /\ unacked = <<>> /\ orphaned = <<>> /\ acks = <<>>
  /\ troubles = 0
  /\ sent = [m \in Messages |-> {}]

-----------------------------------------------------------------------------
(* The broker and the connection. *)

Publish ==
  /\ published < Cardinality(Messages)
  /\ published' = published + 1
  /\ queue' = Append(queue, published + 1)
  /\ UNCHANGED <<unacked, orphaned, acks, linkVars, taskVars, channelVars, countVars>>

Deliver ==
  /\ connected
  /\ queue # <<>>
  /\ Prefetch = 0 \/ Len(unacked) < Prefetch
  /\ queue' = Tail(queue)
  /\ unacked' = Append(unacked, Head(queue))
  /\ inbox' = Append(inbox, Head(queue))
  /\ UNCHANGED <<published, orphaned, acks, connected, taskVars, channelVars, countVars>>

\* An acknowledgement settles the oldest delivery it is for.
AckArrives ==
  /\ connected /\ acks # <<>>
  /\ unacked' = RemoveFirst(unacked, Head(acks))
  /\ acks' = Tail(acks)
  /\ UNCHANGED <<published, queue, orphaned, linkVars, taskVars, channelVars, countVars>>

\* What the broker sees of a connection that is gone.
Disconnect ==
  /\ connected' = FALSE
  /\ orphaned' = orphaned \o unacked
  /\ unacked' = <<>>
  /\ acks' = <<>>
  /\ UNCHANGED <<published, queue>>

\* The consumer stream still yields what it holds of its deliveries.
LoseConnection ==
  /\ connected
  /\ troubles < MaxTroubles
  /\ troubles' = troubles + 1
  /\ Disconnect
  /\ \E n \in 0 .. Len(inbox) : inbox' = SubSeq(inbox, 1, n)
  /\ UNCHANGED <<taskVars, channelVars, metrics, sent, sleeps>>

Requeue ==
  /\ orphaned # <<>>
  /\ queue' = orphaned \o queue
  /\ orphaned' = <<>>
  /\ UNCHANGED <<published, unacked, acks, linkVars, taskVars, channelVars, countVars>>

-----------------------------------------------------------------------------
(* The other end of the channel. *)

Consume ==
  /\ txOpen /\ tx # <<>>
  /\ tx' = Tail(tx)
  /\ UNCHANGED <<brokerVars, linkVars, taskVars, txOpen, countVars>>

CloseInput ==
  /\ txOpen
  /\ txOpen' = FALSE
  /\ tx' = <<>>
  /\ UNCHANGED <<brokerVars, linkVars, taskVars, countVars>>

\* The task is gone, and its connection with it.
TaskGone ==
  /\ pc' = "returned"
  /\ Disconnect
  /\ inbox' = <<>>
  /\ UNCHANGED <<current, index, backoff, countVars>>

\* The engine loop is left and aborts the task at its next await.
Abort == pc # "returned" /\ TaskGone /\ UNCHANGED channelVars

-----------------------------------------------------------------------------
(* The task. *)

\* A session is set up: connection, channel, QoS, topology, consumer.
Connect ==
  /\ pc = "connect"
  /\ connected' = TRUE
  /\ inbox' = <<>>
  /\ pc' = "next"
  /\ UNCHANGED <<brokerVars, current, index, backoff, channelVars, countVars>>

\* What run_amqp does after a session, with delay as its backoff.
SessionEnds(delay) ==
  /\ IF txOpen
     THEN /\ pc' = "backoff"
          /\ backoff' = delay
          /\ Incremented("amqp_reconnects")
     ELSE /\ pc' = "returned"
          /\ UNCHANGED <<backoff, metrics>>
  /\ UNCHANGED <<brokerVars, linkVars, current, index, channelVars, sent>>

\* One of the steps of the set-up fails.
ConnectFails ==
  /\ pc = "connect"
  /\ troubles < MaxTroubles
  /\ troubles' = troubles + 1
  /\ SessionEnds(backoff)
  /\ sleeps' = sleeps + 1

\* Mutant of AfterSession: the backoff is not reset.
SameBackoff == backoff

\* The session had been set up, the backoff is reset.
AfterSession == InitialBackoff

\* The stream is at its end.
ConnectionLost ==
  /\ pc = "next"
  /\ ~connected /\ inbox = <<>>
  /\ SessionEnds(AfterSession)
  /\ sleeps' = 1
  /\ UNCHANGED troubles

\* Mutant of NextBackoff: no upper limit.
UnlimitedBackoff == backoff * 2

NextBackoff == IF backoff * 2 < MaxBackoff THEN backoff * 2 ELSE MaxBackoff

\* The sleep ends, and the next one will be twice as long, up to the limit.
Wake ==
  /\ pc = "backoff"
  /\ pc' = "connect"
  /\ backoff' = NextBackoff
  /\ UNCHANGED <<brokerVars, linkVars, current, index, channelVars, countVars>>

\* On a dead connection the acknowledgement fails, and the failure is ignored.
Ack(m) == IF connected THEN Append(acks, m) ELSE acks

\* The next delivery is taken from the stream.
Take ==
  /\ pc = "next"
  /\ inbox # <<>>
  /\ inbox' = Tail(inbox)
  /\ UNCHANGED <<published, queue, unacked, orphaned, connected, backoff, channelVars,
                 troubles, sent, sleeps>>

\* Mutant of AckRejected: a message that is passed over is not acknowledged.
NoAck(m) == acks

AckRejected(m) == Ack(m)

\* A malformed header, or a sensor that is not declared.
RejectMessage ==
  /\ Take
  /\ Header[Head(inbox)] \in {"malformed", "unknown"}
  /\ Incremented(IF Header[Head(inbox)] = "malformed" THEN "parse_error" ELSE "unknown_sensor")
  /\ acks' = AckRejected(Head(inbox))
  /\ UNCHANGED <<pc, current, index>>

AcceptMessage ==
  /\ Take
  /\ Header[Head(inbox)] = "ok"
  /\ acks' = Ack(Head(inbox))
  /\ current' = Head(inbox)
  /\ index' = 1
  /\ pc' = "push"
  /\ UNCHANGED metrics

\* The next record of the message is at hand, and of this kind.
AtRecord(kind) ==
  /\ pc = "push" /\ index <= Len(Records[current])
  /\ Records[current][index] = kind

\* Mutant of HasRoom: the channel is not waited for, as if it had no end.
AlwaysRoom == TRUE

HasRoom == Len(tx) < ChanCap

PushRecord ==
  /\ AtRecord("ok")
  /\ txOpen /\ HasRoom
  /\ tx' = Append(tx, <<current, index>>)
  /\ sent' = [sent EXCEPT ![current] = @ \cup {index}]
  /\ index' = index + 1
  /\ UNCHANGED <<brokerVars, linkVars, pc, current, backoff, txOpen, metrics, troubles, sleeps>>

\* Mutant of AfterReject: a bad record ends its message.
EndOfMessage == Len(Records[current]) + 1

AfterReject == index + 1

SkipRecord ==
  /\ AtRecord("short")
  /\ Incremented("malformed_short_frame")
  /\ index' = AfterReject
  /\ UNCHANGED <<brokerVars, linkVars, pc, current, backoff, channelVars, troubles, sent, sleeps>>

\* The channel is closed: the task returns.
InputClosed ==
  /\ AtRecord("ok")
  /\ ~txOpen
  /\ TaskGone
  /\ UNCHANGED channelVars

MessageDone ==
  /\ pc = "push" /\ index > Len(Records[current])
  /\ pc' = "next"
  /\ UNCHANGED <<brokerVars, linkVars, current, index, backoff, channelVars, countVars>>

-----------------------------------------------------------------------------
ReceiverStep ==
  \/ Connect \/ ConnectFails \/ ConnectionLost \/ Wake
  \/ RejectMessage \/ AcceptMessage
  \/ PushRecord \/ SkipRecord \/ InputClosed \/ MessageDone

BrokerStep == Deliver \/ AckArrives \/ Requeue

ReceiverNext ==
  \/ Publish \/ LoseConnection \/ CloseInput \/ Abort \/ Consume
  \/ BrokerStep \/ ReceiverStep

\* The task is scheduled, the engine takes events, and the broker does its
\* work; nobody need publish, and the connection need not stay up.
ReceiverSpec ==
  /\ ReceiverInit /\ [][ReceiverNext]_vars
  /\ WF_vars(ReceiverStep) /\ WF_vars(Consume)
  /\ WF_vars(Deliver) /\ WF_vars(AckArrives) /\ WF_vars(Requeue)
=============================================================================
