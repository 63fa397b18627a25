------------------------- MODULE ReceiverProperties -------------------------
(***************************************************************************)
(* What the receiver owes the broker and the engine while its connection   *)
(* comes and goes.                                                         *)
(***************************************************************************)
EXTENDS AmqpReceiver, FiniteSetsExt

\* The broker does not hold message m any more.
Gone(m) ==
  /\ m <= published
  /\ ~Contains(queue \o unacked \o orphaned, m)

GoodRecords(m) == {i \in DOMAIN Records[m] : Records[m][i] = "ok"}

\* The type of the state; unacknowledged deliveries bound what is in memory.
ReceiverTypeOK ==
  /\ published \in 0 .. Cardinality(Messages)
  /\ pc \in {"connect", "next", "push", "backoff", "returned"}
  /\ pc = "push" => current \in Messages /\ index \in 1 .. Len(Records[current]) + 1
  /\ Len(tx) <= ChanCap
  /\ connected => /\ Range(acks) \subseteq Range(unacked)
                  /\ Len(inbox) + Len(acks) <= Len(unacked)
  /\ ~connected => unacked = <<>> /\ acks = <<>>
  /\ Prefetch # 0 => Len(inbox) <= Prefetch
  /\ backoff \in InitialBackoff .. MaxBackoff
  /\ metrics \in [Counters -> Nat]

\* docs/DESIGN.md 4.0: a message is acknowledged before its records are pushed;
\* while the task runs, a message the broker has let go is nevertheless not
\* lost: all its good records are pushed, or it is the one being pushed.
AckedIsPassedOn ==
  pc # "returned" /\ txOpen =>
    \A m \in Messages :
      Gone(m) /\ Header[m] = "ok" =>
        IF pc = "push" /\ current = m
        THEN {i \in GoodRecords(m) : i < index} \subseteq sent[m]
        ELSE sent[m] = GoodRecords(m)

\* docs/CODE_GUIDE.md 13: 1 s, 2 s, ... up to 30 s, from 1 s again after a
\* session that was established.
BackoffSchedule ==
  pc = "backoff" => backoff = Min({InitialBackoff * 2 ^ (sleeps - 1), MaxBackoff})

\* docs/CODE_GUIDE.md 13: what cannot be used is acknowledged too, so that it
\* neither comes back for ever nor fills the window of unacknowledged ones.
\* Once the connection holds, the broker gets rid of every message.
AllAcknowledged ==
  \A m \in Messages : m <= published ~> Gone(m) \/ pc = "returned"
=============================================================================
