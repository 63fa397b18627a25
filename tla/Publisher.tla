----------------------------- MODULE Publisher -----------------------------
(***************************************************************************)
(* A realtime process from its command line to the events it receives: it  *)
(* starts (Configuration), and parses (Wire) what the test publisher of    *)
(* examples/publish.rs and other senders publish.  A run of the publisher  *)
(* reads the clock once and publishes three messages, one after the other, *)
(* while the clock goes on.  The broker and the channel are left out:      *)
(* messages are parsed as they come.                                       *)
(***************************************************************************)
EXTENDS Configuration, Wire

CONSTANTS
  Starts,         \* calendar times the clock may start at, and
  StartTime(_),   \*   the same as ticks since EpochYear
  MaxTicks,       \* bound: ticks the clock goes on
  OddDelay,       \* the second message is this much later,
  DupDelay,       \*   and the third this much
  OtherBodies     \* what other senders publish

VARIABLES
  started,    \* when the clock started
  elapsed,    \* ticks since then
  clock,      \* the calendar time, with sub for the ticks within the second
  pending,    \* messages of the run that are not published yet
  events,     \* the events of the last message published, in order
  last,       \* history: that message, and the times its records stand for
  frames      \* history: <<payload, frame>> of the records accepted so far

publisherVars == <<started, elapsed, clock, pending, events, last, frames>>

intakeVars == <<configVars, publisherVars>>

Nothing == [body |-> None, times |-> <<>>]

\* The next tick of a calendar clock: what is full starts anew, and the next
\* larger unit goes on.
AfterTick(t) ==
  LET second == [t EXCEPT !.sub = 0]
      minute == [second EXCEPT !.sec = 0]
      hour   == [minute EXCEPT !.min = 0]
      day    == [hour EXCEPT !.hour = 0]
      month  == [day EXCEPT !.day = 1]
      year   == [month EXCEPT !.month = 1]
  IN  IF t.sub + 1 < SecondTicks THEN [t EXCEPT !.sub = @ + 1]
      ELSE IF t.sec < 59 THEN [second EXCEPT !.sec = @ + 1]
      ELSE IF t.min < 59 THEN [minute EXCEPT !.min = @ + 1]
      ELSE IF t.hour < 23 THEN [hour EXCEPT !.hour = @ + 1]
      ELSE IF t.day < DaysIn(t.year, t.month) THEN [day EXCEPT !.day = @ + 1]
      ELSE IF t.month < 12 THEN [month EXCEPT !.month = @ + 1]
      ELSE [year EXCEPT !.year = @ + 1]

PublisherInit ==
  /\ started \in Starts
  /\ elapsed = 0
  /\ clock = [f \in DOMAIN started \cup {"sub"} |-> IF f = "sub" THEN 0 ELSE started[f]]
  /\ pending = <<>>
  /\ events = <<>> /\ last = Nothing
  /\ frames = {}

Tick ==
  /\ elapsed < MaxTicks
  /\ elapsed' = elapsed + 1
  /\ clock' = AfterTick(clock)
  /\ UNCHANGED <<started, pending, events, last, frames>>

-----------------------------------------------------------------------------
AB(digit) == <<"A", "B", "0", digit>>

EncodeSignal(dbm) == 65535 - (IF dbm < 0 THEN -dbm ELSE dbm) * 256

Position(parity) == [df |-> 17, head |-> parity, tail |-> [i \in 1 .. PaddingLen |-> 1]]

\* now, formatted with %Y%m%d%H%M%S
HeaderTime(now) == [f \in DOMAIN now \ {"sub"} |-> now[f]]

\* Mutant of RelNow: the seconds are forgotten.
SubSecond(now) == now.sub

RelNow(now) == now.sec * SecondTicks + now.sub

\* One message with one record, delay ticks after now.
Message(code, now, delay, dbm, payload) ==
  [body |-> [code |-> code, time |-> HeaderTime(now),
             records |-> << [rel |-> RelNow(now) + delay, payload |-> payload,
                             signal |-> EncodeSignal(dbm)] >>],
   times |-> << StartTime(started) + elapsed + delay >>]

\* Calendar times; which days a month has, IsMinute says.
CalendarTimes ==
  [year : Int, month : 1 .. 12, day : Int, hour : 0 .. 23, min : 0 .. 59, sec : 0 .. 59]

\* The records and bodies the publisher can compose.
Records == [rel : Int, payload : {Position("even"), Position("odd")}, signal : Int]

Bodies ==
  [code : {AB("1"), AB("2"), AB("3")}, time : CalendarTimes, records : Seq(Records)]

\* StartTime is the clock's time in ticks, and payloads have their length.
ASSUME PublisherAssumption ==
  /\ Starts \subseteq CalendarTimes
  /\ \A s \in Starts : IsMinute(s) /\ StartTime(s) = Seconds(s) * SecondTicks
  /\ OddDelay \in Nat /\ DupDelay \in Nat
  /\ \A body \in OtherBodies \ {None} : \A r \in Range(body.records) : IsPayload(r.payload)
  /\ None \notin Bodies

\* The clock is read once for all three messages.
Compose ==
  /\ pending = <<>>
  /\ pending' = << Message(AB("1"), clock, 0, -50, Position("even")),
                   Message(AB("2"), clock, OddDelay, -55, Position("odd")),
                   Message(AB("3"), clock, DupDelay, -60, Position("even")) >>
  /\ UNCHANGED <<started, elapsed, clock, events, last, frames>>

\* Messages of sensors that are not declared are passed over.
Wanted(body) == HeaderReject(body) = "none" /\ body.code \in Range(cli.sensors)

\* What the receiver makes of a message.
Parse(body) ==
  IF ~Wanted(body)
  THEN events' = <<>> /\ UNCHANGED frames
  ELSE /\ events' = EventsOf(body)
       /\ frames' = frames \cup
            {<<r.payload, ParseFrame(r.payload)>> :
               r \in {x \in Range(body.records) :
                        ParseFrame(x.payload) # MalformedShortFrame}}

PublishNext ==
  /\ pending # <<>>
  /\ pending' = Tail(pending)
  /\ last' = Head(pending)
  /\ Parse(Head(pending).body)
  /\ UNCHANGED <<started, elapsed, clock>>

OtherPublishes ==
  /\ \E body \in OtherBodies : Parse(body) /\ last' = [Nothing EXCEPT !.body = body]
  /\ UNCHANGED <<started, elapsed, clock, pending>>

PublisherNext == Tick \/ Compose \/ PublishNext \/ OtherPublishes

\* The program is started before the publisher.
IntakeInit == ConfigInit /\ PublisherInit

IntakeNext ==
  \/ ConfigNext /\ UNCHANGED publisherVars
  \/ phase = "realtime" /\ PublisherNext /\ UNCHANGED configVars

IntakeSpec == IntakeInit /\ [][IntakeNext]_intakeVars
=============================================================================
