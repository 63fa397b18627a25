--------------------------- MODULE WireProperties ---------------------------
(***************************************************************************)
(* What the stages behind src/wire.rs rely on.                             *)
(***************************************************************************)
EXTENDS ConfigProperties, Publisher

\* The engine gets every record of the publisher with the instant it was
\* composed for, although the header carries the second and the record the time
\* within the minute, and minutes, days and years end in between; but nothing
\* of a sensor that the command line does not declare.
TimesExact ==
  last.times # <<>> =>
    IF last.body.code \in Range(cli.sensors)
    THEN /\ Len(events) = Len(last.times)
         /\ \A i \in DOMAIN events : events[i].ts = last.times[i]
    ELSE events = <<>>

\* Duplicates are told by their frame: payloads that differ never become one.
FramesDistinct ==
  \A x, y \in frames : x[2] = y[2] => x[1] = y[1]
=============================================================================
