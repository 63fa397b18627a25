------------------------------ MODULE MCIntake ------------------------------
(***************************************************************************)
(* Command lines, clock starts and messages for TLC: many block sizes on   *)
(* one command line, and combinations of the other options; the last       *)
(* second before a minute, a month, a leap day, the day after it, a year   *)
(* and the epoch end; and the messages of other senders, good and bad.     *)
(***************************************************************************)
EXTENDS WireProperties

Lower == <<"a", "B", "0", "1">>

OneLine ==
  [mode |-> "recompute", sensors |-> <<AB("1"), AB("2")>>, block_size_ms |-> 1000,
   data_path_template |-> PathFields, surface_ref_lat |-> None, surface_ref_lon |-> None,
   amqp_url |-> None, recompute_from |-> -60000, recompute_to |-> 60000,
   data_dir |-> "data"]

\* Every size around a second, and the halves of a second beyond.
BlockSizes == (0 .. 2001) \cup {500 * n : n \in 4 .. 121}

Sized == {[OneLine EXCEPT !.block_size_ms = s] : s \in BlockSizes}

\* All fields, and too few of them for some sensors and ranges or for all.
Templates ==
  {None, PathFields, {"sensor", "minute"}, {"sensor", "hour", "minute"},
   {"date", "hour", "minute"}, {"sensor", "date", "hour"}}

\* One range is of 59 minutes, which with the minute before it fill an hour, and
\* one of 60.
Recomputed ==
  [mode : {"recompute"},
   sensors : {<<>>, <<AB("1")>>, <<AB("3"), AB("2")>>, <<AB("1"), AB("2"), AB("1")>>,
              <<AB("2"), Lower>>},
   block_size_ms : {5000, 7000}, data_path_template : Templates,
   surface_ref_lat : {None, 1}, surface_ref_lon : {None}, amqp_url : {None},
   data_dir : {None, "data"},
   recompute_from : {None, -60000, -59000, 60000},
   recompute_to : {None, -60000, 60000, 90500, 120000, 58 * 60000, 59 * 60000}]

\* Of those accepted, one declares two of the three senders, and one all.
Received ==
  [mode : {"realtime"},
   sensors : {<<AB("1"), AB("2")>>, <<AB("3"), AB("2"), AB("1")>>, <<AB("2"), AB("2")>>},
   block_size_ms : {500}, data_path_template : {None, PathFields},
   surface_ref_lat : {None, 1}, surface_ref_lon : {1}, amqp_url : {None, "url"},
   data_dir : {None}, recompute_from : {None}, recompute_to : {None}]

MCCommandLines == Sized \cup Recomputed \cup Received

\* The surroundings of minute and second boundaries.
MCInstants ==
  {m * 60000 + d : m \in -1 .. 2, d \in {-1000, -1, 0, 1, 999, 2000, 56000}}

-----------------------------------------------------------------------------
\* Clock starts and messages.
Date(y, m, d, h, mi) ==
  [year |-> y, month |-> m, day |-> d, hour |-> h, min |-> mi, sec |-> 58]

\* A start, and the days from 1970-01-01 to its date.
StartDays ==
  { <<Date(1969, 12, 31, 23, 59), -1>>, <<Date(1970, 1, 1, 0, 0), 0>>,
    <<Date(1971, 2, 28, 23, 59), 423>>, <<Date(1971, 12, 31, 23, 59), 729>>,
    <<Date(1972, 2, 28, 23, 59), 788>>, <<Date(1972, 2, 29, 23, 59), 789>> }

MCStarts == {x[1] : x \in StartDays}

MCStartTime(s) ==
  LET day == (CHOOSE x \in StartDays : x[1] = s)[2]
  IN  (((day * 24 + s.hour) * 60 + s.min) * 60 + s.sec) * SecondTicks

Noon == [year |-> 1970, month |-> 6, day |-> 27, hour |-> 12, min |-> 0, sec |-> 5]

Body(code, time, payloads) ==
  [code |-> code, time |-> time,
   records |-> [i \in DOMAIN payloads |->
                  [rel |-> i, payload |-> payloads[i], signal |-> 52735]]]

Short(end) == [df |-> 5, head |-> "identity", tail |-> <<end>>]
Long(end) == [df |-> 20, head |-> "identity", tail |-> <<end>>]

MCOtherBodies ==
  {None,
   Body(Lower, Noon, <<Short(0)>>),
   Body(AB("1"), [Noon EXCEPT !.month = 13], <<Short(0)>>),
   Body(AB("1"), [Noon EXCEPT !.sec = 60], <<Short(0)>>),
   Body(AB("1"), [Noon EXCEPT !.hour = None], <<Short(0)>>),
   Body(AB("2"), Noon, <<Short(0), Short(1), Long(0), Long(1)>>)}
=============================================================================
