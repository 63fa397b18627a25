-------------------------------- MODULE Wire --------------------------------
(***************************************************************************)
(* The format of src/wire.rs: what becomes of the bytes of a message or    *)
(* file.  A message is a sensor code, a calendar time to the second and    *)
(* records; a record has a time relative to the minute, a payload and a    *)
(* signal level.  Bytes that make up one field are one value here, and a   *)
(* field of the header that is not a number is None.  Calendar dates are   *)
(* those of the chrono library.                                            *)
(***************************************************************************)
EXTENDS SensorCode, SequencesExt

CONSTANTS
  SecondTicks,   \* units of 100 ns in a second
  EpochYear,     \* the year times are counted from
  PaddingLen     \* bytes of a payload beyond a short frame

ASSUME WireAssumption ==
  /\ SecondTicks \in Nat \ {0} /\ EpochYear \in Int /\ PaddingLen \in Nat
  /\ None \notin Int

MinuteTicks == 60 * SecondTicks

-----------------------------------------------------------------------------
(* The calendar. *)

IsLeap(y) == y % 4 = 0 /\ (y % 100 # 0 \/ y % 400 = 0)

\* Days of a common year before each month.
DaysBefore == <<0, 31, 59, 90, 120, 151, 181, 212, 243, 273, 304, 334, 365>>

DaysIn(y, m) ==
  DaysBefore[m + 1] - DaysBefore[m] + IF m = 2 /\ IsLeap(y) THEN 1 ELSE 0

\* Leap years up to year y.
LeapYears(y) == (y \div 4) - (y \div 100) + (y \div 400)

\* Days from the start of EpochYear to a date.
DayNumber(y, m, d) ==
  365 * (y - EpochYear) + LeapYears(y - 1) - LeapYears(EpochYear - 1)
    + DaysBefore[m] + (IF m > 2 /\ IsLeap(y) THEN 1 ELSE 0) + d - 1

IsMinute(t) ==
  /\ t.month \in 1 .. 12 /\ t.day \in 1 .. DaysIn(t.year, t.month)
  /\ t.hour \in 0 .. 23 /\ t.min \in 0 .. 59

\* Seconds from the start of EpochYear to a time of day.
Seconds(t) ==
  ((DayNumber(t.year, t.month, t.day) * 24 + t.hour) * 60 + t.min) * 60 + t.sec

-----------------------------------------------------------------------------
\* The start of the minute of a header's time.
ParseMinute(t) ==
  IF \E f \in DOMAIN t : t[f] = None THEN None
  ELSE IF t.sec >= 60 \/ ~IsMinute(t) THEN None
  ELSE ((DayNumber(t.year, t.month, t.day) * 24 + t.hour) * 60 + t.min) * MinuteTicks

\* parse_amqp_header; body is None when it is shorter than a header.
HeaderReject(body) ==
  IF body = None THEN "BadLength"
  ELSE IF ~IsSensorId(body.code) THEN "BadSensorId"
  ELSE IF ParseMinute(body.time) = None THEN "BadTimestamp"
  ELSE "none"

\* The payload of a record: the first five bits, the rest of a short frame, and
\* the bytes beyond it.
IsPayload(payload) ==
  /\ payload = [df |-> payload.df, head |-> payload.head, tail |-> payload.tail]
  /\ payload.df \in 0 .. 31
  /\ payload.tail \in [1 .. PaddingLen -> 0 .. 255]

\* Mutant of Padded: the end of the payload is not looked at.
Unchecked(payload) == TRUE

\* The end of a short payload must be zero.
Padded(payload) == \A i \in DOMAIN payload.tail : payload.tail[i] = 0

MalformedShortFrame == [form |-> "malformed"]

\* parse_frame; the first byte's upper five bits tell the length.
ParseFrame(payload) ==
  IF payload.df >= 16 THEN [form |-> "long", payload |-> payload]
  ELSE IF Padded(payload) THEN [form |-> "short", df |-> payload.df, head |-> payload.head]
  ELSE MalformedShortFrame

\* The integer part of the negated level.
SignalDbm(value) == -((65535 - value) \div 256)

\* parse_record
ParseRecord(sensor, minute_start, record) ==
  [sensor_id |-> sensor, ts |-> minute_start + record.rel,
   rssi_dbm |-> SignalDbm(record.signal), frame |-> ParseFrame(record.payload)]

\* The events of a message with an accepted header, in order.
EventsOf(body) ==
  LET start == ParseMinute(body.time)
      record(i) == ParseRecord(body.code, start, body.records[i])
      upto[n \in 0 .. Len(body.records)] ==
        IF n = 0 THEN <<>>
        ELSE IF record(n).frame = MalformedShortFrame THEN upto[n - 1]
        ELSE Append(upto[n - 1], record(n))
  IN  upto[Len(body.records)]
=============================================================================
