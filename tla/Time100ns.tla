----------------------------- MODULE Time100ns -----------------------------
(***************************************************************************)
(* Timestamps and durations of src/time.rs: signed integers counting       *)
(* 100 ns ticks, whose additions and subtractions saturate at the ends of  *)
(* the representable range.  The code's range is that of i64; it is a      *)
(* parameter here so that TLC can put the ends of the range close to the   *)
(* event times of a model.                                                 *)
(***************************************************************************)
EXTENDS Integers

CONSTANTS
  TsMin,   \* Ts100ns::MIN, the watermark before the first event
  TsMax    \* Ts100ns::MAX, the watermark of the end of the input

ASSUME TsRangeAssumption ==
  /\ TsMin \in Int
  /\ TsMax \in Int
  /\ TsMin < 0
  /\ TsMax > 0

Ts == TsMin .. TsMax

\* Two's complement saturation: an out-of-range value becomes the nearest end.
Clamp(x) == IF x < TsMin THEN TsMin ELSE IF x > TsMax THEN TsMax ELSE x

SaturatingAdd(t, d) == Clamp(t + d)

SaturatingSub(t, d) == Clamp(t - d)

\* The distance of two times: a saturating difference, then a saturating abs
\* (|TsMin| need not be representable).
AbsDelta(t, other) ==
  LET diff == Clamp(t - other)
  IN  IF diff < 0 THEN Clamp(-diff) ELSE diff
============================================================================
