--------------------------- MODULE Configuration ---------------------------
(***************************************************************************)
(* The start of the program: the command line as the argument parser       *)
(* leaves it, the checks of Config::from_cli in src/config.rs, and the     *)
(* dispatch on the mode in src/main.rs; and the files that a recompute     *)
(* reads with it.  Times and sizes are in milliseconds; an option is its   *)
(* value, or None.                                                         *)
(***************************************************************************)
EXTENDS SensorCode

CONSTANTS
  Second, Minute,      \* their milliseconds
  CommandLines         \* the command lines considered

ASSUME ConfigurationAssumption == Second \in Nat \ {0} /\ Minute \in Nat \ {0}

\* What a path template can take from a sensor and a minute; the date is the year,
\* month and day together.  The rest of its text is the same in every path.
PathFields == {"sensor", "date", "hour", "minute"}

\* A command line, without the options from_cli only copies.
ASSUME CommandLineAssumption ==
  \A c \in CommandLines :
    /\ c.mode \in {"realtime", "recompute"}
    /\ c.block_size_ms \in Nat
    /\ c.data_path_template \in SUBSET PathFields \cup {None}   \* None: malformed
    /\ Len(c.sensors) \in Nat /\ DOMAIN c.sensors = 1 .. Len(c.sensors)
    /\ c.recompute_from \in Int \cup {None} /\ c.recompute_to \in Int \cup {None}

VARIABLES
  cli,      \* the command line
  phase     \* "parsed", "refused", or the mode that runs

configVars == <<cli, phase>>

-----------------------------------------------------------------------------
\* validate_path_template: any well-formed template will do.
TemplateOk(template) == template # None

\* Mutant of FitsMinute: the rule is left out.
AnyBlock(s) == TRUE

FitsMinute(s) == Minute % s = 0

\* validate_block_size
BlockSizeOk(s) ==
  /\ s # 0
  /\ s <= Second => Second % s = 0
  /\ s > Second => s % Second = 0
  /\ FitsMinute(s)

\* Mutant of Repeated: only neighbours are compared.
RepeatedNext(codes) == \E i \in 1 .. Len(codes) - 1 : codes[i] = codes[i + 1]

Repeated(codes) == \E i, j \in DOMAIN codes : i < j /\ codes[i] = codes[j]

SensorsOk(codes) ==
  /\ \A i \in DOMAIN codes : IsSensorId(codes[i])
  /\ ~Repeated(codes)
  /\ codes # <<>>

SurfaceRefOk(lat, lon) == (lat = None) = (lon = None)

MinuteAligned(t) == t % Minute = 0

RecomputeOk(c) ==
  /\ c.recompute_from # None /\ c.recompute_to # None
  /\ c.recompute_to > c.recompute_from
  /\ MinuteAligned(c.recompute_from) /\ MinuteAligned(c.recompute_to)
  /\ c.data_dir # None

\* Config::from_cli; which check is the first to fail shows only in the message.
Valid(c) ==
  /\ BlockSizeOk(c.block_size_ms)
  /\ TemplateOk(c.data_path_template)
  /\ SensorsOk(c.sensors)
  /\ SurfaceRefOk(c.surface_ref_lat, c.surface_ref_lon)
  /\ c.mode = "realtime" => c.amqp_url # None
  /\ c.mode = "recompute" => RecomputeOk(c)

-----------------------------------------------------------------------------
(* The files of a recompute; minutes are counted from the epoch. *)

HourMinutes == 60
DayMinutes == 24 * HourMinutes

PathField(f, sensor, m) ==
  CASE f = "sensor" -> sensor
    [] f = "date" -> m \div DayMinutes
    [] f = "hour" -> (m \div HourMinutes) % 24
    [] f = "minute" -> m % HourMinutes

\* minute_path
MinutePath(template, sensor, m) == [f \in template |-> PathField(f, sensor, m)]

\* The minute before the range, to warm the state, and those of the range.
MinutesRead(c) == (c.recompute_from \div Minute) - 1 .. (c.recompute_to \div Minute) - 1

\* Each read is for a place on the command line and a minute.
Reads(c) == (DOMAIN c.sensors) \X MinutesRead(c)

PathRead(c, r) == MinutePath(c.data_path_template, c.sensors[r[1]], r[2])

-----------------------------------------------------------------------------
ConfigInit == cli \in CommandLines /\ phase = "parsed"

\* main: an error is returned before either mode is entered.
Refuse == phase = "parsed" /\ ~Valid(cli) /\ phase' = "refused" /\ UNCHANGED cli

RunMode == phase = "parsed" /\ Valid(cli) /\ phase' = cli.mode /\ UNCHANGED cli

ConfigNext == Refuse \/ RunMode

ConfigSpec == ConfigInit /\ [][ConfigNext]_configVars
=============================================================================
