-------------------------- MODULE ConfigProperties --------------------------
(***************************************************************************)
(* What the two modes may rely on when they are entered.                   *)
(***************************************************************************)
EXTENDS Configuration, FiniteSets

CONSTANT Instants   \* milliseconds since the epoch, before and after it

ASSUME InstantsAssumption == Instants \subseteq Int

Running == phase \in {"realtime", "recompute"}

BlockStart(t) == (t \div cli.block_size_ms) * cli.block_size_ms

\* docs/DESIGN.md 4.4: no block crosses the boundary of two minutes, so that
\* the block of a row is in the minute whose file its position comes from,
\* also before 1970.
BlocksWithinMinute ==
  Running =>
    \A t, u \in Instants :
      BlockStart(t) = BlockStart(u) => t \div Minute = u \div Minute

\* A recompute replaces rows by their block start: a position is in the range
\* exactly when its row is, so none of another range is deleted, and none of
\* its own is left out.
RowsFollowRange ==
  phase = "recompute" =>
    \A t \in Instants :
      (cli.recompute_from <= t /\ t < cli.recompute_to)
        = (cli.recompute_from <= BlockStart(t) /\ BlockStart(t) < cli.recompute_to)

\* What the end of a minute or of a range could cut is whole: the rows that a
\* recompute deletes and writes, minute by minute, are those of the positions it
\* reads there (config.rs:206, config.rs:144).
BlocksUncut == BlocksWithinMinute /\ RowsFollowRange

\* Templates that give n minutes in a row paths of their own.
TellsApart(template, n) ==
  /\ "minute" \in template
  /\ "hour" \in template \/ n <= HourMinutes
  /\ "date" \in template \/ n <= DayMinutes

\* docs/DESIGN.md 5: the files of every declared sensor are read for every minute,
\* one for each; a file read twice would give the engine its events again, as those
\* of another sensor or minute.  The start checks only that a template is
\* well-formed (config.rs:173), not that it has the fields for that.  No file is
\* read twice if the template names the sensor, or one is declared, and tells
\* the minutes of the range and the one before it apart.
FilesReadOnce ==
  phase = "recompute"
    /\ ("sensor" \in cli.data_path_template \/ Len(cli.sensors) = 1)
    /\ TellsApart(cli.data_path_template, Cardinality(MinutesRead(cli)))
  => \A r, q \in Reads(cli) : PathRead(cli, r) = PathRead(cli, q) => r = q
=============================================================================
