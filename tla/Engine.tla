------------------------------- MODULE Engine -------------------------------
(***************************************************************************)
(* The synchronous core of src/engine.rs: aggregator, deduplicator,        *)
(* aircraft state and downsampler called in a fixed order by one caller.   *)
(* A call runs to completion before the next, so each call is one action.  *)
(*                                                                         *)
(* A call returns rows (out) and may increment one of the counters of      *)
(* src/metrics.rs (counted); both are the effects of the last call.        *)
(***************************************************************************)
EXTENDS WatermarkAggregator, Deduplicator, Downsampler, AircraftState

CONSTANTS
  EventTimes,   \* timestamps the sensors' records can carry
  NowTimes,     \* wall clock readings of the realtime drain; {} in a recompute
  Restore       \* (icao, call_sign, squawk) rows the state is seeded with

\* A record's time is a calendar minute plus at most 2^32 ticks, and a clock
\* reading is a calendar time: neither comes within a block of the ends.
ASSUME EventTimesAssumption ==
  /\ \A t \in EventTimes : t \in Ts /\ t + Block < TsMax /\ t + Ttl < TsMax
  /\ \A t \in NowTimes : t \in Ts /\ t < TsMax

\* Every frame that decodes names one of the aircraft.
ASSUME AddressAssumption ==
  \A f \in Frames :
    DecodeFrame(f).kind \in DecodeRejects \/ DecodeFrame(f).icao \in Icaos

Events == [sensor : Sensors, frame : Frames, ts : EventTimes]

VARIABLES
  confirmed,   \* the watermark of the last purge and flush
  finished,    \* the caller has closed the input and drops the engine
  out,         \* rows the last call returned, by <<mode_s_code, block id>>
  counted      \* the metric the last call incremented, or "none"

engineVars == <<latest, watermark, seen, expiry, blocks, aircraft,
                confirmed, finished, out, counted>>

NoRows == [k \in {} |-> k]

\* The smallest advance of the watermark that triggers a purge and a flush.
ConfirmQuantum == Max({Min({Block, Ttl}), 1})

EngineInit ==
  /\ AggInit
  /\ DedupInit
  /\ DownsamplerInit
  /\ aircraft = Restored(Restore)
  /\ confirmed = TsMin
  /\ finished = FALSE
  /\ out = NoRows
  /\ counted = "none"

\* Mutant of ConfirmDue: two quanta instead of one.
ConfirmDueTwice(wm) == wm >= SaturatingAdd(confirmed, 2 * ConfirmQuantum)

ConfirmDue(wm) == wm >= SaturatingAdd(confirmed, ConfirmQuantum)

\* The confirmation step for watermark wm, on the dedup state s and e and the
\* blocks b that the rest of the call leaves.
Confirm(wm, s, e, b) ==
  /\ confirmed' = wm
  /\ seen' = PurgeSeen(s, e, wm)
  /\ expiry' = PurgeExpiry(e, wm)
  /\ blocks' = Retained(b, wm)
  /\ out' = Flushed(b, wm)

Defer(s, e, b) ==
  /\ seen' = s
  /\ expiry' = e
  /\ blocks' = b
  /\ out' = NoRows
  /\ UNCHANGED confirmed

\* Confirm only if the watermark advanced, by a quantum since the last time.
ConfirmIfDue(s, e, b) ==
  IF watermark' > watermark /\ ConfirmDue(watermark')
  THEN Confirm(watermark', s, e, b)
  ELSE Defer(s, e, b)

\* Mutant of Late: the guard is forgotten.
NeverLate(ev) == FALSE

\* An event is late when the watermark has passed it.
Late(ev) == ev.ts < watermark

\* A late event is dropped before it is observed.
DropLate(ev) ==
  /\ ~finished
  /\ Late(ev)
  /\ out' = NoRows
  /\ counted' = "dropped_late"
  /\ UNCHANGED <<latest, watermark, seen, expiry, blocks, aircraft,
                 confirmed, finished>>

\* What a first copy of a frame counts: its reject reason or its position.
Counted(ev) ==
  LET d == DecodeFrame(ev.frame)
  IN  CASE d.kind = "CrcInvalid"    -> "rejected_crc"
        [] d.kind = "ParseError"    -> "parse_error"
        [] d.kind = "UnsupportedDf" -> "unsupported_df"
        [] OTHER -> IF ProcessRecords(ev) # {} THEN "positions_emitted" ELSE "none"

BlocksWith(recs) == IF recs = {} THEN blocks ELSE Ingest(CHOOSE r \in recs : TRUE)

\* A first copy: observed, accepted, merged into its aircraft, its position if
\* any ingested, and only then a confirmation for the advanced watermark.
ProcessFirst(ev) ==
  /\ ~finished
  /\ ~Late(ev)
  /\ Accepts(ev.frame)
  /\ Observe(ev.sensor, ev.ts)
  /\ aircraft' = ProcessAircraft(ev)
  /\ counted' = Counted(ev)
  /\ ConfirmIfDue(AcceptSeen(ev.frame), AcceptExpiry(ev.frame, ev.ts),
                  BlocksWith(ProcessRecords(ev)))
  /\ UNCHANGED finished

\* A further copy is dropped, but its time still moves the watermark.
ProcessDuplicate(ev) ==
  /\ ~finished
  /\ ~Late(ev)
  /\ ~Accepts(ev.frame)
  /\ Observe(ev.sensor, ev.ts)
  /\ counted' = "deduped_dropped"
  /\ ConfirmIfDue(seen, expiry, blocks)
  /\ UNCHANGED <<aircraft, finished>>

\* The realtime tick: the watermark follows the wall clock.
AdvanceWallclock(now) ==
  /\ ~finished
  /\ AdvanceTo(now)
  /\ counted' = "none"
  /\ ConfirmIfDue(seen, expiry, blocks)
  /\ UNCHANGED <<aircraft, finished>>

\* The end of the input: a confirmation at TsMax, then what blocks remain.
Finish ==
  /\ ~finished
  /\ finished' = TRUE
  /\ confirmed' = TsMax
  /\ seen' = PurgeSeen(seen, expiry, TsMax)
  /\ expiry' = PurgeExpiry(expiry, TsMax)
  /\ blocks' = NoRows
  /\ out' = [k \in Ended(blocks, TsMax) \cup DOMAIN Retained(blocks, TsMax) |-> blocks[k]]
  /\ counted' = "none"
  /\ UNCHANGED <<latest, watermark, aircraft>>

EngineNext ==
  \/ \E ev \in Events : DropLate(ev) \/ ProcessFirst(ev) \/ ProcessDuplicate(ev)
  \/ \E now \in NowTimes : AdvanceWallclock(now)
  \/ Finish

EngineSpec == EngineInit /\ [][EngineNext]_engineVars

-----------------------------------------------------------------------------
Keys == Icaos \X Int

\* Rows filed under their aircraft and block, at the start of the block.
WellFiled(rows) ==
  \A k \in DOMAIN rows :
    /\ k \in Keys
    /\ rows[k].mode_s_code = k[1]
    /\ rows[k].ts = k[2] * Block

\* The type of the engine's state; the rows pending and returned carry the
\* aircraft and the block start they are filed under, which become the primary
\* key of the database row.
EngineTypeOK ==
  /\ DOMAIN latest \subseteq Sensors
  /\ \A s \in DOMAIN latest : latest[s] \in EventTimes
  /\ watermark \in Ts
  /\ seen \subseteq Frames
  /\ expiry \subseteq Ts \X Frames
  /\ WellFiled(blocks)
  /\ WellFiled(out)
  /\ DOMAIN aircraft = Icaos
  /\ confirmed \in Ts
  /\ finished \in BOOLEAN

\* Event time never runs backwards: neither the watermark nor the confirmed
\* time, which the recompute compares with minute ends, ever decreases, and
\* rows are confirmed only up to the watermark until the input is closed.
WatermarkMonotone ==
  [][/\ watermark' >= watermark
     /\ confirmed' >= confirmed
     /\ confirmed' > watermark' => finished']_engineVars

\* Without wall clock readings a sensor that keeps within Timeout of the
\* frontier holds the watermark at or behind its own latest time, so none of
\* its further events (a sensor's events come in time order) is dropped late,
\* however far ahead the other sensors are.
ActiveSensorNeverLate ==
  NowTimes = {} =>
    \A s \in DOMAIN latest : latest[s] >= Cutoff(latest) => watermark <= latest[s]

\* The deferred confirmation delays a block by less than one quantum: a block
\* whose end is that far behind the watermark has been returned.
PendingBounded ==
  ~finished =>
    \A k \in DOMAIN blocks :
      /\ KeyEnd(k) > confirmed
      /\ watermark < KeyEnd(k) + ConfirmQuantum

\* An entry that a confirmation at time c leaves: it expires later, or at c
\* itself if it was made after the purge with a zero time to live.
Unexpired(x, c) == x[1] > c \/ (Ttl = 0 /\ x[1] = c)

\* The dedup memory holds a frame exactly as long as one expiry entry for it,
\* and no entry that the last confirmation should have purged: no frame is
\* remembered for ever, and none is forgotten early.
DedupMemory ==
  ~finished =>
    /\ seen = {x[2] : x \in expiry}
    /\ \A x, y \in expiry : x[2] = y[2] => x = y
    /\ \A x \in expiry : Unexpired(x, confirmed)
=============================================================================
