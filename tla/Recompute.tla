----------------------------- MODULE Recompute -----------------------------
(***************************************************************************)
(* The recompute mode of src/app.rs: a range of minutes is rebuilt from    *)
(* one file per sensor and minute, by one synchronous loop around the      *)
(* engine.  The minute before the range is fed first, to warm the state;   *)
(* then every minute of the range is fed and the minutes that have become  *)
(* final are replaced in the database, one transaction each.  The process  *)
(* may die at any point, and the operator runs it again.                   *)
(*                                                                         *)
(* The database holds rows by <<mode_s_code, block id>>, its unique key.   *)
(* produced and written are history: the last position produced for every  *)
(* key in this run, and the minutes any run has committed.                 *)
(***************************************************************************)
EXTENDS Engine, Sequences

CONSTANTS
  Minute,     \* ticks in a minute
  From, To,   \* the range, in minutes: From is in it, To is not
  Lookback,   \* restore_lookback_seconds, in ticks
  Declared,   \* the sensors in the order of the command line
  Contents,   \* sensor -> what a minute file of it can hold: [rel, frame] sequences
  OldRows,    \* the table before the first run
  MaxRuns     \* bound: runs started after the first

FileRecords == [rel : 0 .. Minute - 1, frame : Frames]

MinuteOf(row) == row.ts \div Minute

RowKey(row) == <<row.mode_s_code, BlockId(row.ts)>>

\* Blocks divide the minute (validate_block_size), the range is not empty and
\* well within the times there are, its records are those of whole minutes of
\* the declared sensors, and the table holds one row for each key.  That a
\* record's time lies within its minute is the rule of the format (0 to
\* 599,999,999 units, wire.rs:10), which the parser does not check.
ASSUME RecomputeAssumption ==
  /\ Minute \in Nat \ {0} /\ Minute % Block = 0
  /\ From \in Int /\ To \in Int /\ From < To
  /\ TsMin < (From - 1) * Minute /\ To * Minute <= TsMax
  /\ Lookback \in Nat
  /\ Declared \in Seq(Sensors)
  /\ \A s \in Sensors : \E i \in 1 .. Len(Declared) : Declared[i] = s
  /\ \A s \in Sensors : \A f \in Contents[s] : f \in Seq(FileRecords)
  /\ \A s \in Sensors : \A f \in Contents[s] : \A i \in 1 .. Len(f) :
       \A m \in From - 1 .. To - 1 : m * Minute + f[i].rel \in EventTimes
  /\ \A k \in DOMAIN OldRows : OldRows[k].ts \in Int /\ RowKey(OldRows[k]) = k
  /\ NowTimes = {}

VARIABLES
  pc,         \* "start", "read", "feed", "write" or "done"
  minute,     \* the minute being fed
  pending,    \* its records not fed yet
  buckets,    \* minute -> set of rows collected and not written
  nextWrite,  \* the first minute not written by this run
  db,         \* <<mode_s_code, block id>> -> row
  files,      \* <<sensor, minute>> -> contents, once read by some run
  runs,       \* runs started after the first
  produced,   \* key -> last position produced in this run, at its block start
  written     \* minutes committed by any run

runVars == <<pc, minute, pending, buckets, nextWrite, produced>>
storeVars == <<db, files, runs, written>>
recomputeVars == <<engineVars, runVars, storeVars>>

StartOf(m) == m * Minute

InMinute(rows, m) == {k \in DOMAIN rows : MinuteOf(rows[k]) = m}

-----------------------------------------------------------------------------
\* Mutant of InWindow: the upper end of the window is forgotten.
InWindowOpen(row) == row.ts >= StartOf(From) - Lookback

InWindow(row) == row.ts >= StartOf(From) - Lookback /\ row.ts < StartOf(From)

\* Phase 1: the identities of each aircraft's newest row in the window.
RestoreRows(rows) ==
  LET window(a) == {k \in DOMAIN rows : k[1] = a /\ InWindow(rows[k])}
      newest(a) == CHOOSE k \in window(a) : \A j \in window(a) : rows[j].ts <= rows[k].ts
  IN  {[icao |-> a, call_sign |-> rows[newest(a)].call_sign,
        squawk |-> rows[newest(a)].squawk] : a \in {x \in Icaos : window(x) # {}}}

\* A fresh engine, seeded with rows.
NewEngine(rows) ==
  /\ latest' = [s \in {} |-> TsMin]
  /\ watermark' = TsMin
  /\ seen' = {}
  /\ expiry' = {}
  /\ blocks' = NoRows
  /\ aircraft' = Restored(rows)
  /\ confirmed' = TsMin
  /\ finished' = FALSE
  /\ out' = NoRows
  /\ counted' = "none"

NewRun ==
  /\ minute' = From - 1
  /\ pending' = {}
  /\ buckets' = NoRows
  /\ nextWrite' = From
  /\ produced' = NoRows

RecomputeInit ==
  /\ EngineInit
  /\ pc = "start"
  /\ minute = From - 1
  /\ pending = {}
  /\ buckets = NoRows
  /\ nextWrite = From
  /\ db = OldRows
  /\ files = NoRows
  /\ runs = 0
  /\ produced = NoRows
  /\ written = {}

Start ==
  /\ pc = "start"
  /\ pc' = "read"
  /\ NewEngine(RestoreRows(db))
  /\ NewRun
  /\ UNCHANGED storeVars

\* A record of minute m: [ts, frame], with the sensor's place on the command
\* line and the record's place in its file.
MinuteRecord(m, i, file, j) ==
  [ts |-> StartOf(m) + file[j].rel, frame |-> file[j].frame, source |-> i, index |-> j]

SensorRecords(m, i, file) == {MinuteRecord(m, i, file, j) : j \in DOMAIN file}

\* The records of all declared sensors for minute m.
MinuteRecords(contents, m) ==
  UNION {SensorRecords(m, i, contents[<<Declared[i], m>>]) : i \in DOMAIN Declared}

\* read_minute_all_sensors.  A file another run has read is what it was; a
\* missing file is an empty one.
ReadMinute ==
  /\ pc = "read"
  /\ \E new \in [Sensors -> UNION Range(Contents)] :
       /\ \A s \in Sensors : new[s] \in Contents[s]
       /\ \A s \in Sensors : <<s, minute>> \in DOMAIN files => new[s] = files[<<s, minute>>]
       /\ files' = [x \in DOMAIN files \cup (Sensors \X {minute}) |->
                      IF x \in DOMAIN files THEN files[x] ELSE new[x[1]]]
  /\ pending' = MinuteRecords(files', minute)
  /\ pc' = "feed"
  /\ UNCHANGED <<engineVars, minute, buckets, nextWrite, produced, db, runs, written>>

\* Mutant of Before: the files are fed one after the other, unsorted.
BeforeBySensor(x, y) ==
  x.source < y.source \/ (x.source = y.source /\ x.index < y.index)

\* The order of the stable sort by time.
Before(x, y) ==
  \/ x.ts < y.ts
  \/ x.ts = y.ts /\ x.source < y.source
  \/ x.ts = y.ts /\ x.source = y.source /\ x.index < y.index

\* Mutant of InRange: the rows of the warm-up are not muted.
NotMuted(row) == MinuteOf(row) < To

InRange(row) == From <= MinuteOf(row) /\ MinuteOf(row) < To

\* Mutant of BucketOf: the minute of the block's end.
BucketOfEnd(row) == (row.ts + Block) \div Minute

\* minute_key: the bucket of a row.
BucketOf(row) == MinuteOf(row)

\* buckets with the engine's rows that belong to the range.
Collect(rows) ==
  LET kept == {r \in Range(rows) : InRange(r)}
      into(m) == {r \in kept : BucketOf(r) = m}
  IN  [m \in DOMAIN buckets \cup {BucketOf(r) : r \in kept} |->
         IF m \in DOMAIN buckets THEN buckets[m] \cup into(m) ELSE into(m)]

\* The history of positions: the last one of each block, at the block start.
Produced(recs) ==
  LET rows == {Rounded(r) : r \in recs}
  IN  [k \in DOMAIN produced \cup {RowKey(r) : r \in rows} |->
         IF \E r \in rows : RowKey(r) = k THEN CHOOSE r \in rows : RowKey(r) = k
         ELSE produced[k]]

EventOf(x) == [sensor |-> Declared[x.source], frame |-> x.frame, ts |-> x.ts]

\* One record through the engine.
Feed ==
  /\ pc = "feed"
  /\ \E x \in pending :
       LET ev == EventOf(x)
       IN  /\ \A y \in pending \ {x} : Before(x, y)
           /\ pending' = pending \ {x}
           /\ \/ DropLate(ev) /\ UNCHANGED produced
              \/ ProcessFirst(ev) /\ produced' = Produced(ProcessRecords(ev))
              \/ ProcessDuplicate(ev) /\ UNCHANGED produced
  /\ buckets' = Collect(out')
  /\ UNCHANGED <<pc, minute, nextWrite, storeVars>>

\* The warm-up minute is followed by the first minute of the range; a minute
\* of the range by the writes that have become possible.
MinuteFed ==
  /\ pc = "feed"
  /\ pending = {}
  /\ IF minute < From THEN minute' = minute + 1 /\ pc' = "read"
                      ELSE minute' = minute /\ pc' = "write"
  /\ UNCHANGED <<engineVars, pending, buckets, nextWrite, produced, storeVars>>

\* Mutant of Ready: the watermark instead of the confirmed time.
ReadyByWatermark == nextWrite < To /\ (StartOf(nextWrite + 1) <= watermark \/ finished)

\* A minute is written once the confirmed time has reached its end.
Ready == nextWrite < To /\ StartOf(nextWrite + 1) <= confirmed

\* Mutant of Deleted: the end of the minute is included.
DeletedInclusive(rows, m) ==
  {k \in DOMAIN rows : StartOf(m) <= rows[k].ts /\ rows[k].ts <= StartOf(m + 1)}

Deleted(rows, m) ==
  {k \in DOMAIN rows : StartOf(m) <= rows[k].ts /\ rows[k].ts < StartOf(m + 1)}

BucketRows(m) == IF m \in DOMAIN buckets THEN buckets[m] ELSE {}

\* PostgreSQL refuses an insert that would update a row it has just inserted.
Insertable(rows) == \A r, q \in rows : RowKey(r) = RowKey(q) => r = q

\* The transaction: DELETE the minute, then INSERT its rows.
ReplaceMinute(m) ==
  LET kept == DOMAIN db \ Deleted(db, m)
      rows == BucketRows(m)
  IN  /\ Insertable(rows)
      /\ db' = [k \in kept \cup {RowKey(r) : r \in rows} |->
                  IF \E r \in rows : RowKey(r) = k THEN CHOOSE r \in rows : RowKey(r) = k
                  ELSE db[k]]
      /\ written' = written \cup {m}

\* Mutant of AfterWrite: the loop does not move on.
SameMinute == nextWrite

AfterWrite == nextWrite + 1

WriteMinute ==
  /\ pc = "write"
  /\ Ready
  /\ ReplaceMinute(nextWrite)
  /\ buckets' = [m \in DOMAIN buckets \ {nextWrite} |-> buckets[m]]
  /\ nextWrite' = AfterWrite
  /\ UNCHANGED <<engineVars, pc, minute, pending, produced, files, runs>>

\* The next minute of the range, or the end of the input.
NextMinute ==
  /\ pc = "write"
  /\ ~Ready /\ ~finished /\ minute + 1 < To
  /\ minute' = minute + 1
  /\ pc' = "read"
  /\ UNCHANGED <<engineVars, pending, buckets, nextWrite, produced, storeVars>>

\* What is still pending goes into the buckets, and every minute left is ready.
FinishInput ==
  /\ pc = "write"
  /\ ~Ready /\ minute + 1 = To
  /\ Finish
  /\ buckets' = Collect(out')
  /\ UNCHANGED <<pc, minute, pending, nextWrite, produced, storeVars>>

RunDone ==
  /\ pc = "write"
  /\ ~Ready /\ finished
  /\ pc' = "done"
  /\ UNCHANGED <<engineVars, minute, pending, buckets, nextWrite, produced, storeVars>>

\* The process ends and is started again: nothing but the table remains.
Restart ==
  /\ runs < MaxRuns
  /\ runs' = runs + 1
  /\ pc' = "start"
  /\ NewEngine({})
  /\ NewRun
  /\ UNCHANGED files

\* The process dies, or a query fails and the run ends with its error; also
\* the same range is run once more.
Abort == Restart /\ UNCHANGED <<db, written>>

\* A commit whose outcome the process does not learn.
CommitThenAbort ==
  /\ pc = "write"
  /\ Ready
  /\ ReplaceMinute(nextWrite)
  /\ Restart

RunStep ==
  \/ Start \/ ReadMinute \/ Feed \/ MinuteFed
  \/ WriteMinute \/ NextMinute \/ FinishInput \/ RunDone

RecomputeNext == RunStep \/ Abort \/ CommitThenAbort

\* A run that is not killed goes on; it is killed at most MaxRuns times.
RecomputeSpec ==
  RecomputeInit /\ [][RecomputeNext]_recomputeVars /\ WF_recomputeVars(RunStep)
=============================================================================
