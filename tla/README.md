# adsbx in TLA+

TLA+ models, TLC runs and TLAPS proofs for adsbx, the program under `src/` of the
repository. It merges the Mode-S frames that several ground sensors receive, removes
duplicates, locates aircraft, thins their positions out to one row per aircraft and
time block, and stores the rows in PostgreSQL: live from a message queue, or by
recomputing past minutes from files.

Paths such as `app.rs:64` are relative to `src/src/`, `docs/...` to `src/`.

## 1. The system

| Part | Source | State | Operations | Called by |
|---|---|---|---|---|
| Time types | `time.rs` | - | saturating arithmetic | all |
| Watermark aggregator | `aggregator.rs` | latest time of each sensor, watermark | `observe`, `advance_to` | engine |
| Deduplicator | `dedup.rs` | remembered frames, their expiry times | `accept`, `purge` | engine |
| Decoder, CPR | `decode.rs`, `cpr.rs` | - | `decode_frame`, `global_airborne`, `local_surface` | state manager |
| Aircraft state manager | `state.rs` | per aircraft: CPR cache by parity, debounced call sign and squawk, altitude | `restore`, `process` | engine |
| Downsampler | `downsampler.rs` | pending rows by aircraft and block | `ingest`, `flush`, `drain_all` | engine |
| Engine | `engine.rs` | confirmed time | `process`, `advance_wallclock`, `finish` | orchestration |
| Realtime orchestration | `app.rs` | two bounded channels, outgoing rows, batch | receive, tick, shut down, batch, flush with retries | `main.rs` |
| Recompute orchestration | `app.rs` | minute buckets, next minute to write | read, feed, collect, write ready minutes, finish | `main.rs` |
| Database writer | `writer.rs` | the table | upsert a batch, replace a minute, restore | orchestration |
| AMQP receiver, file reader | `receiver.rs` | session, backoff | connect, consume, acknowledge, push, reconnect; read a minute file | orchestration |
| Wire format | `wire.rs` | - | parse header, record, frame, signal | receiver |
| Configuration, entry point | `config.rs`, `main.rs` | - | validate the command line, refuse it or run a mode | the user |
| Test publisher | `examples/publish.rs` | - | publish three messages at the present time | the user |
| Metrics | `metrics.rs` | counters | increment, snapshot | all |

How they interact:

```
realtime   broker --AMQP--> receiver task --rx_in--> engine loop --tx_db--> writer task --> table
                                                     (select: event, tick, ctrl-c)
recompute  table --restore--> engine <-- sorted minute files;  engine --> buckets --> one transaction per minute
engine     aggregator -> deduplicator -> state manager (decoder, CPR) -> downsampler, then purge and flush
```

The engine is synchronous and has one caller, so a call of it is one step. What
runs concurrently is the receiver task, the engine loop and the writer task, joined
by two bounded channels, and beyond them the broker, the sensors, the database and
whoever kills the process.

### What is hard, and what makes each part correct

* **Watermark.** Sensors lag and stop; the watermark must wait for those within the
  timeout, pass the others, and never go back although its candidate does.
  (`ActiveSensorNeverLate`, `WatermarkMonotone`; for a sensor not heard yet,
  `DeclaredSensorsHoldBack`.)
* **Deduplication.** Copies come in any order and the purge runs late, at a
  confirmation; a frame must be let through once per time to live, remembered no
  longer than a quantum past it, and never for ever. (`DedupExact`, `DedupMemory`,
  `DuplicateRemembered`.)
* **Closing blocks.** A row must be returned once, after the last event that can
  change it, at most a quantum late, at the boundary values and at the end of the
  input. (`KeyReturnedOnce`, `PendingBounded`, `LedgerSpec`, `ReturnedRowsFinal`.)
* **Aircraft state.** A CPR pair comes from the latest message of the other parity
  whatever the order of times; an identity changes exactly after N observations in
  a row. (`PairedWithLatest`, `ConfirmedOnlyByStreak`, `StreakConfirms`.)
* **Recompute.** A minute is written while later ones are fed, files overlap and are
  not sorted, the run may die anywhere or not learn of a commit, and it starts
  from the table it rewrites. (`NothingLate`, `WrittenMinutesComplete`,
  `BucketsBounded`, `OutsideUntouched`, `RerunConverges`, `RunEnds`.)
* **Realtime.** Two channels may be full while the writer sleeps between attempts and
  the user presses ctrl-c; no row may be lost on the way or sent twice, and the
  program must end. (`RowsAccounted`, `ShutdownDrains`, `RowsSettled`, `ShutdownEnds`.)
* **Receiver.** It acknowledges before it pushes, acknowledgements are lost with the
  connection, messages come again, some cannot be used. (`AckedIsPassedOn`,
  `AllAcknowledged`, `BackoffSchedule`.)

* **The realtime mode as a whole.** Messages come again after a lost connection, with the
  engine and the channels full of what they held before; the process dies with
  acknowledgements and rows under way. What the engine lets through is
  let through once and reaches the table in order; what no engine is ever given is
  bounded, and what an engine has not yet stored is known; and nothing waits for
  ever. (`RedeliveryFiltered`, `TableIsLastAccepted`, `UnreadBounded`, `UnsavedHeld`,
  `EveryRecordHandled`, `ImplementsRealtime`; for a new process, `RedeliveryAbsorbed`.)
* **Configuration.** The modes rely on blocks that never cross a minute, also before
  1970, on ranges of whole minutes, and on a file of its own for every sensor and minute
  read. (`BlocksUncut`, of `BlocksWithinMinute` and `RowsFollowRange`; `FilesReadOnce`, which says what the path
  template must have for it, since the start does not ask.)
* **Wire format.** A message carries its second and a record the time within the
  minute; the parser must put them together exactly once. Short frames lose their
  padding and must stay distinct. (`TimesExact`, `FramesDistinct`.)

`PROJECT.json` lists every hazard at its line with the properties that cover it, or
why none does.

## 2. The modules

| Module | Models | State and actions |
|---|---|---|
| `Time100ns` | `time.rs` | `Clamp` and the saturating operators, over a range `TsMin .. TsMax` that a configuration puts close to its event times |
| `WatermarkAggregator` | `aggregator.rs` | `latest` (a partial function, as the map is), `watermark`; `Observe`, `AdvanceTo` |
| `Deduplicator` | `dedup.rs` | `seen`, `expiry` (the B-tree as a set of pairs); accept and purge as operators on the two |
| `Downsampler` | `downsampler.rs` | `blocks`; `Ingest`, `Flushed`, `Retained` |
| `Decode` | `decode.rs`, `cpr.rs` | pure; the rs1090 parser is the constant `Parse`, its CPR functions two external operators |
| `AircraftState` | `state.rs` | `aircraft`; debouncing, pairing, record production |
| `Engine` | `engine.rs` | the five above plus `confirmed`, `out` (what the call returned), `counted` (its counter). `DropLate`, `ProcessFirst`, `ProcessDuplicate` are the branches of `process`; `AdvanceWallclock`; `Finish` |
| `EngineHistory` | - | history of accepted frames and returned rows; the engine's properties that need it; the refinement of `BlockLedger` |
| `BlockLedger` | the engine's promise | `frontier`, `open`, `closed`: a block is written until the frontier reaches its end, then handed out once and closed |
| `EngineLemmas` | - | lemmas about the operators and calls of `Engine`, and the invariant every call keeps |
| `EngineProofs` | - | theorems about `EngineHistory` |
| `AircraftHistory` | - | the manager alone, with a history of what was heard |
| `AircraftProofs` | - | theorems about it |
| `Recompute` | `app.rs` `run_recompute`, `writer.rs`, the file reader | the real `Engine` inside the loop: `Start` (restore), `ReadMinute`, `Feed`, `MinuteFed`, `WriteMinute`, `NextMinute`, `FinishInput`, `RunDone`; `Abort` and `CommitThenAbort` for a process that dies and is run again |
| `RecomputeProperties` | - | its properties |
| `RecomputeProofs` | - | theorems about it, on `EngineLemmas` |
| `RealtimeTasks` | `app.rs` `run_realtime`, `writer_consumer`, `flush`, `writer.rs` `upsert_batch` | both channels and the tasks around an engine that is left open: what the loop does with a call's rows (`TakeEvent`, `TakeTick`, `LeaveLoop`, `Send`, `JoinWriter`), and the writer task (`BatchRow`, `BatchTick`, `ChannelClosed`, `UpsertOk`, `Retry`, `Drop`, `Wake`) |
| `Realtime` | the realtime mode with its engine reduced to `BlockLedger` | `ProcessEvent`, `DrainTick`, `TakeCtrlC`, `InputClosed` around `RealtimeTasks`; any event may come at any time |
| `RealtimeProperties` | - | its properties |
| `RealtimeProofs` | - | theorems about it |
| `AmqpReceiver` | `receiver.rs` `run_amqp`, `consume_session` | the task's place (`pc`), backoff, the consumer stream; the broker as queue, unacknowledged and orphaned deliveries and acknowledgements on their way |
| `ReceiverProperties` | - | its properties |
| `ReceiverProofs` | - | theorems about it |
| `Pipeline` | the realtime mode as a whole | `AmqpReceiver`, the real `Engine` and `RealtimeTasks` over shared channels (`HandleEvent`, `HandleTick`, `HandleCtrlC`, `SendRows`, `WriterTask`, `EndInOrder`); `Restart` for a process that ends at any moment and is started again |
| `PipelineProperties` | - | its properties; the refinement of `Realtime`, whose rows are those the frames can give (`PossibleRows`) |
| `PipelineProofs` | - | theorems about it, on `EngineLemmas` |
| `SensorCode` | `domain.rs` `SensorId` | what a sensor code is |
| `Configuration` | `config.rs` `Config::from_cli`, `main.rs`; `app.rs` `minute_path` | `cli`, `phase`; one operator per check; `Refuse`, `RunMode`; the files a recompute reads (`Reads`, `PathRead`) |
| `ConfigProperties` | - | what the modes rely on |
| `Wire` | `wire.rs` | pure: header, minute, frame length, signal level, record; the calendar of chrono is external |
| `Publisher` | `examples/publish.rs`, the parsing part of `consume_session` | a process from its command line (`Configuration`) to the events it parses (`Wire`): `Tick`, `Compose`, `PublishNext`, and `OtherPublishes` for good and bad messages of other senders |
| `WireProperties` | - | their properties |
| `IntakeProofs` | - | theorems about `Configuration`, `Wire` and `Publisher` |
| `MC*` | - | constants of the instances |

Who composes whom: `Engine` composes the five parts; `Recompute` composes `Engine`
with files and table. `Realtime` takes `BlockLedger` for its engine. Every engine call moves
the frontier, may write one row, and returns the rows it closes. That is
all the two tasks can tell of the engine, and it is what `ImplementsLedger` proves
of `Engine`. `Pipeline` puts the parts together: the receiver fills the
channel that the loop empties, the engine is the real one, and an event is the message
and record it comes from. `ImplementsRealtime` shows that what it does within the life of
a process is a behaviour of `Realtime`, where an event is only the block of the
row it may give; so what is checked of `Realtime`, with larger queues, several attempts
and two row contents, speaks of the real engine fed by the real receiver. `Publisher`
composes `Configuration` and `Wire`: only messages of sensors the command line declares
become events.

Abstractions: a frame is a model value that `Parse` reads; a position is the CPR values it
was computed from; signal strength is left out beyond `Wire` (nothing uses it); a file is a
sequence of (offset, frame) records; a row's latitude and longitude are one value.
Hash-map order is a choice wherever it can be seen (`Send`).
An upsert is one statement: a realtime batch has at most 500 rows and a statement takes 5,000.
A set-up of an AMQP session is one step that succeeds or fails, since none of its
parts keeps anything; the queue exists from the start.

## 3. The runs

| Run | Question | Result |
|---|---|---|
| `engine_recompute` | Do the parts of the engine stay consistent in every interleaving of two sensors, and does it implement the ledger? | holds |
| `engine_realtime` | What survives of that when the wall clock moves the watermark too? | holds |
| `engine_unheard_sensor` | Do all *declared* sensors hold the watermark back, as DESIGN.md 4.1 says? | violated |
| `aircraft` | Is a position always computed from the latest pair, for messages in any order of times? Do identities change exactly by N observations in a row? | holds |
| `aircraft_ignored` | Is the confirmed value ignored by the counter, as DESIGN.md 4.3 says? | violated |
| `recompute` | Is every minute complete when written, and does a rerun converge, wherever the earlier run died? | holds |
| `realtime` | Is every returned row accounted for and settled, through failures and shutdown, and does the program end when told to? | holds |
| `realtime_drops` | Is a batch that is given up counted, as DESIGN.md 4.5 says? | violated |
| `receiver` | Is an acknowledged message passed on, every message acknowledged in the end, and every delay the documented one? | holds |
| `pipeline` | From the broker to the table: is anything handled twice, acknowledged and never given to an engine beyond the bound, lost on the way to the table of a living process, stored out of order or left waiting, and does the whole implement `Realtime`? | holds |
| `pipeline_redelivery` | Is a message that comes again to a new process absorbed by the upsert, as receiver.rs:127 says? | violated |
| `intake` | Does an accepted command line give the modes what they rely on, and do records keep their instants and frames through the wire format? | holds |

Every property of a passing run has a mutant: a plausible slip in the code, written as an
operator next to the one it replaces ("Mutant of ..."), under which TLC finds the
property violated.

### Bounds, and why they are enough

* *Engine.* Two sensors are enough for one to hold the other back or be excluded.
  Two frames give a CPR pair (`engine_recompute`) or two
  positions that decode alone (`engine_realtime`). Event times 0 to 4 with `Timeout` 1, `Ttl` 2,
  `Block` 2 make every boundary fall inside the range: a sensor just inside and just outside
  the timeout, a copy just before and at the end of its time to live, three blocks.
  `engine_realtime` has `Ttl` 1 < `Block` 3, so that a quantum is shorter than a block,
  and wall-clock readings between and beyond the events; it checks what a clock could
  break first, the other properties being proved with a clock too (section 5). The sensors are symmetric.
  Times start after `TsMin`, as real times do; `EventTimesAssumption` says what the code
  relies on.
* *Aircraft.* Four messages (`MaxHeard`), three strikes: enough for a streak to be
  complete, interrupted, or one short; offsets at, within and beyond the window. A
  behaviour has position messages or identities (`Feeds`), since no property relates them.
* *Recompute.* One warm-up minute and two in the range, two blocks each, files of up
  to two records out of order, two sensors, one restart (`MaxRuns`) at any step. The
  restart is the interesting case, and a second one starts from a table of the same kind.
* *Realtime.* Three rows, channels of one place, batches of two, two attempts: a channel is
  full while the loop has two rows left to send, a batch is full and another partly filled.
  The input is not bounded: events of any block keep coming for ever.
* *Receiver.* Four messages of every kind, a prefetch window of two, and two failed
  sessions or lost connections (`MaxTroubles`), with a first delay of 2 and a limit of 3:
  the second failure in a row reaches the limit, which is no power of the first.
* *Pipeline.* Three messages with a position each, two of them in one block, one behind a
  bad record; channels of one place. One trouble (`MaxTroubles`): a lost connection, a
  failed session or a dead process. A process that dies can leave two of the
  three positions unread, so `UnreadBounded` can fail. A new process may get
  another position of a block whose row the old one stored, which puts `UnsavedHeld`
  to the test. Several troubles in a row
  are the business of the `receiver` run.
* *Intake.* Seconds of five ticks, so that the clock can be followed over the end of
  a minute; delays of two and one ticks stand for the 200 and 30 ms of the
  publisher. The clock starts in the last seconds before a minute, a February
  of either length, a year and 1970 end. Two or three of three senders are
  declared. The command lines have the program's own second and minute, every block size
  up to two seconds and every half second beyond, and combinations of the other options:
  templates with too few fields for some ranges or for all, ranges that with the
  minute before them fill an hour exactly or are a minute longer (`TellsApart` is exact there);
  the theorems of `IntakeProofs` cover the rest. One byte of padding behind a short
  frame stands for the seven of the format (`PaddingLen`).

Deadlock is not checked: every one of these systems may stop (the input is
finished, the process has ended, nobody publishes).

### Fairness

Safety runs assume none. `RunStep` of the recompute is weakly fair: one sequential
process that goes on unless killed, and it is killed at most `MaxRuns` times. In the
realtime mode each task is weakly fair (the runtime schedules both, and a query ends,
well or not), and leaving the loop on ctrl-c is strongly fair, because `select!`
picks a ready branch at random and the signal is ready each time the loop waits:
with weak fairness alone, endless events could keep the loop busy. The
receiver and each duty of the broker are weakly fair; publishing, losing a connection and failing
to connect are not, and are bounded by `MaxTroubles`, so `AllAcknowledged` speaks of a
connection that holds in the end. In `Pipeline` each task and the broker are weakly
fair, and `HandleEvent` strongly, again because of the random choice of `select!`: ticks
that are always ready do not pass over waiting events for ever. Publishing, ctrl-c,
ticks and every kind of trouble are not fair.

## 4. What the runs found

Four places where the code and its documents differ; each is a run whose property
states the document and which TLC shows violated.

1. *A declared sensor that has sent nothing is not waited for* (`aggregator.rs:57`).
   The watermark looks only at sensors already heard. `docs/DESIGN.md:140` says all
   declared sensors.
2. *The confirmed value resets the candidate* (`state.rs:30`); the comment a line above and
   `docs/DESIGN.md:171` say it is ignored; `docs/CODE_GUIDE.md:218` describes the code.
3. *A batch given up is not counted* (`app.rs:140`); `docs/DESIGN.md:191` says it is
   logged and counted, and there is no counter for it.
4. *A redelivery to a new process is not absorbed* (`receiver.rs:128`, "重複は UPSERT が
   吸収", also `docs/DESIGN.md:132`). Two messages of one block are stored and the process
   dies before the broker has the acknowledgements; the new process, whose engine
   is empty, gets the older one again, a tick closes its block, and the older position
   replaces the newer row; the newer message is late when it arrives. Within one process
   the deduplicator absorbs redelivery (`RedeliveryFiltered`).

Some things that are as the code intends, but easily misread: a copy may be dropped as
a duplicate well past its time to live in event time, because the purge follows the
watermark and not the copy (`DuplicateRemembered` states the bound that does hold);
and on ctrl-c the pending blocks are drained, but events still in the channel from
the receiver are not (`ShutdownDrains` says when they are, `UnreadBounded` how many);
and the test publisher's second message may have a time beyond the 599,999,999 that
`wire.rs:10` gives as the maximum (`examples/publish.rs:119` adds to it without a
carry), which the parser does not refuse and turns into the right instant (`TimesExact`).

What the realtime mode loses, in full. Acknowledged records that no engine is given:
a full channel and one message for each process that ends, in order or not
(`UnreadBounded`). Beyond them, a process that dies loses every position that is
not yet a row of the table: the pending blocks of its engine, which are as
many as there are aircraft and open blocks, the rows of the last call, and at most a full
channel and a batch (`UnsavedHeld`, `UnsavedSentBounded`). A process that lives loses
only the batches it gives up (`app.rs:140`). Nothing comes again of all this, unless its
acknowledgement was lost too.

What the start does not check: `config.rs:173` takes any well-formed path template. Without
`{sensor}` and with two sensors, or without the fields that tell the minutes of the range
and the one before it apart, `app.rs:289` expands several reads to one path, and the
engine gets the events of that file several times, as another sensor's or minute's.
`FilesReadOnce` says which templates are safe, and for those
that are not TLC finds two reads of one file when the condition is weakened by a minute
or a sensor. No document says the start refuses them.

## 5. What is proved

For every value of the constants, under the assumptions the modules name. A proofs
module holds the theorems of one part, after the inductive invariant they rest on,
none of the properties being inductive alone. All 37 theorems state invariants,
action properties or refinements of the specifications that the runs check.

### The engine (`EngineLemmas`, `EngineProofs`)

For every set of sensors, frames, event times and clock readings, every timeout, block
size and time to live, and every parser:

| Theorem | States |
|---|---|
| `TypeCorrect` | `EngineTypeOK` |
| `DedupCorrect` | `DedupExact` |
| `MemoryCorrect` | `DedupMemory` |
| `Remembered` | `DuplicateRemembered` |
| `PendingCorrect` | `PendingBounded` |
| `ReturnedOnce` | `KeyReturnedOnce` |
| `Monotone` | `WatermarkMonotone` |
| `ActiveSensors` | `ActiveSensorNeverLate` |
| `ImplementsLedger` | `HSpec => LedgerSpec`, the refinement |
| `Final` | `ReturnedRowsFinal`, from the refinement |

Times are in range and no event comes within a block or a time to live of its end
(`EventTimesAssumption`), durations are natural numbers and a block is positive, and a
frame that decodes names an aircraft (`AddressAssumption`).

`EngineInv` is what every call keeps sound, and what the recompute and the whole
realtime mode build on as well; `HInv` adds the history to it. They say:

* the confirmed time is at most the watermark and the watermark is less than a quantum
  ahead of it, so deferring a confirmation delays nothing by more than that;
* every pending block ends after the confirmed time and every returned one by then,
  so no key is in both, and an event the watermark has not passed falls in a block
  that has not ended (`BlockEndAfter`, where the saturating arithmetic is discharged);
* an accepted copy is remembered until its expiry is confirmed, and a copy whose entry
  is gone expired by the confirmed time, which no event still let in precedes.

`CallInv` shows that a call keeps `HInv` from a description of how it ends
(`ConfirmOutcome`: confirmed or deferred), so that each action only has to show
that it fits the description. `ActiveSensors` needs one more fact, that the cut-off never goes
back (`CutoffMonotone`), and holds for engines without a clock. `LedgerStep` maps each
action to a ledger step or a stutter.

### The aircraft state manager (`AircraftProofs`)

For every number of strikes, pairing window and set of frames, and whatever identities are
restored:

| Theorem | States |
|---|---|
| `ManagerTypes` | `ManagerTypeOK` |
| `StreaksConfirm` | `StreakConfirms` |
| `ConfirmedByStreak` | `ConfirmedOnlyByStreak` |
| `PairsAreLatest` | `PairedWithLatest` |

`ManagerInv` relates each identity to what was observed of it (the candidate is the value
observed last and counts how often in a row; without one, that value is the confirmed
one), and each cached message to the last one heard of its aircraft and parity.
`HistoryAssumption` says that the pairing window is not saturated and that `None` is none
of the values.

### The recompute (`RecomputeProofs`)

For every range, block size, timeout and set of sensors, whatever their files hold and
the table held before, and however often the process dies:

| Theorem | States |
|---|---|
| `RecomputeTypes` | `RecomputeTypeOK` |
| `NoneLate` | `NothingLate` |
| `WrittenIsComplete` | `WrittenMinutesComplete` |
| `BucketsStayBounded` | `BucketsBounded` |
| `OutsideIsUntouched` | `OutsideUntouched` |

`RecomputeAssumption`: blocks divide the minute (`BlocksInMinutes` proves it of
every accepted command line), the range and the times of its records lie within the
calendar's, and the rows of the table are filed under their unique key
with the block size of the run. That a record lies in the minute of its file is the format
of `wire.rs:10`. It is an assumption on the files: nothing in the code checks it.

The argument, in the parts of `RecomputeInv`. The watermark is never beyond the latest time of some
sensor, and that is never beyond the time of a record still to be fed, because the
records of a minute are sorted and minutes follow one another (`TimeInv`): so nothing
is late. A new position's block therefore ends after the confirmed time, and a minute
is written only when the confirmed time has passed its end, so no position still
to come falls in a written minute; blocks are nested in minutes, so all rows of
one key are of one minute. What a block or a bucket holds is the last position of its
key (`ProducedInv`, `BucketInv`), a position of the range is pending, collected or in the
table (`CoverInv`), and the table has nothing else in the minutes written (`TableInv`).

### The realtime tasks (`RealtimeProofs`)

For every capacity of the channels, batch size, number of attempts and set of blocks
and rows:

| Theorem | States |
|---|---|
| `RealtimeTypes` | `RealtimeTypeOK` |
| `RowsAreAccounted` | `RowsAccounted` |
| `BatchesInsertable` | no batch has two rows of one key: the statement would fail |
| `ShutdownIsClean` | `ShutdownDrains` |
| `StoredRowsFinal` | a stored row is not replaced while the process lives |

`RealtimeInv`: a row that has been returned is in exactly one place of outgoing rows,
channel, batch, table and batches given up (`PlaceInv`), their number is what the
counters say (`AccountInv`), and the tasks end in order (`ControlInv`: the sender is dropped when
nothing is left to send, and the writer ends when it has seen the channel closed and empty).

### The receiver (`ReceiverProofs`)

For every sequence of messages, prefetch window, channel capacity and range of delays:

| Theorem | States |
|---|---|
| `ReceiverTypes` | `ReceiverTypeOK` |
| `AckedIsNotLost` | `AckedIsPassedOn` |
| `DelaysAreScheduled` | `BackoffSchedule` |

`ReceiverInv`: the unacknowledged deliveries of a live connection are the ones whose
acknowledgement is on its way followed by those the consumer has not taken (`LinkInv`),
the message at hand has been pushed up to its current record (`HandledInv`), and
the delay is the first one doubled once per sleep since the last session that worked, up
to the limit (`TaskInv`).

### The realtime mode as a whole (`PipelineProofs`)

For every sequence of messages and records, every setting of all the parts, and
any number of lost connections, failed statements and deaths:

| Theorem | States |
|---|---|
| `RedeliveryIsFiltered` | `RedeliveryFiltered` |
| `PipelineImplementsRealtime` | `ImplementsRealtime`, the refinement |
| `UnreadIsBounded` | `UnreadBounded` |
| `UnsavedIsHeld` | `UnsavedHeld` |
| `UnsavedSentBounded` | at most a channel and a batch of rows have left the loop unsaved |
| `TableHoldsLast` | `TableIsLastAccepted` |

`ContentAssumption`: the records of a message are events of the engine. `RedeliveryIsFiltered`
needs `Ttl > 0`, which the program's default satisfies: with a time to live of
zero an event at the confirmed time may be accepted again, because it is neither late
nor remembered.

`PipelineInv` carries `EngineInv` through the composition. An accepted event is
remembered until its time to live is confirmed, and from then on it is late
(`AcceptedInv`): so it is not accepted again whatever the broker delivers. Rows that
have been returned are of blocks that have ended (`ReturnedInv`): so a call
returns keys it has not returned before, which is a ledger step closing them. The state of an
aircraft holds only what some frame had (`AircraftInv`): so the rows of the real engine
are among `PossibleRows`, the rows of `Realtime`. The refinement then maps
each action to one of `Realtime`, a stutter, or the restart, and with
`RealtimeProofs` what is proved of the rows there holds of real events in the life of a
process. `UnreadInv` adds that an acknowledgement on its way is for records that
have been given to an engine or are coming to it: only the end of a process leaves
any unread, and at most those that were coming. `TableInv` follows a position from the
engine to the table: the last one of a block is pending in the engine or is the row that
was returned (`LastInv`), a row that was returned is on the way, stored or given up,
whatever an earlier process left under its key (`SettledInv`), and a process that has ended in
order has an empty engine and nothing on the way (`EndInv`). `UnsavedIsHeld` reads the
places off it, `TableHoldsLast` is the case where none is left, and with the sizes of
channel and batch (`SizesInv`) it gives `UnsavedSentBounded`.

### The command line and the wire format (`IntakeProofs`)

For every length of a second and a minute, all command lines, all instants (negative ones
too), and all payloads:

| Theorem | States |
|---|---|
| `BlocksAreUncut` | `BlocksUncut`, from `BlocksInMinutes` and `RangeOfRows` for its parts |
| `ReadOnce` | `FilesReadOnce` |
| `TimesAreExact` | `TimesExact` |
| `FramesStayDistinct` | `FramesDistinct` |

A mode runs only with a command line that passed every check (`ValidRuns`). The rest of
the first is arithmetic from the definition of division alone: an accepted
block size divides the minute, so a minute is a whole number of blocks (`WholeBlocks`),
a multiple of the minute is at or before an instant exactly when it is at or
before the start of its block (`FloorOrder`), and so blocks are nested in minutes
(`NestedBlocks`). Of two reads of one file, a path with the sensor has
one sensor, whose codes are declared once; and within an hour the minute field, within a
day the hour and minute fields, and always the three together determine the minute
(`PathsTellMinutes`). For the times (`IntakeInv`), the clock shows
the time elapsed since the start, through the ends of minutes, days, months and
years, and the minute of a header plus the time within it is the instant the record was
composed for. For the frames, what the parser strips of a short frame is
what its length says, and the first byte says the length.

### What is only model-checked

* *Liveness*: `RunEnds`, `RowsSettled`, `ShutdownEnds`, `AllAcknowledged`,
  `EveryRecordHandled`. It rests on fairness and `ENABLED`, which the provers do not handle.
* `RerunConverges` compares what two runs write. They write the same because each run is
  a function of the files and the restored rows. `WrittenIsComplete` gives what a run writes from
  the positions it produced; that two runs produce the same ones needs the engine's calls
  as a function of its state, and is left.
* The runs expected to be violated, and `RedeliveryAbsorbed` among them: TLC shows a behaviour.

## 6. What is not modelled

* The bit-level parser and the CPR formulas (the rs1090 library), chrono's clock and
  calendar beyond what `Wire` states of them, SQL beyond what a statement does to the
  table, the text of logs.
* The text of a path template and of the names it expands to: a template is the set of
  fields it names, each of a fixed width as in the default and the documented example, the
  date as a whole, and the rest of its text is the same in every path. `Recompute` has a
  file for every sensor and minute; reads that share a file are there files of equal content.
  clap's parsing of the command line: the fields of `cli` are its results.
* The publisher's set-up of exchange and queues, `scripts/gen_testfile.py` (constant
  files), `tools/`, the schema.
* Two deaths of the realtime process, or a death and a lost connection, in one behaviour.

## 7. Plan

Done: engine and its parts, aircraft state, recompute, realtime tasks, receiver, their
composition with death and restart, configuration and wire format, each with its proofs.

Next, proofs: `RerunConverges`, with the engine's call for an event written as a function
of the engine's state, and the invariant that there is a trail of states, one for each
place in the files, that every run follows as far as any has come.
