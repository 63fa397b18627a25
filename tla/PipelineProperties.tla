------------------------- MODULE PipelineProperties -------------------------
(***************************************************************************)
(* What the realtime mode promises from the broker to the table, through   *)
(* lost connections, late redelivery, full channels, failing statements    *)
(* and processes that die.                                                 *)
(***************************************************************************)
EXTENDS Pipeline, FiniteSetsExt

Good(m) == {<<m, i>> : i \in {j \in DOMAIN Records[m] : Records[m][j] = "ok"}}

\* The broker does not hold message m any more, and its records were wanted.
LetGo(m) ==
  /\ m <= published /\ Header[m] = "ok"
  /\ m \notin Range(queue) \cup Range(unacked) \cup Range(orphaned)

\* The events the engine of this process or an earlier one was given, whatever has
\* become of them since.
Handled == before \cup Range(handled)

\* Events on their way to the engine of a process that still takes them.
Coming ==
  IF finishing THEN {}
  ELSE Range(rxIn) \cup
       IF pc = "push" THEN {x \in Good(current) : x[2] >= index} ELSE {}

\* The records the broker has let go of and no engine is ever given.
Unread ==
  (UNION {Good(m) : m \in {x \in DOMAIN Header : LetGo(x)}}) \ (Handled \cup Coming)

Sizes == {0} \cup {Cardinality(Good(m)) : m \in DOMAIN Header}

\* docs/DESIGN.md 4.0 accepts losses because a message is acknowledged before
\* its records are passed on.  On the way to the engine they are bounded: a
\* process that ends, in order or not, leaves at most a full channel and the
\* message being pushed unread, and a lost connection leaves none.  What an
\* engine was given and its process forgets when it dies is not counted
\* here; UnsavedHeld says what that is.
UnreadBounded ==
  Cardinality(Unread) <=
    (deaths + IF finishing THEN 1 ELSE 0) * (ChanCap + Max(Sizes))

\* Blocks whose last position is neither in the table nor given up.
Unsaved ==
  {k \in DOMAIN produced \ dropped : ~(k \in DOMAIN db /\ db[k] = produced[k])}

\* On the way from the engine to the table (app.rs:33-150).  At any moment the row
\* of the last position of a block is in the table, or its batch was given up
\* (app.rs:140, which loses it while the process runs), or it is held somewhere: in
\* the engine, in the rows of its last call, in the channel or in the batch.  Held
\* rows are what a process loses if it dies at that moment.
UnsavedHeld ==
  \A k \in Unsaved :
    \/ k \in DOMAIN blocks /\ blocks[k] = produced[k]
    \/ Record(k, produced[k]) \in outbox \cup Range(txDb) \cup Range(batch)

\* A message the broker delivers again to the same process, before or after
\* newer ones, does not reach the aircraft state a second time.
RedeliveryFiltered ==
  \A i, j \in DOMAIN accepted : accepted[i] = accepted[j] => i = j

\* The block of an event's position.
KeyOf(ev) == <<DecodeFrame(ev.frame).icao, BlockId(ev.ts)>>

\* When a process has ended in order, its table holds of every block it got a
\* position for the last one to arrive, unless the batch was given up: from
\* the engine to the table nothing is lost, reordered or replaced.
TableIsLastAccepted ==
  main = "done" =>
    \A k \in DOMAIN produced :
      k \in dropped \/ (k \in DOMAIN db /\ db[k] = produced[k])

\* What the frames decode to, by kind.
Decoded(kind) == {d \in {DecodeFrame(f) : f \in Frames} : d.kind = kind}

Positions == {d.pos : d \in Decoded("Airborne")}
SurfacePositions == {d.pos : d \in Decoded("Surface")}
PairLocations == UNION {GlobalAirborne(p[1], p[2]) : p \in Positions \X Positions}
NearbyLocations == UNION {LocalSurface(p, SurfaceRef) : p \in SurfacePositions}
Locatable == PairLocations \cup NearbyLocations
Altitudes == {None} \cup {p.alt : p \in Positions} \cup {d.alt : d \in Decoded("BaroAltitude")}
CallSigns ==
  {None} \cup {d.value : d \in Decoded("Callsign")} \cup {r.call_sign : r \in Restore}
Squawks ==
  {None} \cup {d.value : d \in Decoded("Squawk")} \cup {r.squawk : r \in Restore}

\* The rows the frames can give: each field is one that some frame has.
PossibleRows ==
  [mode_s_code : Icaos, ts : {BlockId(t) * Block : t \in EventTimes}, location : Locatable,
   alt : Altitudes, call_sign : CallSigns, squawk : Squawks, on_ground : BOOLEAN]

\* The state of the realtime mode as Realtime describes it: events are blocks,
\* the engine is its ledger.
Rt == INSTANCE Realtime
  WITH BlockKeys <- {KeyOf(ev) : ev \in Events}, EndOf <- KeyEnd,
       Start <- TsMin, LastTime <- TsMax, Rows <- PossibleRows,
       frontier <- confirmed, open <- blocks, closed <- Upsert(returned, out),
       rxIn <- [i \in DOMAIN rxIn |-> KeyOf(EventOf(rxIn[i]))]

\* Within the life of a process the whole implements Realtime, so that what
\* was checked there of the rows holds here of real events, whatever is
\* received.
ImplementsRealtime ==
  Rt!RealtimeInit /\ [][Rt!RealtimeNext \/ Restart]_(Rt!vars)

\* src/receiver.rs:127: what is delivered twice is absorbed by the upsert.  A row
\* of the table is replaced only by a position no earlier process was given.
RedeliveryAbsorbed ==
  [][\A k \in DOMAIN db :
       db'[k] # db[k] =>
         \E x \in Range(handled) \ before :
           db'[k].location \in LocalSurface(Parse[EventOf(x).frame].me, SurfaceRef)
    ]_pipelineVars

\* As long as the process lives and is not told to end, it keeps up: time and
\* again its engine has been given every good record of every message published
\* so far, across lost connections, full channels, a database that fails, bad
\* records and ticks in between.
EveryRecordHandled ==
  []<>( \/ finishing \/ deaths # 0
        \/ \A m \in 1 .. published : Header[m] = "ok" => Good(m) \subseteq Handled )
=============================================================================
