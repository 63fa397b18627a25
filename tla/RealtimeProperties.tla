------------------------- MODULE RealtimeProperties -------------------------
(***************************************************************************)
(* What the two tasks owe the rows the engine returns, through full        *)
(* channels, failing queries and a shutdown at any moment.                 *)
(***************************************************************************)
EXTENDS Realtime

Elements(s) == {s[i] : i \in DOMAIN s}

\* The rows on their way, wherever they are.
InFlight == outbox \cup Elements(txDb) \cup Elements(batch)

HowManyInFlight == Cardinality(outbox) + Len(txDb) + Len(batch)

\* The type of the state, with the bounds of the channels and of the batch.
RealtimeTypeOK ==
  /\ frontier \in Times
  /\ DOMAIN open \subseteq BlockKeys /\ DOMAIN closed \subseteq BlockKeys
  /\ rxIn \in Seq(BlockKeys) /\ Len(rxIn) <= ChanCap
  /\ receiver \in {"running", "ended"} /\ ctrlC \in BOOLEAN
  /\ main \in {"select", "send", "join", "done"}
  /\ main = "send" <=> outbox # {}
  /\ InFlight \subseteq [key : BlockKeys, row : Rows]
  /\ Len(txDb) <= ChanCap /\ Len(batch) <= BatchSize
  /\ writer \in {"select", "flush", "sleep", "done"}
  /\ writer \in {"flush", "sleep"} => batch # <<>>
  /\ attempt \in 1 .. Attempts
  /\ metrics.db_upserts \in Nat

\* No row is lost or sent twice on the way (app.rs): of the rows the engine has
\* returned, each is in one place in the loop, the channel or the batch, or its
\* upsert has been acknowledged and counted, or it was given up.  So no batch
\* holds a key twice, which PostgreSQL would refuse at every attempt.
RowsAccounted ==
  /\ HowManyInFlight + metrics.db_upserts + Cardinality(dropped)
       = Cardinality(DOMAIN closed)
  /\ \A r \in InFlight : r.key \in DOMAIN closed /\ r.row = closed[r.key]
  /\ \A k \in DOMAIN closed :
       (\E r \in InFlight : r.key = k) \/ k \in DOMAIN db \cup dropped
  /\ \A k \in DOMAIN db : k \in DOMAIN closed /\ db[k] = closed[k]

\* Shutdown (docs/CODE_GUIDE.md 15, README.md): when the program ends, no block
\* is left in the engine, and every row is in the table or was given up; and if
\* it ends because the receiver did, no event is left unprocessed.
ShutdownDrains ==
  /\ main = "done" => /\ DOMAIN open = {} /\ InFlight = {}
                      /\ DOMAIN closed = DOMAIN db \cup dropped
  /\ main = "done" /\ ~ctrlC => rxIn = <<>>

\* Every row the engine returns is stored or given up, although its batch may
\* never fill and the database may fail at any time.
RowsSettled ==
  \A k \in BlockKeys : k \in DOMAIN closed ~> k \in DOMAIN db \cup dropped

\* The program ends once it is told to, also while events keep coming, and
\* once the receiver has ended.
ShutdownEnds == ctrlC \/ receiver = "ended" ~> main = "done"

\* docs/DESIGN.md 4.5: a batch that is given up is logged and counted.
DropIsCounted == [][dropped' # dropped => metrics' # metrics]_vars
=============================================================================
