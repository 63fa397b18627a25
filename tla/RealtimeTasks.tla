--------------------------- MODULE RealtimeTasks ---------------------------
(***************************************************************************)
(* The two tasks of the realtime mode of src/app.rs that handle rows: the  *)
(* engine loop and the writer task, joined by a bounded channel.  The loop *)
(* waits for an event, the drain tick or ctrl-c; the writer batches rows   *)
(* and upserts a batch when it is full or when its own tick comes, and     *)
(* tries a bounded number of times before it drops a batch.                *)
(*                                                                         *)
(* The engine and the receiver are not here: an action of the loop that    *)
(* calls the engine takes the rows the call returns, and a module that     *)
(* composes the tasks says which rows these are and what is received.      *)
(***************************************************************************)
EXTENDS Integers, Sequences, FiniteSets

CONSTANTS
  ChanCap,     \* CHAN_CAP
  BatchSize,   \* BATCH_SIZE
  Attempts     \* FLUSH_ATTEMPTS

ASSUME TasksAssumption ==
  ChanCap \in Nat \ {0} /\ BatchSize \in Nat \ {0} /\ Attempts \in Nat \ {0}

VARIABLES
  rxIn,        \* the channel from the receiver: events, oldest first
  receiver,    \* "running", or "ended"
  ctrlC,       \* the signal has been given
  main,        \* the engine loop: "select", "send", "join" or "done"
  outbox,      \* rows of the last engine call that are not sent yet
  finishing,   \* the loop is left
  txDb,        \* the channel to the writer: rows, oldest first
  txDbOpen,    \* its sender is not dropped
  writer,      \* the writer task: "select", "flush", "sleep" or "done"
  batch,       \* rows to be upserted
  attempt,     \* the next attempt for them
  closing,     \* the flush is the last one
  db,          \* the table: key -> row
  dropped,     \* history: keys of the rows given up after the last attempt
  metrics      \* the counters this part of the program has

inputVars == <<rxIn, receiver, ctrlC>>
mainVars == <<main, outbox, finishing, txDbOpen>>
writerVars == <<writer, batch, attempt, closing, db, dropped, metrics>>
taskVars == <<inputVars, mainVars, txDb, writerVars>>

\* A record of the channel to the writer, and of a batch.
Record(k, row) == [key |-> k, row |-> row]

\* Both tasks when the program starts.
TasksIdle ==
  /\ rxIn = <<>> /\ receiver = "running" /\ ctrlC = FALSE
  /\ main = "select" /\ outbox = {} /\ finishing = FALSE
  /\ txDb = <<>> /\ txDbOpen = TRUE
  /\ writer = "select" /\ batch = <<>> /\ attempt = 1 /\ closing = FALSE
  /\ metrics = [db_upserts |-> 0]

TasksInit == TasksIdle /\ db = [k \in {} |-> k] /\ dropped = {}

PressCtrlC ==
  /\ ~ctrlC /\ main # "done"
  /\ ctrlC' = TRUE
  /\ UNCHANGED <<rxIn, receiver, mainVars, txDb, writerVars>>

-----------------------------------------------------------------------------
(* The engine loop. *)

\* The loop sends the rows a call returned, then waits again.
Return(rows) ==
  /\ outbox' = rows
  /\ main' = IF rows = {} THEN "select" ELSE "send"

\* An event is taken, and the engine's call for it returned rows.
TakeEvent(rows) ==
  /\ main = "select" /\ rxIn # <<>>
  /\ rxIn' = Tail(rxIn)
  /\ Return(rows)
  /\ UNCHANGED <<receiver, ctrlC, finishing, txDbOpen, txDb, writerVars>>

TakeTick(rows) ==
  /\ main = "select"
  /\ Return(rows)
  /\ UNCHANGED <<inputVars, finishing, txDbOpen, txDb, writerVars>>

\* Mutant of SenderKept: the sender is not dropped after the last row.
SenderNeverDropped(next) == TRUE

\* The sender of the channel is dropped before the writer is waited for.
SenderKept(next) == next # "join"

\* What follows the loop: the receiver is aborted, and the engine finished,
\* which returned rows.
LeaveLoop(rows) ==
  /\ main = "select"
  /\ receiver' = "ended"
  /\ finishing' = TRUE
  /\ outbox' = rows
  /\ main' = IF rows = {} THEN "join" ELSE "send"
  /\ txDbOpen' = SenderKept(main')
  /\ UNCHANGED <<rxIn, ctrlC, txDb, writerVars>>

\* Rows come out of a hash map: any of them is next.
Send ==
  /\ main = "send"
  /\ Len(txDb) < ChanCap
  /\ \E r \in outbox : txDb' = Append(txDb, r) /\ outbox' = outbox \ {r}
  /\ main' = IF outbox' # {} THEN "send" ELSE IF finishing THEN "join" ELSE "select"
  /\ txDbOpen' = SenderKept(main')
  /\ UNCHANGED <<inputVars, finishing, writerVars>>

JoinWriter ==
  /\ main = "join"
  /\ writer = "done"
  /\ main' = "done"
  /\ UNCHANGED <<inputVars, outbox, finishing, txDbOpen, txDb, writerVars>>

-----------------------------------------------------------------------------
(* The writer task. *)

\* Mutant of BatchFull: one row too many.
BatchOverfull(rows) == Len(rows) > BatchSize

BatchFull(rows) == Len(rows) >= BatchSize

BatchRow ==
  /\ writer = "select"
  /\ txDb # <<>>
  /\ batch' = Append(batch, Head(txDb))
  /\ txDb' = Tail(txDb)
  /\ writer' = IF BatchFull(batch') THEN "flush" ELSE "select"
  /\ UNCHANGED <<inputVars, mainVars, attempt, closing, db, dropped, metrics>>

\* Mutant of TickFlushes: the tick leaves a batch alone that is not full.
TickFlushesFull == BatchFull(batch)

\* A tick with an empty batch does nothing.
TickFlushes == batch # <<>>

BatchTick ==
  /\ writer = "select"
  /\ TickFlushes
  /\ writer' = "flush"
  /\ UNCHANGED <<inputVars, mainVars, txDb, batch, attempt, closing, db, dropped, metrics>>

\* Mutant of AtClose: the last batch is forgotten.
AtCloseDone == "done"

AtClose == IF batch = <<>> THEN "done" ELSE "flush"

\* The channel is closed and empty: what is left is flushed, and the task ends.
ChannelClosed ==
  /\ writer = "select"
  /\ txDb = <<>> /\ ~txDbOpen
  /\ writer' = AtClose
  /\ closing' = TRUE
  /\ UNCHANGED <<inputVars, mainVars, txDb, batch, attempt, db, dropped, metrics>>

BatchKeys == {batch[i].key : i \in DOMAIN batch}

\* One statement: PostgreSQL refuses it if two of its rows have the same key.
Insertable == Cardinality(BatchKeys) = Len(batch)

\* Mutant of Upserted: a row that is there stays (ON CONFLICT DO NOTHING).
UpsertedOnce ==
  [k \in DOMAIN db \cup BatchKeys |->
     IF k \in DOMAIN db THEN db[k]
     ELSE batch[CHOOSE i \in DOMAIN batch : batch[i].key = k].row]

Upserted ==
  [k \in DOMAIN db \cup BatchKeys |->
     IF k \in BatchKeys THEN batch[CHOOSE i \in DOMAIN batch : batch[i].key = k].row
     ELSE db[k]]

\* Mutant of AfterFlush: the batch is kept.
SameBatch == batch

AfterFlush == <<>>

\* The batch is gone, and the task selects again or ends.
FlushDone ==
  /\ batch' = AfterFlush
  /\ attempt' = 1
  /\ writer' = IF closing THEN "done" ELSE "select"
  /\ UNCHANGED <<inputVars, mainVars, txDb, closing>>

UpsertOk ==
  /\ writer = "flush"
  /\ Insertable
  /\ db' = Upserted
  /\ metrics' = [metrics EXCEPT !.db_upserts = @ + Len(batch)]
  /\ FlushDone
  /\ UNCHANGED dropped

\* The statement fails, or succeeds and its answer is lost.
Failed == db' = db \/ (Insertable /\ db' = Upserted)

Retry ==
  /\ writer = "flush"
  /\ attempt < Attempts
  /\ Failed
  /\ writer' = "sleep"
  /\ attempt' = attempt + 1
  /\ UNCHANGED <<inputVars, mainVars, txDb, batch, closing, dropped, metrics>>

Drop ==
  /\ writer = "flush"
  /\ attempt = Attempts
  /\ Failed
  /\ dropped' = dropped \cup BatchKeys
  /\ FlushDone
  /\ UNCHANGED metrics

Wake ==
  /\ writer = "sleep"
  /\ writer' = "flush"
  /\ UNCHANGED <<inputVars, mainVars, txDb, batch, attempt, closing, db, dropped, metrics>>

WriterStep ==
  BatchRow \/ BatchTick \/ ChannelClosed \/ UpsertOk \/ Retry \/ Drop \/ Wake
=============================================================================
