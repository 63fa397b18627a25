------------------------------ MODULE Pipeline ------------------------------
(***************************************************************************)
(* The realtime mode of src/app.rs as a whole: the receiver task against   *)
(* its broker (AmqpReceiver), the real engine (Engine), and the engine     *)
(* loop and writer task around it (RealtimeTasks), over the channel that   *)
(* the receiver fills and the loop empties.  The process may end at any    *)
(* moment and is started again: the table and the broker keep what they    *)
(* hold, everything else is lost.                                          *)
(*                                                                         *)
(* An event is the message and record it comes from.                       *)
(***************************************************************************)
EXTENDS Engine, RealtimeTasks

CONSTANTS
  Content,     \* message -> the events of its records
  Header, Records, Prefetch, InitialBackoff, MaxBackoff,
  MaxTroubles  \* bound: lost connections, failed sessions and dead processes together

VARIABLES
  published, queue, unacked, orphaned, acks, connected, inbox, pc, current, index,
  backoff, counters, troubles, sent, sleeps,   \* the receiver and its broker
  rxInOpen,   \* rx_in is not dropped
  deaths,     \* processes that have ended and been started again
  handled,    \* history: events this process has given its engine, in order
  accepted,   \* history: those of them its engine let through, in order
  produced,   \* history: key -> the row of the last position they gave
  before,     \* history: events earlier processes have given theirs
  returned    \* history: the rows this process's engine returned before the last call

Receiver == INSTANCE AmqpReceiver WITH tx <- rxIn, txOpen <- rxInOpen, metrics <- counters

\* The records of a message are those of one declared sensor.
ASSUME ContentAssumption ==
  /\ Receiver!ReceiverAssumption
  /\ DOMAIN Content = DOMAIN Header
  /\ \A m \in DOMAIN Content :
       /\ DOMAIN Content[m] = DOMAIN Records[m]
       /\ \A i \in DOMAIN Content[m] : Content[m][i] \in Events

brokerVars == <<published, queue, unacked, orphaned, acks, connected, inbox>>
receiverVars == <<brokerVars, pc, current, index, backoff, counters, troubles, sent, sleeps>>
lifeVars == <<handled, accepted, produced, returned>>
historyVars == <<deaths, before, lifeVars>>
pipelineVars == <<engineVars, taskVars, receiverVars, rxInOpen, historyVars>>

EventOf(x) == Content[x[1]][x[2]]

\* The rows of the engine's last call.
Outgoing(rows) == {Record(k, rows[k]) : k \in DOMAIN rows}

Upsert(old, new) ==
  [k \in DOMAIN old \cup DOMAIN new |-> IF k \in DOMAIN new THEN new[k] ELSE old[k]]

PipelineInit ==
  /\ EngineInit /\ TasksInit /\ Receiver!ReceiverInit
  /\ deaths = 0 /\ before = {}
  /\ handled = <<>> /\ accepted = <<>> /\ produced = NoRows /\ returned = NoRows

-----------------------------------------------------------------------------
\* The receiver runs until it is aborted; the broker and the network go on.
ReceiverTask ==
  /\ receiver = "running"
  /\ Receiver!ReceiverStep
  /\ UNCHANGED <<engineVars, receiver, ctrlC, mainVars, txDb, writerVars, historyVars>>

Broker ==
  /\ Receiver!BrokerStep
  /\ UNCHANGED <<engineVars, taskVars, historyVars>>

World ==
  /\ Receiver!Publish \/ Receiver!LoseConnection
  /\ UNCHANGED <<engineVars, taskVars, historyVars>>

\* The row of a position, by its key.
RowsOf(recs) ==
  IF recs = {} THEN NoRows
  ELSE LET r == CHOOSE x \in recs : TRUE IN [k \in {Key(r)} |-> Rounded(r)]

\* An event through the engine; what it lets through is remembered, and the row of
\* the position it gives.
HandleEvent ==
  /\ main = "select" /\ rxIn # <<>>
  /\ LET ev == EventOf(Head(rxIn))
     IN  \/ (DropLate(ev) \/ ProcessDuplicate(ev)) /\ UNCHANGED <<accepted, produced>>
         \/ /\ ProcessFirst(ev) /\ accepted' = Append(accepted, Head(rxIn))
            /\ produced' = Upsert(produced, RowsOf(ProcessRecords(ev)))
  /\ TakeEvent(Outgoing(out'))
  /\ handled' = Append(handled, Head(rxIn))
  /\ returned' = Upsert(returned, out)
  /\ UNCHANGED <<receiverVars, rxInOpen, deaths, before>>

HandleTick ==
  /\ main = "select"
  /\ \E now \in NowTimes : AdvanceWallclock(now)
  /\ TakeTick(Outgoing(out'))
  /\ returned' = Upsert(returned, out)
  /\ UNCHANGED <<receiverVars, rxInOpen, deaths, before, handled, accepted, produced>>

\* The receiver is aborted with its connection, and the engine finished.
HandleCtrlC ==
  /\ main = "select" /\ ctrlC
  /\ Finish
  /\ LeaveLoop(Outgoing(out'))
  /\ Receiver!Abort
  /\ returned' = Upsert(returned, out)
  /\ UNCHANGED <<deaths, before, handled, accepted, produced>>

SendRows == Send /\ UNCHANGED <<engineVars, receiverVars, rxInOpen, historyVars>>

WriterTask == WriterStep /\ UNCHANGED <<engineVars, receiverVars, rxInOpen, historyVars>>

CtrlC == PressCtrlC /\ UNCHANGED <<engineVars, receiverVars, rxInOpen, historyVars>>

\* run_realtime returns.
EndInOrder ==
  /\ JoinWriter
  /\ rxInOpen' = FALSE
  /\ UNCHANGED <<engineVars, receiverVars, historyVars>>

\* The parts of a process as EngineInit, TasksIdle and TaskInit have them.
FreshEngine ==
  /\ latest' = [s \in {} |-> s] /\ watermark' = TsMin
  /\ seen' = {} /\ expiry' = {}
  /\ blocks' = NoRows
  /\ aircraft' = Restored(Restore)
  /\ confirmed' = TsMin /\ finished' = FALSE /\ out' = NoRows /\ counted' = "none"

FreshTasks ==
  /\ rxIn' = <<>> /\ receiver' = "running" /\ ctrlC' = FALSE
  /\ main' = "select" /\ outbox' = {} /\ finishing' = FALSE
  /\ txDb' = <<>> /\ txDbOpen' = TRUE
  /\ writer' = "select" /\ batch' = <<>> /\ attempt' = 1 /\ closing' = FALSE
  /\ metrics' = [db_upserts |-> 0]

FreshReceiver ==
  /\ Receiver!Disconnect
  /\ inbox' = <<>>
  /\ pc' = "connect" /\ current' = 0 /\ index' = 1 /\ backoff' = InitialBackoff
  /\ rxInOpen' = TRUE
  /\ counters' = [c \in Receiver!Counters |-> 0]
  /\ sleeps' = 0

\* The process has ended, in order or at any other moment, and is started
\* again.  A statement that was under way has been committed or not.
Restart ==
  /\ troubles < MaxTroubles /\ troubles' = troubles + 1
  /\ FreshEngine /\ FreshTasks /\ FreshReceiver
  /\ db' = db \/ (writer = "flush" /\ Insertable /\ db' = Upserted)
  /\ deaths' = deaths + 1
  /\ handled' = <<>> /\ accepted' = <<>> /\ produced' = NoRows /\ returned' = NoRows
  /\ before' = before \cup Range(handled)
  /\ dropped' = {}
  /\ UNCHANGED sent

PipelineNext ==
  \/ ReceiverTask \/ Broker \/ World \/ CtrlC
  \/ HandleEvent \/ HandleTick \/ HandleCtrlC
  \/ SendRows \/ WriterTask \/ EndInOrder \/ Restart

PipelineSpec == PipelineInit /\ [][PipelineNext]_pipelineVars

\* The tasks are scheduled, the broker does its work, and select! does not
\* pass over waiting events for ever.
FairPipelineSpec ==
  /\ PipelineSpec
  /\ WF_pipelineVars(ReceiverTask) /\ WF_pipelineVars(Broker)
  /\ SF_pipelineVars(HandleEvent)
  /\ WF_pipelineVars(SendRows) /\ WF_pipelineVars(WriterTask)
=============================================================================
