------------------------------ MODULE Realtime ------------------------------
(***************************************************************************)
(* The realtime mode of src/app.rs with its engine reduced to the ledger   *)
(* it keeps (BlockLedger): each call may write one row and closes blocks;  *)
(* the rows it returns are those it closes.  That is the ledger that       *)
(* EngineProofs shows the engine to implement.  An event is the block of   *)
(* the row it may give, and any event may be received at any time.         *)
(***************************************************************************)
EXTENDS BlockLedger, RealtimeTasks

CONSTANTS
  Rows,        \* contents of a row
  LastTime     \* the frontier after the end of the input

ASSUME RealtimeAssumption ==
  /\ Start \in Int /\ LastTime \in Int /\ Start <= LastTime
  /\ \A k \in BlockKeys : EndOf(k) \in Start + 1 .. LastTime

vars == <<ledgerVars, taskVars>>

Times == Start .. LastTime

RealtimeInit == LedgerInit /\ TasksInit

\* Messages arrive; the receiver task may end.
Receive ==
  /\ receiver = "running"
  /\ Len(rxIn) < ChanCap
  /\ \E k \in BlockKeys : rxIn' = Append(rxIn, k)
  /\ UNCHANGED <<ledgerVars, receiver, ctrlC, mainVars, txDb, writerVars>>

ReceiverEnds ==
  /\ receiver = "running"
  /\ receiver' = "ended"
  /\ UNCHANGED <<ledgerVars, rxIn, ctrlC, mainVars, txDb, writerVars>>

\* The pending rows once an event of block k is processed: a late event, a
\* duplicate, or one that gives no position leaves them as they are.
Ingested(k) ==
  {open} \cup
  {[x \in DOMAIN open \cup {k} |-> IF x = k THEN row ELSE open[x]]
     : row \in IF EndOf(k) > frontier THEN Rows ELSE {}}

\* The rows the step closes are those the engine's call returns.
Returned == {Record(k, closed'[k]) : k \in DOMAIN closed' \ DOMAIN closed}

ProcessEvent ==
  /\ main = "select" /\ rxIn # <<>>
  /\ \E o \in Ingested(Head(rxIn)), f \in Times : frontier' = f /\ CloseUpTo(o)
  /\ TakeEvent(Returned)

DrainTick ==
  /\ main = "select"
  /\ \E f \in Times : frontier' = f /\ CloseUpTo(open)
  /\ TakeTick(Returned)

\* Engine::finish
FinishEngine ==
  /\ main = "select"
  /\ frontier' = LastTime
  /\ CloseUpTo(open)
  /\ LeaveLoop(Returned)

TakeCtrlC == ctrlC /\ FinishEngine

InputClosed == receiver = "ended" /\ rxIn = <<>> /\ FinishEngine

MainStep ==
  \/ ProcessEvent \/ DrainTick \/ TakeCtrlC \/ InputClosed
  \/ (Send \/ JoinWriter) /\ UNCHANGED ledgerVars

WriterTask == WriterStep /\ UNCHANGED ledgerVars

RealtimeNext ==
  \/ Receive \/ ReceiverEnds \/ (PressCtrlC /\ UNCHANGED ledgerVars)
  \/ MainStep \/ WriterTask

\* Both tasks are scheduled, and a query ends, well or not.  select! takes a
\* ready branch at random, so a signal that is always there when the loop
\* waits is not passed over for ever by the events.
RealtimeSpec ==
  /\ RealtimeInit /\ [][RealtimeNext]_vars
  /\ WF_vars(MainStep) /\ SF_vars(TakeCtrlC)
  /\ WF_vars(WriterTask)
=============================================================================
