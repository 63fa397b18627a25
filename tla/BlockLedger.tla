---------------------------- MODULE BlockLedger ----------------------------
(***************************************************************************)
(* What the engine promises the writer, without sensors, duplicates or     *)
(* watermarks: time blocks are open for writing until the frontier reaches *)
(* their end; at that moment the last row of the block is handed out, and  *)
(* the block is closed for ever.  The frontier never goes back.            *)
(***************************************************************************)
EXTENDS Integers

CONSTANTS
  BlockKeys,   \* block identifiers
  EndOf(_),    \* the time at which a block ends
  Start        \* the frontier before anything is closed

VARIABLES
  frontier,    \* every block that ends at or before this is closed
  open,        \* partial function: key -> the last row written
  closed       \* partial function: key -> the row handed out

ledgerVars == <<frontier, open, closed>>

LedgerInit ==
  /\ frontier = Start
  /\ open = [k \in {} |-> k]
  /\ closed = [k \in {} |-> k]

\* Rows o are the open ones once any write is done; the frontier moves and
\* hands out those that end by it.
CloseUpTo(o) ==
  /\ frontier' >= frontier
  /\ open' = [k \in {x \in DOMAIN o : EndOf(x) > frontier'} |-> o[k]]
  /\ closed' = [k \in DOMAIN closed \cup {x \in DOMAIN o : EndOf(x) <= frontier'} |->
                  IF k \in DOMAIN closed THEN closed[k] ELSE o[k]]

\* Write one row of a block that has not ended, then close.  The row is, after
\* the step, either still open or handed out.
WriteAndClose(k) ==
  /\ EndOf(k) > frontier
  /\ \E row \in {open'[x] : x \in DOMAIN open' \cap {k}}
               \cup {closed'[x] : x \in DOMAIN closed' \cap {k}} :
       CloseUpTo([x \in DOMAIN open \cup {k} |-> IF x = k THEN row ELSE open[x]])

LedgerNext ==
  \/ CloseUpTo(open)
  \/ \E k \in DOMAIN open' \cup DOMAIN closed' : k \in BlockKeys /\ WriteAndClose(k)

LedgerSpec == LedgerInit /\ [][LedgerNext]_ledgerVars

-----------------------------------------------------------------------------
\* A closed block is final: its row never changes and it is never reopened.
ClosedIsFinal ==
  [][\A k \in DOMAIN closed :
       /\ k \in DOMAIN closed' /\ closed'[k] = closed[k]
       /\ k \notin DOMAIN open']_ledgerVars
============================================================================
