--------------------------- MODULE EngineHistory ---------------------------
(***************************************************************************)
(* The engine with history variables: the frames accepted by the last call *)
(* and by the calls before it, and every row returned before the last      *)
(* call, the later row of a key replacing the earlier as an upsert does.   *)
(* The history only observes: it restricts no step of the engine.          *)
(***************************************************************************)
EXTENDS Engine

VARIABLES
  accepted,   \* the <<frame, ts>> the last call accepted: none or one
  passed,     \* the <<frame, ts>> accepted by earlier calls
  stored      \* rows returned by earlier calls, by key

historyVars == <<accepted, passed, stored>>

vars == <<engineVars, historyVars>>

Upsert(rows, new) ==
  [k \in DOMAIN rows \cup DOMAIN new |-> IF k \in DOMAIN new THEN new[k] ELSE rows[k]]

HInit ==
  /\ EngineInit
  /\ accepted = {}
  /\ passed = {}
  /\ stored = NoRows

Record(frames) ==
  /\ accepted' = frames
  /\ passed' = passed \cup accepted
  /\ stored' = Upsert(stored, out)

HNext ==
  \/ \E ev \in Events :
       \/ DropLate(ev) /\ Record({})
       \/ ProcessFirst(ev) /\ Record({<<ev.frame, ev.ts>>})
       \/ ProcessDuplicate(ev) /\ Record({})
  \/ \E now \in NowTimes : AdvanceWallclock(now) /\ Record({})
  \/ Finish /\ Record({})

HSpec == HInit /\ [][HNext]_vars

-----------------------------------------------------------------------------
\* A frame the filter lets through again comes at least Ttl after every copy
\* let through before it, whatever the order the copies arrive in and however
\* late the purge runs; with a positive Ttl, a record delivered twice (same
\* frame, same time) is never processed twice.
DedupExact ==
  \A a \in accepted, p \in passed : a[1] = p[1] => a[2] >= p[2] + Ttl

\* No call returns a row for an (aircraft, block) that an earlier call has
\* returned: every key reaches the writer once, so that no batch of an insert
\* statement holds a key twice and no stored row is replaced.
KeyReturnedOnce == DOMAIN out \cap DOMAIN stored = {}

\* The ledger the engine keeps: the confirmed time, the pending blocks, and
\* every row returned so far.
Ledger == INSTANCE BlockLedger
  WITH BlockKeys <- Keys, EndOf <- KeyEnd, Start <- TsMin,
       frontier <- confirmed, open <- blocks, closed <- Upsert(stored, out)

\* The engine implements the ledger: no block is written after it ended, none
\* is handed out twice, and none is forgotten.
LedgerSpec == Ledger!LedgerSpec

\* A row that was returned is final, although the calls that wrote its block may
\* come from any sensor and a confirmation may be deferred: no later call
\* returns another row for its key or opens its block again.
ReturnedRowsFinal == Ledger!ClosedIsFinal

\* The filter's memory is bounded: a copy is dropped as a duplicate only while
\* the time to live of an accepted copy is less than one quantum behind the
\* watermark.  (It may be well past it in event time, by as much as the
\* watermark lags the frontier.)
DuplicateRemembered ==
  [][\A ev \in Events :
       ProcessDuplicate(ev) =>
         \E p \in passed \cup accepted :
           p[1] = ev.frame /\ watermark < p[2] + Ttl + ConfirmQuantum]_vars

\* docs/DESIGN.md: all declared sensors hold the watermark back until they lag
\* more than the timeout, and dropped_late counts data that arrives after that;
\* so the first event of a declared sensor, not beyond the timeout, is kept.
DeclaredSensorsHoldBack ==
  [][\A ev \in Events :
       DropLate(ev) /\ DOMAIN latest # {} /\ ev.sensor \notin DOMAIN latest =>
         ev.ts < Cutoff(latest)]_vars
=============================================================================
