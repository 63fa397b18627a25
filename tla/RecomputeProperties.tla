------------------------ MODULE RecomputeProperties ------------------------
(***************************************************************************)
(* What a recompute owes the table, whatever the files hold, however the   *)
(* confirmed time lags, and wherever the runs before this one died.        *)
(***************************************************************************)
EXTENDS Recompute

\* The type of the run's state; the minutes of a run are fed in order and
\* never written ahead of what is fed.
RecomputeTypeOK ==
  /\ EngineTypeOK
  /\ pc \in {"start", "read", "feed", "write", "done"}
  /\ minute \in From - 1 .. To - 1
  /\ nextWrite \in From .. To
  /\ finished \/ nextWrite <= minute \/ minute < From
  /\ \A m \in DOMAIN buckets : \A r \in buckets[m] : MinuteOf(r) = m
  /\ \A k \in DOMAIN db : RowKey(db[k]) = k

\* docs/CODE_GUIDE.md 15: the files of a minute are merged in time order, so
\* that no record is dropped as late, however the sensors overlap.
NothingLate == counted # "dropped_late"

\* docs/DESIGN.md 5: a minute is complete when it is written.  Its rows in the
\* table are the last position of every block of that minute, and no record fed
\* later adds to it.
WrittenMinutesComplete ==
  pc # "start" =>
    \A m \in From .. nextWrite - 1 :
      /\ InMinute(db, m) = InMinute(produced, m)
      /\ \A k \in InMinute(db, m) : db[k] = produced[k]

\* docs/DESIGN.md 5: the memory is bounded by the lag of the watermark.  Rows
\* are collected only for minutes to be written, and when a minute is read
\* at most one earlier minute is still collecting, the one confirmed lies in.
BucketsBounded ==
  /\ \A m \in DOMAIN buckets : nextWrite <= m /\ m < To
  /\ pc = "read" => \A m \in DOMAIN buckets : StartOf(m) < confirmed
                                               /\ confirmed < StartOf(m + 1)

\* Rows outside the range are never touched.
OutsideUntouched ==
  \A k \in DOMAIN OldRows \cup DOMAIN db :
    LET outside(rows) == k \in DOMAIN rows /\ ~InRange(rows[k])
    IN  /\ outside(OldRows) => k \in DOMAIN db /\ db[k] = OldRows[k]
        /\ outside(db) => k \in DOMAIN OldRows

\* Runs converge: a minute that some run committed is committed again with the
\* same rows by every later run, also when the first one died half way and what
\* it wrote is in the table the next one starts from.
RerunConverges ==
  [][\A m \in written :
       /\ InMinute(db', m) = InMinute(db, m)
       /\ \A k \in InMinute(db, m) : db'[k] = db[k]]_recomputeVars

\* Once the process is no longer killed the whole range gets written.
RunEnds == <>[](pc = "done" /\ From .. To - 1 \subseteq written)
=============================================================================
