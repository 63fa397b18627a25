---------------------------- MODULE Deduplicator ----------------------------
(***************************************************************************)
(* The first-come duplicate filter of src/dedup.rs.  A frame stays in seen *)
(* from its first copy until a purge at or after its expiry; expiry is the *)
(* time-ordered multimap the purge walks, here a set of pairs.  Accepting  *)
(* and purging happen within one step of the engine, so both are stated on *)
(* values rather than as actions.                                          *)
(***************************************************************************)
EXTENDS Time100ns

CONSTANTS
  Frames,   \* the frames sensors can report
  Ttl       \* dedup_ttl_ms, in ticks

ASSUME TtlAssumption == Ttl \in Nat

VARIABLES
  seen,     \* frames that would be dropped as duplicates
  expiry    \* set of <<expire_at, frame>>

dedupVars == <<seen, expiry>>

DedupInit ==
  /\ seen = {}
  /\ expiry = {}

\* The verdict on a frame: TRUE for a first copy.
Accepts(frame) == frame \notin seen

\* seen and expiry after a frame: a duplicate leaves the expiry of the first
\* copy alone.
AcceptSeen(frame) == seen \cup {frame}

AcceptExpiry(frame, ts) ==
  IF Accepts(frame) THEN expiry \cup {<<SaturatingAdd(ts, Ttl), frame>>}
                    ELSE expiry

\* Mutants of Expired: the entry at wm itself kept; the next one taken as well.
ExpiredBefore(exp, wm) == {x \in exp : x[1] < wm}
ExpiredAfter(exp, wm) == {x \in exp : x[1] <= SaturatingAdd(wm, 1)}

\* The entries a purge at watermark wm takes out: everything before wm + 1.
Expired(exp, wm) == {x \in exp : x[1] < SaturatingAdd(wm, 1)}

PurgeExpiry(exp, wm) == exp \ Expired(exp, wm)

\* Mutant of PurgeSeen: the expired frames stay in the set.
PurgeNothing(s, exp, wm) == s

PurgeSeen(s, exp, wm) == s \ {x[2] : x \in Expired(exp, wm)}
============================================================================
