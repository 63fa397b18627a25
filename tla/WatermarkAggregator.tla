------------------------ MODULE WatermarkAggregator ------------------------
(***************************************************************************)
(* The watermark of src/aggregator.rs.  Every sensor's latest event time   *)
(* is kept; the frontier is the latest of them; a sensor within Timeout of *)
(* the frontier is active, and the watermark follows the slowest active    *)
(* sensor, never going back.  A sensor that has sent nothing yet has no    *)
(* entry and does not hold the watermark back.                             *)
(***************************************************************************)
EXTENDS Time100ns, FiniteSetsExt

CONSTANTS
  Sensors,   \* sensor identifiers
  Timeout    \* watermark_timeout_ms, in ticks

ASSUME TimeoutAssumption == Timeout \in Nat

VARIABLES
  latest,    \* partial function: sensor -> latest event time observed
  watermark

aggVars == <<latest, watermark>>

AggInit ==
  /\ latest = [s \in {} |-> TsMin]
  /\ watermark = TsMin

\* latest after an event: the entry starts at TsMin and only grows.
ObserveLatest(s, ts) ==
  [x \in DOMAIN latest \cup {s} |->
     IF x # s THEN latest[x]
     ELSE IF s \in DOMAIN latest /\ latest[s] >= ts THEN latest[s] ELSE ts]

Frontier(l) == Max(Range(l))

Cutoff(l) == SaturatingSub(Frontier(l), Timeout)

\* Mutant of ActiveTimes: the boundary of the timeout excluded.
StrictlyActiveTimes(l) ==
  {t \in Range(l) : t > Cutoff(l) \/ t = Frontier(l)}

\* The times of the active sensors: those not more than Timeout behind.
ActiveTimes(l) == {t \in Range(l) : t >= Cutoff(l)}

\* Mutant of Advanced: the candidate is taken even when it goes back.
AnyCandidate(candidate) == candidate

\* The watermark moves to a candidate only when that is an advance.
Advanced(candidate) == IF candidate > watermark THEN candidate ELSE watermark

\* An event of sensor s: latest, then the watermark, are recomputed.
Observe(s, ts) ==
  /\ latest' = ObserveLatest(s, ts)
  /\ watermark' = Advanced(Min(ActiveTimes(latest')))

\* The wall clock as an external frontier: no sensor is consulted.
AdvanceTo(frontier) ==
  /\ watermark' = Advanced(SaturatingSub(frontier, Timeout))
  /\ UNCHANGED latest
============================================================================
