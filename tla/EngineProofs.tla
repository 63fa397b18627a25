---------------------------- MODULE EngineProofs ----------------------------
(***************************************************************************)
(* Theorems about the engine with its history, for every set of sensors,   *)
(* frames and event times and every setting of its parameters.             *)
(***************************************************************************)
EXTENDS EngineHistory, EngineLemmas

USE TsRangeAssumption, TimeoutAssumption, TtlAssumption, BlockAssumption

-----------------------------------------------------------------------------
(* The inductive invariant. *)

Copies == passed \cup accepted

\* What ties it to the history: an accepted copy is remembered until its time
\* to live is confirmed over, every entry stems from an accepted copy, and
\* whatever has been returned ended by the confirmed time.
HistoryInv ==
  /\ Copies \subseteq Frames \X EventTimes
  /\ ~finished => \A p \in Copies :
                    <<p[2] + Ttl, p[1]>> \in expiry \/ p[2] + Ttl <= confirmed
  /\ ~finished => \A x \in expiry :
                    \E p \in Copies : x = <<p[2] + Ttl, p[1]>>
  /\ \A k \in DOMAIN out \cup DOMAIN stored : k \in Keys /\ KeyEnd(k) <= confirmed
  /\ DedupExact
  /\ KeyReturnedOnce

HInv == EngineInv /\ HistoryInv

\* The invariant holds before the first call.
LEMMA InitInv ==
  ASSUME HInit
  PROVE  HInv
<1>1. EngineInv
  BY EngineInitInv DEF HInit
<1>2. accepted = {} /\ passed = {} /\ stored = NoRows /\ out = NoRows /\ expiry = {}
  BY DEF HInit, EngineInit, DedupInit
<1>3. DOMAIN NoRows = {}
  BY DEF NoRows
<1>4. HistoryInv
  BY <1>2, <1>3 DEF HistoryInv, Copies, DedupExact, KeyReturnedOnce
<1> QED BY <1>1, <1>4 DEF HInv

\* The common part of the three calls that may confirm.  s, e and b are the
\* memory and the blocks before the confirmation, frames what was accepted.
LEMMA CallInv ==
  ASSUME HInv, ~finished, NEW s, NEW e, NEW b, NEW frames,
         LatestOK(latest'), watermark' \in Ts, watermark' < TsMax,
         watermark' >= watermark, DOMAIN aircraft' = Icaos,
         finished' = finished, ConfirmIfDue(s, e, b), Record(frames),
         MemoryOK(s, e, confirmed), PendingOK(b, confirmed),
         frames \subseteq Frames \X EventTimes,
         \A p \in frames : Accepts(p[1]) /\ p[2] >= watermark,
         e = expiry \cup {<<p[2] + Ttl, p[1]>> : p \in frames}
  PROVE  HInv'
<1>1. /\ confirmed \in Ts /\ watermark \in Ts
      /\ Lag(watermark, confirmed)
      /\ MemoryOK(seen, expiry, confirmed)
  BY DEF HInv, EngineInv
<1>2. /\ EngineInv'
      /\ confirmed' \in Ts
      /\ confirmed' >= confirmed
      /\ expiry' \subseteq e
      /\ \A x \in e \ expiry' : x[1] <= confirmed'
      /\ blocks' = Beyond(b, confirmed')
      /\ out' = UpTo(b, confirmed')
  BY <1>1, ConfirmingCall DEF HInv
<1>3. confirmed \in Int /\ confirmed' \in Int /\ watermark \in Int
  BY <1>1, <1>2 DEF Ts
<1>6. Copies' = Copies \cup frames
  BY DEF Record, Copies
<1>7. \A p \in Copies : p[1] \in Frames /\ p[2] \in Int
  BY EventTimesAssumption DEF HInv, HistoryInv, Ts
<1>8. Copies' \subseteq Frames \X EventTimes
  BY <1>6 DEF HInv, HistoryInv
<1>9. \A p \in Copies' : <<p[2] + Ttl, p[1]>> \in expiry' \/ p[2] + Ttl <= confirmed'
  <2> TAKE p \in Copies'
  <2>1. p[2] \in Int
    BY <1>8, EventTimesAssumption DEF Ts
  <2>2. <<p[2] + Ttl, p[1]>> \in e \/ p[2] + Ttl <= confirmed
    BY <1>6 DEF HInv, HistoryInv
  <2>3. CASE <<p[2] + Ttl, p[1]>> \in e
    BY <2>3, <1>2
  <2>4. CASE p[2] + Ttl <= confirmed
    BY <2>4, <2>1, <1>2, <1>3
  <2> QED BY <2>2, <2>3, <2>4
<1>10. \A x \in expiry' : \E p \in Copies' : x = <<p[2] + Ttl, p[1]>>
  <2> TAKE x \in expiry'
  <2>1. x \in expiry \/ \E p \in frames : x = <<p[2] + Ttl, p[1]>>
    BY <1>2
  <2> QED
    BY <2>1, <1>6 DEF HInv, HistoryInv
<1>11. DOMAIN stored' = DOMAIN stored \cup DOMAIN out
  BY DEF Record, Upsert
<1>12. \A k \in DOMAIN stored' : k \in Keys /\ KeyEnd(k) <= confirmed
  BY <1>11 DEF HInv, HistoryInv
<1>13. \A k \in DOMAIN out' : /\ k \in DOMAIN b /\ k \in Keys
                              /\ KeyEnd(k) > confirmed /\ KeyEnd(k) <= confirmed'
  BY <1>2 DEF PendingOK, WellFiled, UpTo
<1>14. \A k \in Keys : KeyEnd(k) \in Int
  BY KeyEndType DEF Ts
<1>15. \A k \in DOMAIN out' \cup DOMAIN stored' :
         k \in Keys /\ KeyEnd(k) <= confirmed'
  BY <1>2, <1>3, <1>12, <1>13, <1>14
<1>16. KeyReturnedOnce'
  BY <1>3, <1>12, <1>13, <1>14 DEF KeyReturnedOnce
<1>17. DedupExact'
  <2> SUFFICES ASSUME NEW a \in accepted', NEW p \in passed', a[1] = p[1]
               PROVE  a[2] >= p[2] + Ttl
    BY DEF DedupExact
  <2>1. a \in frames /\ p \in Copies
    BY DEF Record, Copies
  <2>2. a[1] \notin seen /\ a[2] >= watermark /\ a[2] \in Int
    BY <2>1, EventTimesAssumption DEF Accepts, Ts
  <2>3. <<p[2] + Ttl, p[1]>> \notin expiry
    BY <2>2, <1>1 DEF MemoryOK
  <2>4. p[2] + Ttl <= confirmed /\ p[2] \in Int
    BY <2>1, <2>3, <1>7 DEF HInv, HistoryInv
  <2>5. confirmed <= watermark
    BY <1>1 DEF Lag
  <2> QED
    BY <2>2, <2>4, <2>5, <1>3
<1>18. HistoryInv'
  BY <1>8, <1>9, <1>10, <1>15, <1>16, <1>17 DEF HistoryInv
<1> QED
  BY <1>2, <1>18 DEF HInv

\* The invariant after a late event: nothing but the history changes.
LEMMA DropLateInv ==
  ASSUME HInv, NEW ev \in Events, DropLate(ev), Record({})
  PROVE  HInv'
<1>1. /\ UNCHANGED <<latest, watermark, seen, expiry, blocks, aircraft,
                     confirmed, finished>>
      /\ out' = NoRows
  BY DEF DropLate
<1>2. WellFiled(out') /\ DOMAIN out' = {}
  BY <1>1 DEF WellFiled, NoRows
<1>3. EngineInv'
  BY <1>1, <1>2 DEF HInv, EngineInv
<1>4. Copies' = Copies /\ accepted' = {} /\ DOMAIN stored' = DOMAIN stored \cup DOMAIN out
  BY DEF Record, Copies, Upsert
<1>5. HistoryInv'
  BY <1>1, <1>2, <1>4 DEF HInv, HistoryInv, DedupExact, KeyReturnedOnce
<1> QED
  BY <1>3, <1>5 DEF HInv

\* The invariant after a first copy: one entry added, at most one block written.
LEMMA ProcessFirstInv ==
  ASSUME HInv, NEW ev \in Events, ProcessFirst(ev), Record({<<ev.frame, ev.ts>>})
  PROVE  HInv'
<1> DEFINE f == ev.frame
           s == AcceptSeen(f)
           e == AcceptExpiry(f, ev.ts)
           b == BlocksWith(ProcessRecords(ev))
           frames == {<<f, ev.ts>>}
<1>1. f \in Frames /\ ev.ts \in EventTimes
  BY DEF Events
<1>2. /\ ~finished /\ finished' = finished /\ DOMAIN aircraft' = Icaos
      /\ LatestOK(latest') /\ watermark' \in Ts /\ watermark' < TsMax
      /\ watermark' >= watermark
      /\ ConfirmIfDue(s, e, b)
      /\ MemoryOK(s, e, confirmed) /\ e = expiry \cup {<<ev.ts + Ttl, f>>}
      /\ PendingOK(b, confirmed)
  BY FirstCall DEF HInv
<1>3. ev.ts \in Int /\ watermark \in Int
  BY <1>1, EventTimesAssumption DEF HInv, EngineInv, Ts
<1>4. Accepts(f) /\ ev.ts >= watermark
  BY <1>3 DEF ProcessFirst, Late
<1>5. frames \subseteq Frames \X EventTimes
  BY <1>1
<1>6. \A p \in frames : Accepts(p[1]) /\ p[2] >= watermark
  BY <1>4
<1>7. e = expiry \cup {<<p[2] + Ttl, p[1]>> : p \in frames}
  BY <1>2
<1>8. Record(frames)
  OBVIOUS
<1> HIDE DEF f, s, e, b, frames
<1> QED
  BY <1>2, <1>5, <1>6, <1>7, <1>8, CallInv

\* A call that accepts nothing: its memory and blocks are the current ones.
LEMMA QuietCallInv ==
  ASSUME HInv, ~finished, LatestOK(latest'), watermark' \in Ts, watermark' < TsMax,
         watermark' >= watermark, aircraft' = aircraft, finished' = finished,
         ConfirmIfDue(seen, expiry, blocks), Record({})
  PROVE  HInv'
<1> DEFINE s == seen
           e == expiry
           b == blocks
           frames == {}
<1>1. MemoryOK(s, e, confirmed) /\ PendingOK(b, confirmed) /\ DOMAIN aircraft' = Icaos
  BY DEF HInv, EngineInv
<1>2. ConfirmIfDue(s, e, b) /\ Record(frames)
  OBVIOUS
<1>3. /\ frames \subseteq Frames \X EventTimes
      /\ \A p \in frames : Accepts(p[1]) /\ p[2] >= watermark
      /\ e = expiry \cup {<<p[2] + Ttl, p[1]>> : p \in frames}
  OBVIOUS
<1> HIDE DEF s, e, b, frames
<1> QED
  BY <1>1, <1>2, <1>3, CallInv

\* The invariant after the end of the input: nothing pending, all times confirmed.
LEMMA FinishInv ==
  ASSUME HInv, Finish, Record({})
  PROVE  HInv'
<1>1. /\ EngineInv'
      /\ finished' = TRUE /\ ~finished /\ confirmed' = TsMax
  BY FinishCall DEF HInv
<1>2. out' = [k \in DOMAIN blocks |-> blocks[k]]
  BY FinishCall DEF HInv
<1>7. Copies' = Copies /\ accepted' = {} /\ DOMAIN stored' = DOMAIN stored \cup DOMAIN out
  BY DEF Record, Copies, Upsert
<1>8. \A k \in Keys : KeyEnd(k) \in Int /\ KeyEnd(k) <= TsMax
  BY KeyEndType DEF Ts
<1>9. \A k \in DOMAIN stored' : k \in Keys /\ KeyEnd(k) <= confirmed
  BY <1>7 DEF HInv, HistoryInv
<1>10. \A k \in DOMAIN out' : k \in Keys /\ KeyEnd(k) > confirmed
  BY <1>1, <1>2 DEF HInv, EngineInv, PendingOK, WellFiled
<1>11. confirmed \in Int
  BY DEF HInv, EngineInv, Ts
<1>12. KeyReturnedOnce'
  BY <1>8, <1>9, <1>10, <1>11 DEF KeyReturnedOnce
<1>13. HistoryInv'
  BY <1>1, <1>7, <1>8, <1>9, <1>10, <1>12 DEF HInv, HistoryInv, DedupExact
<1> QED
  BY <1>1, <1>13 DEF HInv

\* Every step of the engine keeps the invariant.
LEMMA StepInv ==
  ASSUME HInv, [HNext]_vars
  PROVE  HInv'
<1>1. ASSUME NEW ev \in Events, DropLate(ev), Record({})
      PROVE  HInv'
  BY <1>1, DropLateInv
<1>2. ASSUME NEW ev \in Events, ProcessFirst(ev), Record({<<ev.frame, ev.ts>>})
      PROVE  HInv'
  BY <1>2, ProcessFirstInv
<1>3. ASSUME NEW ev \in Events, ProcessDuplicate(ev), Record({})
      PROVE  HInv'
  BY <1>3, DuplicateCall, QuietCallInv DEF HInv
<1>4. ASSUME NEW now \in NowTimes, AdvanceWallclock(now), Record({})
      PROVE  HInv'
  <2>1. /\ ~finished /\ finished' = finished /\ aircraft' = aircraft
        /\ AdvanceTo(now) /\ ConfirmIfDue(seen, expiry, blocks)
    BY <1>4 DEF AdvanceWallclock
  <2>2. LatestOK(latest) /\ watermark \in Ts /\ watermark < TsMax
    BY DEF HInv, EngineInv
  <2>3. /\ LatestOK(latest') /\ watermark' \in Ts /\ watermark' < TsMax
        /\ watermark' >= watermark
    BY <2>1, <2>2, AdvanceToFacts
  <2> QED
    BY <1>4, <2>1, <2>3, QuietCallInv
<1>5. ASSUME Finish, Record({})
      PROVE  HInv'
  BY <1>5, FinishInv
<1>6. CASE UNCHANGED vars
  BY <1>6 DEF HInv, EngineInv, HistoryInv, Copies, DedupExact, KeyReturnedOnce,
              vars, engineVars, historyVars
<1> QED
  BY <1>1, <1>2, <1>3, <1>4, <1>5, <1>6 DEF HNext
-----------------------------------------------------------------------------
(* The safety theorems. *)

\* The strengthened invariant holds in every reachable state.
THEOREM Invariance == HSpec => []HInv
<1>1. HInit => HInv
  BY InitInv
<1>2. HInv /\ [HNext]_vars => HInv'
  BY StepInv
<1> QED
  BY <1>1, <1>2, PTL DEF HSpec

\* The engine's state keeps its type, and every pending or returned row is
\* filed under its own aircraft and block start.
THEOREM TypeCorrect == HSpec => []EngineTypeOK
<1>1. HInv => EngineTypeOK
  BY DEF HInv, EngineInv, LatestOK, EngineTypeOK
<1> QED
  BY <1>1, Invariance, PTL

\* A frame is let through again only Ttl or more after every earlier copy let
\* through.
THEOREM DedupCorrect == HSpec => []DedupExact
<1>1. HInv => DedupExact
  BY DEF HInv, HistoryInv
<1> QED
  BY <1>1, Invariance, PTL

\* No row is returned twice for the same aircraft and block.
THEOREM ReturnedOnce == HSpec => []KeyReturnedOnce
<1>1. HInv => KeyReturnedOnce
  BY DEF HInv, HistoryInv
<1> QED
  BY <1>1, Invariance, PTL

\* The dedup memory is exactly the unexpired copies.
THEOREM MemoryCorrect == HSpec => []DedupMemory
<1>1. HInv => DedupMemory
  BY DEF HInv, EngineInv, MemoryOK, DedupMemory
<1> QED
  BY <1>1, Invariance, PTL

\* A pending block's end is less than one quantum behind the watermark.
THEOREM PendingCorrect == HSpec => []PendingBounded
<1>1. HInv => PendingBounded
  <2> SUFFICES ASSUME HInv, ~finished, NEW k \in DOMAIN blocks
               PROVE  KeyEnd(k) > confirmed /\ watermark < KeyEnd(k) + ConfirmQuantum
    BY DEF PendingBounded
  <2>1. /\ k \in Keys /\ KeyEnd(k) > confirmed
        /\ confirmed \in Ts /\ watermark \in Ts
        /\ watermark < SaturatingAdd(confirmed, ConfirmQuantum)
    BY DEF HInv, EngineInv, PendingOK, WellFiled, Lag
  <2>2. /\ SaturatingAdd(confirmed, ConfirmQuantum) \in Int
        /\ SaturatingAdd(confirmed, ConfirmQuantum) <= confirmed + ConfirmQuantum
    BY <2>1, QuantumFacts, SaturatingAddFacts DEF Ts
  <2>3. KeyEnd(k) \in Int /\ confirmed \in Int /\ watermark \in Int
    BY <2>1, KeyEndType DEF Ts
  <2> QED
    BY <2>1, <2>2, <2>3, QuantumFacts
<1> QED
  BY <1>1, Invariance, PTL

\* What a step may do to the watermark and the confirmed time.
LEMMA StepMonotone ==
  ASSUME HInv, [HNext]_vars
  PROVE  /\ watermark' >= watermark
         /\ confirmed' >= confirmed
         /\ confirmed' > watermark' => finished' \/ UNCHANGED engineVars
<1>1. LatestOK(latest) /\ watermark \in Ts /\ watermark < TsMax /\ confirmed \in Ts
  BY DEF HInv, EngineInv
<1>2. watermark \in Int /\ confirmed \in Int /\ confirmed <= TsMax
  BY <1>1 DEF Ts
<1>3. ASSUME NEW s, NEW e, NEW b, ~finished, watermark' \in Ts, watermark' >= watermark,
             ConfirmIfDue(s, e, b)
      PROVE  confirmed' >= confirmed /\ confirmed' <= watermark'
  <2>1. confirmed <= watermark
    BY <1>3 DEF HInv, EngineInv, Lag
  <2>2. confirmed' = confirmed \/ confirmed' = watermark'
    BY <1>3 DEF ConfirmIfDue, Confirm, Defer
  <2>3. watermark' \in Int /\ watermark' >= watermark
    BY <1>3 DEF Ts
  <2> QED
    BY <2>1, <2>2, <2>3, <1>2
<1>4. ASSUME NEW ev \in Events, Observe(ev.sensor, ev.ts)
      PROVE  watermark' \in Ts /\ watermark' >= watermark
  BY <1>1, <1>4, ObserveFacts DEF Events
<1>5. CASE \E ev \in Events : DropLate(ev)
  BY <1>5, <1>2 DEF DropLate, HInv, EngineInv, Lag
<1>6. CASE \E ev \in Events : ProcessFirst(ev)
  <2>1. PICK ev \in Events : ProcessFirst(ev)
    BY <1>6
  <2>2. /\ ~finished /\ Observe(ev.sensor, ev.ts)
        /\ ConfirmIfDue(AcceptSeen(ev.frame), AcceptExpiry(ev.frame, ev.ts),
                        BlocksWith(ProcessRecords(ev)))
    BY <2>1 DEF ProcessFirst
  <2>3. watermark' \in Ts /\ watermark' >= watermark
    BY <2>2, <1>4
  <2>4. confirmed' >= confirmed /\ confirmed' <= watermark'
    BY <2>2, <2>3, <1>3
  <2>5. confirmed' \in Int /\ watermark' \in Int
    BY StepInv DEF HInv, EngineInv, Ts
  <2> QED
    BY <2>3, <2>4, <2>5
<1>7. CASE \E ev \in Events : ProcessDuplicate(ev)
  <2>1. PICK ev \in Events : ProcessDuplicate(ev)
    BY <1>7
  <2>2. ~finished /\ Observe(ev.sensor, ev.ts) /\ ConfirmIfDue(seen, expiry, blocks)
    BY <2>1 DEF ProcessDuplicate
  <2>3. watermark' \in Ts /\ watermark' >= watermark
    BY <2>2, <1>4
  <2>4. confirmed' >= confirmed /\ confirmed' <= watermark'
    BY <2>2, <2>3, <1>3
  <2>5. confirmed' \in Int /\ watermark' \in Int
    BY StepInv DEF HInv, EngineInv, Ts
  <2> QED
    BY <2>3, <2>4, <2>5
<1>8. CASE \E now \in NowTimes : AdvanceWallclock(now)
  <2>1. PICK now \in NowTimes : AdvanceWallclock(now)
    BY <1>8
  <2>2. ~finished /\ AdvanceTo(now) /\ ConfirmIfDue(seen, expiry, blocks)
    BY <2>1 DEF AdvanceWallclock
  <2>3. watermark' \in Ts /\ watermark' >= watermark
    BY <2>2, <1>1, AdvanceToFacts
  <2>4. confirmed' >= confirmed /\ confirmed' <= watermark'
    BY <2>2, <2>3, <1>3
  <2>5. confirmed' \in Int /\ watermark' \in Int
    BY StepInv DEF HInv, EngineInv, Ts
  <2> QED
    BY <2>3, <2>4, <2>5
<1>9. CASE Finish
  BY <1>9, <1>2 DEF Finish
<1>10. CASE UNCHANGED vars
  BY <1>10, <1>2 DEF vars, engineVars
<1> QED
  BY <1>5, <1>6, <1>7, <1>8, <1>9, <1>10 DEF HNext

\* Neither the watermark nor the confirmed time ever goes back, and only the
\* end of the input confirms beyond the watermark.
THEOREM Monotone == HSpec => WatermarkMonotone
<1>1. HInv /\ [HNext]_vars =>
        [/\ watermark' >= watermark
         /\ confirmed' >= confirmed
         /\ confirmed' > watermark' => finished']_engineVars
  BY StepMonotone
<1> QED
  BY <1>1, Invariance, PTL DEF HSpec, WatermarkMonotone

\* A copy is dropped only while an accepted one is less than a quantum past
\* its time to live.
THEOREM Remembered == HSpec => DuplicateRemembered
<1>1. ASSUME HInv
      PROVE  \A ev \in Events :
               ProcessDuplicate(ev) =>
                 \E p \in passed \cup accepted :
                   p[1] = ev.frame /\ watermark < p[2] + Ttl + ConfirmQuantum
  <2> SUFFICES ASSUME NEW ev \in Events, ProcessDuplicate(ev)
               PROVE  \E p \in passed \cup accepted :
                        p[1] = ev.frame /\ watermark < p[2] + Ttl + ConfirmQuantum
    OBVIOUS
  <2>1. ~finished /\ ev.frame \in seen
    BY DEF ProcessDuplicate, Accepts
  <2>2. PICK x \in expiry : x[2] = ev.frame
    BY <1>1, <2>1 DEF HInv, EngineInv, MemoryOK
  <2>3. PICK p \in passed \cup accepted : x = <<p[2] + Ttl, p[1]>>
    BY <1>1, <2>1 DEF HInv, HistoryInv, Copies
  <2>4. p[2] \in EventTimes /\ p[2] \in Int
    BY <1>1, EventTimesAssumption DEF HInv, HistoryInv, Copies, Ts
  <2>5. Unexpired(x, confirmed)
    BY <1>1, <2>1 DEF HInv, EngineInv, MemoryOK
  <2>6. /\ confirmed \in Ts /\ watermark \in Ts
        /\ watermark < SaturatingAdd(confirmed, ConfirmQuantum)
    BY <1>1, <2>1 DEF HInv, EngineInv, Lag
  <2>7. confirmed <= p[2] + Ttl /\ confirmed \in Int /\ watermark \in Int
    BY <2>3, <2>4, <2>5, <2>6 DEF Unexpired, Ts
  <2>8. /\ SaturatingAdd(confirmed, ConfirmQuantum) \in Int
        /\ SaturatingAdd(confirmed, ConfirmQuantum) <= confirmed + ConfirmQuantum
    BY <2>6, QuantumFacts, SaturatingAddFacts DEF Ts
  <2>9. watermark < p[2] + Ttl + ConfirmQuantum
    BY <2>4, <2>6, <2>7, <2>8, QuantumFacts
  <2> QED
    BY <2>2, <2>3, <2>9
<1>2. HInv =>
        [\A ev \in Events :
           ProcessDuplicate(ev) =>
             \E p \in passed \cup accepted :
               p[1] = ev.frame /\ watermark < p[2] + Ttl + ConfirmQuantum]_vars
  BY <1>1
<1> QED
  BY <1>2, Invariance, PTL DEF HSpec, DuplicateRemembered
-----------------------------------------------------------------------------
(* The watermark and the active sensors. *)

\* As latest times grow, so do the frontier and the cutoff.
LEMMA CutoffMonotone ==
  ASSUME NEW l, NEW m, LatestOK(l), LatestOK(m), DOMAIN l # {},
         DOMAIN l \subseteq DOMAIN m, \A s \in DOMAIN l : l[s] <= m[s]
  PROVE  Cutoff(l) <= Cutoff(m)
<1>1. Frontier(l) \in Range(l) /\ Frontier(m) \in Range(m)
  BY CandidateFacts
<1>2. Range(l) \subseteq EventTimes /\ Range(m) \subseteq EventTimes
  BY DEF Range, LatestOK
<1>3. Frontier(l) \in Int /\ Frontier(m) \in Int
  BY <1>1, <1>2, EventTimesAssumption DEF Ts
<1>4. PICK s \in DOMAIN l : Frontier(l) = l[s]
  BY <1>1 DEF Range
<1>5. l[s] <= m[s] /\ m[s] <= Frontier(m) /\ m[s] \in Int
  <2>1. m[s] <= Frontier(m)
    BY <1>4, CandidateFacts
  <2>2. m[s] \in Int
    BY <1>4, EventTimesAssumption DEF LatestOK, Ts
  <2> QED BY <2>1, <2>2
<1>6. Frontier(l) - Timeout \in Int /\ Frontier(m) - Timeout \in Int
      /\ Frontier(l) - Timeout <= Frontier(m) - Timeout
  BY <1>3, <1>4, <1>5
<1>7. Cutoff(l) = Clamp(Frontier(l) - Timeout) /\ Cutoff(m) = Clamp(Frontier(m) - Timeout)
  BY CandidateFacts
<1> QED
  BY <1>6, <1>7, ClampMonotone

\* An observed event that is not late leaves every active sensor's latest time
\* at or after the watermark: a sensor active now was active before, unless it
\* is the one that sent the event.
LEMMA ObserveActive ==
  ASSUME NEW s \in Sensors, NEW ts \in EventTimes, ts >= watermark,
         LatestOK(latest), watermark \in Ts, watermark < TsMax, Observe(s, ts),
         \A x \in DOMAIN latest : latest[x] >= Cutoff(latest) => watermark <= latest[x]
  PROVE  \A x \in DOMAIN latest' : latest'[x] >= Cutoff(latest') => watermark' <= latest'[x]
<1>1. /\ LatestOK(latest')
      /\ DOMAIN latest' = DOMAIN latest \cup {s}
      /\ \A x \in DOMAIN latest : x # s => latest'[x] = latest[x]
      /\ \A x \in DOMAIN latest : latest[x] <= latest'[x]
      /\ latest'[s] >= ts
      /\ watermark' = watermark \/ watermark' = Min(ActiveTimes(latest'))
  BY ObserveFacts
<1> SUFFICES ASSUME NEW x \in DOMAIN latest', latest'[x] >= Cutoff(latest')
             PROVE  watermark' <= latest'[x]
  OBVIOUS
<1>2. latest'[x] \in Int /\ watermark \in Int /\ ts \in Int /\ latest'[s] \in Int
  BY <1>1, EventTimesAssumption DEF LatestOK, Ts
<1>3. Min(ActiveTimes(latest')) <= latest'[x]
  BY <1>1, CandidateFacts
<1>4. watermark <= latest'[x]
  <2>1. CASE x = s
    BY <2>1, <1>1, <1>2
  <2>2. CASE x # s
    <3>1. x \in DOMAIN latest /\ latest'[x] = latest[x]
      BY <2>2, <1>1
    <3>2. Cutoff(latest) <= Cutoff(latest')
      BY <3>1, <1>1, CutoffMonotone
    <3>3. Cutoff(latest) \in Int /\ Cutoff(latest') \in Int
      BY <3>1, <1>1, CandidateFacts DEF Ts
    <3>4. latest[x] >= Cutoff(latest)
      BY <1>2, <3>1, <3>2, <3>3
    <3> QED BY <3>1, <3>4
  <2> QED BY <2>1, <2>2
<1> QED
  BY <1>1, <1>3, <1>4

\* Without a wall clock, the watermark never overtakes an active sensor.
THEOREM ActiveSensors == HSpec => []ActiveSensorNeverLate
<1>1. HInit => ActiveSensorNeverLate
  BY DEF HInit, EngineInit, AggInit, ActiveSensorNeverLate
<1>2. ASSUME HInv, ActiveSensorNeverLate, [HNext]_vars
      PROVE  ActiveSensorNeverLate'
  <2> SUFFICES ASSUME NowTimes = {}
               PROVE  ActiveSensorNeverLate'
    BY DEF ActiveSensorNeverLate
  <2>1. /\ LatestOK(latest) /\ watermark \in Ts /\ watermark < TsMax
        /\ \A x \in DOMAIN latest : latest[x] >= Cutoff(latest) => watermark <= latest[x]
    BY <1>2 DEF HInv, EngineInv, ActiveSensorNeverLate
  <2>2. ASSUME NEW ev \in Events, Observe(ev.sensor, ev.ts), ~Late(ev)
        PROVE  ActiveSensorNeverLate'
    <3>1. ev.sensor \in Sensors /\ ev.ts \in EventTimes
      BY DEF Events
    <3>2. ev.ts >= watermark
      BY <2>1, <2>2, <3>1, EventTimesAssumption DEF Late, Ts
    <3>3. \A x \in DOMAIN latest' : latest'[x] >= Cutoff(latest') => watermark' <= latest'[x]
      BY <2>1, <2>2, <3>1, <3>2, ObserveActive
    <3> QED
      BY <3>3 DEF ActiveSensorNeverLate
  <2>3. CASE UNCHANGED <<latest, watermark>>
    BY <2>1, <2>3 DEF ActiveSensorNeverLate
  <2>4. \/ \E ev \in Events : Observe(ev.sensor, ev.ts) /\ ~Late(ev)
        \/ UNCHANGED <<latest, watermark>>
    BY <1>2 DEF HNext, DropLate, ProcessFirst, ProcessDuplicate, Finish,
                vars, engineVars
  <2> QED
    BY <2>2, <2>3, <2>4
<1> QED
  BY <1>1, <1>2, Invariance, PTL DEF HSpec

-----------------------------------------------------------------------------
(* The engine implements the ledger. *)

\* A call that leaves the blocks of b beyond the confirmed time pending and
\* returns the others is a closing of the ledger.
LEMMA ClosingStep ==
  ASSUME HInv, HInv', NEW b, confirmed' >= confirmed,
         blocks' = Beyond(b, confirmed'), out' = UpTo(b, confirmed'),
         stored' = Upsert(stored, out)
  PROVE  Ledger!CloseUpTo(b)
<1> DEFINE closed == Upsert(stored, out)
           ended == {x \in DOMAIN b : KeyEnd(x) <= confirmed'}
<1>1. DOMAIN out' = ended /\ \A k \in ended : out'[k] = b[k]
  BY DEF UpTo
<1>2. DOMAIN out' \cap DOMAIN closed = {}
  BY DEF HInv, HistoryInv, KeyReturnedOnce
<1>3. Upsert(stored', out') =
        [k \in DOMAIN closed \cup ended |-> IF k \in DOMAIN closed THEN closed[k] ELSE b[k]]
  <2>1. Upsert(stored', out') =
          [k \in DOMAIN closed \cup DOMAIN out' |->
             IF k \in DOMAIN out' THEN out'[k] ELSE closed[k]]
    BY DEF Upsert
  <2> HIDE DEF closed, ended
  <2> QED
    BY <2>1, <1>1, <1>2
<1> QED
  BY <1>3 DEF Ledger!CloseUpTo, Beyond

\* A first copy writes the block of its record, if it has one, and closes.
LEMMA FirstStep ==
  ASSUME HInv, HInv', NEW ev \in Events, ProcessFirst(ev), Record({<<ev.frame, ev.ts>>})
  PROVE  Ledger!LedgerNext
<1> DEFINE s == AcceptSeen(ev.frame)
           e == AcceptExpiry(ev.frame, ev.ts)
           b == BlocksWith(ProcessRecords(ev))
<1>1. /\ LatestOK(latest) /\ watermark \in Ts /\ watermark < TsMax
      /\ confirmed \in Ts /\ Lag(watermark, confirmed)
      /\ MemoryOK(seen, expiry, confirmed) /\ PendingOK(blocks, confirmed)
  BY DEF ProcessFirst, HInv, EngineInv
<1>2. ev.sensor \in Sensors /\ ev.frame \in Frames /\ ev.ts \in EventTimes
  BY DEF Events
<1>3. confirmed <= ev.ts
  <2>1. ev.ts \in Int /\ watermark \in Int /\ confirmed \in Int
    BY <1>1, <1>2, EventTimesAssumption DEF Ts
  <2> QED BY <1>1, <2>1 DEF ProcessFirst, Late, Lag
<1>4. watermark' \in Ts /\ watermark' < TsMax /\ watermark' >= watermark
  BY <1>1, <1>2, ObserveFacts DEF ProcessFirst
<1>5. MemoryOK(s, e, confirmed)
  BY <1>1, <1>2, <1>3, AcceptFacts DEF ProcessFirst
<1>6. /\ PendingOK(b, confirmed)
      /\ b = blocks \/ \E r \in ProcessRecords(ev) : b = Ingest(r)
  BY <1>1, <1>3, BlocksWithFacts
<1>7. ConfirmIfDue(s, e, b) /\ stored' = Upsert(stored, out)
  BY DEF ProcessFirst, Record
<1> HIDE DEF s, e, b
<1>8. /\ confirmed' >= confirmed
      /\ blocks' = Beyond(b, confirmed')
      /\ out' = UpTo(b, confirmed')
  BY <1>1, <1>4, <1>5, <1>6, <1>7, ConfirmOutcome
<1>9. Ledger!CloseUpTo(b)
  BY <1>7, <1>8, ClosingStep
<1>10. CASE b = blocks
  BY <1>9, <1>10 DEF Ledger!LedgerNext
<1>11. ASSUME NEW r \in ProcessRecords(ev), b = Ingest(r)
       PROVE  Ledger!LedgerNext
  <2> DEFINE k == Key(r)
  <2>1. /\ k \in Keys /\ KeyEnd(k) > confirmed
        /\ DOMAIN b = DOMAIN blocks \cup {k}
        /\ \A x \in DOMAIN blocks \ {k} : b[x] = blocks[x]
    BY <1>1, <1>3, <1>11, IngestFacts
  <2> HIDE DEF k
  <2>2. b = [x \in DOMAIN blocks \cup {k} |-> IF x = k THEN b[k] ELSE blocks[x]]
    <3>1. b = [x \in DOMAIN b |-> b[x]]
      BY <1>6 DEF PendingOK
    <3> QED BY <2>1, <3>1
  <2>3. KeyEnd(k) \in Int /\ confirmed' \in Int
    BY <2>1, KeyEndType DEF HInv, EngineInv, Ts
  <2>4. \/ k \in DOMAIN blocks' /\ blocks'[k] = b[k]
        \/ k \in DOMAIN out' /\ out'[k] = b[k]
    BY <1>8, <2>1, <2>3 DEF Beyond, UpTo
  <2>5. k \in DOMAIN out' => k \in DOMAIN Upsert(stored', out')
                            /\ Upsert(stored', out')[k] = out'[k]
    BY DEF Upsert
  <2>6. b[k] \in {blocks'[x] : x \in DOMAIN blocks' \cap {k}}
               \cup {Upsert(stored', out')[x] : x \in DOMAIN Upsert(stored', out') \cap {k}}
    BY <2>4, <2>5
  <2>7. k \in DOMAIN blocks' \cup DOMAIN Upsert(stored', out')
    BY <2>4, <2>5
  <2>8. Ledger!CloseUpTo([x \in DOMAIN blocks \cup {k} |-> IF x = k THEN b[k] ELSE blocks[x]])
    BY <1>9, <2>2
  <2>9. Ledger!WriteAndClose(k)
    BY <2>1, <2>6, <2>8 DEF Ledger!WriteAndClose
  <2> QED
    BY <2>1, <2>7, <2>9 DEF Ledger!LedgerNext
<1> QED
  BY <1>6, <1>10, <1>11

\* A call that accepts nothing writes nothing: the ledger at most closes blocks.
LEMMA QuietStep ==
  ASSUME HInv, HInv', ~finished, watermark' \in Ts, watermark' < TsMax,
         watermark' >= watermark, ConfirmIfDue(seen, expiry, blocks), Record({})
  PROVE  Ledger!LedgerNext
<1> DEFINE s == seen
           e == expiry
           b == blocks
<1>1. /\ watermark \in Ts /\ confirmed \in Ts /\ Lag(watermark, confirmed)
      /\ MemoryOK(s, e, confirmed) /\ PendingOK(b, confirmed)
  BY DEF HInv, EngineInv
<1>2. ConfirmIfDue(s, e, b) /\ stored' = Upsert(stored, out) /\ b = blocks
  BY DEF Record
<1> HIDE DEF s, e, b
<1>3. /\ confirmed' >= confirmed
      /\ blocks' = Beyond(b, confirmed')
      /\ out' = UpTo(b, confirmed')
  BY <1>1, <1>2, ConfirmOutcome
<1>4. Ledger!CloseUpTo(b)
  BY <1>2, <1>3, ClosingStep
<1> QED
  BY <1>2, <1>4 DEF Ledger!LedgerNext

\* The end of the input closes every block that is still open.
LEMMA FinishStep ==
  ASSUME HInv, HInv', Finish, Record({})
  PROVE  Ledger!LedgerNext
<1> DEFINE b == blocks
<1>1. confirmed' = TsMax /\ confirmed \in Int /\ TsMax >= confirmed
  BY DEF Finish, HInv, EngineInv, Ts
<1>2. \A k \in DOMAIN b : KeyEnd(k) \in Int /\ KeyEnd(k) <= TsMax
  <2>1. \A k \in DOMAIN b : k \in Keys
    BY DEF HInv, EngineInv, WellFiled
  <2> QED BY <2>1, KeyEndType DEF Ts
<1>3. blocks' = Beyond(b, TsMax)
  <2>1. {k \in DOMAIN b : KeyEnd(k) > TsMax} = {}
    BY <1>2, TsRangeAssumption
  <2>2. Beyond(b, TsMax) = [k \in {} |-> b[k]]
    BY <2>1 DEF Beyond
  <2> QED BY <2>2 DEF Finish, NoRows
<1>4. out' = UpTo(b, TsMax)
  <2>1. Ended(b, TsMax) \cup DOMAIN Retained(b, TsMax) = DOMAIN b
    BY DEF Ended, Retained
  <2>2. {k \in DOMAIN b : KeyEnd(k) <= TsMax} = DOMAIN b
    BY <1>2
  <2> QED BY <2>1, <2>2 DEF Finish, UpTo
<1>5. stored' = Upsert(stored, out) /\ b = blocks
  BY DEF Record
<1> HIDE DEF b
<1>6. Ledger!CloseUpTo(b)
  BY <1>1, <1>3, <1>4, <1>5, ClosingStep
<1> QED
  BY <1>5, <1>6 DEF Ledger!LedgerNext

\* A late event, like a stutter of the engine, leaves the ledger alone.
LEMMA LateStep ==
  ASSUME HInv, NEW ev \in Events, DropLate(ev), Record({})
  PROVE  UNCHANGED <<confirmed, blocks, Upsert(stored, out)>>
<1>1. out' = NoRows /\ stored' = Upsert(stored, out) /\ UNCHANGED <<confirmed, blocks>>
  BY DEF DropLate, Record
<1>2. DOMAIN NoRows = {}
  BY DEF NoRows
<1>3. Upsert(stored', out') = [k \in DOMAIN stored' |-> stored'[k]]
  BY <1>1, <1>2 DEF Upsert
<1>4. stored' = [k \in DOMAIN stored' |-> stored'[k]]
  BY <1>1 DEF Upsert
<1> QED
  BY <1>1, <1>3, <1>4

\* Each step of the engine is a step of the ledger or leaves it alone.
LEMMA LedgerStep ==
  ASSUME HInv, HInv', [HNext]_vars
  PROVE  [Ledger!LedgerNext]_(Ledger!ledgerVars)
<1>1. ASSUME NEW ev \in Events, DropLate(ev), Record({})
      PROVE  UNCHANGED Ledger!ledgerVars
  BY <1>1, LateStep DEF Ledger!ledgerVars
<1>2. ASSUME NEW ev \in Events, ProcessFirst(ev), Record({<<ev.frame, ev.ts>>})
      PROVE  Ledger!LedgerNext
  BY <1>2, FirstStep
<1>3. ASSUME NEW ev \in Events, ProcessDuplicate(ev), Record({})
      PROVE  Ledger!LedgerNext
  <2>1. /\ ~finished /\ ConfirmIfDue(seen, expiry, blocks)
        /\ Observe(ev.sensor, ev.ts)
    BY <1>3 DEF ProcessDuplicate
  <2>2. ev.sensor \in Sensors /\ ev.ts \in EventTimes
    BY DEF Events
  <2>3. LatestOK(latest) /\ watermark \in Ts /\ watermark < TsMax
    BY <2>1 DEF HInv, EngineInv
  <2>4. watermark' \in Ts /\ watermark' < TsMax /\ watermark' >= watermark
    BY <2>1, <2>2, <2>3, ObserveFacts
  <2> QED
    BY <1>3, <2>1, <2>4, QuietStep
<1>4. ASSUME NEW now \in NowTimes, AdvanceWallclock(now), Record({})
      PROVE  Ledger!LedgerNext
  <2>1. ~finished /\ ConfirmIfDue(seen, expiry, blocks) /\ AdvanceTo(now)
    BY <1>4 DEF AdvanceWallclock
  <2>2. watermark \in Ts /\ watermark < TsMax /\ LatestOK(latest)
    BY <2>1 DEF HInv, EngineInv
  <2>3. watermark' \in Ts /\ watermark' < TsMax /\ watermark' >= watermark
    BY <2>1, <2>2, AdvanceToFacts
  <2> QED
    BY <1>4, <2>1, <2>3, QuietStep
<1>5. ASSUME Finish, Record({})
      PROVE  Ledger!LedgerNext
  BY <1>5, FinishStep
<1>6. CASE UNCHANGED vars
  BY <1>6 DEF vars, engineVars, historyVars, Ledger!ledgerVars, Upsert
<1>7. CASE HNext
  BY <1>7, <1>1, <1>2, <1>3, <1>4, <1>5 DEF HNext
<1> QED
  BY <1>6, <1>7

\* The engine implements the ledger: written blocks stay open until the
\* confirmed time reaches their end, are then returned with their last row, and
\* are neither returned again nor written after.
THEOREM ImplementsLedger == HSpec => LedgerSpec
<1>1. HInit => Ledger!LedgerInit
  <2> SUFFICES ASSUME HInit PROVE Ledger!LedgerInit
    OBVIOUS
  <2>1. confirmed = TsMin /\ blocks = [k \in {} |-> k] /\ stored = NoRows /\ out = NoRows
    BY DEF HInit, EngineInit, DownsamplerInit
  <2>2. DOMAIN NoRows = {}
    BY DEF NoRows
  <2>3. Upsert(stored, out) = [k \in {} |-> k]
    BY <2>1, <2>2 DEF Upsert
  <2> QED
    BY <2>1, <2>3 DEF Ledger!LedgerInit
<1>2. HInv /\ HInv' /\ [HNext]_vars => [Ledger!LedgerNext]_(Ledger!ledgerVars)
  BY LedgerStep
<1> QED
  BY <1>1, <1>2, Invariance, PTL DEF HSpec, LedgerSpec, Ledger!LedgerSpec

\* What was returned is final: no later call replaces the row or reopens its
\* block.
THEOREM Final == HSpec => ReturnedRowsFinal
<1> DEFINE closed == Upsert(stored, out)
<1>1. ASSUME HInv, HInv', Ledger!LedgerNext, NEW k \in DOMAIN closed
      PROVE  /\ k \in DOMAIN closed' /\ closed'[k] = closed[k]
             /\ k \notin DOMAIN blocks'
  <2>1. KeyEnd(k) <= confirmed /\ KeyEnd(k) \in Int
    BY <1>1, KeyEndType DEF HInv, HistoryInv, Upsert, Ts
  <2>2. confirmed \in Int /\ confirmed' \in Int
    BY <1>1 DEF HInv, EngineInv, Ts
  <2>3. ASSUME NEW o, Ledger!CloseUpTo(o)
        PROVE  /\ k \in DOMAIN closed' /\ closed'[k] = closed[k]
               /\ k \notin DOMAIN blocks'
    <3>1. /\ confirmed' >= confirmed
          /\ DOMAIN blocks' = {x \in DOMAIN o : KeyEnd(x) > confirmed'}
      BY <2>3 DEF Ledger!CloseUpTo
    <3>2. /\ k \in DOMAIN closed'
          /\ closed'[k] = closed[k]
      <4> HIDE DEF closed
      <4>1. closed' = [x \in DOMAIN closed \cup {y \in DOMAIN o : KeyEnd(y) <= confirmed'} |->
                         IF x \in DOMAIN closed THEN closed[x] ELSE o[x]]
        BY <2>3 DEF Ledger!CloseUpTo, closed
      <4> QED BY <1>1, <4>1
    <3> QED BY <2>1, <2>2, <3>1, <3>2
  <2> QED
    BY <1>1, <2>3 DEF Ledger!LedgerNext, Ledger!WriteAndClose
<1>2. HInv /\ HInv' /\ [HNext]_vars =>
        [\A k \in DOMAIN closed :
           /\ k \in DOMAIN closed' /\ closed'[k] = closed[k]
           /\ k \notin DOMAIN blocks']_(Ledger!ledgerVars)
  BY <1>1, LedgerStep
<1> QED
  BY <1>2, Invariance, PTL DEF HSpec, ReturnedRowsFinal, Ledger!ClosedIsFinal
=============================================================================
