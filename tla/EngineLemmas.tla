---------------------------- MODULE EngineLemmas ----------------------------
(***************************************************************************)
(* Facts about the engine's calls for every set of sensors, frames and     *)
(* event times and every setting of its parameters: what an observation, a *)
(* confirmation and an ingested record change, and the part of the         *)
(* engine's state that every call keeps sound.  The engine with its        *)
(* history and the recompute around it both build on them.                 *)
(***************************************************************************)
EXTENDS Engine, WellFoundedInduction, TLAPS

USE TsRangeAssumption, TimeoutAssumption, TtlAssumption, BlockAssumption

-----------------------------------------------------------------------------
(* Saturating arithmetic. *)

\* Clamp returns a time, and changes nothing but what is out of range.
LEMMA ClampFacts ==
  ASSUME NEW x \in Int
  PROVE  /\ Clamp(x) \in Ts
         /\ x \in Ts => Clamp(x) = x
         /\ x >= TsMin => Clamp(x) <= x
         /\ x <= TsMax => Clamp(x) >= x
  BY DEF Clamp, Ts

\* Clamp keeps the order of what it clamps.
LEMMA ClampMonotone ==
  ASSUME NEW x \in Int, NEW y \in Int, x <= y
  PROVE  Clamp(x) <= Clamp(y)
  BY DEF Clamp

\* Adding a positive duration to a time before the end is an advance, by no more
\* than the duration.
LEMMA SaturatingAddFacts ==
  ASSUME NEW t \in Ts, NEW d \in Nat
  PROVE  /\ SaturatingAdd(t, d) \in Ts
         /\ SaturatingAdd(t, d) <= t + d
         /\ t < TsMax /\ d > 0 => SaturatingAdd(t, d) > t
         /\ t + d <= TsMax => SaturatingAdd(t, d) = t + d
  BY DEF SaturatingAdd, Clamp, Ts

\* Division by the block width rounds down.
LEMMA DivFacts ==
  ASSUME NEW t \in Int, NEW b \in Int, b > 0
  PROVE  /\ t \div b \in Int
         /\ (t \div b) * b <= t
         /\ t < (t \div b + 1) * b
  OBVIOUS

\* A multiple of a positive number is at least as far from zero.
LEMMA TimesAtLeast ==
  ASSUME NEW q \in Int, NEW b \in Nat, b > 0
  PROVE  /\ q >= 0 => q * b >= q
         /\ q <= 0 => q * b <= q
<1>1. /\ q >= 0 => q * (b - 1) >= 0
      /\ q <= 0 => q * (b - 1) <= 0
  OBVIOUS
<1>2. q * b = q * (b - 1) + q
  OBVIOUS
<1> QED BY <1>1, <1>2

\* A block ends after every event time that falls in it: this is why an event
\* the watermark has not passed writes to a block that is still open.
LEMMA BlockEndAfter ==
  ASSUME NEW t \in EventTimes
  PROVE  /\ BlockId(t) \in Int
         /\ BlockEnd(BlockId(t)) \in Ts
         /\ BlockEnd(BlockId(t)) > t
         /\ BlockEnd(BlockId(t)) = (BlockId(t) + 1) * Block
<1> DEFINE q == t \div Block
           start == q * Block
           end == (q + 1) * Block
<1>1. t \in Int /\ TsMin <= t /\ t + Block < TsMax
  BY EventTimesAssumption DEF Ts
<1>2. q \in Int /\ start \in Int /\ end \in Int /\ start <= t /\ t < end
  BY <1>1, DivFacts
<1>3. end = start + Block
  BY <1>2
<1>4. q >= 0 => start >= q
  BY <1>2, TimesAtLeast
<1>5. q + 1 <= 0 => end <= q + 1
  BY <1>2, TimesAtLeast
<1>6. BlockEnd(q) = Clamp(SaturatingAdd(q, 1) * Block)
  BY DEF BlockEnd
<1>7. BlockId(t) = q
  BY DEF BlockId
<1> HIDE DEF q, start, end
<1>8. q + 1 \in Ts
  BY <1>1, <1>2, <1>3, <1>4, <1>5 DEF Ts
<1>9. SaturatingAdd(q, 1) * Block = end
  BY <1>2, <1>8, ClampFacts DEF SaturatingAdd, end
<1>10. end \in Ts
  BY <1>1, <1>2, <1>3 DEF Ts
<1>11. BlockEnd(q) = end
  <2>1. BlockEnd(q) = Clamp(end)
    BY <1>6, <1>9
  <2>2. Clamp(end) = end
    BY <1>2, <1>10, ClampFacts
  <2> QED BY <2>1, <2>2
<1>12. BlockEnd(q) = (q + 1) * Block
  BY <1>11 DEF end
<1> QED
  BY <1>2, <1>6, <1>7, <1>9, <1>10, <1>12, ClampFacts
-----------------------------------------------------------------------------
(* The largest and the smallest of a set of times. *)

LtNat == {ss \in Nat \X Nat : ss[1] < ss[2]}

\* A nonempty set of natural numbers has a least element.
LEMMA LeastNat ==
  ASSUME NEW S \in SUBSET Nat, S # {}
  PROVE  \E n \in S : \A m \in S : n <= m
<1>1. IsWellFoundedOn(LtNat, Nat)
  BY NatLessThanWellFounded DEF OpToRel, LtNat
<1>2. PICK n \in S : \A m \in S : <<m, n>> \notin LtNat
  BY <1>1, WFMin
<1>3. ASSUME NEW m \in S PROVE n <= m
  <2>1. m \in Nat /\ n \in Nat /\ <<m, n>> \notin LtNat
    BY <1>2
  <2>2. ~(m < n)
    BY <2>1 DEF LtNat
  <2> QED BY <2>1, <2>2
<1> QED BY <1>3

\* A nonempty set of times has a latest and an earliest element.
LEMMA TimeExtrema ==
  ASSUME NEW S \in SUBSET Ts, S # {}
  PROVE  /\ Max(S) \in S /\ \A x \in S : x <= Max(S)
         /\ Min(S) \in S /\ \A x \in S : Min(S) <= x
<1> DEFINE below == {n \in Nat : TsMax - n \in S}
           above == {n \in Nat : TsMin + n \in S}
<1> PICK t \in S : TRUE
  OBVIOUS
<1>1. TsMax - t \in Nat /\ t - TsMin \in Nat
  BY DEF Ts
<1>2. TsMax - (TsMax - t) = t /\ TsMin + (t - TsMin) = t
  BY <1>1 DEF Ts
<1>3. below # {} /\ above # {}
  BY <1>1, <1>2
<1>4. PICK n \in below : \A m \in below : n <= m
  BY <1>3, LeastNat
<1>5. PICK k \in above : \A m \in above : k <= m
  BY <1>3, LeastNat
<1>6. \A x \in S : x \in Int /\ TsMax - x \in below /\ x - TsMin \in above
  <2> TAKE x \in S
  <2>1. x \in Int /\ TsMin <= x /\ x <= TsMax
    BY DEF Ts
  <2>2. TsMax - (TsMax - x) = x /\ TsMin + (x - TsMin) = x
    BY <2>1
  <2> QED BY <2>1, <2>2
<1>7. \E x \in S : \A y \in S : x >= y
  <2>1. TsMax - n \in S /\ n \in Nat
    BY <1>4
  <2>2. \A y \in S : TsMax - n >= y
    BY <1>4, <1>6, <2>1
  <2> QED BY <2>1, <2>2
<1>8. \E x \in S : \A y \in S : x =< y
  <2>1. TsMin + k \in S /\ k \in Nat
    BY <1>5
  <2>2. ASSUME NEW y \in S PROVE TsMin + k =< y
    <3>1. k <= y - TsMin /\ y \in Int
      BY <1>5, <1>6
    <3> QED BY <2>1, <3>1
  <2> QED BY <2>1, <2>2
<1>9. Max(S) \in S /\ \A y \in S : Max(S) >= y
  BY <1>7 DEF Max
<1>10. Min(S) \in S /\ \A y \in S : Min(S) =< y
  BY <1>8 DEF Min
<1> QED
  BY <1>6, <1>9, <1>10

\* The quantum is a positive width.
LEMMA QuantumFacts ==
  /\ ConfirmQuantum \in Nat
  /\ ConfirmQuantum > 0
<1>1. \A S \in SUBSET Nat : S # {} => Min(S) \in S
  <2> SUFFICES ASSUME NEW S \in SUBSET Nat, S # {} PROVE Min(S) \in S
    OBVIOUS
  <2>1. \E n \in S : \A m \in S : n =< m
    BY LeastNat
  <2> QED BY <2>1 DEF Min
<1> DEFINE m == Min({Block, Ttl})
<1>2. m \in Nat
  BY <1>1
<1> HIDE DEF m
<1>3. \E x \in {m, 1} : \A y \in {m, 1} : x >= y
  BY <1>2
<1>4. Max({m, 1}) \in {m, 1} /\ Max({m, 1}) >= 1
  BY <1>3 DEF Max
<1> QED
  BY <1>2, <1>4 DEF ConfirmQuantum, m
-----------------------------------------------------------------------------
(* The aggregator. *)

LatestOK(l) ==
  /\ DOMAIN l \subseteq Sensors
  /\ \A s \in DOMAIN l : l[s] \in EventTimes

\* Once a sensor has been heard, the frontier is some sensor's latest time, and
\* the candidate is the earliest of the active sensors' latest times.
LEMMA CandidateFacts ==
  ASSUME NEW l, LatestOK(l), DOMAIN l # {}
  PROVE  /\ Frontier(l) \in Range(l)
         /\ Cutoff(l) \in Ts
         /\ Cutoff(l) = Clamp(Frontier(l) - Timeout)
         /\ Min(ActiveTimes(l)) \in EventTimes
         /\ \A s \in DOMAIN l : l[s] <= Frontier(l)
         /\ \A s \in DOMAIN l : l[s] >= Cutoff(l) => Min(ActiveTimes(l)) <= l[s]
<1>1. /\ Range(l) \subseteq EventTimes
      /\ Range(l) \subseteq Ts
      /\ Range(l) # {}
      /\ \A s \in DOMAIN l : l[s] \in Range(l)
  BY EventTimesAssumption DEF Range, LatestOK
<1>2. Frontier(l) \in Range(l) /\ \A x \in Range(l) : x <= Frontier(l)
  BY <1>1, TimeExtrema DEF Frontier
<1>3. Frontier(l) \in Int /\ Frontier(l) >= TsMin
  BY <1>1, <1>2 DEF Ts
<1>4. /\ Cutoff(l) \in Ts
      /\ Cutoff(l) <= Frontier(l)
      /\ Cutoff(l) = Clamp(Frontier(l) - Timeout)
  <2>1. Cutoff(l) = Clamp(Frontier(l) - Timeout)
    BY DEF Cutoff, SaturatingSub
  <2>2. Frontier(l) - Timeout \in Int /\ Frontier(l) - Timeout <= Frontier(l)
    BY <1>3
  <2>3. Frontier(l) \in Ts
    BY <1>1, <1>2
  <2> QED
    BY <1>3, <2>1, <2>2, <2>3 DEF Clamp, Ts
<1>5. ActiveTimes(l) \in SUBSET Ts /\ ActiveTimes(l) # {}
  BY <1>1, <1>2, <1>4 DEF ActiveTimes
<1>6. /\ Min(ActiveTimes(l)) \in ActiveTimes(l)
      /\ \A x \in ActiveTimes(l) : Min(ActiveTimes(l)) <= x
  BY <1>5, TimeExtrema
<1>7. \A s \in DOMAIN l : l[s] >= Cutoff(l) => l[s] \in ActiveTimes(l)
  BY <1>1 DEF ActiveTimes
<1> QED
  BY <1>1, <1>2, <1>4, <1>6, <1>7 DEF ActiveTimes

\* An observation keeps the latest times and moves the watermark, if at all,
\* forward to a time some sensor has reached.
LEMMA ObserveFacts ==
  ASSUME NEW s \in Sensors, NEW ts \in EventTimes,
         LatestOK(latest), watermark \in Ts, watermark < TsMax,
         Observe(s, ts)
  PROVE  /\ LatestOK(latest')
         /\ DOMAIN latest' = DOMAIN latest \cup {s}
         /\ \A x \in DOMAIN latest : x # s => latest'[x] = latest[x]
         /\ \A x \in DOMAIN latest : latest[x] <= latest'[x]
         /\ latest'[s] >= ts
         /\ watermark' \in Ts
         /\ watermark' < TsMax
         /\ watermark' >= watermark
         /\ watermark' = watermark \/ watermark' = Min(ActiveTimes(latest'))
<1>1. \A t \in EventTimes : t \in Int /\ TsMin <= t /\ t < TsMax
  BY EventTimesAssumption DEF Ts
<1>2. /\ LatestOK(latest')
      /\ DOMAIN latest' = DOMAIN latest \cup {s}
      /\ \A x \in DOMAIN latest : x # s => latest'[x] = latest[x]
      /\ \A x \in DOMAIN latest : latest[x] <= latest'[x]
      /\ latest'[s] >= ts
  BY <1>1 DEF Observe, ObserveLatest, LatestOK
<1>3. Min(ActiveTimes(latest')) \in EventTimes
  BY <1>2, CandidateFacts
<1>4. watermark' = Advanced(Min(ActiveTimes(latest')))
  BY DEF Observe
<1>5. /\ watermark' \in Ts
      /\ watermark' < TsMax
      /\ watermark' >= watermark
      /\ watermark' = watermark \/ watermark' = Min(ActiveTimes(latest'))
  BY <1>1, <1>3, <1>4 DEF Advanced, Ts
<1> QED
  BY <1>2, <1>5

\* A wall clock tick moves the watermark forward, if at all.
LEMMA AdvanceToFacts ==
  ASSUME NEW now \in NowTimes, watermark \in Ts, watermark < TsMax, AdvanceTo(now)
  PROVE  /\ watermark' \in Ts
         /\ watermark' < TsMax
         /\ watermark' >= watermark
         /\ latest' = latest
  BY EventTimesAssumption DEF AdvanceTo, Advanced, SaturatingSub, Clamp, Ts
-----------------------------------------------------------------------------
(* The confirmation step. *)

\* Dedup memory s, e with nothing left to purge at time c.
MemoryOK(s, e, c) ==
  /\ s \subseteq Frames
  /\ e \subseteq Ts \X Frames
  /\ s = {x[2] : x \in e}
  /\ \A x, y \in e : x[2] = y[2] => x = y
  /\ \A x \in e : Unexpired(x, c)

\* Pending blocks b with nothing left to flush at time c.
PendingOK(b, c) ==
  /\ WellFiled(b)
  /\ b = [k \in DOMAIN b |-> b[k]]
  /\ \A k \in DOMAIN b : KeyEnd(k) > c

\* The rows of b whose blocks end after time c, and the others.
Beyond(b, c) == [k \in {x \in DOMAIN b : KeyEnd(x) > c} |-> b[k]]
UpTo(b, c) == [k \in {x \in DOMAIN b : KeyEnd(x) <= c} |-> b[k]]

\* How far the confirmed time is behind the watermark: less than a quantum.
Lag(wm, c) == c <= wm /\ wm < SaturatingAdd(c, ConfirmQuantum)

\* The end of any block is a timestamp: it saturates.
LEMMA KeyEndType ==
  ASSUME NEW k \in Keys
  PROVE  KeyEnd(k) \in Ts
<1>1. k[2] \in Int
  BY DEF Keys
<1>2. SaturatingAdd(k[2], 1) \in Int
  BY <1>1, ClampFacts DEF SaturatingAdd, Ts
<1>3. SaturatingAdd(k[2], 1) * Block \in Int
  BY <1>2
<1> QED
  BY <1>3, ClampFacts DEF KeyEnd, BlockEnd

\* A purge at wm takes out exactly the entries that expire by wm.
LEMMA PurgeFacts ==
  ASSUME NEW s, NEW e, NEW c, MemoryOK(s, e, c), NEW wm \in Ts, wm < TsMax
  PROVE  /\ PurgeExpiry(e, wm) \subseteq e
         /\ \A x \in e \ PurgeExpiry(e, wm) : x[1] <= wm
         /\ MemoryOK(PurgeSeen(s, e, wm), PurgeExpiry(e, wm), wm)
<1>1. SaturatingAdd(wm, 1) = wm + 1 /\ wm \in Int
  BY DEF SaturatingAdd, Clamp, Ts
<1>2. \A x \in e : x[1] \in Int
  BY DEF MemoryOK, Ts
<1>3. Expired(e, wm) = {x \in e : x[1] <= wm}
  BY <1>1, <1>2 DEF Expired
<1>4. PurgeExpiry(e, wm) = {x \in e : x[1] > wm}
  BY <1>1, <1>2, <1>3 DEF PurgeExpiry
<1>5. PurgeSeen(s, e, wm) = {x[2] : x \in PurgeExpiry(e, wm)}
  <2>1. PurgeSeen(s, e, wm) = s \ {x[2] : x \in Expired(e, wm)}
    BY DEF PurgeSeen
  <2>2. PurgeExpiry(e, wm) = e \ Expired(e, wm)
    BY DEF PurgeExpiry
  <2>3. Expired(e, wm) \subseteq e
    BY DEF Expired
  <2> QED
    BY <2>1, <2>2, <2>3 DEF MemoryOK
<1>6. PurgeExpiry(e, wm) \subseteq e /\ PurgeSeen(s, e, wm) \subseteq s
  BY DEF PurgeExpiry, PurgeSeen
<1> QED
  BY <1>1, <1>2, <1>4, <1>5, <1>6 DEF MemoryOK, Unexpired

\* Whether or not the confirmation is due, it leaves the entries and blocks
\* that are beyond the confirmed time and returns the blocks that are not.
LEMMA ConfirmOutcome ==
  ASSUME NEW s, NEW e, NEW b,
         confirmed \in Ts, watermark \in Ts, Lag(watermark, confirmed),
         watermark' \in Ts, watermark' < TsMax, watermark' >= watermark,
         MemoryOK(s, e, confirmed), PendingOK(b, confirmed),
         ConfirmIfDue(s, e, b)
  PROVE  /\ confirmed' \in Ts
         /\ confirmed' >= confirmed
         /\ Lag(watermark', confirmed')
         /\ expiry' \subseteq e
         /\ \A x \in e \ expiry' : x[1] <= confirmed'
         /\ MemoryOK(seen', expiry', confirmed')
         /\ blocks' = Beyond(b, confirmed')
         /\ out' = UpTo(b, confirmed')
<1>1. /\ confirmed \in Int /\ watermark \in Int /\ watermark' \in Int
      /\ TsMin <= confirmed /\ confirmed <= watermark
      /\ watermark < SaturatingAdd(confirmed, ConfirmQuantum)
  BY DEF Ts, Lag
<1>2. \A k \in DOMAIN b : KeyEnd(k) \in Int
  BY KeyEndType DEF PendingOK, WellFiled, Ts
<1>3. CASE watermark' > watermark /\ ConfirmDue(watermark')
  <2>1. /\ confirmed' = watermark'
        /\ seen' = PurgeSeen(s, e, watermark')
        /\ expiry' = PurgeExpiry(e, watermark')
        /\ blocks' = Retained(b, watermark')
        /\ out' = Flushed(b, watermark')
    BY <1>3 DEF ConfirmIfDue, Confirm
  <2>2. Lag(watermark', confirmed')
    <3>1. watermark' < SaturatingAdd(watermark', ConfirmQuantum)
      BY QuantumFacts, SaturatingAddFacts
    <3> QED BY <2>1, <3>1, <1>1 DEF Lag
  <2>3. /\ expiry' \subseteq e
        /\ \A x \in e \ expiry' : x[1] <= confirmed'
        /\ MemoryOK(seen', expiry', confirmed')
    BY <2>1, PurgeFacts
  <2>4. Ended(b, watermark') = {x \in DOMAIN b : KeyEnd(x) <= confirmed'}
    BY <2>1 DEF Ended
  <2>5. DOMAIN b \ Ended(b, watermark') = {x \in DOMAIN b : KeyEnd(x) > confirmed'}
    BY <2>4, <2>1, <1>1, <1>2
  <2>6. /\ blocks' = [k \in {x \in DOMAIN b : KeyEnd(x) > confirmed'} |-> b[k]]
        /\ out' = [k \in {x \in DOMAIN b : KeyEnd(x) <= confirmed'} |-> b[k]]
    BY <2>1, <2>4, <2>5 DEF Retained, Flushed
  <2> QED
    BY <1>1, <2>1, <2>2, <2>3, <2>6 DEF Beyond, UpTo
<1>4. CASE ~(watermark' > watermark /\ ConfirmDue(watermark'))
  <2>1. /\ confirmed' = confirmed
        /\ seen' = s
        /\ expiry' = e
        /\ blocks' = b
        /\ out' = NoRows
    BY <1>4 DEF ConfirmIfDue, Defer
  <2>2. Lag(watermark', confirmed')
    <3>1. CASE watermark' = watermark
      BY <3>1, <2>1
    <3>2. CASE ~ConfirmDue(watermark')
      <4>1. SaturatingAdd(confirmed, ConfirmQuantum) \in Int
        BY <1>1, QuantumFacts, ClampFacts DEF SaturatingAdd, Ts
      <4> QED BY <3>2, <2>1, <1>1, <4>1 DEF Lag, ConfirmDue
    <3> QED BY <1>4, <1>1, <3>1, <3>2
  <2>3. expiry' \subseteq e /\ e \ expiry' = {}
    BY <2>1
  <2>4. DOMAIN b = {x \in DOMAIN b : KeyEnd(x) > confirmed'}
    BY <2>1 DEF PendingOK
  <2>5. {x \in DOMAIN b : KeyEnd(x) <= confirmed'} = {}
    BY <2>1, <1>1, <1>2 DEF PendingOK
  <2>6. b = [k \in DOMAIN b |-> b[k]]
    BY DEF PendingOK
  <2>7. out' = [k \in {x \in DOMAIN b : KeyEnd(x) <= confirmed'} |-> b[k]]
    BY <2>1, <2>5 DEF NoRows
  <2> QED
    BY <1>1, <2>1, <2>2, <2>3, <2>4, <2>6, <2>7 DEF Beyond, UpTo
<1> QED
  BY <1>3, <1>4
-----------------------------------------------------------------------------
(* What a call makes of the dedup memory and the blocks before it confirms. *)

\* A first copy adds one entry, and the memory is as sound as before.
LEMMA AcceptFacts ==
  ASSUME NEW f \in Frames, NEW ts \in EventTimes, Accepts(f),
         confirmed \in Ts, confirmed <= ts, MemoryOK(seen, expiry, confirmed)
  PROVE  /\ AcceptExpiry(f, ts) = expiry \cup {<<ts + Ttl, f>>}
         /\ MemoryOK(AcceptSeen(f), AcceptExpiry(f, ts), confirmed)
<1>1. ts \in Ts /\ ts \in Int /\ confirmed \in Int /\ ts + Ttl < TsMax
  BY EventTimesAssumption DEF Ts
<1>2. SaturatingAdd(ts, Ttl) = ts + Ttl /\ ts + Ttl \in Ts
  <2>1. ts + Ttl \in Ts /\ ts + Ttl <= TsMax
    BY <1>1 DEF Ts
  <2> QED BY <1>1, <2>1, SaturatingAddFacts
<1>3. AcceptExpiry(f, ts) = expiry \cup {<<ts + Ttl, f>>}
  BY <1>2 DEF AcceptExpiry
<1>4. \A x \in expiry : x[2] # f
  BY DEF MemoryOK, Accepts
<1>5. Unexpired(<<ts + Ttl, f>>, confirmed)
  BY <1>1 DEF Unexpired
<1> QED
  BY <1>2, <1>3, <1>4, <1>5 DEF MemoryOK, AcceptSeen

\* An event's record carries the event's time and a known aircraft.
LEMMA RecordFacts ==
  ASSUME NEW ev \in Events, NEW r \in ProcessRecords(ev)
  PROVE  /\ r.ts = ev.ts
         /\ r.mode_s_code \in Icaos
         /\ Rounded(r).ts = BlockId(ev.ts) * Block
         /\ Rounded(r).mode_s_code = r.mode_s_code
<1> DEFINE d == DecodeFrame(ev.frame)
<1>1. d.kind \notin DecodeRejects /\ r \in PositionRecords(aircraft[d.icao], d, ev.ts)
  BY DEF ProcessRecords
<1>2. d.icao \in Icaos
  BY <1>1, AddressAssumption DEF Events
<1> DEFINE st == aircraft[d.icao]
<1>3. PICK loc \in Locations(st, d, ev.ts) : r = PositionRecord(st, d, ev.ts, loc)
  BY <1>1 DEF PositionRecords
<1> HIDE DEF d, st
<1>4. /\ r.ts = ev.ts
      /\ r.mode_s_code = d.icao
      /\ Rounded(r).ts = BlockId(ev.ts) * Block
      /\ Rounded(r).mode_s_code = r.mode_s_code
  BY <1>3 DEF PositionRecord, Rounded
<1> QED
  BY <1>2, <1>4

\* There is at most one of them.
LEMMA OneRecord ==
  ASSUME NEW ev, NEW r \in ProcessRecords(ev), NEW q \in ProcessRecords(ev)
  PROVE  r = q
<1> DEFINE d == DecodeFrame(ev.frame)
           st == aircraft[d.icao]
<1>1. /\ r \in PositionRecords(st, d, ev.ts) /\ q \in PositionRecords(st, d, ev.ts)
  BY DEF ProcessRecords
<1> HIDE DEF d, st
<1>2. \A x, y \in Locations(st, d, ev.ts) : x = y
  BY DEF Locations, GlobalAirborne, LocalSurface
<1> QED BY <1>1, <1>2 DEF PositionRecords

\* An ingested record goes to a block that ends after the event.
LEMMA IngestFacts ==
  ASSUME NEW ev \in Events, NEW r \in ProcessRecords(ev),
         confirmed \in Ts, confirmed <= ev.ts, PendingOK(blocks, confirmed)
  PROVE  /\ Key(r) \in Keys
         /\ KeyEnd(Key(r)) > confirmed
         /\ DOMAIN Ingest(r) = DOMAIN blocks \cup {Key(r)}
         /\ \A k \in DOMAIN blocks \ {Key(r)} : Ingest(r)[k] = blocks[k]
         /\ Ingest(r)[Key(r)] = Rounded(r)
         /\ PendingOK(Ingest(r), confirmed)
<1>1. ev.ts \in EventTimes /\ ev.ts \in Int /\ confirmed \in Int
  BY EventTimesAssumption DEF Events, Ts
<1>2. Key(r) = <<r.mode_s_code, BlockId(ev.ts)>>
  BY RecordFacts DEF Key
<1>3. BlockId(ev.ts) \in Int /\ BlockEnd(BlockId(ev.ts)) > ev.ts
      /\ BlockEnd(BlockId(ev.ts)) \in Int
  BY <1>1, BlockEndAfter DEF Ts
<1>4. Key(r) \in Keys
  BY <1>2, <1>3, RecordFacts DEF Keys
<1>5. KeyEnd(Key(r)) > confirmed
  BY <1>1, <1>2, <1>3 DEF KeyEnd
<1>6. Ingest(r) = [k \in DOMAIN blocks \cup {Key(r)} |->
                     IF k = Key(r) THEN Rounded(r) ELSE blocks[k]]
  BY DEF Ingest
<1>7. /\ DOMAIN Ingest(r) = DOMAIN blocks \cup {Key(r)}
      /\ \A k \in DOMAIN blocks \ {Key(r)} : Ingest(r)[k] = blocks[k]
      /\ Ingest(r)[Key(r)] = Rounded(r)
      /\ Ingest(r) = [k \in DOMAIN Ingest(r) |-> Ingest(r)[k]]
  BY <1>6
<1>8. /\ Ingest(r)[Key(r)].mode_s_code = Key(r)[1]
      /\ Ingest(r)[Key(r)].ts = Key(r)[2] * Block
  BY <1>2, <1>7, RecordFacts
<1>9. WellFiled(Ingest(r))
  BY <1>4, <1>7, <1>8 DEF WellFiled, PendingOK
<1> QED
  BY <1>4, <1>5, <1>7, <1>9 DEF PendingOK

\* So the blocks stay sound whether or not the event produced a record.
LEMMA BlocksWithFacts ==
  ASSUME NEW ev \in Events,
         confirmed \in Ts, confirmed <= ev.ts, PendingOK(blocks, confirmed)
  PROVE  /\ PendingOK(BlocksWith(ProcessRecords(ev)), confirmed)
         /\ \/ BlocksWith(ProcessRecords(ev)) = blocks
            \/ \E r \in ProcessRecords(ev) :
                 BlocksWith(ProcessRecords(ev)) = Ingest(r)
<1>1. CASE ProcessRecords(ev) = {}
  BY <1>1 DEF BlocksWith
<1>2. CASE ProcessRecords(ev) # {}
  <2> DEFINE r == CHOOSE x \in ProcessRecords(ev) : TRUE
  <2>1. r \in ProcessRecords(ev)
    BY <1>2
  <2>2. BlocksWith(ProcessRecords(ev)) = Ingest(r)
    BY <1>2 DEF BlocksWith
  <2> HIDE DEF r
  <2> QED
    BY <2>1, <2>2, IngestFacts
<1> QED
  BY <1>1, <1>2
-----------------------------------------------------------------------------
(* The invariant of the engine's own state, call by call. *)

\* What holds of the engine's own state.
EngineInv ==
  /\ LatestOK(latest)
  /\ watermark \in Ts
  /\ watermark < TsMax
  /\ confirmed \in Ts
  /\ finished \in BOOLEAN
  /\ DOMAIN aircraft = Icaos
  /\ seen \subseteq Frames
  /\ expiry \subseteq Ts \X Frames
  /\ WellFiled(blocks)
  /\ WellFiled(out)
  /\ ~finished => /\ Lag(watermark, confirmed)
                  /\ MemoryOK(seen, expiry, confirmed)
                  /\ PendingOK(blocks, confirmed)

\* An engine that has not been called.
UncalledEngine ==
  /\ latest = [s \in {} |-> TsMin] /\ watermark = TsMin
  /\ seen = {} /\ expiry = {} /\ blocks = NoRows /\ out = NoRows
  /\ confirmed = TsMin /\ finished = FALSE /\ counted = "none"
  /\ DOMAIN aircraft = Icaos

LEMMA EngineInitFresh == EngineInit => UncalledEngine
  BY DEF EngineInit, AggInit, DedupInit, DownsamplerInit, NoRows, Restored, UncalledEngine

LEMMA UncalledEngineInv == UncalledEngine => EngineInv
<1> SUFFICES ASSUME UncalledEngine PROVE EngineInv
  OBVIOUS
<1>1. TsMin \in Ts /\ TsMin \in Int /\ TsMin < TsMax
  BY DEF Ts
<1>2. DOMAIN aircraft = Icaos
  BY DEF UncalledEngine
<1>3. /\ latest = [s \in {} |-> TsMin] /\ watermark = TsMin
      /\ seen = {} /\ expiry = {} /\ blocks = NoRows /\ out = NoRows
      /\ confirmed = TsMin /\ finished = FALSE
  BY DEF UncalledEngine
<1>4. DOMAIN NoRows = {} /\ NoRows = [k \in DOMAIN NoRows |-> NoRows[k]]
  BY DEF NoRows
<1>5. Lag(watermark, confirmed)
  BY <1>1, <1>3, QuantumFacts, SaturatingAddFacts DEF Lag
<1>6. LatestOK(latest)
  BY <1>3 DEF LatestOK
<1>7. WellFiled(NoRows) /\ PendingOK(blocks, confirmed)
  BY <1>3, <1>4 DEF WellFiled, PendingOK
<1>8. MemoryOK(seen, expiry, confirmed)
  BY <1>3 DEF MemoryOK
<1> QED BY <1>1, <1>2, <1>3, <1>5, <1>6, <1>7, <1>8 DEF EngineInv

LEMMA EngineInitInv == EngineInit => EngineInv
  BY EngineInitFresh, UncalledEngineInv

\* The common part of the calls that may confirm: s, e and b are the memory and
\* the blocks before the confirmation.
LEMMA ConfirmingCall ==
  ASSUME EngineInv, ~finished, NEW s, NEW e, NEW b,
         LatestOK(latest'), watermark' \in Ts, watermark' < TsMax,
         watermark' >= watermark, DOMAIN aircraft' = Icaos,
         finished' = finished, ConfirmIfDue(s, e, b),
         MemoryOK(s, e, confirmed), PendingOK(b, confirmed)
  PROVE  /\ EngineInv'
         /\ confirmed' \in Ts /\ confirmed' >= confirmed
         /\ expiry' \subseteq e
         /\ \A x \in e \ expiry' : x[1] <= confirmed'
         /\ blocks' = Beyond(b, confirmed')
         /\ out' = UpTo(b, confirmed')
<1>1. /\ confirmed \in Ts /\ watermark \in Ts
      /\ Lag(watermark, confirmed)
  BY DEF EngineInv
<1>2. /\ confirmed' \in Ts
      /\ confirmed' >= confirmed
      /\ Lag(watermark', confirmed')
      /\ expiry' \subseteq e
      /\ \A x \in e \ expiry' : x[1] <= confirmed'
      /\ MemoryOK(seen', expiry', confirmed')
      /\ blocks' = Beyond(b, confirmed')
      /\ out' = UpTo(b, confirmed')
  BY <1>1, ConfirmOutcome
<1>3. PendingOK(blocks', confirmed') /\ WellFiled(blocks') /\ WellFiled(out')
  BY <1>2 DEF PendingOK, WellFiled, Beyond, UpTo
<1>4. EngineInv'
  BY <1>2, <1>3 DEF EngineInv, MemoryOK
<1> QED BY <1>2, <1>4

\* What a first copy meets: a memory and blocks it may be added to.
LEMMA FirstCall ==
  ASSUME EngineInv, NEW ev \in Events, ProcessFirst(ev)
  PROVE  /\ ~finished /\ finished' = finished
         /\ confirmed <= ev.ts /\ Observe(ev.sensor, ev.ts)
         /\ LatestOK(latest') /\ watermark' \in Ts /\ watermark' < TsMax
         /\ watermark' >= watermark
         /\ DOMAIN aircraft' = Icaos
         /\ ConfirmIfDue(AcceptSeen(ev.frame), AcceptExpiry(ev.frame, ev.ts),
                         BlocksWith(ProcessRecords(ev)))
         /\ MemoryOK(AcceptSeen(ev.frame), AcceptExpiry(ev.frame, ev.ts), confirmed)
         /\ AcceptExpiry(ev.frame, ev.ts) = expiry \cup {<<ev.ts + Ttl, ev.frame>>}
         /\ PendingOK(BlocksWith(ProcessRecords(ev)), confirmed)
<1>1. ev.sensor \in Sensors /\ ev.frame \in Frames /\ ev.ts \in EventTimes
  BY DEF Events
<1>2. ev.ts \in Int /\ watermark \in Int /\ confirmed \in Int
  BY <1>1, EventTimesAssumption DEF EngineInv, Ts
<1>3. /\ ~finished /\ finished' = finished /\ Accepts(ev.frame)
      /\ Observe(ev.sensor, ev.ts)
      /\ ConfirmIfDue(AcceptSeen(ev.frame), AcceptExpiry(ev.frame, ev.ts),
                      BlocksWith(ProcessRecords(ev)))
      /\ aircraft' = ProcessAircraft(ev)
      /\ ev.ts >= watermark
  BY <1>2 DEF ProcessFirst, Late
<1>4. /\ LatestOK(latest) /\ watermark \in Ts /\ watermark < TsMax
      /\ confirmed \in Ts /\ confirmed <= watermark
      /\ MemoryOK(seen, expiry, confirmed)
      /\ PendingOK(blocks, confirmed)
      /\ DOMAIN aircraft = Icaos
  BY <1>3 DEF EngineInv, Lag
<1>5. confirmed <= ev.ts
  BY <1>2, <1>3, <1>4
<1>6. /\ LatestOK(latest') /\ watermark' \in Ts /\ watermark' < TsMax
      /\ watermark' >= watermark
  BY <1>1, <1>3, <1>4, ObserveFacts
<1>7. DOMAIN aircraft' = Icaos
  BY <1>3, <1>4 DEF ProcessAircraft
<1>8. /\ MemoryOK(AcceptSeen(ev.frame), AcceptExpiry(ev.frame, ev.ts), confirmed)
      /\ AcceptExpiry(ev.frame, ev.ts) = expiry \cup {<<ev.ts + Ttl, ev.frame>>}
  BY <1>1, <1>3, <1>4, <1>5, AcceptFacts
<1>9. PendingOK(BlocksWith(ProcessRecords(ev)), confirmed)
  BY <1>4, <1>5, BlocksWithFacts
<1> QED BY <1>3, <1>5, <1>6, <1>7, <1>8, <1>9

\* A further copy is observed, and leaves memory and blocks to the confirmation.
LEMMA DuplicateCall ==
  ASSUME EngineInv, NEW ev \in Events, ProcessDuplicate(ev)
  PROVE  /\ ~finished /\ finished' = finished /\ aircraft' = aircraft
         /\ Observe(ev.sensor, ev.ts)
         /\ LatestOK(latest') /\ watermark' \in Ts /\ watermark' < TsMax
         /\ watermark' >= watermark
         /\ ConfirmIfDue(seen, expiry, blocks)
<1>1. /\ ~finished /\ finished' = finished /\ aircraft' = aircraft
      /\ Observe(ev.sensor, ev.ts) /\ ConfirmIfDue(seen, expiry, blocks)
  BY DEF ProcessDuplicate
<1>2. ev.sensor \in Sensors /\ ev.ts \in EventTimes
  BY DEF Events
<1>3. LatestOK(latest) /\ watermark \in Ts /\ watermark < TsMax
  BY DEF EngineInv
<1> QED BY <1>1, <1>2, <1>3, ObserveFacts

\* The end of the input returns every pending block.
LEMMA FinishCall ==
  ASSUME EngineInv, Finish
  PROVE  /\ EngineInv'
         /\ ~finished /\ finished' = TRUE /\ confirmed' = TsMax
         /\ blocks' = NoRows
         /\ out' = [k \in DOMAIN blocks |-> blocks[k]]
         /\ UNCHANGED <<latest, watermark, aircraft>>
<1>1. /\ finished' = TRUE /\ ~finished /\ confirmed' = TsMax
      /\ seen' = PurgeSeen(seen, expiry, TsMax)
      /\ expiry' = PurgeExpiry(expiry, TsMax)
      /\ blocks' = NoRows
      /\ UNCHANGED <<latest, watermark, aircraft>>
  BY DEF Finish
<1>2. out' = [k \in DOMAIN blocks |-> blocks[k]]
  <2>1. Ended(blocks, TsMax) \cup DOMAIN Retained(blocks, TsMax) = DOMAIN blocks
    BY DEF Ended, Retained
  <2> QED BY <2>1 DEF Finish
<1>3. WellFiled(blocks') /\ WellFiled(out')
  BY <1>1, <1>2 DEF EngineInv, WellFiled, NoRows
<1>4. seen' \subseteq seen /\ expiry' \subseteq expiry
  BY <1>1 DEF PurgeSeen, PurgeExpiry
<1>5. TsMax \in Ts
  BY DEF Ts
<1>6. EngineInv'
  BY <1>1, <1>3, <1>4, <1>5 DEF EngineInv
<1> QED BY <1>1, <1>2, <1>6
=============================================================================
