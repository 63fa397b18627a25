--------------------------- MODULE AircraftProofs ---------------------------
(***************************************************************************)
(* Theorems about the aircraft state manager for every threshold, pairing  *)
(* window, set of frames and restored identities.                          *)
(***************************************************************************)
EXTENDS AircraftHistory, SequenceTheorems, TLAPS

USE TsRangeAssumption, AircraftAssumption, HistoryAssumption

-----------------------------------------------------------------------------
(* The inductive invariant, in parts. *)

HeardRecords == [icao : Icaos, ts : EventTimes, pos : Positions]

\* An identity against the observations of it: the candidate is the value
\* observed last and counts how often in a row; without a candidate that value
\* is the confirmed one, or nothing has been observed.
IdentityInv(d, s, f) ==
  /\ d = [confirmed |-> d.confirmed, candidate |-> d.candidate]
  /\ s = [value |-> s.value, length |-> s.length]
  /\ s.length \in 0 .. Strikes
  /\ s.length = 0 => s.value = None
  /\ d.candidate = None => s.length = 0 \/ d.confirmed = s.value
  /\ d.candidate # None =>
       /\ d.candidate.value = s.value /\ d.candidate.count = s.length
       /\ s.length \in 1 .. Strikes - 1
       /\ f = "squawk" => s.value \notin EmergencySquawks

\* The messages of an aircraft and a parity, by their place in heard.
HeardOf(a, parity) ==
  {i \in 1 .. Len(heard) : heard[i].icao = a /\ heard[i].pos.parity = parity}

\* A cached message is the last of those heard.
CacheInv(cached, places) ==
  /\ cached = None => places = {}
  /\ cached # None =>
       \E i \in places : /\ \A j \in places : j <= i
                         /\ cached.ts = heard[i].ts /\ cached.pos = heard[i].pos

StateShape(st) ==
  st = [even |-> st.even, odd |-> st.odd, call_sign |-> st.call_sign,
        squawk |-> st.squawk, alt |-> st.alt]

ManagerInv ==
  /\ feed \in Feeds
  /\ heard \in Seq(HeardRecords)
  /\ DOMAIN aircraft = Icaos /\ DOMAIN streak = Icaos \X Fields
  /\ \A a \in Icaos :
       /\ StateShape(aircraft[a])
       /\ IdentityInv(aircraft[a].call_sign, streak[<<a, "call_sign">>], "call_sign")
       /\ IdentityInv(aircraft[a].squawk, streak[<<a, "squawk">>], "squawk")
       /\ CacheInv(aircraft[a].even, HeardOf(a, "Even"))
       /\ CacheInv(aircraft[a].odd, HeardOf(a, "Odd"))
  /\ PairedWithLatest

-----------------------------------------------------------------------------
(* The debounced identities. *)

\* The threshold is at least one, whatever is configured.
LEMMA StrikesType == Strikes \in Nat \ {0}
  BY DEF Strikes

LEMMA ExtendedFacts ==
  ASSUME NEW s, NEW v, s = [value |-> s.value, length |-> s.length],
         s.length \in 0 .. Strikes
  PROVE  LET e == Extended(s, v)
         IN  /\ e = [value |-> v, length |-> e.length]
             /\ e.length \in 1 .. Strikes
             /\ e.length = IF s.value # v THEN 1
                           ELSE IF s.length < Strikes THEN s.length + 1 ELSE Strikes
<1>1. CASE s.value # v
  BY <1>1, StrikesType DEF Extended
<1>2. CASE s.value = v
  <2> DEFINE n == Min({s.length + 1, Strikes})
  <2>1. n = IF s.length < Strikes THEN s.length + 1 ELSE Strikes
    <3> DEFINE S == {s.length + 1, Strikes}
               m == IF s.length < Strikes THEN s.length + 1 ELSE Strikes
    <3>1. m \in S /\ \A y \in S : m <= y
      BY StrikesType
    <3>2. \A x \in S : (\A y \in S : x <= y) => x = m
      BY StrikesType
    <3> QED BY <3>1, <3>2 DEF Min
  <2>2. Extended(s, v) = [s EXCEPT !.length = n]
    BY <1>2 DEF Extended
  <2> HIDE DEF n
  <2>3. Extended(s, v) = [value |-> v, length |-> n]
    BY <1>2, <2>2
  <2> QED BY <1>2, <2>1, <2>3, StrikesType
<1> QED BY <1>1, <1>2

\* An observation keeps an identity true to its observations, and confirms a
\* value only when it is the one observed often enough.
LEMMA ObserveFacts ==
  ASSUME NEW d, NEW s, NEW f \in Fields, IdentityInv(d, s, f),
         NEW v \in Values(f), f = "squawk" => v \notin EmergencySquawks
  PROVE  LET o == DebounceObserve(d, v)
             e == Extended(s, v)
         IN  /\ IdentityInv(o, e, f)
             /\ o.confirmed # d.confirmed =>
                  o.confirmed = v /\ e.value = v /\ e.length >= Strikes
<1> DEFINE o == DebounceObserve(d, v)
           e == Extended(s, v)
           c == StrikeCount(d, v)
<1>1. /\ e = [value |-> v, length |-> e.length] /\ e.length \in 1 .. Strikes
      /\ e.length = IF s.value # v THEN 1
                    ELSE IF s.length < Strikes THEN s.length + 1 ELSE Strikes
  BY ExtendedFacts DEF IdentityInv
<1>2. v # None /\ Strikes \in Nat \ {0}
  BY StrikesType
<1>3. CASE d.confirmed = v
  <2>1. o = [confirmed |-> v, candidate |-> None]
    BY <1>3 DEF DebounceObserve, IdentityInv
  <2> QED BY <1>1, <1>2, <1>3, <2>1 DEF IdentityInv
<1>4. CASE d.confirmed # v
  <2>1. c = e.length \/ (c = s.length + 1 /\ s.length < Strikes /\ c = e.length)
    BY <1>1, <1>2, <1>4 DEF StrikeCount, IdentityInv
  <2>2. CASE Enough(c)
    <3>1. o = [confirmed |-> v, candidate |-> None]
      BY <1>4, <2>2 DEF DebounceObserve
    <3> QED BY <1>1, <1>2, <2>1, <2>2, <3>1 DEF IdentityInv, Enough
  <2>3. CASE ~Enough(c)
    <3>1. o = [confirmed |-> d.confirmed, candidate |-> [value |-> v, count |-> c]]
      BY <1>4, <2>3 DEF DebounceObserve, IdentityInv
    <3>2. c \in 1 .. Strikes - 1
      BY <1>1, <1>2, <2>1, <2>3 DEF Enough
    <3>3. [value |-> v, count |-> c] # None
      <4>1. [value |-> v, count |-> c] \in [value : Values(f), count : 1 .. Strikes]
        BY <1>2, <3>2
      <4> QED BY <4>1
    <3> QED BY <1>1, <1>2, <2>1, <3>1, <3>2, <3>3 DEF IdentityInv
  <2> QED BY <2>2, <2>3
<1> QED BY <1>3, <1>4

\* An emergency squawk is confirmed, and is the value observed last.
LEMMA ForceFacts ==
  ASSUME NEW d, NEW s, NEW f \in Fields, IdentityInv(d, s, f),
         NEW v \in Values(f)
  PROVE  LET e == Extended(s, v)
         IN  /\ IdentityInv(DebounceForce(v), e, f)
             /\ DebounceForce(v).confirmed = v /\ e.value = v
<1> DEFINE e == Extended(s, v)
<1>1. e = [value |-> v, length |-> e.length] /\ e.length \in 1 .. Strikes
  BY ExtendedFacts DEF IdentityInv
<1>2. Strikes \in Nat \ {0}
  BY StrikesType
<1> QED BY <1>1, <1>2 DEF IdentityInv, DebounceForce

-----------------------------------------------------------------------------
(* One message. *)

\* A squawk is an emergency exactly if its value says so.
LEMMA EmergencyFacts ==
  ASSUME NEW f, DecodeFrame(f).kind = "Squawk"
  PROVE  DecodeFrame(f).emergency <=> DecodeFrame(f).value \in EmergencySquawks
  BY DEF DecodeFrame, DecodeMe, ClassifyError

\* What is cached of a position message.
Entry(ts, pos) == [ts |-> ts, pos |-> pos]

\* A message changes one field of the aircraft's state at the most.
LEMMA UpdatedFacts ==
  ASSUME NEW st, StateShape(st), NEW d, NEW ts, NEW u, u = Updated(st, d, ts)
  PROVE  /\ StateShape(u)
         /\ d.kind = "Callsign" => u.call_sign = DebounceObserve(st.call_sign, d.value)
         /\ d.kind # "Callsign" => u.call_sign = st.call_sign
         /\ d.kind = "Squawk" /\ d.emergency => u.squawk = DebounceForce(d.value)
         /\ d.kind = "Squawk" /\ ~d.emergency =>
              u.squawk = DebounceObserve(st.squawk, d.value)
         /\ d.kind # "Squawk" => u.squawk = st.squawk
         /\ d.kind = "Airborne" /\ d.pos.parity = "Even" => u.even = Entry(ts, d.pos)
         /\ d.kind # "Airborne" \/ d.pos.parity # "Even" => u.even = st.even
         /\ d.kind = "Airborne" /\ d.pos.parity = "Odd" => u.odd = Entry(ts, d.pos)
         /\ d.kind # "Airborne" \/ d.pos.parity # "Odd" => u.odd = st.odd
<1>1. CASE d.kind = "Callsign"
  BY <1>1 DEF Updated, StateShape
<1>2. CASE d.kind = "Squawk"
  BY <1>2 DEF Updated, StateShape
<1>3. CASE d.kind = "BaroAltitude"
  BY <1>3 DEF Updated, StateShape
<1>4. CASE d.kind = "Airborne"
  BY <1>4 DEF Updated, StateShape, Entry
<1>5. CASE d.kind \notin {"Callsign", "Squawk", "BaroAltitude", "Airborne"}
  BY <1>5 DEF Updated, StateShape
<1> QED BY <1>1, <1>2, <1>3, <1>4, <1>5

\* What a step that decodes a frame to d does to the state of one aircraft.
LEMMA ProcessFacts ==
  ASSUME ManagerInv, NEW f \in UNION Feeds, NEW t \in EventTimes,
         Process([frame |-> f, ts |-> t]), NEW a \in Icaos,
         NEW d, d = DecodeFrame(f)
  PROVE  /\ d.kind \in DecodeRejects \/ d.icao # a => aircraft'[a] = aircraft[a]
         /\ d.kind \notin DecodeRejects /\ d.icao = a =>
              aircraft'[a] = Updated(aircraft[a], d, t)
         /\ DOMAIN aircraft' = Icaos
  BY DEF Process, ProcessAircraft, ManagerInv

LEMMA StreakFacts ==
  ASSUME ManagerInv, NEW f \in UNION Feeds, NEW t \in EventTimes,
         Process([frame |-> f, ts |-> t]), NEW a \in Icaos, NEW g \in Fields,
         NEW d, d = DecodeFrame(f)
  PROVE  /\ DOMAIN streak' = Icaos \X Fields
         /\ d.kind \notin DecodeRejects /\ d.icao = a /\ Observes(d, g) =>
              streak'[<<a, g>>] = Extended(streak[<<a, g>>], d.value)
         /\ d.kind \in DecodeRejects \/ d.icao # a \/ ~Observes(d, g) =>
              streak'[<<a, g>>] = streak[<<a, g>>]
<1>1. CASE d.kind \in DecodeRejects
  BY <1>1 DEF Process, ManagerInv
<1>2. CASE d.kind \notin DecodeRejects
  <2>1. streak' = [x \in Icaos \X Fields |->
                     IF d.icao = x[1] /\ Observes(d, x[2])
                     THEN Extended(streak[x], d.value) ELSE streak[x]]
    BY <1>2 DEF Process, RecordHistory, ManagerInv
  <2>2. <<a, g>> \in Icaos \X Fields /\ <<a, g>>[1] = a /\ <<a, g>>[2] = g
    OBVIOUS
  <2> QED BY <1>2, <2>1, <2>2
<1> QED BY <1>1, <1>2

\* The identities of an aircraft stay true to what has been observed, and change
\* only as the observations allow.
LEMMA IdentityStep ==
  ASSUME ManagerInv, NEW f \in UNION Feeds, NEW t \in EventTimes,
         Process([frame |-> f, ts |-> t]), NEW a \in Icaos, NEW g \in Fields
  PROVE  LET c == aircraft[a][g]
             n == aircraft'[a][g]
             s == streak'[<<a, g>>]
         IN  /\ IdentityInv(n, s, g)
             /\ n.confirmed # c.confirmed =>
                  /\ n.confirmed = s.value
                  /\ \/ s.length >= Strikes
                     \/ g = "squawk" /\ s.value \in EmergencySquawks
<1>1. PICK d : d = DecodeFrame(f)
  OBVIOUS
<1>2. PICK st : st = aircraft[a]
  OBVIOUS
<1>3. PICK u : u = aircraft'[a]
  OBVIOUS
<1>4. PICK s : s = streak[<<a, g>>]
  OBVIOUS
<1>5. IdentityInv(st[g], s, g) /\ StateShape(st) /\ g \in {"call_sign", "squawk"}
  BY <1>2, <1>4 DEF ManagerInv, Fields
<1>6. CASE d.kind \in DecodeRejects \/ d.icao # a \/ ~Observes(d, g)
  <2>1. streak'[<<a, g>>] = s
    BY <1>1, <1>4, <1>6, StreakFacts
  <2>2. u[g] = st[g]
    <3>1. CASE d.kind \in DecodeRejects \/ d.icao # a
      BY <1>1, <1>2, <1>3, <3>1, ProcessFacts
    <3>2. CASE d.kind \notin DecodeRejects /\ d.icao = a
      <4>1. u = Updated(st, d, t)
        BY <1>1, <1>2, <1>3, <3>2, ProcessFacts
      <4>2. /\ d.kind # "Callsign" => u.call_sign = st.call_sign
            /\ d.kind # "Squawk" => u.squawk = st.squawk
        BY <1>5, <4>1, UpdatedFacts
      <4> QED BY <1>5, <1>6, <3>2, <4>2 DEF Observes
    <3> QED BY <3>1, <3>2
  <2> QED BY <1>2, <1>3, <1>5, <2>1, <2>2
<1>7. CASE d.kind \notin DecodeRejects /\ d.icao = a /\ Observes(d, g)
  <2>1. d.value \in Values(g)
    BY <1>1, <1>7 DEF Values, FramesOf, Observes
  <2>2. streak'[<<a, g>>] = Extended(s, d.value)
    BY <1>1, <1>4, <1>7, StreakFacts
  <2>3. u = Updated(st, d, t)
    BY <1>1, <1>2, <1>3, <1>7, ProcessFacts
  <2>4. CASE g = "squawk" /\ d.emergency
    <3>1. d.kind = "Squawk" /\ d.value \in EmergencySquawks
      BY <1>1, <1>7, <2>4, EmergencyFacts DEF Observes
    <3>2. u[g] = DebounceForce(d.value)
      BY <1>5, <2>3, <2>4, <3>1, UpdatedFacts
    <3> QED BY <1>2, <1>3, <1>5, <2>1, <2>2, <2>4, <3>1, <3>2, ForceFacts
  <2>5. CASE ~(g = "squawk" /\ d.emergency)
    <3>1. u[g] = DebounceObserve(st[g], d.value)
      <4>1. CASE g = "squawk"
        <5>1. d.kind = "Squawk" /\ ~d.emergency
          BY <1>7, <2>5, <4>1 DEF Observes
        <5> QED BY <1>5, <2>3, <4>1, <5>1, UpdatedFacts
      <4>2. CASE g = "call_sign"
        <5>1. d.kind = "Callsign"
          BY <1>7, <4>2 DEF Observes
        <5> QED BY <1>5, <2>3, <4>2, <5>1, UpdatedFacts
      <4> QED BY <1>5, <4>1, <4>2
    <3>2. g = "squawk" => d.value \notin EmergencySquawks
      BY <1>1, <1>7, <2>5, EmergencyFacts DEF Observes
    <3> QED BY <1>2, <1>3, <1>5, <2>1, <2>2, <3>1, <3>2, ObserveFacts DEF Fields
  <2> QED BY <2>4, <2>5
<1> QED BY <1>6, <1>7

-----------------------------------------------------------------------------
(* The cached position messages. *)

HeardRecord(icao, ts, pos) == [icao |-> icao, ts |-> ts, pos |-> pos]

\* A position message is appended to what has been heard; no other message is.
LEMMA HeardFacts ==
  ASSUME ManagerInv, NEW f \in UNION Feeds, NEW t \in EventTimes,
         Process([frame |-> f, ts |-> t]), NEW d, d = DecodeFrame(f)
  PROVE  /\ d.kind # "Airborne" => heard' = heard
         /\ d.kind = "Airborne" =>
              /\ d.icao \in Icaos /\ d.pos \in Positions /\ d.pos.parity \in {"Even", "Odd"}
              /\ HeardRecord(d.icao, t, d.pos) \in HeardRecords
              /\ heard' = Append(heard, HeardRecord(d.icao, t, d.pos))
         /\ heard' \in Seq(HeardRecords)
<1>1. CASE d.kind # "Airborne"
  BY <1>1 DEF Process, RecordHistory, ManagerInv
<1>2. CASE d.kind = "Airborne"
  <2>1. d.kind \notin DecodeRejects
    BY <1>2 DEF DecodeRejects
  <2>2. d.icao \in Icaos /\ d.pos \in Positions
    BY <1>2, <2>1 DEF Positions, FramesOf
  <2>3. HeardRecord(d.icao, t, d.pos) \in HeardRecords
    BY <2>2 DEF HeardRecord, HeardRecords
  <2>4. heard' = Append(heard, HeardRecord(d.icao, t, d.pos))
    BY <1>2, <2>1 DEF Process, RecordHistory, HeardRecord
  <2> QED BY <1>2, <2>2, <2>3, <2>4, AppendProperties DEF ManagerInv
<1> QED BY <1>1, <1>2

\* Hearing a message of another aircraft or parity leaves an entry current.
LEMMA CacheKept ==
  ASSUME heard \in Seq(HeardRecords), NEW h \in HeardRecords, heard' = Append(heard, h),
         NEW a, NEW p, h.icao # a \/ h.pos.parity # p,
         NEW c, CacheInv(c, HeardOf(a, p))
  PROVE  CacheInv(c, HeardOf(a, p))'
<1>1. /\ Len(heard) \in Nat /\ Len(heard') = Len(heard) + 1 /\ heard'[Len(heard) + 1] = h
      /\ \A i \in 1 .. Len(heard) : heard'[i] = heard[i]
  BY AppendProperties, LenProperties
<1>2. HeardOf(a, p)' = HeardOf(a, p)
  BY <1>1 DEF HeardOf
<1>3. HeardOf(a, p) \subseteq 1 .. Len(heard)
  BY DEF HeardOf
<1> QED BY <1>1, <1>2, <1>3 DEF CacheInv

\* The entry of the message just heard is current.
LEMMA CacheSet ==
  ASSUME heard \in Seq(HeardRecords), NEW h \in HeardRecords, heard' = Append(heard, h),
         NEW c, c = Entry(h.ts, h.pos)
  PROVE  CacheInv(c, HeardOf(h.icao, h.pos.parity))'
<1> DEFINE n == Len(heard) + 1
           S == HeardOf(h.icao, h.pos.parity)'
<1>1. Len(heard) \in Nat /\ Len(heard') = n /\ heard'[n] = h
  BY AppendProperties, LenProperties
<1>2. n \in S /\ \A j \in S : j <= n
  BY <1>1 DEF HeardOf
<1>3. c.ts = heard'[n].ts /\ c.pos = heard'[n].pos
  BY <1>1 DEF Entry
<1>4. c # None
  <2>1. h.ts \in EventTimes /\ h.pos \in Positions
    BY DEF HeardRecords
  <2>2. c \in [ts : EventTimes, pos : Positions]
    BY <2>1 DEF Entry
  <2> QED BY <2>2
<1> HIDE DEF n, S
<1>5. \E i \in S : (\A j \in S : j <= i) /\ c.ts = heard'[i].ts /\ c.pos = heard'[i].pos
  BY <1>2, <1>3
<1> QED BY <1>4, <1>5 DEF CacheInv, S

\* After a step both entries of an aircraft are the last messages heard.
LEMMA CacheStep ==
  ASSUME ManagerInv, NEW f \in UNION Feeds, NEW t \in EventTimes,
         Process([frame |-> f, ts |-> t]), NEW a \in Icaos
  PROVE  /\ CacheInv(aircraft[a].even, HeardOf(a, "Even"))'
         /\ CacheInv(aircraft[a].odd, HeardOf(a, "Odd"))'
<1>1. PICK d : d = DecodeFrame(f)
  OBVIOUS
<1>2. PICK st : st = aircraft[a]
  OBVIOUS
<1>3. PICK u : u = aircraft'[a]
  OBVIOUS
<1>4. /\ StateShape(st) /\ heard \in Seq(HeardRecords)
      /\ CacheInv(st.even, HeardOf(a, "Even")) /\ CacheInv(st.odd, HeardOf(a, "Odd"))
  BY <1>2 DEF ManagerInv
<1>5. \/ u = st /\ (d.kind \in DecodeRejects \/ d.icao # a)
      \/ u = Updated(st, d, t) /\ d.icao = a
  BY <1>1, <1>2, <1>3, ProcessFacts
<1>6. SUFFICES /\ CacheInv(u.even, HeardOf(a, "Even"))'
               /\ CacheInv(u.odd, HeardOf(a, "Odd"))'
  BY <1>3 DEF CacheInv
<1>7. CASE d.kind # "Airborne"
  <2>1. u.even = st.even /\ u.odd = st.odd
    BY <1>4, <1>5, <1>7, UpdatedFacts
  <2>2. heard' = heard
    BY <1>1, <1>7, HeardFacts
  <2> QED BY <1>4, <2>1, <2>2 DEF CacheInv, HeardOf
<1>8. CASE d.kind = "Airborne"
  <2>1. PICK h \in HeardRecords : h = HeardRecord(d.icao, t, d.pos) /\ heard' = Append(heard, h)
    BY <1>1, <1>8, HeardFacts
  <2>2. h.icao = d.icao /\ h.ts = t /\ h.pos = d.pos /\ h.pos.parity \in {"Even", "Odd"}
    BY <1>1, <1>8, <2>1, HeardFacts DEF HeardRecord
  <2>3. CASE d.icao # a
    <3>1. u = st
      BY <1>5, <2>3
    <3> QED BY <1>4, <2>1, <2>2, <2>3, <3>1, CacheKept
  <2>4. CASE d.icao = a /\ d.pos.parity = "Even"
    <3>1. u = Updated(st, d, t)
      BY <1>5, <1>8, <2>4 DEF DecodeRejects
    <3>2. u.even = Entry(h.ts, h.pos) /\ u.odd = st.odd
      BY <1>4, <1>8, <2>2, <2>4, <3>1, UpdatedFacts
    <3>3. CacheInv(u.even, HeardOf(h.icao, h.pos.parity))'
      BY <1>4, <2>1, <3>2, CacheSet
    <3>4. CacheInv(u.odd, HeardOf(a, "Odd"))'
      BY <1>4, <2>1, <2>2, <2>4, <3>2, CacheKept
    <3> QED BY <2>2, <2>4, <3>3, <3>4
  <2>5. CASE d.icao = a /\ d.pos.parity = "Odd"
    <3>1. u = Updated(st, d, t)
      BY <1>5, <1>8, <2>5 DEF DecodeRejects
    <3>2. u.odd = Entry(h.ts, h.pos) /\ u.even = st.even
      BY <1>4, <1>8, <2>2, <2>5, <3>1, UpdatedFacts
    <3>3. CacheInv(u.odd, HeardOf(h.icao, h.pos.parity))'
      BY <1>4, <2>1, <3>2, CacheSet
    <3>4. CacheInv(u.even, HeardOf(a, "Even"))'
      BY <1>4, <2>1, <2>2, <2>5, <3>2, CacheKept
    <3> QED BY <2>2, <2>5, <3>3, <3>4
  <2> QED BY <2>2, <2>3, <2>4, <2>5
<1> QED BY <1>7, <1>8

-----------------------------------------------------------------------------
(* The records a message produces. *)

\* A time within the saturating distance is within the real one.
LEMMA PairsWithin ==
  ASSUME NEW t \in EventTimes, NEW u \in EventTimes, AbsDelta(t, u) <= PairWindow
  PROVE  t - u <= PairWindow /\ u - t <= PairWindow
<1>1. t \in Int /\ u \in Int
  BY DEF Ts
<1> QED BY <1>1 DEF AbsDelta, Clamp

\* The largest of a set with a largest element.
LEMMA MaxIs ==
  ASSUME NEW S \in SUBSET Int, NEW m \in S, \A j \in S : j <= m
  PROVE  Max(S) = m
<1>1. m \in S /\ \A y \in S : m >= y
  OBVIOUS
<1>2. \A x \in S : (\A y \in S : x >= y) => x = m
  OBVIOUS
<1> QED BY <1>1, <1>2 DEF Max

HeardOfOther(a, parity) ==
  {i \in 1 .. Len(heard) : heard[i].icao = a /\ heard[i].pos.parity # parity}

\* An airborne message is located with the entry of the other parity, which is
\* the last such message heard.
LEMMA AirbornePair ==
  ASSUME ManagerInv, NEW t \in EventTimes, NEW a \in Icaos,
         NEW d, d.kind = "Airborne", d.icao = a, d.pos.parity \in {"Even", "Odd"},
         NEW loc \in Locations(aircraft[a], d, t),
         NEW others, others = HeardOfOther(a, d.pos.parity)
  PROVE  /\ others # {} /\ Max(others) \in 1 .. Len(heard)
         /\ loc = <<heard[Max(others)].pos.cpr, d.pos.cpr>>
         /\ heard[Max(others)].ts - t <= PairWindow
         /\ t - heard[Max(others)].ts <= PairWindow
<1> DEFINE p == IF d.pos.parity = "Even" THEN "Odd" ELSE "Even"
           c == IF d.pos.parity = "Even" THEN aircraft[a].odd ELSE aircraft[a].even
<1>1. Pairs(c, t) /\ loc \in GlobalAirborne(c.pos, d.pos)
  BY DEF Locations
<1>2. CacheInv(c, HeardOf(a, p))
  BY DEF ManagerInv
<1>3. \A i \in 1 .. Len(heard) : heard[i] \in HeardRecords
  BY ElementOfSeq DEF ManagerInv
<1>4. others = HeardOf(a, p)
  <2>1. \A i \in 1 .. Len(heard) : heard[i].pos.parity \in {"Even", "Odd"}
    BY <1>3 DEF HeardRecords
  <2> QED BY <2>1 DEF HeardOf, HeardOfOther
<1> HIDE DEF c, p
<1>5. PICK i \in others : /\ \A j \in others : j <= i
                          /\ c.ts = heard[i].ts /\ c.pos = heard[i].pos
  BY <1>1, <1>2, <1>4 DEF Pairs, CacheInv
<1>6. others \subseteq Int /\ i \in 1 .. Len(heard)
  BY DEF HeardOfOther
<1>7. Max(others) = i
  BY <1>5, <1>6, MaxIs
<1>8. heard[i].ts \in EventTimes /\ AbsDelta(t, heard[i].ts) <= PairWindow
  BY <1>1, <1>3, <1>5, <1>6 DEF Pairs, HeardRecords
<1>9. loc = <<heard[i].pos.cpr, d.pos.cpr>>
  BY <1>1, <1>5 DEF GlobalAirborne
<1>10. heard[i].ts - t <= PairWindow /\ t - heard[i].ts <= PairWindow
  BY <1>8, PairsWithin
<1>11. others # {}
  BY <1>5
<1> QED BY <1>6, <1>7, <1>9, <1>10, <1>11

LEMMA PairedStep ==
  ASSUME ManagerInv, NEW f \in UNION Feeds, NEW t \in EventTimes,
         Process([frame |-> f, ts |-> t])
  PROVE  PairedWithLatest'
<1>1. PICK d : d = DecodeFrame(f)
  OBVIOUS
<1>2. SUFFICES ASSUME NEW r \in records', r.location[1] # SurfaceRef
               PROVE  LET n == Len(heard')
                          g == heard'[n]
                          others == {i \in 1 .. n - 1 : heard'[i].icao = g.icao
                                               /\ heard'[i].pos.parity # g.pos.parity}
                      IN  /\ others # {}
                          /\ LET h == heard'[Max(others)]
                             IN  /\ r.location = <<h.pos.cpr, g.pos.cpr>>
                                 /\ h.ts - g.ts <= PairWindow
                                 /\ g.ts - h.ts <= PairWindow
                          /\ r.ts = g.ts /\ r.mode_s_code = g.icao
  BY DEF PairedWithLatest
<1>3. d.kind \notin DecodeRejects /\ r \in PositionRecords(aircraft[d.icao], d, t)
  BY <1>1 DEF Process, ProcessRecords
<1>4. /\ r.location \in Locations(aircraft[d.icao], d, t)
      /\ r.ts = t /\ r.mode_s_code = d.icao
  <2>1. \A x \in PositionRecords(aircraft[d.icao], d, t) :
          /\ x.location \in Locations(aircraft[d.icao], d, t)
          /\ x.ts = t /\ x.mode_s_code = d.icao
    <3>1. \A loc : /\ PositionRecord(aircraft[d.icao], d, t, loc).location = loc
                   /\ PositionRecord(aircraft[d.icao], d, t, loc).ts = t
                   /\ PositionRecord(aircraft[d.icao], d, t, loc).mode_s_code = d.icao
      BY DEF PositionRecord
    <3> QED BY <3>1 DEF PositionRecords
  <2> QED BY <1>3, <2>1
<1>5. d.kind = "Airborne"
  <2>1. d.kind # "Surface"
    <3> SUFFICES ASSUME d.kind = "Surface" PROVE FALSE
      OBVIOUS
    <3>1. r.location \in LocalSurface(d.pos, SurfaceRef)
      BY <1>4 DEF Locations
    <3> QED BY <1>2, <3>1 DEF LocalSurface
  <2> QED BY <1>4, <2>1 DEF Locations
<1>6. /\ d.icao \in Icaos /\ d.pos.parity \in {"Even", "Odd"}
      /\ HeardRecord(d.icao, t, d.pos) \in HeardRecords
      /\ heard' = Append(heard, HeardRecord(d.icao, t, d.pos))
  BY <1>1, <1>5, HeardFacts
<1> DEFINE n == Len(heard')
           g == heard'[n]
           others == {i \in 1 .. n - 1 : heard'[i].icao = g.icao
                                           /\ heard'[i].pos.parity # g.pos.parity}
<1>7. /\ Len(heard) \in Nat /\ n = Len(heard) + 1 /\ g = HeardRecord(d.icao, t, d.pos)
      /\ \A i \in 1 .. Len(heard) : heard'[i] = heard[i]
  BY <1>6, AppendProperties, LenProperties DEF ManagerInv
<1>8. g.icao = d.icao /\ g.ts = t /\ g.pos = d.pos
  BY <1>7 DEF HeardRecord
<1>9. PICK before : before = HeardOfOther(d.icao, d.pos.parity)
  OBVIOUS
<1>10. others = before
  <2>1. n - 1 = Len(heard)
    BY <1>7
  <2>2. others = {i \in 1 .. Len(heard) : heard'[i].icao = d.icao
                                           /\ heard'[i].pos.parity # d.pos.parity}
    BY <1>8, <2>1
  <2> QED BY <1>7, <1>9, <2>2 DEF HeardOfOther
<1>11. /\ before # {} /\ Max(before) \in 1 .. Len(heard)
       /\ r.location = <<heard[Max(before)].pos.cpr, d.pos.cpr>>
       /\ heard[Max(before)].ts - t <= PairWindow /\ t - heard[Max(before)].ts <= PairWindow
  BY <1>4, <1>5, <1>6, <1>9, AirbornePair
<1> HIDE DEF n, g, others
<1>12. heard'[Max(before)] = heard[Max(before)]
  BY <1>7, <1>11
<1> QED BY <1>4, <1>8, <1>10, <1>11, <1>12 DEF n, g, others

-----------------------------------------------------------------------------
(* The theorems. *)

\* A restored identity is confirmed, and nothing has been observed of it.
LEMMA RestoredFacts ==
  ASSUME NEW rows, NEW a \in Icaos, NEW st, st = Restored(rows)[a]
  PROVE  /\ StateShape(st) /\ st.even = None /\ st.odd = None
         /\ \A g \in Fields : IdentityInv(st[g], NoStreak, g)
<1>1. \/ st = DefaultState
      \/ \E r : st = [DefaultState EXCEPT !.call_sign.confirmed = r.call_sign,
                                          !.squawk.confirmed = r.squawk]
  BY DEF Restored
<1>2. 0 \in 0 .. Strikes
  BY StrikesType
<1>3. CASE st = DefaultState
  BY <1>2, <1>3 DEF DefaultState, NoDebounced, StateShape, IdentityInv, NoStreak, Fields
<1>4. ASSUME NEW r, st = [DefaultState EXCEPT !.call_sign.confirmed = r.call_sign,
                                              !.squawk.confirmed = r.squawk]
      PROVE  /\ StateShape(st) /\ st.even = None /\ st.odd = None
             /\ \A g \in Fields : IdentityInv(st[g], NoStreak, g)
  <2> DEFINE D(v) == [confirmed |-> v, candidate |-> None]
  <2>1. st = [even |-> None, odd |-> None, call_sign |-> D(r.call_sign),
              squawk |-> D(r.squawk), alt |-> None]
    BY <1>4 DEF DefaultState, NoDebounced
  <2>2. st.call_sign = D(r.call_sign) /\ st.squawk = D(r.squawk)
    BY <2>1
  <2>3. \A v, g : IdentityInv(D(v), NoStreak, g)
    BY <1>2 DEF IdentityInv, NoStreak
  <2>4. StateShape(st) /\ st.even = None /\ st.odd = None
    BY <2>1 DEF StateShape
  <2> HIDE DEF D
  <2> QED BY <2>2, <2>3, <2>4 DEF Fields
<1> QED BY <1>1, <1>3, <1>4

LEMMA ManagerInvInit == ManagerInit => ManagerInv
<1> SUFFICES ASSUME ManagerInit PROVE ManagerInv
  OBVIOUS
<1>1. heard = <<>> /\ heard \in Seq(HeardRecords) /\ Len(heard) = 0
  BY EmptySeq DEF ManagerInit
<1>2. DOMAIN aircraft = Icaos /\ DOMAIN streak = Icaos \X Fields
  BY DEF ManagerInit, Restored
<1>3. ASSUME NEW a \in Icaos
      PROVE  /\ StateShape(aircraft[a]) /\ aircraft[a].even = None /\ aircraft[a].odd = None
             /\ \A g \in Fields : IdentityInv(aircraft[a][g], streak[<<a, g>>], g)
  <2>1. aircraft[a] = Restored(Restore)[a]
    BY DEF ManagerInit
  <2>2. \A g \in Fields : streak[<<a, g>>] = NoStreak
    BY DEF ManagerInit
  <2> QED BY <2>1, <2>2, RestoredFacts
<1>4. \A a, p : HeardOf(a, p) = {}
  BY <1>1 DEF HeardOf
<1>5. PairedWithLatest
  BY DEF PairedWithLatest, ManagerInit
<1>6. feed \in Feeds
  BY DEF ManagerInit
<1>7. \A a \in Icaos : /\ IdentityInv(aircraft[a].call_sign, streak[<<a, "call_sign">>], "call_sign")
                       /\ IdentityInv(aircraft[a].squawk, streak[<<a, "squawk">>], "squawk")
  BY <1>3 DEF Fields
<1>8. \A a \in Icaos : /\ CacheInv(aircraft[a].even, HeardOf(a, "Even"))
                       /\ CacheInv(aircraft[a].odd, HeardOf(a, "Odd"))
  BY <1>3, <1>4 DEF CacheInv
<1> QED BY <1>1, <1>2, <1>3, <1>5, <1>6, <1>7, <1>8 DEF ManagerInv

\* A step processes a frame of the feed.
LEMMA ManagerStepFrame ==
  ASSUME ManagerInv, ManagerNext
  PROVE  \E f \in UNION Feeds, t \in EventTimes : Process([frame |-> f, ts |-> t])
  BY DEF ManagerNext, ManagerInv

LEMMA ManagerInvStep == ManagerInv /\ [ManagerNext]_stateVars => ManagerInv'
<1>1. CASE UNCHANGED stateVars
  BY <1>1 DEF stateVars, ManagerInv, CacheInv, HeardOf, PairedWithLatest
<1>2. ASSUME ManagerInv, ManagerNext
      PROVE  ManagerInv'
  <2>1. PICK f \in UNION Feeds, t \in EventTimes : Process([frame |-> f, ts |-> t])
    BY <1>2, ManagerStepFrame
  <2>2. PICK d : d = DecodeFrame(f)
    OBVIOUS
  <2>3. heard' \in Seq(HeardRecords) /\ feed' \in Feeds
    BY <1>2, <2>1, <2>2, HeardFacts DEF Process, ManagerInv
  <2>4. DOMAIN aircraft' = Icaos
    BY <1>2, <2>1 DEF Process, ProcessAircraft, ManagerInv
  <2>5. DOMAIN streak' = Icaos \X Fields
    BY <1>2, <2>1 DEF Process, RecordHistory, ManagerInv
  <2>6. ASSUME NEW a \in Icaos
        PROVE  StateShape(aircraft'[a])
    <3>1. aircraft'[a] = aircraft[a] \/ aircraft'[a] = Updated(aircraft[a], d, t)
      BY <1>2, <2>1, <2>2, ProcessFacts
    <3>2. StateShape(aircraft[a])
      BY <1>2 DEF ManagerInv
    <3>3. StateShape(Updated(aircraft[a], d, t))
      BY <3>2, UpdatedFacts
    <3> QED BY <3>1, <3>2, <3>3
  <2>7. \A a \in Icaos, g \in Fields : IdentityInv(aircraft'[a][g], streak'[<<a, g>>], g)
    BY <1>2, <2>1, IdentityStep
  <2>8. \A a \in Icaos :
          /\ IdentityInv(aircraft'[a].call_sign, streak'[<<a, "call_sign">>], "call_sign")
          /\ IdentityInv(aircraft'[a].squawk, streak'[<<a, "squawk">>], "squawk")
    BY <2>7 DEF Fields
  <2>9. \A a \in Icaos : /\ CacheInv(aircraft[a].even, HeardOf(a, "Even"))'
                         /\ CacheInv(aircraft[a].odd, HeardOf(a, "Odd"))'
    BY <1>2, <2>1, CacheStep
  <2>10. PairedWithLatest'
    BY <1>2, <2>1, PairedStep
  <2> QED BY <2>3, <2>4, <2>5, <2>6, <2>8, <2>9, <2>10 DEF ManagerInv
<1> QED BY <1>1, <1>2

LEMMA ManagerInvariance == ManagerSpec => []ManagerInv
  BY ManagerInvInit, ManagerInvStep, PTL DEF ManagerSpec

\* Types: a cached message was received at one of the event times, and a
\* candidate has been seen less often than the threshold.
THEOREM ManagerTypes == ManagerSpec => []ManagerTypeOK
<1>1. ManagerInv => ManagerTypeOK
  <2> SUFFICES ASSUME ManagerInv, NEW a \in Icaos
               PROVE  /\ \A p \in {"even", "odd"} :
                           aircraft[a][p] # None => aircraft[a][p].ts \in EventTimes
                      /\ \A f \in Fields : aircraft[a][f].candidate # None =>
                           aircraft[a][f].candidate.count \in 1 .. Strikes - 1
    BY DEF ManagerTypeOK
  <2>1. \A i \in 1 .. Len(heard) : heard[i].ts \in EventTimes
    <3>1. \A i \in 1 .. Len(heard) : heard[i] \in HeardRecords
      BY ElementOfSeq DEF ManagerInv
    <3> QED BY <3>1 DEF HeardRecords
  <2>2. \A p \in {"even", "odd"} : aircraft[a][p] # None => aircraft[a][p].ts \in EventTimes
    <3>1. aircraft[a].even # None => aircraft[a].even.ts \in EventTimes
      BY <2>1 DEF ManagerInv, CacheInv, HeardOf
    <3>2. aircraft[a].odd # None => aircraft[a].odd.ts \in EventTimes
      BY <2>1 DEF ManagerInv, CacheInv, HeardOf
    <3> QED BY <3>1, <3>2
  <2>3. \A f \in Fields : aircraft[a][f].candidate # None =>
                            aircraft[a][f].candidate.count \in 1 .. Strikes - 1
    <3>1. /\ IdentityInv(aircraft[a].call_sign, streak[<<a, "call_sign">>], "call_sign")
          /\ IdentityInv(aircraft[a].squawk, streak[<<a, "squawk">>], "squawk")
      BY DEF ManagerInv
    <3>2. \A d, s, f : IdentityInv(d, s, f) /\ d.candidate # None =>
                         d.candidate.count \in 1 .. Strikes - 1
      BY DEF IdentityInv
    <3> QED BY <3>1, <3>2 DEF Fields
  <2> QED BY <2>2, <2>3
<1> QED BY <1>1, ManagerInvariance, PTL

\* Enough observations in a row, or one emergency squawk, confirm a value,
\* whatever is received in between (state.rs, Debounced::observe).
THEOREM StreaksConfirm == ManagerSpec => []StreakConfirms
<1>1. ManagerInv => StreakConfirms
  <2> SUFFICES ASSUME ManagerInv, NEW a \in Icaos, NEW f \in Fields,
                      \/ streak[<<a, f>>].length >= Strikes
                      \/ f = "squawk" /\ streak[<<a, f>>].value \in EmergencySquawks
               PROVE  aircraft[a][f].confirmed = streak[<<a, f>>].value
    BY DEF StreakConfirms
  <2>1. IdentityInv(aircraft[a][f], streak[<<a, f>>], f)
    BY DEF ManagerInv, Fields
  <2> QED BY <2>1, StrikesType DEF IdentityInv
<1> QED BY <1>1, ManagerInvariance, PTL

\* A confirmed identity changes only to a value observed often enough, or to an
\* emergency squawk.
THEOREM ConfirmedByStreak == ManagerSpec => ConfirmedOnlyByStreak
<1> DEFINE Changes(a, f) ==
      aircraft'[a][f].confirmed # aircraft[a][f].confirmed =>
        /\ aircraft'[a][f].confirmed = streak'[<<a, f>>].value
        /\ \/ streak'[<<a, f>>].length >= Strikes
           \/ f = "squawk" /\ streak'[<<a, f>>].value \in EmergencySquawks
<1>1. ASSUME ManagerInv, ManagerNext, NEW a \in Icaos, NEW f \in Fields
      PROVE  Changes(a, f)
  <2>1. PICK g \in UNION Feeds, t \in EventTimes : Process([frame |-> g, ts |-> t])
    BY <1>1, ManagerStepFrame
  <2> QED BY <1>1, <2>1, IdentityStep
<1>2. ManagerInv /\ [ManagerNext]_stateVars =>
        [\A a \in Icaos, f \in Fields : Changes(a, f)]_stateVars
  BY <1>1
<1> QED BY <1>2, ManagerInvariance, PTL DEF ManagerSpec, ConfirmedOnlyByStreak

\* An airborne position is located from a message and the last one of the other
\* parity that the same aircraft sent before it, both within the window.
THEOREM PairsAreLatest == ManagerSpec => []PairedWithLatest
<1>1. ManagerInv => PairedWithLatest
  BY DEF ManagerInv
<1> QED BY <1>1, ManagerInvariance, PTL
=============================================================================
