-------------------------- MODULE AircraftHistory --------------------------
(***************************************************************************)
(* The aircraft state manager as a machine of its own, fed any sequence of *)
(* decodable events, with history variables from which the confirmed       *)
(* identities and the admissible position pairs are defined without the    *)
(* manager's counters and caches.                                          *)
(***************************************************************************)
EXTENDS AircraftState, FiniteSetsExt, Sequences

CONSTANTS
  Feeds,         \* sets of frames, of which the machine is fed one
  EventTimes,    \* times the frames are received at
  Restore,       \* the rows the manager is seeded with
  MaxHeard       \* bound: airborne position messages in a behaviour

Fields == {"call_sign", "squawk"}

\* The frames that decode to a message of a kind, and what these carry.
FramesOf(kind) == {f \in UNION Feeds : DecodeFrame(f).kind = kind}

Values(field) ==
  {DecodeFrame(f).value : f \in FramesOf(IF field = "squawk" THEN "Squawk" ELSE "Callsign")}

Positions == {DecodeFrame(f).pos : f \in FramesOf("Airborne")}

\* The window ends before the range of times does, the messages are of known
\* aircraft, a parity is one of two, and no value of an optional field is the
\* absent one.
ASSUME HistoryAssumption ==
  /\ PairWindow < TsMax /\ PairWindow < -TsMin
  /\ EventTimes \subseteq Ts
  /\ \A f \in UNION Feeds :
       DecodeFrame(f).kind \notin DecodeRejects => DecodeFrame(f).icao \in Icaos
  /\ \A pos \in Positions : pos.parity \in {"Even", "Odd"}
  /\ None \notin EmergencySquawks
  /\ \A field \in Fields :
       None \notin Values(field) /\ None \notin [value : Values(field), count : 1 .. Strikes]
  /\ None \notin [ts : EventTimes, pos : Positions]

VARIABLES
  feed,      \* the set it is fed in this behaviour
  records,   \* position records the last event produced
  heard,     \* the airborne messages received, in order: [icao, ts, pos]
  streak,    \* [icao, field] -> last value observed, times in a row
  ignoring   \* as streak, but not counting values equal to the confirmed one

stateVars == <<aircraft, feed, records, heard, streak, ignoring>>

NoStreak == [value |-> None, length |-> 0]

\* One more observation; lengths beyond the threshold are all alike.
Extended(s, value) ==
  IF s.value = value THEN [s EXCEPT !.length = Min({@ + 1, Strikes})]
                     ELSE [value |-> value, length |-> 1]

Observes(d, field) ==
  \/ d.kind = "Callsign" /\ field = "call_sign"
  \/ d.kind = "Squawk" /\ field = "squawk"

ManagerInit ==
  /\ feed \in Feeds
  /\ aircraft = Restored(Restore)
  /\ records = {}
  /\ heard = <<>>
  /\ streak = [x \in Icaos \X Fields |-> NoStreak]
  /\ ignoring = streak

RecordHistory(d, ev) ==
  /\ heard' = IF d.kind = "Airborne"
              THEN Append(heard, [icao |-> d.icao, ts |-> ev.ts, pos |-> d.pos])
              ELSE heard
  /\ streak' = [x \in DOMAIN streak |->
                  IF d.icao = x[1] /\ Observes(d, x[2])
                  THEN Extended(streak[x], d.value) ELSE streak[x]]
  /\ ignoring' = [x \in DOMAIN ignoring |->
                    IF d.icao = x[1] /\ Observes(d, x[2])
                         /\ aircraft[x[1]][x[2]].confirmed # d.value
                    THEN Extended(ignoring[x], d.value) ELSE ignoring[x]]

Process(ev) ==
  LET d == DecodeFrame(ev.frame)
  IN  /\ d.kind = "Airborne" => Len(heard) < MaxHeard
      /\ aircraft' = ProcessAircraft(ev)
      /\ records' = ProcessRecords(ev)
      /\ IF d.kind \in DecodeRejects THEN UNCHANGED <<heard, streak, ignoring>>
                                     ELSE RecordHistory(d, ev)
      /\ UNCHANGED feed

ManagerNext == \E f \in feed, t \in EventTimes : Process([frame |-> f, ts |-> t])

ManagerSpec == ManagerInit /\ [][ManagerNext]_stateVars

-----------------------------------------------------------------------------
\* The type of the manager's state.
ManagerTypeOK ==
  \A a \in Icaos :
    /\ \A p \in {"even", "odd"} :
         aircraft[a][p] # None => aircraft[a][p].ts \in EventTimes
    /\ \A f \in Fields : aircraft[a][f].candidate # None =>
                           aircraft[a][f].candidate.count \in 1 .. Strikes - 1

\* A confirmed identity changes exactly to a value that has been observed
\* Strikes times in a row, of that aircraft and that field, or to an emergency
\* squawk: interleaved messages of other kinds, fields and aircraft, the
\* restored value and an emergency in between neither help nor hinder.
ConfirmedOnlyByStreak ==
  [][\A a \in Icaos, f \in Fields :
       aircraft'[a][f].confirmed # aircraft[a][f].confirmed =>
         /\ aircraft'[a][f].confirmed = streak'[<<a, f>>].value
         /\ \/ streak'[<<a, f>>].length >= Strikes
            \/ f = "squawk" /\ streak'[<<a, f>>].value \in EmergencySquawks]_stateVars

\* The converse: Strikes observations in a row, or one emergency squawk, and
\* the value is the confirmed one.
StreakConfirms ==
  \A a \in Icaos, f \in Fields :
    \/ streak[<<a, f>>].length >= Strikes
    \/ f = "squawk" /\ streak[<<a, f>>].value \in EmergencySquawks
    => aircraft[a][f].confirmed = streak[<<a, f>>].value

\* An airborne record is located from the message it was produced by and the
\* last one received before it from the same aircraft in the other parity,
\* both within the pairing window; a message whose partner is older than that
\* is never located with a still older one.
PairedWithLatest ==
  \A r \in records : r.location[1] # SurfaceRef =>
    LET n == Len(heard)
        g == heard[n]
        others == {i \in 1 .. n - 1 : heard[i].icao = g.icao
                                        /\ heard[i].pos.parity # g.pos.parity}
    IN  /\ others # {}
        /\ LET h == heard[Max(others)]
           IN  /\ r.location = <<h.pos.cpr, g.pos.cpr>>
               /\ h.ts - g.ts <= PairWindow
               /\ g.ts - h.ts <= PairWindow
        /\ r.ts = g.ts /\ r.mode_s_code = g.icao

\* docs/DESIGN.md: receiving the confirmed value again does not affect the
\* counter, so a candidate seen Strikes times with only confirmed values in
\* between is confirmed.
ConfirmedValueIsIgnored ==
  \A a \in Icaos, f \in Fields :
    ignoring[<<a, f>>].length >= Strikes =>
      aircraft[a][f].confirmed = ignoring[<<a, f>>].value
=============================================================================
