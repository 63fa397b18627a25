--------------------------- MODULE AircraftState ---------------------------
(***************************************************************************)
(* The per-aircraft state of src/state.rs: the latest position message of  *)
(* each CPR parity, two N-strike debounced identities, and an altitude.    *)
(* A position record is produced only by a position message, and carries a *)
(* snapshot of the identities confirmed at that moment.                    *)
(*                                                                         *)
(* An aircraft's entry is created with default values by its first frame,  *)
(* so the map is a total function here.                                    *)
(***************************************************************************)
EXTENDS Time100ns, Decode

CONSTANTS
  Icaos,        \* aircraft addresses
  DebounceN,    \* debounce_n as configured
  SurfaceRef,   \* the reference position, or None
  PairWindow    \* PAIR_WINDOW, in ticks

ASSUME AircraftAssumption ==
  /\ DebounceN \in Nat
  /\ PairWindow \in Nat

VARIABLE aircraft   \* address -> state

\* The configured threshold, at least one.
Strikes == IF DebounceN < 1 THEN 1 ELSE DebounceN

NoDebounced == [confirmed |-> None, candidate |-> None]

DefaultState ==
  [even |-> None, odd |-> None, call_sign |-> NoDebounced,
   squawk |-> NoDebounced, alt |-> None]

\* The state seeded from (address, call_sign, squawk) rows of the database.
Restored(rows) ==
  [a \in Icaos |->
     LET mine == {r \in rows : r.icao = a}
         r    == CHOOSE r \in mine : TRUE
     IN  IF mine = {} THEN DefaultState
         ELSE [DefaultState EXCEPT !.call_sign.confirmed = r.call_sign,
                                   !.squawk.confirmed = r.squawk]]

\* Mutant of StrikeCount: an interrupted candidate keeps its count.
StrikeCountKept(d, value) == IF d.candidate # None THEN d.candidate.count + 1 ELSE 1

\* The observations of a value in a row, this one included.
StrikeCount(d, value) ==
  IF d.candidate # None /\ d.candidate.value = value THEN d.candidate.count + 1 ELSE 1

\* Mutant of Enough: one observation more.
MoreThanEnough(count) == count > Strikes

Enough(count) == count >= Strikes

\* A value is confirmed by Strikes consecutive observations; the confirmed
\* value itself resets the candidate.
DebounceObserve(d, value) ==
  LET count == StrikeCount(d, value)
  IN  CASE d.confirmed = value -> [d EXCEPT !.candidate = None]
        [] d.confirmed # value /\ Enough(count) ->
             [confirmed |-> value, candidate |-> None]
        [] OTHER -> [d EXCEPT !.candidate = [value |-> value, count |-> count]]

\* An emergency squawk is confirmed at once.
DebounceForce(value) == [confirmed |-> value, candidate |-> None]

\* The aircraft's state after a decoded message received at ts.
Updated(st, d, ts) ==
  CASE d.kind = "Callsign" ->
         [st EXCEPT !.call_sign = DebounceObserve(@, d.value)]
    [] d.kind = "Squawk" ->
         [st EXCEPT !.squawk = IF d.emergency THEN DebounceForce(d.value)
                                              ELSE DebounceObserve(@, d.value)]
    [] d.kind = "BaroAltitude" -> [st EXCEPT !.alt = d.alt]
    [] d.kind = "Airborne" /\ d.pos.parity = "Even" ->
         [st EXCEPT !.even = [ts |-> ts, pos |-> d.pos]]
    [] d.kind = "Airborne" /\ d.pos.parity = "Odd" ->
         [st EXCEPT !.odd = [ts |-> ts, pos |-> d.pos]]
    [] OTHER -> st

\* Mutant of Pairs: the age of the cached message is not checked.
PairsAnyAge(other, ts) == other # None

\* The cached message may be used: it is not older, or newer, than the window.
Pairs(other, ts) == other # None /\ AbsDelta(ts, other.ts) <= PairWindow

\* The locations a message resolves to: none or one.  An airborne message
\* needs the cached message of the other parity.
Locations(st, d, ts) ==
  CASE d.kind = "Airborne" ->
         LET other == IF d.pos.parity = "Even" THEN st.odd ELSE st.even
         IN  IF Pairs(other, ts) THEN GlobalAirborne(other.pos, d.pos) ELSE {}
    [] d.kind = "Surface" ->
         IF SurfaceRef # None THEN LocalSurface(d.pos, SurfaceRef) ELSE {}
    [] OTHER -> {}

Altitude(st, d) ==
  IF d.kind = "Surface" THEN None
  ELSE IF d.pos.alt # None THEN d.pos.alt ELSE st.alt

\* A position record has the metadata confirmed before its message.
PositionRecord(st, d, ts, loc) ==
  [mode_s_code |-> d.icao, ts |-> ts, location |-> loc, alt |-> Altitude(st, d),
   call_sign |-> st.call_sign.confirmed, squawk |-> st.squawk.confirmed,
   on_ground |-> IF d.kind = "Surface" THEN TRUE ELSE d.on_ground]

\* The position records of an event: none or one.
PositionRecords(st, d, ts) == {PositionRecord(st, d, ts, loc) : loc \in Locations(st, d, ts)}

\* An event's effect on the map, and the records it produces.  A rejected
\* frame reaches no aircraft.
ProcessAircraft(ev) ==
  LET d == DecodeFrame(ev.frame)
  IN  IF d.kind \in DecodeRejects THEN aircraft
      ELSE [aircraft EXCEPT ![d.icao] = Updated(@, d, ev.ts)]

ProcessRecords(ev) ==
  LET d == DecodeFrame(ev.frame)
  IN  IF d.kind \in DecodeRejects THEN {}
      ELSE PositionRecords(aircraft[d.icao], d, ev.ts)
============================================================================
