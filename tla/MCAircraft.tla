----------------------------- MODULE MCAircraft -----------------------------
(***************************************************************************)
(* Instances of the aircraft state manager for TLC: a behaviour has        *)
(* position messages or identities, since no property relates the two.     *)
(***************************************************************************)
EXTENDS AircraftHistory

Airborne(parity, zone, cpr, ca, alt) ==
  [df |-> "adsb", icao24 |-> "a", ca |-> ca,
   me |-> [bds |-> "05", parity |-> parity, zone |-> zone, cpr |-> cpr, alt |-> alt]]

Ident(icao, name, pad) ==
  [df |-> "adsb", icao24 |-> icao, ca |-> "AIRBORNE",
   me |-> [bds |-> "08", name |-> name, pad |-> pad]]

Identity(df, icao, id) == [df |-> df, crc |-> icao, id |-> id]

MCParse ==
  [even1   |-> Airborne("Even", 1, 1, "AIRBORNE", 0),
   even2   |-> Airborne("Even", 2, 2, "AIRBORNE", None),
   odd1    |-> Airborne("Odd", 1, 3, "AG_GROUND", 1),
   surface |-> [df |-> "tisb", aa |-> "a", me |-> [bds |-> "06", cpr |-> 4, valid |-> TRUE]],
   height  |-> [df |-> "commb_altitude", crc |-> "a", ac |-> 2],
   name1   |-> Ident("a", "JAL1", 0),
   name1p  |-> Ident("a", "JAL1", 2),
   name2   |-> Ident("a", "ANA2", 0),
   name3   |-> Ident("a", "SKY3", 1),
   name2b  |-> Ident("b", "ANA2", 0),
   normal  |-> Identity("identity", "a", 4608),         \* 1200
   normalc |-> Identity("commb_identity", "a", 4608),
   hijack  |-> Identity("identity", "a", 29952),        \* 7500
   velocity |-> [df |-> "adsb", icao24 |-> "a", ca |-> "AIRBORNE", me |-> [bds |-> "19"]],
   parity  |-> [df |-> "error", text |-> "CRC"],
   garbled |-> [df |-> "error", text |-> "EOF"],
   allcall |-> [df |-> "all_call"]]

\* Two even messages in different zones, an odd one, a surface position, an
\* altitude reply and frames that carry nothing the manager keeps.
Traffic ==
  {"even1", "even2", "odd1", "surface", "height", "velocity", "garbled", "allcall"}

\* Three call signs of one aircraft, one of them restored and also sent padded,
\* a call sign of another aircraft, normal and emergency squawks through both
\* reply formats, and a parity error.
Identities ==
  {"name1", "name1p", "name2", "name3", "name2b", "normal", "normalc", "hijack", "parity"}

BothFeeds == {Traffic, Identities}

TwoNames == {{"name1", "name2"}}

MCRestore == {[icao |-> "a", call_sign |-> "JAL1", squawk |-> None]}
MCTsMin == -9
=============================================================================
