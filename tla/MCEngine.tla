------------------------------ MODULE MCEngine ------------------------------
(***************************************************************************)
(* Instances of the engine with history for TLC.  The frames are aircraft  *)
(* a's even and odd airborne position messages, which decode as a pair,    *)
(* and two surface positions of aircraft b, which decode alone.            *)
(***************************************************************************)
EXTENDS EngineHistory, TLC

Position(parity, cpr) ==
  [df |-> "adsb", icao24 |-> "a", ca |-> "AIRBORNE",
   me |-> [bds |-> "05", parity |-> parity, zone |-> 1, cpr |-> cpr, alt |-> 0]]

Surface(cpr) ==
  [df |-> "tisb", aa |-> "b", me |-> [bds |-> "06", cpr |-> cpr, valid |-> TRUE]]

MCParse ==
  [even  |-> Position("Even", 1),
   odd   |-> Position("Odd", 2),
   taxi1 |-> Surface(3),
   taxi2 |-> Surface(4)]

MCRestore == {[icao |-> "b", call_sign |-> "JAL1", squawk |-> None]}

MCTsMin == -9
Symmetry == Permutations(Sensors)
=============================================================================
