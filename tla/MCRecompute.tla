---------------------------- MODULE MCRecompute ----------------------------
(***************************************************************************)
(* An instance of the recompute for TLC: two minutes of two blocks after   *)
(* the warm-up minute, two surface positions and the call sign of one      *)
(* aircraft, and a row of another aircraft in the table.  Files hold up to *)
(* two records, not in time order.                                         *)
(***************************************************************************)
EXTENDS RecomputeProperties, TLC

MCParse ==
  [taxi |-> [df |-> "tisb", aa |-> "b", me |-> [bds |-> "06", cpr |-> 1, valid |-> TRUE]],
   roll |-> [df |-> "tisb", aa |-> "b", me |-> [bds |-> "06", cpr |-> 2, valid |-> TRUE]],
   name |-> [df |-> "tisb", aa |-> "b", me |-> [bds |-> "08", name |-> "JAL1", pad |-> 0]]]

At(rel, frame) == [rel |-> rel, frame |-> frame]

MCContents ==
  (1 :> {<<>>, <<At(0, "name")>>, <<At(2, "taxi")>>, <<At(3, "taxi"), At(0, "taxi")>>})
    @@ (2 :> {<<>>, <<At(0, "roll")>>, <<At(3, "taxi")>>})

Row(icao, bid, call) ==
  [mode_s_code |-> icao, ts |-> bid * Block, location |-> <<"tower", 0>>, alt |-> None,
   call_sign |-> call, squawk |-> None, on_ground |-> TRUE]

\* Rows before, in and after the range.
MCOldRows ==
  (<<"b", 0>> :> Row("b", 0, "ANA2")) @@ (<<"b", 1>> :> Row("b", 1, "SKY3"))
    @@ (<<"b", 3>> :> Row("b", 3, "ANA2")) @@ (<<"c", 6>> :> Row("c", 6, "ANA2"))

MCEventTimes == 0 .. 11
MCDeclared == <<1, 2>>
MCTsMin == -9
=============================================================================
