----------------------------- MODULE MCReceiver -----------------------------
(***************************************************************************)
(* An instance of the receiver for TLC: a message with a bad record        *)
(* between good ones, a malformed one, one of an undeclared sensor, and a  *)
(* good one behind them.                                                   *)
(***************************************************************************)
EXTENDS ReceiverProperties

MCHeader == <<"ok", "malformed", "unknown", "ok">>
MCRecords == << <<"ok", "short", "ok">>, <<>>, <<>>, <<"short", "ok">> >>
=============================================================================
