----------------------------- MODULE MCPipeline -----------------------------
(***************************************************************************)
(* Instances of the whole realtime mode for TLC: surface positions of one  *)
(* aircraft, two of them in one block and one in the next.                 *)
(***************************************************************************)
EXTENDS PipelineProperties, TLC

Surface(cpr) ==
  [df |-> "tisb", aa |-> "b", me |-> [bds |-> "06", cpr |-> cpr, valid |-> TRUE]]

MCParse == [taxi1 |-> Surface(1), taxi2 |-> Surface(2), taxi3 |-> Surface(3)]

At(ts, frame) == [sensor |-> "s", frame |-> frame, ts |-> ts]

\* A position per message, the first of them behind a bad record.
MCContent == << <<At(0, "taxi1"), At(0, "taxi1")>>, <<At(1, "taxi2")>>, <<At(2, "taxi3")>> >>
MCRecords == << <<"short", "ok">>, <<"ok">>, <<"ok">> >>
MCHeader == <<"ok", "ok", "ok">>

\* The two positions of the first block only.
Two == << <<At(0, "taxi1")>>, <<At(1, "taxi2")>> >>
TwoRecords == << <<"ok">>, <<"ok">> >>
TwoHeaders == <<"ok", "ok">>

MCTsMin == -9
=============================================================================
