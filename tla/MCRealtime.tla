----------------------------- MODULE MCRealtime -----------------------------
(***************************************************************************)
(* An instance of the realtime mode for TLC: two aircraft in the first     *)
(* block and one of them in the second; channels of one place and batches  *)
(* of two rows, so that every queue is full at some time.                  *)
(***************************************************************************)
EXTENDS RealtimeProperties

MCKeys == {<<"a", 0>>, <<"b", 0>>, <<"a", 1>>}

MCEndOf(k) == k[2] + 1
=============================================================================
