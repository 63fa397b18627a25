----------------------------- MODULE SensorCode -----------------------------
(***************************************************************************)
(* The codes of sensors of src/domain.rs, which a command line declares    *)
(* and a message carries: sequences of characters.                         *)
(***************************************************************************)
EXTENDS Integers, Sequences

CONSTANTS
  Uppercase, Digits,   \* the characters of a code
  None                 \* what is absent, or cannot be read

\* SensorId::from_ascii
IsSensorId(code) ==
  /\ Len(code) = 4
  /\ code[1] \in Uppercase /\ code[2] \in Uppercase
  /\ code[3] \in Digits /\ code[4] \in Digits
=============================================================================
