------------------------------- MODULE Decode -------------------------------
(***************************************************************************)
(* One frame to one normalised message, as in src/decode.rs, with the CPR  *)
(* mathematics of src/cpr.rs.  The bit-level parser and the CPR formulas   *)
(* are the rs1090 library's: Parse gives the library's reading of every    *)
(* frame, and a position is abstracted to the raw CPR values it was        *)
(* computed from.                                                          *)
(*                                                                         *)
(* A parsed message is a record with a field df and the fields its df has: *)
(*   "error"                     text    ("CRC" for a parity error)        *)
(*   "adsb"                      icao24, ca, me                            *)
(*   "tisb"                      aa, me                                    *)
(*   "altitude", "commb_altitude"  crc, ac                                 *)
(*   "identity", "commb_identity"  crc, id                                 *)
(*   any other df                                                          *)
(* and an ME field me is a record with a field bds:                        *)
(*   "05"  parity, zone, cpr, alt      airborne position                   *)
(*   "06"  cpr, valid                  surface position                    *)
(*   "08"  name, pad                   identification, padding split off   *)
(*   any other bds                                                         *)
(***************************************************************************)
EXTENDS Integers

CONSTANTS
  Parse,   \* frame -> parsed message
  None     \* an absent optional value

DecodeRejects == {"CrcInvalid", "ParseError", "UnsupportedDf"}

EmergencySquawks == {<<7, 5, 0, 0>>, <<7, 6, 0, 0>>, <<7, 7, 0, 0>>}

\* A 16-bit identity code as four hexadecimal digits.
FormatSquawk(code) ==
  << (code \div 4096) % 16, (code \div 256) % 16, (code \div 16) % 16, code % 16 >>

CleanCallsign(me) == me.name

ClassifyError(text) == IF text = "CRC" THEN "CrcInvalid" ELSE "ParseError"

DecodeMe(icao, me, onGroundCa) ==
  CASE me.bds = "05" ->
         [icao |-> icao, kind |-> "Airborne", pos |-> me, on_ground |-> onGroundCa]
    [] me.bds = "06" -> [icao |-> icao, kind |-> "Surface", pos |-> me]
    [] me.bds = "08" -> [icao |-> icao, kind |-> "Callsign", value |-> CleanCallsign(me)]
    [] OTHER         -> [icao |-> icao, kind |-> "Ignored"]

\* The normalised message, or a record whose kind is the reason to reject.
\* The two reply formats have no address field: it comes from the parity.
DecodeFrame(frame) ==
  LET m == Parse[frame]
  IN  CASE m.df = "error" -> [kind |-> ClassifyError(m.text)]
        [] m.df = "adsb"  -> DecodeMe(m.icao24, m.me, m.ca = "AG_GROUND")
        [] m.df = "tisb"  -> DecodeMe(m.aa, m.me, FALSE)
        [] m.df \in {"altitude", "commb_altitude"} ->
             [icao |-> m.crc, kind |-> "BaroAltitude", alt |-> m.ac]
        [] m.df \in {"identity", "commb_identity"} ->
             LET code == FormatSquawk(m.id)
             IN  [icao |-> m.crc, kind |-> "Squawk", value |-> code,
                  emergency |-> code \in EmergencySquawks]
        [] OTHER -> [kind |-> "UnsupportedDf"]

\* rs1090: a pair decodes when the parities differ and both messages fall in
\* the same longitude zone; the second argument is the one located.
GlobalAirborne(other, pos) ==
  IF other.parity # pos.parity /\ other.zone = pos.zone
  THEN {<<other.cpr, pos.cpr>>} ELSE {}

\* rs1090: a surface position near a reference; it may have no solution.
LocalSurface(pos, ref) == IF pos.valid THEN {<<ref, pos.cpr>>} ELSE {}
=============================================================================
