---------------------------- MODULE Downsampler ----------------------------
(***************************************************************************)
(* Time blocks of src/downsampler.rs: a position is rounded down to its    *)
(* block and replaces the aircraft's previous position of that block; a    *)
(* flush returns the blocks that end at or before the watermark.  Ingest   *)
(* and flush happen within one step of the engine, so both are stated on   *)
(* values.                                                                 *)
(***************************************************************************)
EXTENDS Time100ns

CONSTANT Block   \* block_size_ms, in ticks

ASSUME BlockAssumption == Block \in Nat \ {0}

VARIABLE blocks  \* partial function: <<mode_s_code, block id>> -> record

DownsamplerInit == blocks = [k \in {} |-> k]

BlockId(ts) == ts \div Block

Key(rec) == <<rec.mode_s_code, BlockId(rec.ts)>>

\* The end of a block, saturating in both of its operations.
BlockEnd(bid) == Clamp(SaturatingAdd(bid, 1) * Block)

KeyEnd(k) == BlockEnd(k[2])

\* A record at the start of its block.
Rounded(rec) == [rec EXCEPT !.ts = BlockId(rec.ts) * Block]

\* Mutant of Ingest: the time is not rounded to the block.
IngestUnrounded(rec) ==
  [k \in DOMAIN blocks \cup {Key(rec)} |-> IF k = Key(rec) THEN rec ELSE blocks[k]]

Ingest(rec) ==
  [k \in DOMAIN blocks \cup {Key(rec)} |->
     IF k = Key(rec) THEN Rounded(rec) ELSE blocks[k]]

\* The blocks a flush takes out, and what it leaves.
Ended(b, wm) == {k \in DOMAIN b : KeyEnd(k) <= wm}

Flushed(b, wm) == [k \in Ended(b, wm) |-> b[k]]

\* Mutant of Retained: a flushed block is returned but not removed.
RetainedAll(b, wm) == b

Retained(b, wm) == [k \in DOMAIN b \ Ended(b, wm) |-> b[k]]
============================================================================
