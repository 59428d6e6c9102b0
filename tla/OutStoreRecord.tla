--------------------------- MODULE OutStoreRecord ---------------------------
(***************************************************************************)
(* The two pure judgements the IOmcu's flash rests on: whether a record    *)
(* was written whole (out_store_rec_check()), and whether a range of flash *)
(* is the firmware update's to write (out_store_range.c).  OutStoreProofs  *)
(* has the theorem of each that OutStore relies on.                        *)
(*                                                                         *)
(* An erase only sets bits and a program only clears them, so a record is  *)
(* modelled by the positions of its bits that read 0.  A record that was   *)
(* cut off in either operation reads fewer of them than the whole record.  *)
(***************************************************************************)
EXTENDS Integers, FiniteSets

CONSTANTS Width,        \* 2^32: a uint32_t counts modulo it
          Floor,        \* OUT_STORE_RANGE_FLOOR
          SectorBytes,  \* OUT_STORE_RANGE_SECTOR
          PageBytes     \* OUT_STORE_RANGE_PAGE

Bit == 0 .. 31

\* The bits that read 0 in the magic, in the count of zeros and in its
\* complement, and in all that is counted: the checksum and what follows it.
Records == [magic : SUBSET Bit, zeros : SUBSET Bit, inverse : SUBSET Bit,
            body : SUBSET Nat]

\* The number a word holds whose bits in z read 0.
Number(z) ==
  LET below[b \in Nat] ==
        IF b = 0 THEN 0
        ELSE below[b - 1] + (IF b - 1 \in z THEN 0 ELSE 2 ^ (b - 1))
  IN  below[32]

\* out_store_intact() of a record whose version makes it as long as the
\* positions in size.
Intact(r, size) ==
  /\ r.inverse = Bit \ r.zeros
  /\ Cardinality(r.body \cap size) = Number(r.zeros)

\* out_store_rec_check(), without its checksum.
Accepted(r, magic, size) == r.magic = magic /\ Intact(r, size)

\* out_store_rec_build(): the slot past the record stays 1.
Built(r, magic, size) == Accepted(r, magic, size) /\ r.body \subseteq size

\* What an erase cut off leaves of r, or a program of r over a blank slot.
Within(found, r) == /\ found.magic \subseteq r.magic
                    /\ found.zeros \subseteq r.zeros
                    /\ found.inverse \subseteq r.inverse
                    /\ found.body \subseteq r.body

-----------------------------------------------------------------------------
(* The flash ranges of a firmware update.                                  *)

Word == 0 .. Width - 1

Minus(a, b) == (a - b) % Width

Inside(off, len, ceiling) ==
  off >= Floor /\ off <= ceiling /\ len <= Minus(ceiling, off)

EraseOk(off, ceiling) ==
  off % SectorBytes = 0 /\ Inside(off, SectorBytes, ceiling)

ProgramOk(off, len, ceiling) ==
  /\ off % SectorBytes = 0
  /\ len % PageBytes = 0
  /\ len <= SectorBytes
  /\ Inside(off, len, ceiling)
=============================================================================
