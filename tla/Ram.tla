-------------------------------- MODULE Ram --------------------------------
(***************************************************************************)
(* A RAM word of four bytes and the byte-lane store of rtl/tau_soc.v.      *)
(***************************************************************************)
EXTENDS Integers

CONSTANTS
  RamWords,      \* words of RAM, 256
  ByteSize       \* values of a byte, 256

ASSUME RamAssumption == RamWords \in 1 .. 256 /\ ByteSize \in Nat \ {0}

RamIdx  == 0 .. RamWords - 1
RamWord == 0 .. ByteSize * (ByteSize * (ByteSize * ByteSize)) - 1

Shift(w, l) ==
  CASE l = 0 -> w
    [] l = 1 -> w \div ByteSize
    [] l = 2 -> w \div (ByteSize * ByteSize)
    [] l = 3 -> w \div (ByteSize * (ByteSize * ByteSize))

(* Mutant: the lane is not cut to a byte.                                  *)
ByteAtUncut(w, l) == Shift(w, l)

ByteAt(w, l) == Shift(w, l) % ByteSize

(* old with the lanes of strobe taken from new.                            *)
Merge(old, new, strobe) ==
  LET b(l) == ByteAt(IF l \in strobe THEN new ELSE old, l)
  IN  b(0) + ByteSize * (b(1) + ByteSize * (b(2) + ByteSize * b(3)))
=============================================================================
