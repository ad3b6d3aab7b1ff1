------------------------------ MODULE HexIsqrt -----------------------------
(***************************************************************************)
(* The integer square root of rtl/hex_decode.v: restoring shift-and-       *)
(* subtract, one stage per root bit from the most significant one down.    *)
(***************************************************************************)
EXTENDS Integers

CONSTANT RootBits      \* stages of the loop, 16 in the RTL

ASSUME RootBitsAssumption == RootBits \in Nat

(* 1 << 2 * i.                                                             *)
Pow4[i \in 0 .. RootBits] == IF i = 0 THEN 1 ELSE 4 * Pow4[i - 1]

(* stage[k] is what k stages of the loop leave.  (The trial has the width  *)
(* of the operand, and never needs more: StageKeeps in HexWalkProofs.)     *)
RestoringIsqrt(n) ==
  LET stage[k \in 0 .. RootBits] ==
        IF k = 0 THEN [rem |-> n, root |-> 0]
        ELSE LET prev  == stage[k - 1]
                 shift == 2 * prev.root
                 trial == (2 * shift + 1) * Pow4[RootBits - k]
             IN  IF prev.rem >= trial
                 THEN [rem |-> prev.rem - trial, root |-> shift + 1]
                 ELSE [rem |-> prev.rem, root |-> shift]
  IN  stage[RootBits].root
=============================================================================
