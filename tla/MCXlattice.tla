----------------------------- MODULE MCXlattice -----------------------------
(***************************************************************************)
(* Programs for the emulator: every operation, known or not, on registers  *)
(* 1 and 2 and, for the angles above 5, register 7.                        *)
(***************************************************************************)
EXTENDS Xlattice

Ins(f3, f7, rd, rs1, rs2, imms) ==
  [f3 : {f3}, f7 : f7, rd : rd, rs1 : rs1, rs2 : rs2, imm : imms]

TestInstrs ==
  Ins(0, 0 .. 7, {1}, {1, 2}, {1, 2, 7}, {0})
    \cup Ins(1, 0 .. 2, {2}, {1, 2}, {0}, {0})
    \cup Ins(2, {0}, {1, 2}, {0}, {0}, {5, -364, 365})
    \cup Ins(3, 0 .. 2, {1}, {0, 2}, {0}, {0})
    \cup Ins(4, {0}, {0, 2}, {1, 2}, {0}, {0})
    \cup Ins(5, {0}, {1}, {1}, {1}, {0})

(* A word of extremes; an 11 in the point; an 11 that only TRECON sees.    *)
Ones     == [i \in 1 .. 16 |-> IF i <= 6 THEN Plus ELSE Minus]
TestWords == {Ones, [Nulls(16) EXCEPT ![3] = Never], [Ones EXCEPT ![15] = Never]}

(* The pod of cell (0, 0): level at -1, level at the least value, and the  *)
(* field of scripts/demo.py; and two cells as wide as TRECON may leave     *)
(* them, whose difference eight trits do not hold.                         *)
Pod0 == {<<0, 0>>} \cup {ANGLE_UNITS[k] : k \in Angle}
TestFields ==
  {[c \in Pod0 |-> -1], [c \in Pod0 |-> -364],
   [c \in {<<1, 0>>, <<0, 1>>} |-> IF c = <<1, 0>> THEN 3 ELSE 9],
   [c \in {<<1, 0>>, <<-1, 1>>} |-> IF c = <<1, 0>> THEN 3280 ELSE -3280]}
=============================================================================
