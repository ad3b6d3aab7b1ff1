----------------------------- MODULE MCCellSweep ----------------------------
(***************************************************************************)
(* Operands for the sweep: every word of a narrow width, and at the wide   *)
(* ones the words whose sums carry farthest.                               *)
(***************************************************************************)
EXTENDS CellSweep

(* Null, +-1, the extremes, and the words with one half at its extreme.    *)
HalfUp(n, k) == [i \in 1 .. n |-> IF i <= k THEN Plus ELSE Null]

Boundary(n) ==
  LET ups == {HalfUp(n, k) : k \in {0, 1, n \div 2, n}} IN ups \cup {Neg(w) : w \in ups}

SweepOperands == [n \in Widths |-> IF n <= 2 THEN Words(n) ELSE Boundary(n)]
=============================================================================
