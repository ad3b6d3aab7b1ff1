------------------------------ MODULE CellSweep -----------------------------
(***************************************************************************)
(* The sweep of rtl/tmul_opt_tb.v and rtl/ga_ops_tb.v: four operands drive *)
(* the combinational cells and change one at a time; the outputs follow.   *)
(***************************************************************************)
EXTENDS EisenCells, PolarAdder

CONSTANTS Widths,      \* trits of a coefficient
          Operands     \* the words driven at each width

ASSUME SweepAssumption ==
  /\ Widths \subseteq Nat \ {0, 1}
  /\ \A n \in Widths : Operands[n] \subseteq Words(n)

VARIABLES NTRITS, a, b, c, d

sweepVars == <<NTRITS, a, b, c, d>>

SweepInit ==
  /\ NTRITS \in Widths
  /\ a \in Operands[NTRITS] /\ b \in Operands[NTRITS]
  /\ c = Nulls(NTRITS) /\ d = Nulls(NTRITS)

Drive == \E w \in Operands[NTRITS] :
  \/ c' = w /\ UNCHANGED <<NTRITS, a, b, d>>
  \/ d' = w /\ UNCHANGED <<NTRITS, a, b, c>>

SweepSpec == SweepInit /\ [][Drive]_sweepVars

-----------------------------------------------------------------------------
(* The multiplier that the norm may be built with is a drop-in for the     *)
(* shift-add multiplier (tmul_opt.v:113-123): same trits, exact product.   *)
KaratsubaExact == Karatsuba(a, b) = Mul(a, b) /\ Val(Mul(a, b)) = Val(a) * Val(b)

(* The three-product and the four-product Eisenstein multiply give the     *)
(* same trits (tmul_opt.v:186-247), and these are the lattice product: no  *)
(* carry is lost in the narrow sums.                                       *)
EisenExact ==
  LET p == EisenMul(a, b, c, d)
  IN  /\ p = EisenMulNaive(a, b, c, d)
      /\ Val(p.A) = EisenA(Val(a), Val(b), Val(c), Val(d))
      /\ Val(p.B) = EisenB(Val(a), Val(b), Val(c), Val(d))

(* The norms of ternary_gates.v and of tmul_opt.v are interchangeable with *)
(* either multiplier: the low half of the norm, and the flag exactly when  *)
(* the norm is not worth its low half.                                     *)
NormExact ==
  LET n == NormOf(Val(a), Val(b))
  IN  \A cell \in {Norm(a, b), NormOpt(a, b, FALSE), NormOpt(a, b, TRUE)} :
        Val(cell.n) = Residue(n, NTRITS) /\ (cell.ofit <=> ~Fits(n, NTRITS))

(* The split cell of the CPU and the one-per-instruction cells of ga_ops.v *)
(* compute the same three scalars, one of them by a wholly different route *)
(* (the polarised norm), in the widths their ports have.                   *)
GaExact ==
  LET g == GaSplit(a, b, c, d)
      w == Len(g.dot)
      Value(F(_, _, _, _)) == F(Val(a), Val(b), Val(c), Val(d))
  IN  /\ g.dot = Ext(TDot(a, b, c, d), w) /\ Val(g.dot) = Value(DotOf)
      /\ g.wedge = Ext(TWedge(a, b, c, d), w) /\ Val(g.wedge) = Value(WedgeOf)
      /\ g.symdot = Ext(TSymDot(a, b, c, d), w) /\ Val(g.symdot) = Value(SymDotOf)

(* The polar adder of the circuit files is the adder of the RTL: on all 27 *)
(* inputs (its checker runs 13 of them, check_polar_full_adder.py:37-48)   *)
(* the wires carry what the generator expects, no driver has both its      *)
(* transistors on, and the count of devices is the one its header states   *)
(* (gen_polar_full_adder.py:16); chained, it adds words as tadd_n does.    *)
PolarExact ==
  /\ PolarRipple(a, b) = Ripple(a, b)
  /\ \A i \in 1 .. NTRITS :
       LET t    == <<a[i], b[i], c[i]>>
           wire == PolarFa[t]
       IN  /\ Never \notin {wire.sum, wire.carry}
           /\ [sum |-> Digit(wire.sum), carry |-> Digit(wire.carry)] = expected(t)
  /\ Devices = 224
=============================================================================
