----------------------------- MODULE EisenCells -----------------------------
(***************************************************************************)
(* The combinational units of the ternary CPU that multiply: the Karatsuba *)
(* multiplier, the Eisenstein product, the norm (rtl/tmul_opt.v and the    *)
(* three-product norm of rtl/ternary_gates.v), and the geometric-algebra   *)
(* cells of rtl/ga_ops.v.  A lattice point is a + b.w with w^2 = w - 1.    *)
(***************************************************************************)
EXTENDS Trits

(* Mutant: the middle product is not cleared of the high product.          *)
KaratsubaMiddle(p0, p1, p2) == Sub(p1, p0)

Middle(p0, p1, p2) == Sub(Sub(p1, p0), p2)

(* tmul_trits_opt: halves of K and LH trits, whose sums are taken in       *)
(* K + 1 trits and their carry dropped.                                    *)
Karatsuba(a, b) ==
  LET n    == Len(a)
      K    == n \div 2
      S    == K + 1
      Hi(w) == SubSeq(w, K + 1, n)
      Fold(w) == Add(Ext(Low(w, K), S), Ext(Hi(w), S))
      p0   == Mul(Low(a, K), Low(b, K))
      p2   == Mul(Hi(a), Hi(b))
      p1   == Mul(Fold(a), Fold(b))
      z1   == Middle(Ext(p0, 2 * S), p1, Ext(p2, 2 * S))
      Shift(w, k) == Low(Nulls(k) \o Ext(w, 2 * n), 2 * n)
  IN  Add(Add(Ext(p0, 2 * n), Shift(z1, K)), Shift(p2, 2 * K))

(* Mutant: the carry of the sum is dropped.                                *)
WideSumNoCarry(a, b) == Ext(Add(a, b), Len(a) + 1)

(* The sum of two words, one trit wider than they are.                     *)
WideSum(a, b) == Add(Ext(a, Len(a) + 1), Ext(b, Len(b) + 1))

(* tmul_eisen_trits: three products.                                       *)
EisenMul(a, b, c, d) ==
  LET R  == 2 * Len(a) + 1
      p1 == Mul(a, c)
      p2 == Mul(b, d)
      p3 == Mul(WideSum(a, b), WideSum(c, d))
  IN  [A |-> Sub(p1, p2), B |-> Sub(Low(p3, R), Ext(p1, R))]

(* tmul_eisen_naive: four products.                                        *)
EisenMulNaive(a, b, c, d) ==
  LET R     == 2 * Len(a) + 1
      X(w)  == Ext(w, R)
  IN  [A |-> Sub(Mul(a, c), Mul(b, d)),
       B |-> Add(Add(X(Mul(a, d)), X(Mul(b, c))), X(Mul(b, d)))]

-----------------------------------------------------------------------------
(* tnorm_full: the exact norm, by three products.                          *)
NormFull(a, b) ==
  LET R == 2 * Len(a) + 1
  IN  Add(Add(Ext(Mul(a, a), R), Ext(Mul(a, b), R)), Ext(Mul(b, b), R))

(* Mutant: the fit check starts one trit too high.                         *)
CutHigh(full, n) == [n |-> Low(full, n), ofit |-> Wider(full, n + 1)]

(* The low half of a norm and the flag that the rest of it is not null.    *)
Cut(full, n) == [n |-> Low(full, n), ofit |-> Wider(full, n)]

(* tnorm_trits.                                                            *)
Norm(a, b) == Cut(NormFull(a, b), Len(a))

(* tnorm_trits_opt: (a + b)^2 - ab, with either multiplier.                *)
NormWide(a, b, karatsuba) ==
  LET R == 2 * Len(a) + 1
      s == WideSum(a, b)
      Times(v, w) == IF karatsuba THEN Karatsuba(v, w) ELSE Mul(v, w)
  IN  Sub(Low(Times(s, s), R), Ext(Times(a, b), R))

NormOpt(a, b, karatsuba) == Cut(NormWide(a, b, karatsuba), Len(a))

-----------------------------------------------------------------------------
(* tconj_trits: (a + b, -b).                                               *)
Conj(a, b) ==
  LET s == WideSum(a, b)
  IN  [a |-> Low(s, Len(a)), b |-> Neg(b), ofit |-> s[Len(a) + 1] # Null]

(* Mutant: bd is added once.                                               *)
TwiceDotOnce(ac, ad, bc, bd) == Add(Add(Add(Add(ac, ac), ad), bc), bd)

(* 2ac + ad + bc + 2bd as a chain of five adders.                          *)
TwiceDot(ac, ad, bc, bd) == Add(Add(Add(Add(Add(ac, ac), ad), bc), bd), bd)

(* ga_split_trits: three scalars out of four shared products.              *)
GaSplit(a, b, c, d) ==
  LET R  == 2 * Len(a) + 2
      ac == Ext(Mul(a, c), R)
      ad == Ext(Mul(a, d), R)
      bc == Ext(Mul(b, c), R)
      bd == Ext(Mul(b, d), R)
  IN  [dot    |-> Add(Add(ac, ad), bd),
       wedge  |-> Sub(bc, ad),
       symdot |-> TwiceDot(ac, ad, bc, bd)]

(* tdot, twedge: the same scalars in 2n + 1 trits, one cell each.          *)
TDot(a, b, c, d) ==
  LET X(w) == Ext(w, 2 * Len(a) + 1)
  IN  Add(Add(X(Mul(a, c)), X(Mul(a, d))), X(Mul(b, d)))

TWedge(a, b, c, d) ==
  LET X(w) == Ext(w, 2 * Len(a) + 1) IN Sub(X(Mul(b, c)), X(Mul(a, d)))

(* tsymdot: N(z + w) - N(z) - N(w), in two trits more than it needs.       *)
TSymDot(a, b, c, d) ==
  LET R    == 2 * Len(a) + 1
      X(w) == Ext(w, R + 2)
  IN  Low(Sub(Sub(NormFull(WideSum(a, c), WideSum(b, d)), X(NormFull(a, b))),
              X(NormFull(c, d))), R)

-----------------------------------------------------------------------------
(* The lattice arithmetic the cells stand for, on integers.                *)
EisenA(a, b, c, d) == a * c - b * d
EisenB(a, b, c, d) == a * d + b * c + b * d
NormOf(a, b)       == a * a + a * b + b * b
DotOf(a, b, c, d)  == a * c + a * d + b * d
WedgeOf(a, b, c, d) == b * c - a * d
SymDotOf(a, b, c, d) == NormOf(a + c, b + d) - NormOf(a, b) - NormOf(c, d)
=============================================================================
