----------------------------- MODULE TernaryOps -----------------------------
(***************************************************************************)
(* scripts/ternary_ops.py: the arithmetic of the Xlattice instructions on  *)
(* unbounded integers.  A lattice point a + b.w is the pair <<a, b>>, with *)
(* w^2 = w - 1; a field is the values F[0] .. F[5] of the six neighbours.  *)
(***************************************************************************)
EXTENDS Integers, Sequences

Angle == 0 .. 5

eadd(z, w) == <<z[1] + w[1], z[2] + w[2]>>
eneg(z)    == <<-z[1], -z[2]>>
esub(z, w) == <<z[1] - w[1], z[2] - w[2]>>

emul(z, w) ==
  <<z[1] * w[1] - z[2] * w[2], z[1] * w[2] + z[2] * w[1] + z[2] * w[2]>>

enorm(z) == z[1] * z[1] + z[1] * z[2] + z[2] * z[2]

econj(z) == <<z[1] + z[2], -z[2]>>

(* Multiplication by w^k.                                                  *)
erot(z, k) ==
  LET s == z[1] + z[2]
  IN  CASE k % 6 = 0 -> z
        [] k % 6 = 1 -> <<-z[2], s>>
        [] k % 6 = 2 -> <<-s, z[1]>>
        [] k % 6 = 3 -> eneg(z)
        [] k % 6 = 4 -> <<z[2], -s>>
        [] k % 6 = 5 -> <<s, -z[1]>>

tdot(z, w)    == z[1] * w[1] + z[1] * w[2] + z[2] * w[2]
twedge(z, w)  == z[2] * w[1] - z[1] * w[2]
tsymdot(z, w) == 2 * z[1] * w[1] + z[1] * w[2] + z[2] * w[1] + 2 * z[2] * w[2]

(* The six directions in angle order.                                      *)
ANGLE_UNITS ==
  [k \in Angle |-> <<<<1, 0>>, <<0, 1>>, <<-1, 1>>, <<-1, 0>>, <<0, -1>>, <<1, -1>>>>[k + 1]]

(* Divergence and curl of a field; the centre drops out.                   *)
tgrad(F) == <<F[0] - F[2] - F[3] + F[5], F[1] + F[2] - F[4] - F[5]>>

(* Mutant: the curl goes to the second neighbour.                          *)
treconLate(j) == [k \in Angle |-> CASE k = 0 -> j[1] [] k = 2 -> j[2] [] OTHER -> 0]

(* The canonical field with a given derivative; its centre is 0.           *)
trecon(j) == [k \in Angle |-> CASE k = 0 -> j[1] [] k = 1 -> j[2] [] OTHER -> 0]
=============================================================================
