------------------------------ MODULE HexAddr ------------------------------
(***************************************************************************)
(* The hex address unit: an Eisenstein cell (a, b) is named by one flat    *)
(* address, Szudzik-paired from its two sign-folded coordinates.           *)
(*   rtl/hex_encode.v    (a, b) -> address, and the six-neighbour offsets  *)
(*   rtl/hex_decode.v    address -> (a, b), through a restoring isqrt      *)
(*   rtl/hex_pod_addr.v  address -> the seven addresses of its pod         *)
(*                                                                         *)
(* A coordinate is a 16-bit two's-complement number in the RTL, and a sum  *)
(* of coordinates wraps at that width.                                     *)
(***************************************************************************)
EXTENDS Integers, Sequences

CONSTANTS
  HalfSide,     \* coordinates are -HalfSide .. HalfSide - 1; 2^15 in the RTL
  Isqrt(_)      \* the integer square root unit of hex_decode (module HexIsqrt)

Side  == 2 * HalfSide
Coord == -HalfSide .. HalfSide - 1     \* reg signed [15:0]
Fold  == 0 .. Side - 1                 \* reg [15:0]
Flat  == 0 .. Side * Side - 1          \* reg [31:0]

ASSUME HalfSideAssumption == HalfSide \in Nat /\ HalfSide >= 2

ASSUME IsqrtAssumption ==
  \A n \in Flat : /\ Isqrt(n) \in Fold
                  /\ Isqrt(n) * Isqrt(n) <= n
                  /\ n < (Isqrt(n) + 1) * (Isqrt(n) + 1)

(* A sum of coordinates, cut to the width of a coordinate.                 *)
Wrap(z) == ((z + HalfSide) % Side) - HalfSide

Abs(z) == IF z < 0 THEN -z ELSE z

(* Mutant: the negative side first.                                        *)
SignFoldFlipped(z) ==
  LET dbl == (2 * Abs(z)) % Side
  IN  IF z > 0 THEN (dbl - 1) % Side ELSE dbl

(* sign_fold: 0, 1, -1, 2, -2 ... |-> 0, ... with 2|z| cut to 16 bits      *)
(* before the decrement (only the most negative z reaches the cut).        *)
SignFold(z) ==
  LET dbl == (2 * Abs(z)) % Side
  IN  IF z < 0 THEN (dbl - 1) % Side ELSE dbl

(* sign_unfold: odd n |-> -(n+1)/2, even n |-> n/2.                        *)
SignUnfold(n) == IF n % 2 = 1 THEN -((n + 1) \div 2) ELSE n \div 2

SzudzikPair(x, y) == IF x < y THEN y * y + x ELSE x * x + x + y

(* Mutant: the bound of the lower branch is off by one.                    *)
SzudzikUnpairLate(n) ==
  LET s    == Isqrt(n)
      diff == n - s * s
  IN  IF n <= s * s + s THEN <<diff, s>> ELSE <<s, diff - s>>

(* szudzik_unpair, the two folds as a pair.                                *)
SzudzikUnpair(n) ==
  LET s    == Isqrt(n)
      diff == n - s * s
  IN  IF n < s * s + s THEN <<diff, s>> ELSE <<s, diff - s>>

HexEncode(a, b) == SzudzikPair(SignFold(a), SignFold(b))

HexDecode(addr) ==
  LET f == SzudzikUnpair(addr) IN <<SignUnfold(f[1]), SignUnfold(f[2])>>

(* The six directions w^0 .. w^5 in angle order.                           *)
Offset == [k \in 0 .. 5 |->
             <<<<1, 0>>, <<0, 1>>, <<-1, 1>>, <<-1, 0>>, <<0, -1>>, <<1, -1>>>>[k + 1]]

(* Mutant: the sum of the coordinates is not cut.                          *)
HexNeighborUncut(addr, k) ==
  LET c == HexDecode(addr)
  IN  HexEncode(c[1] + Offset[k][1], c[2] + Offset[k][2])

HexNeighbor(addr, k) ==
  LET c == HexDecode(addr)
  IN  HexEncode(Wrap(c[1] + Offset[k][1]), Wrap(c[2] + Offset[k][2]))

(* hex_pod_addr: pod[0] is the centre itself, pod[k+1] its w^k neighbour.  *)
HexPod(addr) ==
  [j \in 0 .. 6 |-> IF j = 0 THEN addr ELSE HexNeighbor(addr, j - 1)]
=============================================================================
