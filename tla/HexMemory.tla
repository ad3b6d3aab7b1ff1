------------------------------ MODULE HexMemory -----------------------------
(***************************************************************************)
(* scripts/hexaddr.py and scripts/hex_memory.py: the hex addresses as the  *)
(* emulator side computes them, on integers of any size, and words of four *)
(* bytes kept at them.                                                     *)
(***************************************************************************)
EXTENDS Integers, Sequences

(* math.isqrt.                                                             *)
isqrt(n) == CHOOSE s \in 0 .. n : s * s <= n /\ n < (s + 1) * (s + 1)

sign_fold(z) == IF z < 0 THEN 2 * (-z) - 1 ELSE 2 * z

(* Python divides -(n + 1), rounding down.                                 *)
sign_unfold(n) == IF n % 2 = 0 THEN n \div 2 ELSE (-(n + 1)) \div 2

szudzik_pair(a, b) == IF a < b THEN b * b + a ELSE a * a + a + b

(* Mutant: the larger coordinate is not reduced by the root.               *)
szudzik_unpair_raw(n) ==
  LET s == isqrt(n)
  IN  IF n < s * s + s THEN <<n - s * s, s>> ELSE <<s, n - s * s>>

szudzik_unpair(n) ==
  LET s == isqrt(n)
  IN  IF n < s * s + s THEN <<n - s * s, s>> ELSE <<s, n - s * s - s>>

eisenstein_to_nat(c) == szudzik_pair(sign_fold(c[1]), sign_fold(c[2]))

eisenstein_of_nat(n) ==
  LET f == szudzik_unpair(n) IN <<sign_unfold(f[1]), sign_unfold(f[2])>>

-----------------------------------------------------------------------------
(* The neighbours, numbered in two ways: by hexaddr.py, each unit before   *)
(* its opposite, and by hex_memory.py, in angle order.                     *)
UNITS == <<<<1, 0>>, <<-1, 0>>, <<0, 1>>, <<0, -1>>, <<-1, 1>>, <<1, -1>>>>

ANGLE_UNITS == <<<<1, 0>>, <<0, 1>>, <<-1, 1>>, <<-1, 0>>, <<0, -1>>, <<1, -1>>>>

Beyond(c, unit) == <<c[1] + unit[1], c[2] + unit[2]>>

neighbor(c, k) == Beyond(c, UNITS[(k % 6) + 1])

neighbor_addr(addr, k) ==
  eisenstein_to_nat(Beyond(eisenstein_of_nat(addr), ANGLE_UNITS[(k % 6) + 1]))

pod(addr) == <<addr>> \o [j \in 1 .. 6 |-> neighbor_addr(addr, j - 1)]

-----------------------------------------------------------------------------
(* Words in the byte memory of the emulator: four bytes from the address   *)
(* of the cell on.  A memory is a function; bytes not in it read as 0.     *)
ByteOf(m, a) == IF a \in DOMAIN m THEN m[a] ELSE 0

read_hex_word(m, c) == [i \in 1 .. 4 |-> ByteOf(m, eisenstein_to_nat(c) + i - 1)]

(* Mutant: a cell is a word, as in the store of the emulator.              *)
write_hex_word_apart(m, c, w) ==
  LET at == 4 * eisenstein_to_nat(c)
  IN  [a \in DOMAIN m \cup at .. at + 3 |-> IF a \in at .. at + 3 THEN w[a - at + 1] ELSE m[a]]

write_hex_word(m, c, w) ==
  LET at == eisenstein_to_nat(c)
  IN  [a \in DOMAIN m \cup at .. at + 3 |-> IF a \in at .. at + 3 THEN w[a - at + 1] ELSE m[a]]
=============================================================================
