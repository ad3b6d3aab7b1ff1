---------------------------- MODULE HexWalkProofs --------------------------
(***************************************************************************)
(* The hex address unit and the walks by address, for every size of the    *)
(* coordinate box: the flat address is a bijection with the cells, the six *)
(* hops are reversible, a pod has seven distinct addresses, and the loop   *)
(* of hex_decode.v is a square root. The repository proves the pairing on  *)
(* unbounded integers (proofs/lean-src, Bijection.lean); here it is proved *)
(* at the width of the RTL, with the wrap-around at the edge of the box    *)
(* and the cut in sign_fold.                                               *)
(*                                                                         *)
(* A walk then keeps its position. The last part is the same for the       *)
(* Python walk (HexLockstep): its cell wrapped is the position, its flat   *)
(* address is the one the RTL encodes, and words kept at neighbouring      *)
(* cells clash exactly when their addresses are less than a word apart.    *)
(***************************************************************************)
EXTENDS HexLockstep, HexIsqrt, TritsProofs

-----------------------------------------------------------------------------
(* Squares and roots.                                                      *)

(* Squares grow.                                                           *)
LEMMA SquareMonotone ==
  ASSUME NEW a \in Nat, NEW b \in Nat, a <= b
  PROVE  a * a <= b * b
<1>1. a * a <= a * b BY Z3
<1>2. a * b <= b * b BY Z3
<1> QED BY <1>1, <1>2

(* Between consecutive squares there is one root, so the isqrt unit has no *)
(* freedom.                                                                *)
LEMMA RootUnique ==
  ASSUME NEW n \in Nat, NEW s \in Nat, NEW t \in Nat,
         s * s <= n, n < (s + 1) * (s + 1),
         t * t <= n, n < (t + 1) * (t + 1)
  PROVE  s = t
<1>1. CASE s < t
  <2>1. (s + 1) * (s + 1) <= t * t  BY <1>1, SquareMonotone
  <2> QED BY <2>1
<1>2. CASE t < s
  <2>1. (t + 1) * (t + 1) <= s * s  BY <1>2, SquareMonotone
  <2> QED BY <2>1
<1> QED BY <1>1, <1>2

(* The ranges as bounds.                                                   *)
LEMMA FoldFacts == 
  /\ HalfSide \in Nat /\ HalfSide >= 2
  /\ Side \in Nat /\ Side >= 4 /\ Side = 2 * HalfSide
  /\ \A x \in Int : x \in Fold <=> 0 <= x /\ x < Side
  /\ \A x \in Int : x \in Coord <=> -HalfSide <= x /\ x < HalfSide
BY HalfSideAssumption DEF Side, Fold, Coord

-----------------------------------------------------------------------------
(* The loop of hex_decode.v, as the recursion it is.                       *)
Pow4Step(f) == [i \in 0 .. RootBits |-> IF i = 0 THEN 1 ELSE 4 * f[i - 1]]

(* One stage, from what the stages before left.                            *)
Trial(prev, k) == (2 * (2 * prev.root) + 1) * Pow4[RootBits - k]

Stage(prev, k) ==
  IF prev.rem >= Trial(prev, k)
  THEN [rem |-> prev.rem - Trial(prev, k), root |-> 2 * prev.root + 1]
  ELSE [rem |-> prev.rem, root |-> 2 * prev.root]

Stages(n, f) == [k \in 0 .. RootBits |-> IF k = 0 THEN [rem |-> n, root |-> 0] ELSE Stage(f[k - 1], k)]

(* The powers of four follow their recursion.                              *)
LEMMA Pow4Facts ==
  /\ Pow4[0] = 1
  /\ \A i \in 0 .. RootBits : Pow4[i] \in Nat /\ Pow4[i] >= 1
  /\ \A i \in 1 .. RootBits : Pow4[i] = 4 * Pow4[i - 1]
<1> DEFINE s == CHOOSE f : f = Pow4Step(f)
           g == [p \in (1 .. RootBits) \X Nat |-> 4 * p[2]]
<1>1. PICK h \in [0 .. RootBits -> Nat] : h[0] = 1 /\ \A i \in 1 .. RootBits : h[i] = g[<<i, h[i - 1]>>]
  <2>1. g \in [(1 .. RootBits) \X Nat -> Nat] /\ 1 \in Nat
    OBVIOUS
  <2> HIDE DEF g
  <2>2. Recurses(RootBits, Nat, 1, g)
    BY <2>1, RootBitsAssumption, Recursion
  <2> QED
    BY <2>2 DEF Recurses
<1>2. h = Pow4Step(h)
  <2>1. ASSUME NEW i \in 1 .. RootBits PROVE h[i] = 4 * h[i - 1]
    <3>1. i - 1 \in 0 .. RootBits
      BY RootBitsAssumption
    <3>2. <<i, h[i - 1]>> \in (1 .. RootBits) \X Nat
      BY <3>1
    <3> QED
      BY <1>1, <3>2
  <2>2. \A i \in 0 .. RootBits : h[i] = IF i = 0 THEN 1 ELSE 4 * h[i - 1]
    BY <1>1, <2>1, RootBitsAssumption
  <2> QED
    BY <2>2 DEF Pow4Step
<1>3. s = Pow4Step(s)
  BY <1>2
<1>4. Pow4 = s
  BY Zenon DEF Pow4, Pow4Step
<1> HIDE DEF s
<1>5. Pow4[0] = 1 /\ \A i \in 1 .. RootBits : Pow4[i] = 4 * Pow4[i - 1]
  BY <1>3, <1>4, RootBitsAssumption DEF Pow4Step
<1> DEFINE T == {i \in 0 .. RootBits : Pow4[i] \in Nat /\ Pow4[i] >= 1}
<1>6. \A i \in 0 .. RootBits : i \in T
  <2>1. 0 \in T
    BY <1>5, RootBitsAssumption
  <2>2. ASSUME NEW i \in 1 .. RootBits, i - 1 \in T PROVE i \in T
    BY <1>5, <2>2
  <2> HIDE DEF T
  <2> QED
    BY <2>1, <2>2, RootBitsAssumption, Climb
<1> QED
  BY <1>5, <1>6

(* Before the stages of the bits below 4^i, s is the root of n in units    *)
(* of 2^i, and what remains is what its square leaves; and s has as many   *)
(* bits as there were stages.                                              *)
RootSoFar(n, st, p) ==
  /\ st.rem \in Nat /\ st.root \in Nat
  /\ st.rem = n - st.root * st.root * p
  /\ st.rem < (2 * st.root + 1) * p
  /\ (st.root + 1) * p <= Pow4[RootBits]

(* A stage keeps that, and its trial fits the width of the operand, to     *)
(* which the RTL cuts it (tmp[31:0]).                                      *)
LEMMA StageKeeps ==
  ASSUME NEW n \in Nat, NEW p \in Nat, p >= 1, NEW k \in 1 .. RootBits, p = Pow4[RootBits - k],
         NEW rem \in Nat, NEW s \in Nat, RootSoFar(n, [rem |-> rem, root |-> s], 4 * p)
  PROVE  /\ RootSoFar(n, Stage([rem |-> rem, root |-> s], k), p)
         /\ Trial([rem |-> rem, root |-> s], k) < Pow4[RootBits]
<1> DEFINE t == (4 * s + 1) * p
           w == Pow4[RootBits]
           q == s * p
           z == s * s * p
<1>0. w \in Nat
  BY Pow4Facts, RootBitsAssumption
<1>1. q \in Nat /\ z \in Nat /\ t = 4 * q + p
  BY Z3
<1>2. rem = n - 4 * z /\ rem < 8 * q + 4 * p /\ 4 * q + 4 * p <= w
  <2>1. s * s * (4 * p) = 4 * z /\ (2 * s + 1) * (4 * p) = 8 * q + 4 * p /\ (s + 1) * (4 * p) = 4 * q + 4 * p
    BY Z3
  <2> QED
    BY <2>1 DEF RootSoFar
<1>3. Trial([rem |-> rem, root |-> s], k) = t
  <2>1. 2 * (2 * s) + 1 = 4 * s + 1
    OBVIOUS
  <2> QED
    BY <2>1 DEF Trial
<1>4. CASE rem >= t
  <2>1. Stage([rem |-> rem, root |-> s], k) = [rem |-> rem - t, root |-> 2 * s + 1]
    BY <1>3, <1>4 DEF Stage
  <2>2. /\ (2 * s + 1) * (2 * s + 1) * p = 4 * z + 4 * q + p
        /\ (2 * (2 * s + 1) + 1) * p = 4 * q + 3 * p
        /\ (2 * s + 1 + 1) * p = 2 * q + 2 * p
    BY Z3
  <2>3. /\ rem - t \in Nat /\ 2 * s + 1 \in Nat
        /\ rem - t = n - (4 * z + 4 * q + p)
        /\ rem - t < 4 * q + 3 * p
        /\ 2 * q + 2 * p <= w
    <3> HIDE DEF z, q, w, t
    <3> QED
      BY <1>0, <1>1, <1>2, <1>4
  <2> HIDE DEF z, q, w, t
  <2> QED
    BY <1>0, <1>1, <1>2, <1>3, <2>1, <2>2, <2>3 DEF RootSoFar, w
<1>5. CASE rem < t
  <2>1. Stage([rem |-> rem, root |-> s], k) = [rem |-> rem, root |-> 2 * s]
    <3> HIDE DEF t
    <3>1. t \in Nat
      BY <1>1
    <3> QED
      BY <1>3, <1>5, <3>1 DEF Stage
  <2>2. /\ (2 * s) * (2 * s) * p = 4 * z
        /\ (2 * (2 * s) + 1) * p = 4 * q + p
        /\ (2 * s + 1) * p = 2 * q + p
    BY Z3
  <2>3. /\ rem = n - 4 * z /\ rem < 4 * q + p /\ 2 * q + p <= w /\ 2 * s \in Nat
    <3> HIDE DEF z, q, w, t
    <3> QED
      BY <1>0, <1>1, <1>2, <1>5
  <2> HIDE DEF z, q, w, t
  <2> QED
    BY <1>0, <1>1, <1>2, <1>3, <2>1, <2>2, <2>3 DEF RootSoFar, w
<1> HIDE DEF t
<1>6. t \in Nat
  BY <1>1
<1> QED
  BY <1>4, <1>5, <1>6

(* The loop gives the root of every operand of twice its bits, whatever    *)
(* their number; and no trial is ever cut.                                 *)
THEOREM RestoringExact ==
  ASSUME NEW n \in 0 .. Pow4[RootBits] - 1
  PROVE  /\ RestoringIsqrt(n) \in Nat
         /\ RestoringIsqrt(n) * RestoringIsqrt(n) <= n
         /\ n < (RestoringIsqrt(n) + 1) * (RestoringIsqrt(n) + 1)
<1> DEFINE S == [rem : Int, root : Int]
           s == CHOOSE f : f = Stages(n, f)
           g == [x \in (1 .. RootBits) \X S |-> Stage(x[2], x[1])]
           base == [rem |-> n, root |-> 0]
<1>0. n \in Nat /\ Pow4[RootBits] \in Nat /\ n < Pow4[RootBits] /\ RootBits \in Nat
  BY Pow4Facts, RootBitsAssumption
<1>1. g \in [(1 .. RootBits) \X S -> S]
  <2>1. ASSUME NEW k \in 1 .. RootBits, NEW st \in S PROVE Stage(st, k) \in S
    <3>1. Pow4[RootBits - k] \in Int
      BY <1>0, Pow4Facts
    <3>2. Trial(st, k) \in Int
      BY <3>1 DEF Trial
    <3> QED
      BY <3>2 DEF Stage
  <2> QED
    BY <2>1
<1>2. PICK h \in [0 .. RootBits -> S] : h[0] = base /\ \A k \in 1 .. RootBits : h[k] = g[<<k, h[k - 1]>>]
  <2>1. base \in S
    BY <1>0
  <2> HIDE DEF g, base, S
  <2>2. Recurses(RootBits, S, base, g)
    BY <1>0, <1>1, <2>1, Recursion
  <2> QED
    BY <2>2 DEF Recurses
<1>3. \A k \in 1 .. RootBits : h[k] = Stage(h[k - 1], k) /\ h[k - 1] \in S
  <2> SUFFICES ASSUME NEW k \in 1 .. RootBits PROVE h[k] = Stage(h[k - 1], k) /\ h[k - 1] \in S
    OBVIOUS
  <2>1. k - 1 \in 0 .. RootBits
    BY <1>0
  <2>2. <<k, h[k - 1]>> \in (1 .. RootBits) \X S
    BY <1>2, <2>1
  <2> QED
    BY <1>2, <2>2
<1>4. h = Stages(n, h)
  <2>1. \A k \in 0 .. RootBits : h[k] = IF k = 0 THEN base ELSE Stage(h[k - 1], k)
    BY <1>0, <1>2, <1>3
  <2> QED
    BY <2>1, <1>2 DEF Stages
<1>5. s = Stages(n, s)
  BY <1>4
<1>6. RestoringIsqrt(n) = s[RootBits].root
  BY Zenon DEF RestoringIsqrt, Stages, Stage, Trial
<1> HIDE DEF s, g
<1>7. s[0] = base /\ \A k \in 1 .. RootBits : s[k] = Stage(s[k - 1], k)
  <2> DEFINE e == [k \in 0 .. RootBits |-> IF k = 0 THEN base ELSE Stage(s[k - 1], k)]
  <2>1. s = e
    BY <1>5 DEF Stages
  <2>2. e[0] = base
    BY <1>0
  <2>3. ASSUME NEW k \in 1 .. RootBits PROVE e[k] = Stage(s[k - 1], k)
    BY <1>0
  <2> HIDE DEF e
  <2> QED
    BY <2>1, <2>2, <2>3
<1>8. \A k \in 0 .. RootBits : s[k] = h[k]
  <2>1. s[0] = h[0] /\ \A k \in 1 .. RootBits : s[k - 1] = h[k - 1] => s[k] = h[k]
    BY <1>2, <1>3, <1>7
  <2> DEFINE A == {k \in 0 .. RootBits : s[k] = h[k]}
  <2>2. 0 \in A /\ \A k \in 1 .. RootBits : k - 1 \in A => k \in A
    BY <1>0, <2>1
  <2>3. \A k \in 0 .. RootBits : k \in A
    <3> HIDE DEF A
    <3> QED
      BY <1>0, <2>2, Climb
  <2> QED
    BY <2>3
<1> DEFINE T == {k \in 0 .. RootBits : RootSoFar(n, h[k], Pow4[RootBits - k])}
<1>9. 0 \in T
  BY <1>0, <1>2, Pow4Facts DEF RootSoFar
<1>10. ASSUME NEW k \in 1 .. RootBits, k - 1 \in T PROVE k \in T
  <2> DEFINE p == Pow4[RootBits - k]
             st == h[k - 1]
  <2>1. p \in Nat /\ p >= 1 /\ Pow4[RootBits - (k - 1)] = 4 * p
    <3>1. RootBits - k \in 0 .. RootBits /\ RootBits - (k - 1) \in 1 .. RootBits
          /\ (RootBits - (k - 1)) - 1 = RootBits - k
      BY <1>0
    <3> QED
      BY <3>1, Pow4Facts
  <2>2. RootSoFar(n, st, 4 * p) /\ st \in S
    BY <1>3, <1>10, <2>1
  <2>3. st = [rem |-> st.rem, root |-> st.root] /\ st.rem \in Nat /\ st.root \in Nat
    BY <2>2 DEF RootSoFar
  <2>4. RootSoFar(n, Stage(st, k), p)
    <3> HIDE DEF st
    <3> QED
      BY <1>0, <2>1, <2>2, <2>3, StageKeeps
  <2> QED
    BY <1>3, <2>4
<1>11. RootSoFar(n, h[RootBits], Pow4[RootBits - RootBits])
  <2>1. \A k \in 0 .. RootBits : k \in T
    <3> HIDE DEF T
    <3> QED
      BY <1>0, <1>9, <1>10, Climb
  <2> QED
    BY <1>0, <2>1
<1> DEFINE r == RestoringIsqrt(n)
<1>12. r \in Nat /\ n - r * r * 1 < (2 * r + 1) * 1 /\ n - r * r * 1 \in Nat
  <2>1. Pow4[RootBits - RootBits] = 1 /\ RootBits \in 0 .. RootBits
    BY <1>0, Pow4Facts
  <2>2. r = h[RootBits].root
    BY <1>6, <1>8, <2>1
  <2> QED
    BY <1>11, <2>1, <2>2 DEF RootSoFar
<1> HIDE DEF r
<1>13. r * r <= n /\ n < (r + 1) * (r + 1)
  BY <1>0, <1>12, Z3
<1> QED
  BY <1>12, <1>13 DEF r

(* So the assumption on the root unit is met by the loop, where it has as  *)
(* many bits as a coordinate.                                              *)
THEOREM RestoringMeetsAssumption ==
  ASSUME Side * Side <= Pow4[RootBits], NEW n \in Flat
  PROVE  /\ RestoringIsqrt(n) \in Fold
         /\ RestoringIsqrt(n) * RestoringIsqrt(n) <= n
         /\ n < (RestoringIsqrt(n) + 1) * (RestoringIsqrt(n) + 1)
<1> DEFINE r == RestoringIsqrt(n)
<1>1. n \in Nat /\ n < Side * Side /\ Side \in Nat /\ Side * Side \in Nat /\ Pow4[RootBits] \in Nat
  <2>1. Side * Side \in Nat
    BY FoldFacts
  <2> QED
    BY <2>1, FoldFacts, Pow4Facts, RootBitsAssumption DEF Flat
<1>2. n \in 0 .. Pow4[RootBits] - 1
  BY <1>1
<1>3. r \in Nat /\ r * r <= n /\ n < (r + 1) * (r + 1)
  BY <1>2, RestoringExact
<1> HIDE DEF r
<1>4. r < Side
  <2> SUFFICES ASSUME r >= Side PROVE FALSE
    BY <1>1, <1>3
  <2>1. Side * Side <= r * r
    BY <1>1, <1>3, SquareMonotone
  <2> QED
    BY <1>1, <1>3, <2>1
<1> QED
  BY <1>1, <1>3, <1>4 DEF Fold, r

-----------------------------------------------------------------------------
(* The pairing and the folds.                                              *)

(* szudzik_unpair inverts szudzik_pair on every pair of folds, and the     *)
(* paired value fits an address (hex_encode.v:46-54, hex_decode.v:68-82).  *)
THEOREM PairUnpair ==
  ASSUME NEW x \in Fold, NEW y \in Fold
  PROVE  SzudzikPair(x, y) \in Flat /\ SzudzikUnpair(SzudzikPair(x, y)) = <<x, y>>
<1> DEFINE n == SzudzikPair(x, y)
           m == IF x < y THEN y ELSE x
<1>1. x \in Nat /\ y \in Nat /\ x < Side /\ y < Side /\ Side \in Nat  BY FoldFacts DEF Fold
<1>2. n \in Nat /\ m \in Nat /\ m * m <= n /\ n < (m + 1) * (m + 1)
  BY <1>1, Z3 DEF SzudzikPair
<1>3. n \in Flat
  <2>1. (m + 1) * (m + 1) <= Side * Side BY <1>1, SquareMonotone
  <2>2. Side * Side \in Int /\ (m+1)*(m+1) \in Int BY <1>1
  <2> HIDE DEF n, m
  <2> QED BY <1>2, <2>1, <2>2 DEF Flat
<1>4. Isqrt(n) \in Nat /\ Isqrt(n) * Isqrt(n) <= n /\ n < (Isqrt(n) + 1) * (Isqrt(n) + 1)
  BY <1>3, IsqrtAssumption, FoldFacts DEF Fold
<1>5. Isqrt(n) = m
  <2> HIDE DEF n, m
  <2> QED BY <1>2, <1>4, RootUnique
<1>6. SzudzikUnpair(n) = <<x, y>>
  <2>1. CASE x < y
    <3>1. n = y * y + x /\ m = y BY <2>1 DEF SzudzikPair
    <3>2. y * y \in Int BY <1>1
    <3> HIDE DEF n, m
    <3> QED BY <1>1, <1>5, <2>1, <3>1, <3>2 DEF SzudzikUnpair
  <2>2. CASE ~(x < y)
    <3>1. n = x * x + x + y /\ m = x BY <2>2 DEF SzudzikPair
    <3>2. x * x \in Int BY <1>1
    <3> HIDE DEF n, m
    <3> QED BY <1>1, <1>5, <2>2, <3>1, <3>2 DEF SzudzikUnpair
  <2> QED BY <2>1, <2>2
<1> QED BY <1>3, <1>6

-----------------------------------------------------------------------------
(* Residues modulo the side, on the two ranges next to 0 .. Side - 1.      *)
LEMMA ModSmall ==
  ASSUME NEW z \in Int, 0 <= z, z < Side
  PROVE  z % Side = z
BY FoldFacts, Z3

(* ... one side above that range,                                          *)
LEMMA ModAbove ==
  ASSUME NEW z \in Int, Side <= z, z < 2 * Side
  PROVE  z % Side = z - Side
BY FoldFacts, Z3

(* ... and one side below it.                                              *)
LEMMA ModBelow ==
  ASSUME NEW z \in Int, -Side <= z, z < 0
  PROVE  z % Side = z + Side
BY FoldFacts, Z3

(* sign_unfold inverts sign_fold on every coordinate, the most negative    *)
(* one (whose doubled magnitude is cut to 0) included.                     *)
LEMMA FoldUnfold ==
  ASSUME NEW z \in Coord
  PROVE  SignFold(z) \in Fold /\ SignUnfold(SignFold(z)) = z
<1>1. CASE z >= 0
  <2>1. SignFold(z) = 2 * z
    <3>1. 2 * Abs(z) = 2 * z /\ 0 <= 2 * z /\ 2 * z < Side BY <1>1, FoldFacts DEF Abs, Coord
    <3> QED BY <1>1, <3>1, ModSmall, FoldFacts DEF SignFold, Coord
  <2> QED BY <1>1, <2>1, FoldFacts DEF SignUnfold, Coord, Fold
<1>2. CASE z < 0 /\ z # -HalfSide
  <2>1. SignFold(z) = -2 * z - 1
    <3>1. z \in Int /\ Abs(z) = -z /\ 0 <= 2 * (-z) /\ 2 * (-z) < Side /\ 0 <= 2 * (-z) - 1 BY <1>2, FoldFacts DEF Abs, Coord
    <3>2. (2 * Abs(z)) % Side = 2 * (-z) BY <1>2, <3>1, ModSmall, FoldFacts
    <3>3. (2 * (-z) - 1) % Side = 2 * (-z) - 1 BY <3>1, ModSmall, FoldFacts DEF Coord
    <3> QED BY <1>2, <3>2, <3>3, FoldFacts DEF SignFold, Coord
  <2> QED BY <1>2, <2>1, FoldFacts DEF SignUnfold, Coord, Fold
<1>3. CASE z = -HalfSide
  <2>1. SignFold(z) = Side - 1
    <3>1. Abs(z) = HalfSide /\ z < 0 /\ z \in Int BY <1>3, HalfSideAssumption DEF Abs
    <3>2. (2 * Abs(z)) % Side = 0 BY <3>1, ModAbove, FoldFacts
    <3>3. (0 - 1) % Side = Side - 1 BY ModBelow, FoldFacts
    <3> QED BY <3>1, <3>2, <3>3 DEF SignFold
  <2>2. Side - 1 = 2 * HalfSide - 1 /\ HalfSide \in Nat /\ HalfSide >= 2 BY FoldFacts, HalfSideAssumption
  <2> QED BY <1>3, <2>1, <2>2, FoldFacts DEF SignUnfold, Fold
<1> QED BY <1>1, <1>2, <1>3, FoldFacts DEF Coord

(* ... and sign_fold inverts sign_unfold.                                  *)
LEMMA UnfoldFold ==
  ASSUME NEW n \in Fold
  PROVE  SignUnfold(n) \in Coord /\ SignFold(SignUnfold(n)) = n
<1> DEFINE z == SignUnfold(n)
<1>0. n \in Nat /\ n < Side /\ HalfSide \in Nat BY FoldFacts, HalfSideAssumption DEF Fold
<1>1. CASE n % 2 = 0
  <2>1. z = n \div 2 /\ z >= 0 /\ 2 * z = n BY <1>0, <1>1 DEF SignUnfold
  <2>2. z \in Coord BY <1>0, <2>1, FoldFacts DEF Coord
  <2>3. z \in Int /\ Abs(z) = z BY <1>0, <2>1 DEF Abs
  <2> HIDE DEF z
  <2>4. SignFold(z) = n BY <1>0, <2>1, <2>3, ModSmall DEF SignFold
  <2> QED BY <2>2, <2>4 DEF z
<1>2. CASE n % 2 = 1
  <2>1. z \in Int /\ z < 0 /\ n = 2 * (-z) - 1 BY <1>0, <1>2 DEF SignUnfold
  <2> HIDE DEF z
  <2>2. z \in Coord BY <1>0, <2>1, FoldFacts DEF Coord
  <2>3. SignUnfold(SignFold(z)) = z /\ SignFold(z) \in Fold BY <2>2, FoldUnfold
  <2>4. SignFold(z) = n
    <3>1. CASE n + 1 < Side
      <4>1. Abs(z) = -z /\ 2 * Abs(z) = n + 1 BY <2>1 DEF Abs
      <4>2. (n + 1) % Side = n + 1 /\ n % Side = n BY <3>1, <1>0, ModSmall
      <4> QED BY <4>1, <4>2, <2>1, <1>0 DEF SignFold
    <3>2. CASE n + 1 = Side
      <4>1. Abs(z) = -z /\ 2 * Abs(z) = Side BY <2>1, <1>0, <3>2, FoldFacts DEF Abs
      <4>2. Side % Side = 0 /\ (0 - 1) % Side = Side - 1 BY ModAbove, ModBelow, FoldFacts
      <4> QED BY <4>1, <4>2, <2>1, <1>0, <3>2 DEF SignFold
    <3> QED BY <1>0, <3>1, <3>2, FoldFacts
  <2> QED BY <2>2, <2>4 DEF z
<1> QED BY <1>0, <1>1, <1>2

-----------------------------------------------------------------------------
(* Every cell of the box has an address of its own (hex_encode.v) ...      *)
THEOREM EncodeDecode ==
  ASSUME NEW a \in Coord, NEW b \in Coord
  PROVE  HexEncode(a, b) \in Flat /\ HexDecode(HexEncode(a, b)) = <<a, b>>
BY FoldUnfold, PairUnpair DEF HexEncode, HexDecode

(* szudzik_pair inverts szudzik_unpair on every address.                   *)
LEMMA UnpairPair ==
  ASSUME NEW n \in Flat
  PROVE  /\ SzudzikUnpair(n) \in Fold \X Fold
         /\ SzudzikPair(SzudzikUnpair(n)[1], SzudzikUnpair(n)[2]) = n
<1> DEFINE s == Isqrt(n)
           r == n - s * s
<1>1. s \in Nat /\ s < Side /\ s * s \in Nat /\ s * s <= n /\ n < (s + 1) * (s + 1) /\ n \in Nat /\ Side \in Nat
  BY IsqrtAssumption, FoldFacts DEF Fold, Flat
<1>2. (s + 1) * (s + 1) = s * s + 2 * s + 1  BY <1>1
<1>3. r \in Nat /\ r <= 2 * s  BY <1>1, <1>2
<1>4. CASE n < s * s + s
  <2>1. SzudzikUnpair(n) = <<r, s>> BY <1>4 DEF SzudzikUnpair
  <2>2. r < s BY <1>1, <1>3, <1>4
  <2>3. SzudzikPair(r, s) = n BY <1>1, <2>2 DEF SzudzikPair
  <2> HIDE DEF s, r
  <2> QED BY <1>1, <1>3, <2>1, <2>2, <2>3 DEF Fold
<1>5. CASE ~(n < s * s + s)
  <2>1. SzudzikUnpair(n) = <<s, r - s>> BY <1>5 DEF SzudzikUnpair
  <2>2. r - s \in Nat /\ r - s <= s BY <1>1, <1>3, <1>5
  <2>3. SzudzikPair(s, r - s) = n BY <1>1, <2>2 DEF SzudzikPair
  <2> HIDE DEF s, r
  <2> QED BY <1>1, <1>3, <2>1, <2>2, <2>3 DEF Fold
<1> QED BY <1>4, <1>5

(* ... and every address names a cell of the box (hex_decode.v).           *)
THEOREM DecodeEncode ==
  ASSUME NEW n \in Flat
  PROVE  /\ HexDecode(n) \in Coord \X Coord
         /\ HexEncode(HexDecode(n)[1], HexDecode(n)[2]) = n
BY UnpairPair, UnfoldFold DEF HexEncode, HexDecode

-----------------------------------------------------------------------------
(* Hops.  A unit step from a coordinate wraps at the two ends of the box   *)
(* and nowhere else.                                                       *)
LEMMA WrapFacts ==
  ASSUME NEW c \in Coord, NEW d \in {-1, 0, 1}
  PROVE  /\ Wrap(c + d) \in Coord
         /\ Wrap(c + d) = IF c + d = HalfSide THEN -HalfSide
                          ELSE IF c + d = -HalfSide - 1 THEN HalfSide - 1 ELSE c + d
<1>1. c \in Int /\ -HalfSide <= c /\ c < HalfSide /\ d \in Int /\ HalfSide \in Nat /\ HalfSide >= 2
  BY FoldFacts DEF Coord
<1>2. CASE c + d = HalfSide
  <2>1. (c + d + HalfSide) % Side = 0 BY <1>1, <1>2, ModAbove, FoldFacts
  <2> QED BY <1>1, <1>2, <2>1, FoldFacts DEF Wrap
<1>3. CASE c + d = -HalfSide - 1
  <2>1. (c + d + HalfSide) % Side = Side - 1 BY <1>1, <1>3, ModBelow, FoldFacts
  <2> QED BY <1>1, <1>3, <2>1, FoldFacts DEF Wrap
<1>4. CASE -HalfSide <= c + d /\ c + d < HalfSide
  <2>1. (c + d + HalfSide) % Side = c + d + HalfSide BY <1>1, <1>4, ModSmall, FoldFacts
  <2> QED BY <1>1, <1>4, <2>1, FoldFacts DEF Wrap
<1> QED BY <1>1, <1>2, <1>3, <1>4

(* A unit step can be undone, across the edge of the box too.              *)
LEMMA WrapBack ==
  ASSUME NEW c \in Coord, NEW d \in {-1, 0, 1}
  PROVE  Wrap(Wrap(c + d) + (-d)) = c
<1>1. -d \in {-1, 0, 1} OBVIOUS
<1> DEFINE w == Wrap(c + d)
<1>2. w \in Coord BY WrapFacts
<1>3. w = IF c + d = HalfSide THEN -HalfSide
          ELSE IF c + d = -HalfSide - 1 THEN HalfSide - 1 ELSE c + d BY WrapFacts
<1> HIDE DEF w
<1>4. Wrap(w + (-d)) = IF w + (-d) = HalfSide THEN -HalfSide
          ELSE IF w + (-d) = -HalfSide - 1 THEN HalfSide - 1 ELSE w + (-d) BY <1>1, <1>2, WrapFacts
<1>5. Wrap(w + (-d)) = c BY <1>3, <1>4, FoldFacts DEF Coord
<1> QED BY <1>5 DEF w

(* Different unit steps from a coordinate lead apart (the box is at least  *)
(* four cells wide).                                                       *)
LEMMA WrapApart ==
  ASSUME NEW c \in Coord, NEW d \in {-1, 0, 1}, NEW e \in {-1, 0, 1}, Wrap(c + d) = Wrap(c + e)
  PROVE  d = e
BY WrapFacts, FoldFacts DEF Coord

(* The six offsets are distinct units, opposite ones three apart.          *)
LEMMA OffsetFacts ==
  /\ \A k \in 0 .. 5 : Offset[k] \in {-1, 0, 1} \X {-1, 0, 1} /\ Offset[k] # <<0, 0>>
  /\ \A j, k \in 0 .. 5 : Offset[j] = Offset[k] => j = k
  /\ \A k \in 0 .. 5 : Offset[(k + 3) % 6] = <<-Offset[k][1], -Offset[k][2]>>
BY DEF Offset

(* Hopping in direction k and then in the opposite direction k + 3 returns *)
(* to the start, across the edge of the box too (hex_encode.v:70-118).     *)
THEOREM OppositeHops ==
  ASSUME NEW n \in Flat, NEW k \in 0 .. 5
  PROVE  HexNeighbor(HexNeighbor(n, k), (k + 3) % 6) = n
<1> DEFINE c == HexDecode(n)
           d == Offset[k]
           m == <<Wrap(c[1] + d[1]), Wrap(c[2] + d[2])>>
<1>1. c \in Coord \X Coord /\ HexEncode(c[1], c[2]) = n  BY DecodeEncode
<1>2. d \in {-1, 0, 1} \X {-1, 0, 1} /\ Offset[(k + 3) % 6] = <<-d[1], -d[2]>>  BY OffsetFacts
<1> HIDE DEF c, d
<1>3. m[1] \in Coord /\ m[2] \in Coord  BY <1>1, <1>2, WrapFacts
<1>4. HexDecode(HexNeighbor(n, k)) = m  BY <1>3, EncodeDecode DEF HexNeighbor, c, d
<1>5. Wrap(m[1] + (-d[1])) = c[1] /\ Wrap(m[2] + (-d[2])) = c[2]  BY <1>1, <1>2, WrapBack
<1> HIDE DEF m
<1> QED BY <1>1, <1>2, <1>4, <1>5 DEF HexNeighbor

(* The seven addresses of a pod are addresses, and distinct                *)
(* (hex_pod_addr.v:22-41).                                                 *)
THEOREM PodDistinct ==
  ASSUME NEW n \in Flat
  PROVE  /\ \A j \in 0 .. 6 : HexPod(n)[j] \in Flat
         /\ \A i, j \in 0 .. 6 : HexPod(n)[i] = HexPod(n)[j] => i = j
<1> DEFINE c == HexDecode(n)
           off(j) == IF j = 0 THEN <<0, 0>> ELSE Offset[j - 1]
           cell(j) == <<Wrap(c[1] + off(j)[1]), Wrap(c[2] + off(j)[2])>>
<1>1. c \in Coord \X Coord /\ HexEncode(c[1], c[2]) = n  BY DecodeEncode
<1>2. \A j \in 0 .. 6 : off(j) \in {-1, 0, 1} \X {-1, 0, 1}  BY OffsetFacts
<1>3. \A i, j \in 0 .. 6 : off(i) = off(j) => i = j
  <2>1. \A j \in 0 .. 6 : j # 0 => j - 1 \in 0 .. 5  OBVIOUS
  <2> QED BY <2>1, OffsetFacts
<1> HIDE DEF c, off
<1>4. ASSUME NEW j \in 0 .. 6
      PROVE  cell(j) \in Coord \X Coord /\ HexPod(n)[j] = HexEncode(cell(j)[1], cell(j)[2])
  <2>1. cell(j) \in Coord \X Coord  BY <1>1, <1>2, WrapFacts
  <2>2. CASE j = 0
    <3>1. off(j) = <<0, 0>> BY <2>2 DEF off
    <3>2. cell(j) = c BY <1>1, <3>1, WrapFacts, FoldFacts DEF Coord
    <3> QED BY <1>1, <2>1, <2>2, <3>2 DEF HexPod
  <2>3. CASE j # 0
    <3>1. off(j) = Offset[j - 1] BY <2>3 DEF off
    <3> QED BY <2>1, <2>3, <3>1 DEF HexPod, HexNeighbor, c
  <2> QED BY <2>2, <2>3
<1>5. ASSUME NEW i \in 0 .. 6, NEW j \in 0 .. 6, HexPod(n)[i] = HexPod(n)[j]
      PROVE  i = j
  <2>1. cell(i) = cell(j)
    <3>1. HexDecode(HexPod(n)[i]) = cell(i) /\ HexDecode(HexPod(n)[j]) = cell(j)
      BY <1>4, EncodeDecode
    <3> QED BY <1>5, <3>1
  <2>2. off(i)[1] = off(j)[1] /\ off(i)[2] = off(j)[2]  BY <1>1, <1>2, <2>1, WrapApart
  <2>3. off(i) = off(j)  BY <1>2, <2>2
  <2> QED BY <1>3, <2>3
<1> QED BY <1>4, <1>5, EncodeDecode

-----------------------------------------------------------------------------
(* The walk.                                                               *)

(* Up and Down are what Wrap makes of a unit step.                         *)
LEMMA UpDown ==
  ASSUME NEW z \in Coord
  PROVE  Wrap(z + 1) = Up(z) /\ Wrap(z + (-1)) = Down(z) /\ Wrap(z + 0) = z
<1>1. z \in Int /\ -HalfSide <= z /\ z < HalfSide /\ HalfSide \in Nat /\ HalfSide >= 2
  BY FoldFacts DEF Coord
<1>2. Wrap(z + 1) = Up(z)  BY <1>1, WrapFacts DEF Up
<1>3. Wrap(z + (-1)) = Down(z)  BY <1>1, WrapFacts DEF Down
<1>4. Wrap(z + 0) = z  BY <1>1, WrapFacts
<1> QED BY <1>2, <1>3, <1>4

(* ... so a hop is what the address unit does to both coordinates.         *)
LEMMA BesideWraps ==
  ASSUME NEW p \in Coord \X Coord, NEW k \in 0 .. 5
  PROVE  Beside(p, k) = <<Wrap(p[1] + Offset[k][1]), Wrap(p[2] + Offset[k][2])>>
<1>1. p[1] \in Coord /\ p[2] \in Coord  OBVIOUS
<1>2. CASE k = 0  BY <1>1, <1>2, UpDown DEF Beside, Offset
<1>3. CASE k = 1  BY <1>1, <1>3, UpDown DEF Beside, Offset
<1>4. CASE k = 2  BY <1>1, <1>4, UpDown DEF Beside, Offset
<1>5. CASE k = 3  BY <1>1, <1>5, UpDown DEF Beside, Offset
<1>6. CASE k = 4  BY <1>1, <1>6, UpDown DEF Beside, Offset
<1>7. CASE k = 5  BY <1>1, <1>7, UpDown DEF Beside, Offset
<1> QED BY <1>2, <1>3, <1>4, <1>5, <1>6, <1>7

(* The neighbour of a cell, by address and by cell.                        *)
LEMMA NeighborNames ==
  ASSUME NEW p \in Coord \X Coord, NEW k \in 0 .. 5
  PROVE  /\ Beside(p, k) \in Coord \X Coord
         /\ HexNeighbor(HexEncode(p[1], p[2]), k) = HexEncode(Beside(p, k)[1], Beside(p, k)[2])
<1> DEFINE q == <<Wrap(p[1] + Offset[k][1]), Wrap(p[2] + Offset[k][2])>>
<1>1. HexDecode(HexEncode(p[1], p[2])) = p  BY EncodeDecode
<1>2. Offset[k] \in {-1, 0, 1} \X {-1, 0, 1}  BY OffsetFacts
<1>3. q \in Coord \X Coord  BY <1>2, WrapFacts
<1>4. q = Beside(p, k)  BY BesideWraps
<1>5. HexNeighbor(HexEncode(p[1], p[2]), k) = HexEncode(q[1], q[2])
  BY <1>1 DEF HexNeighbor
<1> QED BY <1>3, <1>4, <1>5

(* A hop keeps the address and the position together.                      *)
LEMMA HopNames ==
  ASSUME NamesPosition, NEW k \in 0 .. 5, Hop(k)
  PROVE  NamesPosition'
<1>1. flat' = HexNeighbor(flat, k) /\ pos' = Beside(pos, k)
  <2>1. k + 1 \in 0 .. 6 /\ k + 1 # 0 /\ (k + 1) - 1 = k  OBVIOUS
  <2> QED BY <2>1 DEF Hop, HexPod
<1>2. pos' \in Coord \X Coord /\ flat' = HexEncode(pos'[1], pos'[2])
  BY <1>1, NeighborNames DEF NamesPosition
<1> QED BY <1>2, EncodeDecode DEF NamesPosition

(* The address a walker holds names the cell it believes it stands on,     *)
(* after any number of hops and wraps.                                     *)
THEOREM WalkNamesPosition == WalkSpec => []NamesPosition
<1>1. WalkInit => NamesPosition
  <2> SUFFICES ASSUME WalkInit PROVE NamesPosition  OBVIOUS
  <2>1. 0 \in Coord  BY FoldFacts
  <2>2. HexEncode(0, 0) = 0
    <3>1. SignFold(0) = 0  BY ModSmall, FoldFacts DEF SignFold, Abs
    <3> QED BY <3>1 DEF HexEncode, SzudzikPair
  <2> QED BY <2>1, <2>2, EncodeDecode DEF WalkInit, NamesPosition
<1>2. NamesPosition /\ [WalkNext]_wvars => NamesPosition'
  <2> SUFFICES ASSUME NamesPosition, [WalkNext]_wvars PROVE NamesPosition'  OBVIOUS
  <2>1. CASE WalkNext
    <3>1. PICK k \in 0 .. 5 : Hop(k)  BY <2>1 DEF WalkNext
    <3> QED BY <3>1, HopNames
  <2>2. CASE UNCHANGED wvars  BY <2>2 DEF NamesPosition, wvars
  <2> QED BY <2>1, <2>2
<1> QED BY <1>1, <1>2, PTL DEF WalkSpec

(* The ring of every pod closes, wherever the walk has led.                *)
THEOREM WalkRingCloses == WalkSpec => []RingCloses
<1>1. NamesPosition => RingCloses
  <2> SUFFICES ASSUME NamesPosition, NEW k \in 0 .. 5
               PROVE  LET n == HexNeighbor(flat, k)
                      IN  /\ HexNeighbor(n, (k + 2) % 6) = HexNeighbor(flat, (k + 1) % 6)
                          /\ HexNeighbor(n, (k + 3) % 6) = flat
    BY DEF RingCloses
  <2> DEFINE n == HexNeighbor(flat, k)
             q == Beside(pos, k)
  <2>1. /\ pos \in Coord \X Coord /\ flat \in Flat /\ flat = HexEncode(pos[1], pos[2])
        /\ (k + 1) % 6 \in 0 .. 5 /\ (k + 2) % 6 \in 0 .. 5
    BY DEF NamesPosition
  <2>2. q \in Coord \X Coord /\ n = HexEncode(q[1], q[2])  BY <2>1, NeighborNames
  <2>3. HexNeighbor(n, (k + 2) % 6)
          = HexEncode(Beside(q, (k + 2) % 6)[1], Beside(q, (k + 2) % 6)[2])
    BY <2>1, <2>2, NeighborNames
  <2>4. HexNeighbor(flat, (k + 1) % 6)
          = HexEncode(Beside(pos, (k + 1) % 6)[1], Beside(pos, (k + 1) % 6)[2])
    BY <2>1, NeighborNames
  <2>5. Beside(q, (k + 2) % 6) = Beside(pos, (k + 1) % 6)
    <3>1. \A z \in Coord : /\ Up(z) \in Coord /\ Down(z) \in Coord
                           /\ Up(Down(z)) = z /\ Down(Up(z)) = z
      BY FoldFacts DEF Up, Down, Coord
    <3>2. pos[1] \in Coord /\ pos[2] \in Coord  BY <2>1
    <3>3. CASE k = 0  BY <3>1, <3>2, <3>3 DEF Beside
    <3>4. CASE k = 1  BY <3>1, <3>2, <3>4 DEF Beside
    <3>5. CASE k = 2  BY <3>1, <3>2, <3>5 DEF Beside
    <3>6. CASE k = 3  BY <3>1, <3>2, <3>6 DEF Beside
    <3>7. CASE k = 4  BY <3>1, <3>2, <3>7 DEF Beside
    <3>8. CASE k = 5  BY <3>1, <3>2, <3>8 DEF Beside
    <3> QED BY <3>3, <3>4, <3>5, <3>6, <3>7, <3>8
  <2> QED BY <2>1, <2>3, <2>4, <2>5, OppositeHops
<1> QED BY <1>1, WalkNamesPosition, PTL

(* Which folds an address below 64 has.                                    *)
LEMMA PairBelow64 ==
  ASSUME NEW x \in Nat, NEW y \in Nat
  PROVE  SzudzikPair(x, y) < 64 <=> x < 8 /\ y < 8
<1>1. \A m \in Nat : m * m \in Nat /\ (m >= 8 => m * m >= 8 * 8)
                     /\ (m < 8 => m * m + m + m < 64)
  <2>1. \A m \in Nat : m >= 8 => m * m >= 8 * 8  BY SquareMonotone
  <2>2. \A m \in Nat : m < 8 => m \in {0, 1, 2, 3, 4, 5, 6, 7}  OBVIOUS
  <2>3. \A m \in {0, 1, 2, 3, 4, 5, 6, 7} : m * m + m + m < 64  OBVIOUS
  <2> QED BY <2>1, <2>2, <2>3
<1>2. CASE x < y
  <2>1. SzudzikPair(x, y) = y * y + x  BY <1>2 DEF SzudzikPair
  <2> QED BY <1>1, <1>2, <2>1
<1>3. CASE ~(x < y)
  <2>1. SzudzikPair(x, y) = x * x + x + y  BY <1>3 DEF SzudzikPair
  <2> QED BY <1>1, <1>3, <2>1
<1> QED BY <1>2, <1>3

(* Which coordinate folds below 8.                                         *)
LEMMA FoldBelow8 ==
  ASSUME HalfSide >= 8, NEW z \in Coord
  PROVE  SignFold(z) < 8 <=> -4 <= z /\ z <= 3
<1>1. z \in Int /\ -HalfSide <= z /\ z < HalfSide /\ HalfSide \in Nat
  BY FoldFacts DEF Coord
<1>2. SignFold(z) \in Int /\ 0 <= SignFold(z) /\ SignFold(z) < Side
  BY FoldUnfold, FoldFacts DEF Fold
<1>3. z = IF SignFold(z) % 2 = 1 THEN -((SignFold(z) + 1) \div 2) ELSE SignFold(z) \div 2
  BY FoldUnfold DEF SignUnfold
<1> DEFINE f == SignFold(z)
<1>4. f \in Int /\ 0 <= f /\ z = IF f % 2 = 1 THEN -((f + 1) \div 2) ELSE f \div 2
  BY <1>2, <1>3
<1> HIDE DEF f
<1>5. f < 8 <=> -4 <= z /\ z <= 3  BY <1>1, <1>4
<1> QED BY <1>5 DEF f

(* The store is a box of cells.                                            *)
LEMMA BelowBox ==
  ASSUME HalfSide >= 8, NEW p \in Coord \X Coord
  PROVE  HexEncode(p[1], p[2]) < 64 <=> /\ -4 <= p[1] /\ p[1] <= 3
                                        /\ -4 <= p[2] /\ p[2] <= 3
<1>1. SignFold(p[1]) \in Nat /\ SignFold(p[2]) \in Nat  BY FoldUnfold DEF Fold
<1> QED BY <1>1, PairBelow64, FoldBelow8 DEF HexEncode

(* The centres whose pod lies inside the store of the field accelerator    *)
(* (hex_field_accel.v:51-65): those one cell away from the rim of the box. *)
THEOREM WalkStoreBox ==
  ASSUME HalfSide >= 8
  PROVE  WalkSpec => []StoreBox
<1>1. NamesPosition => StoreBox
  <2> SUFFICES ASSUME NamesPosition PROVE StoreBox  OBVIOUS
  <2>1. /\ pos \in Coord \X Coord /\ flat = HexEncode(pos[1], pos[2]) /\ flat \in Flat
        /\ pos[1] \in Int /\ pos[2] \in Int
    BY DEF NamesPosition, Coord
  <2>2. flat < 64 <=> pos[1] \in -4 .. 3 /\ pos[2] \in -4 .. 3  BY <2>1, BelowBox
  <2>3. ASSUME NEW k \in 0 .. 5
        PROVE  HexNeighbor(flat, k) < 64 <=> /\ -4 <= Beside(pos, k)[1] /\ Beside(pos, k)[1] <= 3
                                             /\ -4 <= Beside(pos, k)[2] /\ Beside(pos, k)[2] <= 3
    BY <2>1, NeighborNames, BelowBox
  <2>4. (\A j \in 0 .. 6 : HexPod(flat)[j] < 64)
          <=> flat < 64 /\ \A k \in 0 .. 5 : HexNeighbor(flat, k) < 64
    <3>1. \A j \in 0 .. 6 : j = 0 \/ j - 1 \in 0 .. 5  OBVIOUS
    <3>2. \A k \in 0 .. 5 : k + 1 \in 0 .. 6 /\ k + 1 # 0 /\ (k + 1) - 1 = k  OBVIOUS
    <3>3. /\ HexPod(flat)[0] = flat
          /\ \A j \in 0 .. 6 : j # 0 => HexPod(flat)[j] = HexNeighbor(flat, j - 1)
      BY DEF HexPod
    <3> QED BY <3>1, <3>2, <3>3
  <2>5. flat < 64 /\ (\A k \in 0 .. 5 : HexNeighbor(flat, k) < 64)
          <=> -3 <= pos[1] /\ pos[1] <= 2 /\ -3 <= pos[2] /\ pos[2] <= 2
    <3>1. \A z \in Coord : /\ -4 <= z /\ z <= 3 =>
                             /\ Up(z) = z + 1
                             /\ z > -4 => Down(z) = z - 1
                           /\ z = -4 => Down(z) = IF HalfSide = 4 THEN 3 ELSE -5
      BY FoldFacts DEF Up, Down, Coord
    <3>2. 0 \in 0 .. 5 /\ 1 \in 0 .. 5 /\ 3 \in 0 .. 5 /\ 4 \in 0 .. 5  OBVIOUS
    <3>3. /\ Beside(pos, 0) = <<Up(pos[1]), pos[2]>>
          /\ Beside(pos, 1) = <<pos[1], Up(pos[2])>>
          /\ Beside(pos, 2) = <<Down(pos[1]), Up(pos[2])>>
          /\ Beside(pos, 3) = <<Down(pos[1]), pos[2]>>
          /\ Beside(pos, 4) = <<pos[1], Down(pos[2])>>
          /\ Beside(pos, 5) = <<Up(pos[1]), Down(pos[2])>>
      BY DEF Beside
    <3>4. CASE -3 <= pos[1] /\ pos[1] <= 2 /\ -3 <= pos[2] /\ pos[2] <= 2
      <4>1. \A k \in {0, 1, 2, 3, 4, 5} : HexNeighbor(flat, k) < 64
        BY <2>1, <2>3, <3>1, <3>3, <3>4
      <4>2. flat < 64  BY <2>1, <2>2, <3>4
      <4> QED BY <3>4, <4>1, <4>2
    <3>5. ASSUME flat < 64, \A k \in 0 .. 5 : HexNeighbor(flat, k) < 64
          PROVE  -3 <= pos[1] /\ pos[1] <= 2 /\ -3 <= pos[2] /\ pos[2] <= 2
      <4>1. -4 <= pos[1] /\ pos[1] <= 3 /\ -4 <= pos[2] /\ pos[2] <= 3
        BY <2>1, <2>2, <3>5
      <4>2. pos[1] # 3  BY <2>1, <2>3, <3>1, <3>2, <3>3, <3>5, <4>1
      <4>3. pos[2] # 3  BY <2>1, <2>3, <3>1, <3>2, <3>3, <3>5, <4>1
      <4>4. pos[1] # -4  BY <2>1, <2>3, <3>1, <3>2, <3>3, <3>5, <4>1
      <4>5. pos[2] # -4  BY <2>1, <2>3, <3>1, <3>2, <3>3, <3>5, <4>1
      <4> QED BY <2>1, <4>1, <4>2, <4>3, <4>4, <4>5
    <3> QED BY <3>4, <3>5
  <2>6. pos[1] \in -3 .. 2 /\ pos[2] \in -3 .. 2
          <=> -3 <= pos[1] /\ pos[1] <= 2 /\ -3 <= pos[2] /\ pos[2] <= 2
    BY <2>1
  <2> QED BY <2>2, <2>4, <2>5, <2>6 DEF StoreBox
<1> QED BY <1>1, WalkNamesPosition, PTL

-----------------------------------------------------------------------------
(* The same walk through the Python address functions.                     *)

(* hexaddr.py:36-64 on integers of any size.  A pair has its larger member *)
(* as the root of its number, so math.isqrt is asked only for roots that   *)
(* exist.                                                                  *)
LEMMA PyPairUnpair ==
  ASSUME NEW x \in Nat, NEW y \in Nat
  PROVE  szudzik_pair(x, y) \in Nat /\ szudzik_unpair(szudzik_pair(x, y)) = <<x, y>>
<1> DEFINE n == szudzik_pair(x, y)
           m == IF x < y THEN y ELSE x
           r == isqrt(n)
<1>1. n \in Nat /\ m \in Nat /\ m * m <= n /\ n < (m + 1) * (m + 1) /\ m * m \in Nat
  BY Z3 DEF szudzik_pair
<1>2. m \in 0 .. n
  <2> HIDE DEF n, m
  <2>1. m = 0 \/ m >= 1  BY <1>1
  <2>2. m >= 1 => m * m >= m  BY <1>1
  <2> QED BY <1>1, <2>1, <2>2
<1>3. r \in 0 .. n /\ r * r <= n /\ n < (r + 1) * (r + 1)
  <2> HIDE DEF n, m
  <2> QED BY <1>1, <1>2 DEF isqrt
<1>4. r = m
  <2> HIDE DEF n, m, r
  <2>1. r \in Nat  BY <1>1, <1>3
  <2> QED BY <1>1, <1>3, <2>1, RootUnique
<1>5. szudzik_unpair(n) = <<x, y>>
  <2>1. CASE x < y
    <3>1. n = y * y + x /\ m = y  BY <2>1 DEF szudzik_pair
    <3>2. y * y \in Int  OBVIOUS
    <3> HIDE DEF n, m
    <3> QED BY <1>1, <1>4, <2>1, <3>1, <3>2 DEF szudzik_unpair
  <2>2. CASE ~(x < y)
    <3>1. n = x * x + x + y /\ m = x  BY <2>2 DEF szudzik_pair
    <3>2. x * x \in Int  OBVIOUS
    <3> HIDE DEF n, m
    <3> QED BY <1>1, <1>4, <2>2, <3>1, <3>2 DEF szudzik_unpair
  <2> QED BY <2>1, <2>2
<1> QED BY <1>1, <1>5

(* sign_unfold inverts sign_fold on every integer.                         *)
LEMMA PyFold ==
  ASSUME NEW z \in Int
  PROVE  sign_fold(z) \in Nat /\ sign_unfold(sign_fold(z)) = z
<1>1. CASE z < 0
  <2>1. sign_fold(z) = 2 * (-z) - 1  BY <1>1 DEF sign_fold
  <2>2. (2 * (-z) - 1) % 2 = 1 /\ (-((2 * (-z) - 1) + 1)) \div 2 = z  BY <1>1
  <2> QED BY <1>1, <2>1, <2>2 DEF sign_unfold
<1>2. CASE ~(z < 0)
  BY <1>2 DEF sign_fold, sign_unfold
<1> QED BY <1>1, <1>2

(* Every cell of the unbounded lattice has an address of its own.          *)
LEMMA PyNatOf ==
  ASSUME NEW c \in Int \X Int
  PROVE  eisenstein_to_nat(c) \in Nat /\ eisenstein_of_nat(eisenstein_to_nat(c)) = c
<1>1. c[1] \in Int /\ c[2] \in Int /\ c = <<c[1], c[2]>>  OBVIOUS
<1>2. /\ sign_fold(c[1]) \in Nat /\ sign_unfold(sign_fold(c[1])) = c[1]
      /\ sign_fold(c[2]) \in Nat /\ sign_unfold(sign_fold(c[2])) = c[2]
  BY <1>1, PyFold
<1>3. szudzik_unpair(eisenstein_to_nat(c)) = <<sign_fold(c[1]), sign_fold(c[2])>>
      /\ eisenstein_to_nat(c) \in Nat
  BY <1>2, PyPairUnpair DEF eisenstein_to_nat
<1> QED BY <1>1, <1>2, <1>3 DEF eisenstein_of_nat

(* Inside the box the two encoders agree, ...                              *)
LEMMA EncodersAgree ==
  ASSUME NEW c \in Coord \X Coord
  PROVE  eisenstein_to_nat(c) = HexEncode(c[1], c[2])
<1>1. ASSUME NEW z \in Coord PROVE sign_fold(z) = SignFold(z)
  <2>0. z \in Int /\ -HalfSide <= z /\ z < HalfSide /\ HalfSide \in Nat /\ HalfSide >= 2
    BY FoldFacts DEF Coord
  <2>1. CASE z >= 0
    <3>1. 2 * Abs(z) = 2 * z /\ 0 <= 2 * z /\ 2 * z < Side  BY <2>0, <2>1, FoldFacts DEF Abs
    <3>2. (2 * Abs(z)) % Side = 2 * z  BY <2>0, <3>1, ModSmall
    <3> QED BY <2>0, <2>1, <3>2 DEF SignFold, sign_fold
  <2>2. CASE z < 0
    <3>1. sign_fold(z) \in Fold
      BY <2>0, <2>2, FoldFacts DEF sign_fold
    <3>2. SignUnfold(sign_fold(z)) = z
      BY <2>0, <2>2 DEF sign_fold, SignUnfold
    <3> QED BY <3>1, <3>2, UnfoldFold
  <2> QED BY <2>0, <2>1, <2>2
<1>2. c[1] \in Coord /\ c[2] \in Coord  OBVIOUS
<1> QED BY <1>1, <1>2 DEF eisenstein_to_nat, HexEncode, szudzik_pair, SzudzikPair

(* ... and the address of a cell outside does not fit the register.        *)
LEMMA OutsideTooWide ==
  ASSUME NEW c \in Int \X Int, c \notin Coord \X Coord
  PROVE  eisenstein_to_nat(c) \notin Flat
<1> DEFINE x == sign_fold(c[1])
           y == sign_fold(c[2])
<1>1. c[1] \in Int /\ c[2] \in Int /\ (c[1] \notin Coord \/ c[2] \notin Coord)  OBVIOUS
<1>2. x \in Nat /\ y \in Nat  BY <1>1, PyFold
<1>3. \A z \in Int : z \notin Coord => sign_fold(z) >= Side
  BY FoldFacts DEF sign_fold
<1>4. x >= Side \/ y >= Side  BY <1>1, <1>3
<1>5. Side \in Nat  BY FoldFacts
<1> HIDE DEF x, y
<1>6. szudzik_pair(x, y) >= Side * Side /\ szudzik_pair(x, y) \in Nat
  <2>1. CASE x < y
    <3>1. Side <= y  BY <1>2, <1>4, <1>5, <2>1
    <3>2. Side * Side <= y * y  BY <1>2, <1>5, <3>1, SquareMonotone
    <3>3. y * y \in Nat /\ Side * Side \in Nat  BY <1>2, <1>5
    <3> QED BY <1>2, <2>1, <3>2, <3>3 DEF szudzik_pair
  <2>2. CASE ~(x < y)
    <3>1. Side <= x  BY <1>2, <1>4, <1>5, <2>2
    <3>2. Side * Side <= x * x  BY <1>2, <1>5, <3>1, SquareMonotone
    <3>3. x * x \in Nat /\ Side * Side \in Nat  BY <1>2, <1>5
    <3> QED BY <1>2, <2>2, <3>2, <3>3 DEF szudzik_pair
  <2> QED BY <2>1, <2>2
<1>7. Side * Side \in Nat  BY <1>5
<1>8. eisenstein_to_nat(c) = szudzik_pair(x, y)  BY DEF eisenstein_to_nat, x, y
<1> QED BY <1>6, <1>7, <1>8 DEF Flat

(* The six units, in the two orders.                                       *)
LEMMA UnitFacts ==
  /\ \A k \in 0 .. 5 : ANGLE_UNITS[(k % 6) + 1] = Offset[k]
  /\ \A k \in 0 .. 5 : UNITS[(k % 6) + 1] \in {-1, 0, 1} \X {-1, 0, 1}
  /\ {UNITS[(k % 6) + 1] : k \in 0 .. 5} = {Offset[k] : k \in 0 .. 5}
  /\ \A k \in 0 .. 5 : UNITS[(k % 6) + 1] = Offset[k] <=> k \in {0, 5}
<1>1. \A k \in 0 .. 5 : k \in {0, 1, 2, 3, 4, 5}  OBVIOUS
<1>2. /\ ANGLE_UNITS[1] = <<1, 0>> /\ ANGLE_UNITS[2] = <<0, 1>> /\ ANGLE_UNITS[3] = <<-1, 1>>
      /\ ANGLE_UNITS[4] = <<-1, 0>> /\ ANGLE_UNITS[5] = <<0, -1>> /\ ANGLE_UNITS[6] = <<1, -1>>
  BY DEF ANGLE_UNITS
<1>3. /\ UNITS[1] = <<1, 0>> /\ UNITS[2] = <<-1, 0>> /\ UNITS[3] = <<0, 1>>
      /\ UNITS[4] = <<0, -1>> /\ UNITS[5] = <<-1, 1>> /\ UNITS[6] = <<1, -1>>
  BY DEF UNITS
<1>4. /\ Offset[0] = <<1, 0>> /\ Offset[1] = <<0, 1>> /\ Offset[2] = <<-1, 1>>
      /\ Offset[3] = <<-1, 0>> /\ Offset[4] = <<0, -1>> /\ Offset[5] = <<1, -1>>
  BY DEF Offset
<1>5. \A k \in {0, 1, 2, 3, 4, 5} : (k % 6) + 1 = k + 1  OBVIOUS
<1>6. \A k \in 0 .. 5 : ANGLE_UNITS[(k % 6) + 1] = Offset[k]
  BY <1>1, <1>2, <1>4, <1>5
<1>7. \A k \in 0 .. 5 : UNITS[(k % 6) + 1] \in {-1, 0, 1} \X {-1, 0, 1}
  BY <1>1, <1>3, <1>5
<1>8. {UNITS[(k % 6) + 1] : k \in 0 .. 5} = {Offset[k] : k \in 0 .. 5}
  <2> DEFINE six == {<<1, 0>>, <<0, 1>>, <<-1, 1>>, <<-1, 0>>, <<0, -1>>, <<1, -1>>}
  <2>1. {UNITS[(k % 6) + 1] : k \in 0 .. 5} = six  BY <1>1, <1>3, <1>5
  <2>2. {Offset[k] : k \in 0 .. 5} = six  BY <1>1, <1>4
  <2> QED BY <2>1, <2>2
<1>9. \A k \in 0 .. 5 : UNITS[(k % 6) + 1] = Offset[k] <=> k \in {0, 5}
  BY <1>1, <1>3, <1>4, <1>5
<1> QED BY <1>6, <1>7, <1>8, <1>9

(* The neighbour of a cell, by address.                                    *)
LEMMA PyNeighbor ==
  ASSUME NEW c \in Int \X Int, NEW k \in 0 .. 5
  PROVE  /\ Beyond(c, Offset[k]) \in Int \X Int
         /\ neighbor_addr(eisenstein_to_nat(c), k) = eisenstein_to_nat(Beyond(c, Offset[k]))
         /\ pod(eisenstein_to_nat(c))[k + 2] = neighbor_addr(eisenstein_to_nat(c), k)
<1> DEFINE a == eisenstein_to_nat(c)
<1>1. Offset[k][1] \in Int /\ Offset[k][2] \in Int  BY OffsetFacts
<1>2. Beyond(c, Offset[k]) \in Int \X Int  BY <1>1 DEF Beyond
<1>3. neighbor_addr(a, k) = eisenstein_to_nat(Beyond(c, Offset[k]))
  BY PyNatOf, UnitFacts DEF neighbor_addr
<1>4. pod(a)[k + 2] = neighbor_addr(a, k)
  <2> DEFINE s == [j \in 1 .. 6 |-> neighbor_addr(a, j - 1)]
  <2>1. s \in Seq({neighbor_addr(a, j - 1) : j \in 1 .. 6}) /\ Len(s) = 6
    OBVIOUS
  <2>2. (<<a>> \o s)[k + 2] = s[k + 1]
    BY <2>1
  <2>3. s[k + 1] = neighbor_addr(a, k)  OBVIOUS
  <2> QED BY <2>2, <2>3 DEF pod
<1> QED BY <1>2, <1>3, <1>4

-----------------------------------------------------------------------------
(* The cell the Python program stands on, and the invariant: its position  *)
(* on the torus is that cell wrapped.                                      *)
PyCell == eisenstein_of_nat(addr)

LockInv ==
  /\ NamesPosition
  /\ PyCell \in Int \X Int
  /\ eisenstein_to_nat(PyCell) = addr
  /\ pos = <<Wrap(PyCell[1]), Wrap(PyCell[2])>>

(* Inside the box nothing wraps.                                           *)
LEMMA WrapInside == \A z \in Coord : Wrap(z) = z
<1> SUFFICES ASSUME NEW z \in Coord PROVE Wrap(z) = z  OBVIOUS
<1>1. z \in Int  BY FoldFacts DEF Coord
<1>2. Wrap(z + 0) = z  BY UpDown
<1> QED BY <1>1, <1>2

(* A step into or out of the box wraps as a step on the torus does.        *)
LEMMA StepWraps ==
  ASSUME NEW z \in Int, NEW d \in {-1, 0, 1}, z \in Coord \/ z + d \in Coord
  PROVE  Wrap(Wrap(z) + d) = Wrap(z + d)
<1>1. CASE z \in Coord  BY <1>1, WrapInside
<1>2. CASE z + d \in Coord
  <2> DEFINE w == z + d
  <2>1. w \in Coord /\ -d \in {-1, 0, 1} /\ z = w + (-d) /\ d = -(-d)  BY <1>2
  <2> HIDE DEF w
  <2>2. Wrap(Wrap(w + (-d)) + (-(-d))) = w  BY <2>1, WrapBack
  <2>3. Wrap(Wrap(z) + d) = w  BY <2>1, <2>2
  <2>4. Wrap(w) = w  BY <2>1, WrapInside
  <2> QED BY <2>3, <2>4 DEF w
<1> QED BY <1>1, <1>2

(* A walk starts in the box; a hop that touches it keeps the invariant.    *)
LEMMA LockInvariance == LockSpec => []LockInv
<1>1. LockInit => LockInv
  <2> SUFFICES ASSUME LockInit PROVE LockInv  OBVIOUS
  <2>1. 0 \in Coord  BY FoldFacts
  <2>2. NamesPosition
    <3>1. HexEncode(0, 0) = 0
      <4>1. SignFold(0) = 0  BY ModSmall, FoldFacts DEF SignFold, Abs
      <4> QED BY <4>1 DEF HexEncode, SzudzikPair
    <3> QED BY <2>1, <3>1, EncodeDecode DEF LockInit, WalkInit, NamesPosition
  <2>3. eisenstein_to_nat(<<0, 0>>) = 0
    BY DEF eisenstein_to_nat, sign_fold, szudzik_pair
  <2>4. PyCell = <<0, 0>>
    <3>1. <<0, 0>> \in Int \X Int  OBVIOUS
    <3> QED BY <2>3, <3>1, PyNatOf DEF PyCell, LockInit
  <2> QED BY <2>1, <2>2, <2>3, <2>4, WrapInside DEF LockInit, WalkInit, LockInv
<1>2. LockInv /\ [LockNext]_lockVars => LockInv'
  <2> SUFFICES ASSUME LockInv, [LockNext]_lockVars PROVE LockInv'  OBVIOUS
  <2>1. CASE LockNext
    <3>1. PICK k \in 0 .. 5 : /\ Hop(k) /\ PyHop(k)
                              /\ in_u32_box(PyCell) \/ in_u32_box(PyCell')
      BY <2>1 DEF LockNext, PyCell
    <3> DEFINE c == PyCell
               o == Offset[k]
               d == <<c[1] + o[1], c[2] + o[2]>>
    <3>2. c \in Int \X Int /\ addr = eisenstein_to_nat(c) /\ NamesPosition
          /\ pos = <<Wrap(c[1]), Wrap(c[2])>>
      BY DEF LockInv
    <3>3. addr' = eisenstein_to_nat(d) /\ PyCell' = d /\ d \in Int \X Int
      <4>1. d = Beyond(c, Offset[k])  BY DEF Beyond
      <4> HIDE DEF c, d
      <4>2. d \in Int \X Int /\ pod(addr)[k + 2] = eisenstein_to_nat(d)
        BY <3>2, <4>1, PyNeighbor
      <4>3. addr' = eisenstein_to_nat(d)  BY <3>1, <4>2 DEF PyHop
      <4>4. eisenstein_of_nat(addr') = d  BY <4>2, <4>3, PyNatOf
      <4> QED BY <4>2, <4>3, <4>4 DEF PyCell
    <3>4. NamesPosition'  BY <3>1, <3>2, HopNames
    <3>5. pos' = <<Wrap(pos[1] + o[1]), Wrap(pos[2] + o[2])>>
      BY <3>1, <3>2, BesideWraps DEF Hop, NamesPosition
    <3>6. pos' = <<Wrap(d[1]), Wrap(d[2])>>
      <4>1. o \in {-1, 0, 1} \X {-1, 0, 1}  BY OffsetFacts
      <4> HIDE DEF c, o
      <4>2. c[1] \in Int /\ c[2] \in Int /\ o[1] \in {-1, 0, 1} /\ o[2] \in {-1, 0, 1}
        BY <3>2, <4>1
      <4>3. \/ c[1] \in Coord /\ c[2] \in Coord
            \/ c[1] + o[1] \in Coord /\ c[2] + o[2] \in Coord
        <5>1. PyCell = c BY DEF c
        <5> HIDE DEF c
        <5>2. CASE in_u32_box(PyCell)  BY <5>1, <5>2 DEF in_u32_box
        <5>3. CASE in_u32_box(PyCell')
          <6>1. d \in Coord \X Coord  BY <3>3, <5>3 DEF in_u32_box
          <6> QED BY <6>1
        <5> QED BY <3>1, <5>2, <5>3
      <4>4. Wrap(Wrap(c[1]) + o[1]) = Wrap(c[1] + o[1])  BY <4>2, <4>3, StepWraps
      <4>5. Wrap(Wrap(c[2]) + o[2]) = Wrap(c[2] + o[2])  BY <4>2, <4>3, StepWraps
      <4> QED BY <3>2, <3>5, <4>4, <4>5
    <3> HIDE DEF d
    <3> QED BY <3>3, <3>4, <3>6 DEF LockInv
  <2>2. CASE UNCHANGED lockVars
    BY <2>2 DEF lockVars, wvars, LockInv, PyCell, NamesPosition
  <2> QED BY <2>1, <2>2
<1> QED BY <1>1, <1>2, PTL DEF LockSpec

(* The two address functions hold the same address as long as the cell is  *)
(* in the box and know when it is not, and they name the same ring,        *)
(* numbered alike in two directions only (hexaddr.py:27,                   *)
(* hex_memory.py:3-22).                                                    *)
THEOREM LockScriptsAgree == LockSpec => []ScriptsAgree
<1>1. LockInv => ScriptsAgree
  <2> SUFFICES ASSUME LockInv PROVE SameAddress /\ SameRing  BY DEF ScriptsAgree
  <2> DEFINE c == PyCell
  <2>1. /\ c \in Int \X Int /\ c[1] \in Int /\ c[2] \in Int /\ c = <<c[1], c[2]>>
        /\ addr = eisenstein_to_nat(c) /\ eisenstein_of_nat(addr) = c
        /\ pos = <<Wrap(c[1]), Wrap(c[2])>> /\ flat = HexEncode(pos[1], pos[2])
    BY DEF LockInv, NamesPosition, PyCell
  <2> HIDE DEF c
  <2>2. SameAddress
    <3>1. CASE in_u32_box(c)
      <4>1. c \in Coord \X Coord /\ c[1] \in Coord /\ c[2] \in Coord
        BY <3>1 DEF in_u32_box
      <4>2. pos = c  BY <2>1, <4>1, WrapInside
      <4>3. addr = flat  BY <2>1, <4>1, <4>2, EncodersAgree
      <4> QED BY <2>1, <3>1, <4>3 DEF SameAddress
    <3>2. CASE ~in_u32_box(c)
      <4>1. addr \notin Flat  BY <2>1, <3>2, OutsideTooWide DEF in_u32_box
      <4> QED BY <2>1, <3>2, <4>1 DEF SameAddress
    <3> QED BY <3>1, <3>2
  <2>3. SameRing
    <3> DEFINE At(k) == eisenstein_of_nat(neighbor_addr(addr, k))
    <3>1. \A k \in 0 .. 5 : At(k) = Beyond(c, Offset[k])
      BY <2>1, PyNeighbor, PyNatOf
    <3>2. \A k \in 0 .. 5 : neighbor(c, k) = Beyond(c, UNITS[(k % 6) + 1])
      BY DEF neighbor
    <3> HIDE DEF At
    <3>3. {neighbor(c, k) : k \in 0 .. 5} = {At(k) : k \in 0 .. 5}
      <4>1. {neighbor(c, k) : k \in 0 .. 5}
              = {Beyond(c, u) : u \in {UNITS[(k % 6) + 1] : k \in 0 .. 5}}
        BY <3>2
      <4>2. {At(k) : k \in 0 .. 5} = {Beyond(c, u) : u \in {Offset[k] : k \in 0 .. 5}}
        BY <3>1
      <4> QED BY <4>1, <4>2, UnitFacts
    <3>4. \A k \in 0 .. 5 : neighbor(c, k) = At(k) <=> k \in {0, 5}
      <4> SUFFICES ASSUME NEW k \in 0 .. 5 PROVE neighbor(c, k) = At(k) <=> k \in {0, 5}
        OBVIOUS
      <4> DEFINE u == UNITS[(k % 6) + 1]
                 v == Offset[k]
      <4>1. u \in {-1, 0, 1} \X {-1, 0, 1} /\ v \in {-1, 0, 1} \X {-1, 0, 1}
        BY UnitFacts, OffsetFacts
      <4>2. neighbor(c, k) = <<c[1] + u[1], c[2] + u[2]>>
            /\ At(k) = <<c[1] + v[1], c[2] + v[2]>>
        BY <3>1, <3>2 DEF Beyond
      <4>3. u = v <=> k \in {0, 5}  BY UnitFacts
      <4> HIDE DEF u, v
      <4>4. neighbor(c, k) = At(k) <=> u = v
        <5>1. u[1] \in Int /\ u[2] \in Int /\ v[1] \in Int /\ v[2] \in Int
              /\ (u = v <=> u[1] = v[1] /\ u[2] = v[2])
          BY <4>1
        <5>2. neighbor(c, k) = At(k) <=> c[1] + u[1] = c[1] + v[1] /\ c[2] + u[2] = c[2] + v[2]
          BY <4>2
        <5> DEFINE x1 == c[1]
                   x2 == c[2]
                   u1 == u[1]
                   u2 == u[2]
                   v1 == v[1]
                   v2 == v[2]
        <5>3. x1 \in Int /\ x2 \in Int /\ u1 \in Int /\ u2 \in Int /\ v1 \in Int /\ v2 \in Int
          BY <2>1, <5>1
        <5> HIDE DEF x1, x2, u1, u2, v1, v2
        <5>4. (x1 + u1 = x1 + v1 <=> u1 = v1) /\ (x2 + u2 = x2 + v2 <=> u2 = v2)
          BY <5>3
        <5> QED BY <5>1, <5>2, <5>4 DEF x1, x2, u1, u2, v1, v2
      <4> QED BY <4>3, <4>4
    <3>5. {k \in 0 .. 5 : neighbor(c, k) = At(k)} = {0, 5}  BY <3>4
    <3> QED BY <2>1, <3>3, <3>5 DEF SameRing, At
  <2> QED BY <2>2, <2>3
<1> QED BY <1>1, LockInvariance, PTL

(* Writing a word and reading it back, and reading another one.            *)
LEMMA WordBack ==
  ASSUME NEW m, NEW c, eisenstein_to_nat(c) \in Nat, NEW w \in [1 .. 4 -> Int]
  PROVE  /\ read_hex_word(write_hex_word(m, c, w), c) = w
         /\ \A b \in Int : ByteOf(write_hex_word(m, c, w), b)
                = IF b \in eisenstein_to_nat(c) .. eisenstein_to_nat(c) + 3
                  THEN w[b - eisenstein_to_nat(c) + 1] ELSE ByteOf(m, b)
<1> DEFINE a == eisenstein_to_nat(c)
           n == write_hex_word(m, c, w)
<1>1. n = [b \in DOMAIN m \cup a .. a + 3 |-> IF b \in a .. a + 3 THEN w[b - a + 1] ELSE m[b]]
  BY DEF write_hex_word
<1>2. a \in Nat  OBVIOUS
<1>3. \A i \in 1 .. 4 : read_hex_word(n, c)[i] = ByteOf(n, a + i - 1)
      /\ read_hex_word(n, c) = [k \in 1 .. 4 |-> ByteOf(n, a + k - 1)]
  BY DEF read_hex_word
<1> HIDE DEF n, a
<1>4. DOMAIN n = DOMAIN m \cup a .. a + 3  BY <1>1
<1>5. \A b \in Int : ByteOf(n, b) = IF b \in a .. a + 3 THEN w[b - a + 1] ELSE ByteOf(m, b)
  BY <1>1, <1>4 DEF ByteOf
<1>6. \A i \in 1 .. 4 : ByteOf(n, a + i - 1) = w[i]
  <2> SUFFICES ASSUME NEW i \in 1 .. 4 PROVE ByteOf(n, a + i - 1) = w[i]  OBVIOUS
  <2>1. a + i - 1 \in Int /\ a + i - 1 \in a .. a + 3 /\ (a + i - 1) - a + 1 = i
    BY <1>2
  <2> QED BY <1>5, <2>1
<1>7. read_hex_word(n, c) = w  BY <1>3, <1>6
<1> QED BY <1>5, <1>7 DEF n, a

(* Words kept at two neighbouring cells survive each other exactly when    *)
(* their addresses are four or more apart (hex_memory.py:47-57), for any   *)
(* side of the lattice.                                                    *)
THEOREM LockWordsClash == LockSpec => []WordsClash
<1>0. First \in [1 .. 4 -> Int] /\ Second \in [1 .. 4 -> Int]
      /\ \A i, j \in 1 .. 4 : First[i] # Second[j]
  <2>1. /\ First = [i \in 1 .. 4 |-> i]  BY DEF First
  <2>2. Second = [i \in 1 .. 4 |-> i + 4]  BY DEF Second
  <2> QED BY <2>1, <2>2
<1>1. LockInv => WordsClash
  <2> SUFFICES ASSUME LockInv PROVE WordsClash  OBVIOUS
  <2> DEFINE c == eisenstein_of_nat(addr)
             alone == write_hex_word([a \in {} |-> 0], c, First)
  <2>1. c \in Int \X Int /\ eisenstein_to_nat(c) = addr /\ addr \in Nat
    BY PyNatOf DEF LockInv, PyCell
  <2> HIDE DEF c
  <2>2. /\ read_hex_word(alone, c) = First
        /\ \A b \in addr .. addr + 3 : ByteOf(alone, b) = First[b - addr + 1]
    <3>1. ASSUME NEW m
          PROVE  /\ read_hex_word(write_hex_word(m, c, First), c) = First
                 /\ \A b \in Int : b \in addr .. addr + 3 =>
                      ByteOf(write_hex_word(m, c, First), b) = First[b - addr + 1]
      BY <1>0, <2>1, WordBack
    <3>2. \A b \in addr .. addr + 3 : b \in Int  BY <2>1
    <3> QED BY <3>1, <3>2
  <2> HIDE DEF alone
  <2>3. ASSUME NEW k \in 0 .. 5
        PROVE  LET d    == neighbor(c, k)
                   both == write_hex_word(alone, d, Second)
               IN  /\ read_hex_word(both, d) = Second
                   /\ read_hex_word(both, c) = First
                        <=> Distance(addr, eisenstein_to_nat(d)) >= 4
    <3> DEFINE d == neighbor(c, k)
               both == write_hex_word(alone, d, Second)
               at == eisenstein_to_nat(d)
    <3>1. at \in Nat
      <4>1. d \in Int \X Int
        <5>1. UNITS[(k % 6) + 1] \in {-1, 0, 1} \X {-1, 0, 1}  BY UnitFacts
        <5> QED BY <2>1, <5>1 DEF neighbor, Beyond
      <4> HIDE DEF d
      <4> QED BY <4>1, PyNatOf
    <3> HIDE DEF d
    <3>2. /\ read_hex_word(both, d) = Second
          /\ \A b \in Int : ByteOf(both, b) = IF b \in at .. at + 3 THEN Second[b - at + 1]
                                              ELSE ByteOf(alone, b)
      BY <1>0, <3>1, WordBack
    <3> HIDE DEF both, at
    <3>3. read_hex_word(both, c) = [i \in 1 .. 4 |-> ByteOf(both, addr + i - 1)]
      BY <2>1 DEF read_hex_word
    <3>4. ASSUME Distance(addr, at) >= 4 PROVE read_hex_word(both, c) = First
      <4>1. ASSUME NEW i \in 1 .. 4 PROVE ByteOf(both, addr + i - 1) = First[i]
        <5>1. /\ addr + i - 1 \in Int /\ addr + i - 1 \notin at .. at + 3
              /\ addr + i - 1 \in addr .. addr + 3 /\ (addr + i - 1) - addr + 1 = i
          BY <2>1, <3>1, <3>4 DEF Distance
        <5> QED BY <2>2, <3>2, <5>1
      <4> QED BY <1>0, <3>3, <4>1
    <3>5. ASSUME ~(Distance(addr, at) >= 4) PROVE read_hex_word(both, c) # First
      <4>1. \E i \in 1 .. 4 : addr + i - 1 \in at .. at + 3
        <5>1. CASE addr < at
          <6>1. at - addr + 1 \in 1 .. 4 /\ addr + (at - addr + 1) - 1 \in at .. at + 3
            BY <2>1, <3>1, <3>5, <5>1 DEF Distance
          <6> QED BY <6>1
        <5>2. CASE ~(addr < at)
          <6>1. addr + 1 - 1 \in at .. at + 3  BY <2>1, <3>1, <3>5, <5>2 DEF Distance
          <6> QED BY <6>1
        <5> QED BY <5>1, <5>2
      <4>2. PICK i \in 1 .. 4 : addr + i - 1 \in at .. at + 3  BY <4>1
      <4>3. (addr + i - 1) - at + 1 \in 1 .. 4 /\ addr + i - 1 \in Int  BY <2>1, <3>1, <4>2
      <4>4. ByteOf(both, addr + i - 1) = Second[(addr + i - 1) - at + 1]
        BY <3>2, <4>2, <4>3
      <4>5. read_hex_word(both, c)[i] # First[i]  BY <1>0, <3>3, <4>3, <4>4
      <4> QED BY <4>5
    <3> QED BY <3>2, <3>4, <3>5 DEF at, both, d
  <2> QED BY <2>2, <2>3 DEF WordsClash, alone, c
<1> QED BY <1>1, LockInvariance, PTL
=============================================================================
