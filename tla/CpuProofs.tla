------------------------------ MODULE CpuProofs -----------------------------
(***************************************************************************)
(* Type correctness of the CPU, the absence of the code 11 without an      *)
(* upset, the containment of an upset that makes one, and the values the   *)
(* instructions compute on registers without one, for every set of         *)
(* programs and every number of upsets.                                    *)
(*                                                                         *)
(* Every unit is shown to keep the widths its ports claim and to give no   *)
(* 11 that it was not given (AluSound); the first three invariants follow. *)
(* AluExact follows from what every unit owes (Owes): its meaning on       *)
(* integers cut to six trits, and a flag that is up exactly when the cut   *)
(* loses something.                                                        *)
(***************************************************************************)
EXTENDS Cpu, TritsProofs

(* The sum of two words in one trit more (tmul_opt.v:208-220).             *)
LEMMA WideSumWord ==
  ASSUME NEW X \in {Trit, Balanced}, NEW n \in Nat, NEW a \in WordOf(n, X), NEW b \in WordOf(n, X)
  PROVE  WideSum(a, b) \in WordOf(n + 1, X)
<1> DEFINE m == n + 1
<1>1. Len(a) = n /\ Len(b) = n /\ m \in Nat /\ n \in 0 .. m
  BY WordLen
<1>2. WideSum(a, b) = Add(Ext(a, m), Ext(b, m))
  BY <1>1 DEF WideSum
<1> HIDE DEF m
<1>3. Ext(a, m) \in WordOf(m, X) /\ Ext(b, m) \in WordOf(m, X)
  BY <1>1, ExtWord
<1>4. WideSum(a, b) \in WordOf(m, X)
  BY <1>1, <1>2, <1>3, AddWord
<1> QED
  BY <1>4 DEF m

(* tmul_eisen_trits: 2n trits for the a-part and 2n + 1 for the b-part.    *)
LEMMA EisenMulWord ==
  ASSUME NEW X \in {Trit, Balanced}, NEW n \in Nat \ {0},
         NEW a \in WordOf(n, X), NEW b \in WordOf(n, X),
         NEW c \in WordOf(n, X), NEW d \in WordOf(n, X)
  PROVE  /\ EisenMul(a, b, c, d).A \in WordOf(2 * n, X)
         /\ EisenMul(a, b, c, d).B \in WordOf(2 * n + 1, X)
<1> DEFINE m == n + 1
           Q == 2 * n
           R == 2 * n + 1
           p1 == Mul(a, c)
           p2 == Mul(b, d)
           p3 == Mul(WideSum(a, b), WideSum(c, d))
<1>1. /\ Len(a) = n /\ m \in Nat \ {0} /\ Q \in Nat /\ R \in Nat
      /\ Q \in 0 .. R /\ R \in 0 .. 2 * m
  BY WordLen
<1>2. /\ EisenMul(a, b, c, d).A = Sub(p1, p2)
      /\ EisenMul(a, b, c, d).B = Sub(Low(p3, R), Ext(p1, R))
  BY <1>1 DEF EisenMul
<1>3. p1 \in WordOf(Q, X) /\ p2 \in WordOf(Q, X)
  BY MulWord
<1>4. WideSum(a, b) \in WordOf(m, X) /\ WideSum(c, d) \in WordOf(m, X)
  BY WideSumWord
<1> HIDE DEF m, Q, R, p1, p2
<1>5. p3 \in WordOf(2 * m, X)
  BY <1>1, <1>4, MulWord
<1> DEFINE M == 2 * m
<1>6. M \in Nat
  BY <1>1
<1> HIDE DEF M, p3
<1>7. Low(p3, R) \in WordOf(R, X)
  BY <1>1, <1>5, <1>6, LowWord DEF M
<1>8. Ext(p1, R) \in WordOf(R, X)
  BY <1>1, <1>3, ExtWord
<1>9. Sub(p1, p2) \in WordOf(Q, X) /\ Sub(Low(p3, R), Ext(p1, R)) \in WordOf(R, X)
  BY <1>1, <1>3, <1>7, <1>8, AddWord
<1> QED
  BY <1>2, <1>9 DEF Q, R

(* tnorm_trits_opt without Karatsuba, as the CPU builds it (cpu.v:138).    *)
LEMMA NormWord ==
  ASSUME NEW X \in {Trit, Balanced}, NEW n \in Nat \ {0},
         NEW a \in WordOf(n, X), NEW b \in WordOf(n, X)
  PROVE  NormOpt(a, b, FALSE).n \in WordOf(n, X) /\ NormOpt(a, b, FALSE).ofit \in BOOLEAN
<1> DEFINE m == n + 1
           M == 2 * m
           R == 2 * n + 1
           s == WideSum(a, b)
<1>1. /\ Len(a) = n /\ m \in Nat \ {0} /\ M \in Nat /\ R \in Nat
      /\ 2 * n \in 0 .. R /\ R \in 0 .. M /\ n \in 0 .. R
  BY WordLen
<1>2. NormWide(a, b, FALSE) = Sub(Low(Mul(s, s), R), Ext(Mul(a, b), R))
  BY <1>1 DEF NormWide
<1>3. NormOpt(a, b, FALSE).n = Low(NormWide(a, b, FALSE), n)
  BY <1>1 DEF NormOpt, Cut
<1>4. NormOpt(a, b, FALSE).ofit \in BOOLEAN
  BY DEF NormOpt, Cut, Wider
<1>5. s \in WordOf(m, X)
  BY WideSumWord
<1>6. Mul(a, b) \in WordOf(2 * n, X)
  BY MulWord
<1> HIDE DEF s, m, R
<1>7. Mul(s, s) \in WordOf(M, X)
  BY <1>1, <1>5, MulWord
<1> HIDE DEF M
<1>8. Low(Mul(s, s), R) \in WordOf(R, X)
  BY <1>1, <1>7, LowWord
<1>9. Ext(Mul(a, b), R) \in WordOf(R, X)
  BY <1>1, <1>6, ExtWord
<1>10. NormWide(a, b, FALSE) \in WordOf(R, X)
  BY <1>1, <1>2, <1>8, <1>9, AddWord
<1>11. Low(NormWide(a, b, FALSE), n) \in WordOf(n, X)
  BY <1>1, <1>10, LowWord
<1> QED
  BY <1>3, <1>4, <1>11

(* tconj_trits (ga_ops.v:39-64).                                           *)
LEMMA ConjWord ==
  ASSUME NEW X \in {Trit, Balanced}, NEW n \in Nat,
         NEW a \in WordOf(n, X), NEW b \in WordOf(n, X)
  PROVE  /\ Conj(a, b).a \in WordOf(n, X) /\ Conj(a, b).b \in WordOf(n, X)
         /\ Conj(a, b).ofit \in BOOLEAN
<1> DEFINE m == n + 1
<1>1. Len(a) = n /\ m \in Nat /\ n \in 0 .. m
  BY WordLen
<1>2. WideSum(a, b) \in WordOf(m, X)
  BY WideSumWord
<1> HIDE DEF m
<1>3. Low(WideSum(a, b), n) \in WordOf(n, X)
  BY <1>1, <1>2, LowWord
<1> QED
  BY <1>1, <1>3, NegWord DEF Conj

(* ga_split_trits: three scalars of 2n + 2 trits (ga_ops.v:76-115).        *)
LEMMA GaWord ==
  ASSUME NEW X \in {Trit, Balanced}, NEW n \in Nat \ {0},
         NEW a \in WordOf(n, X), NEW b \in WordOf(n, X),
         NEW c \in WordOf(n, X), NEW d \in WordOf(n, X)
  PROVE  /\ GaSplit(a, b, c, d).dot \in WordOf(2 * n + 2, X)
         /\ GaSplit(a, b, c, d).wedge \in WordOf(2 * n + 2, X)
         /\ GaSplit(a, b, c, d).symdot \in WordOf(2 * n + 2, X)
<1> DEFINE R == 2 * n + 2
           Q == 2 * n
           W(v, w) == Ext(Mul(v, w), R)
<1>1. Len(a) = n /\ R \in Nat /\ Q \in 0 .. R
  BY WordLen
<1>2. /\ GaSplit(a, b, c, d).dot = Add(Add(W(a, c), W(a, d)), W(b, d))
      /\ GaSplit(a, b, c, d).wedge = Sub(W(b, c), W(a, d))
      /\ GaSplit(a, b, c, d).symdot = TwiceDot(W(a, c), W(a, d), W(b, c), W(b, d))
  BY <1>1 DEF GaSplit
<1>3. ASSUME NEW v \in WordOf(n, X), NEW w \in WordOf(n, X) PROVE W(v, w) \in WordOf(R, X)
  <2>1. Mul(v, w) \in WordOf(Q, X)
    BY MulWord
  <2> HIDE DEF R, Q
  <2> QED
    BY <1>1, <2>1, ExtWord
<1>4. ASSUME NEW v \in WordOf(R, X), NEW w \in WordOf(R, X)
      PROVE  Add(v, w) \in WordOf(R, X) /\ Sub(v, w) \in WordOf(R, X)
  <2> HIDE DEF R
  <2> QED
    BY <1>1, AddWord
<1>5. /\ GaSplit(a, b, c, d).dot \in WordOf(R, X)
      /\ GaSplit(a, b, c, d).wedge \in WordOf(R, X)
      /\ GaSplit(a, b, c, d).symdot \in WordOf(R, X)
  <2> HIDE DEF R, Q, W
  <2> QED
    BY <1>2, <1>3, <1>4 DEF TwiceDot
<1> QED
  BY <1>5 DEF R

(* Registers whose trits have codes in X.                                  *)
PointOf(X) == [a : WordOf(N, X), b : WordOf(N, X)]

(* A result in the a-field alone.                                          *)
LEMMA ScalarPoint ==
  ASSUME NEW X \in {Trit, Balanced}, NEW w \in WordOf(N, X)
  PROVE  Scalar(w) \in PointOf(X)
<1>1. Nulls(N) \in WordOf(N, X)
  BY NullsWord DEF N
<1> QED
  BY <1>1 DEF Scalar, Point, PointOf

(* The null register.                                                      *)
LEMMA OriginPoint ==
  ASSUME NEW X \in {Trit, Balanced}
  PROVE  Origin \in PointOf(X)
<1>1. Nulls(N) \in WordOf(N, X)
  BY NullsWord DEF N
<1> QED
  BY <1>1, ScalarPoint DEF Origin

(* What an instruction hands to the write port: a point with codes in X    *)
(* and a flag.                                                             *)
Sound(X) == [wdata : PointOf(X), wovf : BOOLEAN]

(* TADD and TSUB (cpu.v:118-126).                                          *)
LEMMA AddSound ==
  ASSUME NEW X \in {Trit, Balanced}, NEW x \in PointOf(X), NEW y \in PointOf(X)
  PROVE  TADD(x, y) \in Sound(X) /\ TSUB(x, y) \in Sound(X)
<1>1. ASSUME NEW v \in PointOf(X), NEW w \in PointOf(X) PROVE TADD(v, w) \in Sound(X)
  <2> DEFINE s == Ripple(v.a, w.a)
             t == Ripple(v.b, w.b)
  <2>1. N \in Nat /\ v.a \in WordOf(N, X) /\ v.b \in WordOf(N, X)
                  /\ w.a \in WordOf(N, X) /\ w.b \in WordOf(N, X)
    BY DEF PointOf, N
  <2>2. s.sum \in WordOf(N, X) /\ t.sum \in WordOf(N, X)
    BY <2>1, RippleWord
  <2>3. TADD(v, w) = [wdata |-> [a |-> s.sum, b |-> t.sum],
                      wovf  |-> s.carry # Null \/ t.carry # Null]
    BY DEF TADD, Result, Point
  <2> HIDE DEF s, t
  <2> QED
    BY <2>2, <2>3 DEF Sound, PointOf
<1>2. Point(Neg(y.a), Neg(y.b)) \in PointOf(X)
  <2>1. N \in Nat /\ y.a \in WordOf(N, X) /\ y.b \in WordOf(N, X)
    BY DEF PointOf, N
  <2>2. Neg(y.a) \in WordOf(N, X) /\ Neg(y.b) \in WordOf(N, X)
    BY <2>1, NegWord
  <2> QED
    BY <2>2 DEF Point, PointOf
<1> QED
  BY <1>1, <1>2 DEF TSUB

(* TROT, whatever its field k (cpu.v:128-194).                             *)
LEMMA RotSound ==
  ASSUME NEW X \in {Trit, Balanced}, NEW x \in PointOf(X), NEW k \in Nat
  PROVE  TROT(x, k) \in Sound(X)
<1> DEFINE s == Ripple(x.a, x.b)
<1>1. N \in Nat /\ x.a \in WordOf(N, X) /\ x.b \in WordOf(N, X)
  BY DEF PointOf, N
<1>2. s.sum \in WordOf(N, X)
  BY <1>1, RippleWord
<1>3. /\ Neg(x.a) \in WordOf(N, X) /\ Neg(x.b) \in WordOf(N, X) /\ Neg(s.sum) \in WordOf(N, X)
  BY <1>1, <1>2, NegWord
<1> DEFINE p == CASE k = 0 -> x
                  [] k = 1 -> Point(Neg(x.b), s.sum)
                  [] k = 2 -> Point(Neg(s.sum), x.a)
                  [] k = 3 -> Point(Neg(x.a), Neg(x.b))
                  [] k = 4 -> Point(x.b, Neg(s.sum))
                  [] k = 5 -> Point(s.sum, Neg(x.a))
                  [] OTHER -> Origin
<1>4. TROT(x, k) = [wdata |-> p, wovf |-> s.carry # Null]
  BY DEF TROT, Result
<1>5. \A v, w \in WordOf(N, X) : Point(v, w) \in PointOf(X)
  BY DEF Point, PointOf
<1> HIDE DEF s
<1>6. p \in PointOf(X)
  BY <1>1, <1>2, <1>3, <1>5, OriginPoint
<1> HIDE DEF p
<1> QED
  BY <1>4, <1>6 DEF Sound

(* TMUL, cut to six trits (cpu.v:141-152).                                 *)
LEMMA MulSound ==
  ASSUME NEW X \in {Trit, Balanced}, NEW x \in PointOf(X), NEW y \in PointOf(X)
  PROVE  TMUL(x, y) \in Sound(X)
<1> DEFINE p == EisenMul(x.a, x.b, y.a, y.b)
<1>1. N \in Nat \ {0} /\ x.a \in WordOf(N, X) /\ x.b \in WordOf(N, X)
                      /\ y.a \in WordOf(N, X) /\ y.b \in WordOf(N, X)
  BY DEF PointOf, N
<1>2. p.A \in WordOf(2 * N, X) /\ p.B \in WordOf(2 * N + 1, X)
  BY <1>1, EisenMulWord
<1>3. 2 * N \in Nat /\ 2 * N + 1 \in Nat /\ N \in 0 .. 2 * N /\ N \in 0 .. 2 * N + 1
  BY DEF N
<1> HIDE DEF p
<1>4. Low(p.A, N) \in WordOf(N, X) /\ Low(p.B, N) \in WordOf(N, X)
  BY <1>2, <1>3, LowWord
<1>5. TMUL(x, y) = [wdata |-> [a |-> Low(p.A, N), b |-> Low(p.B, N)],
                    wovf  |-> Wider(p.A, N) \/ Wider(p.B, N)]
  BY DEF TMUL, Result, Point, p
<1> QED
  BY <1>4, <1>5 DEF Sound, PointOf

(* TNORM (cpu.v:134-139).                                                  *)
LEMMA NormSound ==
  ASSUME NEW X \in {Trit, Balanced}, NEW x \in PointOf(X), NEW y \in PointOf(X)
  PROVE  TNORM(x, y) \in Sound(X)
<1> DEFINE r == NormOpt(x.a, y.a, FALSE)
<1>1. N \in Nat \ {0} /\ x.a \in WordOf(N, X) /\ y.a \in WordOf(N, X)
  BY DEF PointOf, N
<1>2. r.n \in WordOf(N, X) /\ r.ofit \in BOOLEAN
  BY <1>1, NormWord
<1>3. TNORM(x, y) = [wdata |-> Scalar(r.n), wovf |-> r.ofit]
  BY DEF TNORM, Result
<1> HIDE DEF r
<1> QED
  BY <1>2, <1>3, ScalarPoint DEF Sound

(* TCONJ (cpu.v:154-160).                                                  *)
LEMMA ConjSound ==
  ASSUME NEW X \in {Trit, Balanced}, NEW x \in PointOf(X)
  PROVE  TCONJ(x) \in Sound(X)
<1> DEFINE p == Conj(x.a, x.b)
<1>1. N \in Nat /\ x.a \in WordOf(N, X) /\ x.b \in WordOf(N, X)
  BY DEF PointOf, N
<1>2. p.a \in WordOf(N, X) /\ p.b \in WordOf(N, X) /\ p.ofit \in BOOLEAN
  BY <1>1, ConjWord
<1>3. TCONJ(x) = [wdata |-> [a |-> p.a, b |-> p.b], wovf |-> p.ofit]
  BY DEF TCONJ, Result, Point
<1> HIDE DEF p
<1> QED
  BY <1>2, <1>3 DEF Sound, PointOf

(* TDOT, TWEDGE and TSYMDOT, cut to six trits (cpu.v:162-170).             *)
LEMMA GaSound ==
  ASSUME NEW X \in {Trit, Balanced}, NEW x \in PointOf(X), NEW y \in PointOf(X)
  PROVE  /\ GaScalar(Split(x, y).dot) \in Sound(X)
         /\ GaScalar(Split(x, y).wedge) \in Sound(X)
         /\ GaScalar(Split(x, y).symdot) \in Sound(X)
<1>1. N \in Nat \ {0} /\ x.a \in WordOf(N, X) /\ x.b \in WordOf(N, X)
                      /\ y.a \in WordOf(N, X) /\ y.b \in WordOf(N, X)
  BY DEF PointOf, N
<1>2. ASSUME NEW w \in WordOf(2 * N + 2, X) PROVE GaScalar(w) \in Sound(X)
  <2> DEFINE R == 2 * N + 2
  <2>1. R \in Nat /\ N \in 0 .. R
    BY DEF N
  <2> HIDE DEF R
  <2>2. Low(w, N) \in WordOf(N, X)
    BY <2>1, LowWord DEF R
  <2>3. GaScalar(w) = [wdata |-> Scalar(Low(w, N)), wovf |-> Wider(w, N)]
    BY DEF GaScalar, Result
  <2>4. Wider(w, N) \in BOOLEAN
    BY DEF Wider
  <2> QED
    BY <2>2, <2>3, <2>4, ScalarPoint DEF Sound
<1>3. /\ Split(x, y).dot \in WordOf(2 * N + 2, X)
      /\ Split(x, y).wedge \in WordOf(2 * N + 2, X)
      /\ Split(x, y).symdot \in WordOf(2 * N + 2, X)
  BY <1>1, GaWord DEF Split
<1> QED
  BY <1>2, <1>3

(* s2t6 (cpu.v:279-304) by its recursion: what is left and the digits so   *)
(* far.                                                                    *)
Residual(v) == [r |-> v, w |-> <<>>]

TopDigit(k, p) ==
  IF p.r > Greatest(N - k) THEN Plus ELSE IF p.r < -Greatest(N - k) THEN Minus ELSE Null

Peel(k, p) ==
  [r |-> p.r - Digit(TopDigit(k, p)) * Pow3[N - k], w |-> <<TopDigit(k, p)>> \o p.w]

PeelStep(v, f) == [k \in 0 .. N |-> IF k = 0 THEN Residual(v) ELSE Peel(k, f[k - 1])]

(* The equation has a solution: the six digits written out.                *)
LEMMA PeelExists ==
  ASSUME NEW v
  PROVE  \E f : f = PeelStep(v, f)
<1> DEFINE s0 == Residual(v)
           s1 == Peel(1, s0)
           s2 == Peel(2, s1)
           s3 == Peel(3, s2)
           s4 == Peel(4, s3)
           s5 == Peel(5, s4)
           s6 == Peel(6, s5)
           f  == [k \in 0 .. N |-> IF k = 0 THEN s0 ELSE IF k = 1 THEN s1 ELSE IF k = 2 THEN s2
                                   ELSE IF k = 3 THEN s3 ELSE IF k = 4 THEN s4
                                   ELSE IF k = 5 THEN s5 ELSE s6]
<1>1. /\ s1 = Peel(1, s0) /\ s2 = Peel(2, s1) /\ s3 = Peel(3, s2)
      /\ s4 = Peel(4, s3) /\ s5 = Peel(5, s4) /\ s6 = Peel(6, s5)
  OBVIOUS
<1>2. s0 = Residual(v)
  OBVIOUS
<1> HIDE DEF s0, s1, s2, s3, s4, s5, s6
<1>3. /\ f[0] = s0 /\ f[1] = s1 /\ f[2] = s2 /\ f[3] = s3
      /\ f[4] = s4 /\ f[5] = s5 /\ f[6] = s6
  BY DEF N
<1>4. f = [k \in 0 .. N |-> f[k]]
  OBVIOUS
<1> HIDE DEF f
<1>5. ASSUME NEW k \in 0 .. N
      PROVE  f[k] = IF k = 0 THEN Residual(v) ELSE Peel(k, f[k - 1])
  <2>1. k \in {0, 1, 2, 3, 4, 5, 6}
    BY DEF N
  <2> QED
    BY <1>1, <1>2, <1>3, <2>1
<1>6. f = PeelStep(v, f)
  BY <1>4, <1>5 DEF PeelStep
<1> QED
  BY <1>6

(* S2T6 is the last state of a solution.                                   *)
LEMMA S2T6Is ==
  ASSUME NEW v
  PROVE  \E f : f = PeelStep(v, f) /\ S2T6(v) = f[N].w
<1> DEFINE s == CHOOSE f : f = PeelStep(v, f)
<1>1. s = PeelStep(v, s)
  BY PeelExists
<1>2. S2T6(v) = s[N].w
  BY Zenon DEF S2T6, PeelStep, Peel, Residual, TopDigit
<1> HIDE DEF s
<1> QED
  BY <1>1, <1>2

(* The equation, at the first index and at the others.                     *)
LEMMA PeelAt ==
  ASSUME NEW v, NEW f, NEW h, h = PeelStep(v, f)
  PROVE  h[0] = Residual(v) /\ \A k \in 1 .. N : h[k] = Peel(k, f[k - 1])
BY DEF PeelStep, N

(* An immediate becomes six trits without an 11.                           *)
LEMMA S2T6Word ==
  ASSUME NEW X \in {Trit, Balanced}, NEW v
  PROVE  S2T6(v) \in WordOf(N, X)
<1>1. PICK f : f = PeelStep(v, f) /\ S2T6(v) = f[N].w
  BY S2T6Is
<1>2. f[0] = Residual(v) /\ \A k \in 1 .. N : f[k] = Peel(k, f[k - 1])
  BY <1>1, PeelAt
<1> DEFINE Good(k) == f[k].w \in WordOf(k, X)
           T == {k \in 0 .. N : Good(k)}
<1>3. Good(0)
  <2>1. <<>> \in WordOf(0, X)
    BY DEF WordOf
  <2>2. Residual(v).w = <<>>
    BY DEF Residual
  <2> QED
    BY <1>2, <2>1, <2>2
<1>4. ASSUME NEW k \in 1 .. N, Good(k - 1) PROVE Good(k)
  <2> DEFINE p == f[k - 1]
             t == TopDigit(k, p)
             m == k - 1
  <2>1. t \in X
    BY DEF TopDigit, Trit, Balanced, Null, Plus, Minus, Never
  <2>2. p.w \in WordOf(m, X) /\ m \in Nat /\ 1 + m = k
    BY <1>4 DEF N
  <2>3. f[k] = Peel(k, p)
    BY <1>2
  <2> HIDE DEF p
  <2>4. Peel(k, p).w = <<t>> \o p.w
    BY DEF Peel
  <2> HIDE DEF t, m
  <2>5. <<t>> \in WordOf(1, X)
    BY <2>1 DEF WordOf
  <2>6. <<t>> \o p.w \in WordOf(1 + m, X)
    BY <2>2, <2>5, JoinWord
  <2> QED
    BY <2>2, <2>3, <2>4, <2>6
<1>5. Good(N)
  <2>1. N \in Nat /\ N \in 0 .. N
    BY DEF N
  <2> HIDE DEF Good
  <2>2. 0 \in T /\ \A k \in 1 .. N : k - 1 \in T => k \in T
    BY <1>3, <1>4, <2>1
  <2>3. \A k \in 0 .. N : k \in T
    <3> HIDE DEF T
    <3> QED
      BY <2>1, <2>2, Climb
  <2> QED
    BY <2>1, <2>3
<1> QED
  BY <1>1, <1>5

(* Every opcode gives a register without an 11 when both operands have     *)
(* none, and a register of twelve trits in any case (cpu.v:172-228).       *)
LEMMA AluSound ==
  ASSUME NEW X \in {Trit, Balanced}, NEW i \in Instr, NEW x \in PointOf(X), NEW y \in PointOf(X)
  PROVE  Alu(i, x, y) \in Sound(X)
<1>1. \A w \in WordOf(N, X) : Result(Scalar(w), FALSE) \in Sound(X)
  BY ScalarPoint DEF Result, Sound
<1>2. Result(Scalar(S2T6(Imm(i))), FALSE) \in Sound(X)
  BY <1>1, S2T6Word
<1>3. Result(Origin, FALSE) \in Sound(X)
  BY OriginPoint DEF Result, Sound
<1>4. Rb(i) \in Nat
  BY DEF Instr, Rb
<1>5. TROT(x, Rb(i)) \in Sound(X)
  BY <1>4, RotSound
<1>6. /\ TADD(x, y) \in Sound(X) /\ TSUB(x, y) \in Sound(X)
      /\ TNORM(x, y) \in Sound(X) /\ TMUL(x, y) \in Sound(X) /\ TCONJ(x) \in Sound(X)
  BY AddSound, NormSound, MulSound, ConjSound
<1>7. /\ GaScalar(Split(x, y).dot) \in Sound(X)
      /\ GaScalar(Split(x, y).wedge) \in Sound(X)
      /\ GaScalar(Split(x, y).symdot) \in Sound(X)
  BY GaSound
<1> QED
  BY <1>2, <1>3, <1>5, <1>6, <1>7 DEF Alu

(* What is fetched is an instruction and names registers.                  *)
LEMMA Fetched ==
  ASSUME TypeOK
  PROVE  Fetch \in Instr /\ Fetch.rd \in Reg /\ Ra(Fetch) \in Reg /\ Rb(Fetch) \in Reg
<1>1. Fetch \in Instr
  BY CpuAssumption DEF TypeOK, Fetch
<1> QED
  BY <1>1 DEF Instr, Ra, Rb, Reg

(* A register file is a point in every register.                           *)
LEMMA FileOfPoints ==
  ASSUME NEW X
  PROVE  File(X) = [Reg -> PointOf(X)]
BY DEF File, PointOf, WordOf

(* The register file after reset.                                          *)
LEMMA EmptyFile ==
  ASSUME NEW X \in {Trit, Balanced}
  PROVE  [r \in Reg |-> Origin] \in File(X)
BY OriginPoint, FileOfPoints

(* A point without an 11 does not fire the canary.                         *)
LEMMA NoNever ==
  ASSUME NEW p \in PointOf(Balanced)
  PROVE  ~PointHasNever(p)
<1>1. \A w \in WordOf(N, Balanced) : ~HasNever(w)
  BY WordLen DEF HasNever, Balanced, Null, Minus, Never, N
<1> QED
  BY <1>1 DEF PointHasNever, PointOf

(* The canary is a bit.                                                    *)
LEMMA CanaryBoolean ==
  ASSUME NEW x, NEW y, NEW w
  PROVE  Canary(x, y, w) \in BOOLEAN
BY DEF Canary, PointHasNever, HasNever

(* A register with one of its trits replaced is a register.                *)
LEMMA UpsetPoint ==
  ASSUME NEW p \in PointOf(Trit), NEW half \in {"a", "b"}, NEW k \in 1 .. N, NEW t \in Trit
  PROVE  [p EXCEPT ![half][k] = t] \in PointOf(Trit)
<1>1. CASE half = "a"
  BY <1>1 DEF PointOf, WordOf
<1>2. CASE half = "b"
  BY <1>2 DEF PointOf, WordOf
<1> QED
  BY <1>1, <1>2

(* Power-on.                                                               *)
LEMMA TypeInit == Init => TypeOK
<1> SUFFICES ASSUME Init PROVE TypeOK
  OBVIOUS
<1>1. rf \in File(Trit) /\ golden \in File(Balanced)
  BY EmptyFile DEF Init
<1>2. ir \in Instr
  BY DEF Init, Instr, Reg
<1>3. pc \in PC /\ upsets \in 0 .. MaxUpsets
  BY CpuAssumption DEF Init, PC
<1> QED
  BY <1>1, <1>2, <1>3, Zenon DEF Init, TypeOK

(* Every step.                                                             *)
LEMMA TypeStep == TypeOK /\ [Next]_cpuVars => TypeOK'
<1> SUFFICES ASSUME TypeOK, [Next]_cpuVars PROVE TypeOK'
  OBVIOUS
<1>1. CASE Execute
  <2> DEFINE i == Fetch
             r == Alu(i, rf[Ra(i)], rf[Rb(i)])
             g == Alu(i, golden[Ra(i)], golden[Rb(i)])
             c == Canary(rf[Ra(i)], rf[Rb(i)], r.wdata)
  <2>1. /\ pc' = NextPc(pc) /\ ir' = i
        /\ rf' = [rf EXCEPT ![i.rd] = r.wdata] /\ ovf' = (r.wovf \/ c)
        /\ golden' = [golden EXCEPT ![i.rd] = g.wdata] /\ caught' = (caught \/ c)
        /\ UNCHANGED <<rst_n, imem, hlt, upsets, silent>>
    BY <1>1 DEF Execute
  <2>2. i \in Instr /\ i.rd \in Reg /\ Ra(i) \in Reg /\ Rb(i) \in Reg
    BY Fetched
  <2>3. /\ rf[Ra(i)] \in PointOf(Trit) /\ rf[Rb(i)] \in PointOf(Trit)
        /\ golden[Ra(i)] \in PointOf(Balanced) /\ golden[Rb(i)] \in PointOf(Balanced)
    BY <2>2, FileOfPoints DEF TypeOK
  <2>4. r \in Sound(Trit) /\ g \in Sound(Balanced) /\ c \in BOOLEAN
    BY <2>2, <2>3, AluSound, CanaryBoolean
  <2> HIDE DEF i, r, g, c
  <2>5. rf' \in File(Trit) /\ golden' \in File(Balanced)
    BY <2>1, <2>4, FileOfPoints DEF TypeOK, Sound
  <2>6. pc' \in PC
    BY <2>1 DEF TypeOK, NextPc, PC
  <2>7. ovf' \in BOOLEAN /\ caught' \in BOOLEAN
    BY <2>1, <2>4 DEF TypeOK, Sound
  <2> QED
    BY <2>1, <2>2, <2>5, <2>6, <2>7 DEF TypeOK
<1>2. CASE Halt
  <2> DEFINE fired == Canary(rf[Ra(Fetch)], rf[Rb(Fetch)], Origin)
  <2>1. ir' = Fetch /\ hlt' = TRUE /\ ovf' = fired /\ caught' = (caught \/ fired)
    BY <1>2 DEF Halt
  <2>2. fired \in BOOLEAN /\ Fetch \in Instr
    BY CanaryBoolean, Fetched
  <2> HIDE DEF fired
  <2> QED
    BY <1>2, <2>1, <2>2 DEF Halt, TypeOK
<1>3. CASE AssertReset
  <2>1. rf' \in File(Trit) /\ golden' \in File(Balanced)
    BY <1>3, EmptyFile DEF AssertReset
  <2>2. ir' \in Instr
    BY <1>3 DEF AssertReset, Instr, Reg
  <2>3. pc' \in PC /\ upsets' \in 0 .. MaxUpsets
    BY <1>3, CpuAssumption DEF AssertReset, PC
  <2> QED
    BY <1>3, <2>1, <2>2, <2>3, Zenon DEF AssertReset, TypeOK
<1>4. CASE ReleaseReset
  BY <1>4 DEF ReleaseReset, TypeOK, coreVars, history
<1>5. CASE Upset
  <2>0. PICK r \in Reg, half \in {"a", "b"}, k \in 1 .. N :
          \E t \in Flips(rf[r][half][k]) :
            /\ rf' = [rf EXCEPT ![r][half][k] = t]
            /\ silent' = (silent \/ t # Never)
    BY <1>5 DEF Upset
  <2>1. PICK t \in Flips(rf[r][half][k]) :
          /\ rf' = [rf EXCEPT ![r][half][k] = t]
          /\ silent' = (silent \/ t # Never)
    BY <2>0
  <2>2. t \in Trit
    BY DEF Flips, Rails, Trit, Null, Never
  <2>3. [rf[r] EXCEPT ![half][k] = t] \in PointOf(Trit)
    BY <2>2, UpsetPoint, FileOfPoints DEF TypeOK
  <2>4. rf' = [rf EXCEPT ![r] = [rf[r] EXCEPT ![half][k] = t]]
    BY <2>1
  <2>5. rf' \in File(Trit)
    <3> DEFINE p == [rf[r] EXCEPT ![half][k] = t]
    <3> HIDE DEF p
    <3> QED
      BY <2>3, <2>4, FileOfPoints DEF TypeOK, p
  <2>6. upsets' \in 0 .. MaxUpsets /\ silent' \in BOOLEAN
    BY <1>5, <2>1, CpuAssumption DEF Upset, TypeOK
  <2> QED
    BY <1>5, <2>5, <2>6 DEF Upset, TypeOK
<1>6. CASE UNCHANGED cpuVars
  BY <1>6 DEF cpuVars, coreVars, history, TypeOK
<1> QED
  BY <1>1, <1>2, <1>3, <1>4, <1>5, <1>6 DEF Next, Edge

(* Type correctness: whatever the program and the upsets, every register   *)
(* keeps twelve trits, and the undisturbed file twelve balanced ones.      *)
THEOREM TypeCorrect == Spec => []TypeOK
BY TypeInit, TypeStep, PTL DEF Spec

(* Only an upset makes an 11: an instruction reads registers without one,  *)
(* so it writes one without, and no canary fires.                          *)
LEMMA NeverBothStep == TypeOK /\ NeverBoth /\ [Next]_cpuVars => NeverBoth'
<1> SUFFICES ASSUME TypeOK, NeverBoth, [Next]_cpuVars PROVE NeverBoth'
  OBVIOUS
<1>1. CASE Execute
  <2> SUFFICES ASSUME upsets' = 0 PROVE rf' \in File(Balanced) /\ ~caught'
    BY DEF NeverBoth
  <2> DEFINE i == Fetch
             r == Alu(i, rf[Ra(i)], rf[Rb(i)])
             c == Canary(rf[Ra(i)], rf[Rb(i)], r.wdata)
  <2>1. /\ rf' = [rf EXCEPT ![i.rd] = r.wdata] /\ caught' = (caught \/ c)
        /\ upsets = 0
    BY <1>1 DEF Execute
  <2>2. i \in Instr /\ i.rd \in Reg /\ Ra(i) \in Reg /\ Rb(i) \in Reg
    BY Fetched
  <2>3. rf \in File(Balanced) /\ ~caught
    BY <2>1 DEF NeverBoth
  <2>4. rf[Ra(i)] \in PointOf(Balanced) /\ rf[Rb(i)] \in PointOf(Balanced)
    BY <2>2, <2>3, FileOfPoints
  <2>5. r \in Sound(Balanced)
    BY <2>2, <2>4, AluSound
  <2>6. r.wdata \in PointOf(Balanced)
    <3> HIDE DEF r
    <3> QED
      BY <2>5 DEF Sound
  <2>7. ~c
    BY <2>4, <2>6, NoNever DEF Canary
  <2> HIDE DEF i, r, c
  <2> QED
    BY <2>1, <2>3, <2>6, <2>7, FileOfPoints
<1>2. CASE Halt
  <2> SUFFICES ASSUME upsets' = 0 PROVE rf' \in File(Balanced) /\ ~caught'
    BY DEF NeverBoth
  <2> DEFINE fired == Canary(rf[Ra(Fetch)], rf[Rb(Fetch)], Origin)
  <2>1. upsets = 0 /\ rf' = rf /\ caught' = (caught \/ fired)
    BY <1>2 DEF Halt
  <2>2. rf \in File(Balanced) /\ ~caught
    BY <2>1 DEF NeverBoth
  <2>3. /\ rf[Ra(Fetch)] \in PointOf(Balanced) /\ rf[Rb(Fetch)] \in PointOf(Balanced)
        /\ Origin \in PointOf(Balanced)
    BY <2>2, Fetched, FileOfPoints, OriginPoint
  <2>4. ~fired
    BY <2>3, NoNever DEF Canary
  <2> QED
    BY <2>1, <2>2, <2>4
<1>3. CASE AssertReset
  BY <1>3, EmptyFile DEF AssertReset, NeverBoth
<1>4. CASE ReleaseReset
  BY <1>4 DEF ReleaseReset, NeverBoth, coreVars, history
<1>5. CASE Upset
  BY <1>5, CpuAssumption DEF Upset, NeverBoth, TypeOK
<1>6. CASE UNCHANGED cpuVars
  BY <1>6 DEF cpuVars, coreVars, history, NeverBoth
<1> QED
  BY <1>1, <1>2, <1>3, <1>4, <1>5, <1>6 DEF Next, Edge

(* encode_never_both for the whole CPU: no program, whatever it computes   *)
(* and overflows, brings the code 11 into a register or fires a canary     *)
(* without an upset.                                                       *)
THEOREM NoElevens == Spec => []NeverBoth
<1>1. Init => NeverBoth
  BY EmptyFile DEF Init, NeverBoth
<1> QED
  BY <1>1, NeverBothStep, TypeCorrect, PTL DEF Spec

(* An instruction that reads a register the upset changed reads an 11, and *)
(* the canary of that port fires; one that does not computes what the      *)
(* undisturbed file computes. An upset leaves its 11 in the register it    *)
(* hits.                                                                   *)
LEMMA ContainedStep == TypeOK /\ Contained /\ [Next]_cpuVars => Contained'
<1> SUFFICES ASSUME TypeOK, Contained, [Next]_cpuVars PROVE Contained'
  OBVIOUS
<1>1. CASE Execute
  <2> SUFFICES ASSUME ~silent', ~caught', NEW r \in Reg
               PROVE  rf'[r] = golden'[r] \/ PointHasNever(rf'[r])
    BY DEF Contained
  <2> DEFINE i == Fetch
             x == rf[Ra(i)]
             y == rf[Rb(i)]
             w == Alu(i, x, y).wdata
             v == Alu(i, golden[Ra(i)], golden[Rb(i)]).wdata
  <2>1. /\ rf' = [rf EXCEPT ![i.rd] = w] /\ golden' = [golden EXCEPT ![i.rd] = v]
        /\ caught' = (caught \/ Canary(x, y, w)) /\ silent' = silent
    BY <1>1 DEF Execute
  <2>2. i.rd \in Reg /\ Ra(i) \in Reg /\ Rb(i) \in Reg
    BY Fetched
  <2>3. ~silent /\ ~caught /\ ~Canary(x, y, w)
    BY <2>1
  <2>4. x = golden[Ra(i)] /\ y = golden[Rb(i)]
    BY <2>2, <2>3 DEF Contained, Canary
  <2>5. w = v
    BY <2>4
  <2>6. rf[r] = golden[r] \/ PointHasNever(rf[r])
    BY <2>3 DEF Contained
  <2>7. DOMAIN rf = Reg /\ DOMAIN golden = Reg
    BY DEF TypeOK, File
  <2> HIDE DEF w, v, i, x, y
  <2>8. CASE r = i.rd
    BY <2>1, <2>2, <2>5, <2>7, <2>8
  <2>9. CASE r # i.rd
    BY <2>1, <2>6, <2>7, <2>9
  <2> QED
    BY <2>8, <2>9
<1>2. CASE Halt
  BY <1>2 DEF Halt, Contained
<1>3. CASE AssertReset
  BY <1>3 DEF AssertReset, Contained
<1>4. CASE ReleaseReset
  BY <1>4 DEF ReleaseReset, Contained, coreVars, history
<1>5. CASE Upset
  <2> SUFFICES ASSUME ~silent', ~caught', NEW q \in Reg
               PROVE  rf'[q] = golden'[q] \/ PointHasNever(rf'[q])
    BY DEF Contained
  <2>0. PICK r \in Reg, half \in {"a", "b"}, k \in 1 .. N :
          \E t \in Flips(rf[r][half][k]) :
            /\ rf' = [rf EXCEPT ![r][half][k] = t]
            /\ silent' = (silent \/ t # Never)
    BY <1>5 DEF Upset
  <2>1. PICK t \in Flips(rf[r][half][k]) :
          /\ rf' = [rf EXCEPT ![r][half][k] = t]
          /\ silent' = (silent \/ t # Never)
    BY <2>0
  <2>2. t = Never /\ ~silent /\ ~caught /\ golden' = golden
    BY <1>5, <2>1 DEF Upset
  <2>3. CASE q = r
    <3> DEFINE p == [rf[r] EXCEPT ![half][k] = t]
    <3>1. rf' = [rf EXCEPT ![r] = p]
      BY <2>1
    <3>2. rf[r] \in PointOf(Trit)
      BY FileOfPoints DEF TypeOK
    <3>3. PointHasNever(p)
      <4>1. CASE half = "a"
        BY <2>2, <3>2, <4>1 DEF PointOf, WordOf, PointHasNever, HasNever
      <4>2. CASE half = "b"
        BY <2>2, <3>2, <4>2 DEF PointOf, WordOf, PointHasNever, HasNever
      <4> QED
        BY <4>1, <4>2
    <3>4. DOMAIN rf = Reg
      BY DEF TypeOK, File
    <3> HIDE DEF p
    <3> QED
      BY <2>3, <3>1, <3>3, <3>4
  <2>4. CASE q # r
    <3>1. rf'[q] = rf[q]
      BY <2>1, <2>4 DEF TypeOK, File
    <3> QED
      BY <2>2, <3>1 DEF Contained
  <2> QED
    BY <2>3, <2>4
<1>6. CASE UNCHANGED cpuVars
  BY <1>6 DEF cpuVars, coreVars, history, Contained
<1> QED
  BY <1>1, <1>2, <1>3, <1>4, <1>5, <1>6 DEF Next, Edge

(* Containment (ternary_mem.v:131-147): as long as every upset made an 11  *)
(* and no canary has fired, a register differs from the undisturbed run    *)
(* only while it shows an 11.                                              *)
THEOREM UpsetsContained == Spec => []Contained
<1>1. Init => Contained
  BY DEF Init, Contained
<1> QED
  BY <1>1, ContainedStep, TypeCorrect, PTL DEF Spec

-----------------------------------------------------------------------------
(* Registers without an 11, and what a unit owes: the meaning m, cut, and  *)
(* the flag of the integers wide.                                          *)
Balances(p) == p.a \in Words(N) /\ p.b \in Words(N)

Owes(r, m, wide) ==
  /\ Pair(r.wdata) = <<Residue(m[1], N), Residue(m[2], N)>>
  /\ r.wovf <=> ~(Fits(wide[1], N) /\ Fits(wide[2], N))

(* A balanced register is a pair of words worth integers that fit.         *)
LEMMA Coefficients ==
  ASSUME NEW x, Balances(x)
  PROVE  /\ N \in Nat \ {0} /\ N \in Nat /\ x.a \in Words(N) /\ x.b \in Words(N)
         /\ Pair(x)[1] = Val(x.a) /\ Pair(x)[2] = Val(x.b)
         /\ Val(x.a) \in Int /\ Val(x.b) \in Int
BY ValWithin DEF Balances, N, Pair

(* Null is worth nothing, and nothing fits.                                *)
LEMMA NothingFits == Nulls(N) \in Words(N) /\ Val(Nulls(N)) = 0 /\ Residue(0, N) = 0 /\ Fits(0, N)
<1>1. N \in Nat
  BY DEF N
<1>2. Nulls(N) \in Words(N) /\ Val(Nulls(N)) = 0
  BY <1>1, ValNulls
<1> QED
  BY <1>1, <1>2, WordFits

(* A result in the a-field alone.                                          *)
LEMMA ScalarOwes ==
  ASSUME NEW w, NEW f, NEW v, Val(w) = Residue(v, N), f <=> ~Fits(v, N)
  PROVE  Owes(Result(Scalar(w), f), <<v, 0>>, <<v, 0>>)
BY NothingFits DEF Owes, Result, Scalar, Point, Pair

(* TADD and TSUB (cpu.v:118-126).                                          *)
LEMMA AddOwes ==
  ASSUME NEW x, NEW y, Balances(x), Balances(y), NEW z, z = Pair(x), NEW v, v = Pair(y)
  PROVE  /\ LET m == <<z[1] + v[1], z[2] + v[2]>> IN Owes(TADD(x, y), m, m)
         /\ LET m == <<z[1] - v[1], z[2] - v[2]>> IN Owes(TSUB(x, y), m, m)
<1>1. ASSUME NEW u, Balances(u), NEW m1, m1 = Val(x.a) + Val(u.a), NEW m2, m2 = Val(x.b) + Val(u.b)
      PROVE  Owes(TADD(x, u), <<m1, m2>>, <<m1, m2>>)
  <2> DEFINE s == Ripple(x.a, u.a)
             t == Ripple(x.b, u.b)
  <2>1. N \in Nat /\ x.a \in Words(N) /\ x.b \in Words(N) /\ u.a \in Words(N) /\ u.b \in Words(N)
    BY <1>1, Coefficients
  <2>2. Val(s.sum) = Residue(m1, N) /\ (s.carry # Null <=> ~Fits(m1, N))
    BY <1>1, <2>1, RippleExact
  <2>3. Val(t.sum) = Residue(m2, N) /\ (t.carry # Null <=> ~Fits(m2, N))
    BY <1>1, <2>1, RippleExact
  <2>4. TADD(x, u) = [wdata |-> [a |-> s.sum, b |-> t.sum], wovf |-> s.carry # Null \/ t.carry # Null]
    BY DEF TADD, Result, Point
  <2> DEFINE r == TADD(x, u)
             m == <<m1, m2>>
             up == s.carry # Null \/ t.carry # Null
  <2>5. Pair(r.wdata) = <<Val(s.sum), Val(t.sum)>> /\ r.wovf = up
    <3>1. r = [wdata |-> [a |-> s.sum, b |-> t.sum], wovf |-> up]
      BY <2>4
    <3> HIDE DEF s, t, r, up
    <3> QED
      BY <3>1 DEF Pair
  <2>6. m[1] = m1 /\ m[2] = m2
    OBVIOUS
  <2> HIDE DEF s, t, r, m
  <2>7. Pair(r.wdata) = <<Residue(m[1], N), Residue(m[2], N)>>
    BY <2>2, <2>3, <2>5, <2>6
  <2>8. r.wovf <=> ~(Fits(m[1], N) /\ Fits(m[2], N))
    BY <2>2, <2>3, <2>5, <2>6
  <2> QED
    BY <2>7, <2>8 DEF Owes, r, m
<1>2. /\ z[1] = Val(x.a) /\ z[2] = Val(x.b) /\ v[1] = Val(y.a) /\ v[2] = Val(y.b)
      /\ Val(x.a) \in Int /\ Val(x.b) \in Int /\ Val(y.a) \in Int /\ Val(y.b) \in Int
      /\ y.a \in Words(N) /\ y.b \in Words(N) /\ N \in Nat
  BY Coefficients
<1>3. LET m == <<z[1] + v[1], z[2] + v[2]>> IN Owes(TADD(x, y), m, m)
  BY <1>1, <1>2
<1> DEFINE u == Point(Neg(y.a), Neg(y.b))
<1>4. Balances(u) /\ Val(u.a) = -Val(y.a) /\ Val(u.b) = -Val(y.b)
  BY <1>2, ValNeg DEF Balances, Point
<1>5. TSUB(x, y) = TADD(x, u)
  BY DEF TSUB
<1> HIDE DEF u
<1>6. z[1] - v[1] = Val(x.a) + Val(u.a) /\ z[2] - v[2] = Val(x.b) + Val(u.b)
  BY <1>2, <1>4
<1>7. LET m == <<z[1] - v[1], z[2] - v[2]>> IN Owes(TADD(x, u), m, m)
  BY <1>1, <1>4, <1>6
<1> QED
  BY <1>3, <1>5, <1>7

(* The rotations written out.                                              *)
LEMMA TurnedIs ==
  ASSUME NEW p \in Int, NEW q \in Int, NEW k \in 0 .. 5
  PROVE  Turned(<<p, q>>, k) =
           IF k = 0 THEN <<p, q>> ELSE IF k = 1 THEN <<-q, p + q>>
           ELSE IF k = 2 THEN <<-(p + q), p>> ELSE IF k = 3 THEN <<-p, -q>>
           ELSE IF k = 4 THEN <<q, -(p + q)>> ELSE <<p + q, -p>>
<1> DEFINE z == <<p, q>>
           Step(f) == [j \in 0 .. 5 |-> IF j = 0 THEN z
                                        ELSE <<-f[j - 1][2], f[j - 1][1] + f[j - 1][2]>>]
           g == [j \in 0 .. 5 |->
                   IF j = 0 THEN <<p, q>> ELSE IF j = 1 THEN <<-q, p + q>>
                   ELSE IF j = 2 THEN <<-(p + q), p>> ELSE IF j = 3 THEN <<-p, -q>>
                   ELSE IF j = 4 THEN <<q, -(p + q)>> ELSE <<p + q, -p>>]
           t == CHOOSE f : f = Step(f)
<1>1. Turned(z, k) = t[k]
  BY Zenon DEF Turned
<1>2. g = Step(g)
  <2>1. /\ g[0] = <<p, q>> /\ g[1] = <<-q, p + q>> /\ g[2] = <<-(p + q), p>> /\ g[3] = <<-p, -q>>
        /\ g[4] = <<q, -(p + q)>> /\ g[5] = <<p + q, -p>>
    OBVIOUS
  <2>2. ASSUME NEW j \in 0 .. 5 PROVE g[j] = Step(g)[j]
    <3>1. Step(g)[j] = IF j = 0 THEN z ELSE <<-g[j - 1][2], g[j - 1][1] + g[j - 1][2]>>
      <4> HIDE DEF g
      <4> QED
        OBVIOUS
    <3>2. j \in {0, 1, 2, 3, 4, 5}
      OBVIOUS
    <3> HIDE DEF g, Step
    <3>3. CASE j = 0
      BY <2>1, <3>1, <3>3
    <3>4. CASE j = 1
      BY <2>1, <3>1, <3>4
    <3>5. CASE j = 2
      BY <2>1, <3>1, <3>5
    <3>6. CASE j = 3
      BY <2>1, <3>1, <3>6
    <3>7. CASE j = 4
      BY <2>1, <3>1, <3>7
    <3>8. CASE j = 5
      BY <2>1, <3>1, <3>8
    <3> QED
      BY <3>2, <3>3, <3>4, <3>5, <3>6, <3>7, <3>8
  <2>3. g = [j \in 0 .. 5 |-> g[j]] /\ Step(g) = [j \in 0 .. 5 |-> Step(g)[j]]
    OBVIOUS
  <2> HIDE DEF g, Step
  <2> QED
    BY <2>2, <2>3
<1>3. t = Step(t)
  <2> HIDE DEF g, Step
  <2> QED
    BY <1>2
<1> HIDE DEF t
<1>4. /\ t[0] = <<p, q>> /\ t[1] = <<-q, p + q>> /\ t[2] = <<-(p + q), p>> /\ t[3] = <<-p, -q>>
      /\ t[4] = <<q, -(p + q)>> /\ t[5] = <<p + q, -p>>
  <2>1. \A j \in 0 .. 5 : t[j] = IF j = 0 THEN z ELSE <<-t[j - 1][2], t[j - 1][1] + t[j - 1][2]>>
    <3> DEFINE B(j) == IF j = 0 THEN z ELSE <<-t[j - 1][2], t[j - 1][1] + t[j - 1][2]>>
    <3>1. t = [j \in 0 .. 5 |-> B(j)]
      BY <1>3
    <3> HIDE DEF B
    <3>2. \A j \in 0 .. 5 : t[j] = B(j)
      BY <3>1
    <3> QED
      BY <3>2 DEF B
  <2>2. t[0] = <<p, q>>
    BY <2>1
  <2>3. t[1] = <<-t[0][2], t[0][1] + t[0][2]>> /\ t[2] = <<-t[1][2], t[1][1] + t[1][2]>>
        /\ t[3] = <<-t[2][2], t[2][1] + t[2][2]>> /\ t[4] = <<-t[3][2], t[3][1] + t[3][2]>>
        /\ t[5] = <<-t[4][2], t[4][1] + t[4][2]>>
    BY <2>1
  <2>4. t[1] = <<-q, p + q>>
    BY <2>2, <2>3
  <2>5. t[2] = <<-(p + q), p>>
    BY <2>3, <2>4
  <2>6. t[3] = <<-p, -q>>
    BY <2>3, <2>5
  <2>7. t[4] = <<q, -(p + q)>>
    BY <2>3, <2>6
  <2>8. t[5] = <<p + q, -p>>
    BY <2>3, <2>7
  <2> QED
    BY <2>2, <2>4, <2>5, <2>6, <2>7, <2>8
<1>5. k \in {0, 1, 2, 3, 4, 5}
  OBVIOUS
<1> QED
  BY <1>1, <1>4, <1>5

(* A result of two coefficients.                                           *)
LEMMA PointOwes ==
  ASSUME NEW u, NEW v, NEW f, NEW m, NEW wide,
         Val(u) = Residue(m[1], N), Val(v) = Residue(m[2], N),
         f <=> ~(Fits(wide[1], N) /\ Fits(wide[2], N))
  PROVE  Owes(Result(Point(u, v), f), m, wide)
<1>1. Result(Point(u, v), f).wovf = f /\ Pair(Result(Point(u, v), f).wdata) = <<Val(u), Val(v)>>
  BY DEF Result, Point, Pair
<1> QED
  BY <1>1 DEF Owes

(* TROT (cpu.v:128-194): the point turned, and the flag of a + b, also for *)
(* the k that do not use it.                                               *)
LEMMA RotOwes ==
  ASSUME NEW x, Balances(x), NEW z, z = Pair(x), NEW k \in Nat
  PROVE  Owes(TROT(x, k), IF k < 6 THEN Turned(z, k) ELSE <<0, 0>>, <<z[1] + z[2], 0>>)
<1> DEFINE r == Ripple(x.a, x.b)
           s == r.sum
           f == r.carry # Null
           p == Val(x.a)
           q == Val(x.b)
           v == p + q
           m == IF k < 6 THEN Turned(z, k) ELSE <<0, 0>>
           wide == <<z[1] + z[2], 0>>
<1>1. N \in Nat /\ x.a \in Words(N) /\ x.b \in Words(N) /\ z[1] = p /\ z[2] = q /\ p \in Int
      /\ q \in Int
      /\ z = <<p, q>>
  BY Coefficients DEF Pair
<1>2. /\ v \in Int /\ Worth(s, N, v) /\ s \in Words(N) /\ Val(s) = Residue(v, N)
      /\ f <=> ~Fits(v, N)
  BY <1>1, RippleExact
<1>3. Residue(p, N) = p /\ Residue(q, N) = q
  BY <1>1, WordFits
<1>4. /\ Val(Neg(x.a)) = Residue(-p, N) /\ -p = Val(Neg(x.a))
      /\ Val(Neg(x.b)) = Residue(-q, N) /\ -q = Val(Neg(x.b))
  <2>1. /\ Neg(x.a) \in Words(N) /\ Val(Neg(x.a)) = -p /\ Neg(x.b) \in Words(N)
           /\ Val(Neg(x.b)) = -q
    BY <1>1, ValNeg
  <2> QED
    BY <1>1, <2>1, WordFits
<1>5. Val(Neg(s)) = Residue(-v, N)
  <2>1. Worth(Neg(s), N, -v) /\ -v \in Int
    BY <1>1, <1>2, WorthNeg
  <2> QED
    BY <1>1, <2>1, WorthResidue
<1>6. wide[1] = v /\ wide[2] = 0
  BY <1>1
<1>7. f <=> ~(Fits(wide[1], N) /\ Fits(wide[2], N))
  BY <1>2, <1>6, NothingFits
<1>8. TROT(x, k) = Result(CASE k = 0 -> x
                            [] k = 1 -> Point(Neg(x.b), s)
                            [] k = 2 -> Point(Neg(s), x.a)
                            [] k = 3 -> Point(Neg(x.a), Neg(x.b))
                            [] k = 4 -> Point(x.b, Neg(s))
                            [] k = 5 -> Point(s, Neg(x.a))
                            [] OTHER -> Origin, f)
  BY DEF TROT
<1> HIDE DEF f, wide
<1>9. Owes(Result(x, f), <<p, q>>, wide)
  <2>1. Result(x, f).wovf = f /\ Pair(Result(x, f).wdata) = <<p, q>>
    BY DEF Result, Pair
  <2> QED
    BY <1>3, <1>7, <2>1 DEF Owes
<1>10. Owes(Result(Origin, f), <<0, 0>>, wide)
  BY <1>7, NothingFits, PointOwes DEF Origin, Scalar
<1> HIDE DEF r, s, p, q, v, m
<1>11. ASSUME NEW u, NEW w, NEW c, NEW d, m = <<c, d>>, TROT(x, k) = Result(Point(u, w), f),
              Val(u) = Residue(c, N), Val(w) = Residue(d, N)
       PROVE  Owes(TROT(x, k), m, wide)
  <2>1. m[1] = c /\ m[2] = d
    BY <1>11
  <2> QED
    BY <1>7, <1>11, <2>1, PointOwes
<1>12. Owes(TROT(x, k), m, wide)
  <2>0. CASE k = 0
    <3>1. m = <<p, q>>
      BY <1>1, <2>0, TurnedIs DEF m
    <3>2. TROT(x, k) = Result(x, f)
      BY <1>8, <2>0
    <3> QED
      BY <1>9, <3>1, <3>2
  <2>1. CASE k = 1
    <3>1. m = <<-q, v>>
      BY <1>1, <2>1, TurnedIs DEF m, v
    <3>2. TROT(x, k) = Result(Point(Neg(x.b), s), f)
      BY <1>8, <2>1
    <3>3. Val(Neg(x.b)) = Residue(-q, N) /\ Val(s) = Residue(v, N)
      BY <1>2, <1>4
    <3> QED
      BY <1>11, <3>1, <3>2, <3>3
  <2>2. CASE k = 2
    <3>1. m = <<-v, p>>
      BY <1>1, <2>2, TurnedIs DEF m, v
    <3>2. TROT(x, k) = Result(Point(Neg(s), x.a), f)
      BY <1>8, <2>2
    <3>3. Val(Neg(s)) = Residue(-v, N) /\ Val(x.a) = Residue(p, N)
      BY <1>3, <1>5 DEF p
    <3> QED
      BY <1>11, <3>1, <3>2, <3>3
  <2>3. CASE k = 3
    <3>1. m = <<-p, -q>>
      BY <1>1, <2>3, TurnedIs DEF m
    <3>2. TROT(x, k) = Result(Point(Neg(x.a), Neg(x.b)), f)
      BY <1>8, <2>3
    <3>3. Val(Neg(x.a)) = Residue(-p, N) /\ Val(Neg(x.b)) = Residue(-q, N)
      BY <1>4
    <3> QED
      BY <1>11, <3>1, <3>2, <3>3
  <2>4. CASE k = 4
    <3>1. m = <<q, -v>>
      BY <1>1, <2>4, TurnedIs DEF m, v
    <3>2. TROT(x, k) = Result(Point(x.b, Neg(s)), f)
      BY <1>8, <2>4
    <3>3. Val(x.b) = Residue(q, N) /\ Val(Neg(s)) = Residue(-v, N)
      BY <1>3, <1>5 DEF q
    <3> QED
      BY <1>11, <3>1, <3>2, <3>3
  <2>5. CASE k = 5
    <3>1. m = <<v, -p>>
      BY <1>1, <2>5, TurnedIs DEF m, v
    <3>2. TROT(x, k) = Result(Point(s, Neg(x.a)), f)
      BY <1>8, <2>5
    <3>3. Val(s) = Residue(v, N) /\ Val(Neg(x.a)) = Residue(-p, N)
      BY <1>2, <1>4
    <3> QED
      BY <1>11, <3>1, <3>2, <3>3
  <2>6. CASE k > 5
    <3>1. m = <<0, 0>> /\ TROT(x, k) = Result(Origin, f)
      BY <1>8, <2>6 DEF m
    <3> QED
      BY <1>10, <3>1
  <2>7. k = 0 \/ k = 1 \/ k = 2 \/ k = 3 \/ k = 4 \/ k = 5 \/ k > 5
    OBVIOUS
  <2> QED
    BY <2>0, <2>1, <2>2, <2>3, <2>4, <2>5, <2>6, <2>7
<1> QED
  BY <1>12 DEF m, wide

(* TNORM (cpu.v:134-139).                                                  *)
LEMMA NormOwes ==
  ASSUME NEW x, NEW y, Balances(x), Balances(y), NEW z, z = Pair(x), NEW v, v = Pair(y)
  PROVE  LET m == <<NormOf(z[1], v[1]), 0>> IN Owes(TNORM(x, y), m, m)
<1> DEFINE r == NormOpt(x.a, y.a, FALSE)
<1>1. x.a \in Words(N) /\ y.a \in Words(N) /\ z[1] = Val(x.a) /\ v[1] = Val(y.a)
  BY Coefficients
<1>2. /\ Val(r.n) = Residue(NormOf(z[1], v[1]), N)
      /\ r.ofit <=> ~Fits(NormOf(z[1], v[1]), N)
  <2>1. 3 \in Nat \ {0} /\ N = 2 * 3 /\ FALSE \in BOOLEAN
    BY DEF N
  <2>2. /\ Val(r.n) = Residue(NormOf(Val(x.a), Val(y.a)), N)
        /\ r.ofit <=> ~Fits(NormOf(Val(x.a), Val(y.a)), N)
    BY <1>1, <2>1, NormOptIs
  <2> QED
    BY <1>1, <2>2
<1>3. TNORM(x, y) = Result(Scalar(r.n), r.ofit)
  BY DEF TNORM
<1> HIDE DEF r
<1> QED
  BY <1>2, <1>3, ScalarOwes

(* TMUL (cpu.v:141-152).                                                   *)
LEMMA MulOwes ==
  ASSUME NEW x, NEW y, Balances(x), Balances(y), NEW z, z = Pair(x), NEW v, v = Pair(y)
  PROVE  LET m == <<EisenA(z[1], z[2], v[1], v[2]), EisenB(z[1], z[2], v[1], v[2])>>
         IN  Owes(TMUL(x, y), m, m)
<1> DEFINE a == x.a
           b == x.b
           c == y.a
           d == y.b
           p == EisenMul(a, b, c, d)
           A == EisenA(Val(a), Val(b), Val(c), Val(d))
           B == EisenB(Val(a), Val(b), Val(c), Val(d))
           f == Wider(p.A, N) \/ Wider(p.B, N)
           e == 2 * N
           R == 2 * N + 1
<1>0. z[1] = Val(a) /\ z[2] = Val(b) /\ v[1] = Val(c) /\ v[2] = Val(d)
  BY Coefficients
<1>1. /\ N \in Nat \ {0} /\ N \in Nat
      /\ a \in Words(N) /\ b \in Words(N) /\ c \in Words(N) /\ d \in Words(N)
  BY Coefficients
<1>2. p.A \in Words(e) /\ p.B \in Words(R) /\ Val(p.A) = A /\ Val(p.B) = B
  <2> HIDE DEF a, b, c, d
  <2> QED
    BY <1>1, EisenIs
<1>3. e \in Nat /\ R \in Nat /\ N \in 0 .. e /\ N \in 0 .. R
  BY <1>1
<1>4. TMUL(x, y) = Result(Point(Low(p.A, N), Low(p.B, N)), f)
  BY DEF TMUL
<1> HIDE DEF a, b, c, d, p, A, B, e, R
<1>5. /\ Val(Low(p.A, N)) = Residue(A, N) /\ Val(Low(p.B, N)) = Residue(B, N)
      /\ Wider(p.A, N) <=> ~Fits(A, N)
      /\ Wider(p.B, N) <=> ~Fits(B, N)
  BY <1>2, <1>3, CutExact
<1> DEFINE m == <<A, B>>
<1>6. m[1] = A /\ m[2] = B
  OBVIOUS
<1> HIDE DEF m
<1>7. Owes(Result(Point(Low(p.A, N), Low(p.B, N)), f), m, m)
  <2>1. f <=> ~(Fits(m[1], N) /\ Fits(m[2], N))
    BY <1>5, <1>6
  <2> HIDE DEF f
  <2> QED
    BY <1>5, <1>6, <2>1, PointOwes
<1> QED
  BY <1>0, <1>4, <1>7 DEF m, A, B

(* TCONJ (cpu.v:154-160).                                                  *)
LEMMA ConjOwes ==
  ASSUME NEW x, Balances(x), NEW z, z = Pair(x)
  PROVE  LET m == <<z[1] + z[2], -z[2]>> IN Owes(TCONJ(x), m, m)
<1> DEFINE p == Conj(x.a, x.b)
           m == <<z[1] + z[2], -z[2]>>
<1>1. N \in Nat \ {0} /\ N \in Nat /\ x.a \in Words(N) /\ x.b \in Words(N) /\ z[1] = Val(x.a)
      /\ z[2] = Val(x.b)
  BY Coefficients
<1>2. /\ Val(p.a) = Residue(z[1] + z[2], N) /\ p.b \in Words(N) /\ Val(p.b) = -z[2]
      /\ p.ofit <=> ~Fits(z[1] + z[2], N)
  BY <1>1, ConjIs
<1>3. TCONJ(x) = Result(Point(p.a, p.b), p.ofit)
  BY DEF TCONJ
<1> HIDE DEF p
<1>4. Val(p.b) = Residue(-z[2], N) /\ Fits(-z[2], N)
  BY <1>1, <1>2, WordFits
<1>5. m[1] = z[1] + z[2] /\ m[2] = -z[2]
  OBVIOUS
<1> HIDE DEF m
<1>6. Owes(Result(Point(p.a, p.b), p.ofit), m, m)
  BY <1>2, <1>4, <1>5, PointOwes
<1> QED
  BY <1>3, <1>6 DEF m

(* TDOT, TWEDGE and TSYMDOT (cpu.v:162-170).                               *)
LEMMA GaOwes ==
  ASSUME NEW x, NEW y, Balances(x), Balances(y), NEW z, z = Pair(x), NEW v, v = Pair(y)
  PROVE  LET D == <<DotOf(z[1], z[2], v[1], v[2]), 0>>
             W == <<WedgeOf(z[1], z[2], v[1], v[2]), 0>>
             S == <<SymDotOf(z[1], z[2], v[1], v[2]), 0>>
         IN  /\ Owes(GaScalar(Split(x, y).dot), D, D)
             /\ Owes(GaScalar(Split(x, y).wedge), W, W)
             /\ Owes(GaScalar(Split(x, y).symdot), S, S)
<1> DEFINE a == x.a
           b == x.b
           c == y.a
           d == y.b
           g == GaSplit(a, b, c, d)
           R == 2 * N + 2
<1>0. /\ z[1] = Val(a) /\ z[2] = Val(b) /\ v[1] = Val(c) /\ v[2] = Val(d)
      /\ Split(x, y) = g
  BY Coefficients DEF Split
<1>1. /\ N \in Nat \ {0} /\ N \in Nat
      /\ a \in Words(N) /\ b \in Words(N) /\ c \in Words(N) /\ d \in Words(N)
  BY Coefficients
<1> HIDE DEF a, b, c, d
<1>2. /\ g.dot \in Words(R) /\ Val(g.dot) = DotOf(Val(a), Val(b), Val(c), Val(d))
      /\ g.wedge \in Words(R) /\ Val(g.wedge) = WedgeOf(Val(a), Val(b), Val(c), Val(d))
      /\ g.symdot \in Words(R) /\ Val(g.symdot) = SymDotOf(Val(a), Val(b), Val(c), Val(d))
  BY <1>1, GaSplitIs
<1>3. R \in Nat /\ N \in 0 .. R
  BY <1>1
<1> HIDE DEF g, R
<1>4. ASSUME NEW w \in Words(R), NEW u, Val(w) = u PROVE Owes(GaScalar(w), <<u, 0>>, <<u, 0>>)
  <2>1. /\ Val(Low(w, N)) = Residue(u, N)
        /\ Wider(w, N) <=> ~Fits(u, N)
    BY <1>3, <1>4, CutExact
  <2> QED
    BY <2>1, ScalarOwes DEF GaScalar
<1> QED
  BY <1>0, <1>2, <1>4

(* What six trits hold.                                                    *)
LEMMA SixTrits == Greatest(0) = 0 /\ Greatest(N) = 364
BY GreatestIs DEF N

(* One step of s2t6: a residual within k + 1 trits loses its top digit and *)
(* is left within k.                                                       *)
LEMMA PeelExact ==
  ASSUME NEW k \in 1 .. N, NEW p, p.r \in Int, p.w \in Words(k - 1), NEW v,
         Within(p.r, Greatest(N - k + 1)), v = p.r + Pow3[N - k + 1] * Val(p.w),
         NEW u, u = Peel(k, p)
  PROVE  /\ u.w \in Words(k) /\ Within(u.r, Greatest(N - k))
         /\ v = u.r + Pow3[N - k] * Val(u.w)
<1> DEFINE m == N - k
           j == k - 1
           t == TopDigit(k, p)
           h == Greatest(m)
           P == Pow3[m]
           e == Digit(t)
           x == Val(p.w)
<1>1. m \in Nat /\ j \in Nat /\ 1 + j = k /\ 1 \in Nat
  BY DEF N
<1>2. /\ h \in Nat /\ P \in Nat /\ P = 2 * h + 1 /\ Pow3[m + 1] = 3 * P
         /\ Greatest(m + 1) = 3 * h + 1
  <2> HIDE DEF m
  <2> QED
    BY <1>1, PowFacts, WidthGrowth
<1>3. t = IF p.r > h THEN Plus ELSE IF p.r < -h THEN Minus ELSE Null
  BY DEF TopDigit
<1>4. u.r = p.r - e * P /\ u.w = <<t>> \o p.w
  BY DEF Peel
<1>5. x \in Int
  BY <1>1, ValWithin
<1>6. t \in Balanced /\ e = IF p.r > h THEN 1 ELSE IF p.r < -h THEN -1 ELSE 0
  BY <1>3 DEF Digit, Balanced, Null, Plus, Minus
<1> HIDE DEF t, h, P, e, x, m
<1>7. <<t>> \in Words(1) /\ Val(<<t>>) = e
  <2>1. << >> \in Words(0)
    BY DEF Words
  <2>2. 0 \in Nat /\ 0 + 1 = 1 /\ Low(<< >>, 0) = << >>
    BY <2>1, LowUp
  <2>3. Val(<< >>) = 0
    BY <2>1, <2>2, LowUp
  <2>4. Append(<< >>, t) = <<t>>
    OBVIOUS
  <2>5. Append(<< >>, t) \in Words(0 + 1) /\ Val(Append(<< >>, t)) = Val(<< >>) + Digit(t) * Pow3[0]
    BY <1>6, <2>1, <2>2, ValAppend
  <2>6. Pow3[0] = 1
    BY PowIs
  <2> QED
    BY <1>6, <2>2, <2>3, <2>4, <2>5, <2>6 DEF e
<1>8. u.w \in Words(k) /\ Val(u.w) = e + 3 * x
  <2>1. Pow3[1] = 3
    BY PowIs
  <2>2. p.w \in Words(j)
    OBVIOUS
  <2> HIDE DEF j
  <2>3. <<t>> \o p.w \in Words(1 + j) /\ Val(<<t>> \o p.w) = Val(<<t>>) + Pow3[1] * Val(p.w)
    BY <1>1, <1>7, <2>2, ValJoin
  <2> QED
    BY <1>1, <1>4, <1>7, <2>1, <2>3 DEF x
<1>9. Within(u.r, h)
  <2>1. p.r \in Int /\ -(3 * h + 1) <= p.r /\ p.r <= 3 * h + 1
    BY <1>2 DEF Within, m
  <2>2. CASE p.r > h
    <3>1. u.r = p.r - (2 * h + 1)
      BY <1>2, <1>4, <1>6, <2>2
    <3> QED
      BY <1>2, <2>1, <2>2, <3>1 DEF Within
  <2>3. CASE p.r < -h
    <3>1. u.r = p.r + (2 * h + 1)
      BY SMTT(20), <1>2, <1>4, <1>6, <2>1, <2>3
    <3> QED
      BY <1>2, <2>1, <2>3, <3>1 DEF Within
  <2>4. CASE ~(p.r > h) /\ ~(p.r < -h)
    <3>1. u.r = p.r
      BY <1>2, <1>4, <1>6, <2>1, <2>4
    <3> QED
      BY <1>2, <2>1, <2>4, <3>1 DEF Within
  <2> QED
    BY <2>2, <2>3, <2>4
<1>10. v = u.r + P * Val(u.w)
  <2>1. v = p.r + (3 * P) * x
    BY <1>2 DEF m, x
  <2>2. e \in Int
    BY <1>6
  <2>3. P * (e + 3 * x) = e * P + (3 * P) * x /\ e * P \in Int /\ (3 * P) * x \in Int
    BY <1>2, <1>5, <2>2
  <2> QED
    BY <1>4, <1>8, <2>1, <2>3
<1> QED
  BY <1>8, <1>9, <1>10 DEF h, P, m

(* An immediate becomes the six trits worth it (cpu.v:279-304).            *)
LEMMA S2T6Exact ==
  ASSUME NEW v, Within(v, Greatest(N))
  PROVE  S2T6(v) \in Words(N) /\ Val(S2T6(v)) = v
<1>1. PICK f : f = PeelStep(v, f) /\ S2T6(v) = f[N].w
  BY S2T6Is
<1>2. f[0] = Residual(v) /\ \A k \in 1 .. N : f[k] = Peel(k, f[k - 1])
  BY <1>1, PeelAt
<1> DEFINE Good(k) == /\ f[k].w \in Words(k) /\ Within(f[k].r, Greatest(N - k))
                      /\ v = f[k].r + Pow3[N - k] * Val(f[k].w)
           T == {k \in 0 .. N : Good(k)}
<1>3. Good(0)
  <2>1. f[0].r = v /\ f[0].w = << >> /\ N - 0 = N
    BY <1>2 DEF Residual, N
  <2>2. << >> \in Words(0)
    BY DEF Words
  <2>3. Low(<< >>, 0) = << >> /\ Val(Low(<< >>, 0)) = 0
    BY <2>2, LowUp
  <2>4. Pow3[N] * 0 = 0 /\ v \in Int
    <3>1. Pow3[N] \in Nat
      BY PowNat DEF N
    <3> QED
      BY <3>1 DEF Within
  <2> QED
    BY <2>1, <2>2, <2>3, <2>4
<1>4. ASSUME NEW k \in 1 .. N, Good(k - 1) PROVE Good(k)
  <2> DEFINE p == f[k - 1]
             u == f[k]
  <2>1. N - (k - 1) = N - k + 1
    BY DEF N
  <2>2. p.w \in Words(k - 1) /\ Within(p.r, Greatest(N - k + 1))
        /\ v = p.r + Pow3[N - k + 1] * Val(p.w)
    BY <1>4, <2>1
  <2>3. u = Peel(k, p)
    BY <1>2
  <2>4. p.r \in Int
    BY <2>2 DEF Within
  <2> HIDE DEF p, u
  <2>5. u.w \in Words(k) /\ Within(u.r, Greatest(N - k)) /\ v = u.r + Pow3[N - k] * Val(u.w)
    BY <2>2, <2>3, <2>4, PeelExact
  <2> QED
    BY <2>5 DEF u
<1>5. Good(N)
  <2>1. N \in Nat /\ N \in 0 .. N
    BY DEF N
  <2> HIDE DEF Good
  <2>2. 0 \in T /\ \A k \in 1 .. N : k - 1 \in T => k \in T
    <3>1. \A k \in 1 .. N : k \in 0 .. N /\ k - 1 \in 0 .. N
      BY <2>1
    <3> QED
      BY <1>3, <1>4, <2>1, <3>1
  <2>3. \A k \in 0 .. N : k \in T
    <3> HIDE DEF T
    <3> QED
      BY <2>1, <2>2, Climb
  <2> QED
    BY <2>1, <2>3
<1>6. /\ f[N].w \in Words(N) /\ Within(f[N].r, 0) /\ v = f[N].r + 1 * Val(f[N].w)
  <2>1. N - N = 0 /\ Pow3[0] = 1 /\ Greatest(0) = 0
    BY SixTrits, PowIs DEF N
  <2> QED
    BY <1>5, <2>1
<1>7. Val(f[N].w) \in Int
  BY <1>6, ValWithin DEF N
<1>8. f[N].r = 0
  BY <1>6 DEF Within
<1> QED
  BY <1>1, <1>6, <1>7, <1>8

(* LDI (cpu.v:140).                                                        *)
LEMMA LdiOwes ==
  ASSUME NEW i \in Instr
  PROVE  LET m == <<Imm(i), 0>> IN Owes(Result(Scalar(S2T6(Imm(i))), FALSE), m, m)
<1> DEFINE v == Imm(i)
<1>1. Within(v, Greatest(N))
  BY SixTrits DEF Within, Imm, Instr
<1> HIDE DEF v
<1>2. S2T6(v) \in Words(N) /\ Val(S2T6(v)) = v /\ N \in Nat
  BY <1>1, S2T6Exact DEF N
<1>3. Val(S2T6(v)) = Residue(v, N) /\ Fits(v, N)
  BY <1>2, WordFits
<1>4. FALSE <=> ~Fits(v, N)
  BY <1>3
<1>5. Owes(Result(Scalar(S2T6(v)), FALSE), <<v, 0>>, <<v, 0>>)
  BY <1>3, <1>4, ScalarOwes
<1> QED
  BY <1>5 DEF v

(* Every opcode.                                                           *)
LEMMA AluOwes ==
  ASSUME NEW i \in Instr, NEW x, NEW y, Balances(x), Balances(y),
         NEW z, z = Pair(x), NEW v, v = Pair(y), NEW m, m = Meaning(i, z, v)
  PROVE  Owes(Alu(i, x, y), m, IF i.op = 2 THEN <<z[1] + z[2], 0>> ELSE m)
<1>1. i.op \in 0 .. 15 /\ Rb(i) \in Nat
  BY DEF Instr, Rb
<1>2. CASE i.op = 0
  <2> DEFINE u == <<z[1] + v[1], z[2] + v[2]>>
  <2>1. Alu(i, x, y) = TADD(x, y) /\ m = u
    BY <1>2 DEF Alu, Meaning
  <2>2. Owes(TADD(x, y), u, u)
    BY AddOwes
  <2> HIDE DEF u
  <2> QED
    BY <1>2, <2>1, <2>2
<1>3. CASE i.op = 1
  <2> DEFINE u == <<z[1] - v[1], z[2] - v[2]>>
  <2>1. Alu(i, x, y) = TSUB(x, y) /\ m = u
    BY <1>3 DEF Alu, Meaning
  <2>2. Owes(TSUB(x, y), u, u)
    BY AddOwes
  <2> HIDE DEF u
  <2> QED
    BY <1>3, <2>1, <2>2
<1>4. CASE i.op = 2
  <2>1. Alu(i, x, y) = TROT(x, Rb(i)) /\ m = IF Rb(i) < 6 THEN Turned(z, Rb(i)) ELSE <<0, 0>>
    BY <1>4 DEF Alu, Meaning
  <2>2. Owes(TROT(x, Rb(i)), IF Rb(i) < 6 THEN Turned(z, Rb(i)) ELSE <<0, 0>>, <<z[1] + z[2], 0>>)
    BY <1>1, RotOwes
  <2> QED
    BY <1>4, <2>1, <2>2
<1>5. CASE i.op = 3
  <2> DEFINE u == <<NormOf(z[1], v[1]), 0>>
  <2>1. Alu(i, x, y) = TNORM(x, y) /\ m = u
    BY <1>5 DEF Alu, Meaning
  <2>2. Owes(TNORM(x, y), u, u)
    BY NormOwes
  <2> HIDE DEF u
  <2> QED
    BY <1>5, <2>1, <2>2
<1>6. CASE i.op = 4
  <2> DEFINE u == <<Imm(i), 0>>
  <2>1. Alu(i, x, y) = Result(Scalar(S2T6(Imm(i))), FALSE) /\ m = u
    <3>1. i.op # 0 /\ i.op # 1 /\ i.op # 2 /\ i.op # 3
      BY <1>6
    <3>2. Alu(i, x, y) = Result(Scalar(S2T6(Imm(i))), FALSE)
      BY <1>6, <3>1 DEF Alu
    <3>3. Meaning(i, z, v) = u
      BY <1>6, <3>1 DEF Meaning
    <3> QED
      BY <3>2, <3>3, Zenon
  <2>2. Owes(Result(Scalar(S2T6(Imm(i))), FALSE), u, u)
    BY LdiOwes
  <2> HIDE DEF u
  <2> QED
    <3>1. (IF i.op = 2 THEN <<z[1] + z[2], 0>> ELSE m) = u
      BY <1>6, <2>1
    <3> QED
      BY <2>1, <2>2, <3>1, Zenon
<1>7. CASE i.op = 5
  <2> DEFINE u == <<EisenA(z[1], z[2], v[1], v[2]), EisenB(z[1], z[2], v[1], v[2])>>
  <2>1. Alu(i, x, y) = TMUL(x, y) /\ m = u
    BY <1>7 DEF Alu, Meaning
  <2>2. Owes(TMUL(x, y), u, u)
    BY MulOwes
  <2> HIDE DEF u
  <2> QED
    BY <1>7, <2>1, <2>2
<1>8. CASE i.op = 6
  <2> DEFINE u == <<z[1] + z[2], -z[2]>>
  <2>1. Alu(i, x, y) = TCONJ(x) /\ m = u
    BY <1>8 DEF Alu, Meaning
  <2>2. Owes(TCONJ(x), u, u)
    BY ConjOwes
  <2> HIDE DEF u
  <2> QED
    BY <1>8, <2>1, <2>2
<1>9. CASE i.op = 7
  <2> DEFINE u == <<DotOf(z[1], z[2], v[1], v[2]), 0>>
  <2>1. Alu(i, x, y) = GaScalar(Split(x, y).dot) /\ m = u
    BY <1>9 DEF Alu, Meaning
  <2>2. Owes(GaScalar(Split(x, y).dot), u, u)
    BY GaOwes
  <2> HIDE DEF u
  <2> QED
    BY <1>9, <2>1, <2>2
<1>10. CASE i.op = 8
  <2> DEFINE u == <<WedgeOf(z[1], z[2], v[1], v[2]), 0>>
  <2>1. Alu(i, x, y) = GaScalar(Split(x, y).wedge) /\ m = u
    BY <1>10 DEF Alu, Meaning
  <2>2. Owes(GaScalar(Split(x, y).wedge), u, u)
    BY GaOwes
  <2> HIDE DEF u
  <2> QED
    BY <1>10, <2>1, <2>2
<1>11. CASE i.op = 9
  <2> DEFINE u == <<SymDotOf(z[1], z[2], v[1], v[2]), 0>>
  <2>1. Alu(i, x, y) = GaScalar(Split(x, y).symdot) /\ m = u
    BY <1>11 DEF Alu, Meaning
  <2>2. Owes(GaScalar(Split(x, y).symdot), u, u)
    BY GaOwes
  <2> HIDE DEF u
  <2> QED
    BY <1>11, <2>1, <2>2
<1>12. CASE i.op > 9
  <2> DEFINE u == <<0, 0>>
  <2>1. Alu(i, x, y) = Result(Origin, FALSE) /\ m = u
    <3>1. /\ i.op # 0 /\ i.op # 1 /\ i.op # 2 /\ i.op # 3 /\ i.op # 4
          /\ i.op # 5 /\ i.op # 6 /\ i.op # 7 /\ i.op # 8 /\ i.op # 9
      BY <1>1, <1>12
    <3>2. Alu(i, x, y) = Result(Origin, FALSE)
      BY <3>1, Zenon DEF Alu
    <3>3. Meaning(i, z, v) = u
      BY <3>1, Zenon DEF Meaning
    <3> QED
      BY <3>2, <3>3, Zenon
  <2>2. Owes(Result(Scalar(Nulls(N)), FALSE), u, u)
    <3>1. Val(Nulls(N)) = Residue(0, N) /\ (FALSE <=> ~Fits(0, N))
      BY NothingFits
    <3> QED
      BY <3>1, ScalarOwes
  <2> HIDE DEF u
  <2> QED
    <3>1. (IF i.op = 2 THEN <<z[1] + z[2], 0>> ELSE m) = u
      BY <1>1, <1>12, <2>1
    <3> QED
      BY <2>1, <2>2, <3>1, Zenon DEF Origin
<1> QED
  BY <1>1, <1>2, <1>3, <1>4, <1>5, <1>6, <1>7, <1>8, <1>9, <1>10, <1>11, <1>12

(* A register of twelve trits without an 11 is balanced.                   *)
LEMMA BalancedPoint ==
  ASSUME NEW p \in PointOf(Trit), ~PointHasNever(p)
  PROVE  Balances(p) /\ p \in PointOf(Balanced)
<1>1. ASSUME NEW w \in WordOf(N, Trit), ~HasNever(w) PROVE w \in Words(N)
  <2>1. DOMAIN w = 1 .. N /\ \A k \in 1 .. N : w[k] \in Trit /\ w[k] # Never
    BY <1>1 DEF WordOf, HasNever
  <2>2. \A k \in 1 .. N : w[k] \in Balanced
    BY <2>1 DEF Trit, Balanced, Null, Minus, Never
  <2> QED
    BY <2>2 DEF WordOf, Words
<1>2. p.a \in WordOf(N, Trit) /\ p.b \in WordOf(N, Trit) /\ ~HasNever(p.a) /\ ~HasNever(p.b)
  BY DEF PointOf, PointHasNever
<1>3. p.a \in Words(N) /\ p.b \in Words(N)
  BY <1>1, <1>2
<1> QED
  BY <1>3 DEF Balances, PointOf, WordOf, Words

(* The instruction set (the table of cpu.v:20-57): an instruction on       *)
(* registers without an 11 stores what it means on integers, cut to six    *)
(* balanced trits a coefficient, and raises the flag exactly when the cut  *)
(* changed it.                                                             *)
THEOREM AluIsExact == Spec => AluExact
<1> DEFINE i == Fetch
           x == rf[Ra(i)]
           y == rf[Rb(i)]
           m == Meaning(i, Pair(x), Pair(y))
           wide == IF i.op = 2 THEN <<Pair(x)[1] + Pair(x)[2], 0>> ELSE m
           Exact == rst_n' /\ pc' # pc /\ ~PointHasNever(x) /\ ~PointHasNever(y) =>
                      /\ Pair(rf'[i.rd]) = <<Residue(m[1], N), Residue(m[2], N)>>
                      /\ ovf' <=> ~(Fits(wide[1], N) /\ Fits(wide[2], N))
<1>1. TypeOK /\ [Next]_cpuVars => [Exact]_cpuVars
  <2> SUFFICES ASSUME TypeOK, [Next]_cpuVars, rst_n', pc' # pc,
                      ~PointHasNever(x), ~PointHasNever(y)
               PROVE  /\ Pair(rf'[i.rd]) = <<Residue(m[1], N), Residue(m[2], N)>>
                      /\ ovf' <=> ~(Fits(wide[1], N) /\ Fits(wide[2], N))
    OBVIOUS
  <2>1. Execute
    BY DEF Next, Edge, Halt, AssertReset, ReleaseReset, Upset, cpuVars, coreVars
  <2> DEFINE r == Alu(i, x, y)
             c == Canary(x, y, r.wdata)
  <2>2. rf' = [rf EXCEPT ![i.rd] = r.wdata] /\ ovf' = (r.wovf \/ c)
    BY <2>1 DEF Execute
  <2>3. i \in Instr /\ i.rd \in Reg /\ Ra(i) \in Reg /\ Rb(i) \in Reg
    BY Fetched
  <2>4. x \in PointOf(Trit) /\ y \in PointOf(Trit) /\ DOMAIN rf = Reg
    BY <2>3, FileOfPoints DEF TypeOK
  <2>5. Balances(x) /\ Balances(y) /\ x \in PointOf(Balanced) /\ y \in PointOf(Balanced)
    BY <2>4, BalancedPoint
  <2>6. Owes(r, m, wide)
    BY <2>3, <2>5, AluOwes
  <2>7. r \in Sound(Balanced)
    BY <2>3, <2>5, AluSound
  <2> HIDE DEF r, m, wide, x, y, i
  <2>8. ~c
    <3>1. r.wdata \in PointOf(Balanced)
      BY <2>7 DEF Sound
    <3> QED
      BY <3>1, NoNever DEF Canary
  <2>9. rf'[i.rd] = r.wdata
    BY <2>2, <2>3, <2>4
  <2>10. ovf' <=> r.wovf
    <3>1. r.wovf \in BOOLEAN
      BY <2>7 DEF Sound
    <3> HIDE DEF c
    <3> QED
      BY <2>2, <2>8, <3>1
  <2> QED
    BY <2>6, <2>9, <2>10 DEF Owes
<1> QED
  BY <1>1, TypeCorrect, PTL DEF Spec, AluExact
=============================================================================
