----------------------------- MODULE TritsProofs ----------------------------
(***************************************************************************)
(* The cells of rtl/ternary_gates.v, rtl/tmul_opt.v and rtl/ga_ops.v at    *)
(* every width.                                                            *)
(*                                                                         *)
(* They never leave the codes they are given: four codes in, four codes    *)
(* out, and without an 11 among the operands none in the result. The cells *)
(* are recursive functions, so each is first shown to exist (Recursion)    *)
(* and then bounded step by step (Climb).                                  *)
(*                                                                         *)
(* On words without an 11 they compute what their names say. A word of n   *)
(* trits is worth v (Worth) when its value is v up to a multiple of 3^n,   *)
(* the carries dropped at its top; sums, cuts and shifts keep what a word  *)
(* is worth, whatever is dropped on the way. A result whose exact value    *)
(* fits its port is then that value (WorthExact), and two cells worth the  *)
(* same give the same trits (WorthSame).                                   *)
(***************************************************************************)
EXTENDS EisenCells, SequenceTheorems, WellFoundedInduction, TLAPS

(* Induction over a range, for a set of indices: what holds at 0 and is    *)
(* handed from each index to the next holds up to n.                       *)
LEMMA Climb ==
  ASSUME NEW n \in Nat, NEW T, 0 \in T, \A i \in 1 .. n : i - 1 \in T => i \in T
  PROVE  \A i \in 0 .. n : i \in T
<1> DEFINE Missed == {i \in 0 .. n : i \notin T}
           R == OpToRel(<, Nat)
<1>0. \A i \in Nat : i # 0 => <<i - 1, i>> \in R
  <2> SUFFICES ASSUME NEW i \in Nat, i # 0 PROVE <<i - 1, i>> \in R
    OBVIOUS
  <2>1. i - 1 \in Nat /\ i - 1 < i
    OBVIOUS
  <2> QED
    BY <2>1 DEF OpToRel
<1>1. SUFFICES ASSUME Missed # {} PROVE FALSE
  OBVIOUS
<1>2. IsWellFoundedOn(R, Nat)
  BY NatLessThanWellFounded
<1> HIDE DEF R
<1>3. PICK x \in Missed : \A y \in Missed : ~ (<<y, x>> \in R)
  <2>1. Missed \subseteq Nat
    OBVIOUS
  <2> HIDE DEF Missed
  <2> QED
    BY <1>1, <1>2, <2>1, WFMin
<1>4. x \in Nat /\ x # 0 /\ x \in 0 .. n
  OBVIOUS
<1>5. x - 1 \notin Missed
  BY <1>0, <1>3, <1>4
<1>6. x \in 1 .. n /\ x - 1 \in T
  BY <1>4, <1>5
<1> QED
  BY <1>6

(* What a concatenation holds, where.                                      *)
IsJoin(x, S, u, w, m, n) ==
  /\ x \in Seq(S) /\ Len(x) = m + n
  /\ \A k \in 1 .. m : x[k] = u[k]
  /\ \A k \in 1 .. n : x[m + k] = w[k]

LEMMA Joined ==
  ASSUME NEW S, NEW u \in Seq(S), NEW w \in Seq(S), NEW m \in Nat, NEW n \in Nat,
         Len(u) = m, Len(w) = n
  PROVE  IsJoin(u \o w, S, u, w, m, n)
<1>1. /\ u \o w \in Seq(S) /\ Len(u \o w) = m + n
      /\ \A k \in 1 .. m + n : (u \o w)[k] = IF k <= m THEN u[k] ELSE w[k - m]
  BY ConcatProperties
<1>2. ASSUME NEW k \in 1 .. m PROVE (u \o w)[k] = u[k]
  <2>1. k \in 1 .. m + n /\ k <= m
    OBVIOUS
  <2> QED
    BY <1>1, <2>1
<1>3. ASSUME NEW k \in 1 .. n PROVE (u \o w)[m + k] = w[k]
  <2>1. m + k \in 1 .. m + n /\ ~ (m + k <= m) /\ (m + k) - m = k
    OBVIOUS
  <2> QED
    BY <1>1, <2>1
<1> QED
  BY <1>1, <1>2, <1>3 DEF IsJoin

(* The ripple of tadd_n by its recursion: the state before the first trit, *)
(* the step of one trit, and the equation its function satisfies.          *)
Start == [sum |-> <<>>, carry |-> Null]

Adder(a, b, i, p) ==
  [sum |-> Append(p.sum, Sum1[<<a[i], b[i], p.carry>>]), carry |-> Carry1[<<a[i], b[i], p.carry>>]]

RippleStep(a, b, f) ==
  [i \in 0 .. Len(a) |-> IF i = 0 THEN Start ELSE Adder(a, b, i, f[i - 1])]

(* Where the equation has a solution, Ripple is the last state of one.     *)
LEMMA RippleIs ==
  ASSUME NEW a, NEW b, \E f : f = RippleStep(a, b, f)
  PROVE  \E f : f = RippleStep(a, b, f) /\ Ripple(a, b) = f[Len(a)]
<1> DEFINE s == CHOOSE f : f = RippleStep(a, b, f)
<1>1. s = RippleStep(a, b, s)
  OBVIOUS
<1>2. Ripple(a, b) = s[Len(a)]
  BY Zenon DEF Ripple, RippleStep, Start, Adder
<1> HIDE DEF s
<1> QED
  BY <1>1, <1>2

(* There is a function that starts at base and follows the step function   *)
(* g.                                                                      *)
Recurses(n, S, base, g) ==
  \E f \in [0 .. n -> S] : f[0] = base /\ \A i \in 1 .. n : f[i] = g[<<i, f[i - 1]>>]

(* A step function has such a function at every length.                    *)
LEMMA Recursion ==
  ASSUME NEW n \in Nat, NEW S, NEW base \in S, NEW g \in [(1 .. n) \X S -> S]
  PROVE  Recurses(n, S, base, g)
<1> DEFINE Upto(m, f) == f[0] = base /\ \A i \in 1 .. m : f[i] = g[<<i, f[i - 1]>>]
           T == {m \in 0 .. n : \E f \in [0 .. m -> S] : Upto(m, f)}
<1>1. 0 \in T
  <2> DEFINE f == [i \in 0 .. 0 |-> base]
  <2>1. f \in [0 .. 0 -> S] /\ Upto(0, f) /\ 0 \in 0 .. n
    OBVIOUS
  <2> HIDE DEF f, Upto
  <2> QED
    BY <2>1
<1>2. ASSUME NEW m \in 1 .. n, m - 1 \in T PROVE m \in T
  <2>1. PICK f \in [0 .. m - 1 -> S] : Upto(m - 1, f)
    BY <1>2
  <2> DEFINE h == [i \in 0 .. m |-> IF i = m THEN g[<<m, f[m - 1]>>] ELSE f[i]]
  <2>2. f[m - 1] \in S /\ g[<<m, f[m - 1]>>] \in S
    BY <2>1
  <2>3. h \in [0 .. m -> S]
    BY <2>1, <2>2
  <2>4. h[0] = base
    BY <2>1
  <2>5. ASSUME NEW i \in 1 .. m PROVE h[i] = g[<<i, h[i - 1]>>]
    <3>1. h[i - 1] = f[i - 1]
      OBVIOUS
    <3>2. CASE i = m
      <4>1. h[m] = g[<<m, f[m - 1]>>]
        OBVIOUS
      <4> QED
        BY <3>1, <3>2, <4>1
    <3>3. CASE i # m
      <4>1. i \in 1 .. m - 1 /\ h[i] = f[i]
        BY <3>3
      <4> QED
        BY <2>1, <3>1, <4>1
    <3> QED
      BY <3>2, <3>3
  <2>6. Upto(m, h)
    BY <2>4, <2>5
  <2> HIDE DEF h, Upto
  <2> QED
    BY <2>3, <2>6
<1>3. \A m \in 0 .. n : m \in T
  <2> HIDE DEF T
  <2> QED
    BY <1>1, <1>2, Climb
<1> QED
  BY <1>3 DEF Recurses

(* One trit at a time: tadd1, tneg and the trit product of                 *)
(* trit_functions.vh keep within the four codes, and within the three      *)
(* codes other than 11. The second is encode_never_both                    *)
(* (ternary_gates.v:28-30), over all 27 input triples.                     *)
LEMMA CellsClosed ==
  ASSUME NEW X \in {Trit, Balanced}, NEW s \in X, NEW t \in X, NEW u \in X
  PROVE  /\ Sum1[<<s, t, u>>] \in X /\ Carry1[<<s, t, u>>] \in X
         /\ TNeg(s) \in X /\ TMul(s, t) \in X
         /\ Null \in X
<1>1. Sum1[<<s, t, u>>] = TaddSum(<<s, t, u>>) /\ Carry1[<<s, t, u>>] = TaddCarry(<<s, t, u>>)
  BY DEF Sum1, Carry1, Trit, Balanced, Null, Plus, Minus, Never
<1>2. TaddSum(<<s, t, u>>) \in X
  <2>1. CASE X = Trit
    BY <2>1 DEF TaddSum, Rails, Trit, Null, Never
  <2>2. CASE X = Balanced
    BY <2>2 DEF TaddSum, SumPush, SumPull, NoPush, NoPull, Input, Others, Push, Pull, Rails,
                Balanced, Null, Plus, Minus, Never
  <2> QED
    BY <2>1, <2>2
<1>3. TaddCarry(<<s, t, u>>) \in X
  <2>1. CASE X = Trit
    BY <2>1 DEF TaddCarry, Rails, Trit, Null, Never
  <2>2. CASE X = Balanced
    BY <2>2 DEF TaddCarry, TwoPush, TwoPull, NoPush, NoPull, Input, Others, Push, Pull, Rails,
                Balanced, Null, Plus, Minus, Never
  <2> QED
    BY <2>1, <2>2
<1>4. TNeg(s) \in X /\ TMul(s, t) \in X /\ Null \in X
  BY DEF TNeg, TMul, Push, Pull, Rails, Trit, Balanced, Null, Plus, Minus, Never
<1> QED
  BY <1>1, <1>2, <1>3, <1>4

(* Words of n trits with codes in X.                                       *)
WordOf(n, X) == [1 .. n -> X]

(* A word is a sequence of its length.                                     *)
LEMMA WordLen ==
  ASSUME NEW X, NEW n \in Nat, NEW w \in WordOf(n, X)
  PROVE  w \in Seq(X) /\ Len(w) = n /\ DOMAIN w = 1 .. n /\ \A i \in 1 .. n : w[i] \in X
BY DEF WordOf

(* A sequence of length n is a word of n trits.                            *)
LEMMA SeqWord ==
  ASSUME NEW X, NEW n \in Nat, NEW w \in Seq(X), Len(w) = n
  PROVE  w \in WordOf(n, X)
BY LenProperties DEF WordOf

(* A word of balanced trits is a word of trits.                            *)
LEMMA TritWord ==
  ASSUME NEW X \in {Trit, Balanced}, NEW n \in Nat, NEW w \in WordOf(n, X)
  PROVE  w \in WordOf(n, Trit)
BY DEF WordOf, Trit, Balanced, Null, Minus, Never

(* One step of the ripple adds one trit of the same codes.                 *)
LEMMA AdderClosed ==
  ASSUME NEW X \in {Trit, Balanced}, NEW n \in Nat, NEW i \in 1 .. n,
         NEW a \in WordOf(n, X), NEW b \in WordOf(n, X),
         NEW p \in [sum : Seq(X), carry : X]
  PROVE  /\ Adder(a, b, i, p) \in [sum : Seq(X), carry : X]
         /\ Len(Adder(a, b, i, p).sum) = Len(p.sum) + 1
<1> DEFINE s == Sum1[<<a[i], b[i], p.carry>>]
           c == Carry1[<<a[i], b[i], p.carry>>]
<1>1. a[i] \in X /\ b[i] \in X /\ p.carry \in X /\ p.sum \in Seq(X)
  BY WordLen
<1>2. s \in X /\ c \in X
  BY <1>1, CellsClosed
<1>3. Adder(a, b, i, p) = [sum |-> Append(p.sum, s), carry |-> c]
  BY DEF Adder
<1> HIDE DEF s, c
<1>4. Append(p.sum, s) \in Seq(X) /\ Len(Append(p.sum, s)) = Len(p.sum) + 1
  BY <1>1, <1>2, AppendProperties
<1> QED
  BY <1>2, <1>3, <1>4

(* The equation of the ripple has a solution for any two words.            *)
LEMMA RippleExists ==
  ASSUME NEW n \in Nat, NEW a \in WordOf(n, Trit), NEW b \in WordOf(n, Trit)
  PROVE  \E f : f = RippleStep(a, b, f)
<1> DEFINE S == [sum : Seq(Trit), carry : Trit]
           g == [ip \in (1 .. n) \X S |-> Adder(a, b, ip[1], ip[2])]
<1>1. Start \in S
  BY DEF Start, Trit, Null, Never
<1>2. \A i \in 1 .. n, p \in S : Adder(a, b, i, p) \in S
  BY AdderClosed
<1>3. g \in [(1 .. n) \X S -> S]
  <2> HIDE DEF S
  <2> QED
    BY <1>2
<1>4. Recurses(n, S, Start, g)
  <2> HIDE DEF g, S
  <2> QED
    BY <1>1, <1>3, Recursion
<1>5. PICK f \in [0 .. n -> S] : f[0] = Start /\ \A i \in 1 .. n : f[i] = g[<<i, f[i - 1]>>]
  <2> HIDE DEF g, S
  <2> QED
    BY <1>4 DEF Recurses
<1>6. ASSUME NEW i \in 1 .. n PROVE f[i] = Adder(a, b, i, f[i - 1])
  <2>1. <<i, f[i - 1]>> \in (1 .. n) \X S
    BY <1>5
  <2> HIDE DEF S
  <2> QED
    BY <1>5, <2>1
<1>7. Len(a) = n
  BY WordLen
<1> HIDE DEF S
<1> QED
  BY <1>5, <1>6, <1>7 DEF RippleStep

(* The equation, at the first index and at the others. The two sides are   *)
(* named apart so that it can be cited where they are the same.            *)
LEMMA RippleAt ==
  ASSUME NEW a, NEW b, NEW f, NEW h, h = RippleStep(a, b, f), Len(a) \in Nat
  PROVE  h[0] = Start /\ \A i \in 1 .. Len(a) : h[i] = Adder(a, b, i, f[i - 1])
BY DEF RippleStep

(* tadd_n (tmul_opt.v:71-87) gives as many trits as it is given, and no 11 *)
(* unless it is given one, however far its carry runs.                     *)
LEMMA RippleWord ==
  ASSUME NEW X \in {Trit, Balanced}, NEW n \in Nat,
         NEW a \in WordOf(n, X), NEW b \in WordOf(n, X)
  PROVE  Ripple(a, b).sum \in WordOf(n, X) /\ Ripple(a, b).carry \in X
<1>1. Len(a) = n
  BY WordLen
<1>2. PICK f : f = RippleStep(a, b, f) /\ Ripple(a, b) = f[Len(a)]
  <2>1. a \in WordOf(n, Trit) /\ b \in WordOf(n, Trit)
    BY TritWord
  <2> QED
    BY <2>1, RippleExists, RippleIs
<1> DEFINE Good(i) == f[i] \in [sum : Seq(X), carry : X] /\ Len(f[i].sum) = i
           T == {i \in 0 .. n : Good(i)}
<1>3. f[0] = Start /\ \A i \in 1 .. n : f[i] = Adder(a, b, i, f[i - 1])
  BY <1>1, <1>2, RippleAt
<1>4. Good(0)
  <2>1. Null \in X
    BY DEF Trit, Balanced, Null, Minus, Never
  <2> QED
    BY <1>3, <2>1 DEF Start
<1>5. ASSUME NEW i \in 1 .. n, Good(i - 1) PROVE Good(i)
  <2>1. f[i] = Adder(a, b, i, f[i - 1])
    BY <1>3
  <2>2. /\ Adder(a, b, i, f[i - 1]) \in [sum : Seq(X), carry : X]
        /\ Len(Adder(a, b, i, f[i - 1]).sum) = Len(f[i - 1].sum) + 1
    BY <1>5, AdderClosed
  <2> QED
    BY <1>5, <2>1, <2>2
<1>6. \A i \in 0 .. n : Good(i)
  <2> HIDE DEF Good
  <2>1. 0 \in T /\ \A i \in 1 .. n : i - 1 \in T => i \in T
    BY <1>4, <1>5
  <2>2. \A i \in 0 .. n : i \in T
    <3> HIDE DEF T
    <3> QED
      BY <2>1, Climb
  <2> QED
    BY <2>2
<1>7. Ripple(a, b) \in [sum : Seq(X), carry : X] /\ Len(Ripple(a, b).sum) = n
  BY <1>1, <1>2, <1>6
<1> QED
  BY <1>7, SeqWord

(* The null word is balanced.                                              *)
LEMMA NullsWord ==
  ASSUME NEW X \in {Trit, Balanced}, NEW n \in Nat
  PROVE  Nulls(n) \in WordOf(n, X)
BY DEF WordOf, Nulls, Trit, Balanced, Null, Minus, Never

(* Concatenation of words.                                                 *)
LEMMA JoinWord ==
  ASSUME NEW X, NEW m \in Nat, NEW n \in Nat, NEW v \in WordOf(m, X), NEW w \in WordOf(n, X)
  PROVE  v \o w \in WordOf(m + n, X)
<1>1. v \in Seq(X) /\ w \in Seq(X) /\ Len(v) = m /\ Len(w) = n
  BY WordLen
<1> DEFINE u == v \o w
           k == m + n
<1>2. u \in Seq(X) /\ Len(u) = k /\ k \in Nat
  <2>1. v \o w \in Seq(X) /\ Len(v \o w) = Len(v) + Len(w)
    BY <1>1, ConcatProperties
  <2> QED
    BY <1>1, <2>1
<1>3. u \in WordOf(k, X)
  <2> HIDE DEF u, k
  <2> QED
    BY <1>2, SeqWord
<1> QED
  BY <1>3

(* The low trits of a word.                                                *)
LEMMA LowWord ==
  ASSUME NEW X, NEW n \in Nat, NEW m \in 0 .. n, NEW w \in WordOf(n, X)
  PROVE  Low(w, m) \in WordOf(m, X)
<1>1. \A i \in 1 .. m : w[i] \in X
  BY WordLen
<1> DEFINE u == SubSeq(w, 1, m)
<1>2. u \in Seq(X) /\ Len(u) = m
  BY <1>1, SubSeqProperties
<1>3. u \in WordOf(m, X)
  <2> HIDE DEF u
  <2> QED
    BY <1>2, SeqWord
<1> QED
  BY <1>3 DEF Low

(* The zero extension of a word.                                           *)
LEMMA ExtWord ==
  ASSUME NEW X \in {Trit, Balanced}, NEW n \in Nat, NEW m \in 0 .. n, NEW w \in WordOf(m, X)
  PROVE  Ext(w, n) \in WordOf(n, X)
<1> DEFINE k == n - m
<1>1. Len(w) = m /\ k \in Nat /\ m + k = n
  BY WordLen
<1>2. Ext(w, n) = w \o Nulls(k)
  BY <1>1 DEF Ext
<1> HIDE DEF k
<1>3. Nulls(k) \in WordOf(k, X)
  BY <1>1, NullsWord
<1>4. w \o Nulls(k) \in WordOf(m + k, X)
  BY <1>1, <1>3, JoinWord
<1> QED
  BY <1>1, <1>2, <1>4

(* Negation by swapping the rails (tmul_opt.v:104) keeps the codes.        *)
LEMMA NegWord ==
  ASSUME NEW X \in {Trit, Balanced}, NEW n \in Nat, NEW w \in WordOf(n, X)
  PROVE  Neg(w) \in WordOf(n, X)
<1>1. DOMAIN w = 1 .. n /\ \A i \in 1 .. n : w[i] \in X
  BY WordLen
<1>2. \A i \in 1 .. n : TNeg(w[i]) \in X
  BY <1>1, CellsClosed
<1> QED
  BY <1>1, <1>2 DEF Neg, WordOf

(* Sum without carry, and difference (tsub_n).                             *)
LEMMA AddWord ==
  ASSUME NEW X \in {Trit, Balanced}, NEW n \in Nat,
         NEW a \in WordOf(n, X), NEW b \in WordOf(n, X)
  PROVE  Add(a, b) \in WordOf(n, X) /\ Sub(a, b) \in WordOf(n, X)
BY RippleWord, NegWord DEF Add, Sub

(* A partial product of tmul_sa (tmul_opt.v:56-58), shifted into 2n + 1    *)
(* trits.                                                                  *)
LEMMA PartialWord ==
  ASSUME NEW X \in {Trit, Balanced}, NEW n \in Nat \ {0},
         NEW a \in WordOf(n, X), NEW b \in WordOf(n, X), NEW j \in 1 .. n
  PROVE  Partial(a, b, j) \in WordOf(2 * n + 1, X)
<1> DEFINE w == [i \in 1 .. n |-> TMul(a[i], b[j])]
           k == j - 1
           l == n + 2 - j
<1>1. Len(a) = n /\ b[j] \in X /\ \A i \in 1 .. n : a[i] \in X
  BY WordLen
<1>2. w \in WordOf(n, X)
  <2>1. \A i \in 1 .. n : TMul(a[i], b[j]) \in X
    BY <1>1, CellsClosed
  <2> QED
    BY <2>1 DEF WordOf
<1>3. Partial(a, b, j) = Nulls(k) \o w \o Nulls(l)
  BY <1>1 DEF Partial
<1>4. k \in Nat /\ l \in Nat /\ k + n \in Nat /\ (k + n) + l = 2 * n + 1
  OBVIOUS
<1> HIDE DEF w, k, l
<1>5. Nulls(k) \in WordOf(k, X) /\ Nulls(l) \in WordOf(l, X)
  BY <1>4, NullsWord
<1>6. Nulls(k) \o w \in WordOf(k + n, X)
  BY <1>2, <1>4, <1>5, JoinWord
<1>7. Nulls(k) \o w \o Nulls(l) \in WordOf((k + n) + l, X)
  BY <1>4, <1>5, <1>6, JoinWord
<1> QED
  BY <1>3, <1>4, <1>7

(* The accumulation of tmul_sa by its recursion.                           *)
MulStep(a, b, f) ==
  [j \in 0 .. Len(b) |->
     IF j = 0 THEN Nulls(2 * Len(a) + 1) ELSE Add(f[j - 1], Partial(a, b, j))]

(* Where the equation has a solution, Mul is the low part of the last      *)
(* state of one.                                                           *)
LEMMA MulIs ==
  ASSUME NEW a, NEW b, \E f : f = MulStep(a, b, f)
  PROVE  \E f : f = MulStep(a, b, f) /\ Mul(a, b) = Low(f[Len(b)], 2 * Len(a))
<1> DEFINE s == CHOOSE f : f = MulStep(a, b, f)
<1>1. s = MulStep(a, b, s)
  OBVIOUS
<1>2. Mul(a, b) = Low(s[Len(b)], 2 * Len(a))
  BY Zenon DEF Mul, MulStep
<1> HIDE DEF s
<1> QED
  BY <1>1, <1>2

(* The equation of the accumulation has a solution for any two words.      *)
LEMMA MulExists ==
  ASSUME NEW n \in Nat \ {0}, NEW a \in WordOf(n, Trit), NEW b \in WordOf(n, Trit)
  PROVE  \E f : f = MulStep(a, b, f)
<1> DEFINE wide == 2 * n + 1
           S == WordOf(wide, Trit)
           base == Nulls(wide)
           g == [jw \in (1 .. n) \X S |-> Add(jw[2], Partial(a, b, jw[1]))]
<1>1. wide \in Nat /\ wide = 2 * n + 1
  OBVIOUS
<1> HIDE DEF wide
<1>2. base \in S
  BY <1>1, NullsWord
<1>3. ASSUME NEW j \in 1 .. n, NEW w \in S PROVE Add(w, Partial(a, b, j)) \in S
  <2>1. Partial(a, b, j) \in WordOf(wide, Trit)
    BY <1>1, PartialWord
  <2> QED
    BY <1>1, <2>1, AddWord
<1> HIDE DEF S, base
<1>4. g \in [(1 .. n) \X S -> S]
  BY <1>3
<1>5. Recurses(n, S, base, g)
  <2> HIDE DEF g
  <2> QED
    BY <1>2, <1>4, Recursion
<1>6. PICK f \in [0 .. n -> S] : f[0] = base /\ \A j \in 1 .. n : f[j] = g[<<j, f[j - 1]>>]
  <2> HIDE DEF g
  <2> QED
    BY <1>5 DEF Recurses
<1>7. ASSUME NEW j \in 1 .. n PROVE f[j] = Add(f[j - 1], Partial(a, b, j))
  <2>1. <<j, f[j - 1]>> \in (1 .. n) \X S
    BY <1>6
  <2> QED
    BY <1>6, <2>1
<1>8. Len(a) = n /\ Len(b) = n
  BY WordLen
<1> QED
  BY <1>1, <1>6, <1>7, <1>8 DEF MulStep, base

(* The equation, at the first index and at the others.                     *)
LEMMA MulAt ==
  ASSUME NEW a, NEW b, NEW f, NEW h, h = MulStep(a, b, f), Len(b) \in Nat
  PROVE  /\ h[0] = Nulls(2 * Len(a) + 1)
         /\ \A j \in 1 .. Len(b) : h[j] = Add(f[j - 1], Partial(a, b, j))
BY DEF MulStep

(* tmul_sa (tmul_opt.v:42-66) gives 2n trits, and no 11 unless it is given *)
(* one.                                                                    *)
LEMMA MulWord ==
  ASSUME NEW X \in {Trit, Balanced}, NEW n \in Nat \ {0},
         NEW a \in WordOf(n, X), NEW b \in WordOf(n, X)
  PROVE  Mul(a, b) \in WordOf(2 * n, X)
<1>1. Len(a) = n /\ Len(b) = n
  BY WordLen
<1>2. PICK f : f = MulStep(a, b, f) /\ Mul(a, b) = Low(f[Len(b)], 2 * Len(a))
  <2>1. a \in WordOf(n, Trit) /\ b \in WordOf(n, Trit)
    BY TritWord
  <2> QED
    BY <2>1, MulExists, MulIs
<1> DEFINE wide == 2 * n + 1
           T == {j \in 0 .. n : f[j] \in WordOf(wide, X)}
<1>3. f[0] = Nulls(wide) /\ \A j \in 1 .. n : f[j] = Add(f[j - 1], Partial(a, b, j))
  BY <1>1, <1>2, MulAt
<1>4. \A j \in 1 .. n : Partial(a, b, j) \in WordOf(wide, X)
  BY PartialWord
<1>5. wide \in Nat /\ 2 * n \in 0 .. wide
  OBVIOUS
<1> HIDE DEF wide
<1>6. 0 \in T
  BY <1>3, <1>5, NullsWord
<1>7. ASSUME NEW j \in 1 .. n, j - 1 \in T PROVE j \in T
  <2>1. Add(f[j - 1], Partial(a, b, j)) \in WordOf(wide, X)
    BY <1>4, <1>5, <1>7, AddWord
  <2> QED
    BY <1>3, <2>1
<1>8. n \in T
  <2> HIDE DEF T
  <2> QED
    BY <1>6, <1>7, Climb
<1>9. Low(f[n], 2 * n) \in WordOf(2 * n, X)
  BY <1>5, <1>8, LowWord
<1> QED
  BY <1>1, <1>2, <1>9

-----------------------------------------------------------------------------
(* Two functions that follow the same steps from the same start agree.     *)
LEMMA Unique ==
  ASSUME NEW n \in Nat, NEW f, NEW h, f[0] = h[0],
         \A i \in 1 .. n : f[i - 1] = h[i - 1] => f[i] = h[i]
  PROVE  \A i \in 0 .. n : f[i] = h[i]
<1> DEFINE T == {i \in 0 .. n : f[i] = h[i]}
<1>1. 0 \in T /\ \A i \in 1 .. n : i - 1 \in T => i \in T
  OBVIOUS
<1>2. \A i \in 0 .. n : i \in T
  <2> HIDE DEF T
  <2> QED
    BY <1>1, Climb
<1> QED
  BY <1>2

-----------------------------------------------------------------------------
(* The powers of a base by their recursion.                                *)
PowStep(base, f) == [n \in Nat |-> IF n = 0 THEN 1 ELSE base * f[n - 1]]

(* That recursion has a solution on all of Nat: the functions that follow  *)
(* it up to m agree with one another where both are defined, and each      *)
(* gives its last value.                                                   *)
LEMMA PowExists ==
  ASSUME NEW base \in Nat
  PROVE  \E f : f = PowStep(base, f)
<1> DEFINE Upto(m, f) == f[0] = 1 /\ \A i \in 1 .. m : f[i] = base * f[i - 1]
           part == [m \in Nat |-> CHOOSE f \in [0 .. m -> Int] : Upto(m, f)]
           F == [m \in Nat |-> part[m][m]]
<1>1. ASSUME NEW m \in Nat PROVE \E f \in [0 .. m -> Int] : Upto(m, f)
  <2> DEFINE g == [iv \in (1 .. m) \X Int |-> base * iv[2]]
  <2>1. g \in [(1 .. m) \X Int -> Int] /\ 1 \in Int
    OBVIOUS
  <2>2. Recurses(m, Int, 1, g)
    <3> HIDE DEF g
    <3> QED
      BY <2>1, Recursion
  <2>3. PICK f \in [0 .. m -> Int] : f[0] = 1 /\ \A i \in 1 .. m : f[i] = g[<<i, f[i - 1]>>]
    <3> HIDE DEF g
    <3> QED
      BY <2>2 DEF Recurses
  <2>4. ASSUME NEW i \in 1 .. m PROVE f[i] = base * f[i - 1]
    <3>1. <<i, f[i - 1]>> \in (1 .. m) \X Int
      BY <2>3
    <3>2. g[<<i, f[i - 1]>>] = base * f[i - 1]
      BY <3>1
    <3> QED
      BY <2>3, <3>2
  <2> QED
    BY <2>3, <2>4
<1>2. ASSUME NEW m \in Nat PROVE part[m] \in [0 .. m -> Int] /\ Upto(m, part[m])
  <2> HIDE DEF Upto
  <2> QED
    BY <1>1
<1> HIDE DEF part
<1>3. F[0] = 1
  BY <1>2
<1>4. ASSUME NEW n \in Nat, n # 0 PROVE F[n] = base * F[n - 1]
  <2> DEFINE k == n - 1
             f == part[n]
             h == part[k]
  <2>1. k \in Nat /\ k \in 0 .. n /\ n \in 1 .. n /\ n - 1 = k /\ \A i \in 1 .. k : i \in 1 .. n
    BY <1>4
  <2>2. f[0] = h[0] /\ \A i \in 1 .. k : f[i - 1] = h[i - 1] => f[i] = h[i]
    BY <1>2, <2>1
  <2>3. f[k] = h[k]
    <3> HIDE DEF k, f, h
    <3>1. k \in 0 .. k
      BY <2>1
    <3> QED
      BY <2>1, <2>2, <3>1, Unique
  <2>4. f[n] = base * f[n - 1]
    BY <1>2, <2>1
  <2> QED
    BY <2>1, <2>3, <2>4
<1> HIDE DEF F
<1>5. F = PowStep(base, F)
  <2>1. F = [m \in Nat |-> F[m]]
    BY DEF F
  <2> QED
    BY <1>3, <1>4, <2>1 DEF PowStep
<1> QED
  BY <1>5

(* So Pow3, the CHOSEN solution, follows the recursion.                    *)
LEMMA PowIs == Pow3[0] = 1 /\ \A n \in Nat : Pow3[n + 1] = 3 * Pow3[n]
<1> DEFINE s == CHOOSE f : f = PowStep(3, f)
<1>1. s = PowStep(3, s)
  BY PowExists
<1>2. Pow3 = s
  BY Zenon DEF Pow3, PowStep
<1> HIDE DEF s
<1>3. s[0] = 1 /\ \A n \in Nat : n + 1 # 0 /\ (n + 1) - 1 = n /\ s[n + 1] = 3 * s[(n + 1) - 1]
  BY <1>1 DEF PowStep
<1> QED
  BY <1>2, <1>3

(* Every power is odd and positive, so Greatest is half of what is below   *)
(* it.                                                                     *)
LEMMA PowFacts ==
  ASSUME NEW n \in Nat
  PROVE  /\ Pow3[n] \in Nat /\ Pow3[n] >= 1 /\ Pow3[n + 1] = 3 * Pow3[n]
         /\ Greatest(n) \in Nat /\ Pow3[n] = 2 * Greatest(n) + 1
<1> DEFINE T == {i \in 0 .. n : \E g \in Nat : Pow3[i] = 2 * g + 1}
<1>1. 0 \in T
  BY PowIs
<1>2. ASSUME NEW i \in 1 .. n, i - 1 \in T PROVE i \in T
  <2>1. PICK g \in Nat : Pow3[i - 1] = 2 * g + 1
    BY <1>2
  <2>2. Pow3[i] = 3 * Pow3[i - 1]
    <3> DEFINE k == i - 1
    <3>1. k \in Nat /\ k + 1 = i
      OBVIOUS
    <3> QED
      BY <3>1, PowIs
  <2> DEFINE h == 3 * g + 1
  <2>3. h \in Nat /\ Pow3[i] = 2 * h + 1
    BY <2>1, <2>2
  <2> HIDE DEF h
  <2> QED
    BY <2>3
<1>3. n \in T
  <2> HIDE DEF T
  <2> QED
    BY <1>1, <1>2, Climb
<1>4. PICK g \in Nat : Pow3[n] = 2 * g + 1
  BY <1>3
<1>5. Greatest(n) = g
  BY <1>4 DEF Greatest
<1> QED
  BY <1>4, <1>5, PowIs

(* A power of three is a natural number.                                   *)
LEMMA PowNat ==
  ASSUME NEW n \in Nat
  PROVE  Pow3[n] \in Nat /\ Pow3[n] \in Int
BY PowFacts

(* 3^(m + k) = 3^m 3^k.                                                    *)
LEMMA PowSum ==
  ASSUME NEW m \in Nat, NEW n \in Nat
  PROVE  Pow3[m + n] = Pow3[m] * Pow3[n]
<1> DEFINE T == {i \in 0 .. n : Pow3[m + i] = Pow3[m] * Pow3[i]}
<1>1. 0 \in T
  BY PowIs, PowFacts
<1>2. ASSUME NEW i \in 1 .. n, i - 1 \in T PROVE i \in T
  <2> DEFINE k == i - 1
  <2>1. k \in Nat /\ k + 1 = i /\ m + k \in Nat /\ (m + k) + 1 = m + i
    OBVIOUS
  <2>2. Pow3[k + 1] = 3 * Pow3[k] /\ Pow3[(m + k) + 1] = 3 * Pow3[m + k]
    BY <2>1, PowIs
  <2>3. Pow3[m + k] = Pow3[m] * Pow3[k] /\ Pow3[m] \in Int /\ Pow3[k] \in Int
    BY <1>2, <2>1, PowFacts
  <2>4. 3 * (Pow3[m] * Pow3[k]) = Pow3[m] * (3 * Pow3[k])
    <3> DEFINE x == Pow3[m]
               y == Pow3[k]
    <3>1. x \in Int /\ y \in Int
      BY <2>3
    <3> HIDE DEF x, y
    <3>2. 3 * (x * y) = x * (3 * y)
      BY <3>1
    <3> QED
      BY <3>2 DEF x, y
  <2> HIDE DEF k
  <2>5. Pow3[m + i] = Pow3[m] * Pow3[i]
    BY <2>1, <2>2, <2>3, <2>4
  <2> QED
    BY <2>5
<1> QED
  <2> HIDE DEF T
  <2>1. n \in T
    BY <1>1, <1>2, Climb
  <2> QED
    BY <2>1 DEF T

-----------------------------------------------------------------------------
(* What a trit is worth, negated and multiplied; no two of the three are   *)
(* worth the same.                                                         *)
LEMMA DigitIs ==
  ASSUME NEW t \in Balanced
  PROVE  /\ Digit(t) \in {-1, 0, 1} /\ (t = Null <=> Digit(t) = 0)
         /\ Digit(TNeg(t)) = -Digit(t)
         /\ \A s \in Balanced : /\ Digit(TMul(s, t)) = Digit(s) * Digit(t)
                                /\ Digit(s) = Digit(t) => s = t
BY DEF Digit, TNeg, TMul, Push, Pull, Rails, Balanced, Null, Plus, Minus, Never

(* tadd1 is the balanced sum of three digits.                              *)
LEMMA FullAdder ==
  ASSUME NEW s \in Balanced, NEW t \in Balanced, NEW u \in Balanced
  PROVE  Digit(Sum1[<<s, t, u>>]) + 3 * Digit(Carry1[<<s, t, u>>]) = Digit(s) + Digit(t) + Digit(u)
<1>1. Sum1[<<s, t, u>>] = TaddSum(<<s, t, u>>) /\ Carry1[<<s, t, u>>] = TaddCarry(<<s, t, u>>)
  BY DEF Sum1, Carry1, Trit, Balanced, Null, Plus, Minus, Never
<1>2. Digit(TaddSum(<<s, t, u>>)) + 3 * Digit(TaddCarry(<<s, t, u>>)) = Digit(s) + Digit(t) + Digit(u)
  BY DEF TaddSum, SumPush, SumPull, TaddCarry, TwoPush, TwoPull, NoPush, NoPull, Input, Others,
         Push, Pull, Rails, Digit, Balanced, Null, Plus, Minus, Never
<1> QED
  BY <1>1, <1>2

(* The sum of the digits of a word by its recursion.                       *)
ValStep(w, f) ==
  [i \in 0 .. Len(w) |-> IF i = 0 THEN 0 ELSE f[i - 1] + Digit(w[i]) * Pow3[i - 1]]

(* Val is the last term of a sum that starts at 0 and takes one digit a    *)
(* step.                                                                   *)
LEMMA ValIs ==
  ASSUME NEW n \in Nat, NEW w \in Words(n)
  PROVE  \E f \in [0 .. n -> Int] :
           /\ Val(w) = f[n] /\ f[0] = 0
           /\ \A i \in 1 .. n : f[i] = f[i - 1] + Digit(w[i]) * Pow3[i - 1]
<1> DEFINE g == [iv \in (1 .. n) \X Int |-> iv[2] + Digit(w[iv[1]]) * Pow3[iv[1] - 1]]
           s == CHOOSE f : f = ValStep(w, f)
<1>1. Len(w) = n /\ \A i \in 1 .. n : w[i] \in Balanced
  BY WordLen DEF Words, WordOf
<1>2. ASSUME NEW i \in 1 .. n, NEW v \in Int
      PROVE  v + Digit(w[i]) * Pow3[i - 1] \in Int
  <2> DEFINE k == i - 1
  <2>1. k \in Nat /\ Digit(w[i]) \in {-1, 0, 1}
    BY <1>1, DigitIs
  <2>2. Pow3[k] \in Int
    <3> HIDE DEF k
    <3> QED
      BY <2>1, PowFacts
  <2> QED
    BY <2>1, <2>2
<1>3. g \in [(1 .. n) \X Int -> Int] /\ 0 \in Int
  BY <1>2
<1>4. PICK f \in [0 .. n -> Int] : f[0] = 0 /\ \A i \in 1 .. n : f[i] = g[<<i, f[i - 1]>>]
  <2> HIDE DEF g
  <2>1. Recurses(n, Int, 0, g)
    BY <1>3, Recursion
  <2> QED
    BY <2>1 DEF Recurses
<1>5. ASSUME NEW i \in 1 .. n PROVE f[i] = f[i - 1] + Digit(w[i]) * Pow3[i - 1]
  <2>1. <<i, f[i - 1]>> \in (1 .. n) \X Int
    BY <1>4
  <2> QED
    BY <1>4, <2>1
<1>6. f = ValStep(w, f)
  BY <1>1, <1>4, <1>5 DEF ValStep
<1>7. s = ValStep(w, s)
  BY <1>6
<1>8. Val(w) = s[n]
  <2>1. Val(w) = s[Len(w)]
    BY Zenon DEF Val, ValStep
  <2> QED
    BY <1>1, <2>1
<1> HIDE DEF s, g
<1>9. s[0] = 0 /\ \A i \in 1 .. n : s[i] = s[i - 1] + Digit(w[i]) * Pow3[i - 1]
  BY <1>1, <1>7 DEF ValStep
<1>10. \A i \in 0 .. n : s[i] = f[i]
  <2>1. s[0] = f[0] /\ \A i \in 1 .. n : s[i - 1] = f[i - 1] => s[i] = f[i]
    BY <1>4, <1>5, <1>9
  <2> QED
    BY <2>1, Unique
<1>11. Val(w) = f[n]
  BY <1>8, <1>10
<1> QED
  BY <1>4, <1>5, <1>11

(* A word grows at its high end.                                           *)
LEMMA ValAppend ==
  ASSUME NEW n \in Nat, NEW w \in Words(n), NEW t \in Balanced
  PROVE  /\ Append(w, t) \in Words(n + 1)
         /\ Val(Append(w, t)) = Val(w) + Digit(t) * Pow3[n]
<1> DEFINE u == Append(w, t)
           m == n + 1
<1>1. Len(w) = n /\ w \in Seq(Balanced)
  BY WordLen DEF Words, WordOf
<1>2. /\ u \in Seq(Balanced) /\ Len(u) = n + 1
      /\ \A i \in 1 .. n : u[i] = w[i]
      /\ u[n + 1] = t
  BY <1>1, AppendProperties
<1> HIDE DEF u
<1>3. u \in Words(m) /\ m \in Nat /\ n \in 0 .. n /\ m \in 1 .. m /\ m - 1 = n
      /\ \A i \in 1 .. n : i \in 1 .. m
  <2>1. u \in WordOf(m, Balanced)
    BY <1>2, SeqWord
  <2> QED
    BY <2>1 DEF Words, WordOf
<1> HIDE DEF m
<1>4. PICK f \in [0 .. n -> Int] :
           /\ Val(w) = f[n] /\ f[0] = 0
           /\ \A i \in 1 .. n : f[i] = f[i - 1] + Digit(w[i]) * Pow3[i - 1]
  BY ValIs
<1>5. PICK h \in [0 .. m -> Int] :
           /\ Val(u) = h[m] /\ h[0] = 0
           /\ \A i \in 1 .. m : h[i] = h[i - 1] + Digit(u[i]) * Pow3[i - 1]
  BY <1>3, ValIs
<1>6. f[n] = h[n]
  <2>1. f[0] = h[0] /\ \A i \in 1 .. n : f[i - 1] = h[i - 1] => f[i] = h[i]
    BY <1>2, <1>3, <1>4, <1>5
  <2> DEFINE T == {i \in 0 .. n : f[i] = h[i]}
  <2>2. 0 \in T /\ \A i \in 1 .. n : i - 1 \in T => i \in T
    BY <2>1
  <2>3. n \in T
    <3> HIDE DEF T
    <3>1. \A i \in 0 .. n : i \in T
      BY <2>2, Climb
    <3> QED
      BY <3>1
  <2> QED
    BY <2>3
<1>7. Val(u) = Val(w) + Digit(t) * Pow3[n]
  <2>1. u[m] = t
    BY <1>2 DEF m
  <2>2. h[m] = h[m - 1] + Digit(u[m]) * Pow3[m - 1]
    BY <1>3, <1>5
  <2>3. h[m] = h[n] + Digit(t) * Pow3[n]
    BY <1>3, <2>1, <2>2
  <2> QED
    BY <1>4, <1>5, <1>6, <2>3
<1> QED
  BY <1>3, <1>7 DEF u, m

(* The empty word; the low trits of a word, one more at a time.            *)
LEMMA LowUp ==
  ASSUME NEW n \in Nat, NEW w \in Words(n)
  PROVE  /\ Low(w, 0) = << >> /\ Val(Low(w, 0)) = 0 /\ Low(w, n) = w
         /\ \A i \in 0 .. n : Low(w, i) \in Words(i)
         /\ \A i \in 1 .. n : Low(w, i) = Append(Low(w, i - 1), w[i])
<1>1. Len(w) = n /\ w \in Seq(Balanced) /\ \A i \in 1 .. n : w[i] \in Balanced
  BY WordLen DEF Words, WordOf
<1>2. \A i \in 0 .. n : Low(w, i) \in Words(i)
  BY LowWord DEF Words, WordOf
<1>3. Low(w, 0) = << >> /\ Low(w, n) = w
  <2>1. Low(w, 0) = << >>
    BY <1>1, SubSeqProperties DEF Low
  <2>2. Low(w, n) \in Seq(Balanced) /\ Len(Low(w, n)) = n /\ \A i \in 1 .. n : Low(w, n)[i] = w[i]
    BY <1>1, SubSeqProperties DEF Low
  <2> QED
    BY <1>1, <2>1, <2>2, SeqEqual
<1>4. Val(Low(w, 0)) = 0
  <2>1. Low(w, 0) \in Words(0) /\ 0 \in Nat
    BY <1>2
  <2> QED
    BY <2>1, ValIs
<1>5. ASSUME NEW i \in 1 .. n PROVE Low(w, i) = Append(Low(w, i - 1), w[i])
  <2> DEFINE u == Low(w, i)
             p == Low(w, i - 1)
             v == Append(p, w[i])
  <2>1. u \in Seq(Balanced) /\ Len(u) = i /\ \A j \in 1 .. i : u[j] = w[j]
    BY <1>1, SubSeqProperties DEF Low
  <2>2. p \in Seq(Balanced) /\ Len(p) = i - 1 /\ \A j \in 1 .. i - 1 : p[j] = w[j]
    BY <1>1, SubSeqProperties DEF Low
  <2> HIDE DEF p, u
  <2>3. v \in Seq(Balanced) /\ Len(v) = i /\ \A j \in 1 .. i : v[j] = w[j]
    <3>1. v \in Seq(Balanced) /\ Len(v) = Len(p) + 1 /\ v[Len(p) + 1] = w[i]
          /\ \A j \in 1 .. Len(p) : v[j] = p[j]
      BY <1>1, <2>2, AppendProperties
    <3> QED
      BY <2>2, <3>1
  <2> HIDE DEF v
  <2>4. u = v
    BY <2>1, <2>3, SeqEqual
  <2> QED
    BY <2>4 DEF u, v, p
<1> QED
  BY <1>2, <1>3, <1>4, <1>5

(* What the first i trits are, by what the first i - 1 are.                *)
LEMMA LowStep ==
  ASSUME NEW n \in Nat, NEW w \in Words(n), NEW i \in 1 .. n, NEW k, k = i - 1
  PROVE  /\ k \in Nat /\ i = k + 1 /\ w[i] \in Balanced /\ Digit(w[i]) \in {-1, 0, 1}
         /\ Low(w, k) \in Words(k) /\ Low(w, i) \in Words(i)
         /\ Low(w, i) = Append(Low(w, k), w[i])
         /\ Val(Low(w, k)) \in Int
         /\ Val(Low(w, i)) = Val(Low(w, k)) + Digit(w[i]) * Pow3[k]
         /\ Pow3[k] \in Nat /\ Pow3[i] = 3 * Pow3[k]
<1>1. k \in Nat /\ i = k + 1 /\ k \in 0 .. n /\ i \in 0 .. n
  OBVIOUS
<1>2. w[i] \in Balanced
  BY DEF Words
<1>3. Low(w, k) \in Words(k) /\ Low(w, i) \in Words(i) /\ Low(w, i) = Append(Low(w, k), w[i])
  BY <1>1, LowUp
<1>4. Val(Low(w, k)) \in Int
  BY <1>1, <1>3, ValIs
<1>5. Val(Append(Low(w, k), w[i])) = Val(Low(w, k)) + Digit(w[i]) * Pow3[k]
  BY <1>1, <1>2, <1>3, ValAppend
<1>6. Pow3[k] \in Nat /\ Pow3[k + 1] = 3 * Pow3[k]
  BY <1>1, PowFacts
<1>7. Digit(w[i]) \in {-1, 0, 1}
  BY <1>2, DigitIs
<1> QED
  BY <1>1, <1>2, <1>3, <1>4, <1>5, <1>6, <1>7

(* The same at every index at once.                                        *)
LEMMA LowSteps ==
  ASSUME NEW n \in Nat, NEW w \in Words(n)
  PROVE  \A i \in 1 .. n :
           /\ i - 1 \in Nat /\ w[i] \in Balanced /\ Digit(w[i]) \in {-1, 0, 1}
           /\ Low(w, i - 1) \in Words(i - 1) /\ Low(w, i) = Append(Low(w, i - 1), w[i])
           /\ Val(Low(w, i - 1)) \in Int
           /\ Val(Low(w, i)) = Val(Low(w, i - 1)) + Digit(w[i]) * Pow3[i - 1] /\ Pow3[i - 1] \in Nat
<1>2. /\ \A j \in 0 .. n : Low(w, j) \in Words(j)
      /\ \A j \in 1 .. n : Low(w, j) = Append(Low(w, j - 1), w[j])
  BY LowUp
<1> TAKE i \in 1 .. n
<1>1. ASSUME NEW k, k = i - 1
      PROVE  /\ k \in Nat /\ w[i] \in Balanced /\ Digit(w[i]) \in {-1, 0, 1}
             /\ Low(w, k) \in Words(k) /\ Low(w, i) = Append(Low(w, k), w[i])
             /\ Val(Low(w, k)) \in Int
             /\ Val(Low(w, i)) = Val(Low(w, k)) + Digit(w[i]) * Pow3[k] /\ Pow3[k] \in Nat
  <2>1. k \in Nat /\ w[i] \in Balanced /\ Digit(w[i]) \in {-1, 0, 1}
    BY <1>1, LowStep
  <2>2. Low(w, k) \in Words(k) /\ Low(w, i) = Append(Low(w, k), w[i])
    BY <1>1, <1>2
  <2>3. Val(Low(w, k)) \in Int
    BY <2>1, <2>2, ValIs
  <2>4. Val(Low(w, i)) = Val(Low(w, k)) + Digit(w[i]) * Pow3[k] /\ Pow3[k] \in Nat
    BY <1>1, LowStep
  <2> QED
    BY <2>1, <2>2, <2>3, <2>4
<1> QED
  BY <1>1

(* What n trits hold.                                                      *)
LEMMA ValBound ==
  ASSUME NEW n \in Nat, NEW w \in Words(n)
  PROVE  Val(w) \in Int /\ -Greatest(n) <= Val(w) /\ Val(w) <= Greatest(n)
<1> DEFINE T == {i \in 0 .. n : /\ Val(Low(w, i)) \in Int
                                /\ -Greatest(i) <= Val(Low(w, i)) /\ Val(Low(w, i)) <= Greatest(i)}
<1>1. 0 \in T
  <2>1. Val(Low(w, 0)) = 0 /\ 0 \in Nat /\ 0 \in 0 .. n
    BY LowUp
  <2>2. Greatest(0) \in Nat
    BY <2>1, PowFacts
  <2> QED
    BY <2>1, <2>2
<1>2. ASSUME NEW i \in 1 .. n, i - 1 \in T PROVE i \in T
  <2> DEFINE k == i - 1
  <2>1. k \in T
    BY <1>2
  <2>2. k = i - 1
    OBVIOUS
  <2> HIDE DEF k
  <2>3. /\ k \in Nat /\ Digit(w[i]) \in {-1, 0, 1}
        /\ Val(Low(w, i)) = Val(Low(w, k)) + Digit(w[i]) * Pow3[k]
        /\ Pow3[i] = 3 * Pow3[k]
    BY <2>2, LowStep
  <2>4. Pow3[k] \in Nat /\ Greatest(k) \in Nat /\ Pow3[k] = 2 * Greatest(k) + 1
    BY <2>3, PowFacts
  <2>5. i \in Nat /\ Greatest(i) \in Nat /\ Pow3[i] = 2 * Greatest(i) + 1
    BY PowFacts
  <2> DEFINE x == Val(Low(w, k))
             y == Val(Low(w, i))
             d == Digit(w[i])
             p == Pow3[k]
  <2>6. /\ x \in Int /\ -Greatest(k) <= x /\ x <= Greatest(k)
        /\ d \in {-1, 0, 1} /\ y = x + d * p /\ p \in Nat /\ p = 2 * Greatest(k) + 1
        /\ 3 * p = 2 * Greatest(i) + 1
    BY <2>1, <2>3, <2>4, <2>5
  <2> HIDE DEF x, y, d, p
  <2>7. y \in Int /\ -Greatest(i) <= y /\ y <= Greatest(i)
    BY <2>4, <2>5, <2>6
  <2> QED
    BY <2>7 DEF y
<1>3. n \in T
  <2> HIDE DEF T
  <2> QED
    BY <1>1, <1>2, Climb
<1> QED
  BY <1>3, LowUp

(* Two words of n trits worth the same are the same.                       *)
LEMMA ValOne ==
  ASSUME NEW n \in Nat, NEW u \in Words(n), NEW w \in Words(n), Val(u) = Val(w)
  PROVE  u = w
<1> DEFINE Alike(i) == Val(Low(u, i)) = Val(Low(w, i)) => Low(u, i) = Low(w, i)
           T == {i \in 0 .. n : Alike(i)}
<1>1. 0 \in T
  BY LowUp
<1>4. \A v \in {u, w} : \A i \in 1 .. n :
        /\ v[i] \in Balanced /\ Low(v, i - 1) \in Words(i - 1)
        /\ Low(v, i) = Append(Low(v, i - 1), v[i])
        /\ Val(Low(v, i)) = Val(Low(v, i - 1)) + Digit(v[i]) * Pow3[i - 1]
  BY LowSteps
<1>2. ASSUME NEW i \in 1 .. n, i - 1 \in T PROVE i \in T
  <2> DEFINE k == i - 1
  <2>1. Alike(k) /\ k = i - 1 /\ k \in Nat
    BY <1>2
  <2> HIDE DEF k
  <2>2. /\ k \in Nat /\ w[i] \in Balanced /\ Low(w, k) \in Words(k)
        /\ Low(w, i) = Append(Low(w, k), w[i])
        /\ Val(Low(w, i)) = Val(Low(w, k)) + Digit(w[i]) * Pow3[k]
    BY <1>4, <2>1
  <2>20. /\ u[i] \in Balanced /\ Low(u, k) \in Words(k)
        /\ Low(u, i) = Append(Low(u, k), u[i])
        /\ Val(Low(u, i)) = Val(Low(u, k)) + Digit(u[i]) * Pow3[k]
    BY <1>4, <2>1
  <2>3. SUFFICES ASSUME Val(Low(u, i)) = Val(Low(w, i)) PROVE Low(u, i) = Low(w, i)
    OBVIOUS
  <2>4. Val(Low(u, k)) + Digit(u[i]) * Pow3[k] = Val(Low(w, k)) + Digit(w[i]) * Pow3[k]
    BY <2>2, <2>20, <2>3
  <2>5. /\ Pow3[k] \in Nat /\ Greatest(k) \in Nat /\ Pow3[k] = 2 * Greatest(k) + 1
        /\ Val(Low(u, k)) \in Int /\ -Greatest(k) <= Val(Low(u, k)) /\ Val(Low(u, k)) <= Greatest(k)
        /\ Val(Low(w, k)) \in Int /\ -Greatest(k) <= Val(Low(w, k)) /\ Val(Low(w, k)) <= Greatest(k)
    BY <2>2, <2>20, PowFacts, ValBound
  <2>6. Digit(w[i]) \in {-1, 0, 1} /\ Digit(u[i]) \in {-1, 0, 1}
    BY <2>2, <2>20, DigitIs
  <2>7. Digit(w[i]) = Digit(u[i])
    BY <2>4, <2>5, <2>6
  <2>8. Val(Low(u, k)) = Val(Low(w, k))
    BY <2>4, <2>5, <2>6, <2>7
  <2>9. w[i] = u[i]
    BY <2>2, <2>20, <2>7, DigitIs
  <2> QED
    BY <2>1, <2>2, <2>20, <2>8, <2>9
<1>3. n \in T
  <2> HIDE DEF T
  <2> QED
    BY <1>1, <1>2, Climb
<1> QED
  BY <1>3, LowUp

(* tneg negates.                                                           *)
LEMMA ValNeg ==
  ASSUME NEW n \in Nat, NEW w \in Words(n)
  PROVE  Neg(w) \in Words(n) /\ Val(Neg(w)) = -Val(w)
<1>1. Neg(w) \in Words(n) /\ \A i \in 1 .. n : Neg(w)[i] = TNeg(w[i])
  <2>1. Neg(w) \in Words(n)
    BY NegWord DEF Words, WordOf
  <2>2. DOMAIN w = 1 .. n
    BY DEF Words
  <2> QED
    BY <2>1, <2>2 DEF Neg
<1> DEFINE u == Neg(w)
           T == {i \in 0 .. n : Val(Low(u, i)) = -Val(Low(w, i))}
<1> HIDE DEF u
<1>2. u \in Words(n) /\ \A i \in 1 .. n : u[i] = TNeg(w[i])
  BY <1>1 DEF u
<1>3. 0 \in T
  BY <1>2, LowUp
<1>4. ASSUME NEW i \in 1 .. n, i - 1 \in T PROVE i \in T
  <2> DEFINE k == i - 1
  <2>1. Val(Low(u, k)) = -Val(Low(w, k)) /\ k = i - 1
    BY <1>4
  <2> HIDE DEF k
  <2>2. /\ w[i] \in Balanced /\ Digit(w[i]) \in {-1, 0, 1} /\ Pow3[k] \in Nat
           /\ Val(Low(w, k)) \in Int
        /\ Val(Low(w, i)) = Val(Low(w, k)) + Digit(w[i]) * Pow3[k]
    BY <2>1, LowStep
  <2>3. Val(Low(u, i)) = Val(Low(u, k)) + Digit(u[i]) * Pow3[k]
    BY <1>2, <2>1, LowStep
  <2>4. Digit(u[i]) = -Digit(w[i])
    BY <1>2, <2>2, DigitIs
  <2> QED
    BY <2>1, <2>2, <2>3, <2>4
<1>5. n \in T
  <2> HIDE DEF T
  <2> QED
    BY <1>3, <1>4, Climb
<1> QED
  BY <1>1, <1>2, <1>5, LowUp DEF u

(* The ripple adds: its sum, and its carry above it, are worth what its    *)
(* operands are.                                                           *)
LEMMA ValRipple ==
  ASSUME NEW n \in Nat, NEW a \in Words(n), NEW b \in Words(n)
  PROVE  LET r == Ripple(a, b)
         IN  /\ r.sum \in Words(n) /\ r.carry \in Balanced
             /\ Val(r.sum) + Digit(r.carry) * Pow3[n] = Val(a) + Val(b)
<1>1. Ripple(a, b).sum \in Words(n) /\ Ripple(a, b).carry \in Balanced
  BY RippleWord DEF Words, WordOf
<1>2. Len(a) = n /\ a \in WordOf(n, Trit) /\ b \in WordOf(n, Trit)
      /\ a \in WordOf(n, Balanced) /\ b \in WordOf(n, Balanced)
  BY WordLen, TritWord DEF Words, WordOf
<1>3. PICK f : f = RippleStep(a, b, f) /\ Ripple(a, b) = f[Len(a)]
  BY <1>2, RippleExists, RippleIs
<1>4. f[0] = Start /\ \A i \in 1 .. n : f[i] = Adder(a, b, i, f[i - 1])
  BY <1>2, <1>3, RippleAt
<1> DEFINE Good(i) == /\ f[i].sum \in Words(i) /\ f[i].carry \in Balanced
                      /\ Val(f[i].sum) + Digit(f[i].carry) * Pow3[i] = Val(Low(a, i)) + Val(Low(b, i))
           T == {i \in 0 .. n : Good(i)}
<1>5. Good(0)
  <2>1. f[0].sum = Low(a, 0) /\ f[0].carry = Null
    BY <1>4, LowUp DEF Start
  <2>2. Null \in Balanced /\ Digit(Null) = 0
    BY DEF Balanced, Digit, Null, Plus, Minus
  <2>3. Low(a, 0) \in Words(0) /\ 0 \in 0 .. n
    BY LowUp
  <2> QED
    BY <2>1, <2>2, <2>3, LowUp, PowIs
<1>6. ASSUME NEW i \in 1 .. n, Good(i - 1) PROVE Good(i)
  <2> DEFINE k == i - 1
             c == f[k].carry
             s == Sum1[<<a[i], b[i], c>>]
             d == Carry1[<<a[i], b[i], c>>]
  <2>1. k = i - 1 /\ k \in Nat /\ k + 1 = i /\ Good(k)
    BY <1>6
  <2>2. /\ a[i] \in Balanced /\ Low(a, k) \in Words(k) /\ Val(Low(a, k)) \in Int
        /\ Val(Low(a, i)) = Val(Low(a, k)) + Digit(a[i]) * Pow3[k]
        /\ b[i] \in Balanced /\ Low(b, k) \in Words(k) /\ Val(Low(b, k)) \in Int
        /\ Val(Low(b, i)) = Val(Low(b, k)) + Digit(b[i]) * Pow3[k]
        /\ Pow3[k] \in Nat /\ Pow3[i] = 3 * Pow3[k]
    <3> HIDE DEF k
    <3> QED
      BY <2>1, LowStep
  <2>3. f[i].sum = Append(f[k].sum, s) /\ f[i].carry = d
    <3>1. f[i] = Adder(a, b, i, f[k])
      BY <1>4
    <3> QED
      BY <3>1 DEF Adder
  <2>4. s \in Balanced /\ d \in Balanced
    BY <2>1, <2>2, CellsClosed
  <2>5. Digit(s) + 3 * Digit(d) = Digit(a[i]) + Digit(b[i]) + Digit(c)
    BY <2>1, <2>2, FullAdder
  <2> HIDE DEF k, s, d
  <2>6. Append(f[k].sum, s) \in Words(k + 1)
        /\ Val(Append(f[k].sum, s)) = Val(f[k].sum) + Digit(s) * Pow3[k]
    BY <2>1, <2>2, <2>4, ValAppend
  <2>8. Val(f[k].sum) \in Int
    BY <2>1, ValBound
  <2>9. /\ Digit(a[i]) \in {-1, 0, 1} /\ Digit(b[i]) \in {-1, 0, 1} /\ Digit(c) \in {-1, 0, 1}
        /\ Digit(s) \in {-1, 0, 1} /\ Digit(d) \in {-1, 0, 1}
    BY <2>1, <2>2, <2>4, DigitIs
  <2> HIDE DEF c
  <2>10. Val(f[k].sum) + Digit(c) * Pow3[k] = Val(Low(a, k)) + Val(Low(b, k))
    BY <2>1 DEF c
  <2>11. Val(f[i].sum) + Digit(f[i].carry) * Pow3[i] = Val(Low(a, i)) + Val(Low(b, i))
    <3> DEFINE p  == Pow3[k]
               va == Val(Low(a, k))
               vb == Val(Low(b, k))
               vs == Val(f[k].sum)
               da == Digit(a[i])
               db == Digit(b[i])
               dc == Digit(c)
               ds == Digit(s)
               dd == Digit(d)
    <3>1. /\ p \in Int /\ va \in Int /\ vb \in Int /\ vs \in Int
          /\ da \in {-1, 0, 1} /\ db \in {-1, 0, 1} /\ dc \in {-1, 0, 1}
          /\ ds \in {-1, 0, 1} /\ dd \in {-1, 0, 1}
          /\ ds + 3 * dd = da + db + dc /\ vs + dc * p = va + vb
      BY <2>2, <2>5, <2>8, <2>9, <2>10
    <3>2. /\ Val(f[i].sum) = vs + ds * p /\ Digit(f[i].carry) = dd /\ Pow3[i] = 3 * p
          /\ Val(Low(a, i)) = va + da * p /\ Val(Low(b, i)) = vb + db * p
      BY <2>2, <2>3, <2>6
    <3> HIDE DEF p, va, vb, vs, da, db, dc, ds, dd
    <3>3. (vs + ds * p) + dd * (3 * p) = (va + da * p) + (vb + db * p)
      <4>1. (ds + 3 * dd) * p = ds * p + dd * (3 * p)
        BY <3>1
      <4>2. (da + db + dc) * p = da * p + db * p + dc * p
        BY <3>1
      <4>3. /\ ds * p \in Int /\ dd * (3 * p) \in Int /\ da * p \in Int
            /\ db * p \in Int /\ dc * p \in Int
        BY <3>1
      <4> QED
        BY <3>1, <4>1, <4>2, <4>3
    <3> QED
      BY <3>2, <3>3
  <2> QED
    BY <2>1, <2>3, <2>4, <2>6, <2>11
<1>7. Good(n)
  <2> HIDE DEF Good
  <2>1. 0 \in T /\ \A i \in 1 .. n : i - 1 \in T => i \in T
    BY <1>5, <1>6
  <2>2. n \in T
    <3> HIDE DEF T
    <3> QED
      BY <2>1, Climb
  <2> QED
    BY <2>2
<1> QED
  BY <1>1, <1>2, <1>3, <1>7, LowUp

(* The null word is worth nothing.                                         *)
LEMMA ValNulls ==
  ASSUME NEW n \in Nat
  PROVE  Nulls(n) \in Words(n) /\ Val(Nulls(n)) = 0
<1> DEFINE w == Nulls(n)
           T == {i \in 0 .. n : Val(Low(w, i)) = 0}
<1>1. w \in Words(n) /\ \A i \in 1 .. n : Digit(w[i]) = 0
  BY NullsWord DEF Words, WordOf, Nulls, Digit, Null, Plus, Minus
<1> HIDE DEF w
<1>2. 0 \in T
  BY <1>1, LowUp
<1>3. ASSUME NEW i \in 1 .. n, i - 1 \in T PROVE i \in T
  <2> DEFINE k == i - 1
  <2>1. k = i - 1 /\ Val(Low(w, k)) = 0
    BY <1>3
  <2> HIDE DEF k
  <2>2. Val(Low(w, i)) = Val(Low(w, k)) + Digit(w[i]) * Pow3[k] /\ Pow3[k] \in Nat
    BY <1>1, <2>1, LowStep
  <2> QED
    BY <1>1, <2>1, <2>2
<1>4. n \in T
  <2> HIDE DEF T
  <2> QED
    BY <1>2, <1>3, Climb
<1> QED
  BY <1>1, <1>4, LowUp DEF w

(* A word put above m trits counts 3^m times.                              *)
LEMMA ValJoin ==
  ASSUME NEW m \in Nat, NEW n \in Nat, NEW v \in Words(m), NEW w \in Words(n)
  PROVE  v \o w \in Words(m + n) /\ Val(v \o w) = Val(v) + Pow3[m] * Val(w)
<1> DEFINE u(i) == v \o Low(w, i)
           T == {i \in 0 .. n : /\ u(i) \in Words(m + i)
                                /\ Val(u(i)) = Val(v) + Pow3[m] * Val(Low(w, i))}
<1>1. v \in Seq(Balanced) /\ Val(v) \in Int /\ Pow3[m] \in Nat
  BY WordLen, ValBound, PowFacts DEF Words, WordOf
<1>5. \A i \in 1 .. n :
        /\ i - 1 \in Nat /\ w[i] \in Balanced /\ Digit(w[i]) \in {-1, 0, 1}
        /\ Low(w, i - 1) \in Words(i - 1) /\ Low(w, i) = Append(Low(w, i - 1), w[i])
        /\ Val(Low(w, i - 1)) \in Int
        /\ Val(Low(w, i)) = Val(Low(w, i - 1)) + Digit(w[i]) * Pow3[i - 1] /\ Pow3[i - 1] \in Nat
  BY LowSteps
<1>2. 0 \in T
  <2>1. u(0) = v /\ Val(Low(w, 0)) = 0
    BY <1>1, LowUp, ConcatEmptySeq
  <2>2. m + 0 = m /\ 0 \in 0 .. n
    OBVIOUS
  <2> QED
    <3>1. v \in Words(m + 0) /\ Val(v) = Val(v) + Pow3[m] * 0
      BY <1>1, <2>2
    <3> QED
      BY <2>1, <2>2, <3>1
<1>3. ASSUME NEW i \in 1 .. n, i - 1 \in T PROVE i \in T
  <2> DEFINE k == i - 1
             j == m + k
             t == w[i]
             p == Low(w, k)
  <2>1. k = i - 1 /\ k \in T /\ j \in Nat /\ j + 1 = m + i
    BY <1>3
  <2>2. /\ k \in Nat /\ t \in Balanced /\ Digit(t) \in {-1, 0, 1}
        /\ p \in Words(k) /\ Low(w, i) = Append(p, t) /\ Val(p) \in Int
        /\ Val(Low(w, i)) = Val(p) + Digit(t) * Pow3[k] /\ Pow3[k] \in Nat
    BY <1>5
  <2>3. u(k) \in Words(j) /\ Val(u(k)) = Val(v) + Pow3[m] * Val(p)
    BY <2>1
  <2> HIDE DEF k, j, t, p
  <2>4. p \in Seq(Balanced)
    BY <2>2, WordLen DEF Words, WordOf
  <2>5. u(i) = Append(v \o p, t)
    BY SMTT(20), <1>1, <2>2, <2>4
  <2>6. v \o p \in Words(j) /\ Val(v \o p) = Val(v) + Pow3[m] * Val(p)
    BY <2>3 DEF p
  <2>7. u(i) \in Words(j + 1) /\ Val(u(i)) = Val(v \o p) + Digit(t) * Pow3[j]
    BY <2>1, <2>2, <2>5, <2>6, ValAppend
  <2>8. Pow3[j] = Pow3[m] * Pow3[k]
    BY <2>2, PowSum DEF j
  <2> DEFINE x == Pow3[m]
             y == Val(p)
             d == Digit(t)
             z == Pow3[k]
  <2>9. x \in Int /\ y \in Int /\ d \in Int /\ z \in Int
    BY <1>1, <2>2
  <2>10. x * y + d * (x * z) = x * (y + d * z)
    <3> HIDE DEF x, y, d, z
    <3>1. x * (y + d * z) = x * y + x * (d * z) /\ x * (d * z) = d * (x * z)
      BY <2>9
    <3> QED
      BY <3>1
  <2>11. x * y \in Int /\ d * (x * z) \in Int
    BY <2>9
  <2>12. Val(u(i)) = Val(v) + Pow3[m] * Val(Low(w, i))
    BY <1>1, <2>2, <2>6, <2>7, <2>8, <2>10, <2>11
  <2> QED
    BY <2>1, <2>7, <2>12
<1>4. n \in T
  <2> HIDE DEF T
  <2> QED
    BY <1>2, <1>3, Climb
<1> QED
  BY <1>4, LowUp

(* Every word is its low trits and, above them, the others.                *)
LEMMA ValSplit ==
  ASSUME NEW n \in Nat, NEW w \in Words(n), NEW m \in 0 .. n, NEW k \in Nat, m + k = n
  PROVE  /\ Low(w, m) \in Words(m) /\ SubSeq(w, m + 1, n) \in Words(k)
         /\ Val(w) = Val(Low(w, m)) + Pow3[m] * Val(SubSeq(w, m + 1, n))
<1> DEFINE l == Low(w, m)
           h == SubSeq(w, m + 1, n)
<1>1. w \in Seq(Balanced) /\ Len(w) = n /\ \A i \in 1 .. n : w[i] \in Balanced
  BY WordLen DEF Words, WordOf
<1>2. l \in Words(m) /\ l \in Seq(Balanced) /\ Len(l) = m /\ \A i \in 1 .. m : l[i] = w[i]
  <2>1. l \in Words(m)
    BY LowUp
  <2> QED
    BY <1>1, <2>1, SubSeqProperties DEF Low
<1>3. h \in Seq(Balanced) /\ Len(h) = k /\ \A i \in 1 .. k : h[i] = w[m + i]
  <2>1. \A i \in m + 1 .. n : w[i] \in Balanced
    BY <1>1
  <2>2. h \in Seq(Balanced)
    BY <1>1, SubSeqProperties
  <2>3. Len(h) = (IF m + 1 <= n THEN n - (m + 1) + 1 ELSE 0)
        /\ \A i \in 1 .. n - (m + 1) + 1 : h[i] = w[m + 1 + i - 1]
    BY <1>1, SubSeqProperties
  <2> QED
    BY <2>2, <2>3
<1>4. h \in Words(k)
  <2> HIDE DEF h
  <2> QED
    BY <1>3, SeqWord DEF Words, WordOf
<1> HIDE DEF l, h
<1>5. l \o h = w
  <2>1. l \o h \in Seq(Balanced) /\ Len(l \o h) = n /\ \A i \in 1 .. n : (l \o h)[i] = w[i]
    <3>1. /\ l \o h \in Seq(Balanced) /\ Len(l \o h) = m + k
          /\ \A i \in 1 .. m + k : (l \o h)[i] = IF i <= m THEN l[i] ELSE h[i - m]
      BY <1>2, <1>3, ConcatProperties
    <3>2. ASSUME NEW i \in 1 .. n PROVE (l \o h)[i] = w[i]
      <4>1. CASE i <= m
        BY <1>2, <3>1, <4>1
      <4>2. CASE ~(i <= m)
        <5>1. i - m \in 1 .. k /\ m + (i - m) = i
          BY <4>2
        <5>2. h[i - m] = w[i]
          BY <1>3, <5>1
        <5> QED
          BY <3>1, <4>2, <5>2
      <4> QED
        BY <4>1, <4>2
    <3> QED
      BY <3>1, <3>2
  <2>2. l \o h = w
    BY <1>1, <2>1, SeqEqual
  <2> QED
    BY <2>2
<1>6. Val(l \o h) = Val(l) + Pow3[m] * Val(h)
  BY <1>2, <1>4, ValJoin
<1> QED
  BY <1>2, <1>4, <1>5, <1>6 DEF l, h

-----------------------------------------------------------------------------
(* A word of n trits that is worth v, but for carries dropped at its top.  *)
Worth(w, n, v) == w \in Words(n) /\ \E q \in Int : Val(w) = v + q * Pow3[n]

(* A word is worth its value.                                              *)
LEMMA WorthSelf ==
  ASSUME NEW n \in Nat, NEW w \in Words(n)
  PROVE  Worth(w, n, Val(w))
<1>1. Val(w) = Val(w) + 0 * Pow3[n] /\ 0 \in Int
  BY ValBound, PowFacts
<1> QED
  BY <1>1 DEF Worth

(* The rails swapped.                                                      *)
LEMMA WorthNeg ==
  ASSUME NEW n \in Nat, NEW v \in Int, NEW w, Worth(w, n, v)
  PROVE  Worth(Neg(w), n, -v)
<1>1. PICK q \in Int : Val(w) = v + q * Pow3[n]
  BY DEF Worth
<1>2. w \in Words(n) /\ Pow3[n] \in Int
  BY PowFacts DEF Worth
<1>3. Neg(w) \in Words(n) /\ Val(Neg(w)) = -Val(w)
  BY <1>2, ValNeg
<1>4. -q \in Int /\ -(v + q * Pow3[n]) = -v + (-q) * Pow3[n]
  BY <1>2
<1> QED
  BY <1>1, <1>3, <1>4 DEF Worth

(* tadd_n and tsub_n (tmul_opt.v:71-111): a carry that is dropped is a     *)
(* multiple of 3^n.                                                        *)
LEMMA WorthAdd ==
  ASSUME NEW n \in Nat, NEW u \in Int, NEW v \in Int, NEW a, NEW b, Worth(a, n, u), Worth(b, n, v)
  PROVE  Worth(Add(a, b), n, u + v) /\ Worth(Sub(a, b), n, u - v)
<1>1. ASSUME NEW x \in Int, NEW c, Worth(c, n, x)
      PROVE  Worth(Add(a, c), n, u + x)
  <2>1. PICK q \in Int : Val(a) = u + q * Pow3[n]
    BY DEF Worth
  <2>2. PICK r \in Int : Val(c) = x + r * Pow3[n]
    BY <1>1 DEF Worth
  <2>3. a \in Words(n) /\ c \in Words(n) /\ Pow3[n] \in Int
    BY <1>1, PowFacts DEF Worth
  <2> DEFINE d == Digit(Ripple(a, c).carry)
             s == Add(a, c)
  <2>4. s \in Words(n) /\ d \in {-1, 0, 1} /\ Val(s) + d * Pow3[n] = Val(a) + Val(c)
    BY <2>3, ValRipple, DigitIs DEF Add
  <2>5. Val(s) \in Int
    BY <2>4, ValBound
  <2> HIDE DEF s, d
  <2>6. q + r - d \in Int /\ Val(s) = (u + x) + (q + r - d) * Pow3[n]
    <3> DEFINE p == Pow3[n]
    <3>1. p \in Int /\ Val(s) \in Int /\ Val(s) + d * p = (u + q * p) + (x + r * p)
      BY <2>1, <2>2, <2>3, <2>4, <2>5
    <3>2. d \in Int
      BY <2>4
    <3> HIDE DEF p
    <3>3. (q + r - d) * p = q * p + r * p - d * p /\ q * p \in Int /\ r * p \in Int /\ d * p \in Int
      BY <3>1, <3>2
    <3>4. Val(s) = (u + x) + (q + r - d) * p
      BY <3>1, <3>2, <3>3
    <3> QED
      BY <3>2, <3>4 DEF p
  <2> QED
    BY <2>4, <2>6 DEF Worth, s
<1>2. Worth(Neg(b), n, -v) /\ -v \in Int
  BY WorthNeg
<1>3. Worth(Add(a, Neg(b)), n, u + (-v)) /\ u + (-v) = u - v
  BY <1>1, <1>2
<1> QED
  BY <1>1, <1>3 DEF Sub

(* A null trit on top changes nothing.                                     *)
LEMMA WorthExt ==
  ASSUME NEW n \in Nat, NEW m \in 0 .. n, NEW w \in Words(m)
  PROVE  Ext(w, n) \in Words(n) /\ Val(Ext(w, n)) = Val(w) /\ Worth(Ext(w, n), n, Val(w))
<1> DEFINE k == n - m
<1>1. k \in Nat /\ m + k = n /\ m \in Nat /\ Len(w) = m
  BY WordLen DEF Words, WordOf
<1>2. Ext(w, n) = w \o Nulls(k)
  BY <1>1 DEF Ext
<1> HIDE DEF k
<1>3. Nulls(k) \in Words(k) /\ Val(Nulls(k)) = 0
  BY <1>1, ValNulls
<1>4. w \o Nulls(k) \in Words(m + k) /\ Val(w \o Nulls(k)) = Val(w) + Pow3[m] * Val(Nulls(k))
  BY <1>1, <1>3, ValJoin
<1>5. Pow3[m] * 0 = 0 /\ Val(w) + 0 = Val(w)
  <2>1. Pow3[m] \in Int
    BY <1>1, PowNat
  <2>2. Val(w) \in Int
    BY <1>1, ValBound
  <2> QED
    BY <2>1, <2>2
<1>6. Ext(w, n) \in Words(n)
  BY <1>1, <1>2, <1>4
<1>7. Val(Ext(w, n)) = Val(w)
  BY <1>2, <1>3, <1>4, <1>5
<1> QED
  BY <1>6, <1>7, WorthSelf

(* Trits cut off the top are carries dropped a trit lower.                 *)
LEMMA WorthLow ==
  ASSUME NEW n \in Nat, NEW m \in 0 .. n, NEW v \in Int, NEW w, Worth(w, n, v)
  PROVE  Worth(Low(w, m), m, v)
<1> DEFINE k == n - m
           h == SubSeq(w, m + 1, n)
           l == Low(w, m)
<1>1. PICK q \in Int : Val(w) = v + q * Pow3[n]
  BY DEF Worth
<1>2. w \in Words(n) /\ k \in Nat /\ m + k = n /\ m \in Nat
  BY DEF Worth
<1>3. l \in Words(m) /\ h \in Words(k) /\ Val(w) = Val(l) + Pow3[m] * Val(h)
  <2> HIDE DEF k
  <2> QED
    BY <1>2, ValSplit
<1> HIDE DEF k, h, l
<1>4. Pow3[n] = Pow3[m] * Pow3[k] /\ Pow3[m] \in Int /\ Pow3[k] \in Int /\ Val(l) \in Int
      /\ Val(h) \in Int
  <2>1. Pow3[m + k] = Pow3[m] * Pow3[k]
    BY <1>2, PowSum
  <2>2. Pow3[m] \in Int /\ Pow3[k] \in Int
    BY <1>2, PowFacts
  <2>3. Val(l) \in Int /\ Val(h) \in Int
    BY <1>2, <1>3, ValBound
  <2> QED
    BY <1>2, <2>1, <2>2, <2>3
<1> DEFINE x == Pow3[m]
           y == Pow3[k]
           z == Val(h)
           r == q * y - z
<1>5. Val(l) = v + r * x /\ r \in Int
  <2>1. x \in Int /\ y \in Int /\ z \in Int /\ Val(l) + x * z = v + q * (x * y)
    BY <1>1, <1>3, <1>4
  <2> HIDE DEF x, y, z
  <2>2. r \in Int /\ r * x = q * (x * y) - x * z
    BY <2>1
  <2>3. q * (x * y) \in Int /\ x * z \in Int /\ Val(l) \in Int
    BY <1>4, <2>1
  <2> HIDE DEF r
  <2> QED
    BY <2>1, <2>2, <2>3
<1> HIDE DEF r
<1> QED
  BY <1>3, <1>5 DEF Worth, l

(* A word put above k null trits and cut.                                  *)
LEMMA WorthShift ==
  ASSUME NEW n \in Nat, NEW k \in Nat, NEW m \in Nat, NEW w \in Words(m), n <= k + m
  PROVE  Worth(Low(Nulls(k) \o w, n), n, Pow3[k] * Val(w))
<1>1. Nulls(k) \in Words(k) /\ Val(Nulls(k)) = 0
  BY ValNulls
<1>2. Nulls(k) \o w \in Words(k + m) /\ Val(Nulls(k) \o w) = 0 + Pow3[k] * Val(w)
  BY <1>1, ValJoin
<1>3. Pow3[k] * Val(w) \in Int /\ k + m \in Nat /\ n \in 0 .. (k + m)
  BY PowFacts, ValBound
<1>4. Worth(Nulls(k) \o w, k + m, Pow3[k] * Val(w))
  BY <1>2, <1>3, WorthSelf
<1> QED
  BY <1>3, <1>4, WorthLow

(* What fits is exact: no two multiples of 3^n apart both fit in n trits.  *)
LEMMA WorthExact ==
  ASSUME NEW n \in Nat, NEW v \in Int, NEW w, Worth(w, n, v),
         -Greatest(n) <= v, v <= Greatest(n)
  PROVE  w \in Words(n) /\ Val(w) = v
<1>1. PICK q \in Int : Val(w) = v + q * Pow3[n]
  BY DEF Worth
<1>2. w \in Words(n) /\ Val(w) \in Int /\ -Greatest(n) <= Val(w) /\ Val(w) <= Greatest(n)
  BY ValBound DEF Worth
<1>3. Pow3[n] \in Nat /\ Greatest(n) \in Nat /\ Pow3[n] = 2 * Greatest(n) + 1
  BY PowFacts
<1> DEFINE p == Pow3[n]
<1>4. q = 0
  <2>1. p \in Nat /\ q * p < p /\ -p < q * p
    BY <1>1, <1>2, <1>3
  <2> HIDE DEF p
  <2>2. CASE q >= 1
    <3>1. q * p >= p
      BY <2>1, <2>2
    <3> QED
      BY <2>1, <3>1
  <2>3. CASE q <= -1
    <3>1. q * p <= -p
      BY <2>1, <2>3
    <3> QED
      BY <2>1, <3>1
  <2> QED
    BY <2>2, <2>3
<1> QED
  BY <1>1, <1>2, <1>3, <1>4

(* Two words of n trits worth the same are the same trits: the way to show *)
(* that two cells with different insides are drop-ins.                     *)
LEMMA WorthSame ==
  ASSUME NEW n \in Nat, NEW v \in Int, NEW u, NEW w, Worth(u, n, v), Worth(w, n, v)
  PROVE  u = w
<1>1. u \in Words(n) /\ w \in Words(n) /\ Val(u) \in Int /\ Val(w) \in Int /\ Pow3[n] \in Int
      /\ -Greatest(n) <= Val(w) /\ Val(w) <= Greatest(n)
  BY ValBound, PowFacts DEF Worth
<1>2. PICK q \in Int : Val(u) = v + q * Pow3[n]
  BY DEF Worth
<1>3. PICK r \in Int : Val(w) = v + r * Pow3[n]
  BY DEF Worth
<1>4. q - r \in Int /\ Val(u) = Val(w) + (q - r) * Pow3[n]
  BY <1>1, <1>2, <1>3
<1>5. Worth(u, n, Val(w))
  BY <1>1, <1>4 DEF Worth
<1>6. Val(u) = Val(w)
  BY <1>1, <1>5, WorthExact
<1> QED
  BY <1>1, <1>6, ValOne

(* The balanced residue is what n trits are worth.                         *)
LEMMA WorthResidue ==
  ASSUME NEW n \in Nat, NEW v \in Int, NEW w, Worth(w, n, v)
  PROVE  w \in Words(n) /\ Val(w) = Residue(v, n) /\ (Fits(v, n) <=> Val(w) = v)
<1>1. w \in Words(n) /\ Val(w) \in Int /\ Pow3[n] \in Nat /\ Greatest(n) \in Nat
      /\ Pow3[n] = 2 * Greatest(n) + 1
      /\ -Greatest(n) <= Val(w) /\ Val(w) <= Greatest(n)
  BY ValBound, PowFacts DEF Worth
<1>2. PICK q \in Int : Val(w) = v + q * Pow3[n]
  BY DEF Worth
<1> DEFINE p == Pow3[n]
           g == Greatest(n)
           x == Val(w)
<1>3. (v + g) % p = x + g
  <2>1. p \in Int /\ p > 0 /\ g \in Int /\ x \in Int /\ x = v + q * p /\ 0 <= x + g /\ x + g < p
    BY <1>1, <1>2
  <2> HIDE DEF p, g, x
  <2> DEFINE r == (v + g) % p
             d == (v + g) \div p
  <2>2. r \in Int /\ d \in Int /\ 0 <= r /\ r < p /\ v + g = p * d + r
    BY <2>1
  <2> HIDE DEF r, d
  <2>3. (x + g) - r = (d + q) * p
    BY <2>1, <2>2
  <2> DEFINE e == d + q
  <2>4. e \in Int /\ e * p < p /\ -p < e * p
    BY <2>1, <2>2, <2>3
  <2> HIDE DEF e
  <2>5. e = 0
    <3>1. CASE e >= 1
      <4>1. e * p >= p
        BY <2>1, <2>4, <3>1
      <4> QED
        BY <2>1, <2>4, <4>1
    <3>2. CASE e <= -1
      <4>1. e * p <= -p
        BY <2>1, <2>4, <3>2
      <4> QED
        BY <2>1, <2>4, <4>1
    <3> QED
      BY <2>4, <3>1, <3>2
  <2>6. (d + q) * p = 0
    BY <2>1, <2>5 DEF e
  <2>7. r = x + g
    BY <2>1, <2>2, <2>3, <2>6
  <2> QED
    BY <2>7 DEF r
<1>4. Residue(v, n) = x
  BY <1>1, <1>3 DEF Residue
<1> QED
  BY <1>1, <1>4 DEF Fits

(* Bounded on both sides.                                                  *)
Within(x, g) == x \in Int /\ -g <= x /\ x <= g

(* A product stays within the product of the bounds.                       *)
LEMMA WithinTimes ==
  ASSUME NEW g \in Nat, NEW h \in Nat, NEW x, NEW y, Within(x, g), Within(y, h)
  PROVE  Within(x * y, g * h)
<1>1. x \in Int /\ y \in Int /\ -g <= x /\ x <= g /\ -h <= y /\ y <= h
  BY DEF Within
<1>2. \A u \in Nat, v \in Nat : u <= g /\ v <= h => u * v \in Nat /\ u * v <= g * h
  <2> SUFFICES ASSUME NEW u \in Nat, NEW v \in Nat, u <= g, v <= h
               PROVE  u * v \in Nat /\ u * v <= g * h
    OBVIOUS
  <2>1. u * v \in Nat /\ u * v <= u * h /\ u * h <= g * h
    <3>1. u * v \in Nat
      OBVIOUS
    <3>2. PICK d \in Nat : h = v + d
      BY h - v \in Nat
    <3>3. u * h = u * v + u * d /\ u * d \in Nat
      BY <3>2
    <3>4. PICK e \in Nat : g = u + e
      BY g - u \in Nat
    <3>5. g * h = u * h + e * h /\ e * h \in Nat
      BY <3>4
    <3> QED
      BY <3>1, <3>3, <3>5
  <2> QED
    BY <2>1
<1>3. CASE x >= 0 /\ y >= 0
  <2>1. x \in Nat /\ y \in Nat
    BY <1>1, <1>3
  <2>2. x * y \in Nat /\ x * y <= g * h
    BY <1>1, <1>2, <2>1
  <2> QED
    BY <2>2 DEF Within
<1>4. CASE x >= 0 /\ y < 0
  <2>1. x \in Nat /\ -y \in Nat /\ -y <= h
    BY <1>1, <1>4
  <2>2. x * (-y) \in Nat /\ x * (-y) <= g * h
    BY <1>1, <1>2, <2>1
  <2>3. x * (-y) = -(x * y) /\ x * y \in Int
    BY <1>1
  <2> QED
    BY <2>2, <2>3 DEF Within
<1>5. CASE x < 0 /\ y >= 0
  <2>1. -x \in Nat /\ -x <= g /\ y \in Nat
    BY <1>1, <1>5
  <2>2. (-x) * y \in Nat /\ (-x) * y <= g * h
    BY <1>1, <1>2, <2>1
  <2>3. (-x) * y = -(x * y) /\ x * y \in Int
    BY <1>1
  <2> QED
    BY <2>2, <2>3 DEF Within
<1>6. CASE x < 0 /\ y < 0
  <2>1. -x \in Nat /\ -x <= g /\ -y \in Nat /\ -y <= h
    BY <1>1, <1>6
  <2>2. (-x) * (-y) \in Nat /\ (-x) * (-y) <= g * h
    BY <1>1, <1>2, <2>1
  <2>3. (-x) * (-y) = x * y
    BY <1>1
  <2> QED
    BY <2>2, <2>3 DEF Within
<1> QED
  BY <1>1, <1>3, <1>4, <1>5, <1>6

(* The greatest values of the widths the cells use, by that of the         *)
(* operands.                                                               *)
LEMMA WidthGrowth ==
  ASSUME NEW n \in Nat, NEW g, g = Greatest(n)
  PROVE  /\ g \in Nat /\ g * g \in Nat
         /\ Greatest(n + 1) = 3 * g + 1
         /\ Greatest(2 * n) = 2 * (g * g) + 2 * g
         /\ Greatest(2 * n + 1) = 6 * (g * g) + 6 * g + 1
         /\ Greatest(2 * n + 2) = 18 * (g * g) + 18 * g + 4
<1>1. g \in Nat /\ Pow3[n] = 2 * g + 1 /\ Pow3[n + 1] = 3 * Pow3[n]
  BY PowFacts
<1>2. g * g \in Nat
  BY <1>1
<1> DEFINE m == 2 * n
           k == 2 * n + 1
<1>3. m \in Nat /\ k \in Nat /\ m + 1 = k /\ k + 1 = 2 * n + 2 /\ m = n + n /\ n + 1 \in Nat
  OBVIOUS
<1>4. Pow3[m] = Pow3[n] * Pow3[n]
  BY <1>3, PowSum
<1> HIDE DEF m, k
<1>5. Pow3[k] = 3 * Pow3[m] /\ Pow3[k + 1] = 3 * Pow3[k]
  BY <1>3, PowFacts
<1>6. (2 * g + 1) * (2 * g + 1) = 4 * (g * g) + 4 * g + 1
  BY <1>1
<1>7. /\ Greatest(n + 1) \in Nat /\ Pow3[n + 1] = 2 * Greatest(n + 1) + 1
      /\ Greatest(m) \in Nat /\ Pow3[m] = 2 * Greatest(m) + 1
      /\ Greatest(k) \in Nat /\ Pow3[k] = 2 * Greatest(k) + 1
      /\ Greatest(k + 1) \in Nat /\ Pow3[k + 1] = 2 * Greatest(k + 1) + 1
  <2>1. k + 1 \in Nat
    BY <1>3
  <2> QED
    BY <1>3, <2>1, PowFacts
<1> DEFINE s == g * g
<1>8. s \in Nat /\ Pow3[m] = 4 * s + 4 * g + 1
  BY <1>1, <1>2, <1>4, <1>6
<1> HIDE DEF s
<1>9. Greatest(n + 1) = 3 * g + 1
  <2> DEFINE h == Greatest(n + 1)
  <2>1. h \in Nat /\ 2 * h + 1 = 3 * (2 * g + 1)
    BY <1>1, <1>7
  <2>2. \A x, y \in Nat : 2 * y + 1 = 3 * (2 * x + 1) => y = 3 * x + 1
    OBVIOUS
  <2> QED
    BY <1>1, <2>1, <2>2
<1>10. Greatest(m) = 2 * s + 2 * g
  <2> DEFINE h == Greatest(m)
  <2>1. h \in Nat /\ 2 * h + 1 = 4 * s + 4 * g + 1
    BY <1>7, <1>8
  <2>2. \A x, y, z \in Nat : 2 * y + 1 = 4 * z + 4 * x + 1 => y = 2 * z + 2 * x
    OBVIOUS
  <2> QED
    BY <1>1, <1>8, <2>1, <2>2
<1>11. Greatest(k) = 6 * s + 6 * g + 1
  BY <1>1, <1>5, <1>7, <1>8
<1>12. Greatest(k + 1) = 18 * s + 18 * g + 4
  BY <1>1, <1>5, <1>7, <1>8
<1> QED
  BY <1>1, <1>2, <1>3, <1>9, <1>10, <1>11, <1>12 DEF m, k, s

(* What six and eight trits hold.                                          *)
LEMMA GreatestIs == Greatest(0) = 0 /\ Greatest(6) = 364 /\ Greatest(8) = 3280
<1>1. Greatest(0) \in Nat /\ Pow3[0] = 2 * Greatest(0) + 1 /\ Pow3[0] = 1
  BY PowFacts, PowIs
<1>2. Greatest(0) = 0
  BY <1>1
<1>3. \A n \in Nat : Greatest(n + 1) = 3 * Greatest(n) + 1
  BY WidthGrowth
<1>4. Greatest(1) = 1
  BY <1>2, <1>3
<1>5. Greatest(2) = 4
  BY <1>3, <1>4
<1>6. Greatest(3) = 13
  BY <1>3, <1>5
<1>7. Greatest(4) = 40
  BY <1>3, <1>6
<1>8. Greatest(5) = 121
  BY <1>3, <1>7
<1>9. Greatest(6) = 364
  BY <1>3, <1>8
<1>10. Greatest(7) = 1093
  BY <1>3, <1>9
<1> QED
  BY <1>2, <1>3, <1>9, <1>10

(* What n trits hold, as a bound.                                          *)
LEMMA ValWithin ==
  ASSUME NEW n \in Nat, NEW w \in Words(n)
  PROVE  Within(Val(w), Greatest(n)) /\ Val(w) \in Int
BY ValBound DEF Within

(* A word times one trit.                                                  *)
LEMMA ValTimes ==
  ASSUME NEW n \in Nat, NEW w \in Words(n), NEW t \in Balanced
  PROVE  LET u == [i \in 1 .. n |-> TMul(w[i], t)]
         IN  u \in Words(n) /\ Val(u) = Val(w) * Digit(t)
<1> DEFINE u == [i \in 1 .. n |-> TMul(w[i], t)]
           T == {i \in 0 .. n : Val(Low(u, i)) = Val(Low(w, i)) * Digit(t)}
           d == Digit(t)
<1>1. u \in Words(n) /\ \A i \in 1 .. n : Digit(u[i]) = Digit(w[i]) * Digit(t)
  <2>1. \A i \in 1 .. n : w[i] \in Balanced
    BY DEF Words
  <2>2. \A i \in 1 .. n : TMul(w[i], t) \in Balanced
        /\ Digit(TMul(w[i], t)) = Digit(w[i]) * Digit(t)
    BY <2>1, CellsClosed, DigitIs
  <2> QED
    BY <2>2 DEF Words
<1>2. d \in {-1, 0, 1}
  BY DigitIs
<1> HIDE DEF u, d
<1>3. 0 \in T
  <2>1. Val(Low(u, 0)) = 0 /\ Val(Low(w, 0)) = 0 /\ 0 * d = 0
    BY <1>1, <1>2, LowUp
  <2> QED
    BY <2>1 DEF d
<1>4. ASSUME NEW i \in 1 .. n, i - 1 \in T PROVE i \in T
  <2> DEFINE k == i - 1
  <2>1. k = i - 1 /\ Val(Low(u, k)) = Val(Low(w, k)) * d
    BY <1>4 DEF d
  <2> HIDE DEF k
  <2>2. Val(Low(w, i)) = Val(Low(w, k)) + Digit(w[i]) * Pow3[k] /\ Pow3[k] \in Nat
        /\ Val(Low(w, k)) \in Int /\ Digit(w[i]) \in {-1, 0, 1}
    BY <2>1, LowStep
  <2>3. Val(Low(u, i)) = Val(Low(u, k)) + Digit(u[i]) * Pow3[k]
    BY <1>1, <2>1, LowStep
  <2>4. Digit(u[i]) = Digit(w[i]) * d
    BY <1>1 DEF d
  <2> DEFINE x == Val(Low(w, k))
             y == Digit(w[i])
             p == Pow3[k]
  <2>5. x * d + (y * d) * p = (x + y * p) * d
    <3>1. x \in Int /\ y \in Int /\ p \in Int /\ d \in Int
      BY <1>2, <2>2
    <3> HIDE DEF x, y, p
    <3> QED
      BY <3>1
  <2>6. Val(Low(u, i)) = Val(Low(w, i)) * Digit(t)
    BY <2>1, <2>2, <2>3, <2>4, <2>5 DEF d
  <2> QED
    BY <2>6
<1>5. n \in T
  <2> HIDE DEF T
  <2> QED
    BY <1>3, <1>4, Climb
<1>6. Val(u) = Val(w) * Digit(t)
  BY <1>1, <1>5, LowUp
<1> QED
  BY <1>1, <1>6 DEF u

(* One partial product of the shift-add multiplier.                        *)
LEMMA WorthPartial ==
  ASSUME NEW n \in Nat, NEW a \in Words(n), NEW b \in Words(n), NEW j \in 1 .. n
  PROVE  Worth(Partial(a, b, j), 2 * n + 1, Val(a) * (Digit(b[j]) * Pow3[j - 1]))
<1> DEFINE w == [i \in 1 .. n |-> TMul(a[i], b[j])]
           k == j - 1
           l == n + 2 - j
           wide == 2 * n + 1
<1>1. Len(a) = n /\ b[j] \in Balanced
  BY WordLen DEF Words, WordOf
<1>2. w \in Words(n) /\ Val(w) = Val(a) * Digit(b[j])
  BY <1>1, ValTimes
<1>3. Partial(a, b, j) = Nulls(k) \o w \o Nulls(l)
  BY <1>1 DEF Partial
<1>4. k \in Nat /\ l \in Nat /\ k + n \in Nat /\ (k + n) + l = wide /\ wide \in Nat
  OBVIOUS
<1> HIDE DEF w, k, l, wide
<1>5. Nulls(k) \in Words(k) /\ Nulls(l) \in Words(l) /\ Val(Nulls(k)) = 0 /\ Val(Nulls(l)) = 0
  BY <1>4, ValNulls
<1> DEFINE u == Nulls(k) \o w
           r == u \o Nulls(l)
<1>6. u \in Words(k + n) /\ Val(u) = 0 + Pow3[k] * Val(w)
  <2>1. u \in Words(k + n) /\ Val(u) = Val(Nulls(k)) + Pow3[k] * Val(w)
    BY <1>2, <1>4, <1>5, ValJoin
  <2> QED
    BY <1>5, <2>1
<1> HIDE DEF u
<1> DEFINE m == k + n
<1>7. r \in Words((k + n) + l) /\ Val(r) = Val(u) + Pow3[k + n] * 0
  <2>1. m \in Nat /\ u \in Words(m)
    BY <1>4, <1>6
  <2> HIDE DEF m
  <2>2. r \in Words(m + l) /\ Val(r) = Val(u) + Pow3[m] * Val(Nulls(l))
    BY <1>4, <1>5, <2>1, ValJoin
  <2> QED
    BY <1>5, <2>2 DEF m
<1>8. Pow3[k] \in Int /\ Pow3[k + n] \in Int
  BY <1>4, PowNat
<1>9. Val(a) \in Int /\ Digit(b[j]) \in Int
  BY <1>1, ValBound, DigitIs
<1> DEFINE x == Val(a)
           y == Digit(b[j])
           p == Pow3[k]
<1>10. p * (x * y) = x * (y * p) /\ x * (y * p) \in Int /\ Pow3[k + n] * 0 = 0
  <2>1. x \in Int /\ y \in Int /\ p \in Int
    BY <1>8, <1>9
  <2> HIDE DEF x, y, p
  <2> QED
    BY <1>8, <2>1
<1> HIDE DEF r
<1>11. r \in Words(wide) /\ Val(r) = x * (y * p)
  BY <1>2, <1>4, <1>6, <1>7, <1>10
<1>12. Worth(r, wide, Val(r))
  BY <1>4, <1>11, WorthSelf
<1> QED
  BY <1>3, <1>11, <1>12 DEF r, u, wide, k

(* tmul_sa (tmul_opt.v:42-66) multiplies.                                  *)
LEMMA ValMul ==
  ASSUME NEW n \in Nat \ {0}, NEW a \in Words(n), NEW b \in Words(n)
  PROVE  /\ Mul(a, b) \in Words(2 * n) /\ Val(Mul(a, b)) = Val(a) * Val(b)
         /\ Val(a) * Val(b) \in Int
<1>1. Len(a) = n /\ Len(b) = n /\ a \in WordOf(n, Trit) /\ b \in WordOf(n, Trit)
      /\ a \in WordOf(n, Balanced) /\ b \in WordOf(n, Balanced)
  BY WordLen, TritWord DEF Words, WordOf
<1>2. PICK f : f = MulStep(a, b, f) /\ Mul(a, b) = Low(f[Len(b)], 2 * Len(a))
  BY <1>1, MulExists, MulIs
<1> DEFINE wide == 2 * n + 1
           T == {j \in 0 .. n : Worth(f[j], wide, Val(a) * Val(Low(b, j)))}
           x == Val(a)
<1>3. f[0] = Nulls(wide) /\ \A j \in 1 .. n : f[j] = Add(f[j - 1], Partial(a, b, j))
  BY <1>1, <1>2, MulAt
<1>4. \A j \in 1 .. n : Worth(Partial(a, b, j), wide, x * (Digit(b[j]) * Pow3[j - 1]))
  BY WorthPartial
<1>5. wide \in Nat /\ 2 * n \in 0 .. wide /\ 2 * n \in Nat
  OBVIOUS
<1>6. x \in Int
  BY ValBound
<1> HIDE DEF wide, x
<1>7. 0 \in T
  <2>1. Val(Low(b, 0)) = 0 /\ x * 0 = 0
    BY <1>6, LowUp
  <2>2. f[0] \in Words(wide) /\ Val(f[0]) = 0
    BY <1>3, <1>5, ValNulls
  <2>3. Worth(f[0], wide, 0)
    BY <1>5, <2>2, WorthSelf
  <2> QED
    BY <2>1, <2>3 DEF x
<1>8. ASSUME NEW j \in 1 .. n, j - 1 \in T PROVE j \in T
  <2> DEFINE k == j - 1
             y == Val(Low(b, k))
             z == Digit(b[j]) * Pow3[k]
  <2>1. k = j - 1 /\ Worth(f[k], wide, x * y) /\ f[j] = Add(f[k], Partial(a, b, j))
        /\ Worth(Partial(a, b, j), wide, x * z)
    BY <1>3, <1>4, <1>8 DEF x
  <2>2. Val(Low(b, j)) = y + z /\ y \in Int /\ z \in Int
    <3> HIDE DEF k
    <3>1. Val(Low(b, j)) = Val(Low(b, k)) + Digit(b[j]) * Pow3[k] /\ Pow3[k] \in Nat
          /\ Val(Low(b, k)) \in Int /\ Digit(b[j]) \in {-1, 0, 1}
      BY <2>1, LowStep
    <3> QED
      BY <3>1
  <2> HIDE DEF k, y, z
  <2>3. x * y \in Int /\ x * z \in Int /\ x * y + x * z = x * (y + z)
    BY <1>6, <2>2
  <2>4. Worth(Add(f[k], Partial(a, b, j)), wide, x * y + x * z)
    BY <1>5, <2>1, <2>3, WorthAdd
  <2>5. Worth(f[j], wide, Val(a) * Val(Low(b, j)))
    BY <2>1, <2>2, <2>3, <2>4 DEF x
  <2> QED
    BY <2>5
<1>9. Worth(f[n], wide, x * Val(b))
  <2> HIDE DEF T
  <2>1. n \in T
    BY <1>7, <1>8, Climb
  <2>2. Low(b, n) = b
    BY LowUp
  <2> QED
    BY <2>1, <2>2 DEF T, x
<1> DEFINE g == Greatest(n)
           y == Val(b)
<1>10. g \in Nat /\ Within(x, g) /\ Within(y, g) /\ Greatest(2 * n) = 2 * (g * g) + 2 * g
       /\ g * g \in Nat
  BY ValWithin, WidthGrowth DEF x
<1> HIDE DEF g, y
<1>11. Within(x * y, g * g)
  BY <1>10, WithinTimes
<1>12. x * y \in Int /\ -Greatest(2 * n) <= x * y /\ x * y <= Greatest(2 * n)
  BY <1>10, <1>11 DEF Within
<1>13. Worth(Low(f[n], 2 * n), 2 * n, x * y)
  BY <1>5, <1>9, <1>12, WorthLow DEF y
<1>14. Low(f[n], 2 * n) \in Words(2 * n) /\ Val(Low(f[n], 2 * n)) = x * y
  BY <1>5, <1>12, <1>13, WorthExact
<1> QED
  BY <1>1, <1>2, <1>12, <1>14 DEF x, y

-----------------------------------------------------------------------------
(* The low trits of a word are worth the residue of what it is worth, and  *)
(* a trit above them is up exactly when that is not the same.              *)
LEMMA CutExact ==
  ASSUME NEW m \in Nat, NEW n \in 0 .. m, NEW w \in Words(m)
  PROVE  /\ Low(w, n) \in Words(n) /\ Val(Low(w, n)) = Residue(Val(w), n)
         /\ Wider(w, n) <=> ~Fits(Val(w), n)
<1> DEFINE k == m - n
           h == SubSeq(w, n + 1, m)
           l == Low(w, n)
<1>1. k \in Nat /\ n + k = m /\ n \in Nat /\ Len(w) = m /\ w \in Seq(Balanced)
  BY WordLen DEF Words, WordOf
<1>2. l \in Words(n) /\ h \in Words(k) /\ Val(w) = Val(l) + Pow3[n] * Val(h)
  <2> HIDE DEF k
  <2> QED
    BY <1>1, ValSplit
<1>3. \A i \in 1 .. k : h[i] = w[n + i]
  <2>1. \A i \in 1 .. m - (n + 1) + 1 : h[i] = w[n + 1 + i - 1]
    <3>1. \A i \in n + 1 .. m : w[i] \in Balanced
      BY DEF Words
    <3> QED
      BY <1>1, <3>1, SubSeqProperties
  <2> QED
    BY <1>1, <2>1
<1> HIDE DEF l, h, k
<1>4. Val(w) \in Int /\ Val(l) \in Int /\ Val(h) \in Int /\ Pow3[n] \in Nat /\ Pow3[n] >= 1
  BY <1>1, <1>2, ValBound, PowFacts
<1>5. Val(l) = Residue(Val(w), n) /\ (Fits(Val(w), n) <=> Val(l) = Val(w))
  <2>1. Worth(w, m, Val(w))
    BY WorthSelf
  <2>2. Worth(l, n, Val(w))
    BY <1>4, <2>1, WorthLow DEF l
  <2> QED
    BY <1>1, <1>4, <2>2, WorthResidue
<1>6. Val(l) = Val(w) <=> Val(h) = 0
  <2> DEFINE p == Pow3[n]
             z == Val(h)
  <2>1. p \in Int /\ p >= 1 /\ z \in Int
    BY <1>4
  <2> HIDE DEF p, z
  <2>2. p * z = 0 <=> z = 0
    <3>1. CASE z >= 1
      <4>1. p * z >= z
        BY <2>1, <3>1
      <4> QED
        BY <2>1, <3>1, <4>1
    <3>2. CASE z <= -1
      <4>1. p * z <= z
        BY <2>1, <3>2
      <4> QED
        BY <2>1, <3>2, <4>1
    <3>3. CASE z = 0
      BY <2>1, <3>3
    <3> QED
      BY <2>1, <3>1, <3>2, <3>3
  <2>3. p * z \in Int
    BY <2>1
  <2> QED
    BY <1>2, <1>4, <2>2, <2>3 DEF p, z
<1>7. Val(h) = 0 <=> h = Nulls(k)
  BY <1>1, <1>2, ValNulls, ValOne
<1>8. h = Nulls(k) <=> ~Wider(w, n)
  <2>1. h = Nulls(k) <=> \A i \in 1 .. k : h[i] = Null
    BY <1>2 DEF Words, Nulls
  <2>2. (\A i \in 1 .. k : h[i] = Null) <=> \A i \in n + 1 .. m : w[i] = Null
    <3>1. ASSUME \A i \in 1 .. k : h[i] = Null, NEW i \in n + 1 .. m PROVE w[i] = Null
      <4>1. i - n \in 1 .. k /\ n + (i - n) = i
        BY <1>1
      <4> QED
        BY <1>3, <3>1, <4>1
    <3>2. ASSUME \A i \in n + 1 .. m : w[i] = Null, NEW i \in 1 .. k PROVE h[i] = Null
      <4>1. n + i \in n + 1 .. m
        BY <1>1
      <4> QED
        BY <1>3, <3>2, <4>1
    <3> QED
      BY <3>1, <3>2
  <2> QED
    BY <1>1, <2>1, <2>2 DEF Wider
<1> QED
  BY <1>2, <1>5, <1>6, <1>7, <1>8 DEF l

(* A product padded to R trits, and its bound.                             *)
LEMMA WorthMul ==
  ASSUME NEW n \in Nat \ {0}, NEW a \in Words(n), NEW b \in Words(n), NEW R \in Nat, 2 * n <= R
  PROVE  /\ Worth(Ext(Mul(a, b), R), R, Val(a) * Val(b))
         /\ Within(Val(a) * Val(b), Greatest(n) * Greatest(n))
<1>1. 2 * n \in 0 .. R /\ n \in Nat
  OBVIOUS
<1>2. Mul(a, b) \in Words(2 * n) /\ Val(Mul(a, b)) = Val(a) * Val(b)
  BY ValMul
<1>3. Worth(Ext(Mul(a, b), R), R, Val(Mul(a, b)))
  <2> DEFINE m == 2 * n
             p == Mul(a, b)
  <2>1. m \in 0 .. R /\ p \in Words(m)
    BY <1>1, <1>2
  <2> HIDE DEF m, p
  <2>2. Worth(Ext(p, R), R, Val(p))
    BY <2>1, WorthExt
  <2> QED
    BY <2>2 DEF p
<1>4. Within(Val(a), Greatest(n)) /\ Within(Val(b), Greatest(n)) /\ Greatest(n) \in Nat
  BY <1>1, ValWithin, WidthGrowth
<1> QED
  BY <1>2, <1>3, <1>4, WithinTimes

(* The sum in one trit more loses no carry (tmul_opt.v:208-220).           *)
LEMMA WideSumExact ==
  ASSUME NEW n \in Nat, NEW a \in Words(n), NEW b \in Words(n)
  PROVE  WideSum(a, b) \in Words(n + 1) /\ Val(WideSum(a, b)) = Val(a) + Val(b)
<1> DEFINE m == n + 1
           g == Greatest(n)
<1>1. Len(a) = n /\ Len(b) = n /\ m \in Nat /\ n \in 0 .. m
  BY WordLen DEF Words, WordOf
<1>2. WideSum(a, b) = Add(Ext(a, m), Ext(b, m))
  BY <1>1 DEF WideSum
<1>3. g \in Nat /\ Greatest(m) = 3 * g + 1
  BY WidthGrowth
<1>4. /\ Val(a) \in Int /\ -g <= Val(a) /\ Val(a) <= g
      /\ Val(b) \in Int /\ -g <= Val(b) /\ Val(b) <= g
  BY ValBound
<1> HIDE DEF m, g
<1>5. Worth(Ext(a, m), m, Val(a)) /\ Worth(Ext(b, m), m, Val(b))
  BY <1>1, WorthExt
<1>6. Worth(Add(Ext(a, m), Ext(b, m)), m, Val(a) + Val(b))
  BY <1>1, <1>4, <1>5, WorthAdd
<1>7. Val(a) + Val(b) \in Int /\ -Greatest(m) <= Val(a) + Val(b) /\ Val(a) + Val(b) <= Greatest(m)
  BY <1>3, <1>4
<1>8. Add(Ext(a, m), Ext(b, m)) \in Words(m) /\ Val(Add(Ext(a, m), Ext(b, m))) = Val(a) + Val(b)
  BY <1>1, <1>6, <1>7, WorthExact
<1> QED
  BY <1>2, <1>8 DEF m

(* The length of a word.                                                   *)
LEMMA LenOf ==
  ASSUME NEW n \in Nat, NEW w \in Words(n)
  PROVE  Len(w) = n
BY WordLen DEF Words, WordOf

(* The Eisenstein product by three and by four products.                   *)
LEMMA EisenIs ==
  ASSUME NEW n \in Nat \ {0},
         NEW a \in Words(n), NEW b \in Words(n), NEW c \in Words(n), NEW d \in Words(n)
  PROVE  LET p == EisenMul(a, b, c, d)
         IN  /\ p.A \in Words(2 * n) /\ p.B \in Words(2 * n + 1)
             /\ Val(p.A) = EisenA(Val(a), Val(b), Val(c), Val(d))
             /\ Val(p.B) = EisenB(Val(a), Val(b), Val(c), Val(d))
             /\ p = EisenMulNaive(a, b, c, d)
<1> DEFINE m == 2 * n
           R == 2 * n + 1
           k == n + 1
           e == 2 * n + 2
           s == Greatest(n) * Greatest(n)
           x == Val(a)
           y == Val(b)
           z == Val(c)
           w == Val(d)
<1>1. /\ n \in Nat /\ m \in Nat /\ R \in Nat /\ k \in Nat \ {0} /\ 2 * k = e /\ e \in Nat
      /\ R \in 0 .. e /\ m \in 0 .. R /\ 2 * n <= m /\ 2 * n <= R
  OBVIOUS
<1>2. Len(a) = n /\ 2 * Len(a) + 1 = R
  BY LenOf
<1>3. /\ s \in Nat /\ Greatest(n) \in Nat
      /\ Greatest(m) = 2 * s + 2 * Greatest(n)
      /\ Greatest(R) = 6 * s + 6 * Greatest(n) + 1
  BY WidthGrowth
<1>4. x \in Int /\ y \in Int /\ z \in Int /\ w \in Int
  BY ValBound
<1>5. /\ Within(x * z, s) /\ Within(y * w, s) /\ Within(x * w, s) /\ Within(y * z, s)
      /\ Worth(Ext(Mul(a, c), R), R, x * z)
      /\ Worth(Ext(Mul(b, d), R), R, y * w)
      /\ Worth(Ext(Mul(a, d), R), R, x * w)
      /\ Worth(Ext(Mul(b, c), R), R, y * z)
  BY <1>1, WorthMul
<1>6. Mul(a, c) \in Words(m) /\ Val(Mul(a, c)) = x * z /\ Mul(b, d) \in Words(m)
      /\ Val(Mul(b, d)) = y * w
  BY ValMul
<1> DEFINE s1 == WideSum(a, b)
           s2 == WideSum(c, d)
<1>7. s1 \in Words(k) /\ Val(s1) = x + y /\ s2 \in Words(k) /\ Val(s2) = z + w
  BY WideSumExact
<1> DEFINE p3 == Mul(s1, s2)
<1>8. EisenMul(a, b, c, d) = [A |-> Sub(Mul(a, c), Mul(b, d)), B |-> Sub(Low(p3, R), Ext(Mul(a, c), R))]
  BY <1>2 DEF EisenMul
<1>9. EisenMulNaive(a, b, c, d)
        = [A |-> Sub(Mul(a, c), Mul(b, d)),
           B |-> Add(Add(Ext(Mul(a, d), R), Ext(Mul(b, c), R)), Ext(Mul(b, d), R))]
  BY <1>2 DEF EisenMulNaive
<1> HIDE DEF m, R, k, e, s, s1, s2, x, y, z, w
<1>10. p3 \in Words(e) /\ Val(p3) = (x + y) * (z + w)
  <2>1. p3 \in Words(2 * k) /\ Val(p3) = Val(s1) * Val(s2)
    BY <1>1, <1>7, ValMul
  <2> QED
    BY <1>1, <1>7, <2>1
<1> HIDE DEF p3
<1>11. x * z \in Int /\ y * w \in Int /\ x * w \in Int /\ y * z \in Int
  BY <1>4
<1>12. (x + y) * (z + w) - x * z = x * w + y * z + y * w /\ (x + y) * (z + w) \in Int
  <2>1. (x + y) * (z + w) = x * z + x * w + y * z + y * w
    BY <1>4
  <2> QED
    BY <1>11, <2>1
<1> DEFINE A == Sub(Mul(a, c), Mul(b, d))
           B == Sub(Low(p3, R), Ext(Mul(a, c), R))
           C == Add(Add(Ext(Mul(a, d), R), Ext(Mul(b, c), R)), Ext(Mul(b, d), R))
<1>13. A \in Words(m) /\ Val(A) = x * z - y * w
  <2>1. Worth(Mul(a, c), m, x * z) /\ Worth(Mul(b, d), m, y * w)
    BY <1>1, <1>6, WorthSelf
  <2>2. Worth(A, m, x * z - y * w)
    BY <1>1, <1>11, <2>1, WorthAdd
  <2>3. x * z - y * w \in Int /\ -Greatest(m) <= x * z - y * w /\ x * z - y * w <= Greatest(m)
    BY <1>3, <1>5, <1>11 DEF Within
  <2> QED
    BY <1>1, <2>2, <2>3, WorthExact
<1>14. Worth(B, R, x * w + y * z + y * w)
  <2>1. Worth(p3, e, (x + y) * (z + w))
    BY <1>1, <1>10, WorthSelf
  <2>2. Worth(Low(p3, R), R, (x + y) * (z + w))
    BY <1>1, <1>12, <2>1, WorthLow
  <2>3. Worth(B, R, (x + y) * (z + w) - x * z)
    BY <1>1, <1>5, <1>11, <1>12, <2>2, WorthAdd
  <2> QED
    BY <1>12, <2>3
<1>15. Worth(C, R, x * w + y * z + y * w)
  <2>1. Worth(Add(Ext(Mul(a, d), R), Ext(Mul(b, c), R)), R, x * w + y * z)
    BY <1>1, <1>5, <1>11, WorthAdd
  <2>2. x * w + y * z \in Int
    BY <1>11
  <2> QED
    BY <1>1, <1>5, <1>11, <2>1, <2>2, WorthAdd
<1>16. x * w + y * z + y * w \in Int
  BY <1>11
<1>17. B = C
  BY <1>1, <1>14, <1>15, <1>16, WorthSame
<1>18. B \in Words(R) /\ Val(B) = x * w + y * z + y * w
  <2>1. -Greatest(R) <= x * w + y * z + y * w /\ x * w + y * z + y * w <= Greatest(R)
    BY <1>3, <1>5, <1>11 DEF Within
  <2> QED
    BY <1>1, <1>14, <1>16, <2>1, WorthExact
<1> HIDE DEF A, B, C
<1>19. EisenMul(a, b, c, d) = [A |-> A, B |-> B] /\ EisenMulNaive(a, b, c, d) = [A |-> A, B |-> C]
  BY <1>8, <1>9 DEF A, B, C
<1> QED
  BY <1>13, <1>17, <1>18, <1>19 DEF m, R, x, y, z, w, EisenA, EisenB

(* The exact norm, by three products.                                      *)
LEMMA NormFullIs ==
  ASSUME NEW n \in Nat \ {0}, NEW a \in Words(n), NEW b \in Words(n)
  PROVE  /\ NormFull(a, b) \in Words(2 * n + 1)
         /\ Val(NormFull(a, b)) = NormOf(Val(a), Val(b))
         /\ NormOf(Val(a), Val(b)) \in Int
<1> DEFINE R == 2 * n + 1
           s == Greatest(n) * Greatest(n)
           x == Val(a)
           y == Val(b)
<1>1. n \in Nat /\ R \in Nat /\ 2 * n <= R
  OBVIOUS
<1>2. s \in Nat /\ Greatest(n) \in Nat /\ Greatest(R) = 6 * s + 6 * Greatest(n) + 1
  BY WidthGrowth
<1>3. /\ Within(x * x, s) /\ Within(x * y, s) /\ Within(y * y, s)
      /\ Worth(Ext(Mul(a, a), R), R, x * x)
      /\ Worth(Ext(Mul(a, b), R), R, x * y)
      /\ Worth(Ext(Mul(b, b), R), R, y * y)
  BY <1>1, WorthMul
<1>4. NormFull(a, b) = Add(Add(Ext(Mul(a, a), R), Ext(Mul(a, b), R)), Ext(Mul(b, b), R))
  <2>1. Len(a) = n
    BY LenOf
  <2> QED
    BY <2>1 DEF NormFull
<1> HIDE DEF R, s, x, y
<1>5. x * x \in Int /\ x * y \in Int /\ y * y \in Int /\ x * x + x * y \in Int
  BY <1>3 DEF Within
<1>6. Worth(Add(Ext(Mul(a, a), R), Ext(Mul(a, b), R)), R, x * x + x * y)
  BY <1>1, <1>3, <1>5, WorthAdd
<1>7. Worth(NormFull(a, b), R, x * x + x * y + y * y)
  BY <1>1, <1>3, <1>4, <1>5, <1>6, WorthAdd
<1>8. /\ x * x + x * y + y * y \in Int /\ -Greatest(R) <= x * x + x * y + y * y
      /\ x * x + x * y + y * y <= Greatest(R)
  BY <1>2, <1>3, <1>5 DEF Within
<1> QED
  BY <1>1, <1>7, <1>8, WorthExact DEF R, x, y, NormOf

-----------------------------------------------------------------------------
(* The halves that Karatsuba splits a word into (tmul_opt.v:124-150).      *)
LowHalf(w)  == Low(w, Len(w) \div 2)
HighHalf(w) == SubSeq(w, Len(w) \div 2 + 1, Len(w))

(* The sum of the two halves fits in the trits it is taken in.             *)
HalvesFit(w) == Within(Val(LowHalf(w)) + Val(HighHalf(w)), Greatest(Len(w) \div 2 + 1))

(* The cell's sum of the two halves.                                       *)
HalvesSum(w) ==
  LET S == Len(w) \div 2 + 1 IN Add(Ext(LowHalf(w), S), Ext(HighHalf(w), S))

(* A word is its two halves, and their sum is exact where it fits.         *)
LEMMA HalvesIs ==
  ASSUME NEW n \in Nat \ {0, 1}, NEW w \in Words(n), NEW K, K = n \div 2
  PROVE  /\ LowHalf(w) \in Words(K) /\ HighHalf(w) \in Words(n - K)
         /\ Val(w) = Val(LowHalf(w)) + Pow3[K] * Val(HighHalf(w))
         /\ HalvesFit(w) => /\ HalvesSum(w) \in Words(K + 1)
                            /\ Val(HalvesSum(w)) = Val(LowHalf(w)) + Val(HighHalf(w))
<1> DEFINE L == n - K
           S == K + 1
           l == Low(w, K)
           h == SubSeq(w, K + 1, n)
<1>1. /\ K \in Nat /\ K >= 1 /\ L \in Nat /\ K + L = n /\ S \in Nat /\ K \in 0 .. S /\ L \in 0 .. S
      /\ K \in 0 .. n /\ n \in Nat
  OBVIOUS
<1>2. Len(w) = n
  BY LenOf
<1>3. LowHalf(w) = l /\ HighHalf(w) = h /\ HalvesSum(w) = Add(Ext(l, S), Ext(h, S))
  BY <1>2 DEF LowHalf, HighHalf, HalvesSum
<1>4. HalvesFit(w) <=> Within(Val(l) + Val(h), Greatest(S))
  BY <1>2, <1>3 DEF HalvesFit
<1> HIDE DEF L, S
<1>5. l \in Words(K) /\ h \in Words(L) /\ Val(w) = Val(l) + Pow3[K] * Val(h)
  BY <1>1, ValSplit
<1> HIDE DEF l, h
<1>6. ASSUME Within(Val(l) + Val(h), Greatest(S))
      PROVE  /\ Add(Ext(l, S), Ext(h, S)) \in Words(S)
             /\ Val(Add(Ext(l, S), Ext(h, S))) = Val(l) + Val(h)
  <2>1. Worth(Ext(l, S), S, Val(l)) /\ Worth(Ext(h, S), S, Val(h))
    BY <1>1, <1>5, WorthExt
  <2>2. Val(l) \in Int /\ Val(h) \in Int
    BY <1>1, <1>5, ValBound
  <2>3. Worth(Add(Ext(l, S), Ext(h, S)), S, Val(l) + Val(h))
    BY <1>1, <2>1, <2>2, WorthAdd
  <2> QED
    BY <1>1, <1>6, <2>3, WorthExact DEF Within
<1> QED
  BY <1>3, <1>4, <1>5, <1>6 DEF L, S

(* The cell by its parts.                                                  *)
KaratsubaBy(p0, p1, p2, K, S, n) ==
  LET z1 == Sub(Sub(p1, Ext(p0, 2 * S)), Ext(p2, 2 * S))
  IN  Add(Add(Ext(p0, 2 * n), Low(Nulls(K) \o Ext(z1, 2 * n), 2 * n)),
          Low(Nulls(2 * K) \o Ext(p2, 2 * n), 2 * n))

(* Karatsuba is that expression of its three products.                     *)
LEMMA KaratsubaIs ==
  ASSUME NEW a, NEW b, NEW n, Len(a) = n, Len(b) = n
  PROVE  Karatsuba(a, b)
           = KaratsubaBy(Mul(LowHalf(a), LowHalf(b)), Mul(HalvesSum(a), HalvesSum(b)),
                         Mul(HighHalf(a), HighHalf(b)), n \div 2, n \div 2 + 1, n)
BY DEF Karatsuba, KaratsubaBy, Middle, LowHalf, HighHalf, HalvesSum

(* The same of a word padded first, as the Karatsuba cell does it.         *)
LEMMA WorthOver ==
  ASSUME NEW n \in Nat, NEW k \in Nat, NEW m \in 0 .. n, NEW w \in Words(m)
  PROVE  Worth(Low(Nulls(k) \o Ext(w, n), n), n, Pow3[k] * Val(w))
<1>1. Ext(w, n) \in Words(n) /\ Val(Ext(w, n)) = Val(w)
  BY WorthExt
<1>2. n <= k + n
  OBVIOUS
<1> QED
  BY <1>1, <1>2, WorthShift

(* tmul_trits_opt (tmul_opt.v:124-184) gives the trits of the shift-add    *)
(* multiplier wherever the sums of the halves fit: the carries its adders  *)
(* drop are multiples of 3^2n.                                             *)
LEMMA KaratsubaDropIn ==
  ASSUME NEW n \in Nat \ {0, 1}, NEW a \in Words(n), NEW b \in Words(n), HalvesFit(a), HalvesFit(b)
  PROVE  Karatsuba(a, b) = Mul(a, b)
<1> DEFINE K  == n \div 2
           L  == n - K
           S  == K + 1
           T  == 2 * S
           W  == 2 * n
           K2 == 2 * K
           L2 == 2 * L
           p0 == Mul(LowHalf(a), LowHalf(b))
           p2 == Mul(HighHalf(a), HighHalf(b))
           p1 == Mul(HalvesSum(a), HalvesSum(b))
           z1 == Sub(Sub(p1, Ext(p0, T)), Ext(p2, T))
           al == Val(LowHalf(a))
           ah == Val(HighHalf(a))
           bl == Val(LowHalf(b))
           bh == Val(HighHalf(b))
           P  == Pow3[K]
<1>1. /\ n \in Nat /\ K \in Nat \ {0} /\ L \in Nat \ {0} /\ K + L = n /\ S \in Nat \ {0}
         /\ T \in Nat
      /\ W \in Nat /\ K2 \in Nat /\ K2 \in 0 .. T /\ L2 \in 0 .. T /\ K2 \in 0 .. W /\ L2 \in 0 .. W
      /\ T \in 0 .. W /\ L <= S /\ K2 = K + K /\ L \in 0 .. S
  OBVIOUS
<1>2. /\ LowHalf(a) \in Words(K) /\ HighHalf(a) \in Words(L) /\ Val(a) = al + P * ah
      /\ HalvesSum(a) \in Words(S) /\ Val(HalvesSum(a)) = al + ah
  BY HalvesIs
<1>3. /\ LowHalf(b) \in Words(K) /\ HighHalf(b) \in Words(L) /\ Val(b) = bl + P * bh
      /\ HalvesSum(b) \in Words(S) /\ Val(HalvesSum(b)) = bl + bh
  BY HalvesIs
<1>4. Karatsuba(a, b) = Add(Add(Ext(p0, W), Low(Nulls(K) \o Ext(z1, W), W)), Low(Nulls(K2) \o Ext(p2, W), W))
  <2>1. Len(a) = n /\ Len(b) = n
    BY LenOf
  <2>2. Karatsuba(a, b) = KaratsubaBy(p0, p1, p2, K, S, n)
    BY <2>1, KaratsubaIs
  <2> QED
    BY <2>2 DEF KaratsubaBy
<1>5. Greatest(S) = 3 * Greatest(K) + 1
      /\ Greatest(T) = 2 * (Greatest(S) * Greatest(S)) + 2 * Greatest(S)
      /\ Greatest(K) \in Nat /\ Greatest(S) \in Nat /\ Greatest(S) * Greatest(S) \in Nat
  BY <1>1, WidthGrowth
<1>6. p0 \in Words(K2) /\ Val(p0) = al * bl /\ p2 \in Words(L2) /\ Val(p2) = ah * bh
      /\ p1 \in Words(T) /\ Val(p1) = (al + ah) * (bl + bh)
  <2>1. p0 \in Words(K2) /\ Val(p0) = al * bl
    BY <1>1, <1>2, <1>3, ValMul
  <2>2. p2 \in Words(L2) /\ Val(p2) = ah * bh
    BY <1>1, <1>2, <1>3, ValMul
  <2>3. p1 \in Words(T) /\ Val(p1) = Val(HalvesSum(a)) * Val(HalvesSum(b))
    <3> HIDE DEF S
    <3> QED
      BY <1>1, <1>2, <1>3, ValMul
  <2> QED
    BY <1>2, <1>3, <2>1, <2>2, <2>3
<1>7. /\ al \in Int /\ ah \in Int /\ bl \in Int /\ bh \in Int /\ P \in Int
      /\ Pow3[K2] = P * P
      /\ Within(al, Greatest(K)) /\ Within(bl, Greatest(K))
  <2>1. Pow3[K2] = P * P /\ P \in Int
    BY <1>1, PowSum, PowNat
  <2> QED
    BY <1>1, <1>2, <1>3, <2>1, ValWithin
<1>8. Within(ah, Greatest(S)) /\ Within(bh, Greatest(S))
  <2> HIDE DEF L, S
  <2>1. /\ Ext(HighHalf(a), S) \in Words(S) /\ Val(Ext(HighHalf(a), S)) = ah
        /\ Ext(HighHalf(b), S) \in Words(S) /\ Val(Ext(HighHalf(b), S)) = bh
    BY <1>1, <1>2, <1>3, WorthExt
  <2> QED
    BY <1>1, <2>1, ValWithin
<1> HIDE DEF K, L, S, T, W, K2, L2, p0, p1, p2, z1, al, ah, bl, bh, P
<1>9. /\ al * bl \in Int /\ ah * bh \in Int /\ al * bh \in Int /\ ah * bl \in Int
      /\ (al + ah) * (bl + bh) \in Int
      /\ (al + ah) * (bl + bh) - al * bl - ah * bh = al * bh + ah * bl
  <2>1. (al + ah) * (bl + bh) = al * bl + al * bh + ah * bl + ah * bh
    BY <1>7
  <2>2. al * bl \in Int /\ ah * bh \in Int /\ al * bh \in Int /\ ah * bl \in Int
    BY <1>7
  <2> QED
    BY <2>1, <2>2
<1>10. Worth(z1, T, al * bh + ah * bl)
  <2>1. Worth(p1, T, (al + ah) * (bl + bh))
    BY <1>1, <1>6, WorthSelf
  <2>2. Worth(Ext(p0, T), T, al * bl) /\ Worth(Ext(p2, T), T, ah * bh)
    BY <1>1, <1>6, WorthExt
  <2>3. Worth(Sub(p1, Ext(p0, T)), T, (al + ah) * (bl + bh) - al * bl)
    BY <1>1, <1>9, <2>1, <2>2, WorthAdd
  <2>4. (al + ah) * (bl + bh) - al * bl \in Int
    BY <1>9
  <2>5. Worth(z1, T, (al + ah) * (bl + bh) - al * bl - ah * bh)
    BY <1>1, <1>9, <2>2, <2>3, <2>4, WorthAdd DEF z1
  <2> QED
    BY <1>9, <2>5
<1>11. z1 \in Words(T) /\ Val(z1) = al * bh + ah * bl
  <2>1. Within(al, Greatest(S)) /\ Within(bl, Greatest(S))
    BY <1>5, <1>7 DEF Within
  <2>2. Within(al * bh, Greatest(S) * Greatest(S)) /\ Within(ah * bl, Greatest(S) * Greatest(S))
    BY <1>5, <1>8, <2>1, WithinTimes
  <2>3. -Greatest(T) <= al * bh + ah * bl /\ al * bh + ah * bl <= Greatest(T)
        /\ al * bh + ah * bl \in Int
    BY <1>5, <1>9, <2>2 DEF Within
  <2> QED
    BY <1>1, <1>10, <2>3, WorthExact
<1> DEFINE q0 == al * bl
           q1 == P * (al * bh + ah * bl)
           q2 == (P * P) * (ah * bh)
<1>12. q0 \in Int /\ q1 \in Int /\ q2 \in Int /\ q0 + q1 \in Int
  BY <1>7
<1>13. Worth(Ext(p0, W), W, q0)
  BY <1>1, <1>6, WorthExt
<1>14. Worth(Low(Nulls(K) \o Ext(z1, W), W), W, q1)
  BY <1>1, <1>11, WorthOver DEF P
<1>15. Worth(Low(Nulls(K2) \o Ext(p2, W), W), W, q2)
  BY <1>1, <1>6, <1>7, WorthOver
<1>16. q0 + q1 + q2 = Val(a) * Val(b)
  <2>1. (al + P * ah) * (bl + P * bh) = al * bl + al * (P * bh) + (P * ah) * bl + (P * ah) * (P * bh)
    BY <1>7
  <2>2. /\ al * (P * bh) = P * (al * bh) /\ (P * ah) * bl = P * (ah * bl)
        /\ (P * ah) * (P * bh) = (P * P) * (ah * bh)
        /\ P * (al * bh + ah * bl) = P * (al * bh) + P * (ah * bl)
    BY <1>7
  <2>3. P * (al * bh) \in Int /\ P * (ah * bl) \in Int /\ (P * P) * (ah * bh) \in Int
    BY <1>7
  <2> QED
    BY <1>2, <1>3, <1>9, <2>1, <2>2, <2>3
<1> HIDE DEF q0, q1, q2
<1>17. Worth(Karatsuba(a, b), W, Val(a) * Val(b))
  <2>1. Worth(Add(Ext(p0, W), Low(Nulls(K) \o Ext(z1, W), W)), W, q0 + q1)
    BY <1>1, <1>12, <1>13, <1>14, WorthAdd
  <2>2. Worth(Karatsuba(a, b), W, q0 + q1 + q2)
    BY <1>1, <1>4, <1>12, <1>15, <2>1, WorthAdd
  <2> QED
    BY <1>16, <2>2
<1>18. Worth(Mul(a, b), W, Val(a) * Val(b)) /\ Val(a) * Val(b) \in Int
  <2>1. n \in Nat \ {0}
    BY <1>1
  <2>2. Mul(a, b) \in Words(W) /\ Val(Mul(a, b)) = Val(a) * Val(b) /\ Val(a) * Val(b) \in Int
    BY <2>1, ValMul DEF W
  <2> QED
    BY <1>1, <2>2, WorthSelf
<1> QED
  BY <1>1, <1>17, <1>18, WorthSame

(* The halves of an even word.                                             *)
LEMMA EvenHalves ==
  ASSUME NEW K \in Nat \ {0}, NEW w \in Words(2 * K)
  PROVE  HalvesFit(w)
<1> DEFINE n == 2 * K
           g == Greatest(K)
           l == Val(LowHalf(w))
           h == Val(HighHalf(w))
<1>1. n \in Nat \ {0, 1} /\ K = n \div 2 /\ n - K = K /\ K \in Nat /\ w \in Words(n)
  OBVIOUS
<1>2. Len(w) = n
  BY <1>1, LenOf
<1> HIDE DEF n
<1>3. LowHalf(w) \in Words(K) /\ HighHalf(w) \in Words(n - K)
  BY <1>1, HalvesIs
<1>4. Within(l, g) /\ Within(h, g)
  BY <1>1, <1>3, ValWithin
<1>5. g \in Nat /\ Greatest(K + 1) = 3 * g + 1
  BY <1>1, WidthGrowth
<1> HIDE DEF l, h, g
<1>6. Within(l + h, Greatest(K + 1))
  BY <1>4, <1>5 DEF Within
<1> QED
  BY <1>1, <1>2, <1>6 DEF HalvesFit, l, h

(* The halves of the sum of two even words, which is a trit wider: a sum   *)
(* that took that trit to its ends would not do.                           *)
LEMMA SumHalves ==
  ASSUME NEW K \in Nat \ {0}, NEW a \in Words(2 * K), NEW b \in Words(2 * K)
  PROVE  HalvesFit(WideSum(a, b))
<1> DEFINE n == 2 * K
           m == n + 1
           w == WideSum(a, b)
           g == Greatest(K)
           l == Val(LowHalf(w))
           h == Val(HighHalf(w))
           P == Pow3[K]
<1>1. /\ n \in Nat /\ m \in Nat \ {0, 1} /\ K = m \div 2 /\ m - K = K + 1 /\ K \in Nat
         /\ K + 1 \in Nat
      /\ a \in Words(n) /\ b \in Words(n) /\ 2 * K = n
  OBVIOUS
<1> HIDE DEF n
<1>2. w \in Words(m) /\ Val(w) = Val(a) + Val(b)
  BY <1>1, WideSumExact
<1> HIDE DEF w
<1>3. Len(w) = m
  BY <1>1, <1>2, LenOf
<1> HIDE DEF m
<1>4. LowHalf(w) \in Words(K) /\ HighHalf(w) \in Words(m - K) /\ Val(w) = l + P * h
  BY <1>1, <1>2, HalvesIs
<1>5. Within(l, g) /\ h \in Int
  <2>1. h \in Int
    BY <1>1, <1>4, ValWithin
  <2> QED
    BY <1>1, <1>4, <2>1, ValWithin
<1>6. g \in Nat /\ g * g \in Nat /\ Greatest(K + 1) = 3 * g + 1 /\ Greatest(n) = 2 * (g * g) + 2 * g
  BY <1>1, WidthGrowth
<1>7. P = 2 * g + 1
  BY <1>1, PowFacts
<1>8. Within(Val(a), Greatest(n)) /\ Within(Val(b), Greatest(n))
  BY <1>1, ValWithin
<1> HIDE DEF l, h, g, P
<1>9. Within(P * h, 4 * (g * g) + 5 * g)
  <2>1. P * h \in Int
    BY <1>5, <1>6, <1>7
  <2> QED
    BY <1>2, <1>4, <1>5, <1>6, <1>8, <2>1 DEF Within
<1>10. h <= 2 * g + 1 /\ -(2 * g + 1) <= h
  <2>1. (2 * g + 1) * (2 * g + 2) = 4 * (g * g) + 6 * g + 2
    BY <1>6
  <2>2. ASSUME NEW x \in Nat, x >= 2 * g + 2 PROVE (2 * g + 1) * x > 4 * (g * g) + 5 * g
    <3>1. PICK e \in Nat : x = (2 * g + 2) + e
      <4>1. x - (2 * g + 2) \in Nat /\ x = (2 * g + 2) + (x - (2 * g + 2))
        BY <1>6, <2>2
      <4> QED
        BY <4>1
    <3>2. (2 * g + 1) * x = (2 * g + 1) * (2 * g + 2) + (2 * g + 1) * e /\ (2 * g + 1) * e \in Nat
      BY <1>6, <3>1
    <3> QED
      BY <1>6, <2>1, <3>2
  <2>3. CASE h >= 2 * g + 2
    <3>1. h \in Nat
      BY <1>5, <1>6, <2>3
    <3>2. P * h > 4 * (g * g) + 5 * g
      BY <1>7, <2>2, <2>3, <3>1
    <3> QED
      BY <1>6, <1>9, <3>2 DEF Within
  <2>4. CASE h <= -(2 * g + 2)
    <3>1. -h \in Nat /\ -h >= 2 * g + 2
      BY <1>5, <1>6, <2>4
    <3>2. (2 * g + 1) * (-h) > 4 * (g * g) + 5 * g
      BY <2>2, <3>1
    <3>3. (2 * g + 1) * (-h) = -(P * h)
      BY <1>5, <1>6, <1>7
    <3> QED
      BY <1>6, <1>9, <3>2, <3>3 DEF Within
  <2> QED
    BY <1>5, <1>6, <2>3, <2>4
<1>11. Within(l + h, Greatest(K + 1))
  BY <1>5, <1>6, <1>10 DEF Within
<1> QED
  BY <1>1, <1>3, <1>11 DEF HalvesFit, l, h, w

-----------------------------------------------------------------------------
(* The two-product norm of an even width, with either multiplier.          *)
LEMMA NormWideIs ==
  ASSUME NEW K \in Nat \ {0}, NEW n, n = 2 * K, NEW a \in Words(n), NEW b \in Words(n),
         NEW karatsuba \in BOOLEAN
  PROVE  /\ NormWide(a, b, karatsuba) \in Words(2 * n + 1)
         /\ Val(NormWide(a, b, karatsuba)) = NormOf(Val(a), Val(b))
<1> DEFINE k == n + 1
           R == 2 * n + 1
           e == 2 * n + 2
           m == 2 * n
           s == WideSum(a, b)
           p == Mul(s, s)
           q == Mul(a, b)
           x == Val(a)
           y == Val(b)
<1>1. /\ n \in Nat \ {0} /\ n \in Nat \ {0, 1} /\ n \in Nat /\ k \in Nat \ {0} /\ k \in Nat \ {0, 1}
      /\ R \in Nat /\ e \in Nat /\ m \in 0 .. R /\ R \in 0 .. e /\ 2 * k = e /\ 2 * n <= R
  OBVIOUS
<1>2. s \in Words(k) /\ Val(s) = x + y
  BY <1>1, WideSumExact
<1>3. HalvesFit(a) /\ HalvesFit(b) /\ HalvesFit(s)
  BY EvenHalves, SumHalves
<1>4. Karatsuba(a, b) = q /\ Karatsuba(s, s) = p
  <2>1. Karatsuba(a, b) = q
    BY <1>1, <1>3, KaratsubaDropIn
  <2> HIDE DEF s, k
  <2>2. Karatsuba(s, s) = p
    BY <1>1, <1>2, <1>3, KaratsubaDropIn
  <2> QED
    BY <2>1, <2>2
<1>5. NormWide(a, b, karatsuba) = Sub(Low(p, R), Ext(q, R))
  <2>1. Len(a) = n
    BY <1>1, LenOf
  <2> HIDE DEF p, q, s
  <2>2. CASE karatsuba = TRUE
    BY <1>4, <2>1, <2>2 DEF NormWide, s
  <2>3. CASE karatsuba = FALSE
    BY <2>1, <2>3 DEF NormWide, p, q, s
  <2> QED
    BY <2>2, <2>3
<1> HIDE DEF s
<1>6. p \in Words(e) /\ Val(p) = (x + y) * (x + y)
  <2> HIDE DEF k
  <2>1. p \in Words(2 * k) /\ Val(p) = Val(s) * Val(s)
    BY <1>1, <1>2, ValMul
  <2> QED
    BY <1>1, <1>2, <2>1
<1>7. Worth(Ext(q, R), R, x * y) /\ Within(x * y, Greatest(n) * Greatest(n))
  BY <1>1, WorthMul
<1>8. /\ NormFull(a, b) \in Words(R) /\ Val(NormFull(a, b)) = NormOf(x, y)
      /\ NormOf(x, y) \in Int
  BY <1>1, NormFullIs
<1>9. Within(NormOf(x, y), Greatest(R))
  <2> HIDE DEF R
  <2>1. Within(Val(NormFull(a, b)), Greatest(R))
    BY <1>1, <1>8, ValWithin
  <2> QED
    BY <1>8, <2>1
<1>10. x \in Int /\ y \in Int
  BY <1>1, ValWithin
<1> HIDE DEF p, q, R, e, k, m, x, y
<1>11. (x + y) * (x + y) \in Int /\ x * y \in Int /\ (x + y) * (x + y) - x * y = NormOf(x, y)
  <2>1. x * x \in Int /\ x * y \in Int /\ y * y \in Int
    BY <1>10
  <2>2. (x + y) * (x + y) = x * x + 2 * (x * y) + y * y
    BY <1>10
  <2> QED
    BY <2>1, <2>2 DEF NormOf
<1>12. Worth(Low(p, R), R, (x + y) * (x + y))
  <2>1. Worth(p, e, (x + y) * (x + y))
    BY <1>1, <1>6, WorthSelf
  <2> QED
    BY <1>1, <1>11, <2>1, WorthLow
<1>13. Worth(Sub(Low(p, R), Ext(q, R)), R, NormOf(x, y))
  <2>1. Worth(Sub(Low(p, R), Ext(q, R)), R, (x + y) * (x + y) - x * y)
    BY <1>1, <1>7, <1>11, <1>12, WorthAdd
  <2> QED
    BY <1>11, <2>1
<1>14. /\ Sub(Low(p, R), Ext(q, R)) \in Words(R)
       /\ Val(Sub(Low(p, R), Ext(q, R))) = NormOf(x, y)
  BY <1>1, <1>8, <1>9, <1>13, WorthExact DEF Within
<1> QED
  BY <1>5, <1>14 DEF R, x, y

(* tnorm_trits_opt (tmul_opt.v:283-331): the low half of the norm and the  *)
(* flag that it is not all of it.                                          *)
LEMMA NormOptIs ==
  ASSUME NEW K \in Nat \ {0}, NEW n, n = 2 * K, NEW a \in Words(n), NEW b \in Words(n),
         NEW karatsuba \in BOOLEAN
  PROVE  /\ NormOpt(a, b, karatsuba).n \in Words(n)
         /\ Val(NormOpt(a, b, karatsuba).n) = Residue(NormOf(Val(a), Val(b)), n)
         /\ NormOpt(a, b, karatsuba).ofit <=> ~Fits(NormOf(Val(a), Val(b)), n)
<1> DEFINE w == NormWide(a, b, karatsuba)
           R == 2 * n + 1
<1>1. R \in Nat /\ n \in 0 .. R /\ n \in Nat
  OBVIOUS
<1>2. w \in Words(R) /\ Val(w) = NormOf(Val(a), Val(b))
  BY NormWideIs
<1>3. NormOpt(a, b, karatsuba) = [n |-> Low(w, n), ofit |-> Wider(w, n)]
  BY <1>1, LenOf DEF NormOpt, Cut
<1> HIDE DEF w, R
<1> QED
  BY <1>1, <1>2, <1>3, CutExact

(* tnorm_trits (ternary_gates.v:130-167): the same, by three products, at  *)
(* any width.                                                              *)
LEMMA NormIs ==
  ASSUME NEW n \in Nat \ {0}, NEW a \in Words(n), NEW b \in Words(n)
  PROVE  /\ Norm(a, b).n \in Words(n)
         /\ Val(Norm(a, b).n) = Residue(NormOf(Val(a), Val(b)), n)
         /\ Norm(a, b).ofit <=> ~Fits(NormOf(Val(a), Val(b)), n)
<1> DEFINE w == NormFull(a, b)
           R == 2 * n + 1
<1>1. R \in Nat /\ n \in 0 .. R /\ n \in Nat
  OBVIOUS
<1>2. w \in Words(R) /\ Val(w) = NormOf(Val(a), Val(b))
  BY NormFullIs
<1>3. Norm(a, b) = [n |-> Low(w, n), ofit |-> Wider(w, n)]
  BY <1>1, LenOf DEF Norm, Cut
<1> HIDE DEF w, R
<1> QED
  BY <1>1, <1>2, <1>3, CutExact

(* The conjugate.                                                          *)
LEMMA ConjIs ==
  ASSUME NEW n \in Nat \ {0}, NEW a \in Words(n), NEW b \in Words(n)
  PROVE  LET r == Conj(a, b)
             s == Val(a) + Val(b)
         IN  /\ r.a \in Words(n) /\ Val(r.a) = Residue(s, n)
             /\ r.b \in Words(n) /\ Val(r.b) = -Val(b)
             /\ r.ofit <=> ~Fits(s, n)
<1> DEFINE m == n + 1
           w == WideSum(a, b)
<1>1. m \in Nat /\ n \in 0 .. m /\ n \in Nat
  OBVIOUS
<1>2. w \in Words(m) /\ Val(w) = Val(a) + Val(b)
  BY <1>1, WideSumExact
<1>3. Len(a) = n /\ Len(w) = m
  BY <1>1, <1>2, LenOf
<1>4. Conj(a, b) = [a |-> Low(w, n), b |-> Neg(b), ofit |-> w[n + 1] # Null]
  BY <1>3 DEF Conj
<1>5. Wider(w, n) <=> w[n + 1] # Null
  BY <1>1, <1>3 DEF Wider
<1>6. Neg(b) \in Words(n) /\ Val(Neg(b)) = -Val(b)
  BY <1>1, ValNeg
<1> HIDE DEF w, m
<1>7. /\ Low(w, n) \in Words(n) /\ Val(Low(w, n)) = Residue(Val(w), n)
      /\ Wider(w, n) <=> ~Fits(Val(w), n)
  BY <1>1, <1>2, CutExact
<1> DEFINE l  == Low(w, n)
           up == w[n + 1] # Null
           z  == Neg(b)
<1>8. l \in Words(n) /\ Val(l) = Residue(Val(a) + Val(b), n) /\ (up <=> ~Fits(Val(a) + Val(b), n))
  BY <1>2, <1>5, <1>7
<1>9. Conj(a, b) = [a |-> l, b |-> z, ofit |-> up]
  BY <1>4
<1> HIDE DEF l, up, z
<1>10. Conj(a, b).a = l /\ Conj(a, b).b = z /\ Conj(a, b).ofit = up
  BY <1>9
<1> QED
  BY <1>6, <1>8, <1>10 DEF z

-----------------------------------------------------------------------------
(* Sums of products, as far as they go.                                    *)
LEMMA GaValues ==
  ASSUME NEW s \in Nat, NEW x, NEW y, NEW z, NEW w, x \in Int, y \in Int, z \in Int, w \in Int,
         Within(x * z, s), Within(x * w, s), Within(y * z, s), Within(y * w, s)
  PROVE  /\ Within(DotOf(x, y, z, w), 3 * s) /\ DotOf(x, y, z, w) = x * z + x * w + y * w
         /\ Within(WedgeOf(x, y, z, w), 2 * s) /\ WedgeOf(x, y, z, w) = y * z - x * w
         /\ Within(SymDotOf(x, y, z, w), 6 * s)
         /\ SymDotOf(x, y, z, w) = x * z + x * z + x * w + y * z + y * w + y * w
<1>1. Within(DotOf(x, y, z, w), 3 * s) /\ DotOf(x, y, z, w) = x * z + x * w + y * w
  BY DEF DotOf, Within
<1>2. Within(WedgeOf(x, y, z, w), 2 * s) /\ WedgeOf(x, y, z, w) = y * z - x * w
  BY DEF WedgeOf, Within
<1>3. SymDotOf(x, y, z, w) = x * z + x * z + x * w + y * z + y * w + y * w
  <2>1. /\ (x + z) * (x + z) = x * x + x * z + x * z + z * z
        /\ (y + w) * (y + w) = y * y + y * w + y * w + w * w
        /\ (x + z) * (y + w) = x * y + x * w + y * z + z * w
    OBVIOUS
  <2>2. x * x \in Int /\ z * z \in Int /\ y * y \in Int /\ w * w \in Int /\ x * y \in Int
        /\ z * w \in Int
    OBVIOUS
  <2>3. x * z \in Int /\ x * w \in Int /\ y * z \in Int /\ y * w \in Int
    OBVIOUS
  <2> QED
    BY <2>1, <2>2, <2>3 DEF SymDotOf, NormOf
<1>4. Within(SymDotOf(x, y, z, w), 6 * s)
  BY <1>3 DEF Within
<1> QED
  BY <1>1, <1>2, <1>3, <1>4

(* ga_split_trits (ga_ops.v:76-115): the three scalars, exact in 2n + 2    *)
(* trits.                                                                  *)
LEMMA GaSplitIs ==
  ASSUME NEW n \in Nat \ {0},
         NEW a \in Words(n), NEW b \in Words(n), NEW c \in Words(n), NEW d \in Words(n)
  PROVE  LET g == GaSplit(a, b, c, d)
             R == 2 * n + 2
         IN  /\ g.dot \in Words(R) /\ Val(g.dot) = DotOf(Val(a), Val(b), Val(c), Val(d))
             /\ g.wedge \in Words(R) /\ Val(g.wedge) = WedgeOf(Val(a), Val(b), Val(c), Val(d))
             /\ g.symdot \in Words(R) /\ Val(g.symdot) = SymDotOf(Val(a), Val(b), Val(c), Val(d))
<1> DEFINE R == 2 * n + 2
           s == Greatest(n) * Greatest(n)
           x == Val(a)
           y == Val(b)
           z == Val(c)
           w == Val(d)
           ac == Ext(Mul(a, c), R)
           ad == Ext(Mul(a, d), R)
           bc == Ext(Mul(b, c), R)
           bd == Ext(Mul(b, d), R)
           dot == Add(Add(ac, ad), bd)
           wedge == Sub(bc, ad)
           sym == TwiceDot(ac, ad, bc, bd)
<1>1. n \in Nat /\ R \in Nat /\ 2 * n <= R
  OBVIOUS
<1>2. s \in Nat /\ Greatest(n) \in Nat /\ Greatest(R) = 18 * s + 18 * Greatest(n) + 4
  BY WidthGrowth
<1>3. /\ Worth(ac, R, x * z) /\ Within(x * z, s) /\ Worth(ad, R, x * w) /\ Within(x * w, s)
      /\ Worth(bc, R, y * z) /\ Within(y * z, s) /\ Worth(bd, R, y * w) /\ Within(y * w, s)
  BY <1>1, WorthMul
<1>4. x \in Int /\ y \in Int /\ z \in Int /\ w \in Int
  BY <1>1, ValWithin
<1>5. GaSplit(a, b, c, d) = [dot |-> dot, wedge |-> wedge, symdot |-> sym]
  BY <1>1, LenOf DEF GaSplit
<1> HIDE DEF R, s, x, y, z, w, ac, ad, bc, bd
<1>6. x * z \in Int /\ x * w \in Int /\ y * z \in Int /\ y * w \in Int
  BY <1>4
<1>7. /\ Within(DotOf(x, y, z, w), 3 * s) /\ DotOf(x, y, z, w) = x * z + x * w + y * w
      /\ Within(WedgeOf(x, y, z, w), 2 * s) /\ WedgeOf(x, y, z, w) = y * z - x * w
      /\ Within(SymDotOf(x, y, z, w), 6 * s)
      /\ SymDotOf(x, y, z, w) = x * z + x * z + x * w + y * z + y * w + y * w
  BY <1>2, <1>3, <1>4, GaValues
<1>8. Worth(dot, R, DotOf(x, y, z, w))
  <2>1. Worth(Add(ac, ad), R, x * z + x * w) /\ x * z + x * w \in Int
    BY <1>1, <1>3, <1>6, WorthAdd
  <2>2. Worth(dot, R, x * z + x * w + y * w)
    BY <1>1, <1>3, <1>6, <2>1, WorthAdd
  <2> QED
    BY <1>7, <2>2
<1>9. Worth(wedge, R, WedgeOf(x, y, z, w))
  <2>1. Worth(wedge, R, y * z - x * w)
    BY <1>1, <1>3, <1>6, WorthAdd
  <2> QED
    BY <1>7, <2>1
<1>10. Worth(sym, R, SymDotOf(x, y, z, w))
  <2> DEFINE t1 == Add(ac, ac)
             t2 == Add(t1, ad)
             t3 == Add(t2, bc)
             t4 == Add(t3, bd)
  <2>0. sym = Add(t4, bd)
    BY DEF TwiceDot
  <2>1. Worth(t1, R, x * z + x * z) /\ x * z + x * z \in Int
    BY <1>1, <1>3, <1>6, WorthAdd
  <2> HIDE DEF t1
  <2>2. Worth(t2, R, x * z + x * z + x * w) /\ x * z + x * z + x * w \in Int
    BY <1>1, <1>3, <1>6, <2>1, WorthAdd
  <2> HIDE DEF t2
  <2>3. Worth(t3, R, x * z + x * z + x * w + y * z) /\ x * z + x * z + x * w + y * z \in Int
    BY <1>1, <1>3, <1>6, <2>2, WorthAdd
  <2> HIDE DEF t3
  <2>4. Worth(t4, R, x * z + x * z + x * w + y * z + y * w)
        /\ x * z + x * z + x * w + y * z + y * w \in Int
    BY <1>1, <1>3, <1>6, <2>3, WorthAdd
  <2> HIDE DEF t4
  <2>5. Worth(Add(t4, bd), R, x * z + x * z + x * w + y * z + y * w + y * w)
    BY <1>1, <1>3, <1>6, <2>4, WorthAdd
  <2> QED
    BY <1>7, <2>0, <2>5
<1> HIDE DEF dot, wedge, sym
<1>11. ASSUME NEW v, Within(v, 6 * s), NEW t, Worth(t, R, v) PROVE t \in Words(R) /\ Val(t) = v
  <2>1. v \in Int /\ -Greatest(R) <= v /\ v <= Greatest(R)
    BY <1>2, <1>11 DEF Within
  <2> QED
    BY <1>1, <1>11, <2>1, WorthExact
<1>12. Within(DotOf(x, y, z, w), 6 * s) /\ Within(WedgeOf(x, y, z, w), 6 * s)
  BY <1>2, <1>7 DEF Within
<1>13. /\ dot \in Words(R) /\ Val(dot) = DotOf(x, y, z, w)
       /\ wedge \in Words(R) /\ Val(wedge) = WedgeOf(x, y, z, w)
       /\ sym \in Words(R) /\ Val(sym) = SymDotOf(x, y, z, w)
  BY <1>7, <1>8, <1>9, <1>10, <1>11, <1>12
<1> QED
  BY <1>5, <1>13 DEF R, x, y, z, w

(* The cells of one scalar each (ga_ops.v:196-269), exact in 2n + 1 trits; *)
(* tsymdot by the polarised norm.                                          *)
LEMMA GaCellsAre ==
  ASSUME NEW n \in Nat \ {0},
         NEW a \in Words(n), NEW b \in Words(n), NEW c \in Words(n), NEW d \in Words(n)
  PROVE  LET R == 2 * n + 1
         IN  /\ TDot(a, b, c, d) \in Words(R)
             /\ Val(TDot(a, b, c, d)) = DotOf(Val(a), Val(b), Val(c), Val(d))
             /\ TWedge(a, b, c, d) \in Words(R)
             /\ Val(TWedge(a, b, c, d)) = WedgeOf(Val(a), Val(b), Val(c), Val(d))
             /\ TSymDot(a, b, c, d) \in Words(R)
             /\ Val(TSymDot(a, b, c, d)) = SymDotOf(Val(a), Val(b), Val(c), Val(d))
<1> DEFINE R == 2 * n + 1
           k == n + 1
           e == 2 * n + 3
           s == Greatest(n) * Greatest(n)
           x == Val(a)
           y == Val(b)
           z == Val(c)
           w == Val(d)
           ac == Ext(Mul(a, c), R)
           ad == Ext(Mul(a, d), R)
           bc == Ext(Mul(b, c), R)
           bd == Ext(Mul(b, d), R)
           dot == Add(Add(ac, ad), bd)
           wedge == Sub(bc, ad)
           s1 == WideSum(a, c)
           s2 == WideSum(b, d)
           f0 == NormFull(s1, s2)
           f1 == NormFull(a, b)
           f2 == NormFull(c, d)
           full == Sub(Sub(f0, Ext(f1, e)), Ext(f2, e))
<1>1. n \in Nat /\ R \in Nat /\ 2 * n <= R /\ k \in Nat \ {0} /\ e = 2 * k + 1 /\ e \in Nat
      /\ R \in 0 .. e /\ R + 2 = e
  OBVIOUS
<1>2. s \in Nat /\ Greatest(n) \in Nat /\ Greatest(R) = 6 * s + 6 * Greatest(n) + 1
  BY WidthGrowth
<1>3. /\ Worth(ac, R, x * z) /\ Within(x * z, s) /\ Worth(ad, R, x * w) /\ Within(x * w, s)
      /\ Worth(bc, R, y * z) /\ Within(y * z, s) /\ Worth(bd, R, y * w) /\ Within(y * w, s)
  BY <1>1, WorthMul
<1>4. x \in Int /\ y \in Int /\ z \in Int /\ w \in Int
  BY <1>1, ValWithin
<1>5. Len(a) = n
  BY <1>1, LenOf
<1>6. TDot(a, b, c, d) = dot /\ TWedge(a, b, c, d) = wedge
  BY <1>5 DEF TDot, TWedge
<1>7. TSymDot(a, b, c, d) = Low(full, R)
  <2> HIDE DEF s1, s2
  <2>1. TSymDot(a, b, c, d) = Low(Sub(Sub(f0, Ext(f1, R + 2)), Ext(f2, R + 2)), R)
    BY <1>5 DEF TSymDot, s1, s2
  <2> QED
    BY <1>1, <2>1
<1>8. s1 \in Words(k) /\ Val(s1) = x + z /\ s2 \in Words(k) /\ Val(s2) = y + w
  BY <1>1, WideSumExact
<1>9. /\ f1 \in Words(R) /\ Val(f1) = NormOf(x, y) /\ NormOf(x, y) \in Int
      /\ f2 \in Words(R) /\ Val(f2) = NormOf(z, w) /\ NormOf(z, w) \in Int
  BY NormFullIs
<1> HIDE DEF R, k, s, x, y, z, w, ac, ad, bc, bd, s1, s2, e
<1>10. f0 \in Words(e) /\ Val(f0) = NormOf(x + z, y + w) /\ NormOf(x + z, y + w) \in Int
  BY <1>1, <1>8, NormFullIs
<1> HIDE DEF f0, f1, f2
<1>11. x * z \in Int /\ x * w \in Int /\ y * z \in Int /\ y * w \in Int
  BY <1>4
<1>12. /\ Within(DotOf(x, y, z, w), 3 * s) /\ DotOf(x, y, z, w) = x * z + x * w + y * w
       /\ Within(WedgeOf(x, y, z, w), 2 * s) /\ WedgeOf(x, y, z, w) = y * z - x * w
       /\ Within(SymDotOf(x, y, z, w), 6 * s)
  BY <1>2, <1>3, <1>4, GaValues
<1>13. Worth(dot, R, DotOf(x, y, z, w))
  <2>1. Worth(Add(ac, ad), R, x * z + x * w) /\ x * z + x * w \in Int
    BY <1>1, <1>3, <1>11, WorthAdd
  <2>2. Worth(dot, R, x * z + x * w + y * w)
    BY <1>1, <1>3, <1>11, <2>1, WorthAdd
  <2> QED
    BY <1>12, <2>2
<1>14. Worth(wedge, R, WedgeOf(x, y, z, w))
  <2>1. Worth(wedge, R, y * z - x * w)
    BY <1>1, <1>3, <1>11, WorthAdd
  <2> QED
    BY <1>12, <2>1
<1>15. Worth(Low(full, R), R, SymDotOf(x, y, z, w)) /\ SymDotOf(x, y, z, w) \in Int
  <2> DEFINE v0 == NormOf(x + z, y + w)
             v1 == NormOf(x, y)
             v2 == NormOf(z, w)
  <2>1. Worth(f0, e, v0)
    BY <1>1, <1>10, WorthSelf
  <2>2. Worth(Ext(f1, e), e, v1) /\ Worth(Ext(f2, e), e, v2)
    BY <1>1, <1>9, WorthExt
  <2>3. v0 \in Int /\ v1 \in Int /\ v2 \in Int /\ v0 - v1 \in Int /\ v0 - v1 - v2 \in Int
        /\ SymDotOf(x, y, z, w) = v0 - v1 - v2
    BY <1>9, <1>10 DEF SymDotOf
  <2> HIDE DEF v0, v1, v2
  <2>4. Worth(Sub(f0, Ext(f1, e)), e, v0 - v1)
    BY <1>1, <2>1, <2>2, <2>3, WorthAdd
  <2>5. Worth(full, e, v0 - v1 - v2)
    BY <1>1, <2>2, <2>3, <2>4, WorthAdd
  <2> HIDE DEF full
  <2>6. Worth(Low(full, R), R, v0 - v1 - v2)
    BY <1>1, <2>3, <2>5, WorthLow
  <2> QED
    BY <2>3, <2>6
<1> HIDE DEF dot, wedge, full
<1>16. ASSUME NEW v, Within(v, 6 * s), NEW t, Worth(t, R, v) PROVE t \in Words(R) /\ Val(t) = v
  <2>1. v \in Int /\ -Greatest(R) <= v /\ v <= Greatest(R)
    BY <1>2, <1>16 DEF Within
  <2> QED
    BY <1>1, <1>16, <2>1, WorthExact
<1>17. Within(DotOf(x, y, z, w), 6 * s) /\ Within(WedgeOf(x, y, z, w), 6 * s)
  BY <1>2, <1>12 DEF Within
<1>18. /\ dot \in Words(R) /\ Val(dot) = DotOf(x, y, z, w)
       /\ wedge \in Words(R) /\ Val(wedge) = WedgeOf(x, y, z, w)
       /\ Low(full, R) \in Words(R) /\ Val(Low(full, R)) = SymDotOf(x, y, z, w)
  BY <1>12, <1>13, <1>14, <1>15, <1>16, <1>17
<1> QED
  BY <1>6, <1>7, <1>18 DEF R, x, y, z, w

(* A word that is its own low half.                                        *)
LEMMA WordFits ==
  ASSUME NEW n \in Nat, NEW w \in Words(n)
  PROVE  Residue(Val(w), n) = Val(w) /\ Fits(Val(w), n)
<1>1. Worth(w, n, Val(w)) /\ Val(w) \in Int
  BY WorthSelf, ValWithin
<1> QED
  BY <1>1, WorthResidue

(* tadd_trits and its carry out (ternary_gates.v:68-87).                   *)
LEMMA RippleExact ==
  ASSUME NEW n \in Nat, NEW a \in Words(n), NEW b \in Words(n), NEW v, v = Val(a) + Val(b)
  PROVE  /\ v \in Int /\ Worth(Ripple(a, b).sum, n, v)
         /\ Ripple(a, b).sum \in Words(n) /\ Val(Ripple(a, b).sum) = Residue(v, n)
         /\ Ripple(a, b).carry # Null <=> ~Fits(v, n)
<1> DEFINE s == Ripple(a, b).sum
           e == Digit(Ripple(a, b).carry)
           p == Pow3[n]
<1>1. s \in Words(n) /\ Ripple(a, b).carry \in Balanced /\ Val(s) + e * p = v
  BY ValRipple
<1>2. e \in {-1, 0, 1} /\ (Ripple(a, b).carry = Null <=> e = 0)
  BY <1>1, DigitIs
<1>3. Val(s) \in Int /\ p \in Nat /\ p >= 1 /\ v \in Int
  <2>1. Val(s) \in Int /\ Val(a) \in Int /\ Val(b) \in Int
    BY <1>1, ValWithin
  <2>2. p \in Nat /\ p >= 1
    BY PowFacts
  <2> QED
    BY <2>1, <2>2
<1>4. Worth(s, n, v)
  <2>1. Worth(a, n, Val(a)) /\ Worth(b, n, Val(b)) /\ Val(a) \in Int /\ Val(b) \in Int
    BY WorthSelf, ValWithin
  <2> QED
    BY <2>1, WorthAdd DEF Add
<1>5. Val(s) = Residue(v, n) /\ (Fits(v, n) <=> Val(s) = v)
  BY <1>3, <1>4, WorthResidue
<1> HIDE DEF s, e, p
<1>6. Val(s) = v <=> e = 0
  <2>1. CASE e = 0
    BY <1>1, <1>3, <2>1
  <2>2. CASE e = 1
    BY <1>1, <1>3, <2>2
  <2>3. CASE e = -1
    BY <1>1, <1>3, <2>3
  <2> QED
    BY <1>2, <2>1, <2>2, <2>3
<1>7. Ripple(a, b).carry # Null <=> ~Fits(v, n)
  BY <1>2, <1>5, <1>6
<1> QED
  BY <1>1, <1>3, <1>4, <1>5, <1>7 DEF s
=============================================================================
