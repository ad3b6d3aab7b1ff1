--------------------------- MODULE XlatticeProofs ---------------------------
(***************************************************************************)
(* The emulator of scripts/xlattice.py, for every set of registers,        *)
(* instructions, words and host values and any number of steps.            *)
(*                                                                         *)
(* The bridge between its integers and the trits of the RTL is             *)
(* EncodeExact: encode_field gives n trits worth the integer, modulo 3^n.  *)
(* A cell worth the same integer therefore has the same trits (WorthSame), *)
(* whatever carries either of them dropped, and its flag is up exactly     *)
(* when the integer does not fit.                                          *)
(***************************************************************************)
EXTENDS Xlattice, TritsProofs, FiniteSetTheorems

-----------------------------------------------------------------------------
(* Encoding and decoding.                                                  *)

(* The quotients encode_field goes through.                                *)
Quotients(v, n, f) == [i \in 0 .. n |-> IF i = 0 THEN v ELSE (f[i - 1] + 1) \div 3]

(* encode_field by its quotients.                                          *)
LEMMA EncodeIs ==
  ASSUME NEW n \in Nat, NEW v \in Int
  PROVE  \E f \in [0 .. n -> Int] :
           /\ f[0] = v /\ \A i \in 1 .. n : f[i] = (f[i - 1] + 1) \div 3
           /\ encode_field(v, n) = [i \in 1 .. n |-> f[i - 1] % 3]
<1> DEFINE g == [p \in (1 .. n) \X Int |-> (p[2] + 1) \div 3]
           r == CHOOSE f : f = Quotients(v, n, f)
<1>1. Recurses(n, Int, v, g)
  <2>1. g \in [(1 .. n) \X Int -> Int]
    OBVIOUS
  <2> HIDE DEF g
  <2> QED
    BY <2>1, Recursion
<1>2. PICK f \in [0 .. n -> Int] : f[0] = v /\ \A i \in 1 .. n : f[i] = g[<<i, f[i - 1]>>]
  BY <1>1 DEF Recurses
<1>3. \A i \in 1 .. n : f[i - 1] \in Int /\ f[i] = (f[i - 1] + 1) \div 3
  <2> TAKE i \in 1 .. n
  <2>1. f[i - 1] \in Int
    OBVIOUS
  <2>2. f[i] = g[<<i, f[i - 1]>>] /\ <<i, f[i - 1]>> \in (1 .. n) \X Int
    BY <1>2, <2>1
  <2> QED
    BY <2>1, <2>2
<1>4. f = Quotients(v, n, f)
  BY <1>2, <1>3 DEF Quotients
<1>5. r = Quotients(v, n, r)
  BY <1>4
<1>6. encode_field(v, n) = [i \in 1 .. n |-> r[i - 1] % 3]
  BY Zenon DEF encode_field, Quotients
<1> HIDE DEF r
<1>7. r[0] = v /\ \A i \in 1 .. n : r[i] = (r[i - 1] + 1) \div 3
  <2>1. \A i \in 0 .. n : r[i] = IF i = 0 THEN v ELSE (r[i - 1] + 1) \div 3
    <3> DEFINE B(i) == IF i = 0 THEN v ELSE (r[i - 1] + 1) \div 3
    <3>1. r = [i \in 0 .. n |-> B(i)]
      BY <1>5 DEF Quotients
    <3> HIDE DEF B
    <3>2. \A i \in 0 .. n : r[i] = B(i)
      BY <3>1
    <3> QED
      BY <3>2 DEF B
  <2> QED
    BY <2>1
<1>8. \A i \in 0 .. n : r[i] = f[i]
  <2>1. r[0] = f[0] /\ \A i \in 1 .. n : r[i - 1] = f[i - 1] => r[i] = f[i]
    BY <1>2, <1>3, <1>7
  <2> QED
    BY <2>1, Unique
<1>9. encode_field(v, n) = [i \in 1 .. n |-> f[i - 1] % 3]
  BY <1>6, <1>8
<1> QED
  BY <1>2, <1>3, <1>9

(* One turn of its loop: the remainder is a trit, and trit and quotient    *)
(* make up the integer.                                                    *)
LEMMA EncodeTurn ==
  ASSUME NEW v \in Int
  PROVE  /\ v % 3 \in Balanced /\ (v + 1) \div 3 \in Int
         /\ Digit(v % 3) + 3 * ((v + 1) \div 3) = v
<1> DEFINE m == v % 3
           q == v \div 3
           e == (v + 1) \div 3
<1>1. m \in {0, 1, 2} /\ v = 3 * q + m /\ q \in Int
  OBVIOUS
<1>2. \A s \in Int : 3 * s <= v + 1 /\ v + 1 < 3 * s + 3 => e = s
  OBVIOUS
<1> HIDE DEF m, q, e
<1>3. e = IF m = 2 THEN q + 1 ELSE q
  <2>1. CASE m = 2
    <3>1. q + 1 \in Int /\ 3 * (q + 1) <= v + 1 /\ v + 1 < 3 * (q + 1) + 3
      BY <1>1, <2>1
    <3> QED
      BY <1>2, <2>1, <3>1
  <2>2. CASE m # 2
    <3>1. 3 * q <= v + 1 /\ v + 1 < 3 * q + 3
      BY <1>1, <2>2
    <3> QED
      BY <1>1, <1>2, <2>2, <3>1
  <2> QED
    BY <2>1, <2>2
<1>4. Digit(m) = IF m = 1 THEN 1 ELSE IF m = 2 THEN -1 ELSE 0
  BY DEF Digit, Plus, Minus
<1>5. m \in Balanced /\ e \in Int /\ Digit(m) + 3 * e = v
  BY <1>1, <1>3, <1>4 DEF Balanced, Null, Minus
<1> QED
  BY <1>5 DEF m, e

(* encode_field (xlattice_encoding.md 1.1): n trits, worth the integer.    *)
LEMMA EncodeExact ==
  ASSUME NEW n \in Nat, NEW v \in Int
  PROVE  encode_field(v, n) \in Words(n) /\ Worth(encode_field(v, n), n, v)
<1>1. PICK f \in [0 .. n -> Int] :
        /\ f[0] = v /\ \A i \in 1 .. n : f[i] = (f[i - 1] + 1) \div 3
        /\ encode_field(v, n) = [i \in 1 .. n |-> f[i - 1] % 3]
  BY EncodeIs
<1> DEFINE w == encode_field(v, n)
<1>2. \A i \in 1 .. n : /\ f[i - 1] \in Int /\ f[i] \in Int /\ w[i] = f[i - 1] % 3
                        /\ w[i] \in Balanced /\ Digit(w[i]) + 3 * f[i] = f[i - 1]
  <2> TAKE i \in 1 .. n
  <2>1. f[i - 1] \in Int /\ f[i] \in Int
    OBVIOUS
  <2>2. w[i] = f[i - 1] % 3 /\ f[i] = (f[i - 1] + 1) \div 3
    BY <1>1
  <2> QED
    BY <2>1, <2>2, EncodeTurn
<1>3. w \in Words(n)
  <2>1. w = [i \in 1 .. n |-> f[i - 1] % 3]
    BY <1>1
  <2>2. \A i \in 1 .. n : f[i - 1] % 3 \in Balanced
    BY <1>2
  <2> QED
    BY <2>1, <2>2 DEF Words
<1> HIDE DEF w
<1> DEFINE Sum(i) == Val(Low(w, i)) + Pow3[i] * f[i] = v
           T == {i \in 0 .. n : Sum(i)}
<1>4. Sum(0)
  <2>1. Val(Low(w, 0)) = 0 /\ Pow3[0] = 1 /\ f[0] = v
    BY <1>1, <1>3, LowUp, PowIs
  <2> QED
    BY <2>1
<1>5. ASSUME NEW i \in 1 .. n, Sum(i - 1) PROVE Sum(i)
  <2> DEFINE k == i - 1
  <2>1. /\ Val(Low(w, k)) \in Int /\ Val(Low(w, i)) = Val(Low(w, k)) + Digit(w[i]) * Pow3[k]
        /\ Pow3[k] \in Nat /\ Pow3[i] = 3 * Pow3[k]
    BY <1>3, LowStep
  <2>2. f[k] \in Int /\ f[i] \in Int /\ Digit(w[i]) + 3 * f[i] = f[k] /\ Digit(w[i]) \in Int
    <3>1. Digit(w[i]) \in {-1, 0, 1}
      BY <1>2, DigitIs
    <3> QED
      BY <1>2, <3>1
  <2>3. Val(Low(w, k)) + Pow3[k] * f[k] = v
    BY <1>5
  <2>4. \A V, d, P, s, t \in Int : d + 3 * s = t => V + d * P + (3 * P) * s = V + P * t
    OBVIOUS
  <2> DEFINE V == Val(Low(w, k))
             d == Digit(w[i])
             P == Pow3[k]
  <2>5. V + d * P + (3 * P) * f[i] = V + P * f[k]
    <3>1. V \in Int /\ d \in Int /\ P \in Int /\ f[i] \in Int /\ f[k] \in Int /\ d + 3 * f[i] = f[k]
      BY <2>1, <2>2
    <3> HIDE DEF V, d, P, k
    <3> QED
      BY <2>4, <3>1
  <2> QED
    BY <2>1, <2>3, <2>5
<1>6. Sum(n)
  <2>1. 0 \in 0 .. n /\ n \in 0 .. n
    OBVIOUS
  <2> HIDE DEF Sum
  <2>2. 0 \in T /\ \A i \in 1 .. n : i - 1 \in T => i \in T
    BY <1>4, <1>5, <2>1
  <2>3. \A i \in 0 .. n : i \in T
    <3> HIDE DEF T
    <3> QED
      BY <2>2, Climb
  <2> QED
    BY <2>1, <2>3
<1>7. Val(w) = v + (-f[n]) * Pow3[n] /\ -f[n] \in Int
  <2>1. Low(w, n) = w /\ Val(w) \in Int /\ Pow3[n] \in Int /\ f[n] \in Int
    BY <1>3, LowUp, ValBound, PowNat
  <2>2. \A V, P, t \in Int : V + P * t = v => V = v + (-t) * P
    OBVIOUS
  <2> QED
    BY <1>6, <2>1, <2>2
<1> QED
  BY <1>3, <1>7 DEF Worth, w

(* An integer within the range of n trits comes back from them, and a word *)
(* without an 11 comes back from its integer.                              *)
LEMMA EncodeDecode ==
  ASSUME NEW n \in Nat
  PROVE  /\ \A v \in Int : -Greatest(n) <= v /\ v <= Greatest(n)
                          => decode_field(encode_field(v, n)) = v
         /\ \A w \in Words(n) : Val(w) \in Int /\ encode_field(decode_field(w), n) = w
<1>1. ASSUME NEW v \in Int, -Greatest(n) <= v, v <= Greatest(n)
      PROVE  decode_field(encode_field(v, n)) = v
  BY <1>1, EncodeExact, WorthExact DEF decode_field
<1>2. ASSUME NEW w \in Words(n)
      PROVE  Val(w) \in Int /\ encode_field(decode_field(w), n) = w
  <2>1. Val(w) \in Int /\ Worth(w, n, Val(w))
    BY ValWithin, WorthSelf
  <2>2. Worth(encode_field(Val(w), n), n, Val(w))
    BY <2>1, EncodeExact
  <2> QED
    BY <2>1, <2>2, WorthSame DEF decode_field
<1> QED
  BY <1>1, <1>2

(* fits6 is the fit check of the cells.                                    *)
LEMMA FitsSix ==
  ASSUME NEW v \in Int
  PROVE  fits6(v) <=> Fits(v, 6)
<1>1. Greatest(6) = 364 /\ Pow3[6] = 729
  BY GreatestIs, PowFacts
<1>2. Fits(v, 6) <=> ((v + 364) % 729) - 364 = v
  BY <1>1 DEF Fits, Residue
<1>3. ((v + 364) % 729) - 364 = v <=> v + 364 \in 0 .. 728
  OBVIOUS
<1> QED
  BY <1>2, <1>3 DEF fits6

-----------------------------------------------------------------------------
(* Registers and their fields.                                             *)

(* A sum and a part of a word, with names: the provers match names.        *)
SumIs(k, m, n) == k = m + n
Part(w, i, j)  == SubSeq(w, i, j)

(* The two parts of a word put together.                                   *)
LEMMA JoinParts ==
  ASSUME NEW X, NEW m \in Nat \ {0}, NEW n \in Nat \ {0},
         NEW u \in WordOf(m, X), NEW v \in WordOf(n, X),
         NEW k, SumIs(k, m, n), NEW l, SumIs(l, m, 1)
  PROVE  u \o v \in WordOf(k, X) /\ Part(u \o v, 1, m) = u /\ Part(u \o v, l, k) = v
<1>0. k = m + n /\ l = m + 1
  BY DEF SumIs
<1>1. u \in Seq(X) /\ v \in Seq(X) /\ Len(u) = m /\ Len(v) = n
  BY WordLen
<1>2. SubSeq(u \o v, 1, m) = SubSeq(u, 1, m)
  <2>1. 1 \in 1 .. Len(u) /\ m \in 1 .. Len(u)
    BY <1>1
  <2> QED
    BY <1>1, <2>1, SubSeqOfConcat1
<1>3. SubSeq(u \o v, l, k) = SubSeq(v, 1, n)
  <2>1. /\ l \in Len(u) + 1 .. Len(u) + Len(v) /\ k \in Len(u) + 1 .. Len(u) + Len(v)
        /\ l - Len(u) = 1 /\ k - Len(u) = n
    BY <1>0, <1>1
  <2>2. SubSeq(u \o v, l, k) = SubSeq(v, l - Len(u), k - Len(u))
    BY <1>1, <2>1, SubSeqOfConcat2
  <2> QED
    BY <2>1, <2>2
<1>4. SubSeq(u, 1, m) = u /\ SubSeq(v, 1, n) = v
  BY <1>1, SubSeqFull
<1>5. u \o v \in WordOf(k, X)
  BY <1>0, JoinWord
<1> QED
  BY <1>2, <1>3, <1>4, <1>5 DEF Part

(* A part of a word.                                                       *)
LEMMA PartWord ==
  ASSUME NEW X, NEW n \in Nat, NEW w \in WordOf(n, X), NEW i \in 1 .. n, NEW j \in i .. n,
         NEW k, k = j - i + 1
  PROVE  SubSeq(w, i, j) \in WordOf(k, X)
<1>1. \A l \in i .. j : w[l] \in X
  BY WordLen
<1>2. SubSeq(w, i, j) \in Seq(X) /\ Len(SubSeq(w, i, j)) = k /\ k \in Nat
  BY <1>1, SubSeqProperties
<1> DEFINE u == SubSeq(w, i, j)
<1> HIDE DEF u
<1>3. u \in WordOf(k, X)
  BY <1>2, SeqWord DEF u
<1> QED
  BY <1>3 DEF u

(* The lengths of a point, its padding and a register.                     *)
LEMMA WordLens ==
  ASSUME NEW w
  PROVE  /\ w \in WordOf(4, Trit) => w \in Seq(Trit) /\ Len(w) = 4
         /\ w \in WordOf(12, Trit) => w \in Seq(Trit) /\ Len(w) = 12
         /\ w \in WordOf(16, Trit) => w \in Seq(Trit) /\ Len(w) = 16
<1>1. ASSUME NEW n \in Nat, w \in WordOf(n, Trit) PROVE w \in Seq(Trit) /\ Len(w) = n
  BY <1>1, WordLen
<1>2. 4 \in Nat /\ 12 \in Nat /\ 16 \in Nat
  OBVIOUS
<1> QED
  BY <1>1, <1>2

(* The fields of a register.                                               *)
LEMMA RegisterParts ==
  ASSUME NEW w \in Register
  PROVE  /\ w \in WordOf(16, Trit)
         /\ AField(w) \in WordOf(6, Trit) /\ BField(w) \in WordOf(6, Trit)
         /\ SubSeq(w, 1, 8) \in WordOf(8, Trit) /\ SubSeq(w, 9, 16) \in WordOf(8, Trit)
         /\ SubSeq(w, 1, 8) \o SubSeq(w, 9, 16) = w
<1>1. w \in WordOf(16, Trit)
  BY DEF Register, WordOf
<1>2. /\ AField(w) \in WordOf(6, Trit) /\ BField(w) \in WordOf(6, Trit)
      /\ SubSeq(w, 1, 8) \in WordOf(8, Trit) /\ SubSeq(w, 9, 16) \in WordOf(8, Trit)
  BY <1>1, PartWord DEF AField, BField
<1>3. SubSeq(w, 1, 8) \o SubSeq(w, 8 + 1, 16) = SubSeq(w, 1, 16) /\ SubSeq(w, 1, 16) = w
  <2>1. w \in Seq(Trit) /\ Len(w) = 16
    BY <1>1, WordLens
  <2>2. SubSeq(w, 1, Len(w)) = w
    BY <2>1, SubSeqFull
  <2>3. 1 \in 1 .. Len(w) + 1 /\ 8 \in 1 - 1 .. Len(w) /\ 16 \in 8 .. Len(w)
    BY <2>1
  <2>4. SubSeq(w, 1, 8) \o SubSeq(w, 8 + 1, 16) = SubSeq(w, 1, 16)
    BY <2>1, <2>3, ConcatAdjacentSubSeq
  <2> QED
    BY <2>1, <2>2, <2>4
<1> QED
  BY <1>1, <1>2, <1>3

(* A word of four codes without an 11.                                     *)
LEMMA NoCanary ==
  ASSUME NEW n \in Nat, NEW w \in WordOf(n, Trit), ~HasNever(w)
  PROVE  w \in Words(n)
<1>1. \A i \in 1 .. n : w[i] \in Balanced
  <2>1. DOMAIN w = 1 .. n /\ \A i \in 1 .. n : w[i] \in Trit
    BY WordLen
  <2> QED
    BY <2>1 DEF HasNever, Trit, Balanced, Null, Minus, Never
<1> QED
  BY <1>1 DEF WordOf, Words

(* What encode_word and encode_pair leave in a register.                   *)
LEMMA EncodedWord ==
  ASSUME NEW p \in Int, NEW q \in Int
  PROVE  /\ encode_word(<<p, q>>) \in Register
         /\ AField(encode_word(<<p, q>>)) = encode_field(p, 6)
         /\ BField(encode_word(<<p, q>>)) = encode_field(q, 6)
         /\ encode_word(<<p, q>>) = Ext(encode_field(p, 6) \o encode_field(q, 6), 16)
<1> DEFINE a == encode_field(p, 6)
           b == encode_field(q, 6)
           n == Nulls(4)
           w == a \o b
<1>1. a \in WordOf(6, Trit) /\ b \in WordOf(6, Trit) /\ n \in WordOf(4, Trit)
  <2>1. a \in Words(6) /\ b \in Words(6)
    BY EncodeExact
  <2>2. n \in WordOf(4, Trit)
    BY NullsWord
  <2> HIDE DEF a, b, n
  <2> QED
    BY <2>1, <2>2 DEF Words, WordOf, Trit, Balanced, Null, Minus, Never
<1>2. encode_word(<<p, q>>) = w \o n
  BY DEF encode_word
<1> HIDE DEF a, b, n
<1>3. w \in WordOf(12, Trit) /\ Part(w, 1, 6) = a /\ Part(w, 7, 12) = b
  <2>1. SumIs(12, 6, 6) /\ SumIs(7, 6, 1)
    BY DEF SumIs
  <2> QED
    BY <1>1, <2>1, JoinParts
<1> HIDE DEF w
<1>4. w \o n \in WordOf(16, Trit) /\ Part(w \o n, 13, 16) = n
  <2>1. SumIs(16, 12, 4) /\ SumIs(13, 12, 1)
    BY DEF SumIs
  <2> QED
    BY <1>1, <1>3, <2>1, JoinParts
<1>5. SubSeq(w \o n, 1, 6) = a /\ SubSeq(w \o n, 7, 12) = b
  <2>1. w \in Seq(Trit) /\ n \in Seq(Trit) /\ Len(w) = 12 /\ Len(n) = 4
    <3>1. w \in Seq(Trit) /\ Len(w) = 12
      BY <1>3, WordLens
    <3>2. n \in Seq(Trit) /\ Len(n) = 4
      BY <1>1, WordLens
    <3> QED
      BY <3>1, <3>2
  <2>2. 1 \in 1 .. Len(w) /\ 6 \in 1 .. Len(w) /\ 7 \in 1 .. Len(w) /\ 12 \in 1 .. Len(w)
    BY <2>1
  <2>3. SubSeq(w \o n, 1, 6) = SubSeq(w, 1, 6) /\ SubSeq(w \o n, 7, 12) = SubSeq(w, 7, 12)
    BY <2>1, <2>2, SubSeqOfConcat1
  <2> QED
    BY <1>3, <2>3 DEF Part
<1>6. Ext(w, 16) = w \o n
  <2>1. Len(w) = 12
    BY <1>3, WordLens
  <2> QED
    BY <2>1 DEF Ext, n
<1> QED
  BY <1>2, <1>4, <1>5, <1>6 DEF Register, WordOf, AField, BField, a, b, w

LEMMA EncodedPair ==
  ASSUME NEW p \in Int, NEW q \in Int
  PROVE  /\ encode_pair(<<p, q>>) \in Register
         /\ decode_pair(encode_pair(<<p, q>>))
              = <<decode_field(encode_field(p, 8)), decode_field(encode_field(q, 8))>>
<1> DEFINE a == encode_field(p, 8)
           b == encode_field(q, 8)
<1>1. a \in WordOf(8, Trit) /\ b \in WordOf(8, Trit)
  <2>1. a \in Words(8) /\ b \in Words(8)
    BY EncodeExact
  <2> HIDE DEF a, b
  <2> QED
    BY <2>1 DEF Words, WordOf, Trit, Balanced, Null, Minus, Never
<1>2. encode_pair(<<p, q>>) = a \o b
  BY DEF encode_pair
<1> HIDE DEF a, b
<1>3. a \o b \in WordOf(16, Trit) /\ Part(a \o b, 1, 8) = a /\ Part(a \o b, 9, 16) = b
  <2>1. SumIs(16, 8, 8) /\ SumIs(9, 8, 1)
    BY DEF SumIs
  <2> QED
    BY <1>1, <2>1, JoinParts
<1> QED
  BY <1>2, <1>3 DEF Register, WordOf, decode_pair, Part, a, b

-----------------------------------------------------------------------------
(* The cells of the RTL against the integers.                              *)

(* The result r of the cells has the trits of the point z encoded, and its *)
(* flag is up exactly when a coefficient of z does not fit.                *)
Mirrors(r, z) ==
  /\ Ext(r.rd, 16) = encode_word(z)
  /\ r.ovf <=> ~fits6(z[1]) \/ ~fits6(z[2])

(* Two words worth the coefficients of a point.                            *)
LEMMA PointMirrors ==
  ASSUME NEW p \in Int, NEW q \in Int, NEW u, NEW v, NEW f, Worth(u, 6, p), Worth(v, 6, q),
         f <=> ~Fits(p, 6) \/ ~Fits(q, 6)
  PROVE  Mirrors(Point6(u, v, f), <<p, q>>)
<1>1. u = encode_field(p, 6) /\ v = encode_field(q, 6)
  BY EncodeExact, WorthSame
<1> DEFINE r == Point6(u, v, f)
           z == <<p, q>>
<1>2. r.rd = u \o v /\ (r.ovf <=> f)
  BY DEF Point6
<1>3. z[1] = p /\ z[2] = q
  OBVIOUS
<1>4. Ext(r.rd, 16) = encode_word(z)
  BY <1>1, <1>2, EncodedWord
<1> HIDE DEF r, z
<1>5. r.ovf <=> ~fits6(z[1]) \/ ~fits6(z[2])
  BY <1>2, <1>3, FitsSix
<1> QED
  BY <1>4, <1>5 DEF Mirrors, r, z

(* A word of any width cut to six trits, and nothing in the b-field.       *)
LEMMA CutWorth ==
  ASSUME NEW m \in Nat, 6 <= m, NEW w \in Words(m), NEW v, v = Val(w)
  PROVE  v \in Int /\ Worth(Low(w, 6), 6, v) /\ (Wider(w, 6) <=> ~Fits(v, 6))
<1>1. v \in Int /\ Worth(w, m, v)
  BY ValWithin, WorthSelf
<1> QED
  BY <1>1, CutExact, WorthLow

LEMMA NothingWorth == Worth(Nulls(6), 6, 0) /\ Fits(0, 6)
<1>1. Nulls(6) \in Words(6) /\ Val(Nulls(6)) = 0
  BY ValNulls
<1> QED
  BY <1>1, WorthSelf, WordFits

LEMMA ScalarMirrors ==
  ASSUME NEW m \in Nat, 6 <= m, NEW w \in Words(m), NEW v, v = Val(w)
  PROVE  Mirrors(Scalar6(w), <<v, 0>>)
<1>1. v \in Int /\ Worth(Low(w, 6), 6, v) /\ (Wider(w, 6) <=> ~Fits(v, 6))
  BY CutWorth
<1> QED
  BY <1>1, NothingWorth, PointMirrors DEF Scalar6

(* TADD, and with the second point negated TSUB.                           *)
LEMMA AddMirrors ==
  ASSUME NEW a \in Words(6), NEW b \in Words(6), NEW c \in Words(6), NEW d \in Words(6),
         NEW p, p = Val(a) + Val(c), NEW q, q = Val(b) + Val(d)
  PROVE  Mirrors(Point6(Ripple(a, c).sum, Ripple(b, d).sum,
                        Ripple(a, c).carry # Null \/ Ripple(b, d).carry # Null), <<p, q>>)
<1>1. /\ p \in Int /\ Worth(Ripple(a, c).sum, 6, p)
      /\ Ripple(a, c).carry # Null <=> ~Fits(p, 6)
  BY RippleExact
<1>2. /\ q \in Int /\ Worth(Ripple(b, d).sum, 6, q)
      /\ Ripple(b, d).carry # Null <=> ~Fits(q, 6)
  BY RippleExact
<1> DEFINE f == Ripple(a, c).carry # Null \/ Ripple(b, d).carry # Null
           u == Ripple(a, c).sum
           v == Ripple(b, d).sum
<1>3. f <=> ~Fits(p, 6) \/ ~Fits(q, 6)
  BY <1>1, <1>2
<1>4. Worth(u, 6, p) /\ Worth(v, 6, q)
  BY <1>1, <1>2
<1> HIDE DEF f, u, v
<1>5. Mirrors(Point6(u, v, f), <<p, q>>)
  BY <1>1, <1>2, <1>3, <1>4, PointMirrors
<1> QED
  BY <1>5 DEF f, u, v

(* Nothing in both fields is nothing in the register.                      *)
LEMMA NothingStored == Ext(Nulls(6) \o Nulls(6), 16) = Nulls(16)
<1> DEFINE X == {Null}
           a == Nulls(6)
           w == Nulls(6) \o Nulls(6)
           n == Nulls(4)
<1>1. a \in WordOf(6, X) /\ n \in WordOf(4, X)
  BY DEF Nulls, WordOf
<1> HIDE DEF a, n, X
<1>2. a \o a \in WordOf(6 + 6, X)
  BY <1>1, JoinWord
<1>3. w \in WordOf(12, X)
  <2>1. 6 + 6 = 12
    OBVIOUS
  <2> QED
    BY <1>2, <2>1 DEF a
<1> HIDE DEF w
<1>4. w \o n \in WordOf(12 + 4, X) /\ 12 + 4 = 16
  BY <1>1, <1>3, JoinWord
<1>5. Len(w) = 12
  <2> DEFINE m == 12
  <2>1. m \in Nat /\ w \in WordOf(m, X)
    BY <1>3
  <2> HIDE DEF m
  <2>2. Len(w) = m
    BY <2>1, WordLen
  <2> QED
    BY <2>2 DEF m
<1>6. Ext(w, 16) = w \o n
  BY <1>5 DEF Ext, n
<1>7. w \o n \in [1 .. 16 -> {Null}]
  BY <1>4 DEF WordOf, X
<1>8. w \o n = Nulls(16)
  BY <1>7 DEF Nulls
<1> QED
  BY <1>6, <1>8 DEF w

LEMMA NothingEncoded == encode_word(<<0, 0>>) = Nulls(16)
<1> DEFINE f == ~Fits(0, 6) \/ ~Fits(0, 6)
           r == Point6(Nulls(6), Nulls(6), f)
<1>1. Mirrors(r, <<0, 0>>)
  <2>1. f <=> ~Fits(0, 6) \/ ~Fits(0, 6)
    OBVIOUS
  <2> HIDE DEF f
  <2> QED
    BY <2>1, NothingWorth, PointMirrors
<1>2. Ext(r.rd, 16) = encode_word(<<0, 0>>)
  BY <1>1 DEF Mirrors
<1>3. r.rd = Nulls(6) \o Nulls(6)
  BY DEF Point6
<1> QED
  BY <1>2, <1>3, NothingStored

(* A word of the register is nothing only if its coefficients that fit are *)
(* zero.                                                                   *)
LEMMA NothingDecoded ==
  ASSUME NEW p \in Int, NEW q \in Int, encode_word(<<p, q>>) = Nulls(16)
  PROVE  (fits6(p) => p = 0) /\ (fits6(q) => q = 0)
<1>1. Greatest(6) = 364
  BY GreatestIs
<1>2. ASSUME NEW v \in Int, fits6(v), encode_field(v, 6) = encode_field(0, 6)
      PROVE  v = 0
  <2>1. /\ -Greatest(6) <= v /\ v <= Greatest(6)
        /\ -Greatest(6) <= 0 /\ 0 <= Greatest(6)
    BY <1>1, <1>2 DEF fits6
  <2>2. decode_field(encode_field(v, 6)) = v /\ decode_field(encode_field(0, 6)) = 0
    BY <2>1, EncodeDecode
  <2> QED
    BY <1>2, <2>2
<1>3. encode_word(<<p, q>>) = encode_word(<<0, 0>>)
  BY NothingEncoded
<1>4. encode_field(p, 6) = encode_field(0, 6) /\ encode_field(q, 6) = encode_field(0, 6)
  BY <1>3, EncodedWord
<1> QED
  BY <1>2, <1>4

(* What erot computes: the turns by 6 and 7 are those by 0 and 1.          *)
LEMMA RotIs ==
  ASSUME NEW p \in Int, NEW q \in Int, NEW s, s = p + q, NEW k \in 0 .. 7
  PROVE  erot(<<p, q>>, k) =
           IF k \in {0, 6} THEN <<p, q>> ELSE IF k \in {1, 7} THEN <<-q, s>>
           ELSE IF k = 2 THEN <<-s, p>> ELSE IF k = 3 THEN <<-p, -q>>
           ELSE IF k = 4 THEN <<q, -s>> ELSE <<s, -p>>
<1> DEFINE z == <<p, q>>
<1>1. z[1] = p /\ z[2] = q /\ eneg(z) = <<-p, -q>>
  BY DEF eneg
<1>2. k \in {0, 1, 2, 3, 4, 5, 6, 7}
  OBVIOUS
<1> HIDE DEF z
<1>3. erot(z, k) =
        IF k \in {0, 6} THEN z ELSE IF k \in {1, 7} THEN <<-q, s>>
        ELSE IF k = 2 THEN <<-s, p>> ELSE IF k = 3 THEN <<-p, -q>>
        ELSE IF k = 4 THEN <<q, -s>> ELSE <<s, -p>>
  <2>1. CASE k \in {0, 6}
    BY <1>1, <2>1 DEF erot
  <2>2. CASE k \in {1, 7}
    BY <1>1, <2>2 DEF erot
  <2>3. CASE k = 2
    BY <1>1, <2>3 DEF erot
  <2>4. CASE k = 3
    BY <1>1, <2>4 DEF erot
  <2>5. CASE k = 4
    BY <1>1, <2>5 DEF erot
  <2>6. CASE k = 5
    BY <1>1, <2>6 DEF erot
  <2> QED
    BY <1>2, <2>1, <2>2, <2>3, <2>4, <2>5, <2>6
<1> QED
  BY <1>3 DEF z

(* TROT (cpu.v:184-193): the angles to 5 are the emulator's turns, those   *)
(* above are nothing; and the flag is that of a + b at every angle, which  *)
(* a turn by a multiple of three does not use.                             *)
LEMMA RotMirrors ==
  ASSUME NEW a \in Words(6), NEW b \in Words(6), NEW k \in 0 .. 7,
         NEW z, z = <<Val(a), Val(b)>>, NEW r, r = Turn6(a, b, k), NEW m, m = erot(z, k)
  PROVE  /\ \E u, v \in Int : m = <<u, v>>
         /\ encode_word(m) = Ext(r.rd, 16) <=> (k > 5 => z = <<0, 0>>)
         /\ ~fits6(m[1]) \/ ~fits6(m[2]) <=> r.ovf /\ k % 3 # 0
<1> DEFINE p == Val(a)
           q == Val(b)
           s == p + q
           t == Ripple(a, b).sum
           c == Ripple(a, b).carry # Null
<1>1. /\ Worth(t, 6, s) /\ (c <=> ~Fits(s, 6)) /\ s \in Int
  BY RippleExact, ValWithin
<1>2. p \in Int /\ q \in Int /\ fits6(p) /\ fits6(q) /\ Worth(a, 6, p) /\ Worth(b, 6, q)
  <2>1. p \in Int /\ q \in Int /\ Fits(p, 6) /\ Fits(q, 6)
    BY ValWithin, WordFits
  <2> QED
    BY <2>1, FitsSix, WorthSelf
<1>3. Worth(Neg(a), 6, -p) /\ Worth(Neg(b), 6, -q) /\ Worth(Neg(t), 6, -s)
  <2> HIDE DEF p, q, s, t
  <2> QED
    BY <1>1, <1>2, WorthNeg
<1>4. /\ -p \in Int /\ -q \in Int /\ -s \in Int
      /\ fits6(-p) /\ fits6(-q) /\ (c <=> ~fits6(s)) /\ (c <=> ~fits6(-s))
  <2>1. \A v \in Int : -v \in Int /\ (fits6(-v) <=> fits6(v))
    BY DEF fits6
  <2> HIDE DEF p, q, s, c
  <2> QED
    BY <1>1, <1>2, <2>1, FitsSix
<1>5. /\ k \in {0, 6} => m = <<p, q>>
      /\ k \in {1, 7} => m = <<-q, s>>
      /\ k = 2 => m = <<-s, p>>
      /\ k = 3 => m = <<-p, -q>>
      /\ k = 4 => m = <<q, -s>>
      /\ k = 5 => m = <<s, -p>>
  <2>1. z = <<p, q>>
    OBVIOUS
  <2> HIDE DEF p, q
  <2> QED
    BY <1>2, <2>1, RotIs
<1>6. /\ k = 0 => r = Point6(a, b, c)
      /\ k = 1 => r = Point6(Neg(b), t, c)
      /\ k = 2 => r = Point6(Neg(t), a, c)
      /\ k = 3 => r = Point6(Neg(a), Neg(b), c)
      /\ k = 4 => r = Point6(b, Neg(t), c)
      /\ k = 5 => r = Point6(t, Neg(a), c)
      /\ k > 5 => r = Point6(Nulls(6), Nulls(6), c)
  BY DEF Turn6
<1>7. z = <<p, q>>
  OBVIOUS
<1> HIDE DEF p, q, s, t, c
<1>8. ASSUME NEW u \in Int, NEW v \in Int, m = <<u, v>>, NEW y, NEW w, r = Point6(y, w, c),
             k \in 0 .. 5, Worth(y, 6, u), Worth(w, 6, v),
             ~fits6(u) \/ ~fits6(v) <=> c /\ k % 3 # 0
      PROVE  /\ \E g, h \in Int : m = <<g, h>>
             /\ encode_word(m) = Ext(r.rd, 16) <=> (k > 5 => z = <<0, 0>>)
             /\ ~fits6(m[1]) \/ ~fits6(m[2]) <=> r.ovf /\ k % 3 # 0
  <2> DEFINE f == ~Fits(u, 6) \/ ~Fits(v, 6)
             e == Point6(y, w, f)
  <2>1. Mirrors(e, <<u, v>>)
    BY <1>8, PointMirrors
  <2>2. Ext(e.rd, 16) = encode_word(m)
    BY <1>8, <2>1 DEF Mirrors
  <2>3. e.rd = r.rd /\ (r.ovf <=> c)
    BY <1>8 DEF Point6
  <2>4. m[1] = u /\ m[2] = v /\ ~(k > 5)
    BY <1>8
  <2> HIDE DEF e
  <2> QED
    BY <1>8, <2>2, <2>3, <2>4
<1>9. ASSUME NEW u \in Int, NEW v \in Int, m = <<u, v>>, k > 5, fits6(u),
             <<u, v>> = <<0, 0>> <=> z = <<0, 0>>, u = 0 => fits6(v),
             ~fits6(v) <=> c /\ k % 3 # 0
      PROVE  /\ \E g, h \in Int : m = <<g, h>>
             /\ encode_word(m) = Ext(r.rd, 16) <=> (k > 5 => z = <<0, 0>>)
             /\ ~fits6(m[1]) \/ ~fits6(m[2]) <=> r.ovf /\ k % 3 # 0
  <2>1. r.rd = Nulls(6) \o Nulls(6) /\ (r.ovf <=> c)
    BY <1>6, <1>9 DEF Point6
  <2>2. Ext(r.rd, 16) = Nulls(16)
    BY <2>1, NothingStored
  <2>3. encode_word(m) = Nulls(16) <=> z = <<0, 0>>
    <3>1. ASSUME z = <<0, 0>> PROVE encode_word(m) = Nulls(16)
      BY <1>9, <3>1, NothingEncoded
    <3>2. ASSUME encode_word(m) = Nulls(16) PROVE z = <<0, 0>>
      <4>1. u = 0 /\ v = 0
        BY <1>9, <3>2, NothingDecoded
      <4> QED
        BY <1>9, <4>1
    <3> QED
      BY <3>1, <3>2
  <2>4. m[1] = u /\ m[2] = v
    BY <1>9
  <2> QED
    BY <1>9, <2>1, <2>2, <2>3, <2>4
<1>10. k \in {0, 1, 2, 3, 4, 5, 6, 7}
  OBVIOUS
<1>11. CASE k = 0
  BY <1>2, <1>5, <1>6, <1>8, <1>11
<1>12. CASE k = 1
  <2>1. ~fits6(-q) \/ ~fits6(s) <=> c /\ k % 3 # 0
    BY <1>4, <1>12
  <2> QED
    BY <1>1, <1>3, <1>4, <1>5, <1>6, <1>8, <1>12, <2>1
<1>13. CASE k = 2
  <2>1. ~fits6(-s) \/ ~fits6(p) <=> c /\ k % 3 # 0
    BY <1>2, <1>4, <1>13
  <2> QED
    BY <1>2, <1>3, <1>4, <1>5, <1>6, <1>8, <1>13, <2>1
<1>14. CASE k = 3
  <2>1. ~fits6(-p) \/ ~fits6(-q) <=> c /\ k % 3 # 0
    BY <1>4, <1>14
  <2> QED
    BY <1>3, <1>4, <1>5, <1>6, <1>8, <1>14, <2>1
<1>15. CASE k = 4
  <2>1. ~fits6(q) \/ ~fits6(-s) <=> c /\ k % 3 # 0
    BY <1>2, <1>4, <1>15
  <2> QED
    BY <1>2, <1>3, <1>4, <1>5, <1>6, <1>8, <1>15, <2>1
<1>16. CASE k = 5
  <2>1. ~fits6(s) \/ ~fits6(-p) <=> c /\ k % 3 # 0
    BY <1>4, <1>16
  <2> QED
    BY <1>1, <1>3, <1>4, <1>5, <1>6, <1>8, <1>16, <2>1
<1>17. CASE k = 6
  <2>1. ~fits6(q) <=> c /\ k % 3 # 0
    BY <1>2, <1>17
  <2> QED
    BY <1>2, <1>5, <1>7, <1>9, <1>17, <2>1
<1>18. CASE k = 7
  <2>1. ~fits6(s) <=> c /\ k % 3 # 0
    BY <1>4, <1>18
  <2>2. s = p + q
    BY DEF s
  <2>3. /\ <<-q, s>> = <<0, 0>> <=> <<p, q>> = <<0, 0>>
        /\ -q = 0 => fits6(s)
    <3>1. -q = 0 => q = 0 /\ s = p
      BY <1>2, <2>2
    <3>2. -q = 0 <=> q = 0
      BY <1>2
    <3> QED
      BY <1>2, <3>1, <3>2, <2>2
  <2> QED
    BY <1>1, <1>4, <1>5, <1>7, <1>9, <1>18, <2>1, <2>3
<1> QED
  BY <1>10, <1>11, <1>12, <1>13, <1>14, <1>15, <1>16, <1>17, <1>18

(* TMUL.                                                                   *)
LEMMA MulMirrors ==
  ASSUME NEW a \in Words(6), NEW b \in Words(6), NEW c \in Words(6), NEW d \in Words(6)
  PROVE  LET e == EisenMul(a, b, c, d)
         IN  Mirrors(Point6(Low(e.A, 6), Low(e.B, 6), Wider(e.A, 6) \/ Wider(e.B, 6)),
                     emul(<<Val(a), Val(b)>>, <<Val(c), Val(d)>>))
<1> DEFINE e == EisenMul(a, b, c, d)
           A == e.A
           B == e.B
           p == EisenA(Val(a), Val(b), Val(c), Val(d))
           q == EisenB(Val(a), Val(b), Val(c), Val(d))
           f == Wider(A, 6) \/ Wider(B, 6)
<1>1. A \in Words(12) /\ B \in Words(13) /\ p = Val(A) /\ q = Val(B)
  <2> DEFINE n == 6
  <2>1. /\ n \in Nat \ {0} /\ 2 * n = 12 /\ 2 * n + 1 = 13
        /\ a \in Words(n) /\ b \in Words(n) /\ c \in Words(n) /\ d \in Words(n)
    OBVIOUS
  <2> HIDE DEF n
  <2>2. e.A \in Words(2 * n) /\ e.B \in Words(2 * n + 1) /\ Val(e.A) = p /\ Val(e.B) = q
    BY <2>1, EisenIs
  <2> HIDE DEF e, p, q
  <2> QED
    BY <2>1, <2>2
<1>2. emul(<<Val(a), Val(b)>>, <<Val(c), Val(d)>>) = <<p, q>>
  BY DEF emul, EisenA, EisenB
<1> HIDE DEF A, B, p, q
<1>3. /\ p \in Int /\ Worth(Low(A, 6), 6, p) /\ (Wider(A, 6) <=> ~Fits(p, 6))
      /\ q \in Int /\ Worth(Low(B, 6), 6, q) /\ (Wider(B, 6) <=> ~Fits(q, 6))
  BY <1>1, CutWorth
<1>4. f <=> ~Fits(p, 6) \/ ~Fits(q, 6)
  BY <1>3
<1> HIDE DEF f
<1>5. Mirrors(Point6(Low(A, 6), Low(B, 6), f), <<p, q>>)
  BY <1>3, <1>4, PointMirrors
<1> QED
  BY <1>2, <1>5 DEF f, A, B

(* TNORM.                                                                  *)
LEMMA NormMirrors ==
  ASSUME NEW a \in Words(6), NEW b \in Words(6)
  PROVE  Mirrors(Point6(Norm(a, b).n, Nulls(6), Norm(a, b).ofit), <<enorm(<<Val(a), Val(b)>>), 0>>)
<1> DEFINE w == NormFull(a, b)
           v == enorm(<<Val(a), Val(b)>>)
<1>1. w \in Words(13) /\ v = Val(w)
  <2>1. 6 \in Nat \ {0} /\ 2 * 6 + 1 = 13
    OBVIOUS
  <2>2. w \in Words(2 * 6 + 1) /\ Val(w) = NormOf(Val(a), Val(b))
    BY <2>1, NormFullIs
  <2>3. v = NormOf(Val(a), Val(b))
    BY DEF enorm, NormOf
  <2> HIDE DEF w, v
  <2> QED
    BY <2>1, <2>2, <2>3
<1>2. Norm(a, b).n = Low(w, 6) /\ Norm(a, b).ofit = Wider(w, 6)
  BY LenOf DEF Norm, Cut
<1> HIDE DEF w, v
<1>3. Mirrors(Scalar6(w), <<v, 0>>)
  BY <1>1, ScalarMirrors
<1> QED
  BY <1>2, <1>3 DEF Scalar6, v

(* TCONJ.                                                                  *)
LEMMA ConjMirrors ==
  ASSUME NEW a \in Words(6), NEW b \in Words(6)
  PROVE  LET g == Conj(a, b)
         IN  Mirrors(Point6(g.a, g.b, g.ofit), econj(<<Val(a), Val(b)>>))
<1> DEFINE s == Val(a) + Val(b)
           n == -Val(b)
           g == Conj(a, b)
<1>1. /\ s \in Int /\ g.a = Low(WideSum(a, b), 6) /\ g.b = Neg(b)
      /\ Val(WideSum(a, b)) = s /\ WideSum(a, b) \in Words(7)
  <2>1. 6 + 1 = 7
    OBVIOUS
  <2>2. WideSum(a, b) \in Words(6 + 1) /\ Val(WideSum(a, b)) = s
    BY WideSumExact
  <2>3. s \in Int
    BY ValWithin
  <2>4. g.a = Low(WideSum(a, b), 6) /\ g.b = Neg(b)
    BY LenOf DEF Conj
  <2> HIDE DEF s, g
  <2> QED
    BY <2>1, <2>2, <2>3, <2>4
<1>2. g.ofit <=> ~Fits(s, 6)
  <2>1. 6 \in Nat \ {0}
    OBVIOUS
  <2> QED
    BY <2>1, ConjIs
<1>3. n \in Int /\ Worth(Neg(b), 6, n) /\ Fits(n, 6)
  <2>1. Neg(b) \in Words(6) /\ Val(Neg(b)) = n
    BY ValNeg
  <2> HIDE DEF n
  <2> QED
    BY <2>1, ValWithin, WorthSelf, WordFits
<1>4. econj(<<Val(a), Val(b)>>) = <<s, n>>
  BY DEF econj
<1> HIDE DEF s, n, g
<1>5. Worth(g.a, 6, s)
  BY <1>1, CutWorth
<1>6. Mirrors(Point6(g.a, g.b, g.ofit), <<s, n>>)
  BY <1>1, <1>2, <1>3, <1>5, PointMirrors
<1> QED
  BY <1>4, <1>6 DEF g

(* TDOT, TWEDGE and TSYMDOT.                                               *)
LEMMA GaMirrors ==
  ASSUME NEW a \in Words(6), NEW b \in Words(6), NEW c \in Words(6), NEW d \in Words(6)
  PROVE  LET g == GaSplit(a, b, c, d)
             z == <<Val(a), Val(b)>>
             w == <<Val(c), Val(d)>>
         IN  /\ Mirrors(Scalar6(g.dot), <<tdot(z, w), 0>>)
             /\ Mirrors(Scalar6(g.wedge), <<twedge(z, w), 0>>)
             /\ Mirrors(Scalar6(g.symdot), <<tsymdot(z, w), 0>>)
<1> DEFINE g == GaSplit(a, b, c, d)
           p == Val(a)
           q == Val(b)
           r == Val(c)
           s == Val(d)
           z == <<p, q>>
           w == <<r, s>>
<1>1. /\ g.dot \in Words(14) /\ Val(g.dot) = DotOf(p, q, r, s)
      /\ g.wedge \in Words(14) /\ Val(g.wedge) = WedgeOf(p, q, r, s)
      /\ g.symdot \in Words(14) /\ Val(g.symdot) = SymDotOf(p, q, r, s)
  <2> DEFINE n == 6
  <2>1. /\ n \in Nat \ {0} /\ 2 * n + 2 = 14
        /\ a \in Words(n) /\ b \in Words(n) /\ c \in Words(n) /\ d \in Words(n)
    OBVIOUS
  <2> HIDE DEF n
  <2>2. /\ g.dot \in Words(2 * n + 2) /\ Val(g.dot) = DotOf(p, q, r, s)
        /\ g.wedge \in Words(2 * n + 2) /\ Val(g.wedge) = WedgeOf(p, q, r, s)
        /\ g.symdot \in Words(2 * n + 2) /\ Val(g.symdot) = SymDotOf(p, q, r, s)
    BY <2>1, GaSplitIs
  <2> HIDE DEF g, p, q, r, s
  <2> QED
    BY <2>1, <2>2
<1>2. p \in Int /\ q \in Int /\ r \in Int /\ s \in Int
  BY ValWithin
<1> HIDE DEF g, p, q, r, s
<1>3. tdot(z, w) = Val(g.dot) /\ twedge(z, w) = Val(g.wedge)
  BY <1>1 DEF tdot, twedge, DotOf, WedgeOf
<1>4. tsymdot(z, w) = Val(g.symdot)
  <2>1. tsymdot(z, w) = 2 * p * r + p * s + q * r + 2 * q * s
    BY DEF tsymdot
  <2>2. SymDotOf(p, q, r, s) = 2 * p * r + p * s + q * r + 2 * q * s
    BY <1>2 DEF SymDotOf, NormOf
  <2> QED
    BY <1>1, <2>1, <2>2
<1> HIDE DEF z, w
<1>5. /\ Mirrors(Scalar6(g.dot), <<tdot(z, w), 0>>)
      /\ Mirrors(Scalar6(g.wedge), <<twedge(z, w), 0>>)
      /\ Mirrors(Scalar6(g.symdot), <<tsymdot(z, w), 0>>)
  BY <1>1, <1>3, <1>4, ScalarMirrors
<1> QED
  BY <1>5 DEF g, z, w, p, q, r, s

-----------------------------------------------------------------------------
(* The pods of the store.                                                  *)

(* The six directions.                                                     *)
LEMMA Units ==
  /\ ANGLE_UNITS[0] = <<1, 0>> /\ ANGLE_UNITS[1] = <<0, 1>> /\ ANGLE_UNITS[2] = <<-1, 1>>
  /\ ANGLE_UNITS[3] = <<-1, 0>> /\ ANGLE_UNITS[4] = <<0, -1>> /\ ANGLE_UNITS[5] = <<1, -1>>
<1>1. \A k \in 0 .. 5 :
        ANGLE_UNITS[k] = <<<<1, 0>>, <<0, 1>>, <<-1, 1>>, <<-1, 0>>, <<0, -1>>, <<1, -1>>>>[k + 1]
  BY DEF ANGLE_UNITS, Angle
<1> QED
  BY <1>1

(* The six neighbours of a cell are cells, distinct, and not the cell.     *)
LEMMA Neighbours ==
  ASSUME NEW p \in Int, NEW q \in Int, NEW c, c = <<p, q>>
  PROVE  /\ \A k \in Angle : eadd(c, ANGLE_UNITS[k]) \in Int \X Int /\ eadd(c, ANGLE_UNITS[k]) # c
         /\ \A j, k \in Angle : eadd(c, ANGLE_UNITS[j]) = eadd(c, ANGLE_UNITS[k]) => j = k
<1> DEFINE N(k) == eadd(c, ANGLE_UNITS[k])
<1>1. /\ N(0) = <<p + 1, q + 0>> /\ N(1) = <<p + 0, q + 1>> /\ N(2) = <<p + -1, q + 1>>
      /\ N(3) = <<p + -1, q + 0>> /\ N(4) = <<p + 0, q + -1>> /\ N(5) = <<p + 1, q + -1>>
  BY Units DEF eadd
<1> HIDE DEF N
<1>2. Angle = {0, 1, 2, 3, 4, 5}
  BY DEF Angle
<1>3. \A k \in Angle : N(k) \in Int \X Int /\ N(k) # <<p, q>>
  BY <1>1, <1>2
<1>4. \A k \in Angle : N(k)[1] - p = (IF k \in {0, 5} THEN 1 ELSE IF k \in {1, 4} THEN 0 ELSE -1)
                       /\ N(k)[2] - q = (IF k \in {1, 2} THEN 1 ELSE IF k \in {0, 3} THEN 0 ELSE -1)
  BY <1>1, <1>2
<1>5. \A j, k \in Angle : N(j) = N(k) => j = k
  BY <1>2, <1>4
<1> QED
  BY <1>3, <1>5 DEF N

(* A pod has seven cells.                                                  *)
LEMMA PodOfSeven ==
  ASSUME NEW p \in Int, NEW q \in Int, NEW c, c = <<p, q>>
  PROVE  pod_cells(c) \subseteq Int \X Int /\ Cardinality(pod_cells(c)) = 7
<1> DEFINE N(k) == eadd(c, ANGLE_UNITS[k])
<1>1. \A k \in Angle : N(k) \in Int \X Int /\ N(k) # c
  BY Neighbours
<1>2. \A j, k \in Angle : N(j) = N(k) => j = k
  BY Neighbours
<1>3. Angle = {0, 1, 2, 3, 4, 5}
  BY DEF Angle
<1>4. pod_cells(c) = {c} \cup {N(k) : k \in Angle}
  BY DEF pod_cells
<1> HIDE DEF N
<1> DEFINE S0 == {} \cup {c}
           S1 == S0 \cup {N(0)}
           S2 == S1 \cup {N(1)}
           S3 == S2 \cup {N(2)}
           S4 == S3 \cup {N(3)}
           S5 == S4 \cup {N(4)}
           S6 == S5 \cup {N(5)}
<1>5. pod_cells(c) = S6
  BY <1>3, <1>4
<1>6. /\ N(0) \notin S0 /\ N(1) \notin S1 /\ N(2) \notin S2 /\ N(3) \notin S3 /\ N(4) \notin S4
      /\ N(5) \notin S5
  BY <1>1, <1>2, <1>3
<1>7. IsFiniteSet(S0) /\ Cardinality(S0) = 1
  BY FS_EmptySet, FS_AddElement
<1> HIDE DEF S0
<1>8. IsFiniteSet(S1) /\ Cardinality(S1) = 2
  BY <1>6, <1>7, FS_AddElement
<1> HIDE DEF S1
<1>9. IsFiniteSet(S2) /\ Cardinality(S2) = 3
  BY <1>6, <1>8, FS_AddElement
<1> HIDE DEF S2
<1>10. IsFiniteSet(S3) /\ Cardinality(S3) = 4
  BY <1>6, <1>9, FS_AddElement
<1> HIDE DEF S3
<1>11. IsFiniteSet(S4) /\ Cardinality(S4) = 5
  BY <1>6, <1>10, FS_AddElement
<1> HIDE DEF S4
<1>12. IsFiniteSet(S5) /\ Cardinality(S5) = 6
  BY <1>6, <1>11, FS_AddElement
<1> HIDE DEF S5
<1>13. IsFiniteSet(S6) /\ Cardinality(S6) = 7
  BY <1>6, <1>12, FS_AddElement
<1>14. pod_cells(c) \subseteq Int \X Int
  BY <1>1, <1>4
<1> QED
  BY <1>5, <1>13, <1>14

-----------------------------------------------------------------------------
(* The inductive invariant: registers of sixteen codes, and cells at       *)
(* lattice points that hold what eight trits hold.                         *)
EmuType ==
  /\ x \in [Reg -> Register]
  /\ xlattice_ovf \in BOOLEAN
  /\ hex_mem \in [DOMAIN hex_mem -> Wide8] /\ DOMAIN hex_mem \subseteq Int \X Int
  /\ hex_bits_moved \in Nat

(* The cells of a pod hold eight trits.                                    *)
LEMMA RingTyped ==
  ASSUME EmuType, NEW c
  PROVE  /\ Cell(hex_mem, c) \in Wide8 /\ Cell(hex_mem, c) \in Int
         /\ ring(hex_mem, c) \in [Angle -> Wide8]
<1>1. \A d : Cell(hex_mem, d) \in Wide8
  <2>1. \A d \in DOMAIN hex_mem : hex_mem[d] \in Wide8
    BY DEF EmuType
  <2> QED
    BY <2>1 DEF Cell, Wide8
<1>2. Wide8 \subseteq Int
  BY DEF Wide8
<1> QED
  BY <1>1, <1>2 DEF ring

(* What a format decodes has no 11 once the canary is passed.              *)
LEMMA Decoded ==
  ASSUME EmuType, NEW i \in Instr, ~Canary(i)
  PROVE  /\ x[i.rs1] \in Register /\ x[i.rs2] \in Register
         /\ i.f3 \in {0, 1, 3} => AField(x[i.rs1]) \in Words(6) /\ BField(x[i.rs1]) \in Words(6)
         /\ i.f3 \in {0, 4} => AField(x[i.rs2]) \in Words(6) /\ BField(x[i.rs2]) \in Words(6)
         /\ i.f3 = 4 => /\ SubSeq(x[i.rs1], 1, 8) \in Words(8)
                        /\ SubSeq(x[i.rs1], 9, 16) \in Words(8)
<1> DEFINE v == x[i.rs1]
           w == x[i.rs2]
<1>1. v \in Register /\ w \in Register
  BY DEF EmuType, Instr
<1>2. \A u \in Decodes(i) : ~HasNever(u)
  BY DEF Canary
<1>3. /\ i.f3 \in {0, 1, 3} => AField(v) \in Decodes(i) /\ BField(v) \in Decodes(i)
      /\ i.f3 \in {0, 4} => AField(w) \in Decodes(i) /\ BField(w) \in Decodes(i)
      /\ i.f3 = 4 => v \in Decodes(i)
  BY DEF Decodes
<1> HIDE DEF v, w
<1>4. /\ i.f3 \in {0, 1, 3} => AField(v) \in Words(6) /\ BField(v) \in Words(6)
      /\ i.f3 \in {0, 4} => AField(w) \in Words(6) /\ BField(w) \in Words(6)
  BY <1>1, <1>2, <1>3, RegisterParts, NoCanary
<1>5. ASSUME i.f3 = 4 PROVE SubSeq(v, 1, 8) \in Words(8) /\ SubSeq(v, 9, 16) \in Words(8)
  <2>1. v \in WordOf(16, Trit) /\ ~HasNever(v)
    BY <1>1, <1>2, <1>3, <1>5, RegisterParts
  <2>2. v \in WordOf(16, Balanced)
    BY <2>1, NoCanary DEF Words, WordOf
  <2>3. SubSeq(v, 1, 8) \in WordOf(8, Balanced) /\ SubSeq(v, 9, 16) \in WordOf(8, Balanced)
    BY <2>2, PartWord
  <2> QED
    BY <2>3 DEF Words, WordOf
<1> QED
  BY <1>1, <1>4, <1>5 DEF v, w

(* A point of integers decoded.                                            *)
LEMMA PointOf ==
  ASSUME NEW w, AField(w) \in Words(6), BField(w) \in Words(6)
  PROVE  /\ decode_word(w) = <<Val(AField(w)), Val(BField(w))>>
         /\ Val(AField(w)) \in Int /\ Val(BField(w)) \in Int
<1>1. Val(AField(w)) \in Int /\ Val(BField(w)) \in Int
  BY ValWithin
<1> QED
  BY <1>1 DEF decode_word, decode_field

-----------------------------------------------------------------------------
(* The steps.                                                              *)

(* A point stored: the register takes its trits, the latch its fit.        *)
LEMMA SetWord ==
  ASSUME EmuType, NEW r \in Reg, NEW p \in Int, NEW q \in Int, NEW z, z = <<p, q>>, set_word(r, z)
  PROVE  /\ x' \in [Reg -> Register] /\ (r # 0 => x'[r] = encode_word(z))
         /\ xlattice_ovf' \in BOOLEAN
         /\ xlattice_ovf' <=> xlattice_ovf \/ ~fits6(p) \/ ~fits6(q)
<1>1. encode_word(z) \in Register
  BY EncodedWord
<1>2. x' = IF r = 0 THEN x ELSE [x EXCEPT ![r] = encode_word(z)]
  BY DEF set_word, SetRegister
<1>3. xlattice_ovf' = (xlattice_ovf \/ ~fits6(p) \/ ~fits6(q))
  BY DEF set_word
<1>4. x \in [Reg -> Register]
  BY DEF EmuType
<1>5. x' \in [Reg -> Register] /\ (r # 0 => x'[r] = encode_word(z))
  BY <1>1, <1>2, <1>4
<1> QED
  BY <1>3, <1>5

(* The point m the emulator stores beside the result r of the cells: the   *)
(* same trits and the same flag, but for the rotations.                    *)
Follows(i, r, m) ==
  LET k    == i.rs2 % 8
      trot == i.f3 = 0 /\ i.f7 = 2
  IN  /\ encode_word(m) = Ext(r.rd, 16) <=> (trot /\ k > 5 => decode_word(x[i.rs1]) = <<0, 0>>)
      /\ ~fits6(m[1]) \/ ~fits6(m[2]) <=> r.ovf /\ ~(trot /\ k % 3 = 0)

Stores(i) ==
  \E p, q \in Int : /\ set_word(i.rd, <<p, q>>)
                   /\ Follows(i, ByCells(i, x[i.rs1], x[i.rs2]), <<p, q>>)

LEMMA MirrorFollows ==
  ASSUME NEW i, ~(i.f3 = 0 /\ i.f7 = 2), NEW r, NEW m, Mirrors(r, m)
  PROVE  Follows(i, r, m)
BY DEF Mirrors, Follows

LEMMA R2Stores ==
  ASSUME EmuType, NEW i \in Instr, ~Canary(i), Known(i), R2(i)
  PROVE  Stores(i)
<1> DEFINE v == x[i.rs1]
           w == x[i.rs2]
           a == AField(v)
           b == BField(v)
           c == AField(w)
           d == BField(w)
           p == Val(a)
           q == Val(b)
           r == Val(c)
           s == Val(d)
           k == i.rs2 % 8
           z == <<p, q>>
           y == <<r, s>>
<1>1. i.f3 = 0 /\ i.f7 \in {0, 1, 2, 3, 4, 5, 6}
  BY DEF R2, Known
<1>2. a \in Words(6) /\ b \in Words(6) /\ c \in Words(6) /\ d \in Words(6)
  BY <1>1, Decoded
<1>3. decode_word(v) = z /\ decode_word(w) = y /\ p \in Int /\ q \in Int /\ r \in Int /\ s \in Int
  BY <1>2, PointOf
<1>4. /\ i.f7 = 0 => set_word(i.rd, eadd(z, y)) /\ ByCells(i, v, w) =
           Point6(Ripple(a, c).sum, Ripple(b, d).sum,
                  Ripple(a, c).carry # Null \/ Ripple(b, d).carry # Null)
      /\ i.f7 = 1 => set_word(i.rd, esub(z, y)) /\ ByCells(i, v, w) =
           Point6(Ripple(a, Neg(c)).sum, Ripple(b, Neg(d)).sum,
                  Ripple(a, Neg(c)).carry # Null \/ Ripple(b, Neg(d)).carry # Null)
      /\ i.f7 = 2 => set_word(i.rd, erot(z, k)) /\ ByCells(i, v, w) = Turn6(a, b, k)
      /\ i.f7 = 3 => set_word(i.rd, emul(z, y)) /\ ByCells(i, v, w) =
           Point6(Low(EisenMul(a, b, c, d).A, 6), Low(EisenMul(a, b, c, d).B, 6),
                  Wider(EisenMul(a, b, c, d).A, 6) \/ Wider(EisenMul(a, b, c, d).B, 6))
      /\ i.f7 = 4 => set_word(i.rd, <<tdot(z, y), 0>>)
                      /\ ByCells(i, v, w) = Scalar6(GaSplit(a, b, c, d).dot)
      /\ i.f7 = 5 => set_word(i.rd, <<twedge(z, y), 0>>)
                      /\ ByCells(i, v, w) = Scalar6(GaSplit(a, b, c, d).wedge)
      /\ i.f7 = 6 => set_word(i.rd, <<tsymdot(z, y), 0>>)
                      /\ ByCells(i, v, w) = Scalar6(GaSplit(a, b, c, d).symdot)
  <2>1. /\ i.f7 = 0 => set_word(i.rd, eadd(z, y))
        /\ i.f7 = 1 => set_word(i.rd, esub(z, y))
        /\ i.f7 = 2 => set_word(i.rd, erot(z, k))
        /\ i.f7 = 3 => set_word(i.rd, emul(z, y))
        /\ i.f7 = 4 => set_word(i.rd, <<tdot(z, y), 0>>)
        /\ i.f7 = 5 => set_word(i.rd, <<twedge(z, y), 0>>)
        /\ i.f7 = 6 => set_word(i.rd, <<tsymdot(z, y), 0>>)
    <3>1. decode_word(x[i.rs1]) = z /\ decode_word(x[i.rs2]) = y
      BY <1>3
    <3> HIDE DEF v, w, a, b, c, d, p, q, r, s, z, y
    <3>2. ASSUME i.f7 = 0 PROVE set_word(i.rd, eadd(z, y))
      BY <3>1, <3>2 DEF R2
    <3>3. ASSUME i.f7 = 1 PROVE set_word(i.rd, esub(z, y))
      BY <3>1, <3>3 DEF R2
    <3>4. ASSUME i.f7 = 2 PROVE set_word(i.rd, erot(z, k))
      BY <3>1, <3>4 DEF R2
    <3>5. ASSUME i.f7 = 3 PROVE set_word(i.rd, emul(z, y))
      BY <3>1, <3>5 DEF R2
    <3>6. ASSUME i.f7 = 4 PROVE set_word(i.rd, <<tdot(z, y), 0>>)
      BY <3>1, <3>6 DEF R2, set_scalar
    <3>7. ASSUME i.f7 = 5 PROVE set_word(i.rd, <<twedge(z, y), 0>>)
      BY <3>1, <3>7 DEF R2, set_scalar
    <3>8. ASSUME i.f7 = 6 PROVE set_word(i.rd, <<tsymdot(z, y), 0>>)
      BY <3>1, <3>8 DEF R2, set_scalar
    <3> QED
      BY <3>2, <3>3, <3>4, <3>5, <3>6, <3>7, <3>8
  <2> HIDE DEF v, w, z, y
  <2>2. ASSUME i.f7 = 0 PROVE ByCells(i, v, w) =
           Point6(Ripple(a, c).sum, Ripple(b, d).sum,
                  Ripple(a, c).carry # Null \/ Ripple(b, d).carry # Null)
    BY <1>1, <2>2 DEF ByCells
  <2>3. ASSUME i.f7 = 1 PROVE ByCells(i, v, w) =
           Point6(Ripple(a, Neg(c)).sum, Ripple(b, Neg(d)).sum,
                  Ripple(a, Neg(c)).carry # Null \/ Ripple(b, Neg(d)).carry # Null)
    BY <1>1, <2>3 DEF ByCells
  <2>4. ASSUME i.f7 = 2 PROVE ByCells(i, v, w) = Turn6(a, b, k)
    BY <1>1, <2>4 DEF ByCells
  <2>5. ASSUME i.f7 = 3 PROVE ByCells(i, v, w) =
           Point6(Low(EisenMul(a, b, c, d).A, 6), Low(EisenMul(a, b, c, d).B, 6),
                  Wider(EisenMul(a, b, c, d).A, 6) \/ Wider(EisenMul(a, b, c, d).B, 6))
    BY <1>1, <2>5 DEF ByCells
  <2>6. ASSUME i.f7 = 4 PROVE ByCells(i, v, w) = Scalar6(GaSplit(a, b, c, d).dot)
    BY <1>1, <2>6 DEF ByCells, Cfu
  <2>7. ASSUME i.f7 = 5 PROVE ByCells(i, v, w) = Scalar6(GaSplit(a, b, c, d).wedge)
    BY <1>1, <2>7 DEF ByCells, Cfu
  <2>8. ASSUME i.f7 = 6 PROVE ByCells(i, v, w) = Scalar6(GaSplit(a, b, c, d).symdot)
    BY <1>1, <2>8 DEF ByCells, Cfu
  <2> QED
    BY <2>1, <2>2, <2>3, <2>4, <2>5, <2>6, <2>7, <2>8
<1> HIDE DEF v, w, a, b, c, d, k
<1>5. ASSUME NEW m, NEW n, m \in Int, n \in Int, set_word(i.rd, <<m, n>>), i.f7 # 2,
             Mirrors(ByCells(i, v, w), <<m, n>>)
      PROVE  Stores(i)
  <2>1. Follows(i, ByCells(i, v, w), <<m, n>>)
    BY <1>5, MirrorFollows
  <2> QED
    BY <1>5, <2>1 DEF Stores, v, w
<1>6. CASE i.f7 = 0
  <2>1. eadd(z, y) = <<p + r, q + s>> /\ p + r \in Int /\ q + s \in Int
    BY <1>3 DEF eadd
  <2>2. Mirrors(ByCells(i, v, w), <<p + r, q + s>>)
    BY <1>2, <1>4, <1>6, AddMirrors
  <2> HIDE DEF p, q, r, s, z, y
  <2> QED
    BY <1>4, <1>5, <1>6, <2>1, <2>2
<1>7. CASE i.f7 = 1
  <2>1. esub(z, y) = <<p - r, q - s>> /\ p - r \in Int /\ q - s \in Int
    BY <1>3 DEF esub
  <2>2. /\ Neg(c) \in Words(6) /\ Neg(d) \in Words(6)
        /\ p - r = Val(a) + Val(Neg(c)) /\ q - s = Val(b) + Val(Neg(d))
    <3>1. Neg(c) \in Words(6) /\ Neg(d) \in Words(6) /\ Val(Neg(c)) = -r /\ Val(Neg(d)) = -s
      BY <1>2, ValNeg
    <3> QED
      BY <1>3, <3>1
  <2> DEFINE m == p - r
             n == q - s
  <2>3. m = Val(a) + Val(Neg(c)) /\ n = Val(b) + Val(Neg(d))
    BY <2>2
  <2> HIDE DEF m, n
  <2>4. Mirrors(ByCells(i, v, w), <<m, n>>)
    BY <1>2, <1>4, <1>7, <2>2, <2>3, AddMirrors
  <2>5. set_word(i.rd, <<m, n>>) /\ m \in Int /\ n \in Int
    BY <1>4, <1>7, <2>1 DEF m, n
  <2> QED
    BY <1>5, <1>7, <2>4, <2>5
<1>8. CASE i.f7 = 2
  <2>1. k \in 0 .. 7
    <3>1. i.rs2 \in 0 .. 31
      <4>1. i.rs2 \in Reg
        BY DEF Instr
      <4> QED
        BY <4>1, XlatticeAssumption
    <3> QED
      BY <3>1 DEF k
  <2> DEFINE m == erot(z, k)
             e == Turn6(a, b, k)
  <2>2. /\ \E u, t \in Int : m = <<u, t>>
        /\ encode_word(m) = Ext(e.rd, 16) <=> (k > 5 => z = <<0, 0>>)
        /\ ~fits6(m[1]) \/ ~fits6(m[2]) <=> e.ovf /\ k % 3 # 0
    BY <1>2, <2>1, RotMirrors
  <2>3. ByCells(i, v, w) = e /\ set_word(i.rd, m) /\ decode_word(v) = z
    BY <1>3, <1>4, <1>8
  <2> HIDE DEF m, e, z
  <2>4. Follows(i, e, m)
    BY <1>1, <1>8, <2>2, <2>3 DEF Follows, v, k
  <2>5. PICK u \in Int, t \in Int : m = <<u, t>>
    BY <2>2
  <2>6. set_word(i.rd, <<u, t>>) /\ Follows(i, ByCells(i, v, w), <<u, t>>)
    BY <2>3, <2>4, <2>5
  <2> QED
    BY <2>6 DEF Stores, v, w
<1>9. CASE i.f7 = 3
  <2> DEFINE m == p * r - q * s
             n == p * s + q * r + q * s
  <2>1. emul(z, y) = <<m, n>> /\ m \in Int /\ n \in Int
    BY <1>3 DEF emul
  <2>2. Mirrors(ByCells(i, v, w), emul(z, y))
    BY <1>2, <1>4, <1>9, MulMirrors
  <2> HIDE DEF m, n, z, y
  <2> QED
    BY <1>4, <1>5, <1>9, <2>1, <2>2
<1>10. CASE i.f7 \in {4, 5, 6}
  <2>1. /\ Mirrors(Scalar6(GaSplit(a, b, c, d).dot), <<tdot(z, y), 0>>)
        /\ Mirrors(Scalar6(GaSplit(a, b, c, d).wedge), <<twedge(z, y), 0>>)
        /\ Mirrors(Scalar6(GaSplit(a, b, c, d).symdot), <<tsymdot(z, y), 0>>)
    BY <1>2, GaMirrors
  <2>2. tdot(z, y) \in Int /\ twedge(z, y) \in Int /\ tsymdot(z, y) \in Int /\ 0 \in Int
    <3>1. z[1] = p /\ z[2] = q /\ y[1] = r /\ y[2] = s
      OBVIOUS
    <3> HIDE DEF p, q, r, s, z, y
    <3> QED
      BY <1>3, <3>1 DEF tdot, twedge, tsymdot
  <2> HIDE DEF z, y
  <2> QED
    BY <1>4, <1>5, <1>10, <2>1, <2>2
<1> QED
  BY <1>1, <1>6, <1>7, <1>8, <1>9, <1>10

LEMMA R1Stores ==
  ASSUME EmuType, NEW i \in Instr, ~Canary(i), Known(i), R1(i)
  PROVE  Stores(i)
<1> DEFINE v == x[i.rs1]
           w == x[i.rs2]
           a == AField(v)
           b == BField(v)
           p == Val(a)
           q == Val(b)
           z == <<p, q>>
<1>1. i.f3 = 1 /\ i.f7 \in {0, 1}
  BY DEF R1, Known
<1>2. a \in Words(6) /\ b \in Words(6)
  BY <1>1, Decoded
<1>3. decode_word(v) = z /\ p \in Int /\ q \in Int
  BY <1>2, PointOf
<1>4. /\ i.f7 = 0 => set_word(i.rd, <<enorm(z), 0>>)
      /\ i.f7 = 1 => set_word(i.rd, econj(z))
  <2>1. decode_word(x[i.rs1]) = z
    BY <1>3
  <2> HIDE DEF v, w, a, b, p, q, z
  <2>2. ASSUME i.f7 = 0 PROVE set_word(i.rd, <<enorm(z), 0>>)
    BY <2>1, <2>2 DEF R1, set_scalar
  <2>3. ASSUME i.f7 = 1 PROVE set_word(i.rd, econj(z))
    BY <2>1, <2>3 DEF R1
  <2> QED
    BY <2>2, <2>3
<1>5. ASSUME NEW m \in Int, NEW n \in Int, set_word(i.rd, <<m, n>>),
             Mirrors(ByCells(i, v, w), <<m, n>>)
      PROVE  Stores(i)
  <2>1. Follows(i, ByCells(i, v, w), <<m, n>>)
    BY <1>1, <1>5, MirrorFollows
  <2> QED
    BY <1>5, <2>1 DEF Stores
<1>6. CASE i.f7 = 0
  <2>1. ByCells(i, v, w) = Point6(Norm(a, b).n, Nulls(6), Norm(a, b).ofit)
    <3> HIDE DEF v, w
    <3> QED
      BY <1>1, <1>6 DEF ByCells
  <2>2. Mirrors(ByCells(i, v, w), <<enorm(z), 0>>)
    BY <1>2, <2>1, NormMirrors
  <2>3. enorm(z) \in Int /\ 0 \in Int
    <3>1. z[1] = p /\ z[2] = q
      OBVIOUS
    <3> HIDE DEF p, q, z
    <3> QED
      BY <1>3, <3>1 DEF enorm
  <2> HIDE DEF z, v, w
  <2> QED
    BY <1>4, <1>5, <1>6, <2>2, <2>3
<1>7. CASE i.f7 = 1
  <2>1. ByCells(i, v, w) = Point6(Conj(a, b).a, Conj(a, b).b, Conj(a, b).ofit)
    <3> HIDE DEF v, w
    <3> QED
      BY <1>1, <1>7 DEF ByCells, Cfu
  <2>2. Mirrors(ByCells(i, v, w), econj(z))
    BY <1>2, <2>1, ConjMirrors
  <2> DEFINE m == p + q
             n == -q
  <2>3. econj(z) = <<m, n>> /\ m \in Int /\ n \in Int
    BY <1>3 DEF econj
  <2> HIDE DEF m, n, z, v, w
  <2> QED
    BY <1>4, <1>5, <1>7, <2>2, <2>3
<1> QED
  BY <1>1, <1>6, <1>7

(* The pair of a TRECON.                                                   *)
LEMMA PairOf ==
  ASSUME NEW w, SubSeq(w, 1, 8) \in Words(8), SubSeq(w, 9, 16) \in Words(8)
  PROVE  \E m, n \in Wide8 : /\ decode_pair(w) = <<m, n>>
                             /\ m = Val(SubSeq(w, 1, 8)) /\ n = Val(SubSeq(w, 9, 16))
<1> DEFINE m == Val(SubSeq(w, 1, 8))
           n == Val(SubSeq(w, 9, 16))
<1>1. decode_pair(w) = <<m, n>>
  BY DEF decode_pair, decode_field
<1>2. m \in Int /\ -Greatest(8) <= m /\ m <= Greatest(8)
  BY ValBound
<1>3. n \in Int /\ -Greatest(8) <= n /\ n <= Greatest(8)
  BY ValBound
<1>4. Greatest(8) = 3280
  BY GreatestIs
<1> HIDE DEF m, n
<1>5. m \in Wide8 /\ n \in Wide8
  BY <1>2, <1>3, <1>4 DEF Wide8
<1> QED
  BY <1>1, <1>5 DEF m, n

(* TGRAD and TRELAX.                                                       *)
LEMMA PodReadStores ==
  ASSUME EmuType, NEW i \in Instr, Known(i), PodRead(i),
         NEW c, c = decode_word(x[i.rs1]), NEW F, F = ring(hex_mem, c)
  PROVE  /\ UNCHANGED hex_mem /\ count_pod
         /\ i.f7 = 0 => UNCHANGED xlattice_ovf /\ SetRegister(i.rd, encode_pair(tgrad(F)))
         /\ i.f7 = 1 => set_word(i.rd, <<HeatStep(Cell(hex_mem, c), F), 0>>)
         /\ i.f7 \in {0, 1} /\ i.f3 = 3
<1>1. i.f3 = 3 /\ i.f7 \in {0, 1}
  BY DEF PodRead, Known
<1>2. UNCHANGED hex_mem /\ count_pod
  BY DEF PodRead
<1>3. ASSUME i.f7 = 0
      PROVE  UNCHANGED xlattice_ovf /\ SetRegister(i.rd, encode_pair(tgrad(F)))
  BY <1>3 DEF PodRead
<1>4. ASSUME i.f7 = 1 PROVE set_word(i.rd, <<HeatStep(Cell(hex_mem, c), F), 0>>)
  BY <1>4 DEF PodRead, set_scalar
<1> QED
  BY <1>1, <1>2, <1>3, <1>4

(* The derivative of a field of integers, and its heat step.               *)
LEMMA FieldInts ==
  ASSUME NEW F \in [Angle -> Int], NEW u \in Int
  PROVE  /\ \E m, n \in Int : tgrad(F) = <<m, n>>
         /\ HeatStep(u, F) \in Int
<1>1. \A k \in Angle : F[k] \in Int
  OBVIOUS
<1>2. F[0] \in Int /\ F[1] \in Int /\ F[2] \in Int /\ F[3] \in Int /\ F[4] \in Int /\ F[5] \in Int
  BY <1>1 DEF Angle
<1>3. \E m, n \in Int : tgrad(F) = <<m, n>>
  <2>1. tgrad(F) = <<F[0] - F[2] - F[3] + F[5], F[1] + F[2] - F[4] - F[5]>>
    BY DEF tgrad
  <2>2. F[0] - F[2] - F[3] + F[5] \in Int /\ F[1] + F[2] - F[4] - F[5] \in Int
    BY <1>2
  <2> QED
    BY <2>1, <2>2
<1>4. HeatStep(u, F) \in Int
  <2>1. F[0] + F[1] + F[2] + F[3] + F[4] + F[5] \in Int
    BY <1>2
  <2> QED
    BY <2>1 DEF HeatStep
<1> QED
  BY <1>3, <1>4

(* A pod written: the cells stay cells that hold eight trits.              *)
LEMMA ScatterTyped ==
  ASSUME EmuType, NEW p \in Int, NEW q \in Int, NEW c, c = <<p, q>>,
         NEW u \in Wide8, NEW F \in [Angle -> Wide8], scatter_pod(c, u, F)
  PROVE  /\ hex_mem' \in [DOMAIN hex_mem' -> Wide8] /\ DOMAIN hex_mem' \subseteq Int \X Int
         /\ \A k \in Angle : Cell(hex_mem', eadd(c, ANGLE_UNITS[k])) = F[k]
         /\ Cell(hex_mem', c) = u
<1> DEFINE D == DOMAIN hex_mem \cup pod_cells(c)
           e(d) == IF d = c THEN u
                   ELSE IF d \in pod_cells(c)
                        THEN F[CHOOSE k \in Angle : d = eadd(c, ANGLE_UNITS[k])]
                        ELSE hex_mem[d]
<1>1. hex_mem' = [d \in D |-> e(d)]
  BY DEF scatter_pod
<1>2. D \subseteq Int \X Int
  BY PodOfSeven DEF EmuType
<1>3. \A d \in pod_cells(c) \ {c} :
        \E k \in Angle : d = eadd(c, ANGLE_UNITS[k])
  BY DEF pod_cells
<1>4. ASSUME NEW d \in D PROVE e(d) \in Wide8
  <2>1. CASE d = c
    BY <2>1
  <2>2. CASE d # c /\ d \in pod_cells(c)
    <3>1. (CHOOSE k \in Angle : d = eadd(c, ANGLE_UNITS[k])) \in Angle
      BY <1>3, <2>2
    <3> QED
      BY <2>2, <3>1
  <2>3. CASE d # c /\ d \notin pod_cells(c)
    BY <2>3 DEF EmuType
  <2> QED
    BY <2>1, <2>2, <2>3
<1>5. ASSUME NEW k \in Angle PROVE Cell(hex_mem', eadd(c, ANGLE_UNITS[k])) = F[k]
  <2> DEFINE d == eadd(c, ANGLE_UNITS[k])
  <2>1. d # c /\ \A j \in Angle : d = eadd(c, ANGLE_UNITS[j]) => j = k
    <3>1. \A j \in Angle : eadd(c, ANGLE_UNITS[j]) # c
      BY Neighbours
    <3>2. \A j, l \in Angle : eadd(c, ANGLE_UNITS[j]) = eadd(c, ANGLE_UNITS[l]) => j = l
      BY Neighbours
    <3> QED
      BY <3>1, <3>2
  <2>2. d \in pod_cells(c) /\ d \in D
    BY DEF pod_cells
  <2>3. (CHOOSE j \in Angle : d = eadd(c, ANGLE_UNITS[j])) = k
    BY <2>1
  <2> HIDE DEF d
  <2>4. e(d) = F[k]
    BY <2>1, <2>2, <2>3
  <2> HIDE DEF e, D
  <2>5. Cell(hex_mem', d) = F[k]
    BY <1>1, <2>2, <2>4 DEF Cell
  <2> QED
    BY <2>5 DEF d
<1>6. Cell(hex_mem', c) = u
  <2>1. c \in D
    BY DEF pod_cells
  <2> QED
    BY <1>1, <2>1 DEF Cell
<1> HIDE DEF e, D
<1> QED
  BY <1>1, <1>2, <1>4, <1>5, <1>6

(* TRECON: the pod takes the canonical field of the pair in rs1.           *)
LEMMA PodWriteStores ==
  ASSUME EmuType, NEW i \in Instr, ~Canary(i), PodWrite(i)
  PROVE  /\ i.f3 = 4 /\ set_word(i.rd, <<0, 0>>) /\ count_pod
         /\ hex_mem' \in [DOMAIN hex_mem' -> Wide8] /\ DOMAIN hex_mem' \subseteq Int \X Int
         /\ ring(hex_mem', decode_word(x[i.rs2])) = trecon(decode_pair(x[i.rs1]))
<1> DEFINE v == x[i.rs1]
           w == x[i.rs2]
           c == decode_word(w)
           F == trecon(decode_pair(v))
<1>1. i.f3 = 4 /\ set_word(i.rd, <<0, 0>>) /\ count_pod /\ scatter_pod(c, 0, F)
  BY DEF PodWrite, set_scalar
<1>2. /\ AField(w) \in Words(6) /\ BField(w) \in Words(6)
      /\ SubSeq(v, 1, 8) \in Words(8) /\ SubSeq(v, 9, 16) \in Words(8)
  BY <1>1, Decoded
<1> HIDE DEF v, w
<1>3. PICK p \in Int, q \in Int : c = <<p, q>>
  BY <1>2, PointOf
<1>4. F \in [Angle -> Wide8]
  <2>1. PICK m \in Wide8, n \in Wide8 : decode_pair(v) = <<m, n>>
    BY <1>2, PairOf
  <2>2. decode_pair(v)[1] \in Wide8 /\ decode_pair(v)[2] \in Wide8 /\ 0 \in Wide8
    BY <2>1 DEF Wide8
  <2> QED
    BY <2>2 DEF trecon
<1>5. 0 \in Wide8
  BY DEF Wide8
<1>6. F = [k \in Angle |-> F[k]]
  BY <1>4
<1> HIDE DEF c, F
<1>7. /\ hex_mem' \in [DOMAIN hex_mem' -> Wide8] /\ DOMAIN hex_mem' \subseteq Int \X Int
      /\ \A k \in Angle : Cell(hex_mem', eadd(c, ANGLE_UNITS[k])) = F[k]
  BY <1>1, <1>3, <1>4, <1>5, ScatterTyped
<1>8. ring(hex_mem', c) = F
  BY <1>6, <1>7 DEF ring
<1> QED
  BY <1>1, <1>7, <1>8 DEF c, F, v, w

(* Every instruction that completes keeps the types.                       *)
LEMMA CompleteTyped ==
  ASSUME EmuType, NEW i \in Instr, Complete(i)
  PROVE  EmuType'
<1>1. ~Canary(i) /\ Known(i) /\ (R2(i) \/ R1(i) \/ LDI(i) \/ PodRead(i) \/ PodWrite(i))
  BY DEF Complete
<1>2. i.rd \in Reg /\ i.imm \in Int
  BY SMTT(20) DEF Instr
<1>3. ASSUME NEW p \in Int, NEW q \in Int, set_word(i.rd, <<p, q>>)
      PROVE  x' \in [Reg -> Register] /\ xlattice_ovf' \in BOOLEAN
  BY <1>2, <1>3, SetWord
<1>4. ASSUME Stores(i) PROVE x' \in [Reg -> Register] /\ xlattice_ovf' \in BOOLEAN
  BY <1>3, <1>4 DEF Stores
<1>5. ASSUME count_pod PROVE hex_bits_moved' \in Nat
  BY <1>5 DEF EmuType, count_pod
<1>6. CASE R2(i)
  <2>1. x' \in [Reg -> Register] /\ xlattice_ovf' \in BOOLEAN
    BY <1>1, <1>4, <1>6, R2Stores
  <2>2. UNCHANGED <<hex_mem, hex_bits_moved>>
    BY <1>6 DEF R2
  <2> QED
    BY <2>1, <2>2 DEF EmuType
<1>7. CASE R1(i)
  <2>1. x' \in [Reg -> Register] /\ xlattice_ovf' \in BOOLEAN
    BY <1>1, <1>4, <1>7, R1Stores
  <2>2. UNCHANGED <<hex_mem, hex_bits_moved>>
    BY <1>7 DEF R1
  <2> QED
    BY <2>1, <2>2 DEF EmuType
<1>8. CASE LDI(i)
  <2>1. set_word(i.rd, <<i.imm, 0>>) /\ UNCHANGED <<hex_mem, hex_bits_moved>>
    BY <1>8 DEF LDI
  <2>2. x' \in [Reg -> Register] /\ xlattice_ovf' \in BOOLEAN
    BY <1>2, <1>3, <2>1
  <2> QED
    BY <2>1, <2>2 DEF EmuType
<1>9. CASE PodRead(i)
  <2> DEFINE c == decode_word(x[i.rs1])
             F == ring(hex_mem, c)
             u == Cell(hex_mem, c)
  <2>1. u \in Int /\ F \in [Angle -> Int]
    <3>1. u \in Int /\ F \in [Angle -> Wide8]
      BY RingTyped
    <3>2. Wide8 \subseteq Int
      BY DEF Wide8
    <3> HIDE DEF u, F
    <3> QED
      BY <3>1, <3>2
  <2>2. /\ UNCHANGED hex_mem /\ count_pod /\ i.f7 \in {0, 1}
        /\ i.f7 = 0 => UNCHANGED xlattice_ovf /\ SetRegister(i.rd, encode_pair(tgrad(F)))
        /\ i.f7 = 1 => set_word(i.rd, <<HeatStep(u, F), 0>>)
    BY <1>1, <1>9, PodReadStores
  <2> HIDE DEF c, F, u
  <2>3. HeatStep(u, F) \in Int /\ \E m, n \in Int : tgrad(F) = <<m, n>>
    BY <2>1, FieldInts
  <2>4. encode_pair(tgrad(F)) \in Register
    BY <2>3, EncodedPair
  <2>5. CASE i.f7 = 0
    <3>1. xlattice_ovf' \in BOOLEAN
      BY <2>2, <2>5 DEF EmuType
    <3>2. x' = IF i.rd = 0 THEN x ELSE [x EXCEPT ![i.rd] = encode_pair(tgrad(F))]
      BY <2>2, <2>5 DEF SetRegister
    <3>3. x' \in [Reg -> Register]
      BY <1>2, <2>4, <3>2 DEF EmuType
    <3> QED
      BY <1>5, <2>2, <3>1, <3>3 DEF EmuType
  <2>6. CASE i.f7 = 1
    <3>1. x' \in [Reg -> Register] /\ xlattice_ovf' \in BOOLEAN
      BY <1>3, <2>2, <2>3, <2>6
    <3> QED
      BY <1>5, <2>2, <3>1 DEF EmuType
  <2> QED
    BY <2>2, <2>5, <2>6
<1>10. CASE PodWrite(i)
  <2>1. /\ set_word(i.rd, <<0, 0>>) /\ count_pod
        /\ hex_mem' \in [DOMAIN hex_mem' -> Wide8] /\ DOMAIN hex_mem' \subseteq Int \X Int
    BY <1>1, <1>10, PodWriteStores
  <2>2. x' \in [Reg -> Register] /\ xlattice_ovf' \in BOOLEAN
    BY <1>3, <2>1
  <2> QED
    BY <1>5, <2>1, <2>2 DEF EmuType
<1> QED
  BY <1>1, <1>6, <1>7, <1>8, <1>9, <1>10

LEMMA EmuInit == Init => EmuType
<1> SUFFICES ASSUME Init PROVE EmuType
  OBVIOUS
<1>1. Nulls(16) \in Register
  BY NullsWord DEF Register, WordOf
<1>2. hex_mem = [c \in {} |-> 0]
  BY DEF Init
<1>3. DOMAIN hex_mem = {}
  BY <1>2
<1>4. hex_mem \in [DOMAIN hex_mem -> Wide8]
  BY <1>2
<1> QED
  BY <1>1, <1>3, <1>4 DEF Init, EmuType

LEMMA EmuStep == EmuType /\ [Next]_emuVars => EmuType'
<1> SUFFICES ASSUME EmuType, [Next]_emuVars PROVE EmuType'
  OBVIOUS
<1>1. ASSUME NEW i \in Instrs, custom0(i) PROVE EmuType'
  <2>1. i \in Instr
    BY XlatticeAssumption
  <2>2. RaiseCanary(i) \/ Unimplemented(i) \/ Complete(i)
    BY <1>1 DEF custom0
  <2>3. CASE RaiseCanary(i)
    BY <2>3 DEF RaiseCanary, EmuType
  <2>4. CASE Unimplemented(i)
    <3>1. UNCHANGED <<x, xlattice_ovf, hex_mem>>
      BY <2>4 DEF Unimplemented
    <3>2. hex_bits_moved' \in Nat
      <4>1. IF i.f3 = 3 THEN count_pod ELSE UNCHANGED hex_bits_moved
        BY <2>4 DEF Unimplemented
      <4> QED
        BY <4>1 DEF count_pod, EmuType
    <3> QED
      BY <3>1, <3>2 DEF EmuType
  <2>5. CASE Complete(i)
    BY <2>1, <2>5, CompleteTyped
  <2> QED
    BY <2>2, <2>3, <2>4, <2>5
<1>2. CASE BaseWrite
  <2>1. PICK r \in Reg \ {0}, w \in RawWords : x' = [x EXCEPT ![r] = w]
    BY <1>2 DEF BaseWrite
  <2>2. w \in Register
    BY XlatticeAssumption
  <2>3. UNCHANGED <<xlattice_ovf, hex_mem, hex_bits_moved>>
    BY <1>2 DEF BaseWrite
  <2>4. x' \in [Reg -> Register]
    BY <2>1, <2>2 DEF EmuType
  <2> QED
    BY <2>3, <2>4 DEF EmuType
<1>3. CASE HostWrite
  <2>1. PICK h \in HostWrites :
          hex_mem' = [c \in DOMAIN h \cup DOMAIN hex_mem |->
                        IF c \in DOMAIN h THEN h[c] ELSE hex_mem[c]]
    BY <1>3 DEF HostWrite
  <2>2. DOMAIN h \subseteq Int \X Int /\ \A c \in DOMAIN h : h[c] \in Wide8
    BY XlatticeAssumption
  <2>3. UNCHANGED <<x, xlattice_ovf, hex_bits_moved>>
    BY <1>3 DEF HostWrite
  <2>4. hex_mem' \in [DOMAIN hex_mem' -> Wide8] /\ DOMAIN hex_mem' \subseteq Int \X Int
    BY <2>1, <2>2 DEF EmuType
  <2> QED
    BY <2>3, <2>4 DEF EmuType
<1>4. CASE UNCHANGED emuVars
  BY <1>4 DEF emuVars, EmuType
<1> QED
  BY <1>1, <1>2, <1>3, <1>4 DEF Next

(* The emulator keeps the types: a register always holds sixteen codes,    *)
(* and the store, whatever TRECON and the host program put in it, only     *)
(* cells at lattice points, each of eight trits.                           *)
THEOREM EmuTyped == Spec => []EmuType
<1> QED
  BY EmuInit, EmuStep, PTL DEF Spec

-----------------------------------------------------------------------------
(* The properties of a step.                                               *)

(* A step with an instruction in op is that instruction's.                 *)
LEMMA Performed ==
  ASSUME Next, op' # <<>>, NEW i, i = op'[1]
  PROVE  /\ i \in Instr /\ (RaiseCanary(i) \/ Unimplemented(i) \/ Complete(i))
         /\ status' = "running" <=> Complete(i)
<1>1. PICK k \in Instrs : custom0(k)
  BY DEF Next, BaseWrite, HostWrite
<1>2. op' = <<k>> /\ (RaiseCanary(k) \/ Unimplemented(k) \/ Complete(k))
  BY <1>1 DEF custom0
<1>3. i = k
  BY <1>2
<1>4. i \in Instr
  BY <1>3, XlatticeAssumption
<1>5. status' = "running" => ~RaiseCanary(i) /\ ~Unimplemented(i)
  BY DEF RaiseCanary, Unimplemented
<1>6. Complete(i) => status' = "running"
  BY <1>1 DEF custom0, Running, Complete
<1> QED
  BY <1>2, <1>3, <1>4, <1>5, <1>6

(* Which format completes.                                                 *)
LEMMA Formats ==
  ASSUME NEW i, Complete(i)
  PROVE  /\ ~Canary(i) /\ Known(i)
         /\ i.f3 \in {0, 1} => R2(i) \/ R1(i)
         /\ i.f3 = 3 => PodRead(i)
         /\ i.f3 = 4 => PodWrite(i)
         /\ i.f3 \notin {3, 4} => UNCHANGED hex_bits_moved
<1>1. R2(i) => i.f3 = 0 /\ UNCHANGED hex_bits_moved
  BY DEF R2
<1>2. R1(i) => i.f3 = 1 /\ UNCHANGED hex_bits_moved
  BY DEF R1
<1>3. LDI(i) => i.f3 = 2 /\ UNCHANGED hex_bits_moved
  BY DEF LDI
<1>4. PodRead(i) => i.f3 = 3
  BY DEF PodRead
<1>5. PodWrite(i) => i.f3 = 4
  BY DEF PodWrite
<1>6. ~Canary(i) /\ Known(i) /\ (R2(i) \/ R1(i) \/ LDI(i) \/ PodRead(i) \/ PodWrite(i))
  BY DEF Complete
<1> QED
  BY <1>1, <1>2, <1>3, <1>4, <1>5, <1>6

(* An instruction of the first two formats that completes.                 *)
LEMMA StoresPoint ==
  ASSUME EmuType, NEW i \in Instr, Complete(i), i.f3 \in {0, 1}
  PROVE  Stores(i)
<1>1. ~Canary(i) /\ Known(i) /\ (R2(i) \/ R1(i))
  BY Formats
<1> QED
  BY <1>1, R2Stores, R1Stores

(* A step ends at the canary exactly when a format decodes an 11, and then *)
(* writes nothing.                                                         *)
LEMMA CanaryEnds ==
  ASSUME Next, op' # <<>>, NEW i, i = op'[1]
  PROVE  /\ status' = "canary" <=> Canary(i)
         /\ status' = "canary" => UNCHANGED <<x, xlattice_ovf>>
<1>1. /\ RaiseCanary(i) \/ Unimplemented(i) \/ Complete(i)
      /\ Complete(i) => status' = "running"
  BY Performed
<1>2. RaiseCanary(i) => Canary(i) /\ status' = "canary" /\ UNCHANGED <<x, xlattice_ovf>>
  BY DEF RaiseCanary
<1>3. Unimplemented(i) => ~Canary(i) /\ status' = "unimplemented"
  BY DEF Unimplemented
<1>4. Complete(i) => ~Canary(i)
  BY DEF Complete
<1> QED
  BY <1>1, <1>2, <1>3, <1>4

(* What an instruction of the first two formats that completes leaves.     *)
LEMMA MirroredResult ==
  ASSUME EmuType, Next, op' # <<>>, status' = "running", NEW i, i = op'[1], i.f3 \in 0 .. 1,
         NEW r, r = ByCells(i, x[i.rs1], x[i.rs2]), NEW k, k = i.rs2 % 8,
         NEW trot, trot = (i.f3 = 0 /\ i.f7 = 2)
  PROVE  /\ i.rd # 0 =>
              (x'[i.rd] = Ext(r.rd, 16) <=> (trot /\ k > 5 => decode_word(x[i.rs1]) = <<0, 0>>))
         /\ xlattice_ovf' <=> xlattice_ovf \/ (r.ovf /\ ~(trot /\ k % 3 = 0))
<1>1. i \in Instr /\ Complete(i)
  BY Performed
<1>2. i.rd \in Reg /\ i.f3 \in {0, 1}
  BY <1>1 DEF Instr
<1>3. Stores(i)
  BY <1>1, <1>2, StoresPoint
<1>4. PICK p \in Int, q \in Int : set_word(i.rd, <<p, q>>) /\ Follows(i, r, <<p, q>>)
  BY <1>3 DEF Stores
<1>5. /\ i.rd # 0 => x'[i.rd] = encode_word(<<p, q>>)
      /\ xlattice_ovf' <=> xlattice_ovf \/ ~fits6(p) \/ ~fits6(q)
  BY <1>2, <1>4, SetWord
<1>6. /\ encode_word(<<p, q>>) = Ext(r.rd, 16)
           <=> (trot /\ k > 5 => decode_word(x[i.rs1]) = <<0, 0>>)
      /\ ~fits6(p) \/ ~fits6(q) <=> r.ovf /\ ~(trot /\ k % 3 = 0)
  BY <1>4 DEF Follows
<1> QED
  BY <1>5, <1>6

LEMMA MirroredSteps ==
  ASSUME EmuType, Next
  PROVE  MirroredStep
<1> DEFINE i == op'[1]
           z == x[i.rs1]
           k == i.rs2 % 8
           trot == i.f3 = 0 /\ i.f7 = 2
           Ports == IF i.f3 = 0 THEN {z, x[i.rs2]} ELSE {z}
           r == ByCells(i, z, x[i.rs2])
<1>1. ASSUME op' # <<>>, status' = "running", i.f3 \in 0 .. 1
      PROVE  /\ i.rd # 0 =>
                  (x'[i.rd] = Ext(r.rd, 16) <=> trot /\ k > 5 => decode_word(z) = <<0, 0>>)
             /\ xlattice_ovf' <=> xlattice_ovf \/ (r.ovf /\ ~(trot /\ k % 3 = 0))
  BY <1>1, MirroredResult
<1>2. ASSUME op' # <<>>, i.f3 \in 0 .. 1
      PROVE  /\ status' = "canary" <=> \E v \in Ports : HasNever(AField(v)) \/ HasNever(BField(v))
             /\ status' = "canary" => UNCHANGED <<x, xlattice_ovf>>
  <2>1. /\ status' = "canary" <=> Canary(i)
        /\ status' = "canary" => UNCHANGED <<x, xlattice_ovf>>
    BY <1>2, CanaryEnds
  <2> HIDE DEF i
  <2>2. Canary(i) <=> \E v \in Ports : HasNever(AField(v)) \/ HasNever(BField(v))
    <3>1. CASE i.f3 = 0
      <4>1. Decodes(i) = {AField(z), BField(z), AField(x[i.rs2]), BField(x[i.rs2])}
        BY <3>1 DEF Decodes
      <4>2. Ports = {z, x[i.rs2]}
        BY <3>1
      <4> HIDE DEF z, Ports
      <4> QED
        BY <4>1, <4>2 DEF Canary
    <3>2. CASE i.f3 = 1
      <4>1. Decodes(i) = {AField(z), BField(z)}
        BY <3>2 DEF Decodes
      <4>2. Ports = {z}
        BY <3>2
      <4> HIDE DEF z, Ports
      <4> QED
        BY <4>1, <4>2 DEF Canary
    <3> QED
      BY <1>2, <3>1, <3>2
  <2> HIDE DEF Ports
  <2> QED
    BY <2>1, <2>2
<1> HIDE DEF r
<1> QED
  BY <1>1, <1>2 DEF MirroredStep, r

(* The emulator beside the cells of the RTL, for every word in its         *)
(* registers (xlattice.py:26, cpu.v:172-223): an instruction of the first  *)
(* two formats that completes leaves in rd what the cells leave, and the   *)
(* latch takes up their fit flags, except where TROT differs: for the      *)
(* angles 6 and 7, where the two results agree only on the point 0, and    *)
(* for the angles 0, 3 and 6, whose flag is that of an unused sum.  An 11  *)
(* at a port, and nothing else, ends the run before anything is written.   *)
THEOREM MirrorsCorrect == Spec => MirrorsCells
<1>1. EmuType /\ [Next]_emuVars => [MirroredStep]_emuVars
  BY MirroredSteps
<1> QED
  BY <1>1, EmuTyped, PTL DEF Spec, MirrorsCells

LEMMA AnsweredSteps ==
  ASSUME EmuType, Next
  PROVE  AnsweredStep
<1> DEFINE i == op'[1]
           v == x[i.rs1]
           w == x[i.rs2]
           p == Pcpi(TRUE, TRUE, i, v, w)
           Four == {<<1, 1>>, <<0, 4>>, <<0, 5>>, <<0, 6>>}
           rd == Ext(Cfu(i.f3, i.f7, v, w).rd, 16)
<1>1. /\ p.ready /\ p.wr /\ p.rd = rd
      /\ NeorvCfu(TRUE, i, v, w) = [valid |-> TRUE, result |-> p.rd]
  <2> HIDE DEF i, v, w
  <2> QED
    BY DEF Pcpi, NeorvCfu
<1>2. ASSUME op' # <<>>, status' # "canary", i.rd # 0
      PROVE  status' = "running" /\ x'[i.rd] = rd
               <=> \/ <<i.f3, i.f7>> \in Four
                   \/ status' = "running" /\ x'[i.rd] = Nulls(16)
  <2>1. CASE <<i.f3, i.f7>> \in Four
    <3>1. /\ i \in Instr /\ (RaiseCanary(i) \/ Unimplemented(i) \/ Complete(i))
          /\ Complete(i) => status' = "running"
      BY <1>2, Performed
    <3>2. (i.f3 = 1 /\ i.f7 = 1) \/ (i.f3 = 0 /\ i.f7 \in {4, 5, 6})
      <4> HIDE DEF i
      <4> QED
        BY <2>1
    <3>3. status' = "running"
      <4>1. Known(i)
        BY <3>2 DEF Known
      <4>2. ~RaiseCanary(i) /\ ~Unimplemented(i)
        BY <1>2, <4>1 DEF RaiseCanary, Unimplemented
      <4> QED
        BY <3>1, <4>2
    <3>4. ByCells(i, v, w) = Cfu(i.f3, i.f7, v, w)
      <4> HIDE DEF i, v, w
      <4>1. CASE i.f3 = 1 /\ i.f7 = 1
        BY <4>1 DEF ByCells
      <4>2. CASE i.f3 = 0 /\ i.f7 = 4
        BY <4>2 DEF ByCells
      <4>3. CASE i.f3 = 0 /\ i.f7 = 5
        BY <4>3 DEF ByCells
      <4>4. CASE i.f3 = 0 /\ i.f7 = 6
        BY <4>4 DEF ByCells
      <4> QED
        BY <3>2, <4>1, <4>2, <4>3, <4>4
    <3>5. x'[i.rd] = Ext(ByCells(i, v, w).rd, 16)
      <4>1. i.f3 \in 0 .. 1 /\ ~(i.f3 = 0 /\ i.f7 = 2)
        BY <3>2
      <4> DEFINE r == ByCells(i, v, w)
                 k == i.rs2 % 8
                 trot == i.f3 = 0 /\ i.f7 = 2
      <4>2. x'[i.rd] = Ext(r.rd, 16) <=> (trot /\ k > 5 => decode_word(v) = <<0, 0>>)
        BY <1>2, <3>3, <4>1, MirroredResult
      <4> HIDE DEF r, k
      <4> QED
        BY <4>1, <4>2 DEF r
    <3> QED
      BY <2>1, <3>3, <3>4, <3>5
  <2>2. CASE <<i.f3, i.f7>> \notin Four
    <3>1. Cfu(i.f3, i.f7, v, w) = Point6(Nulls(6), Nulls(6), FALSE)
      <4> HIDE DEF i, v, w
      <4>1. /\ ~(i.f3 = 1 /\ i.f7 = 1) /\ ~(i.f3 = 0 /\ i.f7 = 4)
            /\ ~(i.f3 = 0 /\ i.f7 = 5) /\ ~(i.f3 = 0 /\ i.f7 = 6)
        BY <2>2
      <4> QED
        BY <4>1 DEF Cfu
    <3>2. rd = Nulls(16)
      BY <3>1, NothingStored DEF Point6
    <3> HIDE DEF rd, i, v, w
    <3> QED
      BY <2>2, <3>2
  <2> QED
    BY <2>1, <2>2
<1> HIDE DEF p, rd
<1> QED
  BY <1>1, <1>2 DEF AnsweredStep, p

(* The ports of the RTL and the emulator, for every word in the registers: *)
(* the ports answer every instruction in the cycle it is offered, and      *)
(* their answer is the emulator's exactly on the four instructions the     *)
(* co-processor knows and on a zero (picorv32_pcpi_xlattice.v:42-43).      *)
THEOREM PortsCorrect == Spec => PortAnswers
<1>1. EmuType /\ [Next]_emuVars => [AnsweredStep]_emuVars
  BY AnsweredSteps
<1> QED
  BY <1>1, EmuTyped, PTL DEF Spec, PortAnswers

-----------------------------------------------------------------------------
(* The pod instructions.                                                   *)

(* The derivative of the canonical field is what it was built from.        *)
LEMMA ReconThenGrad ==
  ASSUME NEW m \in Int, NEW n \in Int
  PROVE  tgrad(trecon(<<m, n>>)) = <<m, n>>
<1> DEFINE F == trecon(<<m, n>>)
<1>1. F = [k \in {0, 1, 2, 3, 4, 5} |-> IF k = 0 THEN m ELSE IF k = 1 THEN n ELSE 0]
  <2>1. Angle = {0, 1, 2, 3, 4, 5}
    BY DEF Angle
  <2>2. \A k \in Angle : (CASE k = 0 -> <<m, n>>[1] [] k = 1 -> <<m, n>>[2] [] OTHER -> 0)
                         = (IF k = 0 THEN m ELSE IF k = 1 THEN n ELSE 0)
    OBVIOUS
  <2> QED
    BY <2>1, <2>2 DEF trecon
<1>2. F[0] = m /\ F[1] = n /\ F[2] = 0 /\ F[3] = 0 /\ F[4] = 0 /\ F[5] = 0
  BY <1>1
<1> HIDE DEF F
<1>3. tgrad(F) = <<m, n>>
  BY <1>2 DEF tgrad
<1> QED
  BY <1>3 DEF F

(* A number is its low six trits exactly when it is one of six trits.      *)
LEMMA LowSix ==
  ASSUME NEW v \in Int
  PROVE  RTL!Low6(v) = v <=> v \in RTL!Coef
BY DEF RTL!Low6, RTL!Coef, RTL!Max6

(* The canonical field is the one the RTL stores exactly when its fit flag *)
(* is down.                                                                *)
LEMMA ReconCut ==
  ASSUME NEW m \in Int, NEW n \in Int
  PROVE  RTL!Ofit(m, n) <=> trecon(<<m, n>>) # RTL!Recon(m, n)
<1> DEFINE F == trecon(<<m, n>>)
           G == RTL!Recon(m, n)
<1>1. /\ F = [k \in 0 .. 5 |-> IF k = 0 THEN m ELSE IF k = 1 THEN n ELSE 0]
      /\ G = [k \in 0 .. 5 |-> IF k = 0 THEN RTL!Low6(m) ELSE IF k = 1 THEN RTL!Low6(n) ELSE 0]
  BY DEF trecon, Angle, RTL!Recon, RTL!Dir
<1>2. /\ F[0] = m /\ F[1] = n /\ G[0] = RTL!Low6(m) /\ G[1] = RTL!Low6(n)
      /\ \A k \in 0 .. 5 : k \notin {0, 1} => F[k] = G[k]
  BY <1>1
<1> HIDE DEF F, G
<1>3. F = G <=> RTL!Low6(m) = m /\ RTL!Low6(n) = n
  <2>1. ASSUME F = G PROVE RTL!Low6(m) = m /\ RTL!Low6(n) = n
    BY <1>2, <2>1
  <2>2. ASSUME RTL!Low6(m) = m, RTL!Low6(n) = n PROVE F = G
    BY <1>1, <2>2
  <2> QED
    BY <2>1, <2>2
<1>4. F = G <=> m \in RTL!Coef /\ n \in RTL!Coef
  BY <1>3, LowSix
<1> QED
  BY <1>4 DEF F, G, RTL!Ofit

(* A pair of eight-trit words, decoded and encoded again.                  *)
LEMMA PairBack ==
  ASSUME NEW w \in Register, SubSeq(w, 1, 8) \in Words(8), SubSeq(w, 9, 16) \in Words(8)
  PROVE  encode_pair(decode_pair(w)) = w
<1> DEFINE a == SubSeq(w, 1, 8)
           b == SubSeq(w, 9, 16)
<1>1. a \o b = w
  BY RegisterParts
<1>2. a \in Words(8) /\ b \in Words(8)
  OBVIOUS
<1>3. decode_pair(w) = <<decode_field(a), decode_field(b)>>
  BY DEF decode_pair
<1> HIDE DEF a, b
<1>4. encode_field(decode_field(a), 8) = a /\ encode_field(decode_field(b), 8) = b
  BY <1>2, EncodeDecode
<1> QED
  BY <1>1, <1>3, <1>4 DEF encode_pair

(* fits6 as bounds.                                                        *)
LEMMA SixBounds ==
  ASSUME NEW v \in Int
  PROVE  fits6(v) <=> -364 <= v /\ v <= 364
BY DEF fits6

(* The derivative of a field of six-trit values fits eight trits.          *)
LEMMA GradFits ==
  ASSUME NEW F \in [Angle -> Int], \A k \in Angle : fits6(F[k])
  PROVE  decode_pair(encode_pair(tgrad(F))) = tgrad(F)
<1> DEFINE m == F[0] - F[2] - F[3] + F[5]
           n == F[1] + F[2] - F[4] - F[5]
<1>1. tgrad(F) = <<m, n>>
  BY DEF tgrad
<1>2. m \in Int /\ -3280 <= m /\ m <= 3280 /\ n \in Int /\ -3280 <= n /\ n <= 3280
  <2> DEFINE Six(v) == v \in Int /\ -364 <= v /\ v <= 364
  <2>1. ASSUME NEW k \in Angle PROVE Six(F[k])
    <3>1. F[k] \in Int /\ fits6(F[k])
      OBVIOUS
    <3>2. -364 <= F[k] /\ F[k] <= 364
      BY <3>1, SixBounds
    <3> QED
      BY <3>1, <3>2
  <2> HIDE DEF Six
  <2>2. Six(F[0]) /\ Six(F[1]) /\ Six(F[2]) /\ Six(F[3]) /\ Six(F[4]) /\ Six(F[5])
    BY <2>1 DEF Angle
  <2>3. ASSUME NEW r, NEW s, NEW t, NEW u, Six(r), Six(s), Six(t), Six(u)
        PROVE  /\ r - s - t + u \in Int /\ -3280 <= r - s - t + u /\ r - s - t + u <= 3280
               /\ r + s - t - u \in Int /\ -3280 <= r + s - t - u /\ r + s - t - u <= 3280
    BY <2>3 DEF Six
  <2> QED
    BY <2>2, <2>3
<1> HIDE DEF m, n
<1>3. Greatest(8) = 3280
  BY GreatestIs
<1>4. /\ m \in Int /\ -Greatest(8) <= m /\ m <= Greatest(8)
      /\ n \in Int /\ -Greatest(8) <= n /\ n <= Greatest(8)
  BY <1>2, <1>3
<1>5. decode_field(encode_field(m, 8)) = m /\ decode_field(encode_field(n, 8)) = n
  BY <1>4, EncodeDecode
<1>6. decode_pair(encode_pair(<<m, n>>)) = <<m, n>>
  BY <1>4, <1>5, EncodedPair
<1> QED
  BY <1>1, <1>6

(* The centre of a pod that is read or written is a point.                 *)
LEMMA Centre ==
  ASSUME EmuType, NEW i \in Instr, ~Canary(i), i.f3 \in {3, 4},
         NEW c, c = decode_word(x[IF i.f3 = 4 THEN i.rs2 ELSE i.rs1])
  PROVE  \E p, q \in Int : c = <<p, q>>
<1> DEFINE w == x[IF i.f3 = 4 THEN i.rs2 ELSE i.rs1]
<1>1. AField(w) \in Words(6) /\ BField(w) \in Words(6)
  BY Decoded
<1> HIDE DEF w
<1>2. \E p, q \in Int : decode_word(w) = <<p, q>>
  BY <1>1, PointOf
<1> QED
  BY <1>2 DEF w

(* The words of the store counted by a step.                               *)
LEMMA Counted ==
  ASSUME EmuType, Next, op' # <<>>, NEW i, i = op'[1],
         NEW c, c = decode_word(x[IF i.f3 = 4 THEN i.rs2 ELSE i.rs1])
  PROVE  hex_bits_moved' - hex_bits_moved =
           IF i.f3 \in {3, 4} /\ status' # "canary" THEN 32 * Cardinality(pod_cells(c)) ELSE 0
<1>1. /\ i \in Instr /\ (RaiseCanary(i) \/ Unimplemented(i) \/ Complete(i))
      /\ Complete(i) => status' = "running"
  BY Performed
<1>2. hex_bits_moved \in Nat
  BY DEF EmuType
<1>3. ASSUME count_pod, ~Canary(i), i.f3 \in {3, 4}
      PROVE  hex_bits_moved' - hex_bits_moved = 32 * Cardinality(pod_cells(c))
  <2>1. PICK p \in Int, q \in Int : c = <<p, q>>
    BY <1>1, <1>3, Centre
  <2>2. Cardinality(pod_cells(c)) = 7
    BY <2>1, PodOfSeven
  <2>3. hex_bits_moved' = hex_bits_moved + 7 * 32
    BY <1>3 DEF count_pod
  <2> QED
    BY <1>2, <2>2, <2>3
<1>4. UNCHANGED hex_bits_moved => hex_bits_moved' - hex_bits_moved = 0
  BY <1>2
<1>5. CASE RaiseCanary(i)
  BY <1>4, <1>5 DEF RaiseCanary
<1>6. CASE Unimplemented(i)
  <2>1. /\ status' = "unimplemented" /\ ~Canary(i) /\ ~Known(i)
        /\ IF i.f3 = 3 THEN count_pod ELSE UNCHANGED hex_bits_moved
    BY <1>6 DEF Unimplemented
  <2>2. i.f3 # 4
    BY <2>1 DEF Known
  <2>3. CASE i.f3 = 3
    BY <1>3, <2>1, <2>3
  <2>4. CASE i.f3 # 3
    BY <1>4, <2>1, <2>2, <2>4
  <2> QED
    BY <2>3, <2>4
<1>7. CASE Complete(i)
  <2>1. /\ ~Canary(i) /\ (i.f3 = 3 => PodRead(i)) /\ (i.f3 = 4 => PodWrite(i))
        /\ i.f3 \notin {3, 4} => UNCHANGED hex_bits_moved
    BY <1>7, Formats
  <2>2. CASE i.f3 \in {3, 4}
    <3>1. count_pod
      BY <2>1, <2>2 DEF PodRead, PodWrite
    <3> QED
      BY <1>1, <1>3, <1>7, <2>1, <2>2, <3>1
  <2>3. CASE i.f3 \notin {3, 4}
    BY <1>4, <2>1, <2>3
  <2> QED
    BY <2>2, <2>3
<1> QED
  BY <1>1, <1>5, <1>6, <1>7

(* What TGRAD leaves in a register.                                        *)
LEMMA GradStored ==
  ASSUME EmuType, NEW i \in Instr, Complete(i), i.f3 = 3, i.f7 = 0, i.rd # 0,
         NEW F, F = ring(hex_mem, decode_word(x[i.rs1]))
  PROVE  /\ UNCHANGED <<hex_mem, xlattice_ovf>> /\ F \in [Angle -> Int]
         /\ x'[i.rd] = encode_pair(tgrad(F))
<1>1. Known(i) /\ PodRead(i)
  BY Formats
<1>2. UNCHANGED <<hex_mem, xlattice_ovf>> /\ SetRegister(i.rd, encode_pair(tgrad(F)))
  BY <1>1, PodReadStores
<1>3. F \in [Angle -> Int]
  <2>1. F \in [Angle -> Wide8]
    BY RingTyped
  <2>2. Wide8 \subseteq Int
    BY DEF Wide8
  <2> QED
    BY <2>1, <2>2
<1>4. i.rd \in Reg
  BY DEF Instr
<1>5. x' = [x EXCEPT ![i.rd] = encode_pair(tgrad(F))]
  BY <1>2 DEF SetRegister
<1>6. x'[i.rd] = encode_pair(tgrad(F))
  BY <1>4, <1>5 DEF EmuType
<1> QED
  BY <1>2, <1>3, <1>6

LEMMA KeptSteps ==
  ASSUME EmuType, Next
  PROVE  KeptStep
<1> DEFINE i == op'[1]
           c == decode_word(x[IF i.f3 = 4 THEN i.rs2 ELSE i.rs1])
           j == tgrad(ring(hex_mem', c))
<1>1. ASSUME op' # <<>>
      PROVE  hex_bits_moved' - hex_bits_moved =
               IF i.f3 \in {3, 4} /\ status' # "canary" THEN 32 * Cardinality(pod_cells(c)) ELSE 0
  BY <1>1, Counted
<1>2. ASSUME op' # <<>>, status' = "running", i.f3 = 4
      PROVE  /\ j = decode_pair(x[i.rs1]) /\ encode_pair(j) = x[i.rs1]
             /\ RTL!Ofit(j[1], j[2]) <=> ring(hex_mem', c) # RTL!Recon(j[1], j[2])
             /\ i.rd # 0 => x'[i.rd] = Nulls(16)
             /\ xlattice_ovf' = xlattice_ovf
  <2>1. i \in Instr /\ Complete(i)
    BY <1>2, Performed
  <2> HIDE DEF i
  <2>2. ~Canary(i) /\ PodWrite(i)
    BY <1>2, <2>1, Formats
  <2>3. /\ ring(hex_mem', decode_word(x[i.rs2])) = trecon(decode_pair(x[i.rs1]))
        /\ set_word(i.rd, <<0, 0>>)
    BY <2>1, <2>2, PodWriteStores
  <2> DEFINE v == x[i.rs1]
             F == ring(hex_mem', c)
  <2>4. v \in Register /\ SubSeq(v, 1, 8) \in Words(8) /\ SubSeq(v, 9, 16) \in Words(8)
    BY <1>2, <2>1, <2>2, Decoded
  <2>5. F = trecon(decode_pair(v)) /\ j = tgrad(F)
    BY <1>2, <2>3
  <2> HIDE DEF v, j, F
  <2>6. PICK m \in Wide8, n \in Wide8 : decode_pair(v) = <<m, n>>
    BY <2>4, PairOf
  <2>7. m \in Int /\ n \in Int
    BY DEF Wide8
  <2>8. j = decode_pair(v)
    BY <2>5, <2>6, <2>7, ReconThenGrad
  <2>9. encode_pair(j) = v
    BY <2>4, <2>8, PairBack
  <2>10. RTL!Ofit(j[1], j[2]) <=> F # RTL!Recon(j[1], j[2])
    <3>1. F = trecon(<<m, n>>) /\ j[1] = m /\ j[2] = n
      BY <2>5, <2>6, <2>8
    <3> QED
      BY <2>7, <3>1, ReconCut
  <2>11. /\ i.rd # 0 => x'[i.rd] = encode_word(<<0, 0>>)
         /\ xlattice_ovf' \in BOOLEAN
         /\ xlattice_ovf' <=> xlattice_ovf \/ ~fits6(0) \/ ~fits6(0)
    <3>1. i.rd \in Reg
      BY <2>1 DEF Instr
    <3> QED
      BY <2>3, <3>1, SetWord
  <2>12. fits6(0) /\ xlattice_ovf \in BOOLEAN
    BY DEF fits6, EmuType
  <2>13. (i.rd # 0 => x'[i.rd] = Nulls(16)) /\ xlattice_ovf' = xlattice_ovf
    BY <2>11, <2>12, NothingEncoded
  <2> QED
    BY <2>8, <2>9, <2>10, <2>13 DEF v, F
<1>3. ASSUME op' # <<>>, status' = "running", i.f3 = 3, i.f7 = 0, i.rd # 0,
             decode_pair(x'[i.rd]) # j
      PROVE  xlattice_ovf' = xlattice_ovf /\ \E k \in Angle : ~fits6(ring(hex_mem, c)[k])
  <2>1. i \in Instr /\ Complete(i)
    BY <1>3, Performed
  <2> DEFINE F == ring(hex_mem, decode_word(x[i.rs1]))
  <2>2. c = decode_word(x[i.rs1]) /\ F = ring(hex_mem, c)
    BY <1>3
  <2> HIDE DEF i, F
  <2>3. /\ UNCHANGED <<hex_mem, xlattice_ovf>> /\ F \in [Angle -> Int]
        /\ x'[i.rd] = encode_pair(tgrad(F))
    BY <1>3, <2>1, GradStored DEF F
  <2>4. j = tgrad(F)
    BY <2>2, <2>3
  <2> HIDE DEF c, j
  <2>5. \E k \in Angle : ~fits6(F[k])
    BY <1>3, <2>3, <2>4, GradFits
  <2> QED
    BY <2>2, <2>3, <2>5
<1> QED
  BY <1>1, <1>2, <1>3 DEF KeptStep

(* What the emulator's TRECON and TGRAD keep, for every word and every     *)
(* store (xlattice.py:166-185): TRECON all eight trits of the derivative   *)
(* it is given, which is the pod of grad_recon.v exactly when the fit flag *)
(* there is down, with status 0 and no latch either way                    *)
(* (xlattice_encoding.md 3.4 has six trits and status 1); TGRAD, except on *)
(* cells wider than six trits; and every pod counts its seven words.       *)
THEOREM PodKeepsCorrect == Spec => PodKeeps
<1>1. EmuType /\ [Next]_emuVars => [KeptStep]_emuVars
  BY KeptSteps
<1> QED
  BY <1>1, EmuTyped, PTL DEF Spec, PodKeeps

-----------------------------------------------------------------------------
(* The heat step.                                                          *)

(* Rounded down, and rounded to nearest as the RTL does, over a pod whose  *)
(* values lie between two bounds.                                          *)
LEMMA Rounding ==
  ASSUME NEW u \in Int, NEW S \in Int, NEW h, h = u \div 3 + S \div 9,
         NEW r, r = (u + 1) \div 3 + (S + 4) \div 9
  PROVE  /\ h \in Int /\ r \in Int /\ r - h \in 0 .. 2
         /\ 9 * h <= 3 * u + S /\ 3 * u + S <= 9 * h + 14
         /\ 9 * r <= 3 * u + S + 7 /\ 3 * u + S <= 9 * r + 7
<1> DEFINE a == u \div 3
           b == S \div 9
           c == (u + 1) \div 3
           d == (S + 4) \div 9
<1>1. /\ a \in Int /\ 3 * a <= u /\ u <= 3 * a + 2
      /\ b \in Int /\ 9 * b <= S /\ S <= 9 * b + 8
      /\ c \in Int /\ 3 * c <= u + 1 /\ u + 1 <= 3 * c + 2
      /\ d \in Int /\ 9 * d <= S + 4 /\ S + 4 <= 9 * d + 8
  OBVIOUS
<1>2. h = a + b /\ r = c + d
  OBVIOUS
<1> HIDE DEF a, b, c, d
<1>3. c - a \in 0 .. 1 /\ d - b \in 0 .. 1
  BY <1>1
<1> QED
  BY <1>1, <1>2, <1>3

(* Seven values of six trits: some value is at most one above the result,  *)
(* and some at least the result; the result of the RTL fits.               *)
LEMMA HeatBounds ==
  ASSUME NEW u \in Int, NEW p \in Int, NEW q \in Int, NEW r \in Int, NEW s \in Int,
         NEW t \in Int, NEW v \in Int, NEW Pod, Pod = {u, p, q, r, s, t, v},
         \A y \in Pod : -364 <= y /\ y <= 364,
         NEW S, S = p + q + r + s + t + v, NEW h, h = u \div 3 + S \div 9,
         NEW n, n = (u + 1) \div 3 + (S + 4) \div 9
  PROVE  /\ h \in Int /\ n - h \in 0 .. 2 /\ -364 <= n /\ n <= 364 /\ n \in Int
         /\ h >= -365 /\ h <= 364
         /\ \E y \in Pod : y - 1 <= h
         /\ \E y \in Pod : h <= y
         /\ h = -365 => -364 \in Pod
<1>1. S \in Int
  OBVIOUS
<1>2. /\ h \in Int /\ n \in Int /\ n - h \in 0 .. 2
      /\ 9 * h <= 3 * u + S /\ 3 * u + S <= 9 * h + 14
      /\ 9 * n <= 3 * u + S + 7 /\ 3 * u + S <= 9 * n + 7
  BY <1>1, Rounding
<1>3. ASSUME NEW m \in Int, \A y \in Pod : m <= y
      PROVE  9 * m <= 3 * u + S
  <2>1. m <= u /\ m <= p /\ m <= q /\ m <= r /\ m <= s /\ m <= t /\ m <= v
    BY <1>3
  <2> QED
    BY <2>1
<1>4. ASSUME NEW m \in Int, \A y \in Pod : y <= m
      PROVE  3 * u + S <= 9 * m
  <2>1. u <= m /\ p <= m /\ q <= m /\ r <= m /\ s <= m /\ t <= m /\ v <= m
    BY <1>4
  <2> QED
    BY <2>1
<1>5. Pod \subseteq Int
  OBVIOUS
<1>6. 9 * (-364) <= 3 * u + S /\ 3 * u + S <= 9 * 364
  BY <1>3, <1>4
<1>7. \E y \in Pod : y - 1 <= h
  <2> SUFFICES ASSUME \A y \in Pod : ~(y - 1 <= h) PROVE FALSE
    OBVIOUS
  <2> DEFINE m == h + 2
  <2>1. m \in Int /\ \A y \in Pod : m <= y
    BY <1>2, <1>5
  <2> HIDE DEF m
  <2>2. 9 * m <= 3 * u + S
    BY <1>3, <2>1
  <2> QED
    BY <1>1, <1>2, <2>2 DEF m
<1>8. \E y \in Pod : h <= y
  <2> SUFFICES ASSUME \A y \in Pod : ~(h <= y) PROVE FALSE
    OBVIOUS
  <2> DEFINE m == h - 1
  <2>1. m \in Int /\ \A y \in Pod : y <= m
    BY <1>2, <1>5
  <2> HIDE DEF m
  <2>2. 3 * u + S <= 9 * m
    BY <1>4, <2>1
  <2> QED
    BY <1>1, <1>2, <2>2 DEF m
<1>9. ASSUME h = -365, -364 \notin Pod PROVE FALSE
  <2> DEFINE m == -363
  <2>1. m \in Int /\ \A y \in Pod : m <= y
    BY <1>5, <1>9
  <2> HIDE DEF m
  <2>2. 9 * m <= 3 * u + S
    BY <1>3, <2>1
  <2> QED
    BY <1>1, <1>2, <1>9, <2>2 DEF m
<1> QED
  BY <1>1, <1>2, <1>6, <1>7, <1>8, <1>9

(* One below the least value: six trits wrap round to the greatest.        *)
LEMMA WrapsRound == decode_field(encode_field(-365, 6)) = 364
<1> DEFINE w == encode_field(-365, 6)
<1>1. w \in Words(6) /\ Worth(w, 6, -365)
  BY EncodeExact
<1> HIDE DEF w
<1>2. PICK q \in Int : Val(w) = -365 + q * Pow3[6]
  BY <1>1 DEF Worth
<1>3. Greatest(6) = 364 /\ Pow3[6] = 729
  BY GreatestIs, PowFacts
<1>4. Val(w) \in Int /\ -364 <= Val(w) /\ Val(w) <= 364
  BY <1>1, <1>3, ValBound
<1>5. Val(w) = 364
  BY <1>2, <1>3, <1>4
<1> QED
  BY <1>5 DEF decode_field, w

(* What TRELAX leaves in a register and in the latch.                      *)
LEMMA HeatStored ==
  ASSUME EmuType, NEW i \in Instr, Complete(i), i.f3 = 3, i.f7 = 1, i.rd # 0,
         NEW c, c = decode_word(x[i.rs1]),
         NEW h, h = HeatStep(Cell(hex_mem, c), ring(hex_mem, c))
  PROVE  /\ Cell(hex_mem, c) \in Int /\ ring(hex_mem, c) \in [Angle -> Int] /\ h \in Int
         /\ decode_word(x'[i.rd])[1] = decode_field(encode_field(h, 6))
         /\ xlattice_ovf' <=> xlattice_ovf \/ ~fits6(h)
<1> DEFINE F == ring(hex_mem, c)
           u == Cell(hex_mem, c)
<1>1. u \in Int /\ F \in [Angle -> Int]
  <2>1. u \in Int /\ F \in [Angle -> Wide8]
    BY RingTyped
  <2>2. Wide8 \subseteq Int
    BY DEF Wide8
  <2> HIDE DEF u, F
  <2> QED
    BY <2>1, <2>2
<1>2. set_word(i.rd, <<HeatStep(u, F), 0>>)
  <2>1. Known(i) /\ PodRead(i)
    BY Formats
  <2> QED
    BY <2>1, PodReadStores
<1> HIDE DEF u, F
<1>3. h = HeatStep(u, F) /\ h \in Int
  BY <1>1, FieldInts DEF u, F
<1>4. set_word(i.rd, <<h, 0>>) /\ i.rd \in Reg
  BY <1>2, <1>3 DEF Instr
<1>5. /\ x'[i.rd] = encode_word(<<h, 0>>)
      /\ xlattice_ovf' <=> xlattice_ovf \/ ~fits6(h) \/ ~fits6(0)
  BY <1>3, <1>4, SetWord
<1>6. fits6(0)
  BY DEF fits6
<1>7. AField(encode_word(<<h, 0>>)) = encode_field(h, 6)
  BY <1>3, EncodedWord
<1>8. decode_word(x'[i.rd])[1] = decode_field(encode_field(h, 6))
  BY <1>5, <1>7 DEF decode_word
<1> QED
  BY <1>1, <1>3, <1>5, <1>6, <1>8 DEF u, F

LEMMA HeatedSteps ==
  ASSUME EmuType, Next
  PROVE  HeatedStep
<1> DEFINE i == op'[1]
           c == decode_word(x[i.rs1])
           u == Cell(hex_mem, c)
           F == ring(hex_mem, c)
           pod == {u} \cup {F[k] : k \in Angle}
           v == decode_word(x'[i.rd])[1]
           S == F[0] + F[1] + F[2] + F[3] + F[4] + F[5]
           h == HeatStep(u, F)
           n == (u + 1) \div 3 + (S + 4) \div 9
<1>1. ASSUME op' # <<>>, status' = "running", i.f3 = 3, i.f7 = 1, i.rd # 0,
             \A p \in pod : fits6(p)
      PROVE  \/ /\ RTL!Relax(u, F) - v \in 0 .. 2
                /\ \E p \in pod : p - 1 <= v
                /\ \E p \in pod : v <= p
             \/ -364 \in pod /\ v = 364 /\ xlattice_ovf'
  <2>1. i \in Instr /\ Complete(i)
    BY <1>1, Performed
  <2>2. /\ u \in Int /\ F \in [Angle -> Int] /\ h \in Int
        /\ v = decode_field(encode_field(h, 6)) /\ (xlattice_ovf' <=> xlattice_ovf \/ ~fits6(h))
    <3> HIDE DEF i
    <3> QED
      BY <1>1, <2>1, HeatStored
  <2> HIDE DEF i, c, u, F, v
  <2>3. /\ pod = {u, F[0], F[1], F[2], F[3], F[4], F[5]}
        /\ F[0] \in Int /\ F[1] \in Int /\ F[2] \in Int /\ F[3] \in Int
        /\ F[4] \in Int /\ F[5] \in Int
    <3>1. Angle = {0, 1, 2, 3, 4, 5}
      BY DEF Angle
    <3> QED
      BY <2>2, <3>1
  <2>4. h = u \div 3 + S \div 9
    BY DEF HeatStep
  <2>5. RTL!Relax(u, F) = ((n + 364) % 729) - 364
    BY DEF RTL!Relax, RTL!Low6, RTL!DropTrit, RTL!DropTrits, RTL!NbSum
  <2> HIDE DEF pod, h
  <2>6. \A y \in pod : -364 <= y /\ y <= 364
    <3>1. pod \subseteq Int
      BY <2>2, <2>3
    <3> QED
      BY <1>1, <3>1, SixBounds
  <2> DEFINE f0 == F[0]
             f1 == F[1]
             f2 == F[2]
             f3 == F[3]
             f4 == F[4]
             f5 == F[5]
  <2>7. /\ f0 \in Int /\ f1 \in Int /\ f2 \in Int /\ f3 \in Int /\ f4 \in Int /\ f5 \in Int
         /\ pod = {u, f0, f1, f2, f3, f4, f5} /\ S = f0 + f1 + f2 + f3 + f4 + f5
    BY <2>3
  <2>8. n = (u + 1) \div 3 + (S + 4) \div 9
    OBVIOUS
  <2> HIDE DEF f0, f1, f2, f3, f4, f5, S, n
  <2>9. /\ n - h \in 0 .. 2 /\ -364 <= n /\ n <= 364 /\ n \in Int
        /\ h >= -365 /\ h <= 364
        /\ \E y \in pod : y - 1 <= h
        /\ \E y \in pod : h <= y
        /\ h = -365 => -364 \in pod
    BY <2>2, <2>4, <2>6, <2>7, <2>8, HeatBounds
  <2>10. RTL!Relax(u, F) = n
    <3>1. ((n + 364) % 729) - 364 = n
      BY <2>9
    <3> QED
      BY <2>5, <3>1
  <2>11. CASE h = -365
    <3>1. v = 364
      BY <2>2, <2>11, WrapsRound
    <3>2. ~fits6(h)
      BY <2>11, SixBounds
    <3> QED
      BY <2>2, <2>9, <2>11, <3>1, <3>2
  <2>12. CASE h # -365
    <3>1. -364 <= h /\ h <= 364
      BY <2>2, <2>9, <2>12
    <3>2. Greatest(6) = 364
      BY GreatestIs
    <3>3. -Greatest(6) <= h /\ h <= Greatest(6)
      BY <3>1, <3>2
    <3>4. v = h
      BY <2>2, <3>3, EncodeDecode
    <3> QED
      BY <2>9, <2>10, <3>4
  <2> QED
    BY <2>11, <2>12
<1> HIDE DEF h, n, S
<1> QED
  BY <1>1 DEF HeatedStep

(* The heat step of the emulator, rounded down, against the one of the     *)
(* RTL, rounded to nearest, on every pod of six-trit values: at most two   *)
(* behind it, never above the greatest value of the pod, at most one below *)
(* the least; and the one value this leaves out of six trits is latched    *)
(* (xlattice.py:171-175, trelax.v).                                        *)
THEOREM HeatCorrect == Spec => HeatRange
<1>1. EmuType /\ [Next]_emuVars => [HeatedStep]_emuVars
  BY HeatedSteps
<1> QED
  BY <1>1, EmuTyped, PTL DEF Spec, HeatRange
=============================================================================
