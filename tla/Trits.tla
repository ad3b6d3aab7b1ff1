-------------------------------- MODULE Trits -------------------------------
(***************************************************************************)
(* Trits as rtl/trit_functions.vh builds them, and the ripple cells of     *)
(* rtl/ternary_gates.v and rtl/tmul_opt.v.  A trit is a pair of rails; a   *)
(* word is a sequence of trits, the least significant first.  The fourth   *)
(* code, both rails up, is "never" produced, but the cells are gates and   *)
(* do something with it, which is what is written here.                    *)
(***************************************************************************)
EXTENDS Integers, Sequences

Null  == 0
Plus  == 1
Minus == 2
Never == 3

Trit     == Null .. Never
Balanced == Null .. Minus

Push(t) == t \in {Plus, Never}       \* bit 0, the +1 rail
Pull(t) == t \in {Minus, Never}      \* bit 1, the -1 rail

Rails(push, pull) == (IF push THEN 1 ELSE 0) + (IF pull THEN 2 ELSE 0)

TNeg(t) == Rails(Pull(t), Push(t))

TMul(s, t) ==
  IF (Push(s) /\ Push(t)) \/ (Pull(s) /\ Pull(t)) THEN Plus
  ELSE IF (Push(s) /\ Pull(t)) \/ (Pull(s) /\ Push(t)) THEN Minus
  ELSE Null

-----------------------------------------------------------------------------
(* The full adder tadd1.  Its equations name the three inputs one by one;  *)
(* they treat them alike, so they are written over the three of them.      *)
Input == 1 .. 3

Others(i) == Input \ {i}

NoPush(t)  == \A i \in Input : ~Push(t[i])
NoPull(t)  == \A i \in Input : ~Pull(t[i])
TwoPush(t) == \E i \in Input : \A j \in Others(i) : Push(t[j])
TwoPull(t) == \E i \in Input : \A j \in Others(i) : Pull(t[j])

SumPush(t) ==
  \/ \E i \in Input : Push(t[i]) /\ \A j \in Others(i) : t[j] = Null
  \/ \E i \in Input : Pull(t[i]) /\ \A j \in Others(i) : Push(t[j])
  \/ NoPush(t) /\ \E i \in Input : ~Pull(t[i]) /\ \A j \in Others(i) : Pull(t[j])

(* Mutant: the last term forgets that no input may be -1.                  *)
SumPullLoose(t) ==
  \/ \E i \in Input : t[i] = Minus /\ \A j \in Others(i) : t[j] = Null
  \/ \E i \in Input : Push(t[i]) /\ \A j \in Others(i) : Pull(t[j])
  \/ \E i \in Input : ~Push(t[i]) /\ \A j \in Others(i) : Push(t[j])

SumPull(t) ==
  \/ \E i \in Input : t[i] = Minus /\ \A j \in Others(i) : t[j] = Null
  \/ \E i \in Input : Push(t[i]) /\ \A j \in Others(i) : Pull(t[j])
  \/ NoPull(t) /\ \E i \in Input : ~Push(t[i]) /\ \A j \in Others(i) : Push(t[j])

TaddSum(t) == Rails(SumPush(t), SumPull(t))

(* Mutant: three -1 inputs carry nothing.                                  *)
TaddCarryMissed(t) ==
  Rails(NoPull(t) /\ TwoPush(t), NoPush(t) /\ TwoPull(t) /\ \E i \in Input : ~Pull(t[i]))

TaddCarry(t) == Rails(NoPull(t) /\ TwoPush(t), NoPush(t) /\ TwoPull(t))

(* The cell as tables over every triple of codes, unreachable ones too.    *)
Sum1   == [t \in Trit \X Trit \X Trit |-> TaddSum(t)]
Carry1 == [t \in Trit \X Trit \X Trit |-> TaddCarry(t)]

-----------------------------------------------------------------------------
(* Words.                                                                  *)

Nulls(n)  == [i \in 1 .. n |-> Null]
Low(w, n) == SubSeq(w, 1, n)
Ext(w, n) == w \o Nulls(n - Len(w))

Neg(w) == [i \in DOMAIN w |-> TNeg(w[i])]

(* tadd_n: the ripple, trit by trit; the carry out is its second result.   *)
Ripple(a, b) ==
  LET step[i \in 0 .. Len(a)] ==
        IF i = 0 THEN [sum |-> <<>>, carry |-> Null]
        ELSE LET p == step[i - 1]
             IN  [sum   |-> Append(p.sum, Sum1[<<a[i], b[i], p.carry>>]),
                  carry |-> Carry1[<<a[i], b[i], p.carry>>]]
  IN  step[Len(a)]

Add(a, b) == Ripple(a, b).sum

(* tsub_n: negate by swapping the rails and add.                           *)
Sub(a, b) == Add(a, Neg(b))

(* tmul_sa: one partial product per trit of b, added over 2n + 1 trits; a  *)
(* word times one trit never carries.                                      *)
Partial(a, b, j) ==
  Nulls(j - 1) \o [i \in 1 .. Len(a) |-> TMul(a[i], b[j])] \o Nulls(Len(a) + 2 - j)

Mul(a, b) ==
  LET acc[j \in 0 .. Len(b)] ==
        IF j = 0 THEN Nulls(2 * Len(a) + 1) ELSE Add(acc[j - 1], Partial(a, b, j))
  IN  Low(acc[Len(b)], 2 * Len(a))

(* The 11 = NEVER canary of a word (rtl/ternary_mem.v).                    *)
HasNever(w) == \E i \in DOMAIN w : w[i] = Never

(* The fit check of every truncating unit: a trit above the n-th is up.    *)
Wider(w, n) == \E i \in n + 1 .. Len(w) : w[i] # Null

-----------------------------------------------------------------------------
(* What a word of balanced trits is worth, and the integer that the low n  *)
(* trits of a word worth v are worth.                                      *)
Digit(t) == IF t = Plus THEN 1 ELSE IF t = Minus THEN -1 ELSE 0

(* 3^n by its recursion: the provers know nothing of ^.                    *)
Pow3[n \in Nat] == IF n = 0 THEN 1 ELSE 3 * Pow3[n - 1]

Val(w) ==
  LET v[i \in 0 .. Len(w)] == IF i = 0 THEN 0 ELSE v[i - 1] + Digit(w[i]) * Pow3[i - 1]
  IN  v[Len(w)]

Greatest(n)   == (Pow3[n] - 1) \div 2
Residue(v, n) == ((v + Greatest(n)) % Pow3[n]) - Greatest(n)
Fits(v, n)    == Residue(v, n) = v

Words(n) == [1 .. n -> Balanced]
=============================================================================
