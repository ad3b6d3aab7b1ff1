---------------------------- MODULE TernaryGates ----------------------------
(***************************************************************************)
(* The gate library of scripts/tau_energy_search.py: functions of one or   *)
(* two trits, truth tables over all rows of n inputs, and the channel      *)
(* energy of an output.  A trit is an integer here.                        *)
(***************************************************************************)
EXTENDS Integers, Sequences, FiniteSets

CONSTANTS E_PLUSMINUS, E_NULL, E_STATIC   \* energies, in units of 0.05 pJ

(* The script takes any number for the static energy of a gate; the bound  *)
(* of its search (tau_energy_search.py:212-213) wants it not negative.     *)
ASSUME EnergyAssumption ==
  E_PLUSMINUS \in Nat /\ E_NULL \in Nat /\ E_STATIC \in Nat /\ E_NULL <= E_PLUSMINUS

TRITS == {-1, 0, 1}

Lesser(a, b)  == IF a < b THEN a ELSE b
Greater(a, b) == IF a < b THEN b ELSE a

bal_mod3(s) == LET r == s % 3 IN IF r <= 1 THEN r ELSE r - 3

tneg(x)    == -x
cyc(x)     == bal_mod3(x + 1)
tand(a, b) == Lesser(a, b)
tor(a, b)  == Greater(a, b)
cons(a, b) == IF a = b THEN a ELSE 0
tsum(a, b) == bal_mod3(a + b)

(* Mutant: the meet, which lets a -1 past a null.                          *)
tmul_meet(a, b) == Lesser(a, b)

tmul(a, b) == a * b

tadd1(a, b, cin) ==
  LET s == a + b + cin
  IN  <<bal_mod3(s), IF s >= 2 THEN 1 ELSE IF s <= -2 THEN -1 ELSE 0>>

mux3(s, xm, x0, xp) == IF s = -1 THEN xm ELSE IF s = 0 THEN x0 ELSE xp

(* The order in which the search tries the gates.                          *)
GATES == <<"cons", "tmul", "tneg", "cyc", "tand", "tor", "tsum">>

arity(g) == IF g \in {"tneg", "cyc"} THEN 1 ELSE 2

(* A gate on a pair of trits; a gate of one input looks at the first.      *)
Output(g, a, b) ==
  CASE g = "cons" -> cons(a, b)
    [] g = "tmul" -> tmul(a, b)
    [] g = "tneg" -> tneg(a)
    [] g = "cyc"  -> cyc(a)
    [] g = "tand" -> tand(a, b)
    [] g = "tor"  -> tor(a, b)
    [] g = "tsum" -> tsum(a, b)

-----------------------------------------------------------------------------
(* Truth tables: one output for each row of n inputs, the last input       *)
(* changing fastest.                                                       *)
Rows(n)     == 1 .. 3 ^ n
Input(n, i) == [r \in Rows(n) |-> (((r - 1) \div 3 ^ (n - 1 - i)) % 3) - 1]
Always(n, v) == [r \in Rows(n) |-> v]

Truth2(F(_, _)) == [r \in Rows(2) |-> F(Input(2, 0)[r], Input(2, 1)[r])]

apply(g, f, h) == [r \in DOMAIN f |-> Output(g, f[r], h[r])]

nonnull_count(tt) == Cardinality({r \in DOMAIN tt : tt[r] # 0})

node_cost(tt) ==
  E_STATIC + E_PLUSMINUS * nonnull_count(tt) + E_NULL * (Len(tt) - nonnull_count(tt))

(* The cheapest output there is, all null, on so many rows.                *)
min_node(rows) == E_STATIC + E_NULL * rows
=============================================================================
