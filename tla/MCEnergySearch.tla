--------------------------- MODULE MCEnergySearch ---------------------------
(***************************************************************************)
(* Targets to search for: functions of one input three gates deep, and the *)
(* targets of the script's demonstration (tau_energy_search.py:342-352),   *)
(* two gates deep.                                                         *)
(***************************************************************************)
EXTENDS EnergyOptimum

All   == {GATES[i] : i \in DOMAIN GATES}
NoSum == All \ {"tsum"}
Few   == {"tneg", "tor"}

Wanted(n, targets, max_depth, gates, constants) ==
  [n : {n}, target : targets, max_depth : {max_depth}, gates : gates, constants : constants]

neg_min(a, b) == -Lesser(a, b)
imply(a, b)   == Greater(-a, b)

(* Functions of one input: three whose first netlist, two gates deep, is   *)
(* beaten by one three gates deep, the null function, and a leaf.          *)
Unary == {<<1, 1, 1>>, <<1, 1, 0>>, <<-1, 0, 0>>, <<0, 0, 0>>, <<-1, 0, 1>>}

TestJobs ==
  Wanted(1, Unary, 3, {All, NoSum}, BOOLEAN)
    \cup Wanted(2, {Truth2(tsum), Truth2(cons)}, 2, {All, NoSum}, {FALSE})
    \cup Wanted(2, {Truth2(neg_min)}, 2, {All}, {FALSE})
    \cup Wanted(2, {Truth2(imply)}, 2, {All}, BOOLEAN)
    \cup Wanted(2, {Truth2(imply)}, 3, {Few}, {FALSE})
=============================================================================
