----------------------------- MODULE LevelSearch ----------------------------
(***************************************************************************)
(* What an exact search by levels of gates does (tau_energy_search.py:     *)
(* 204-214): every function carries the cost of the cheapest netlist of at *)
(* most `level` gates in depth, a netlist costing what its inputs cost and *)
(* what its output node costs.  One step is one level, all gates at once.  *)
(***************************************************************************)
EXTENDS TernaryGates

VARIABLES job,        \* what is searched for, and with which gates and leaves
          cost, level

lvars == <<job, cost, level>>

Leaves(j) ==
  {Input(j.n, i) : i \in 0 .. j.n - 1}
    \cup (IF j.constants THEN {Always(j.n, v) : v \in TRITS} ELSE {})

(* Every placement of one gate on functions realised so far.               *)
Placed(c, g) ==
  IF arity(g) = 1
  THEN {<<apply(g, f, f), c[f]>> : f \in DOMAIN c}
  ELSE {<<apply(g, p[1], p[2]), c[p[1]] + c[p[2]]>> : p \in (DOMAIN c) \X (DOMAIN c)}

Least(S) == CHOOSE v \in S : \A u \in S : v <= u

Relaxed(c, gates) ==
  LET placed == UNION {Placed(c, g) : g \in gates}
      found  == {p[1] : p \in placed}
      Best(h) == Least({p[2] : p \in {q \in placed : q[1] = h}}) + node_cost(h)
  IN  [h \in DOMAIN c \cup found |->
         IF h \notin found THEN c[h]
         ELSE IF h \notin DOMAIN c THEN Best(h)
         ELSE Lesser(c[h], Best(h))]

LevelInit == cost = [f \in Leaves(job) |-> 0] /\ level = 0

Deepen ==
  /\ level < job.max_depth
  /\ level' = level + 1
  /\ cost' = Relaxed(cost, job.gates)
  /\ UNCHANGED job

LevelSpec == LevelInit /\ [][Deepen]_lvars
=============================================================================
