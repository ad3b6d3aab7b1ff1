----------------------------- MODULE EnergySearch ---------------------------
(***************************************************************************)
(* scripts/tau_energy_search.py: the search for the netlist of least       *)
(* energy, run twice on the same target as run_demo does, with the branch- *)
(* and-bound cuts and without them.  A step is one turn of an outer loop:  *)
(* a gate and one function of the pool, cheapest first, with the whole     *)
(* loop over the second operand inside.  Functions of equal cost come in   *)
(* some fixed order.                                                       *)
(***************************************************************************)
EXTENDS TernaryGates

CONSTANT Jobs     \* targets, with the options of the command line

ASSUME JobsAssumption ==
  \A j \in Jobs : /\ j.n \in Nat \ {0} /\ j.max_depth \in Nat \ {0}
                  /\ j.target \in [Rows(j.n) -> TRITS]
                  /\ j.gates \subseteq {GATES[i] : i \in DOMAIN GATES}
                  /\ \A i \in 0 .. j.n : 3 ^ i \in Nat \ {0}
                  /\ j.constants \in BOOLEAN

VARIABLES
  job, prune,
  signals,        \* the cheapest netlist of each function realised so far
  depth,          \* the level being built
  new,            \* the netlists of this level
  gate, pool,     \* the gate being placed, and the functions left for it
  best_cost,      \* of the target so far, if it has a netlist
  generated,
  found,          \* what the runs that are over returned
  env             \* the multiplexer of run_mux: the table of every named step

searchVars == <<job, prune, signals, depth, new, gate, pool, best_cost, generated, found, env>>

Net(fn, g, inputs, c) == [fn |-> fn, gate |-> g, inputs |-> inputs, cost |-> c]

Leaves(j) ==
  {Input(j.n, i) : i \in 0 .. j.n - 1}
    \cup (IF j.constants THEN {Always(j.n, v) : v \in TRITS} ELSE {})

LeafNets(j) == [f \in Leaves(j) |-> Net(f, "leaf", <<>>, 0)]

Beats(c, nets, h) == h \notin DOMAIN nets \/ c < nets[h].cost

(* The cost of a function, or none: the script's is infinite then.         *)
CostOf(nets, h) == {nets[f].cost : f \in {h} \cap DOMAIN nets}

Cheapest(S, c(_)) == CHOOSE f \in S : \A g \in S : c(f) <= c(g)

-----------------------------------------------------------------------------
cf(f)   == signals[f].cost
Operand == Cheapest(pool, cf)
MinNode == min_node(3 ^ job.n)

Bound   == IF prune THEN best_cost ELSE {}

(* Mutant: the bound takes the node to cost as much as it can.             *)
CutDear(c) == \E b \in Bound : c + E_STATIC + E_PLUSMINUS * 3 ^ job.n >= b

(* No netlist with inputs of this cost can beat the one already known.     *)
Cut(c) == \E b \in Bound : c + MinNode >= b

(* The netlists of a row of placements, each function with its cheapest.   *)
Offer(row) ==
  LET functions == {n.fn : n \in row}
      Cost(n)   == n.cost
  IN  new' = [h \in DOMAIN new \cup functions |->
                LET c == Cheapest({n \in row : n.fn = h}, Cost)
                IN  IF h \in functions /\ Beats(c.cost, new, h) THEN c ELSE new[h]]

(* Mutant: the second operand is free.                                     *)
PlaceFreeSecond(f, h) ==
  LET fn == apply(GATES[gate], f, h)
  IN  Net(fn, GATES[gate], <<signals[f], signals[h]>>, cf(f) + node_cost(fn))

Place1(f) ==
  LET fn == apply(GATES[gate], f, f)
  IN  Net(fn, GATES[gate], <<signals[f]>>, cf(f) + node_cost(fn))

Place2(f, h) ==
  LET fn == apply(GATES[gate], f, h)
  IN  Net(fn, GATES[gate], <<signals[f], signals[h]>>, cf(f) + cf(h) + node_cost(fn))

Searching == gate <= Len(GATES)

Row(placements) ==
  /\ Offer(placements)
  /\ generated' = generated + Cardinality(placements)
  /\ pool' = pool \ {Operand}
  /\ UNCHANGED <<job, prune, signals, depth, gate, best_cost, found, env>>

UnaryStep ==
  /\ Searching /\ pool # {} /\ GATES[gate] \in job.gates /\ arity(GATES[gate]) = 1
  /\ ~Cut(cf(Operand))
  /\ Row({Place1(Operand)})

(* The inner loop breaks at the first operand that is too dear; the pool   *)
(* is sorted, so all later ones are.                                       *)
BinaryStep ==
  /\ Searching /\ pool # {} /\ GATES[gate] \in job.gates /\ arity(GATES[gate]) = 2
  /\ ~Cut(cf(Operand))
  /\ Row({Place2(Operand, h) : h \in {h \in DOMAIN signals : ~Cut(cf(Operand) + cf(h))}})

(* The loop over the pool ends, or breaks, or the gate is not in the list. *)
NextGate ==
  /\ Searching
  /\ (pool # {} /\ GATES[gate] \in job.gates) => Cut(cf(Operand))
  /\ gate' = gate + 1
  /\ pool' = DOMAIN signals
  /\ UNCHANGED <<job, prune, signals, depth, new, best_cost, generated, found, env>>

(* Mutant: the level overwrites what was cheaper.                          *)
MergeLast(old, level) ==
  [h \in DOMAIN old \cup DOMAIN level |-> IF h \in DOMAIN level THEN level[h] ELSE old[h]]

Merge(old, level) ==
  [h \in DOMAIN old \cup DOMAIN level |->
     IF h \in DOMAIN level /\ Beats(level[h].cost, old, h) THEN level[h] ELSE old[h]]

EndLevel ==
  /\ ~Searching /\ depth <= job.max_depth
  /\ signals' = Merge(signals, new)
  /\ best_cost' = IF \E c \in CostOf(new, job.target) : \A b \in best_cost : c < b
                  THEN CostOf(new, job.target) ELSE best_cost
  /\ new' = [h \in {} |-> 0]
  /\ depth' = depth + 1
  /\ gate' = IF depth < job.max_depth THEN 1 ELSE gate
  /\ pool' = DOMAIN signals'
  /\ UNCHANGED <<job, prune, generated, found, env>>

(* synthesize returns; run_demo calls it again without pruning.            *)
Returned ==
  [cost |-> CostOf(signals, job.target), generated |-> generated,
   net |-> IF job.target \in DOMAIN signals THEN <<signals[job.target]>> ELSE <<>>]

Return ==
  /\ ~Searching /\ depth > job.max_depth /\ Len(found) < 2
  /\ found' = Append(found, Returned)
  /\ IF prune
     THEN /\ prune' = FALSE
          /\ signals' = LeafNets(job) /\ pool' = DOMAIN signals'
          /\ depth' = 1 /\ gate' = 1
          /\ best_cost' = {} /\ generated' = 0
          /\ UNCHANGED <<job, new>>
     ELSE UNCHANGED <<job, prune, signals, depth, new, gate, pool, best_cost, generated>>
  /\ UNCHANGED env

-----------------------------------------------------------------------------
(* The multiplexer of four inputs is too wide to search for; run_mux runs  *)
(* a fixed list of gates over all 81 rows.                                 *)
ASSUME MuxAssumption == \A i \in 0 .. 4 : 3 ^ i \in Nat \ {0}

DATA == <<"s", "xm", "x0", "xp">>

Rails4 == [name \in {"s", "xm", "x0", "xp", "+1", "-1", "0"} |->
  CASE name = "+1" -> Always(4, 1)
    [] name = "-1" -> Always(4, -1)
    [] name = "0"  -> Always(4, 0)
    [] OTHER       -> Input(4, (CHOOSE i \in 1 .. 4 : DATA[i] = name) - 1)]

STEPS == <<
  <<"Dp", "cons", "s", "+1">>, <<"cn", "cons", "s", "-1">>, <<"Dn", "tneg", "cn", "cn">>,
  <<"sq", "tmul", "s", "s">>, <<"nsq", "tneg", "sq", "sq">>, <<"D0", "tsum", "+1", "nsq">>,
  <<"tm", "tmul", "Dn", "xm">>, <<"t0", "tmul", "D0", "x0">>, <<"tp", "tmul", "Dp", "xp">>,
  <<"m1", "tsum", "tm", "t0">>, <<"out", "tsum", "m1", "tp">> >>

Done == Cardinality(DOMAIN env) - Cardinality(DOMAIN Rails4)

MuxStep ==
  /\ Len(found) = 2 /\ Done < Len(STEPS)
  /\ LET step == STEPS[Done + 1]
     IN  env' = [name \in DOMAIN env \cup {step[1]} |->
                   IF name = step[1] THEN apply(step[2], env[step[3]], env[step[4]])
                   ELSE env[name]]
  /\ UNCHANGED <<job, prune, signals, depth, new, gate, pool, best_cost, generated, found>>

Init ==
  /\ job \in Jobs /\ prune = TRUE
  /\ signals = LeafNets(job) /\ pool = DOMAIN signals
  /\ depth = 1 /\ new = [h \in {} |-> 0] /\ gate = 1
  /\ best_cost = {} /\ generated = 0 /\ found = <<>>
  /\ env = Rails4

Next == UnaryStep \/ BinaryStep \/ NextGate \/ EndLevel \/ Return \/ MuxStep

Spec == Init /\ [][Next]_searchVars

-----------------------------------------------------------------------------
(* Pruning must not change the optimum (the assertion of run_demo, 452).   *)
SameOptimum == Len(found) = 2 => found[1].cost = found[2].cost

(* The search is exact up to its depth (205-208), in whatever order it     *)
(* takes the gates and the pool: level by level, the costs of the run      *)
(* without pruning are those of LevelSearch, which knows no order.         *)
Exact ==
  INSTANCE LevelSearch
    WITH cost  <- IF prune THEN [f \in Leaves(job) |-> 0] ELSE [f \in DOMAIN signals |-> cf(f)],
         level <- IF prune THEN 0 ELSE depth - 1

ExactByLevel == Exact!LevelSpec

(* The gates of run_mux, all run, compute the multiplexer on every row     *)
(* (the test of 482, which only prints FAIL).                              *)
MuxSelects ==
  Done = Len(STEPS) =>
    \A r \in Rows(4) :
      env["out"][r] = mux3(env["s"][r], env["xm"][r], env["x0"][r], env["xp"][r])
=============================================================================
