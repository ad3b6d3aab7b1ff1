---------------------------- MODULE EnergyOptimum ---------------------------
(***************************************************************************)
(* What the netlists of the energy search are: what they say they are,     *)
(* also when they are built from the cells of the RTL, and priced per use. *)
(***************************************************************************)
EXTENDS EnergySearch, SequencesExt

RTL == INSTANCE Trits

Code(x) == CASE x = 0 -> RTL!Null [] x = 1 -> RTL!Plus [] x = -1 -> RTL!Minus
OfCode  == [c \in RTL!Balanced |-> CHOOSE x \in TRITS : Code(x) = c]

(* The gates as the rails of rtl/trit_functions.vh compute them.           *)
RtlCell(g, a, b) ==
  CASE g = "cons" -> RTL!TaddCarry(<<a, b, RTL!Null>>)
    [] g = "tsum" -> RTL!TaddSum(<<a, b, RTL!Null>>)
    [] g = "cyc"  -> RTL!TaddSum(<<a, RTL!Plus, RTL!Null>>)
    [] g = "tmul" -> RTL!TMul(a, b)
    [] g = "tneg" -> RTL!TNeg(a)
    [] g = "tand" -> RTL!Rails(RTL!Push(a) /\ RTL!Push(b), RTL!Pull(a) \/ RTL!Pull(b))
    [] g = "tor"  -> RTL!Rails(RTL!Push(a) \/ RTL!Push(b), RTL!Pull(a) /\ RTL!Pull(b))

RtlOutput == [g \in {GATES[i] : i \in DOMAIN GATES} |->
                [p \in TRITS \X TRITS |-> OfCode[RtlCell(g, Code(p[1]), Code(p[2]))]]]

(* verify_net and render_netlist: what a netlist comes to, put together    *)
(* again from its leaves.  Its table, the energies of its gates, and the   *)
(* netlists in the order of a visit of its inputs first.                   *)
Leaf(fn) == [fn |-> fn, energy |-> 0, order |-> <<>>]

Composed(net, a, b) ==
  LET fn  == [r \in DOMAIN net.fn |-> RtlOutput[net.gate][<<a.fn[r], b.fn[r]>>]]
      two == Len(net.inputs) = 2
  IN  [fn |-> fn,
       energy |-> node_cost(fn) + a.energy + (IF two THEN b.energy ELSE 0),
       order  |-> a.order \o (IF two THEN b.order ELSE <<>>) \o <<net>>]

(* The netlists used at each distance from the output; the farthest are    *)
(* leaves, whatever the search made.                                       *)
Used(net) ==
  LET uses[k \in 0 .. job.max_depth] ==
        IF k = 0 THEN {net} ELSE UNION {ToSet(n.inputs) : n \in uses[k - 1]}
  IN  uses

(* What each of them comes to, from the farthest.                          *)
Made(net) ==
  LET made[k \in 0 .. job.max_depth] ==
        [n \in Used(net)[job.max_depth - k] |->
           IF n.inputs = <<>> THEN Leaf(n.fn)
           ELSE IF k = 0 THEN Leaf(<<>>)
           ELSE Composed(n, made[k - 1][n.inputs[1]], made[k - 1][Last(n.inputs)])]
  IN  made

Rebuilt(net) == Made(net)[job.max_depth][net]

eval_net(net) == Rebuilt(net).fn
Energy(net)   == Rebuilt(net).energy

(* Mutant: a net is printed once for each of its uses.                     *)
RenderedTwice(net) == Rebuilt(net).order

(* render_netlist prints each once, where the visit first comes to it.     *)
Rendered(net) ==
  FoldLeft(LAMBDA order, n : IF Contains(order, n) THEN order ELSE Append(order, n),
           <<>>, Rebuilt(net).order)

Sound(nets, h) == nets[h].fn = h /\ eval_net(nets[h]) = h /\ Energy(nets[h]) = nets[h].cost

-----------------------------------------------------------------------------
(* What the last level offered, and what the search keeps, is realised at  *)
(* the cost noted for it: each netlist, rebuilt from its leaves with the   *)
(* cells of the RTL, computes its function, and the energies of its gates  *)
(* add up to its cost (verify_net, 308-323, does the first half, for the   *)
(* one netlist that is printed).  What is returned realises the target,    *)
(* and the run that prunes never looks at more placements than the other.  *)
NetsSound ==
  ~Searching => /\ \A h \in DOMAIN new : Sound(new, h)
                /\ \A h \in DOMAIN signals : Sound(signals, h)
                /\ \A i \in DOMAIN found : \A k \in DOMAIN found[i].net :
                     eval_net(found[i].net[k]) = job.target
                /\ Len(found) = 2 => found[1].generated <= found[2].generated

Drawn(net) == FoldLeft(LAMBDA sum, n : sum + node_cost(n.fn), 0, Rendered(net))

(* The netlist that is printed is one to build from: every line reads      *)
(* inputs or earlier lines, the last one is the output.  The cost printed  *)
(* with it is never less than what those lines use, and exactly that when  *)
(* no gate feeds two others: a shared gate is paid for at each of its uses *)
(* (the docstring, 23, has the cost as the sum over the gates).            *)
PricedPerUse ==
  ~Searching => \A h \in DOMAIN signals :
    LET net    == signals[h]
        lines  == Rendered(net)
        Feeds(n) == {at \in (DOMAIN lines) \X {1, 2} :
                       /\ at[2] <= Len(lines[at[1]].inputs)
                       /\ lines[at[1]].inputs[at[2]] = n}
    IN  /\ net.inputs # <<>> => Last(lines) = net
        /\ \A k \in DOMAIN lines : \A i \in DOMAIN lines[k].inputs :
             \/ lines[k].inputs[i].inputs = <<>>
             \/ \E earlier \in 1 .. k - 1 : lines[earlier] = lines[k].inputs[i]
        /\ Drawn(net) <= net.cost
        /\ Drawn(net) = net.cost <=> \A n \in ToSet(lines) : Cardinality(Feeds(n)) <= 1
=============================================================================
