----------------------------- MODULE PolarAdder -----------------------------
(***************************************************************************)
(* The polar full adder that circuit/gen_polar_full_adder.py writes: one   *)
(* wire per trit, pushed, idle or pulled; diode receivers split it into    *)
(* two rails, static gates work out sum and carry, and a push-pull driver  *)
(* puts each back on one wire.  Once settled, every node is up or down; a  *)
(* wire is a trit here, Never when both transistors of its driver are on.  *)
(***************************************************************************)
EXTENDS Trits

(* The gates, each a network that pulls its output up and one that pulls   *)
(* it down.                                                                *)
Gate(kind, v) ==
  CASE kind = "inv"  -> ~v[1]
    [] kind = "and2" -> v[1] /\ v[2]
    [] kind = "and3" -> v[1] /\ v[2] /\ v[3]
    [] kind = "or3"  -> v[1] \/ v[2] \/ v[3]
    [] kind = "nor3" -> ~(v[1] \/ v[2] \/ v[3])

Transistors == [kind \in {"inv", "and2", "and3", "or3", "nor3"} |->
  IF kind = "inv" THEN 2 ELSE IF kind \in {"and2", "nor3"} THEN 6 ELSE 8]

G(out, kind, ins) == [out |-> out, kind |-> kind, ins |-> ins]

(* Each gate after those that drive it, as in the netlist; first what the  *)
(* pushes and the pulls are counted with.                                  *)
Majority == <<
  G("p21", "and2", <<"pa", "pb">>), G("n21", "and2", <<"na", "nb">>),
  G("p22", "and2", <<"pa", "pc">>), G("n22", "and2", <<"na", "nc">>),
  G("p23", "and2", <<"pb", "pc">>), G("n23", "and2", <<"nb", "nc">>),
  G("p2", "or3", <<"p21", "p22", "p23">>), G("n2", "or3", <<"n21", "n22", "n23">>),
  G("pz", "nor3", <<"pa", "pb", "pc">>), G("nz", "nor3", <<"na", "nb", "nc">>) >>

Exactly == <<
  G("a3p", "and3", <<"pa", "pb", "pc">>), G("a3n", "and3", <<"na", "nb", "nc">>),
  G("a3pb", "inv", <<"a3p">>), G("a3nb", "inv", <<"a3n">>),
  G("p2x", "and2", <<"p2", "a3pb">>), G("n2x", "and2", <<"n2", "a3nb">>),
  G("pany", "or3", <<"pa", "pb", "pc">>), G("nany", "or3", <<"na", "nb", "nc">>),
  G("p2b", "inv", <<"p2">>), G("n2b", "inv", <<"n2">>),
  G("p1", "and2", <<"pany", "p2b">>), G("n1", "and2", <<"nany", "n2b">>) >>

(* Mutant: the carry does not ask whether anything pulls.                  *)
CarryRailsLoose == <<
  G("cop", "and2", <<"p2", "p2">>), G("con", "and2", <<"pz", "n2">>) >>

CarryRails == <<
  G("cop", "and2", <<"nz", "p2">>), G("con", "and2", <<"pz", "n2">>) >>

SumRails == <<
  G("t1", "and2", <<"p1", "nz">>), G("t2", "and2", <<"p2x", "n1">>),
  G("t3", "and2", <<"pz", "n2x">>), G("sp", "or3", <<"t1", "t2", "t3">>),
  G("t4", "and2", <<"n1", "pz">>), G("t5", "and2", <<"n2x", "p1">>),
  G("t6", "and2", <<"nz", "p2x">>), G("sn", "or3", <<"t4", "t5", "t6">>) >>

Drivers == << G("gpsum", "inv", <<"sp">>), G("gpcout", "inv", <<"cop">>) >>

pol_fa == Majority \o Exactly \o CarryRails \o SumRails \o Drivers

NodeNames == {"pa", "na", "pb", "nb", "pc", "nc"} \cup {pol_fa[k].out : k \in DOMAIN pol_fa}

(* t_recv2: the rails of the three input wires; nothing drives the others. *)
t_recv2(t) ==
  [node \in NodeNames |->
     CASE node = "pa" -> Push(t[1]) [] node = "pb" -> Push(t[2]) [] node = "pc" -> Push(t[3])
       [] node = "na" -> Pull(t[1]) [] node = "nb" -> Pull(t[2]) [] node = "nc" -> Pull(t[3])
       [] OTHER -> FALSE]

(* The settled nodes, with some of them held where a faulty gate has them. *)
Settled(t, held) ==
  LET after[k \in 0 .. Len(pol_fa)] ==
        IF k = 0 THEN t_recv2(t)
        ELSE LET g     == pol_fa[k]
                 nodes == after[k - 1]
                 up    == IF g.out \in DOMAIN held THEN held[g.out]
                          ELSE Gate(g.kind, [i \in DOMAIN g.ins |-> nodes[g.ins[i]]])
             IN  [nodes EXCEPT ![g.out] = up]
  IN  after[Len(pol_fa)]

(* The upper transistor conducts while its gate is down, the lower one     *)
(* while its gate is up.                                                   *)
driver(gp, gn) == Rails(~gp, gn)

Wires(t, held) ==
  LET node == Settled(t, held)
  IN  [sum |-> driver(node["gpsum"], node["sn"]), carry |-> driver(node["gpcout"], node["con"])]

Rows27  == Balanced \X Balanced \X Balanced
Healthy == << >>     \* nothing is held
PolarFa == [t \in Rows27 |-> Wires(t, Healthy)]

(* What the generator says the two wires should carry.                     *)
expected(t) ==
  LET s == Digit(t[1]) + Digit(t[2]) + Digit(t[3])
  IN  [sum |-> IF s % 3 = 2 THEN -1 ELSE s % 3, carry |-> IF s >= 2 THEN 1 ELSE IF s <= -2 THEN -1 ELSE 0]

(* Two diodes and six transistors in each receiver, two transistors in     *)
(* each driver, and the gates.                                             *)
Devices ==
  LET count[k \in 0 .. Len(pol_fa)] ==
        IF k = 0 THEN 3 * (2 + 6) + 2 * 2 ELSE count[k - 1] + Transistors[pol_fa[k].kind]
  IN  count[Len(pol_fa)]

(* Adders chained by their carry wires.                                    *)
PolarRipple(a, b) ==
  LET step[i \in 0 .. Len(a)] ==
        IF i = 0 THEN [sum |-> <<>>, carry |-> Null]
        ELSE LET p == step[i - 1]
                 f == PolarFa[<<a[i], b[i], p.carry>>]
             IN  [sum |-> Append(p.sum, f.sum), carry |-> f.carry]
  IN  step[Len(a)]
=============================================================================
