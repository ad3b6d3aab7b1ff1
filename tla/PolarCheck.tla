----------------------------- MODULE PolarCheck -----------------------------
(***************************************************************************)
(* How the polar adder is checked: gen_polar_full_adder.py puts 13 rows of *)
(* its table and three toggles into one netlist, ngspice runs it, and      *)
(* check_polar_full_adder.py compares the levels it logged.  The circuit   *)
(* that is simulated has at most one gate whose output is stuck.           *)
(***************************************************************************)
EXTENDS PolarAdder, TLC

(* Mutant: the two rows that pull are left out.                            *)
SUBSETShort == <<
  <<1, 1, 1>>, <<1, 1, 0>>, <<1, 0, 0>>, <<1, 1, -1>>, <<0, 0, 0>>, <<1, -1, 0>>, <<1, 0, -1>>,
  <<-1, 0, 0>>, <<-1, -1, 1>>, <<0, 1, 1>>, <<0, -1, -1>> >>

SUBSET13 == <<
  <<1, 1, 1>>, <<1, 1, 0>>, <<1, 0, 0>>, <<1, 1, -1>>, <<0, 0, 0>>, <<1, -1, 0>>, <<1, 0, -1>>,
  <<-1, 0, 0>>, <<-1, -1, 1>>, <<-1, -1, 0>>, <<-1, -1, -1>>, <<0, 1, 1>>, <<0, -1, -1>> >>

Level(digit) == CASE digit = 0 -> Null [] digit = 1 -> Plus [] digit = -1 -> Minus
Levels(row)  == <<Level(row[1]), Level(row[2]), Level(row[3])>>

(* The toggles: b steps to another level and back, a and c held.           *)
TOGGLES == << [rest |-> <<0, 0, 0>>, b |-> 1], [rest |-> <<1, 0, 0>>, b |-> 1],
              [rest |-> <<1, 1, 0>>, b |-> -1] >>

VARIABLES
  held,           \* the node that is stuck, and where
  ran,            \* whether the simulation left measurements in its log
  checked, ok,    \* rows compared, and none of them wrong so far
  check           \* "running", "done" or "raised"

polarVars == <<held, ran, checked, ok, check>>

Faults == {Healthy} \cup {pol_fa[g].out :> up : g \in DOMAIN pol_fa, up \in BOOLEAN}

PolarInit ==
  /\ held \in Faults /\ ran \in BOOLEAN /\ (~ran => held = Healthy)
  /\ checked = 0 /\ ok = TRUE /\ check = "running"

(* A wire that both transistors of its driver hold is at no level to_trit  *)
(* accepts.                                                                *)
to_trit(wire) == IF wire = Never THEN <<>> ELSE <<Digit(wire)>>

Good(row) ==
  LET got == Wires(Levels(row), held)
  IN  [sum |-> to_trit(got.sum), carry |-> to_trit(got.carry)]
        = [sum |-> <<expected(Levels(row)).sum>>, carry |-> <<expected(Levels(row)).carry>>]

CheckRow ==
  /\ check = "running" /\ checked < Len(SUBSET13) /\ ran
  /\ checked' = checked + 1
  /\ ok' = (ok /\ Good(SUBSET13[checked + 1]))
  /\ UNCHANGED <<held, ran, check>>

(* to_trit of a measurement that is not there.                             *)
MissingRow ==
  /\ check = "running" /\ checked < Len(SUBSET13) /\ ~ran
  /\ check' = "raised"
  /\ UNCHANGED <<held, ran, checked, ok>>

PolarReport ==
  /\ check = "running" /\ checked = Len(SUBSET13)
  /\ check' = "done"
  /\ UNCHANGED <<held, ran, checked, ok>>

PolarNext == CheckRow \/ MissingRow \/ PolarReport

-----------------------------------------------------------------------------
(* A circuit that passes the 13 rows is right on all 27 (the comment of    *)
(* 263-266 says the checker has the full table; it has these), but for two *)
(* faults: in no row are a and c both pushed with b idle or pulled, nor    *)
(* both pulled with b idle or pushed, so a gate that misses one of these   *)
(* pairs is not seen.  The correct circuit passes, and one that passes     *)
(* also toggles as the energy instances E1 to E3 are labelled (303-354).   *)
CheckerFinds ==
  check = "done" =>
    /\ held = Healthy => ok
    /\ ok => \/ \A x \in -1 .. 1, y \in -1 .. 1, z \in -1 .. 1 : Good(<<x, y, z>>)
             \/ held \in {"p22" :> FALSE, "n22" :> FALSE}
    /\ ok => LET Out(row) == <<Digit(Wires(Levels(row), held).sum),
                               Digit(Wires(Levels(row), held).carry)>>
                 Stepped(t) == [t.rest EXCEPT ![2] = t.b]
             IN  [i \in DOMAIN TOGGLES |-> <<Out(TOGGLES[i].rest), Out(Stepped(TOGGLES[i]))>>]
                   = << << <<0, 0>>, <<1, 0>> >>, << <<1, 0>>, <<-1, 1>> >>,
                        << <<-1, 1>>, <<0, 0>> >> >>
=============================================================================
