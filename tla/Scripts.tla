------------------------------- MODULE Scripts ------------------------------
(***************************************************************************)
(* The scripts that count, check and report, run one at a time: the        *)
(* circuit memo, the address-size crossover, the checker of the polar      *)
(* adder, and the analysers of the two bench sweeps.                       *)
(***************************************************************************)
EXTENDS CircuitMemo, Crossover, PolarCheck, SweepBench, LowSwing

VARIABLE script     \* the one that was started

scriptVars == <<script, memoVars, crossVars, polarVars, sweepVars, swingVars>>

(* The variables of the others keep a value of their own Init.             *)
Init ==
  /\ script \in {"circuit_memo", "address_crossover", "check_polar_full_adder",
                 "analyze_sweep", "analyze_lowswing"}
  /\ MemoInit /\ CrossInit /\ PolarInit /\ SweepInit /\ SwingInit
  /\ script # "check_polar_full_adder" => held = Healthy /\ ran
  /\ script # "analyze_sweep" => lost = {} /\ \A nm \in Varied : measured[nm] = Usual

Next ==
  \/ /\ script = "circuit_memo" /\ MemoNext
     /\ UNCHANGED <<script, crossVars, polarVars, sweepVars, swingVars>>
  \/ /\ script = "address_crossover" /\ CrossNext
     /\ UNCHANGED <<script, memoVars, polarVars, sweepVars, swingVars>>
  \/ /\ script = "check_polar_full_adder" /\ PolarNext
     /\ UNCHANGED <<script, memoVars, crossVars, sweepVars, swingVars>>
  \/ /\ script = "analyze_sweep" /\ SweepNext
     /\ UNCHANGED <<script, memoVars, crossVars, polarVars, swingVars>>
  \/ /\ script = "analyze_lowswing" /\ SwingNext
     /\ UNCHANGED <<script, memoVars, crossVars, polarVars, sweepVars>>

Spec == Init /\ [][Next]_scriptVars
=============================================================================
