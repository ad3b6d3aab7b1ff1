----------------------------- MODULE SweepBench -----------------------------
(***************************************************************************)
(* The lever sweep of the AC-polarity cell.  make_ternary_sweep.py writes  *)
(* 96 instances of the cell, each named by the setting of its five levers, *)
(* eight measurements for each and three of an idle driver; ngspice logs   *)
(* them, names in lower case; analyze_sweep.py takes the levers back out   *)
(* of the names and reports the cheapest push.  A name is the sequence of  *)
(* its parts.                                                              *)
(***************************************************************************)
EXTENDS Integers, Sequences, FiniteSetsExt, SequencesExt

CONSTANTS Varied,     \* instances whose measurements are not the common ones
          Usual       \* the push energy and the rail of the others

(* The levers by their names; the assumption names the cells varied as     *)
(* cells of the grid, and takes the others' measurements as they come.     *)
IPS  == [s \in {"02", "05", "10"} |-> CASE s = "02" -> 2 [] s = "05" -> 5 [] OTHER -> 10] \* 0.1 mA
PWS  == [s \in {"05", "10", "30", "100"} |->                                       \* 0.1 ns
           CASE s = "05" -> 5 [] s = "10" -> 10 [] s = "30" -> 30 [] OTHER -> 100]
RWS  == [s \in {"100", "500"} |-> IF s = "100" THEN 100 ELSE 500]                  \* ohm
CLS  == [s \in {"05", "10"} |-> IF s = "05" THEN 5 ELSE 10]                        \* 0.1 pF
MODS == [ID |-> "IDEAL", SC |-> "SCHOTTKY"]

Grid == {<<"X", mod, ip, pw, rw, cl>> : mod \in DOMAIN MODS, ip \in DOMAIN IPS,
           pw \in DOMAIN PWS, rw \in DOMAIN RWS, cl \in DOMAIN CLS}

ASSUME SweepAssumption == Varied \subseteq Grid /\ Usual \in [epush : Int, railA : Int]

Settings(nm) == [diode |-> MODS[nm[2]], ip |-> IPS[nm[3]], pw |-> PWS[nm[4]],
                 rw |-> RWS[nm[5]], cl |-> CLS[nm[6]]]

(* When a current pulse of the cell flows, in tenths of ns: it rises and   *)
(* falls for a fifth of its width each.                                    *)
Pulse(from, pw) == <<from, from + pw + 2 * (pw \div 5)>>

subckt(pw) == [pwpA |-> {Pulse(100, pw)}, pwpB |-> {Pulse(400, pw)},
               pwpC |-> {Pulse(1000, pw), Pulse(1240, pw)}]

(* Mutant: the second window of the cycle opens a nanosecond later.        *)
WINDOWSLate == [epush |-> <<90, 260>>, epull |-> <<390, 560>>,
                ecyc1 |-> <<990, 1230>>, ecyc2 |-> <<1250, 1390>>, ecycT |-> <<990, 1390>>]

WINDOWS == [epush |-> <<90, 260>>, epull |-> <<390, 560>>,
            ecyc1 |-> <<990, 1230>>, ecyc2 |-> <<1230, 1390>>, ecycT |-> <<990, 1390>>]

Probe(kind) == CASE kind = "epush" -> "pwpA" [] kind = "epull" -> "pwpB" [] OTHER -> "pwpC"

-----------------------------------------------------------------------------
(* What ngspice makes of the names, and the analyser of them.              *)
Lower == [X |-> "x", ID |-> "id", SC |-> "sc", ecycT |-> "ecyct",
          vraA |-> "vraa", vraB |-> "vrab", vlnA |-> "vlna"]

lower(nm) == [i \in DOMAIN nm |-> IF nm[i] \in DOMAIN Lower THEN Lower[nm[i]] ELSE nm[i]]

KINDS == {"epush", "epull", "ecyc1", "ecyc2", "ecycT", "vraA", "vraB", "vlnA"}

(* The measurements of the idle driver, the null case.                     *)
ENull == <<"enull">>
Idle  == {ENull, <<"vra", "null">>, <<"vrb", "null">>}

inst_of(meas_name) == Tail(meas_name)

decode(inst) ==
  [diode |-> IF inst[2] = "sc" THEN "SCHOTTKY" ELSE "IDEAL",
   ip |-> CASE inst[3] = "02" -> 2 [] inst[3] = "05" -> 5 [] inst[3] = "10" -> 10,
   pw |-> CASE inst[4] = "05" -> 5 [] inst[4] = "10" -> 10 [] inst[4] = "30" -> 30 [] inst[4] = "100" -> 100,
   rw |-> CASE inst[5] = "100" -> 100 [] inst[5] = "500" -> 500,
   cl |-> CASE inst[6] = "05" -> 5 [] inst[6] = "10" -> 10]

VARIABLES
  measured,     \* the push energy and the rail A of each instance
  lost,         \* at most one measurement that failed, as it would be named
  report,       \* the next part of the report, or "printed" or "raised"
  null_case,    \* what stands for each measurement of the idle driver
  averages,     \* the energy per symbol in the parts that print one
  mins          \* what the parts so far named as the cheapest

sweepVars == <<measured, lost, report, null_case, averages, mins>>

Parts == <<"null", "strict", "loose", "raw", "diodes", "grid", "printed">>

Losses == Idle \cup {<<kind>> \o lower(nm) : kind \in {lower(<<k>>)[1] : k \in KINDS}, nm \in Varied}

SweepInit ==
  /\ measured \in [Varied -> [epush : 1 .. 2, railA : {9, 10, 25}]]
  /\ lost = {} \/ \E name \in Losses : lost = {name}
  /\ report = "null" /\ null_case = [m \in {} |-> ""] /\ averages = {} /\ mins = <<>>

Named == [inst \in {lower(nm) : nm \in Grid} |-> CHOOSE nm \in Grid : lower(nm) = inst]

Logged(inst) == IF Named[inst] \in Varied THEN measured[Named[inst]] ELSE Usual

Has(kind, inst) == (<<kind>> \o inst) \notin lost

(* An instance is there if its push energy is.                             *)
epushes == {inst \in DOMAIN Named : Has("epush", inst)}

(* The first in the order of the names; here, any of equals.               *)
Least(cands) ==
  LET least == Min({Logged(i).epush : i \in cands})
  IN  CHOOSE i \in cands : Logged(i).epush = least

Part(names) == /\ mins' = mins \o names
               /\ report' = Parts[(CHOOSE i \in DOMAIN Parts : Parts[i] = report) + 1]
Raised      == report' = "raised" /\ UNCHANGED <<averages, mins>>

(* Mutant: an energy that was not measured is taken for nothing.           *)
DefaultZero(m) == "zero"

(* What a measurement of the idle driver defaults to.                      *)
Default(m) == IF m = ENull THEN "nan" ELSE "zero"

(* The null case is printed, whatever was measured of it.                  *)
NullCase ==
  /\ report = "null"
  /\ null_case' = [m \in Idle |-> IF m \in lost THEN Default(m) ELSE "measured"]
  /\ Part(<<>>)
  /\ UNCHANGED <<measured, lost, averages>>

(* A threshold reads the rail of every instance; of the one reported all   *)
(* energies and both rails are printed, and the average of its push, its   *)
(* pull and the idle driver.  No candidate raises, and so does a           *)
(* measurement of the instance that is not there.                          *)
Reported(thr) ==
  LET cands    == {i \in epushes : Logged(i).railA >= thr}
      Shown(i) == \A kind \in {"vraa", "vrab", "epull", "ecyc1", "ecyc2", "ecyct"} : Has(kind, i)
  IN  IF /\ thr > 0 => \A i \in epushes : Has("vraa", i)
         /\ cands # {} /\ Shown(Least(cands))
      THEN /\ Part(<<Least(cands)>>)
           /\ averages' = averages \cup {<<report, null_case[ENull]>>}
      ELSE Raised

Minimum ==
  /\ \/ report = "strict" /\ Reported(25)
     \/ report = "loose" /\ Reported(10)
     \/ report = "raw" /\ Reported(0)
  /\ UNCHANGED <<measured, lost, null_case>>

Diodes ==
  /\ report = "diodes"
  /\ LET cands(dmod) == {i \in epushes : decode(i).diode = dmod /\ Logged(i).railA >= 25}
         Best(dmod)  == IF cands(dmod) = {} THEN <<>> ELSE <<Least(cands(dmod))>>
     IN  IF \A i \in epushes : Has("vraa", i) THEN Part(Best("IDEAL") \o Best("SCHOTTKY")) ELSE Raised
  /\ UNCHANGED <<measured, lost, null_case, averages>>

FullGrid ==
  /\ report = "grid"
  /\ IF \A i \in epushes, kind \in {"vraa", "vrab", "epull", "ecyc2"} : Has(kind, i)
     THEN Part(<<>>) ELSE Raised
  /\ UNCHANGED <<measured, lost, null_case, averages>>

SweepNext == NullCase \/ Minimum \/ Diodes \/ FullGrid

-----------------------------------------------------------------------------
(* A window holds whole the pulses it is named for, at every width, and    *)
(* cuts no other (the comment of make_ternary_sweep.py:23-25); the two     *)
(* windows of the cycle put together are the one over all of it.           *)
SweepWindows ==
  /\ \A inst \in epushes, kind \in DOMAIN WINDOWS :
       LET w       == WINDOWS[kind]
           pulses  == subckt(decode(inst).pw)[Probe(kind)]
           Touches == {p \in pulses : p[1] < w[2] /\ w[1] < p[2]}
           first   == Min({p[1] : p \in pulses})
       IN  /\ \A p \in Touches : w[1] <= p[1] /\ p[2] <= w[2]
           /\ {p[1] : p \in Touches} =
                CASE kind = "ecyc2" -> {p[1] : p \in pulses} \ {first}
                  [] kind = "ecycT" -> {p[1] : p \in pulses}
                  [] OTHER          -> {first}
  /\ WINDOWS["ecyc1"] \o WINDOWS["ecyc2"] =
       <<WINDOWS["ecycT"][1], WINDOWS["ecyc1"][2], WINDOWS["ecyc1"][2], WINDOWS["ecycT"][2]>>

(* The names lead back to the levers they were made of.  A stricter        *)
(* threshold never finds a cheaper push, and the two diodes share out what *)
(* the strict one looks at.  A report that is printed to its end with a    *)
(* measurement missing is one of four: a push energy, which drops its      *)
(* instance from every part; one of no use to the report; one of a cycle   *)
(* of an instance not reported; or one of the idle driver, and then the    *)
(* averages are NaN for its energy, and a rail reads as zero volts, as a   *)
(* quiet rail does.  A missing measurement of the idle driver never stops  *)
(* the report: it stops then only for want of an instance that asserts its *)
(* rail (analyze_sweep.py:44-45, 57, 66).                                  *)
SweepStands ==
  /\ \A nm \in Grid : decode(inst_of(<<"epush">> \o lower(nm))) = Settings(nm)
  /\ report = "printed" =>
       LET energy(i) == Logged(mins[i]).epush
       IN  /\ energy(3) <= energy(2) /\ energy(2) <= energy(1)
           /\ energy(1) = Min({energy(i) : i \in 4 .. Len(mins)})
           /\ \A name \in lost :
                \/ Head(name) = "epush" /\ inst_of(name) \notin ToSet(mins)
                \/ Head(name) = "vlna"
                \/ Head(name) \in {"ecyc1", "ecyct"} /\ inst_of(name) \notin {mins[1], mins[2], mins[3]}
                \/ name \in Idle \ {ENull} /\ null_case[name] = "zero"
                \/ name = ENull
           /\ averages = {"strict", "loose", "raw"} \X {IF ENull \in lost THEN "nan" ELSE "measured"}
  /\ report = "raised" /\ lost \subseteq Idle => \A i \in DOMAIN Named : Logged(i).railA < 25
=============================================================================
