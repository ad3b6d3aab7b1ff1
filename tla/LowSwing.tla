------------------------------ MODULE LowSwing ------------------------------
(***************************************************************************)
(* The low-swing sweep: run_lowswing_sweep.sh runs ngspice once for each   *)
(* driver rail of two modes and concatenates the logs; analyze_lowswing.py *)
(* splits the log at the banners and reports, by mode, the cheapest point  *)
(* that resolves and the lowest rail each receiver resolves at.  A value   *)
(* that was not measured is NaN: <<>> here, a measured one <<v>>.  The     *)
(* energies of one part (the wire, either receiver) are one measurement.   *)
(***************************************************************************)
EXTENDS Integers, Sequences, FiniteSetsExt, SequencesExt

CONSTANTS FAIR, VTENG      \* the rails of the two passes, in 0.01 V, as they are run

ASSUME SwingAssumption == FAIR \in Seq(Nat) /\ VTENG \in Seq(Nat)

NaN == <<>>

Plus2(u, v)  == IF u = NaN \/ v = NaN THEN NaN ELSE <<u[1] + v[1]>>
Minus2(u, v) == IF u = NaN \/ v = NaN THEN NaN ELSE <<u[1] - v[1]>>
Below(u, v)  == u # NaN /\ v # NaN /\ u[1] < v[1]

(* Python's min: a later row takes the place of the first only when it is  *)
(* less, which a NaN never is, and nothing is less than one.               *)
PyMin(rs, is) ==
  LET least[k \in 0 .. Len(rs)] ==
        IF k = 0 THEN 0
        ELSE IF k \in is /\ (least[k - 1] = 0 \/ Below(rs[k].total, rs[least[k - 1]].total))
             THEN k ELSE least[k - 1]
  IN  rs[least[Len(rs)]]

(* A lower rail comes first; of equals, the first.  So in min and max too. *)
Sooner(rs, i, j) == rs[i].vd < rs[j].vd \/ (rs[i].vd = rs[j].vd /\ i <= j)

Lowest(rs, is)  == rs[CHOOSE i \in is : \A j \in is : Sooner(rs, i, j)]
Highest(rs, is) == rs[CHOOSE i \in is : \A j \in is :
                        rs[i].vd > rs[j].vd \/ (rs[i].vd = rs[j].vd /\ i <= j)]

(* How the simulation of one point may end: what it measured, in mV and    *)
(* 0.1 pJ, the differences at the two latches (push, pull) of either       *)
(* receiver, and the energies.  A run can die after its banner, or before. *)
Outcome(da_pa, db_na, da_pb, db_nb) ==
  [da_pa |-> da_pa, db_na |-> db_na, da_pb |-> da_pb, db_nb |-> db_nb,
   e_drv |-> 5, e_rec_a |-> 2, e_rec_b |-> 4]

Resolving == Outcome(10, 12, 30, 30)

OUTCOMES == {
  Resolving, Outcome(9, 12, 10, 30), Outcome(5, 5, 7, 5), Outcome(0, 2, 4, -3),
  [k \in DOMAIN Resolving \ {"e_rec_a"} |-> Resolving[k]],
  [k \in {} |-> 0] }

POINTS == [i \in DOMAIN FAIR |-> [mode |-> "FAIR", vd |-> FAIR[i]]]
            \o [i \in DOMAIN VTENG |-> [mode |-> "VTENG", vd |-> VTENG[i]]]

VARIABLES
  at_point,      \* points the shell script has run
  log,           \* the lines: a banner, or what was measured after it
  sections,      \* what split_points made of them
  rows, bench,   \* the rows; "sweep", "split", "tables", "printed" or "raised"
  summary        \* what was printed of each mode

swingVars == <<at_point, log, sections, rows, bench, summary>>

SwingInit ==
  /\ at_point = 0 /\ log = <<>> /\ sections = <<>> /\ rows = <<>>
  /\ bench = "sweep" /\ summary = <<>>

(* One run of ngspice; its failure is only echoed.                         *)
run_point ==
  /\ bench = "sweep" /\ at_point < Len(POINTS)
  /\ at_point' = at_point + 1
  /\ \/ \E M \in OUTCOMES :
          log' = log \o <<[banner |-> <<POINTS[at_point + 1]>>, meas |-> [k \in {} |-> 0]],
                          [banner |-> <<>>, meas |-> M]>>
     \/ log' = log
  /\ UNCHANGED <<sections, rows, bench, summary>>

(* Mutant: the measurements of a section are kept for the next.            *)
NewSectionKept(split, params) == [split EXCEPT !.params = params]

NewSection(split, params) == [split EXCEPT !.params = params, !.meas = [k \in {} |-> 0]]

(* A line that measures a name again replaces it.                          *)
Measured(meas, line) ==
  [m \in DOMAIN meas \cup DOMAIN line |-> IF m \in DOMAIN line THEN line[m] ELSE meas[m]]

Closed(split) ==
  IF split.params = <<>> THEN split.done
  ELSE Append(split.done, [params |-> split.params[1], meas |-> split.meas])

split_points ==
  LET split[k \in 0 .. Len(log)] ==
        IF k = 0 THEN [params |-> <<>>, meas |-> [m \in {} |-> 0], done |-> <<>>]
        ELSE LET before == split[k - 1]
                 line   == log[k]
             IN  IF line.banner # <<>>
                 THEN NewSection([before EXCEPT !.done = Closed(before)], line.banner)
                 ELSE IF before.params = <<>> THEN before
                 ELSE [before EXCEPT !.meas = Measured(@, line.meas)]
  IN  Closed(split[Len(log)])

Split ==
  /\ bench = "sweep" /\ at_point = Len(POINTS)
  /\ sections' = split_points /\ bench' = "split"
  /\ UNCHANGED <<at_point, log, rows, summary>>

-----------------------------------------------------------------------------
AtLeast(value, mV) == value # NaN /\ value[1] >= mV

classify(diff) ==
  IF AtLeast(diff, 10) THEN "OK" ELSE IF AtLeast(diff, 5) THEN "MAR" ELSE "FAIL"

(* The wire costs its energy and, by the charge of the gates, the rail.    *)
Row(section) ==
  LET g(k)  == IF k \in DOMAIN section.meas THEN <<section.meas[k]>> ELSE NaN
      okA   == AtLeast(g("da_pa"), 10) /\ AtLeast(g("db_na"), 10)
      okB   == AtLeast(g("da_pb"), 10) /\ AtLeast(g("db_nb"), 10)
      ifSA  == g("e_rec_a")
      ifPA  == g("e_rec_b")
      wire  == Plus2(g("e_drv"), <<section.params.vd>>)
      iface == IF okA THEN ifSA ELSE IF okB \/ Below(ifPA, ifSA) THEN ifPA ELSE ifSA
  IN  [mode |-> section.params.mode, vd |-> section.params.vd,
       rec |-> IF okA THEN "SA" ELSE IF okB THEN "preamp" ELSE "NONE",
       wire |-> wire, ifSA |-> ifSA, ifPA |-> ifPA, total |-> Plus2(wire, iface),
       clsA |-> <<classify(g("da_pa")), classify(g("db_na"))>>,
       clsB |-> <<classify(g("da_pb")), classify(g("db_nb"))>>]

main ==
  /\ bench = "split"
  /\ rows' = [i \in DOMAIN sections |-> Row(sections[i])]
  /\ bench' = "tables"
  /\ UNCHANGED <<at_point, log, sections, summary>>

(* The rows of a mode, the lowest rail first: list.sort.                  *)
OfMode(mode) ==
  LET mine     == {i \in DOMAIN rows : rows[i].mode = mode}
      Place(i) == Cardinality({j \in mine : Sooner(rows, j, i)})
  IN  [k \in 1 .. Cardinality(mine) |-> rows[CHOOSE i \in mine : Place(i) = k]]

MODES == <<"FAIR", "VTENG">>

(* The heading of a table names the first row of its mode.                 *)
NoRows ==
  /\ bench = "tables" /\ summary = <<>>
  /\ \E m \in DOMAIN MODES : OfMode(MODES[m]) = <<>>
  /\ bench' = "raised"
  /\ UNCHANGED <<at_point, log, sections, rows, summary>>

(* Mutant: rows that nothing resolves are candidates.                      *)
ResolvedAny(rs) == DOMAIN rs

Resolved(rs) == {i \in DOMAIN rs : rs[i].rec # "NONE"}

SummaryOf(mode) ==
  LET rs    == OfMode(mode)
      OK    == <<"OK", "OK">>
      saOf  == {i \in DOMAIN rs : rs[i].clsA = OK}
      paOf  == {i \in DOMAIN rs : rs[i].clsB = OK}
      floor == Lowest(rs, saOf)
      base  == Highest(rs, DOMAIN rs)
      below == {i \in DOMAIN rs : rs[i].vd < floor.vd /\ rs[i].clsB # <<"FAIL", "FAIL">>}
      step  == Minus2(base.ifPA, base.ifSA)
      gain  == Minus2(floor.wire, Highest(rs, below).wire)
  IN  IF Resolved(rs) = {} THEN [mode |-> mode, none |-> TRUE]
      ELSE [mode |-> mode, none |-> FALSE, best |-> PyMin(rs, Resolved(rs)),
            sa_floor |-> IF saOf = {} THEN <<>> ELSE <<floor>>,
            pa_floor |-> IF paOf = {} THEN <<>> ELSE <<Lowest(rs, paOf)>>,
            nxt |-> IF saOf = {} \/ below = {} THEN <<>> ELSE <<Highest(rs, below)>>,
            win |-> /\ saOf # {} /\ below # {}
                    /\ gain # NaN /\ step # NaN /\ gain[1] >= step[1]]

Summary ==
  /\ bench = "tables" /\ Len(summary) < Len(MODES)
  /\ \A m \in DOMAIN MODES : OfMode(MODES[m]) # <<>>
  /\ summary' = Append(summary, SummaryOf(MODES[Len(summary) + 1]))
  /\ bench' = IF Len(summary') = Len(MODES) THEN "printed" ELSE bench
  /\ UNCHANGED <<at_point, log, sections, rows>>

SwingNext == run_point \/ Split \/ main \/ NoRows \/ Summary

-----------------------------------------------------------------------------
(* Each section of the log gives one row, in order, with the measurements  *)
(* of its own run and none of another's, whichever runs before it died.    *)
SectionsMatch ==
  bench # "sweep" =>
    sections = [i \in 1 .. Len(log) \div 2 |->
                  [params |-> log[2 * i - 1].banner[1], meas |-> log[2 * i].meas]]

(* The two places that hold the 10 mV agree (analyze_lowswing.py:50-52 and *)
(* 74-75), so below the floor printed for the sense amplifier no point is  *)
(* read by it, and at the floor the point is.  The point "below the floor, *)
(* needs preamp" may be one that the preamp does not resolve either.       *)
FloorStands ==
  \A m \in {m \in DOMAIN summary : ~summary[m].none} :
    LET rs == OfMode(MODES[m])
        s  == summary[m]
    IN  /\ \A i \in DOMAIN rs :
             rs[i].rec = "SA" => s.sa_floor # <<>> /\ s.sa_floor[1].vd <= rs[i].vd
        /\ \A f \in ToSet(s.sa_floor) : f.rec = "SA"
        /\ \A f \in ToSet(s.pa_floor) : f.rec \in {"SA", "preamp"}
        /\ \A below \in ToSet(s.nxt) :
             /\ below.rec \in {"preamp", "NONE"}
             /\ s.win => LET base == Highest(rs, DOMAIN rs)
                         IN  NaN \notin {below.wire, s.sa_floor[1].wire, base.ifSA, base.ifPA}

(* The cheapest point printed is one that resolves; its energy is the      *)
(* least of those known, unless the point of the lowest rail that resolves *)
(* lacks an energy, which is then printed whatever the others cost.        *)
BestStands ==
  \A m \in {m \in DOMAIN summary : ~summary[m].none} :
    LET rs   == OfMode(MODES[m])
        ok   == Resolved(rs)
        low  == rs[Min(ok)]
        best == summary[m].best
    IN  /\ best.rec # "NONE"
        /\ \A i \in ok : low.vd <= rs[i].vd
        /\ best.total = NaN <=> low.total = NaN
        /\ best.total # NaN => \A i \in ok : rs[i].total # NaN => best.total[1] <= rs[i].total[1]

(* The summary printed of each mode is true of its rows.                   *)
SummaryStands == FloorStands /\ BestStands
=============================================================================
