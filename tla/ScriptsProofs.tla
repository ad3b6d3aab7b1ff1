---------------------------- MODULE ScriptsProofs ---------------------------
(***************************************************************************)
(* The scripts that count and report, for every size of their inputs.      *)
(*                                                                         *)
(* The low-swing analyser splits its log as it was written.  The log has   *)
(* two lines for each run that began, so what the split has after any      *)
(* number of lines can be said outright (Halfway), and is shown to be what *)
(* its recursion gives.                                                    *)
(*                                                                         *)
(* The crossover's cells are the pairs of a run of equal trits and a run   *)
(* of equal bits that meet.  Powers of two and three rise, so a number of  *)
(* things takes one count of each, and it lies in the one cell of the two; *)
(* the loops have made the cells of every pair before where they stand,    *)
(* and the walk has counted every number up to its place.                  *)
(*                                                                         *)
(* The memo's signatures.  The sixteen matrices canonical makes are the    *)
(* renamings of the table; one renaming after another is a renaming, so a  *)
(* table has the renamings of each of its renamings, and the least key of  *)
(* them is the signature of all.  The trees are then followed through the  *)
(* list that _enumerate_trees fills, so that every subtree has its table   *)
(* when it is asked for.                                                   *)
(*                                                                         *)
(* The memo's counters.  A sum over the tables of a signature grows by one *)
(* when one of them is counted, and by nothing else; as the sums are taken *)
(* by a fold, what a fold over a finite set is comes first.                *)
(*                                                                         *)
(* The lever sweep.  Lower case keeps a name's levers apart, and what the  *)
(* windows hold depends on the width alone, of which there are four.  The  *)
(* invariant says of each part of the report what it took and had.         *)
(*                                                                         *)
(* The summary of the low-swing sweep.  The rails of a section are those   *)
(* of its banner, so the rows are good ones (GoodRow); the sort gives each *)
(* place to one row, and the scan of min is followed row by row.           *)
(***************************************************************************)
EXTENDS Scripts, TritsProofs, FiniteSetTheorems

(* A function on 1 .. m grows by one when its next value is appended.      *)
LEMMA AppendNext ==
  ASSUME NEW S, NEW m \in Nat, NEW f, \A i \in 1 .. m + 1 : f[i] \in S
  PROVE  /\ [i \in 1 .. m |-> f[i]] \in Seq(S)
         /\ Append([i \in 1 .. m |-> f[i]], f[m + 1]) = [i \in 1 .. m + 1 |-> f[i]]
<1> DEFINE s == [i \in 1 .. m |-> f[i]]
           t == [i \in 1 .. m + 1 |-> f[i]]
           u == Append(s, f[m + 1])
<1>1. s \in Seq(S) /\ Len(s) = m /\ f[m + 1] \in S
  OBVIOUS
<1>2. t \in Seq(S) /\ Len(t) = m + 1
  OBVIOUS
<1> HIDE DEF s
<1>3. /\ u \in Seq(S) /\ Len(u) = m + 1
      /\ \A i \in 1 .. m : u[i] = s[i]
      /\ u[m + 1] = f[m + 1]
  BY <1>1, AppendProperties
<1>4. \A i \in 1 .. m + 1 : u[i] = t[i]
  <2>1. \A i \in 1 .. m : s[i] = f[i]
    BY DEF s
  <2>2. \A i \in 1 .. m + 1 : i \in 1 .. m \/ i = m + 1
    OBVIOUS
  <2>3. \A i \in 1 .. m + 1 : t[i] = f[i]
    OBVIOUS
  <2> HIDE DEF t, u
  <2> QED
    BY <1>3, <2>1, <2>2, <2>3
<1>5. u = t
  <2> HIDE DEF u, t
  <2> QED
    BY <1>2, <1>3, <1>4, SeqEqual
<1> QED
  BY <1>1, <1>5 DEF s

-----------------------------------------------------------------------------
(* What the log is made of, and the section its m-th pair of lines gives.  *)
Line == [banner : {<<>>} \cup {<<POINTS[i]>> : i \in Nat}, meas : OUTCOMES]

Paired ==
  /\ log \in Seq(Line) /\ Len(log) % 2 = 0
  /\ \A k \in 1 .. Len(log) : log[k].banner = <<>> <=> k % 2 = 0

Section(m)  == [params |-> log[2 * m - 1].banner[1], meas |-> log[2 * m].meas]
Sections(m) == [i \in 1 .. m |-> Section(i)]

Nothing == [k \in {} |-> 0]

(* What is measured is a function, and nothing is one too.                 *)
LEMMA OutcomesAre ==
  /\ Nothing \in OUTCOMES
  /\ \A M \in OUTCOMES : Measured(Nothing, M) = M
<1>1. \A a, b, c, d : Outcome(a, b, c, d) = [k \in DOMAIN Outcome(a, b, c, d) |-> Outcome(a, b, c, d)[k]]
  BY DEF Outcome
<1>2. ASSUME NEW M \in OUTCOMES PROVE M = [k \in DOMAIN M |-> M[k]]
  <2> DEFINE few == [k \in DOMAIN Resolving \ {"e_rec_a"} |-> Resolving[k]]
             none == [k \in {} |-> 0]
  <2>1. few = [k \in DOMAIN few |-> few[k]] /\ none = [k \in DOMAIN none |-> none[k]]
    OBVIOUS
  <2>2. \/ \E a, b, c, d : M = Outcome(a, b, c, d)
        \/ M = few \/ M = none
    BY DEF OUTCOMES, Resolving
  <2> HIDE DEF few, none
  <2> QED
    BY <1>1, <2>1, <2>2
<1>3. ASSUME NEW M \in OUTCOMES PROVE Measured(Nothing, M) = M
  BY <1>2 DEF Measured, Nothing
<1> QED
  BY <1>3 DEF OUTCOMES, Nothing

(* The recursion of split_points, by its step.                             *)
Started == [params |-> <<>>, meas |-> Nothing, done |-> <<>>]

After(before, line) ==
  IF line.banner # <<>>
  THEN NewSection([before EXCEPT !.done = Closed(before)], line.banner)
  ELSE IF before.params = <<>> THEN before
  ELSE [before EXCEPT !.meas = Measured(@, line.meas)]

SplitStep(f) == [k \in 0 .. Len(log) |-> IF k = 0 THEN Started ELSE After(f[k - 1], log[k])]

LEMMA SplitIs ==
  ASSUME \E f : f = SplitStep(f)
  PROVE  \E f : f = SplitStep(f) /\ split_points = Closed(f[Len(log)])
<1> DEFINE s == CHOOSE f : f = SplitStep(f)
<1>1. s = SplitStep(s)
  OBVIOUS
<1>2. split_points = Closed(s[Len(log)])
  BY Zenon DEF split_points, SplitStep, After, Started, Nothing
<1> QED
  BY <1>1, <1>2

(* What the split has after k lines.                                       *)
Halfway(k) ==
  IF k = 0 THEN Started
  ELSE IF k % 2 = 1
  THEN [params |-> log[k].banner, meas |-> Nothing, done |-> Sections(k \div 2)]
  ELSE [params |-> log[k - 1].banner, meas |-> log[k].meas, done |-> Sections(k \div 2 - 1)]

(* Closing it after a whole run adds the section of that run.              *)
LEMMA ClosedIs ==
  ASSUME Paired, NEW m \in Nat, 2 * m <= Len(log)
  PROVE  Closed(Halfway(2 * m)) = Sections(m)
<1>1. CASE m = 0
  <2>1. Halfway(2 * m) = Started
    BY <1>1 DEF Halfway
  <2>2. Sections(m) = <<>>
    BY <1>1 DEF Sections
  <2> QED
    BY <2>1, <2>2 DEF Closed, Started
<1>2. CASE m # 0
  <2> DEFINE f == Sections(m)
             S == {Section(i) : i \in 1 .. m}
             n == m - 1
  <2>1. n \in Nat /\ n + 1 = m /\ 1 .. n \subseteq 1 .. m
    BY <1>2
  <2>2. f = [i \in 1 .. m |-> Section(i)] /\ Sections(n) = [i \in 1 .. n |-> Section(i)]
    BY DEF Sections
  <2>3. \A i \in 1 .. m : f[i] = Section(i) /\ f[i] \in S
    BY <2>2
  <2>4. Append([i \in 1 .. n |-> f[i]], f[n + 1]) = [i \in 1 .. n + 1 |-> f[i]]
    <3> HIDE DEF f, S, n
    <3> QED
      BY <2>1, <2>3, AppendNext
  <2>5. [i \in 1 .. n |-> f[i]] = Sections(n)
    <3> HIDE DEF f
    <3> QED
      BY <2>1, <2>2, <2>3
  <2>6. [i \in 1 .. n + 1 |-> f[i]] = Sections(m) /\ f[n + 1] = Section(m)
    <3>1. m \in 1 .. m
      BY <1>2
    <3> QED
      BY <2>1, <2>2, <2>3, <3>1
  <2>7. Append(Sections(n), Section(m)) = Sections(m)
    BY <2>4, <2>5, <2>6
  <2>8. Halfway(2 * m) = [params |-> log[2 * m - 1].banner, meas |-> log[2 * m].meas, done |-> Sections(n)]
    <3>1. 2 * m # 0 /\ (2 * m) % 2 # 1 /\ (2 * m) \div 2 = m
      BY <1>2
    <3> QED
      BY <3>1 DEF Halfway
  <2>9. log[2 * m - 1].banner # <<>>
    <3>1. 2 * m - 1 \in 1 .. Len(log) /\ (2 * m - 1) % 2 # 0
      BY <1>2 DEF Paired
    <3> QED
      BY <3>1 DEF Paired
  <2>10. Closed(Halfway(2 * m)) = Append(Sections(n), [params |-> log[2 * m - 1].banner[1], meas |-> log[2 * m].meas])
    <3> HIDE DEF n
    <3> QED
      BY <2>8, <2>9 DEF Closed
  <2> QED
    BY <2>7, <2>10 DEF Section
<1> QED
  BY <1>1, <1>2

(* A line takes the split from one half to the next.                       *)
LEMMA HalfwayOn ==
  ASSUME Paired, NEW k \in 1 .. Len(log)
  PROVE  Halfway(k) = After(Halfway(k - 1), log[k])
<1>0. Len(log) \in Nat /\ k \in Nat /\ k # 0 /\ log[k] \in Line
  BY DEF Paired
<1>1. CASE k % 2 = 1
  <2>1. PICK m \in Nat : k = 2 * m + 1
    <3>1. k \div 2 \in Nat /\ k = 2 * (k \div 2) + 1
      BY <1>0, <1>1
    <3> QED
      BY <3>1
  <2>2. k - 1 = 2 * m /\ 2 * m <= Len(log) /\ k \div 2 = m /\ k % 2 # 0
    BY <1>0, <2>1
  <2>3. Closed(Halfway(k - 1)) = Sections(m)
    BY <2>2, ClosedIs
  <2>4. log[k].banner # <<>>
    BY <2>2 DEF Paired
  <2>5. \E p, q, d : Halfway(k - 1) = [params |-> p, meas |-> q, done |-> d]
    <3>1. (2 * m) % 2 # 1
      OBVIOUS
    <3> QED
      BY <2>2, <3>1 DEF Halfway, Started
  <2>6. Halfway(k) = [params |-> log[k].banner, meas |-> Nothing, done |-> Sections(m)]
    BY <1>0, <1>1, <2>2 DEF Halfway
  <2>7. PICK p, q, d : Halfway(k - 1) = [params |-> p, meas |-> q, done |-> d]
    BY <2>5
  <2>8. After(Halfway(k - 1), log[k]) =
          NewSection([Halfway(k - 1) EXCEPT !.done = Sections(m)], log[k].banner)
    BY <2>3, <2>4 DEF After
  <2>9. [Halfway(k - 1) EXCEPT !.done = Sections(m)] = [params |-> p, meas |-> q, done |-> Sections(m)]
    BY <2>7
  <2>10. \A b : NewSection([params |-> p, meas |-> q, done |-> Sections(m)], b)
                  = [params |-> b, meas |-> Nothing, done |-> Sections(m)]
    <3>1. \A b, r : NewSection(r, b) = [r EXCEPT !.params = b, !.meas = Nothing]
      BY DEF NewSection, Nothing
    <3> QED
      BY <3>1
  <2> QED
    BY <2>6, <2>8, <2>9, <2>10
<1>2. CASE k % 2 # 1
  <2>1. k % 2 = 0
    BY <1>0, <1>2
  <2>2. k - 1 # 0 /\ (k - 1) % 2 = 1 /\ (k - 1) % 2 # 0 /\ (k - 1) \div 2 = k \div 2 - 1
        /\ k - 1 \in 1 .. Len(log)
    BY <1>0, <2>1
  <2>3. Halfway(k - 1) = [params |-> log[k - 1].banner, meas |-> Nothing, done |-> Sections(k \div 2 - 1)]
    BY <2>2 DEF Halfway
  <2>4. log[k].banner = <<>> /\ log[k - 1].banner # <<>>
    BY <2>1, <2>2 DEF Paired
  <2>5. Measured(Nothing, log[k].meas) = log[k].meas
    BY <1>0, OutcomesAre DEF Line
  <2>6. Halfway(k) = [params |-> log[k - 1].banner, meas |-> log[k].meas, done |-> Sections(k \div 2 - 1)]
    BY <1>0, <1>2 DEF Halfway
  <2> QED
    BY <2>3, <2>4, <2>5, <2>6 DEF After
<1> QED
  BY <1>1, <1>2

(* So the split gives one section for each run.                            *)
LEMMA SplitGives ==
  ASSUME Paired
  PROVE  split_points = Sections(Len(log) \div 2)
<1> DEFINE n == Len(log)
           h == [k \in 0 .. n |-> Halfway(k)]
<1>0. n \in Nat /\ n \div 2 \in Nat /\ n = 2 * (n \div 2) /\ n \in 0 .. n
  BY DEF Paired
<1>1. h = SplitStep(h)
  <2>1. ASSUME NEW k \in 0 .. n, k # 0 PROVE h[k] = After(h[k - 1], log[k])
    <3>1. k \in 1 .. n /\ k - 1 \in 0 .. n
      BY <2>1
    <3>2. h[k] = Halfway(k) /\ h[k - 1] = Halfway(k - 1)
      BY <3>1
    <3> QED
      BY <3>1, <3>2, HalfwayOn
  <2>2. h[0] = Started
    BY <1>0 DEF Halfway
  <2>3. SplitStep(h) = [k \in 0 .. n |-> h[k]]
    <3> HIDE DEF h
    <3> QED
      BY <2>1, <2>2 DEF SplitStep
  <2>4. [k \in 0 .. n |-> h[k]] = h
    OBVIOUS
  <2> QED
    BY <2>3, <2>4
<1>2. PICK f : f = SplitStep(f) /\ split_points = Closed(f[n])
  <2> HIDE DEF h
  <2> QED
    BY <1>1, SplitIs
<1> HIDE DEF h
<1>3. f[0] = h[0] /\ \A i \in 1 .. n : f[i - 1] = h[i - 1] => f[i] = h[i]
  <2>1. \A g : g = SplitStep(g) => g[0] = Started /\ \A i \in 1 .. n : g[i] = After(g[i - 1], log[i])
    BY <1>0 DEF SplitStep
  <2> QED
    BY <1>1, <1>2, <2>1
<1>4. f[n] = h[n]
  <2> HIDE DEF n
  <2> QED
    BY <1>0, <1>3, Unique
<1>5. h[n] = Halfway(2 * (n \div 2))
  BY <1>0 DEF h
<1>6. Closed(Halfway(2 * (n \div 2))) = Sections(n \div 2)
  BY <1>0, ClosedIs
<1> QED
  BY <1>2, <1>4, <1>5, <1>6

-----------------------------------------------------------------------------
(* Two lines more keep the log in pairs.                                   *)
LEMMA PairedGrows ==
  ASSUME Paired, NEW p \in {<<POINTS[i]>> : i \in Nat}, NEW M \in OUTCOMES,
         log' = log \o <<[banner |-> p, meas |-> Nothing], [banner |-> <<>>, meas |-> M]>>
  PROVE  Paired'
<1> DEFINE n == Len(log)
           w == <<[banner |-> p, meas |-> Nothing], [banner |-> <<>>, meas |-> M]>>
<1>1. n \in Nat /\ n % 2 = 0 /\ log \in Seq(Line)
  BY DEF Paired
<1>2. w \in Seq(Line) /\ Len(w) = 2 /\ w[1].banner # <<>> /\ w[2].banner = <<>>
  <2>1. [banner |-> p, meas |-> Nothing] \in Line /\ [banner |-> <<>>, meas |-> M] \in Line
    BY OutcomesAre DEF Line
  <2>2. \A x, y \in Line : /\ <<x, y>> \in Seq(Line) /\ Len(<<x, y>>) = 2
                            /\ <<x, y>>[1] = x /\ <<x, y>>[2] = y
    OBVIOUS
  <2>3. /\ w \in Seq(Line) /\ Len(w) = 2
        /\ w[1] = [banner |-> p, meas |-> Nothing] /\ w[2] = [banner |-> <<>>, meas |-> M]
    BY <2>1, <2>2
  <2> HIDE DEF w
  <2>4. w[1].banner = p /\ w[2].banner = <<>>
    BY <2>3
  <2>5. p # <<>>
    <3>1. \A x : Len(<<x>>) = 1 /\ Len(<<>>) = 0
      OBVIOUS
    <3>2. PICK i \in Nat : p = <<POINTS[i]>>
      OBVIOUS
    <3> HIDE DEF POINTS
    <3> SUFFICES ASSUME p = <<>> PROVE FALSE
      OBVIOUS
    <3>3. Len(<<POINTS[i]>>) = Len(<<>>)
      BY <3>2
    <3> QED
      BY <3>1, <3>3
  <2> QED
    BY <2>3, <2>4, <2>5
<1> HIDE DEF w
<1>7. (n + 1) % 2 = 1 /\ (n + 2) % 2 = 0
  <2>1. PICK i \in Nat : n = 2 * i
    <3>1. n \div 2 \in Nat /\ n = 2 * (n \div 2)
      BY <1>1
    <3> QED
      BY <3>1
  <2> QED
    BY <1>1, <2>1
<1>3. IsJoin(log', Line, log, w, n, 2)
  BY <1>1, <1>2, Joined DEF w
<1>4. log' \in Seq(Line) /\ Len(log') = n + 2
  BY <1>3 DEF IsJoin
<1>5. ASSUME NEW k \in 1 .. n + 2 PROVE log'[k].banner = <<>> <=> k % 2 = 0
  <2>1. CASE k \in 1 .. n
    BY <1>3, <2>1 DEF IsJoin, Paired
  <2>2. CASE k = n + 1
    <3>1. log'[k] = w[1]
      BY <1>3, <2>2 DEF IsJoin
    <3>2. k % 2 # 0
      BY <1>7, <2>2
    <3> QED
      BY <1>2, <3>1, <3>2
  <2>3. CASE k = n + 2
    <3>1. log'[k] = w[2]
      BY <1>3, <2>3 DEF IsJoin
    <3>2. k % 2 = 0
      BY <1>7, <2>3
    <3> QED
      BY <1>2, <3>1, <3>2
  <2> QED
    BY <1>1, <2>1, <2>2, <2>3
<1>6. (n + 2) % 2 = 0
  BY <1>1
<1> QED
  BY <1>4, <1>5, <1>6, Line' = Line DEF Paired

(* The sections are those of the log from the split on.                    *)
SectionsInv ==
  /\ at_point \in Nat /\ Paired
  /\ bench # "sweep" => sections = Sections(Len(log) \div 2)

LEMMA SectionsInit == Init => SectionsInv
<1> SUFFICES ASSUME Init PROVE SectionsInv
  OBVIOUS
<1>1. at_point = 0 /\ log = <<>> /\ bench = "sweep"
  BY DEF Init, SwingInit
<1> QED
  BY <1>1 DEF SectionsInv, Paired

LEMMA SectionsNext == SectionsInv /\ [Next]_scriptVars => SectionsInv'
<1> SUFFICES ASSUME SectionsInv, [Next]_scriptVars PROVE SectionsInv'
  OBVIOUS
<1>1. CASE UNCHANGED swingVars
  BY <1>1 DEF SectionsInv, Paired, Sections, Section, Line, swingVars
<1>2. CASE SwingNext
  <2>1. CASE run_point
    <3>1. at_point' \in Nat /\ bench' = "sweep"
      BY <2>1 DEF run_point, SectionsInv
    <3>2. CASE log' = log
      BY <3>1, <3>2 DEF SectionsInv, Paired, Line
    <3>3. CASE log' # log
      <4>1. PICK M \in OUTCOMES :
              log' = log \o <<[banner |-> <<POINTS[at_point + 1]>>, meas |-> Nothing], [banner |-> <<>>, meas |-> M]>>
        BY <2>1, <3>3 DEF run_point, Nothing
      <4>2. at_point + 1 \in Nat /\ Paired
        BY DEF SectionsInv
      <4>3. Paired'
        BY <4>1, <4>2, PairedGrows
      <4> QED
        BY <3>1, <4>3 DEF SectionsInv
    <3> QED
      BY <3>2, <3>3
  <2>2. CASE Split
    <3>1. sections' = Sections(Len(log) \div 2) /\ log' = log /\ at_point' = at_point
      BY <2>2, SplitGives DEF Split, SectionsInv
    <3> QED
      BY <3>1 DEF SectionsInv, Paired, Sections, Section, Line
  <2>3. CASE main \/ NoRows \/ Summary
    <3>1. /\ bench # "sweep" /\ UNCHANGED <<at_point, log, sections>>
      BY <2>3 DEF main, NoRows, Summary
    <3> QED
      BY <3>1 DEF SectionsInv, Paired, Sections, Section, Line
  <2> QED
    BY <1>2, <2>1, <2>2, <2>3 DEF SwingNext
<1> QED
  BY <1>1, <1>2 DEF Next, scriptVars

(* Whichever runs of the low-swing sweep die, and however many points the  *)
(* two passes have, the analyser makes one section of each run that began, *)
(* in their order, with its own measurements and no other's.               *)
THEOREM SectionsAreRuns == Spec => []SectionsMatch
<1>1. Init => SectionsInv
  BY SectionsInit
<1>2. SectionsInv /\ [Next]_scriptVars => SectionsInv'
  BY SectionsNext
<1>3. SectionsInv => SectionsMatch
  BY DEF SectionsInv, SectionsMatch, Sections, Section
<1> QED
  BY <1>1, <1>2, <1>3, PTL DEF Spec

-----------------------------------------------------------------------------
(* The powers of two and three.                                            *)
LEMMA PowerIs ==
  ASSUME NEW base \in {2, 3}
  PROVE  /\ Power(base)[0] = 1
         /\ \A n \in Nat : Power(base)[n + 1] = base * Power(base)[n]
<1> DEFINE s == CHOOSE f : f = PowStep(base, f)
<1>1. s = PowStep(base, s)
  <2>1. base \in Nat
    OBVIOUS
  <2> QED
    BY <2>1, PowExists
<1>2. Power(base) = s
  BY Zenon DEF Power, PowStep
<1> HIDE DEF s
<1>3. s[0] = 1 /\ \A n \in Nat : n + 1 # 0 /\ (n + 1) - 1 = n /\ s[n + 1] = base * s[(n + 1) - 1]
  BY <1>1 DEF PowStep
<1> QED
  BY <1>2, <1>3

LEMMA Powers ==
  ASSUME NEW n \in Nat
  PROVE  /\ Power(2)[0] = 1 /\ Power(3)[0] = 1
         /\ Power(2)[n] \in Nat /\ Power(3)[n] \in Nat /\ n < Power(2)[n]
         /\ Power(2)[n] <= Power(3)[n] /\ (n >= 1 => Power(2)[n] < Power(3)[n])
         /\ n >= 2 => 2 * Power(2)[n] <= Power(3)[n]
         /\ Power(2)[n + 1] = 2 * Power(2)[n] /\ Power(3)[n + 1] = 3 * Power(3)[n]
<1> DEFINE Fact(i) == /\ Power(2)[i] \in Nat /\ Power(3)[i] \in Nat /\ i < Power(2)[i]
                      /\ Power(2)[i] <= Power(3)[i] /\ (i >= 1 => Power(2)[i] < Power(3)[i])
                      /\ i >= 2 => 2 * Power(2)[i] <= Power(3)[i]
           T == {i \in 0 .. n : Fact(i)}
<1>1. /\ Power(2)[0] = 1 /\ Power(3)[0] = 1
      /\ \A i \in Nat : Power(2)[i + 1] = 2 * Power(2)[i] /\ Power(3)[i + 1] = 3 * Power(3)[i]
  BY PowerIs
<1>2. 0 \in T
  BY <1>1
<1>3. ASSUME NEW i \in 1 .. n, i - 1 \in T PROVE i \in T
  <2> DEFINE k == i - 1
  <2>1. k \in Nat /\ k + 1 = i /\ Fact(k)
    BY <1>3
  <2>2. Power(2)[i] = 2 * Power(2)[k] /\ Power(3)[i] = 3 * Power(3)[k]
    BY <1>1, <2>1
  <2>3. k = 1 => Power(2)[k] = 2 /\ Power(3)[k] = 3
    <3>1. Power(2)[0 + 1] = 2 * Power(2)[0] /\ Power(3)[0 + 1] = 3 * Power(3)[0]
      BY <1>1
    <3> QED
      BY <1>1, <3>1
  <2>4. Fact(i)
    <3> HIDE DEF k
    <3>1. CASE k = 0
      BY <1>1, <2>1, <2>2, <3>1
    <3>2. CASE k = 1
      BY <2>1, <2>2, <2>3, <3>2
    <3>3. CASE k >= 2
      BY <2>1, <2>2, <3>3
    <3> QED
      BY <2>1, <3>1, <3>2, <3>3
  <2> QED
    BY <2>4
<1>4. n \in T
  <2> HIDE DEF T
  <2> QED
    BY <1>2, <1>3, Climb
<1> QED
  BY <1>1, <1>4

LEMMA PowersRise ==
  ASSUME NEW base \in {2, 3}, NEW m \in Nat, NEW n \in Nat, m < n
  PROVE  Power(base)[m] < Power(base)[n]
<1> DEFINE d == n - m
           T == {i \in 0 .. d : i = 0 \/ Power(base)[m] < Power(base)[m + i]}
<1>1. 0 \in T
  OBVIOUS
<1>2. ASSUME NEW i \in 1 .. d, i - 1 \in T PROVE i \in T
  <2> DEFINE k == m + (i - 1)
  <2>1. k \in Nat /\ k + 1 = m + i
    OBVIOUS
  <2>2. Power(base)[m] <= Power(base)[k]
    <3>1. i - 1 = 0 \/ Power(base)[m] < Power(base)[k]
      BY <1>2
    <3>2. Power(base)[m] \in Nat /\ Power(base)[k] \in Nat
      BY <2>1, Powers
    <3>3. i - 1 = 0 => k = m
      OBVIOUS
    <3> HIDE DEF k
    <3> QED
      BY <3>1, <3>2, <3>3
  <2>3. Power(base)[k] < Power(base)[m + i] /\ Power(base)[m + i] \in Nat /\ Power(base)[m] \in Nat /\ Power(base)[k] \in Nat
    <3> HIDE DEF k
    <3>1. k < Power(2)[k] /\ Power(2)[k] <= Power(3)[k] /\ Power(2)[k] \in Nat /\ Power(3)[k] \in Nat
          /\ Power(2)[k + 1] = 2 * Power(2)[k] /\ Power(3)[k + 1] = 3 * Power(3)[k] /\ Power(base)[m] \in Nat
      BY <2>1, Powers
    <3> QED
      BY <2>1, <3>1
  <2>4. Power(base)[m] < Power(base)[m + i]
    <3> HIDE DEF k
    <3> QED
      BY <2>2, <2>3
  <2> QED
    BY <2>4
<1>3. d \in Nat /\ d # 0 /\ m + d = n /\ d \in 0 .. d
  OBVIOUS
<1>4. d \in T
  <2> HIDE DEF T, d
  <2> QED
    BY <1>1, <1>2, <1>3, Climb
<1> QED
  BY <1>3, <1>4

-----------------------------------------------------------------------------
(* n things take t symbols of a base.                                      *)
Takes(base, n, t) ==
  t \in Nat /\ n <= Power(base)[t] /\ (t = 0 \/ Power(base)[t - 1] < n)

LEMMA TakesOnce ==
  ASSUME NEW base \in {2, 3}, NEW n \in Nat \ {0}
  PROVE  /\ \E t \in Nat : Takes(base, n, t)
         /\ \A t, e \in Nat : Takes(base, n, t) /\ n <= Power(base)[e] => t <= e
         /\ \A t, u : Takes(base, n, t) /\ Takes(base, n, u) => t = u
<1>0. \A t \in Nat : Power(base)[t] \in Nat
  BY Powers
<1>1. \E t \in Nat : Takes(base, n, t)
  <2> SUFFICES ASSUME ~ \E t \in Nat : Takes(base, n, t) PROVE FALSE
    OBVIOUS
  <2> DEFINE T == {i \in 0 .. n : Power(base)[i] < n}
  <2>1. 0 \in T
    <3>1. ~ Takes(base, n, 0)
      OBVIOUS
    <3>2. Power(base)[0] \in Nat
      BY <1>0
    <3> QED
      BY <3>1, <3>2 DEF Takes
  <2>2. ASSUME NEW i \in 1 .. n, i - 1 \in T PROVE i \in T
    <3>1. i \in Nat /\ ~ Takes(base, n, i) /\ Power(base)[i - 1] < n
      BY <2>2
    <3>2. Power(base)[i] \in Nat
      BY <1>0, <3>1
    <3> QED
      BY <3>1, <3>2 DEF Takes
  <2>3. n \in T
    <3> HIDE DEF T
    <3> QED
      BY <2>1, <2>2, Climb
  <2>4. n < Power(2)[n] /\ Power(2)[n] <= Power(3)[n] /\ Power(2)[n] \in Nat /\ Power(3)[n] \in Nat
    BY Powers
  <2> QED
    BY <2>3, <2>4
<1>2. ASSUME NEW t \in Nat, NEW e \in Nat, Takes(base, n, t), n <= Power(base)[e] PROVE t <= e
  <2> SUFFICES ASSUME e < t PROVE FALSE
    OBVIOUS
  <2>1. t - 1 \in Nat /\ t # 0 /\ (e = t - 1 \/ e < t - 1)
    OBVIOUS
  <2>2. Power(base)[e] <= Power(base)[t - 1]
    BY <1>0, <2>1, PowersRise
  <2>3. Power(base)[t - 1] < n
    BY <1>2, <2>1 DEF Takes
  <2> QED
    BY <1>0, <1>2, <2>1, <2>2, <2>3
<1>3. ASSUME NEW t, NEW u, Takes(base, n, t), Takes(base, n, u) PROVE t = u
  <2>1. t \in Nat /\ u \in Nat /\ n <= Power(base)[t] /\ n <= Power(base)[u]
    BY <1>3 DEF Takes
  <2>2. t <= u /\ u <= t
    BY <1>2, <1>3, <2>1
  <2> QED
    BY <2>1, <2>2
<1> QED
  BY <1>1, <1>2, <1>3

(* Ternary never takes more, and takes less for three and from five on.    *)
LEMMA Shorter ==
  ASSUME NEW n \in Nat \ {0}, NEW t, NEW b, Takes(3, n, t), Takes(2, n, b)
  PROVE  t <= b /\ (t < b <=> n = 3 \/ n >= 5)
<1>0. t \in Nat /\ b \in Nat
  BY DEF Takes
<1>1. t <= b
  <2>1. n <= Power(2)[b] /\ Power(2)[b] <= Power(3)[b] /\ Power(2)[b] \in Nat /\ Power(3)[b] \in Nat
    BY <1>0, Powers DEF Takes
  <2> QED
    BY <1>0, <2>1, TakesOnce
<1>2. /\ Power(2)[0] = 1 /\ Power(2)[1] = 2 /\ Power(2)[2] = 4
      /\ Power(3)[0] = 1 /\ Power(3)[1] = 3 /\ Power(3)[2] = 9
  <2>1. Power(2)[0 + 1] = 2 * Power(2)[0] /\ Power(3)[0 + 1] = 3 * Power(3)[0] /\ Power(2)[0] = 1 /\ Power(3)[0] = 1
    BY Powers
  <2>2. Power(2)[1 + 1] = 2 * Power(2)[1] /\ Power(3)[1 + 1] = 3 * Power(3)[1]
    BY Powers
  <2> QED
    BY <2>1, <2>2
<1>3. /\ Takes(3, 1, 0) /\ Takes(3, 2, 1) /\ Takes(3, 3, 1) /\ Takes(3, 4, 2)
      /\ Takes(2, 1, 0) /\ Takes(2, 2, 1) /\ Takes(2, 3, 2) /\ Takes(2, 4, 2)
  BY <1>2 DEF Takes
<1>4. CASE n < 5
  <2>1. n \in {1, 2, 3, 4}
    BY <1>4
  <2>2. /\ n = 1 => t = 0 /\ b = 0
        /\ n = 2 => t = 1 /\ b = 1
        /\ n = 3 => t = 1 /\ b = 2
        /\ n = 4 => t = 2 /\ b = 2
    <3> SUFFICES ASSUME NEW x, NEW y, Takes(3, n, x), Takes(2, n, y) PROVE t = x /\ b = y
      BY <1>3
    <3> QED
      BY TakesOnce
  <2> QED
    BY <2>1, <2>2
<1>5. CASE n >= 5
  <2>1. b >= 3
    <3>1. \A e \in Nat : e < 3 => Power(2)[e] <= 4
      <4>1. \A e \in Nat : e < 3 => e = 0 \/ e = 1 \/ e = 2
        OBVIOUS
      <4> QED
        BY <1>2, <4>1
    <3>2. n <= Power(2)[b] /\ Power(2)[b] \in Nat
      BY <1>0, Powers DEF Takes
    <3> QED
      BY <1>0, <1>5, <3>1, <3>2
  <2> DEFINE e == b - 1
  <2>2. e \in Nat /\ e >= 2 /\ e + 1 = b
    BY <1>0, <2>1
  <2>3. n <= Power(3)[e]
    <3> HIDE DEF e
    <3>1. 2 * Power(2)[e] <= Power(3)[e] /\ Power(2)[e + 1] = 2 * Power(2)[e] /\ Power(2)[e] \in Nat /\ Power(3)[e] \in Nat
      BY <2>2, Powers
    <3>2. n <= Power(2)[b]
      BY DEF Takes
    <3> QED
      BY <2>2, <3>1, <3>2
  <2>4. t <= e
    <3> HIDE DEF e
    <3> QED
      BY <1>0, <2>2, <2>3, TakesOnce
  <2> QED
    BY <1>0, <1>5, <2>2, <2>4
<1> QED
  BY <1>1, <1>4, <1>5

-----------------------------------------------------------------------------
(* What the three counts of the scripts are.                               *)
LEMMA Counts ==
  ASSUME NEW n \in 1 .. MAX_N
  PROVE  /\ Takes(3, n, trits(n)) /\ Takes(2, n, bits(n)) /\ ilog3(n) = trits(n)
         /\ bits(n) \in 0 .. BOX /\ MAX_N \in Nat
<1>1. BOX \in Nat /\ BOX >= 2 /\ MAX_N = Power(2)[BOX] /\ MAX_N \in Nat /\ MAX_N >= 1
  <2>1. BOX \in Nat /\ BOX >= 2
    BY CrossoverAssumption
  <2>2. Power(2)[BOX] \in Nat /\ BOX < Power(2)[BOX]
    BY <2>1, Powers
  <2> QED
    BY <2>1, <2>2 DEF MAX_N
<1>2. MAX_N < Power(3)[BOX] /\ Power(3)[BOX] \in Nat
  BY <1>1, Powers
<1> HIDE DEF MAX_N
<1>0. n \in Nat \ {0} /\ n <= MAX_N
  BY <1>1
<1>3. Takes(2, n, bits(n)) /\ bits(n) \in 0 .. BOX
  <2>1. PICK b \in Nat : Takes(2, n, b)
    BY <1>0, TakesOnce
  <2>2. b \in 0 .. BOX
    <3>1. b <= BOX
      BY <1>0, <1>1, <2>1, TakesOnce
    <3> QED
      BY <1>1, <3>1
  <2>3. \A x \in 0 .. BOX : Takes(2, n, x) <=> n - 1 < Power(2)[x] /\ (x = 0 \/ Power(2)[x - 1] <= n - 1)
    <3> SUFFICES ASSUME NEW x \in 0 .. BOX
                 PROVE  Takes(2, n, x) <=> n - 1 < Power(2)[x] /\ (x = 0 \/ Power(2)[x - 1] <= n - 1)
      OBVIOUS
    <3>1. x \in Nat /\ Power(2)[x] \in Nat
      BY <1>1, Powers
    <3>2. x # 0 => x - 1 \in Nat
      BY <3>1
    <3>3. x # 0 => Power(2)[x - 1] \in Nat
      BY <3>2, Powers
    <3> QED
      BY <1>0, <3>1, <3>3 DEF Takes
  <2>4. \E x \in 0 .. BOX : n - 1 < Power(2)[x] /\ (x = 0 \/ Power(2)[x - 1] <= n - 1)
    BY <2>1, <2>2, <2>3
  <2>5. /\ bits(n) \in 0 .. BOX
        /\ n - 1 < Power(2)[bits(n)] /\ (bits(n) = 0 \/ Power(2)[bits(n) - 1] <= n - 1)
    BY <2>4 DEF bits
  <2> QED
    BY <2>3, <2>5
<1>4. PICK t \in Nat : Takes(3, n, t)
  BY <1>0, TakesOnce
<1>5. ilog3(n) = t
  <2>1. n <= Power(3)[BOX]
    BY <1>0, <1>1, <1>2
  <2>2. t \in 0 .. BOX
    <3>1. t <= BOX
      BY <1>0, <1>1, <1>4, <2>1, TakesOnce
    <3> QED
      BY <1>1, <3>1
  <2>3. \A x \in 0 .. BOX : Takes(3, n, x) <=> Power(3)[x] >= n /\ (x = 0 \/ Power(3)[x - 1] < n)
    <3> SUFFICES ASSUME NEW x \in 0 .. BOX
                 PROVE  Takes(3, n, x) <=> Power(3)[x] >= n /\ (x = 0 \/ Power(3)[x - 1] < n)
      OBVIOUS
    <3>1. x \in Nat /\ Power(3)[x] \in Nat
      BY <1>1, Powers
    <3> QED
      BY <1>0, <3>1 DEF Takes
  <2>4. \E x \in 0 .. BOX : Power(3)[x] >= n /\ (x = 0 \/ Power(3)[x - 1] < n)
    BY <1>4, <2>2, <2>3
  <2>5. ilog3(n) \in 0 .. BOX /\ Power(3)[ilog3(n)] >= n /\ (ilog3(n) = 0 \/ Power(3)[ilog3(n) - 1] < n)
    BY <2>4 DEF ilog3
  <2>6. Takes(3, n, ilog3(n))
    BY <2>3, <2>5
  <2> QED
    BY <1>0, <1>4, <2>6, TakesOnce
<1>6. PICK top \in 1 .. BOX : /\ Power(3)[top - 1] <= MAX_N /\ Power(3)[top] > MAX_N
                              /\ POW3 = [i \in 1 .. top + 1 |-> Power(3)[i - 1]]
  <2> DEFINE Is(e) == Power(3)[e - 1] <= MAX_N /\ Power(3)[e] > MAX_N
  <2>1. PICK e \in Nat : Takes(3, MAX_N + 1, e)
    <3>1. MAX_N + 1 \in Nat \ {0}
      BY <1>1
    <3> QED
      BY <3>1, TakesOnce
  <2>2. e <= BOX
    <3>1. MAX_N + 1 \in Nat \ {0} /\ MAX_N + 1 <= Power(3)[BOX]
      BY <1>1, <1>2
    <3> QED
      BY <1>1, <2>1, <3>1, TakesOnce
  <2>3. e # 0
    BY <1>1, <2>1, Powers DEF Takes
  <2>4. e \in 1 .. BOX /\ Is(e)
    <3>1. e - 1 \in Nat
      BY <2>3
    <3>2. Power(3)[e - 1] \in Nat /\ Power(3)[e] \in Nat
      BY <3>1, Powers
    <3> QED
      BY <1>1, <2>1, <2>2, <2>3, <3>2 DEF Takes
  <2> DEFINE top == CHOOSE x \in 1 .. BOX : Is(x)
  <2>5. top \in 1 .. BOX /\ Is(top)
    <3> HIDE DEF Is
    <3> QED
      BY <2>4
  <2>6. POW3 = [i \in 1 .. top + 1 |-> Power(3)[i - 1]]
    BY DEF POW3
  <2> HIDE DEF top
  <2> QED
    BY <2>5, <2>6
<1>7. {i \in DOMAIN POW3 : POW3[i] <= n - 1} = 1 .. t
  <2>0. top \in Nat /\ top >= 1 /\ DOMAIN POW3 = 1 .. top + 1
    BY <1>1, <1>6
  <2>1. t <= top
    <3>1. Power(3)[top] \in Nat
      BY <2>0, Powers
    <3>2. n <= Power(3)[top]
      BY <1>0, <1>1, <1>6, <3>1
    <3> QED
      BY <1>0, <1>4, <2>0, <3>2, TakesOnce
  <2>2. ASSUME NEW i \in 1 .. top + 1 PROVE POW3[i] <= n - 1 <=> i <= t
    <3> DEFINE e == i - 1
    <3>1. e \in Nat /\ POW3[i] = Power(3)[e] /\ Power(3)[e] \in Nat
      BY <1>6, <2>0, <2>2, Powers
    <3>2. CASE i <= t
      <4>1. t - 1 \in Nat /\ t # 0 /\ (e = t - 1 \/ e < t - 1)
        BY <2>2, <3>2
      <4>2. Power(3)[t - 1] \in Nat
        BY <4>1, Powers
      <4>3. Power(3)[e] <= Power(3)[t - 1]
        <5> HIDE DEF e
        <5> QED
          BY <3>1, <4>1, <4>2, PowersRise
      <4>4. Power(3)[t - 1] < n
        BY <1>4, <4>1 DEF Takes
      <4> HIDE DEF e
      <4> QED
        BY <1>0, <3>1, <3>2, <4>2, <4>3, <4>4
    <3>3. CASE ~ (i <= t)
      <4>1. e = t \/ t < e
        BY <2>2, <3>3, <2>0
      <4>2. Power(3)[t] \in Nat /\ n <= Power(3)[t]
        BY <1>4, Powers DEF Takes
      <4>3. Power(3)[t] <= Power(3)[e]
        <5> HIDE DEF e
        <5> QED
          BY <3>1, <4>1, <4>2, PowersRise
      <4> HIDE DEF e
      <4> QED
        BY <1>0, <3>1, <3>3, <4>2, <4>3
    <3> QED
      BY <3>2, <3>3
  <2>3. \A i : i \in 1 .. t => i \in 1 .. top + 1
    BY <2>0, <2>1
  <2> QED
    BY <2>0, <2>2, <2>3
<1>8. trits(n) = t
  <2>1. Cardinality(1 .. t) = t
    BY <1>4, FS_Interval
  <2> QED
    BY <1>7, <2>1 DEF trits
<1> QED
  BY <1>1, <1>3, <1>4, <1>5, <1>8

-----------------------------------------------------------------------------
(* A cell holds the N that take its two counts, and no other.              *)
CellAt(k, j) ==
  <<Larger(LeastOf(3, k), LeastOf(2, j)), Smaller(Power(3)[k], Power(2)[j]), k, j>>

Real(k, j) == CellAt(k, j)[1] <= CellAt(k, j)[2]

LEMMA CellHolds ==
  ASSUME NEW k \in Nat, NEW j \in Nat
  PROVE  /\ CellAt(k, j)[1] \in Nat \ {0} /\ CellAt(k, j)[2] \in Nat
         /\ CellAt(k, j)[2] <= Power(2)[j]
         /\ \A n \in Nat \ {0} : CellAt(k, j)[1] <= n /\ n <= CellAt(k, j)[2]
                                   <=> Takes(3, n, k) /\ Takes(2, n, j)
<1>1. ASSUME NEW base \in {2, 3}, NEW e \in Nat
      PROVE  /\ LeastOf(base, e) \in Nat \ {0} /\ Power(base)[e] \in Nat
             /\ \A n \in Nat \ {0} : LeastOf(base, e) <= n <=> e = 0 \/ Power(base)[e - 1] < n
  <2>1. Power(base)[e] \in Nat
    BY Powers
  <2>2. CASE e = 0
    BY <2>1, <2>2 DEF LeastOf
  <2>3. CASE e # 0
    <3>1. e - 1 \in Nat
      BY <2>3
    <3>2. Power(base)[e - 1] \in Nat
      BY <3>1, Powers
    <3> QED
      BY <2>1, <2>3, <3>2 DEF LeastOf
  <2> QED
    BY <2>2, <2>3
<1> DEFINE p == LeastOf(3, k)
           q == LeastOf(2, j)
           u == Power(3)[k]
           v == Power(2)[j]
<1>2. p \in Nat \ {0} /\ q \in Nat \ {0} /\ u \in Nat /\ v \in Nat
  BY <1>1
<1>3. CellAt(k, j)[1] = Larger(p, q) /\ CellAt(k, j)[2] = Smaller(u, v)
  BY DEF CellAt
<1>4. ASSUME NEW n \in Nat \ {0}
      PROVE  p <= n /\ q <= n /\ n <= u /\ n <= v <=> Takes(3, n, k) /\ Takes(2, n, j)
  BY <1>1 DEF Takes
<1> HIDE DEF p, q, u, v
<1>5. /\ Larger(p, q) \in Nat \ {0} /\ Smaller(u, v) \in Nat /\ Smaller(u, v) <= v
      /\ \A n \in Nat : Larger(p, q) <= n /\ n <= Smaller(u, v) <=> p <= n /\ q <= n /\ n <= u /\ n <= v
  BY <1>2 DEF Larger, Smaller
<1> QED
  BY <1>3, <1>4, <1>5 DEF v

-----------------------------------------------------------------------------
Cells == wins \cup ties

Passed(k, j) == k < k_trits \/ (k = k_trits /\ j < j_bits)

(* The cells collected so far: of those the two loops have passed, all     *)
(* that hold anything, each where its counts put it.                       *)
CellsInv ==
  /\ k_trits \in 0 .. trits(MAX_N) + 1 /\ j_bits \in 0 .. BOX
  /\ k_trits = trits(MAX_N) + 1 => j_bits = 0
  /\ loses = {}
  /\ \A c \in wins : \E k, j \in Nat : c = CellAt(k, j) /\ Real(k, j) /\ k < j /\ j <= BOX
  /\ \A c \in ties : \E k, j \in Nat : c = CellAt(k, j) /\ Real(k, j) /\ k = j /\ j <= BOX
  /\ \A k, j \in Nat : j <= BOX /\ Passed(k, j) /\ Real(k, j) => CellAt(k, j) \in Cells

(* The walk stands at the end of a cell, having counted what lies before;  *)
(* the cells it has left are those above.                                  *)
WalkInv ==
  /\ stage \in {"ranges", "tiles", "scan", "done"}
  /\ stage # "ranges" => k_trits = trits(MAX_N) + 1
  /\ prev_end \in 0 .. MAX_N /\ total = prev_end
  /\ stage = "ranges" => prev_end = 0
  /\ stage = "tiles" => left = {c \in Cells : c[1] > prev_end}
  /\ \A c \in Cells : c[1] > prev_end \/ c[2] <= prev_end

CrossInv == CellsInv /\ WalkInv /\ at_n \in 1 .. limit

(* A cell that holds something: where it lies and who wins there.          *)
LEMMA RealCell ==
  ASSUME NEW k \in Nat, NEW j \in Nat, j <= BOX, Real(k, j)
  PROVE  /\ CellAt(k, j)[1] \in 1 .. MAX_N /\ CellAt(k, j)[2] \in 1 .. MAX_N
         /\ CellAt(k, j)[1] <= CellAt(k, j)[2]
         /\ k <= j
         /\ \A n \in CellAt(k, j)[1] .. CellAt(k, j)[2] :
              n \in 1 .. MAX_N /\ k = trits(n) /\ j = bits(n) /\ (k < j <=> n = 3 \/ n >= 5)
<1> DEFINE lo == CellAt(k, j)[1]
           hi == CellAt(k, j)[2]
<1>1. lo \in Nat \ {0} /\ hi \in Nat /\ lo <= hi /\ hi <= Power(2)[j]
  BY CellHolds DEF Real
<1>2. Power(2)[j] <= MAX_N /\ MAX_N \in Nat /\ Power(2)[j] \in Nat
  <2>1. BOX \in Nat
    BY CrossoverAssumption
  <2>2. Power(2)[j] \in Nat /\ Power(2)[BOX] \in Nat
    BY <2>1, Powers
  <2>3. j = BOX \/ j < BOX
    BY <2>1
  <2>4. j < BOX => Power(2)[j] < Power(2)[BOX]
    BY <2>1, PowersRise
  <2> QED
    BY <2>2, <2>3, <2>4 DEF MAX_N
<1>3. lo \in 1 .. MAX_N /\ hi \in 1 .. MAX_N
  <2> HIDE DEF lo, hi, MAX_N
  <2> QED
    BY <1>1, <1>2
<1>4. ASSUME NEW n \in lo .. hi
      PROVE  n \in 1 .. MAX_N /\ Takes(3, n, k) /\ Takes(2, n, j)
  <2>1. n \in Nat \ {0} /\ n \in 1 .. MAX_N /\ lo <= n /\ n <= hi
    <3> HIDE DEF lo, hi, MAX_N
    <3> QED
      BY <1>1, <1>2, <1>3
  <2> QED
    BY <2>1, CellHolds
<1> HIDE DEF lo, hi
<1>5. ASSUME NEW n \in lo .. hi
      PROVE  n \in 1 .. MAX_N /\ k = trits(n) /\ j = bits(n) /\ k <= j /\ (k < j <=> n = 3 \/ n >= 5)
  <2>1. n \in Nat \ {0}
    BY <1>1
  <2>2. Takes(3, n, trits(n)) /\ Takes(2, n, bits(n))
    BY <1>4, Counts
  <2>3. k = trits(n) /\ j = bits(n)
    BY <1>4, <2>1, <2>2, TakesOnce
  <2>4. k <= j /\ (k < j <=> n = 3 \/ n >= 5)
    BY <1>4, <2>1, Shorter
  <2> QED
    BY <1>4, <2>3, <2>4
<1>6. lo \in lo .. hi
  BY <1>1
<1> QED
  BY <1>1, <1>3, <1>5, <1>6 DEF lo, hi

(* Once the loops have ended every N has its cell, and only that one.      *)
LEMMA CellOf ==
  ASSUME CellsInv, k_trits = trits(MAX_N) + 1
  PROVE  /\ \A n \in 1 .. MAX_N : /\ CellAt(trits(n), bits(n)) \in Cells
                                  /\ CellAt(trits(n), bits(n))[1] <= n
                                  /\ n <= CellAt(trits(n), bits(n))[2]
         /\ \A c \in Cells :
              /\ c[1] \in 1 .. MAX_N /\ c[2] \in 1 .. MAX_N /\ c[1] <= c[2]
              /\ \A n \in c[1] .. c[2] : n \in 1 .. MAX_N /\ c = CellAt(trits(n), bits(n))
<1>1. ASSUME NEW n \in 1 .. MAX_N
      PROVE  /\ CellAt(trits(n), bits(n)) \in Cells
             /\ CellAt(trits(n), bits(n))[1] <= n /\ n <= CellAt(trits(n), bits(n))[2]
  <2> DEFINE k == trits(n)
             j == bits(n)
  <2>1. /\ MAX_N \in Nat /\ n \in Nat \ {0} /\ n <= MAX_N /\ MAX_N \in 1 .. MAX_N
        /\ Takes(3, n, k) /\ Takes(2, n, j) /\ j \in 0 .. BOX
    <3>1. MAX_N \in Nat /\ Takes(3, n, k) /\ Takes(2, n, j) /\ j \in 0 .. BOX
      BY Counts
    <3> HIDE DEF MAX_N, k, j
    <3> QED
      BY <3>1
  <2>2. Takes(3, MAX_N, trits(MAX_N))
    BY <2>1, Counts
  <2>3. k \in Nat /\ j \in Nat /\ trits(MAX_N) \in Nat /\ j <= BOX
    BY <2>1, <2>2, CrossoverAssumption DEF Takes
  <2>4. CellAt(k, j)[1] <= n /\ n <= CellAt(k, j)[2] /\ CellAt(k, j)[1] \in Nat /\ CellAt(k, j)[2] \in Nat
    BY <2>1, <2>3, CellHolds
  <2> HIDE DEF k, j
  <2>5. k <= trits(MAX_N)
    <3>1. n <= Power(3)[trits(MAX_N)]
      <4>1. MAX_N <= Power(3)[trits(MAX_N)]
        BY <2>2 DEF Takes
      <4>2. Power(3)[trits(MAX_N)] \in Nat
        BY <2>3, Powers
      <4> HIDE DEF MAX_N
      <4> QED
        BY <2>1, <4>1, <4>2
    <3> QED
      BY <2>1, <2>3, <3>1, TakesOnce
  <2>6. Passed(k, j)
    BY <2>3, <2>5 DEF Passed
  <2>7. Real(k, j)
    BY <2>1, <2>4 DEF Real
  <2> QED
    BY <2>3, <2>4, <2>6, <2>7 DEF CellsInv, k, j
<1>2. ASSUME NEW c \in Cells
      PROVE  /\ c[1] \in 1 .. MAX_N /\ c[2] \in 1 .. MAX_N /\ c[1] <= c[2]
             /\ \A n \in c[1] .. c[2] : n \in 1 .. MAX_N /\ c = CellAt(trits(n), bits(n))
  <2>1. PICK k, j \in Nat : c = CellAt(k, j) /\ Real(k, j) /\ j <= BOX
    BY DEF Cells, CellsInv
  <2> QED
    BY <2>1, RealCell
<1> QED
  BY <1>1, <1>2

-----------------------------------------------------------------------------
(* Every step of the script keeps it.                                      *)
LEMMA BoxIs == BOX \in Nat /\ MAX_N \in Nat /\ MAX_N >= 4 /\ limit \in 1 .. MAX_N /\ bits(MAX_N) = BOX
<1>1. BOX \in Nat /\ BOX >= 2 /\ limit \in 1 .. MAX_N
  BY CrossoverAssumption
<1>2. Power(2)[BOX] \in Nat /\ Power(2)[BOX] >= 4
  <2>1. /\ Power(2)[0] = 1 /\ Power(2)[0 + 1] = 2 * Power(2)[0] /\ Power(2)[1 + 1] = 2 * Power(2)[1]
    BY Powers
  <2>2. Power(2)[2] = 4
    BY <2>1
  <2>3. BOX = 2 \/ Power(2)[2] < Power(2)[BOX]
    BY <1>1, PowersRise
  <2>4. Power(2)[BOX] \in Nat
    BY <1>1, Powers
  <2> QED
    BY <2>2, <2>3, <2>4
<1>3. Takes(2, MAX_N, BOX)
  <2>1. BOX - 1 \in Nat /\ BOX - 1 < BOX
    BY <1>1
  <2>2. Power(2)[BOX - 1] < Power(2)[BOX]
    BY <1>1, <2>1, PowersRise
  <2> QED
    BY <1>1, <1>2, <2>2 DEF Takes, MAX_N
<1>4. MAX_N \in Nat /\ MAX_N >= 4
  BY <1>2 DEF MAX_N
<1>5. bits(MAX_N) = BOX
  <2>1. MAX_N \in 1 .. MAX_N /\ MAX_N \in Nat \ {0}
    <3> HIDE DEF MAX_N
    <3> QED
      BY <1>4
  <2>2. Takes(2, MAX_N, bits(MAX_N))
    BY <2>1, Counts
  <2> QED
    BY <1>3, <2>1, <2>2, TakesOnce
<1> QED
  BY <1>1, <1>4, <1>5

LEMMA CrossInitHolds == CrossInit => CrossInv
<1> SUFFICES ASSUME CrossInit PROVE CrossInv
  OBVIOUS
<1>1. /\ k_trits = 0 /\ j_bits = 0 /\ wins = {} /\ ties = {} /\ loses = {}
      /\ stage = "ranges" /\ total = 0 /\ prev_end = 0 /\ at_n = 1
  BY DEF CrossInit
<1>2. trits(MAX_N) \in Nat
  <2>1. MAX_N \in 1 .. MAX_N
    <3> HIDE DEF MAX_N
    <3> QED
      BY BoxIs
  <2> QED
    BY <2>1, Counts DEF Takes
<1> HIDE DEF MAX_N
<1>3. CellsInv
  <2>1. \A k, j \in Nat : ~ Passed(k, j)
    BY <1>1 DEF Passed
  <2> QED
    BY <1>1, <1>2, <2>1, BoxIs DEF CellsInv
<1>4. WalkInv
  BY <1>1, <1>2, BoxIs DEF WalkInv, Cells
<1> QED
  BY <1>1, <1>3, <1>4, BoxIs DEF CrossInv

LEMMA RangesKeep ==
  ASSUME CrossInv, crossover_ranges
  PROVE  CrossInv'
<1> DEFINE K == trits(MAX_N)
           some == IF Cell[1] <= Cell[2] THEN {Cell} ELSE {}
<1>1. /\ K \in Nat /\ BOX \in Nat /\ bits(MAX_N) = BOX /\ MAX_N \in Nat
  <2>1. MAX_N \in 1 .. MAX_N
    <3> HIDE DEF MAX_N
    <3> QED
      BY BoxIs
  <2> QED
    BY <2>1, Counts, BoxIs DEF Takes
<1>2. /\ stage = "ranges" /\ k_trits <= K /\ k_trits \in Nat /\ j_bits \in 0 .. BOX /\ prev_end = 0
      /\ stage' = stage /\ total' = total /\ prev_end' = prev_end /\ at_n' = at_n
      /\ wins'  = IF k_trits < j_bits THEN wins \cup some ELSE wins
      /\ ties'  = IF k_trits = j_bits THEN ties \cup some ELSE ties
      /\ loses' = IF k_trits > j_bits THEN loses \cup some ELSE loses
      /\ IF j_bits < BOX THEN j_bits' = j_bits + 1 /\ k_trits' = k_trits
                         ELSE j_bits' = 0 /\ k_trits' = k_trits + 1
  <2> HIDE DEF MAX_N
  <2>1. k_trits \in 0 .. K + 1 /\ j_bits \in 0 .. BOX /\ (stage = "ranges" => prev_end = 0)
    BY DEF CrossInv, CellsInv, WalkInv
  <2>2. k_trits \in Nat
    BY <1>1, <2>1
  <2> QED
    BY <1>1, <2>1, <2>2 DEF crossover_ranges
<1>3. some = IF Real(k_trits, j_bits) THEN {CellAt(k_trits, j_bits)} ELSE {}
  BY DEF Real, Cell, CellAt
<1> HIDE DEF some, K, MAX_N
<1>4. ~ (k_trits > j_bits /\ Real(k_trits, j_bits))
  BY <1>1, <1>2, RealCell
<1>5. /\ k_trits' \in 0 .. K + 1 /\ j_bits' \in 0 .. BOX /\ (k_trits' = K + 1 => j_bits' = 0)
  BY <1>1, <1>2
<1>6. loses' = {}
  <2>1. loses = {}
    BY DEF CrossInv, CellsInv
  <2> QED
    BY <1>2, <1>3, <1>4, <2>1
<1>7. \A c \in wins' : \E k, j \in Nat : c = CellAt(k, j) /\ Real(k, j) /\ k < j /\ j <= BOX
  <2>1. \A c \in wins : \E k, j \in Nat : c = CellAt(k, j) /\ Real(k, j) /\ k < j /\ j <= BOX
    BY DEF CrossInv, CellsInv
  <2>2. ASSUME NEW c \in some, k_trits < j_bits
        PROVE  \E k, j \in Nat : c = CellAt(k, j) /\ Real(k, j) /\ k < j /\ j <= BOX
    <3>1. c = CellAt(k_trits, j_bits) /\ Real(k_trits, j_bits)
      BY <1>3, <2>2
    <3> QED
      BY <1>1, <1>2, <2>2, <3>1
  <2> QED
    BY <1>2, <2>1, <2>2
<1>8. \A c \in ties' : \E k, j \in Nat : c = CellAt(k, j) /\ Real(k, j) /\ k = j /\ j <= BOX
  <2>1. \A c \in ties : \E k, j \in Nat : c = CellAt(k, j) /\ Real(k, j) /\ k = j /\ j <= BOX
    BY DEF CrossInv, CellsInv
  <2>2. ASSUME NEW c \in some, k_trits = j_bits
        PROVE  \E k, j \in Nat : c = CellAt(k, j) /\ Real(k, j) /\ k = j /\ j <= BOX
    <3>1. c = CellAt(k_trits, j_bits) /\ Real(k_trits, j_bits)
      BY <1>3, <2>2
    <3> QED
      BY <1>1, <1>2, <2>2, <3>1
  <2> QED
    BY <1>2, <2>1, <2>2
<1>9. ASSUME NEW k \in Nat, NEW j \in Nat, j <= BOX, Passed(k, j)', Real(k, j)
      PROVE  CellAt(k, j) \in Cells'
  <2>1. Passed(k, j) \/ (k = k_trits /\ j = j_bits)
    BY <1>1, <1>2, <1>9 DEF Passed
  <2>2. CASE Passed(k, j)
    <3>1. CellAt(k, j) \in Cells
      BY <1>9, <2>2 DEF CrossInv, CellsInv
    <3> QED
      BY <1>2, <3>1 DEF Cells
  <2>3. CASE k = k_trits /\ j = j_bits
    <3>1. CellAt(k, j) \in some /\ ~ (k_trits > j_bits)
      BY <1>3, <1>4, <1>9, <2>3
    <3>2. k_trits < j_bits \/ k_trits = j_bits
      BY <1>2, <3>1
    <3> QED
      BY <1>2, <3>1, <3>2 DEF Cells
  <2> QED
    BY <2>1, <2>2, <2>3
<1>10. CellsInv'
  <2>1. \A k, j \in Nat : j <= BOX /\ Passed(k, j)' /\ Real(k, j) => CellAt(k, j) \in Cells'
    BY <1>9
  <2> QED
    BY <1>5, <1>6, <1>7, <1>8, <2>1 DEF CellsInv, Passed, K
<1>11. WalkInv'
  <2>1. \A c \in Cells' : c[1] > 0
    <3> SUFFICES ASSUME NEW c \in Cells' PROVE c[1] > 0
      OBVIOUS
    <3>1. PICK k, j \in Nat : c = CellAt(k, j) /\ Real(k, j) /\ j <= BOX
      BY <1>7, <1>8 DEF Cells
    <3> QED
      BY <3>1, CellHolds
  <2>2. stage \in {"ranges", "tiles", "scan", "done"} /\ prev_end \in 0 .. MAX_N /\ total = prev_end
    BY DEF CrossInv, WalkInv
  <2> QED
    BY <1>2, <2>1, <2>2 DEF WalkInv
<1> QED
  BY <1>2, <1>10, <1>11 DEF CrossInv

LEMMA AfterRanges ==
  ASSUME CrossInv, stage \in {"tiles", "scan"}, UNCHANGED <<k_trits, j_bits, wins, ties, loses>>
  PROVE  CellsInv' /\ k_trits = trits(MAX_N) + 1 /\ CellsInv /\ Cells' = Cells
<1> HIDE DEF MAX_N
<1> QED
  BY DEF CrossInv, CellsInv, WalkInv, Passed, Cells

LEMMA WalkKeeps ==
  ASSUME CrossInv, verify_coverage \/ Covered
  PROVE  CrossInv'
<1>1. stage = "tiles" /\ UNCHANGED <<k_trits, j_bits, wins, ties, loses, at_n>>
  BY DEF verify_coverage, Covered
<1>2. CellsInv' /\ k_trits = trits(MAX_N) + 1 /\ CellsInv /\ Cells' = Cells
  BY <1>1, AfterRanges
<1>3. /\ prev_end \in 0 .. MAX_N /\ total = prev_end /\ MAX_N \in Nat
      /\ \A c \in Cells : c[1] > prev_end \/ c[2] <= prev_end
  BY BoxIs DEF CrossInv, WalkInv
<1>4. /\ \A n \in 1 .. MAX_N : /\ CellAt(trits(n), bits(n)) \in Cells
                               /\ CellAt(trits(n), bits(n))[1] <= n
                               /\ n <= CellAt(trits(n), bits(n))[2]
      /\ \A c \in Cells :
           /\ c[1] \in 1 .. MAX_N /\ c[2] \in 1 .. MAX_N /\ c[1] <= c[2]
           /\ \A n \in c[1] .. c[2] : n \in 1 .. MAX_N /\ c = CellAt(trits(n), bits(n))
  BY <1>2, CellOf
<1>5. left = {c \in Cells : c[1] > prev_end}
  BY <1>1 DEF CrossInv, WalkInv
<1> DEFINE n0 == prev_end + 1
           c0 == CellAt(trits(n0), bits(n0))
<1> HIDE DEF MAX_N
<1>6. prev_end < MAX_N => c0 \in left /\ c0[1] = n0
  <2> SUFFICES ASSUME prev_end < MAX_N PROVE c0 \in left /\ c0[1] = n0
    OBVIOUS
  <2>1. n0 \in 1 .. MAX_N
    BY <1>3
  <2>2. c0 \in Cells /\ c0[1] <= n0 /\ n0 <= c0[2]
    BY <1>4, <2>1
  <2> HIDE DEF c0
  <2>3. c0[1] \in 1 .. MAX_N /\ c0[2] \in 1 .. MAX_N /\ (c0[1] > prev_end \/ c0[2] <= prev_end)
    BY <1>3, <1>4, <2>2
  <2> QED
    BY <1>3, <1>5, <2>2, <2>3
<1>7. (left # {}) => prev_end < MAX_N
  <2> SUFFICES ASSUME NEW c \in left PROVE prev_end < MAX_N
    OBVIOUS
  <2>1. c[1] > prev_end /\ c[1] \in 1 .. MAX_N
    BY <1>4, <1>5
  <2> QED
    BY <1>3, <2>1
<1>8. CASE verify_coverage
  <2>0. PICK cell \in left :
          /\ \A o \in left : Before(cell, o)
          /\ left' = left \ {cell}
          /\ IF cell[1] = prev_end + 1
             THEN total' = total + cell[2] - cell[1] + 1 /\ prev_end' = cell[2] /\ stage' = stage
             ELSE stage' = "raised" /\ UNCHANGED <<total, prev_end>>
    BY <1>8 DEF verify_coverage
  <2>1. left # {} /\ prev_end < MAX_N /\ c0 \in left /\ c0[1] = n0
    BY <1>6, <1>7, <2>0
  <2> HIDE DEF c0
  <2>3. cell \in left /\ cell[1] <= c0[1]
    <3>1. Before(cell, c0)
      BY <2>0, <2>1
    <3>2. cell[1] \in 1 .. MAX_N /\ c0[1] \in 1 .. MAX_N
      BY <1>4, <1>5, <2>0, <2>1
    <3> QED
      BY <1>3, <2>0, <3>1, <3>2 DEF Before
  <2>4. /\ IF cell[1] = prev_end + 1
           THEN total' = total + cell[2] - cell[1] + 1 /\ prev_end' = cell[2] /\ stage' = stage
           ELSE stage' = "raised" /\ UNCHANGED <<total, prev_end>>
    BY <2>0
  <2>5. cell \in Cells /\ cell[1] = n0 /\ cell[2] \in 1 .. MAX_N /\ n0 <= cell[2]
    <3>1. cell \in Cells /\ cell[1] > prev_end /\ cell[1] \in 1 .. MAX_N /\ cell[2] \in 1 .. MAX_N
          /\ cell[1] <= cell[2] /\ cell[1] <= c0[1]
      BY <1>4, <1>5, <2>1, <2>3
    <3> QED
      BY <1>3, <2>1, <3>1
  <2>6. prev_end' = cell[2] /\ total' = cell[2] /\ stage' = stage
    BY <1>3, <2>4, <2>5
  <2>7. \A c \in Cells : c[1] > cell[2] \/ c[2] <= cell[2]
    <3> SUFFICES ASSUME NEW c \in Cells, ~ (c[1] > cell[2]) PROVE c[2] <= cell[2]
      OBVIOUS
    <3>1. c[1] \in 1 .. MAX_N /\ c[2] \in 1 .. MAX_N /\ c[1] <= c[2] /\ (c[1] > prev_end \/ c[2] <= prev_end)
      BY <1>3, <1>4
    <3>2. CASE c[1] > prev_end
      <4>1. c[1] \in cell[1] .. cell[2] /\ c[1] \in c[1] .. c[2]
        BY <1>3, <2>5, <3>1, <3>2
      <4>2. cell = CellAt(trits(c[1]), bits(c[1])) /\ c = CellAt(trits(c[1]), bits(c[1]))
        BY <1>4, <2>5, <4>1
      <4> QED
        BY <2>5, <4>2
    <3>3. CASE c[2] <= prev_end
      BY <1>3, <2>5, <3>1, <3>3
    <3> QED
      BY <3>1, <3>2, <3>3
  <2>8. left' = {c \in Cells : c[1] > cell[2]}
    <3>1. ASSUME NEW c \in Cells
          PROVE  c \in left' <=> c[1] > cell[2]
      <4>1. c[1] \in 1 .. MAX_N /\ c[2] \in 1 .. MAX_N /\ c[1] <= c[2]
        BY <1>4
      <4>2. CASE c = cell
        BY <1>3, <2>0, <2>5, <4>1, <4>2
      <4>3. CASE c # cell
        <5>1. c \in left' <=> c[1] > prev_end
          BY <1>5, <2>0, <4>3
        <5>2. ASSUME c[1] > prev_end, ~ (c[1] > cell[2]) PROVE FALSE
          <6>1. c[1] \in cell[1] .. cell[2] /\ c[1] \in c[1] .. c[2]
            BY <1>3, <2>5, <4>1, <5>2
          <6>2. cell = CellAt(trits(c[1]), bits(c[1])) /\ c = CellAt(trits(c[1]), bits(c[1]))
            BY <1>4, <2>5, <6>1
          <6> QED
            BY <4>3, <6>2
        <5>3. c[1] > cell[2] => c[1] > prev_end
          BY <1>3, <2>5, <4>1
        <5> QED
          BY <5>1, <5>2, <5>3
      <4> QED
        BY <4>2, <4>3
    <3>2. left' \subseteq Cells
      BY <1>5, <2>0
    <3> QED
      BY <3>1, <3>2
  <2>9. WalkInv'
    <3>1. cell[2] \in 0 .. MAX_N
      BY <1>3, <2>5
    <3> QED
      BY <1>1, <1>2, <2>6, <2>7, <2>8, <3>1 DEF WalkInv
  <2> QED
    BY <1>1, <1>2, <2>9 DEF CrossInv
<1>9. CASE Covered
  <2>1. left = {} /\ prev_end' = prev_end /\ total' = total
        /\ stage' = IF total = MAX_N /\ prev_end = MAX_N THEN "scan" ELSE "raised"
    BY <1>9 DEF Covered
  <2>2. prev_end = MAX_N
    BY <1>3, <1>6, <2>1
  <2>3. stage' = "scan"
    BY <1>3, <2>1, <2>2
  <2>4. WalkInv'
    BY <1>1, <1>2, <1>3, <2>1, <2>3 DEF WalkInv
  <2> QED
    BY <1>1, <1>2, <2>4 DEF CrossInv
<1> QED
  BY <1>8, <1>9

LEMMA ScanKeeps ==
  ASSUME CrossInv, brute_force_check
  PROVE  CrossInv'
<1>1. stage = "scan" /\ UNCHANGED <<k_trits, j_bits, wins, ties, loses, total, prev_end>>
  BY DEF brute_force_check
<1>2. CellsInv' /\ k_trits = trits(MAX_N) + 1 /\ CellsInv /\ Cells' = Cells
  BY <1>1, AfterRanges
<1>3. at_n \in 1 .. limit /\ limit \in 1 .. MAX_N /\ MAX_N \in Nat /\ at_n \in 1 .. MAX_N
  <2> HIDE DEF MAX_N
  <2> QED
    BY BoxIs DEF CrossInv
<1>4. analytic(at_n) = {symbol_pair(at_n)}
  <2> DEFINE c0 == CellAt(trits(at_n), bits(at_n))
  <2>1. c0 \in Cells /\ c0[1] <= at_n /\ at_n <= c0[2] /\ c0[3] = trits(at_n) /\ c0[4] = bits(at_n)
    <3>1. c0[3] = trits(at_n) /\ c0[4] = bits(at_n)
      BY DEF CellAt
    <3> QED
      BY <1>2, <1>3, <3>1, CellOf
  <2>2. ASSUME NEW c \in Cells, c[1] <= at_n, at_n <= c[2] PROVE c = c0
    <3>1. c[1] \in 1 .. MAX_N /\ c[2] \in 1 .. MAX_N
      BY <1>2, CellOf
    <3>2. at_n \in c[1] .. c[2]
      <4> HIDE DEF MAX_N
      <4> QED
        BY <1>3, <2>2, <3>1
    <3> QED
      BY <1>2, <3>2, CellOf
  <2> HIDE DEF c0
  <2>3. {c \in Cells : c[1] <= at_n /\ at_n <= c[2]} = {c0}
    BY <2>1, <2>2
  <2>4. analytic(at_n) = {<<c[3], c[4]>> : c \in {c \in Cells : c[1] <= at_n /\ at_n <= c[2]}}
    BY DEF analytic, Cells
  <2>5. analytic(at_n) = {<<c0[3], c0[4]>>}
    BY <2>3, <2>4
  <2> QED
    BY <2>1, <2>5 DEF symbol_pair
<1>5. at_n' \in 1 .. limit /\ stage' \in {"scan", "done"}
  <2> HIDE DEF MAX_N
  <2>1. IF at_n < limit THEN at_n' = at_n + 1 /\ stage' = stage ELSE stage' = "done" /\ at_n' = at_n
    BY <1>4 DEF brute_force_check
  <2> QED
    BY <1>1, <1>3, <2>1
<1>6. WalkInv'
  <2> HIDE DEF MAX_N
  <2>1. WalkInv
    BY DEF CrossInv
  <2> QED
    BY <1>1, <1>2, <1>5, <2>1 DEF WalkInv
<1> QED
  BY <1>2, <1>5, <1>6 DEF CrossInv

LEMMA CrossNextKeeps ==
  ASSUME CrossInv, CrossNext
  PROVE  CrossInv'
<1>1. CASE NoLoser
  <2> HIDE DEF MAX_N
  <2>1. /\ stage = "ranges" /\ k_trits > trits(MAX_N) /\ loses = {}
        /\ UNCHANGED <<k_trits, j_bits, wins, ties, loses, total, prev_end, at_n>>
        /\ left' = Cells
        /\ stage' = IF loses = {} THEN "tiles" ELSE "raised"
    BY <1>1 DEF NoLoser, CrossInv, CellsInv, Cells
  <2>2. k_trits \in 0 .. trits(MAX_N) + 1 /\ trits(MAX_N) \in Nat
    <3>1. MAX_N \in 1 .. MAX_N
      BY BoxIs
    <3>2. trits(MAX_N) \in Nat
      BY <3>1, Counts DEF Takes
    <3> QED
      BY <3>2 DEF CrossInv, CellsInv
  <2>3. k_trits = trits(MAX_N) + 1 /\ stage' = "tiles"
    BY <2>1, <2>2
  <2>4. CellsInv' /\ Cells' = Cells
    BY <2>1 DEF CrossInv, CellsInv, Cells, Passed
  <2>5. \A c \in Cells : c[1] > prev_end
    <3>1. prev_end = 0 /\ CellsInv
      BY <2>1 DEF CrossInv, WalkInv
    <3>2. \A c \in Cells : c[1] \in 1 .. MAX_N
      BY <2>1, <2>3, <3>1, CellOf
    <3> QED
      BY <3>1, <3>2, BoxIs
  <2>6. WalkInv'
    BY <2>1, <2>3, <2>4, <2>5 DEF CrossInv, WalkInv
  <2> QED
    BY <2>1, <2>4, <2>6 DEF CrossInv
<1>2. CASE crossover_ranges
  BY <1>2, RangesKeep
<1>3. CASE verify_coverage \/ Covered
  BY <1>3, WalkKeeps
<1>4. CASE brute_force_check
  BY <1>4, ScanKeeps
<1> QED
  BY <1>1, <1>2, <1>3, <1>4 DEF CrossNext

(* What the report prints of the cells, once they are all there.           *)
LEMMA ReportIs ==
  ASSUME CellsInv, k_trits = trits(MAX_N) + 1
  PROVE  first_win = 3 /\ permanent_start = 5
<1> DEFINE c3 == CellAt(trits(3), bits(3))
           c4 == CellAt(trits(4), bits(4))
<1>1. 3 \in 1 .. MAX_N /\ 4 \in 1 .. MAX_N /\ MAX_N \in Nat
  <2> HIDE DEF MAX_N
  <2> QED
    BY BoxIs
<1>2. /\ c3 \in Cells /\ c3[1] <= 3 /\ 3 <= c3[2] /\ c4 \in Cells /\ c4[1] <= 4 /\ 4 <= c4[2]
  BY <1>1, CellOf
<1> HIDE DEF c3, c4, MAX_N
<1>3. ASSUME NEW c \in Cells
      PROVE  /\ c[1] \in Nat /\ c[2] \in Nat /\ c[1] <= c[2]
             /\ \A n \in c[1] .. c[2] : c \in wins <=> n = 3 \/ n >= 5
             /\ (c \in wins <=> c \notin ties)
  <2>1. ASSUME NEW k \in Nat, NEW j \in Nat, j <= BOX, Real(k, j), c = CellAt(k, j)
        PROVE  /\ c[1] \in Nat /\ c[2] \in Nat /\ c[1] <= c[2] /\ c[3] = k /\ c[4] = j
               /\ \A n \in c[1] .. c[2] : k < j <=> n = 3 \/ n >= 5
    <3>1. /\ c[1] \in 1 .. MAX_N /\ c[2] \in 1 .. MAX_N /\ c[1] <= c[2]
          /\ \A n \in c[1] .. c[2] : k < j <=> n = 3 \/ n >= 5
      BY <2>1, RealCell
    <3>2. c[3] = k /\ c[4] = j
      BY <2>1 DEF CellAt
    <3> QED
      BY <1>1, <3>1, <3>2
  <2>2. c \in wins => c[3] \in Nat /\ c[4] \in Nat /\ c[3] < c[4]
    <3> SUFFICES ASSUME c \in wins PROVE c[3] \in Nat /\ c[4] \in Nat /\ c[3] < c[4]
      OBVIOUS
    <3>1. PICK k, j \in Nat : c = CellAt(k, j) /\ Real(k, j) /\ k < j /\ j <= BOX
      BY DEF CellsInv
    <3> QED
      BY <2>1, <3>1
  <2>3. c \in ties => c[3] = c[4]
    <3> SUFFICES ASSUME c \in ties PROVE c[3] = c[4]
      OBVIOUS
    <3>1. PICK k, j \in Nat : c = CellAt(k, j) /\ Real(k, j) /\ k = j /\ j <= BOX
      BY DEF CellsInv
    <3> QED
      BY <2>1, <3>1
  <2>4. PICK k, j \in Nat : c = CellAt(k, j) /\ Real(k, j) /\ j <= BOX
    BY DEF Cells, CellsInv
  <2>5. /\ c[1] \in Nat /\ c[2] \in Nat /\ c[1] <= c[2] /\ c[3] = k /\ c[4] = j
        /\ \A n \in c[1] .. c[2] : k < j <=> n = 3 \/ n >= 5
    BY <2>1, <2>4
  <2>6. c \in wins <=> k < j
    BY <2>2, <2>3, <2>5 DEF Cells
  <2>7. c \in wins <=> c \notin ties
    BY <2>2, <2>3, <2>5, <2>6 DEF Cells
  <2> QED
    BY <2>5, <2>6, <2>7
<1>4. first_win = 3
  <2> DEFINE S == {c[1] : c \in wins}
  <2>1. ASSUME NEW c \in wins PROVE c[1] \in Nat /\ (c[1] = 3 \/ c[1] >= 5)
    <3>1. c \in Cells /\ c[1] \in c[1] .. c[2]
      BY <1>3 DEF Cells
    <3> QED
      BY <1>3, <3>1
  <2>2. c3 \in wins /\ c3[1] = 3
    <3>1. 3 \in c3[1] .. c3[2]
      BY <1>2, <1>3
    <3>2. c3 \in wins
      BY <1>2, <1>3, <3>1
    <3> QED
      BY <1>2, <2>1, <3>2
  <2>3. 3 \in S /\ \A y \in S : y \in Nat /\ 3 <= y
    BY <2>1, <2>2
  <2> HIDE DEF S
  <2>4. \A x \in S : (\A y \in S : x <= y) => x = 3
    BY <2>3
  <2>5. Min(S) = 3
    BY <2>3, <2>4 DEF Min
  <2> QED
    BY <2>5 DEF first_win, S
<1>5. permanent_start = 5
  <2> DEFINE S == {c[2] : c \in ties}
  <2>1. ASSUME NEW c \in ties PROVE c[2] \in Nat /\ c[2] <= 4
    <3>1. c \in Cells /\ c[2] \in c[1] .. c[2]
      BY <1>3 DEF Cells
    <3>2. c \notin wins /\ ~ (c[2] >= 5) /\ c[2] \in Nat
      BY <1>3, <3>1
    <3> QED
      BY <3>2
  <2>2. c4 \in ties /\ c4[2] = 4
    <3>1. 4 \in c4[1] .. c4[2]
      BY <1>2, <1>3
    <3>2. c4 \in ties
      BY <1>2, <1>3, <3>1 DEF Cells
    <3> QED
      BY <1>2, <2>1, <3>2
  <2>3. 4 \in S /\ \A y \in S : y \in Nat /\ 4 >= y
    BY <2>1, <2>2
  <2> HIDE DEF S
  <2>4. \A x \in S : (\A y \in S : x >= y) => x = 4
    BY <2>3
  <2>5. Max(S) = 4
    BY <2>3, <2>4 DEF Max
  <2> QED
    BY <2>5 DEF permanent_start, S
<1> QED
  BY <1>4, <1>5

LEMMA CrossInvSuffices == CrossInv => CrossoverExact
<1> SUFFICES ASSUME CrossInv PROVE CrossoverExact
  OBVIOUS
<1>1. NeverRaises
  BY DEF CrossInv, WalkInv, NeverRaises
<1>2. ASSUME NEW n \in 1 .. MAX_N
      PROVE  /\ trits(n) = ilog3(n) /\ trits(n) <= bits(n)
             /\ trits(n) < bits(n) <=> (n = 3 \/ n >= 5)
  <2>1. Takes(3, n, trits(n)) /\ Takes(2, n, bits(n)) /\ ilog3(n) = trits(n) /\ MAX_N \in Nat
    BY Counts
  <2>2. n \in Nat \ {0}
    <3> HIDE DEF MAX_N
    <3> QED
      BY <2>1
  <2> QED
    BY <2>1, <2>2, Shorter
<1>3. ASSUME NEW c \in Cells PROVE c[1] \in 1 .. MAX_N /\ c[2] \in 1 .. MAX_N
  <2>1. PICK k, j \in Nat : c = CellAt(k, j) /\ Real(k, j) /\ j <= BOX
    BY DEF Cells, CrossInv, CellsInv
  <2> QED
    BY <2>1, RealCell
<1>4. at_n \in 1 .. MAX_N
  <2> HIDE DEF MAX_N
  <2> QED
    BY BoxIs DEF CrossInv
<1>5. stage = "scan" => first_win = 3 /\ permanent_start = 5
  <2>1. stage = "scan" => k_trits = trits(MAX_N) + 1 /\ CellsInv
    <3> HIDE DEF MAX_N
    <3> QED
      BY DEF CrossInv, WalkInv
  <2> QED
    BY <2>1, ReportIs
<1>6. CurveExact
  <2>1. (UNION {{c[1], c[2]} : c \in wins \cup ties}) \cup {at_n} \subseteq 1 .. MAX_N
    <3> DEFINE Ends == UNION {{c[1], c[2]} : c \in wins \cup ties}
    <3>1. ASSUME NEW n \in Ends PROVE n \in 1 .. MAX_N
      <4>1. PICK c \in Cells : n \in {c[1], c[2]}
        BY DEF Cells
      <4>2. n = c[1] \/ n = c[2]
        BY <4>1
      <4> QED
        BY <1>3, <4>2
    <3> HIDE DEF Ends, MAX_N
    <3>2. Ends \cup {at_n} \subseteq 1 .. MAX_N
      BY <1>4, <3>1
    <3> QED
      BY <3>2 DEF Ends
  <2> HIDE DEF MAX_N
  <2> QED
    BY <1>2, <1>5, <2>1 DEF CurveExact
<1> QED
  BY <1>1, <1>6 DEF CrossoverExact

(* In a box of two bits or more no assertion of the crossover script       *)
(* fails: ternary never loses; every cell that was collected starts where  *)
(* the one before it ended, so that none overlaps another and the cells    *)
(* tile the box, each N once, and give the counts of the formulas; the two *)
(* scripts count the same trits; and the crossover is where the report     *)
(* puts it (address_crossover.py:114, 124-129, 143, 187-205).              *)
THEOREM CrossoverIsExact == Spec => []CrossoverExact
<1>1. Init => CrossInv
  BY CrossInitHolds DEF Init
<1>2. CrossInv /\ [Next]_scriptVars => CrossInv'
  <2> SUFFICES ASSUME CrossInv, [Next]_scriptVars PROVE CrossInv'
    OBVIOUS
  <2>1. CASE UNCHANGED crossVars
    <3> HIDE DEF MAX_N
    <3> QED
      BY <2>1 DEF crossVars, CrossInv, CellsInv, WalkInv, Cells, Passed
  <2>2. CASE CrossNext
    BY <2>2, CrossNextKeeps
  <2> QED
    BY <2>1, <2>2 DEF Next, scriptVars
<1>3. CrossInv => CrossoverExact
  BY CrossInvSuffices
<1> QED
  BY <1>1, <1>2, <1>3, PTL DEF Spec

-----------------------------------------------------------------------------
Table   == [1 .. 9 -> -1 .. 1]
Matrix  == [1 .. 3 -> [1 .. 3 -> -1 .. 1]]
Line3(i) == ((i - 1) \div 3) + 1
Col3(i)  == ((i - 1) % 3) + 1

(* Where the nine rows of a table stand in the matrix.                     *)
LEMMA RowsAre ==
  /\ \A i \in 1 .. 9 : /\ Line3(i) \in 1 .. 3 /\ Col3(i) \in 1 .. 3
                       /\ RowOf(Line3(i) - 2, Col3(i) - 2) = i
                       /\ ASSIGN2[i] = <<Line3(i) - 2, Col3(i) - 2>>
  /\ \A r, c \in 1 .. 3 : /\ RowOf(r - 2, c - 2) \in 1 .. 9
                          /\ Line3(RowOf(r - 2, c - 2)) = r /\ Col3(RowOf(r - 2, c - 2)) = c
                          /\ RowOf(r - 2, c - 2) = 3 * (r - 1) + c
<1>1. ASSUME NEW r \in 1 .. 3, NEW c \in 1 .. 3
      PROVE  /\ RowOf(r - 2, c - 2) \in 1 .. 9
             /\ Line3(RowOf(r - 2, c - 2)) = r /\ Col3(RowOf(r - 2, c - 2)) = c
             /\ RowOf(r - 2, c - 2) = 3 * (r - 1) + c
  <2>1. RowOf(r - 2, c - 2) = 3 * (r - 1) + c
    BY DEF RowOf
  <2>2. r \in {1, 2, 3} /\ c \in {1, 2, 3}
    OBVIOUS
  <2> QED
    BY <2>1, <2>2 DEF Line3, Col3
<1>2. ASSUME NEW i \in 1 .. 9
      PROVE  /\ Line3(i) \in 1 .. 3 /\ Col3(i) \in 1 .. 3
             /\ RowOf(Line3(i) - 2, Col3(i) - 2) = i
             /\ ASSIGN2[i] = <<Line3(i) - 2, Col3(i) - 2>>
  <2>1. i \in {1, 2, 3, 4, 5, 6, 7, 8, 9}
    OBVIOUS
  <2>2. Line3(i) \in 1 .. 3 /\ Col3(i) \in 1 .. 3 /\ 3 * (Line3(i) - 1) + Col3(i) = i
    BY <2>1 DEF Line3, Col3
  <2>3. RowOf(Line3(i) - 2, Col3(i) - 2) = i
    BY <1>1, <2>2
  <2>4. ASSIGN2[i] = <<Line3(i) - 2, Col3(i) - 2>>
    <3>1. ((i - 1) \div 3) - 1 = Line3(i) - 2 /\ ((i - 1) % 3) - 1 = Col3(i) - 2
      BY <2>1 DEF Line3, Col3
    <3> QED
      BY <3>1 DEF ASSIGN2
  <2> QED
    BY <2>2, <2>3, <2>4
<1> QED
  BY <1>1, <1>2

(* A function on 1 .. n is a sequence.                                     *)
LEMMA LaidOut ==
  ASSUME NEW n \in Nat, NEW S, NEW w \in [1 .. n -> S]
  PROVE  w \in Seq(S) /\ Len(w) = n
  OBVIOUS

(* The two views of a table.                                               *)
LEMMA MatrixIs ==
  ASSUME NEW tt \in Table
  PROVE  /\ matrix(tt) \in Matrix
         /\ \A r, c \in 1 .. 3 : matrix(tt)[r][c] = tt[RowOf(r - 2, c - 2)]
<1>2. ASSUME NEW r \in 1 .. 3
      PROVE  /\ SubSeq(tt, 3 * r - 2, 3 * r) \in [1 .. 3 -> -1 .. 1]
             /\ \A c \in 1 .. 3 : SubSeq(tt, 3 * r - 2, 3 * r)[c] = tt[RowOf(r - 2, c - 2)]
  <2> DEFINE w == SubSeq(tt, 3 * r - 2, 3 * r)
  <2> DEFINE lo == 3 * r - 2
             hi == 3 * r
  <2>1. lo \in Int /\ hi \in Int /\ lo <= hi /\ hi - lo + 1 = 3 /\ lo .. hi \subseteq 1 .. 9
    OBVIOUS
  <2>2. \A i \in lo .. hi : tt[i] \in -1 .. 1
    BY <2>1 DEF Table
  <2>3. \A c \in 1 .. 3 : lo + c - 1 = RowOf(r - 2, c - 2)
    BY DEF RowOf
  <2> HIDE DEF lo, hi
  <2>4. w \in Seq(-1 .. 1) /\ Len(w) = 3 /\ \A c \in 1 .. 3 : w[c] = tt[lo + c - 1]
    BY <2>1, <2>2, SubSeqProperties DEF lo, hi
  <2> HIDE DEF w
  <2>5. w \in [1 .. 3 -> -1 .. 1]
    BY <2>4
  <2> QED
    BY <2>3, <2>4, <2>5 DEF w
<1> QED
  BY <1>2 DEF matrix, Matrix

LEMMA FlattenIs ==
  ASSUME NEW m \in Matrix
  PROVE  flatten(m) = [i \in 1 .. 9 |-> m[Line3(i)][Col3(i)]]
<1> DEFINE S == -1 .. 1
           x == m[1] \o m[2]
           y == x \o m[3]
<1>1. /\ m[1] \in Seq(S) /\ Len(m[1]) = 3 /\ m[2] \in Seq(S) /\ Len(m[2]) = 3
      /\ m[3] \in Seq(S) /\ Len(m[3]) = 3
  <2>1. \A w \in [1 .. 3 -> S] : w \in Seq(S) /\ Len(w) = 3
    <3> HIDE DEF S
    <3>1. 3 \in Nat
      OBVIOUS
    <3> QED
      BY <3>1, LaidOut
  <2>2. m[1] \in [1 .. 3 -> S] /\ m[2] \in [1 .. 3 -> S] /\ m[3] \in [1 .. 3 -> S]
    BY DEF Matrix
  <2> QED
    BY <2>1, <2>2
<1>2. IsJoin(x, S, m[1], m[2], 3, 3)
  <2> HIDE DEF S
  <2> QED
    BY <1>1, Joined
<1> HIDE DEF x
<1>3. x \in Seq(S) /\ Len(x) = 6
  BY <1>2 DEF IsJoin
<1>4. IsJoin(y, S, x, m[3], 6, 3)
  <2> HIDE DEF S
  <2> QED
    BY <1>1, <1>3, Joined
<1> HIDE DEF y
<1>5. y \in Seq(S) /\ Len(y) = 9
  BY <1>4 DEF IsJoin
<1>6. ASSUME NEW i \in 1 .. 9 PROVE y[i] = m[Line3(i)][Col3(i)]
  <2>1. \A k \in 1 .. 3 : y[k] = m[1][k]
    BY <1>2, <1>4 DEF IsJoin
  <2>2. \A k \in 1 .. 3 : y[3 + k] = m[2][k]
    BY <1>2, <1>4 DEF IsJoin
  <2>3. \A k \in 1 .. 3 : y[6 + k] = m[3][k]
    BY <1>4 DEF IsJoin
  <2>4. Line3(i) \in 1 .. 3 /\ Col3(i) \in 1 .. 3 /\ i = 3 * (Line3(i) - 1) + Col3(i)
    BY RowsAre
  <2> QED
    BY <2>1, <2>2, <2>3, <2>4
<1>7. y = [i \in 1 .. 9 |-> m[Line3(i)][Col3(i)]]
  <2>1. y = [i \in 1 .. 9 |-> y[i]]
    BY <1>5
  <2> QED
    BY <1>6, <2>1
<1> QED
  BY <1>7 DEF flatten, x, y

-----------------------------------------------------------------------------
(* A renaming with its swap as a number, and the one a matrix shows.       *)
Ways == {0, 1}

Renamed(tt, way, u, v, o) == Renaming(tt, way = 1, u, v, o)

Seen(tt, way, u, v, o, r, c) ==
  o * tt[IF way = 1 THEN RowOf(v * (c - 2), u * (r - 2)) ELSE RowOf(u * (r - 2), v * (c - 2))]

Shows(k, tt, way, u, v, o) ==
  k \in Matrix /\ \A r, c \in 1 .. 3 : k[r][c] = Seen(tt, way, u, v, o, r, c)

Signs == {-1, 1}

LEMMA SignsAre ==
  /\ 1 \in Signs /\ -1 \in Signs
  /\ \A u \in Signs : u = 1 \/ u = -1
  /\ \A u \in Signs : -u \in Signs /\ u * u = 1
  /\ \A u, v \in Signs : u * v \in Signs
  /\ \A u \in Signs : \A x \in -1 .. 1 : u * x \in -1 .. 1
  /\ \A u, v \in Signs : \A x \in -1 .. 1 : u * (v * x) = (u * v) * x
<1>1. 1 \in Signs /\ -1 \in Signs /\ \A u \in Signs : u = 1 \/ u = -1
  BY DEF Signs
<1>3. ASSUME NEW u \in Signs PROVE -u \in Signs /\ u * u = 1
  <2>1. CASE u = 1
    BY <1>1, <2>1
  <2>2. CASE u = -1
    BY <1>1, <2>2
  <2> QED
    BY <1>1, <2>1, <2>2
<1>4. ASSUME NEW u \in Signs, NEW v \in Signs PROVE u * v \in Signs
  <2>1. CASE u = 1
    <3>1. u * v = v
      BY <1>1, <2>1
    <3> QED
      BY <3>1
  <2>2. CASE u = -1
    <3>1. u * v = -v
      BY <1>1, <2>2
    <3> QED
      BY <1>3, <3>1
  <2> QED
    BY <1>1, <2>1, <2>2
<1>5. ASSUME NEW u \in Signs, NEW x \in -1 .. 1 PROVE u * x \in -1 .. 1
  <2>1. CASE u = 1
    BY <2>1
  <2>2. CASE u = -1
    BY <2>2
  <2> QED
    BY <1>1, <2>1, <2>2
<1>6. ASSUME NEW u \in Signs, NEW v \in Signs, NEW x \in -1 .. 1 PROVE u * (v * x) = (u * v) * x
  <2>1. u \in Int /\ v \in Int /\ x \in Int
    BY <1>1
  <2> QED
    BY <2>1, Z3
<1> QED
  BY <1>1, <1>3, <1>4, <1>5, <1>6

(* A product by a sign, under a name of its own: the provers see what a    *)
(* sign does to a trit, and no multiplication.                             *)
Turn(u, x) == u * x

LEMMA TurnIs ==
  /\ \A u \in Signs : Turn(u, u) = 1
  /\ \A u, v \in Signs : Turn(u, v) \in Signs
  /\ \A u \in Signs : \A x \in -1 .. 1 : Turn(u, x) \in -1 .. 1
  /\ \A u, v \in Signs : \A x \in -1 .. 1 : Turn(u, Turn(v, x)) = Turn(Turn(u, v), x)
  /\ \A u, v \in Signs : Turn(u, v) = Turn(v, u)
  /\ \A x \in Int : Turn(1, x) = x /\ Turn(-1, x) = -x
<1>1. \A u, v \in Signs : Turn(u, v) = Turn(v, u)
  <2>1. \A u \in Signs : u \in Int
    BY DEF Signs
  <2> QED
    BY <2>1 DEF Turn
<1>2. \A x \in Int : Turn(1, x) = x /\ Turn(-1, x) = -x
  BY DEF Turn
<1>3. \A u, v \in Signs : \A x \in -1 .. 1 : Turn(u, Turn(v, x)) = Turn(Turn(u, v), x)
  BY SignsAre, Zenon DEF Turn
<1>4. (\A u \in Signs : Turn(u, u) = 1) /\ \A u, v \in Signs : Turn(u, v) \in Signs
  BY SignsAre, Zenon DEF Turn
<1>5. \A u \in Signs : \A x \in -1 .. 1 : Turn(u, x) \in -1 .. 1
  BY SignsAre, Zenon DEF Turn
<1> QED
  BY <1>1, <1>2, <1>3, <1>4, <1>5

LEMMA TurnTurn ==
  ASSUME NEW u \in Signs, NEW v \in Signs, NEW x \in -1 .. 1
  PROVE  Turn(u, Turn(v, x)) = Turn(Turn(u, v), x)
  BY TurnIs

(* What a matrix shows is the table it flattens to.                        *)
LEMMA ShownIs ==
  ASSUME NEW tt \in Table, NEW way \in Ways, NEW u \in Signs, NEW v \in Signs, NEW o \in Signs,
         NEW k, Shows(k, tt, way, u, v, o)
  PROVE  flatten(k) = Renamed(tt, way, u, v, o)
<1>1. flatten(k) = [i \in 1 .. 9 |-> k[Line3(i)][Col3(i)]]
  BY FlattenIs DEF Shows
<1>2. ASSUME NEW i \in 1 .. 9
      PROVE  k[Line3(i)][Col3(i)] = Renamed(tt, way, u, v, o)[i]
  <2>1. Line3(i) \in 1 .. 3 /\ Col3(i) \in 1 .. 3 /\ ASSIGN2[i] = <<Line3(i) - 2, Col3(i) - 2>>
    BY RowsAre
  <2>2. k[Line3(i)][Col3(i)] = Seen(tt, way, u, v, o, Line3(i), Col3(i))
    BY <2>1 DEF Shows
  <2>3. ASSIGN2[i][1] = Line3(i) - 2 /\ ASSIGN2[i][2] = Col3(i) - 2
    BY <2>1
  <2> QED
    BY <2>2, <2>3 DEF Seen, Renamed, Renaming
<1>3. Renamed(tt, way, u, v, o) = [i \in 1 .. 9 |-> Renamed(tt, way, u, v, o)[i]]
  BY DEF Renamed, Renaming
<1> QED
  BY <1>1, <1>2, <1>3

(* A matrix transposed, its rows or its columns reversed, or negated.      *)
LEMMA Moves ==
  ASSUME NEW tt \in Table, NEW way \in Ways, NEW u \in Signs, NEW v \in Signs, NEW o \in Signs,
         NEW k, Shows(k, tt, way, u, v, o)
  PROVE  /\ Shows(Reverse(k), tt, way, -u, v, o)
         /\ Shows([r \in 1 .. 3 |-> Reverse(k[r])], tt, way, u, -v, o)
         /\ Shows([r \in 1 .. 3 |-> [c \in 1 .. 3 |-> -k[r][c]]], tt, way, u, v, -o)
<1>0. k \in Matrix /\ \A r, c \in 1 .. 3 : k[r][c] = Seen(tt, way, u, v, o, r, c) /\ k[r][c] \in -1 .. 1
  BY DEF Shows, Matrix
<1>1. Reverse(k) \in Matrix /\ \A r \in 1 .. 3 : Reverse(k)[r] = k[4 - r]
  <2>1. Len(k) = 3 /\ Reverse(k) = [i \in 1 .. Len(k) |-> k[(Len(k) - i) + 1]]
    BY <1>0 DEF Matrix, Reverse
  <2>2. Reverse(k) = [i \in 1 .. 3 |-> k[4 - i]]
    BY <2>1
  <2> QED
    BY <1>0, <2>2 DEF Matrix
<1>2. Shows(Reverse(k), tt, way, -u, v, o)
  <2>1. ASSUME NEW r \in 1 .. 3, NEW c \in 1 .. 3
        PROVE  Reverse(k)[r][c] = Seen(tt, way, -u, v, o, r, c)
    <3>1. 4 - r \in 1 .. 3 /\ u * ((4 - r) - 2) = (-u) * (r - 2)
      BY DEF Signs
    <3>2. Reverse(k)[r][c] = Seen(tt, way, u, v, o, 4 - r, c)
      BY <1>0, <1>1, <3>1
    <3> QED
      BY <3>1, <3>2 DEF Seen
  <2> QED
    BY <1>1, <2>1 DEF Shows
<1> DEFINE turned == [r \in 1 .. 3 |-> Reverse(k[r])]
           neg    == [r \in 1 .. 3 |-> [c \in 1 .. 3 |-> -k[r][c]]]
<1>3. turned \in Matrix /\ \A r, c \in 1 .. 3 : turned[r][c] = k[r][4 - c]
  <2>1. ASSUME NEW r \in 1 .. 3 PROVE Reverse(k[r]) = [i \in 1 .. 3 |-> k[r][4 - i]]
    <3>1. Len(k[r]) = 3 /\ Reverse(k[r]) = [i \in 1 .. Len(k[r]) |-> k[r][(Len(k[r]) - i) + 1]]
      BY <1>0 DEF Matrix, Reverse
    <3> QED
      BY <3>1
  <2> QED
    BY <1>0, <2>1 DEF Matrix
<1>4. Shows(turned, tt, way, u, -v, o)
  <2> HIDE DEF turned
  <2>1. ASSUME NEW r \in 1 .. 3, NEW c \in 1 .. 3
        PROVE  turned[r][c] = Seen(tt, way, u, -v, o, r, c)
    <3>1. 4 - c \in 1 .. 3 /\ v * ((4 - c) - 2) = (-v) * (c - 2)
      BY DEF Signs
    <3>2. turned[r][c] = Seen(tt, way, u, v, o, r, 4 - c)
      BY <1>0, <1>3, <3>1
    <3> QED
      BY <3>1, <3>2 DEF Seen
  <2> QED
    BY <1>3, <2>1 DEF Shows
<1>5. neg \in Matrix
  BY <1>0 DEF Matrix
<1>6. Shows(neg, tt, way, u, v, -o)
  <2>1. ASSUME NEW r \in 1 .. 3, NEW c \in 1 .. 3
        PROVE  neg[r][c] = Seen(tt, way, u, v, -o, r, c)
    <3> DEFINE x == tt[IF way = 1 THEN RowOf(v * (c - 2), u * (r - 2)) ELSE RowOf(u * (r - 2), v * (c - 2))]
    <3>1. k[r][c] = o * x /\ k[r][c] \in -1 .. 1 /\ neg[r][c] = -k[r][c]
      BY <1>0 DEF Seen
    <3>2. x \in -1 .. 1
      <4>1. RowOf(v * (c - 2), u * (r - 2)) \in 1 .. 9 /\ RowOf(u * (r - 2), v * (c - 2)) \in 1 .. 9
        <5>1. \A w \in Signs, i \in 1 .. 3 : \E j \in 1 .. 3 : w * (i - 2) = j - 2
          <6> SUFFICES ASSUME NEW w \in Signs, NEW i \in 1 .. 3 PROVE \E j \in 1 .. 3 : w * (i - 2) = j - 2
            OBVIOUS
          <6>1. w = 1 => w * (i - 2) = i - 2
            OBVIOUS
          <6>2. w = -1 => w * (i - 2) = (4 - i) - 2 /\ 4 - i \in 1 .. 3
            OBVIOUS
          <6> QED
            BY <6>1, <6>2 DEF Signs
        <5>2. PICK j \in 1 .. 3 : u * (r - 2) = j - 2
          BY <5>1
        <5>3. PICK l \in 1 .. 3 : v * (c - 2) = l - 2
          BY <5>1
        <5> QED
          BY <5>2, <5>3, RowsAre
      <4> QED
        BY <4>1 DEF Table
    <3>3. (-o) * x = - (o * x)
      <4> HIDE DEF x
      <4> QED
        BY <3>2 DEF Signs
    <3> QED
      BY <3>1, <3>3 DEF Seen
  <2> HIDE DEF neg
  <2> QED
    BY <1>5, <2>1 DEF Shows
<1> QED
  BY <1>2, <1>4, <1>6

(* The matrix itself and its transpose.                                    *)
LEMMA FirstMoves ==
  ASSUME NEW tt \in Table
  PROVE  Shows(matrix(tt), tt, 0, 1, 1, 1) /\ Shows(transpose(matrix(tt)), tt, 1, 1, 1, 1)
<1> DEFINE m == matrix(tt)
<1>1. m \in Matrix /\ \A r, c \in 1 .. 3 : m[r][c] = tt[RowOf(r - 2, c - 2)]
  BY MatrixIs
<1> HIDE DEF m
<1>2. transpose(m) \in Matrix /\ \A r, c \in 1 .. 3 : transpose(m)[r][c] = m[c][r]
  BY <1>1 DEF Matrix, transpose
<1>3. \A r, c \in 1 .. 3 : tt[RowOf(r - 2, c - 2)] \in Int /\ 1 * (r - 2) = r - 2 /\ 1 * (c - 2) = c - 2
  BY RowsAre DEF Table
<1>4. ASSUME NEW r \in 1 .. 3, NEW c \in 1 .. 3
      PROVE  m[r][c] = Seen(tt, 0, 1, 1, 1, r, c) /\ transpose(m)[r][c] = Seen(tt, 1, 1, 1, 1, r, c)
  BY <1>1, <1>2, <1>3 DEF Seen
<1> QED
  BY <1>1, <1>2, <1>4 DEF Shows, m

LEMMA InOrbit ==
  ASSUME NEW tt
  PROVE  /\ \A way \in Ways, u, v, o \in Signs : Renamed(tt, way, u, v, o) \in Orbit(tt)
         /\ \A t \in Orbit(tt) : \E way \in Ways, u, v, o \in Signs : t = Renamed(tt, way, u, v, o)
<1>1. ASSUME NEW way \in Ways, NEW u \in Signs, NEW v \in Signs, NEW o \in Signs
      PROVE  Renamed(tt, way, u, v, o) \in Orbit(tt)
  <2>1. \A swap \in BOOLEAN : Renaming(tt, swap, u, v, o) \in Orbit(tt)
    BY DEF Orbit, Signs
  <2>2. CASE way = 1
    <3>1. Renamed(tt, way, u, v, o) = Renaming(tt, TRUE, u, v, o)
      BY <2>2 DEF Renamed, Renaming
    <3> QED
      BY <2>1, <3>1
  <2>3. CASE way = 0
    <3>1. Renamed(tt, way, u, v, o) = Renaming(tt, FALSE, u, v, o)
      BY <2>3 DEF Renamed, Renaming
    <3> QED
      BY <2>1, <3>1
  <2> QED
    BY <2>2, <2>3 DEF Ways
<1>2. ASSUME NEW t \in Orbit(tt)
      PROVE  \E way \in Ways, u, v, o \in Signs : t = Renamed(tt, way, u, v, o)
  <2>1. PICK swap \in BOOLEAN, u \in {-1, 1}, v \in {-1, 1}, o \in {-1, 1} : t = Renaming(tt, swap, u, v, o)
    BY DEF Orbit
  <2>2. CASE swap
    <3>1. t = Renaming(tt, 1 = 1, u, v, o)
      BY <2>1, <2>2
    <3> QED
      BY <3>1 DEF Renamed, Ways, Signs
  <2>3. CASE ~swap
    <3>1. t = Renaming(tt, 0 = 1, u, v, o)
      BY <2>1, <2>3
    <3> QED
      BY <3>1 DEF Renamed, Ways, Signs
  <2> QED
    BY <2>2, <2>3
<1> QED
  BY <1>1, <1>2

(* The sixteen matrices that canonical makes are the renamings.            *)
Swaps(tt) == {matrix(tt), transpose(matrix(tt))}
NegX(tt)  == Swaps(tt) \cup {Reverse(k) : k \in Swaps(tt)}
NegY(tt)  == NegX(tt) \cup {[r \in 1 .. 3 |-> Reverse(k[r])] : k \in NegX(tt)}
NegOut(tt) == NegY(tt) \cup {[r \in 1 .. 3 |-> [c \in 1 .. 3 |-> -k[r][c]]] : k \in NegY(tt)}

LEMMA RenamingsAre ==
  ASSUME NEW tt \in Table
  PROVE  {flatten(k) : k \in NegOut(tt)} = Orbit(tt)
<1> DEFINE Flip(k)    == [r \in 1 .. 3 |-> Reverse(k[r])]
           Negated(k) == [r \in 1 .. 3 |-> [c \in 1 .. 3 |-> -k[r][c]]]
<1>0. 1 \in Signs /\ -1 \in Signs /\ \A u \in Signs : u = 1 \/ u = -1
  BY SignsAre
<1>1. /\ \A k \in Swaps(tt) : \E way \in Ways : Shows(k, tt, way, 1, 1, 1)
      /\ \A way \in Ways : \E k \in Swaps(tt) : Shows(k, tt, way, 1, 1, 1)
  BY FirstMoves DEF Swaps, Ways
<1>2. /\ \A k \in NegX(tt) : \E way \in Ways, u \in Signs : Shows(k, tt, way, u, 1, 1)
      /\ \A way \in Ways, u \in Signs : \E k \in NegX(tt) : Shows(k, tt, way, u, 1, 1)
  <2>1. ASSUME NEW k \in NegX(tt) PROVE \E way \in Ways, u \in Signs : Shows(k, tt, way, u, 1, 1)
    <3>1. CASE k \in Swaps(tt)
      BY <1>0, <1>1, <3>1
    <3>2. CASE k \in {Reverse(l) : l \in Swaps(tt)}
      <4>1. PICK l \in Swaps(tt) : k = Reverse(l)
        BY <3>2
      <4>2. PICK way \in Ways : Shows(l, tt, way, 1, 1, 1)
        BY <1>1
      <4>3. Shows(k, tt, way, -1, 1, 1)
        BY <1>0, <4>1, <4>2, Moves
      <4> QED
        BY <1>0, <4>3
    <3> QED
      BY <3>1, <3>2 DEF NegX
  <2>2. ASSUME NEW way \in Ways, NEW u \in Signs PROVE \E k \in NegX(tt) : Shows(k, tt, way, u, 1, 1)
    <3>1. PICK l \in Swaps(tt) : Shows(l, tt, way, 1, 1, 1)
      BY <1>1
    <3>2. Shows(Reverse(l), tt, way, -1, 1, 1)
      BY <1>0, <3>1, Moves
    <3>3. l \in NegX(tt) /\ Reverse(l) \in NegX(tt)
      BY DEF NegX
    <3> QED
      BY <1>0, <3>1, <3>2, <3>3
  <2> QED
    BY <2>1, <2>2
<1>3. /\ \A k \in NegY(tt) : \E way \in Ways, u \in Signs, v \in Signs : Shows(k, tt, way, u, v, 1)
      /\ \A way \in Ways, u \in Signs, v \in Signs : \E k \in NegY(tt) : Shows(k, tt, way, u, v, 1)
  <2>1. ASSUME NEW k \in NegY(tt)
        PROVE  \E way \in Ways, u \in Signs, v \in Signs : Shows(k, tt, way, u, v, 1)
    <3>1. CASE k \in NegX(tt)
      BY <1>0, <1>2, <3>1
    <3>2. CASE k \in {Flip(l) : l \in NegX(tt)}
      <4>1. PICK l \in NegX(tt) : k = Flip(l)
        BY <3>2
      <4>2. PICK way \in Ways, u \in Signs : Shows(l, tt, way, u, 1, 1)
        BY <1>2
      <4>3. Shows(k, tt, way, u, -1, 1)
        BY <1>0, <4>1, <4>2, Moves
      <4> QED
        BY <1>0, <4>3
    <3> QED
      BY <3>1, <3>2 DEF NegY
  <2>2. ASSUME NEW way \in Ways, NEW u \in Signs, NEW v \in Signs
        PROVE  \E k \in NegY(tt) : Shows(k, tt, way, u, v, 1)
    <3>1. PICK l \in NegX(tt) : Shows(l, tt, way, u, 1, 1)
      BY <1>2
    <3>2. Shows(Flip(l), tt, way, u, -1, 1)
      BY <1>0, <3>1, Moves
    <3>3. l \in NegY(tt) /\ Flip(l) \in NegY(tt)
      BY DEF NegY
    <3> HIDE DEF Flip
    <3> QED
      BY <1>0, <3>1, <3>2, <3>3
  <2> QED
    BY <2>1, <2>2
<1>4. /\ \A k \in NegOut(tt) : \E way \in Ways, u \in Signs, v \in Signs, o \in Signs : Shows(k, tt, way, u, v, o)
      /\ \A way \in Ways, u \in Signs, v \in Signs, o \in Signs : \E k \in NegOut(tt) : Shows(k, tt, way, u, v, o)
  <2>1. ASSUME NEW k \in NegOut(tt)
        PROVE  \E way \in Ways, u \in Signs, v \in Signs, o \in Signs : Shows(k, tt, way, u, v, o)
    <3>1. CASE k \in NegY(tt)
      BY <1>0, <1>3, <3>1
    <3>2. CASE k \in {Negated(l) : l \in NegY(tt)}
      <4>1. PICK l \in NegY(tt) : k = Negated(l)
        BY <3>2
      <4>2. PICK way \in Ways, u \in Signs, v \in Signs : Shows(l, tt, way, u, v, 1)
        BY <1>3
      <4>3. Shows(k, tt, way, u, v, -1)
        BY <1>0, <4>1, <4>2, Moves
      <4> QED
        BY <1>0, <4>3
    <3> QED
      BY <3>1, <3>2 DEF NegOut
  <2>2. ASSUME NEW way \in Ways, NEW u \in Signs, NEW v \in Signs, NEW o \in Signs
        PROVE  \E k \in NegOut(tt) : Shows(k, tt, way, u, v, o)
    <3>1. PICK l \in NegY(tt) : Shows(l, tt, way, u, v, 1)
      BY <1>3
    <3>2. Shows(Negated(l), tt, way, u, v, -1)
      BY <1>0, <3>1, Moves
    <3>3. l \in NegOut(tt) /\ Negated(l) \in NegOut(tt)
      BY DEF NegOut
    <3> HIDE DEF Negated
    <3> QED
      BY <1>0, <3>1, <3>2, <3>3
  <2> QED
    BY <2>1, <2>2
<1>5. ASSUME NEW k \in NegOut(tt) PROVE flatten(k) \in Orbit(tt)
  <2>1. PICK way \in Ways, u \in Signs, v \in Signs, o \in Signs : Shows(k, tt, way, u, v, o)
    BY <1>4
  <2>2. flatten(k) = Renamed(tt, way, u, v, o)
    BY <2>1, ShownIs
  <2> QED
    BY <2>2, InOrbit
<1>6. ASSUME NEW t \in Orbit(tt) PROVE \E k \in NegOut(tt) : flatten(k) = t
  <2>1. PICK way \in Ways, u \in Signs, v \in Signs, o \in Signs : t = Renamed(tt, way, u, v, o)
    BY InOrbit
  <2>2. PICK k \in NegOut(tt) : Shows(k, tt, way, u, v, o)
    BY <1>4
  <2> QED
    BY <2>1, <2>2, ShownIs
<1> QED
  BY <1>5, <1>6

LEMMA CanonicalIs ==
  ASSUME NEW tt \in Table
  PROVE  canonical(tt) = LeastKey({encode(t) : t \in Orbit(tt)})
<1>1. canonical(tt) = LeastKey({encode(flatten(k)) : k \in NegOut(tt)})
  BY Zenon DEF canonical, NegOut, NegY, NegX, Swaps
<1>2. {encode(flatten(k)) : k \in NegOut(tt)} = {encode(t) : t \in {flatten(k) : k \in NegOut(tt)}}
  BY Zenon
<1> QED
  BY <1>1, <1>2, RenamingsAre

-----------------------------------------------------------------------------
(* Renamings of a table are its renamings by a place and a sign.           *)
LEMMA RenamingAt ==
  ASSUME NEW tt \in Table, NEW way \in Ways, NEW u \in Signs, NEW v \in Signs, NEW o \in Signs
  PROVE  /\ Renamed(tt, way, u, v, o) \in Table
         /\ \A x, y \in -1 .. 1 :
              Renamed(tt, way, u, v, o)[RowOf(x, y)] =
                Turn(o, tt[IF way = 1 THEN RowOf(Turn(v, y), Turn(u, x)) ELSE RowOf(Turn(u, x), Turn(v, y))])
<1> DEFINE f == Renamed(tt, way, u, v, o)
<1>1. ASSUME NEW x \in -1 .. 1, NEW y \in -1 .. 1
      PROVE  /\ RowOf(x, y) \in 1 .. 9 /\ ASSIGN2[RowOf(x, y)][1] = x /\ ASSIGN2[RowOf(x, y)][2] = y
             /\ Turn(u, x) \in -1 .. 1 /\ Turn(v, y) \in -1 .. 1
  <2>1. x + 2 \in 1 .. 3 /\ y + 2 \in 1 .. 3 /\ (x + 2) - 2 = x /\ (y + 2) - 2 = y
    OBVIOUS
  <2>2. RowOf(x, y) \in 1 .. 9 /\ Line3(RowOf(x, y)) = x + 2 /\ Col3(RowOf(x, y)) = y + 2
    BY <2>1, RowsAre
  <2>3. ASSIGN2[RowOf(x, y)] = <<x, y>>
    BY <2>1, <2>2, RowsAre
  <2>4. Turn(u, x) \in -1 .. 1 /\ Turn(v, y) \in -1 .. 1
    BY TurnIs
  <2> QED
    BY <2>2, <2>3, <2>4
<1>2. ASSUME NEW i \in 1 .. 9 PROVE ASSIGN2[i][1] \in -1 .. 1 /\ ASSIGN2[i][2] \in -1 .. 1
  BY RowsAre
<1>3. ASSUME NEW x \in -1 .. 1, NEW y \in -1 .. 1
      PROVE  (IF way = 1 THEN RowOf(Turn(v, y), Turn(u, x)) ELSE RowOf(Turn(u, x), Turn(v, y))) \in 1 .. 9
  <2>1. \A p, q \in -1 .. 1 : RowOf(p, q) \in 1 .. 9
    BY <1>1
  <2> QED
    BY <1>1, <2>1
<1>4. \A z \in -1 .. 1 : Turn(o, z) \in -1 .. 1
  BY TurnIs
<1>5. f = [i \in 1 .. 9 |-> Turn(o, tt[IF way = 1 THEN RowOf(Turn(v, ASSIGN2[i][2]), Turn(u, ASSIGN2[i][1]))
                                           ELSE RowOf(Turn(u, ASSIGN2[i][1]), Turn(v, ASSIGN2[i][2]))])]
  BY DEF Renamed, Renaming, Turn
<1>6. f \in Table
  <2> HIDE DEF f
  <2>1. ASSUME NEW i \in 1 .. 9 PROVE f[i] \in -1 .. 1
    BY <1>2, <1>3, <1>4, <1>5 DEF Table
  <2> QED
    BY <1>5, <2>1 DEF Table
<1>7. ASSUME NEW x \in -1 .. 1, NEW y \in -1 .. 1
      PROVE  f[RowOf(x, y)] = Turn(o, tt[IF way = 1 THEN RowOf(Turn(v, y), Turn(u, x)) ELSE RowOf(Turn(u, x), Turn(v, y))])
  <2> HIDE DEF f
  <2> QED
    BY <1>1, <1>5
<1> QED
  BY <1>6, <1>7

LEMMA StraightAt ==
  ASSUME NEW tt \in Table, NEW u \in Signs, NEW v \in Signs, NEW o \in Signs
  PROVE  /\ Renamed(tt, 0, u, v, o) \in Table
         /\ \A x, y \in -1 .. 1 : Renamed(tt, 0, u, v, o)[RowOf(x, y)] = Turn(o, tt[RowOf(Turn(u, x), Turn(v, y))])
<1>1. 0 \in Ways /\ 0 # 1
  BY DEF Ways
<1> QED
  BY <1>1, RenamingAt

(* Tables are the same when they are at every pair of trits.               *)
LEMMA TableSame ==
  ASSUME NEW f \in Table, NEW g \in Table, \A x, y \in -1 .. 1 : f[RowOf(x, y)] = g[RowOf(x, y)]
  PROVE  f = g
<1>1. ASSUME NEW i \in 1 .. 9 PROVE f[i] = g[i]
  <2>1. Line3(i) - 2 \in -1 .. 1 /\ Col3(i) - 2 \in -1 .. 1 /\ RowOf(Line3(i) - 2, Col3(i) - 2) = i
    BY RowsAre
  <2> QED
    BY <2>1
<1> QED
  BY <1>1 DEF Table

(* One renaming after another is a renaming.                               *)
LEMMA ThenStraight ==
  ASSUME NEW tt \in Table, NEW s1 \in Ways, NEW u1 \in Signs, NEW v1 \in Signs, NEW o1 \in Signs,
         NEW u2 \in Signs, NEW v2 \in Signs, NEW o2 \in Signs
  PROVE  Renamed(Renamed(tt, s1, u1, v1, o1), 0, u2, v2, o2) =
           Renamed(tt, s1, Turn(u1, u2), Turn(v1, v2), Turn(o1, o2))
<1> DEFINE f == Renamed(tt, s1, u1, v1, o1)
           g == Renamed(f, 0, u2, v2, o2)
           uu == Turn(u1, u2)
           vv == Turn(v1, v2)
           oo == Turn(o1, o2)
           h == Renamed(tt, s1, uu, vv, oo)
<1>1. 0 \in Ways /\ s1 \in Ways /\ uu \in Signs /\ vv \in Signs /\ oo \in Signs
  BY TurnIs DEF Ways
<1>2. f \in Table /\ \A x, y \in -1 .. 1 :
        f[RowOf(x, y)] = Turn(o1, tt[IF s1 = 1 THEN RowOf(Turn(v1, y), Turn(u1, x)) ELSE RowOf(Turn(u1, x), Turn(v1, y))])
  BY RenamingAt
<1>3. g \in Table /\ \A x, y \in -1 .. 1 : g[RowOf(x, y)] = Turn(o2, f[RowOf(Turn(u2, x), Turn(v2, y))])
  <2> HIDE DEF f
  <2> QED
    BY <1>2, StraightAt
<1>4. h \in Table /\ \A x, y \in -1 .. 1 :
        h[RowOf(x, y)] = Turn(oo, tt[IF s1 = 1 THEN RowOf(Turn(vv, y), Turn(uu, x)) ELSE RowOf(Turn(uu, x), Turn(vv, y))])
  <2> HIDE DEF uu, vv, oo
  <2>1. h \in Table /\ \A x, y \in -1 .. 1 :
          h[RowOf(x, y)] = Turn(oo, tt[IF s1 = 1 THEN RowOf(Turn(vv, y), Turn(uu, x)) ELSE RowOf(Turn(uu, x), Turn(vv, y))])
    BY <1>1, RenamingAt
  <2> HIDE DEF h
  <2> QED
    BY <1>1, <2>1 DEF Ways
<1> HIDE DEF f, g, h
<1>5. ASSUME NEW x \in -1 .. 1, NEW y \in -1 .. 1 PROVE g[RowOf(x, y)] = h[RowOf(x, y)]
  <2>1. Turn(u2, x) \in -1 .. 1 /\ Turn(v2, y) \in -1 .. 1
    BY TurnIs
  <2> DEFINE a == Turn(uu, x)
             b == Turn(vv, y)
  <2>2. Turn(u1, Turn(u2, x)) = a
    BY TurnTurn
  <2>3. Turn(v1, Turn(v2, y)) = b
    BY TurnTurn
  <2>4. \A z \in -1 .. 1 : Turn(o2, Turn(o1, z)) = Turn(oo, z)
    <3>1. \A z \in -1 .. 1 : Turn(o2, Turn(o1, z)) = Turn(Turn(o2, o1), z)
      BY TurnTurn
    <3>2. Turn(o2, o1) = oo
      BY TurnIs
    <3> QED
      BY <3>1, <3>2
  <2>5. a \in -1 .. 1 /\ b \in -1 .. 1
    BY <1>1, TurnIs
  <2>6. \A p, q \in -1 .. 1 : tt[RowOf(p, q)] \in -1 .. 1
    <3>1. \A p, q \in -1 .. 1 : RowOf((p + 2) - 2, (q + 2) - 2) \in 1 .. 9 /\ (p + 2) - 2 = p /\ (q + 2) - 2 = q
      BY RowsAre
    <3> QED
      BY <3>1 DEF Table
  <2>7. g[RowOf(x, y)] = Turn(o2, f[RowOf(Turn(u2, x), Turn(v2, y))])
    BY <1>3
  <2>8. f[RowOf(Turn(u2, x), Turn(v2, y))] = Turn(o1, tt[IF s1 = 1 THEN RowOf(b, a) ELSE RowOf(a, b)])
    BY <1>2, <2>1, <2>2, <2>3
  <2>9. h[RowOf(x, y)] = Turn(oo, tt[IF s1 = 1 THEN RowOf(b, a) ELSE RowOf(a, b)])
    BY <1>4
  <2> HIDE DEF a, b, oo
  <2> QED
    BY <2>4, <2>5, <2>6, <2>7, <2>8, <2>9
<1>6. g = h
  BY <1>3, <1>4, <1>5, TableSame
<1> QED
  BY <1>6 DEF f, g, h

LEMMA ThenSwapped ==
  ASSUME NEW tt \in Table, NEW s1 \in Ways, NEW u1 \in Signs, NEW v1 \in Signs, NEW o1 \in Signs,
         NEW u2 \in Signs, NEW v2 \in Signs, NEW o2 \in Signs
  PROVE  Renamed(Renamed(tt, s1, u1, v1, o1), 1, u2, v2, o2) =
           Renamed(tt, 1 - s1, Turn(v1, u2), Turn(u1, v2), Turn(o1, o2))
<1> DEFINE f == Renamed(tt, s1, u1, v1, o1)
           g == Renamed(f, 1, u2, v2, o2)
           uu == Turn(v1, u2)
           vv == Turn(u1, v2)
           oo == Turn(o1, o2)
           h == Renamed(tt, 1 - s1, uu, vv, oo)
<1>1. 1 \in Ways /\ 1 - s1 \in Ways /\ uu \in Signs /\ vv \in Signs /\ oo \in Signs
  BY TurnIs DEF Ways
<1>2. f \in Table /\ \A x, y \in -1 .. 1 :
        f[RowOf(x, y)] = Turn(o1, tt[IF s1 = 1 THEN RowOf(Turn(v1, y), Turn(u1, x)) ELSE RowOf(Turn(u1, x), Turn(v1, y))])
  BY RenamingAt
<1>3. g \in Table /\ \A x, y \in -1 .. 1 : g[RowOf(x, y)] = Turn(o2, f[RowOf(Turn(v2, y), Turn(u2, x))])
  <2> HIDE DEF f
  <2> QED
    BY <1>1, <1>2, RenamingAt
<1>4. h \in Table /\ \A x, y \in -1 .. 1 :
        h[RowOf(x, y)] = Turn(oo, tt[IF s1 = 1 THEN RowOf(Turn(uu, x), Turn(vv, y)) ELSE RowOf(Turn(vv, y), Turn(uu, x))])
  <2> HIDE DEF uu, vv, oo
  <2>1. h \in Table /\ \A x, y \in -1 .. 1 :
          h[RowOf(x, y)] = Turn(oo, tt[IF 1 - s1 = 1 THEN RowOf(Turn(vv, y), Turn(uu, x)) ELSE RowOf(Turn(uu, x), Turn(vv, y))])
    BY <1>1, RenamingAt
  <2> HIDE DEF h
  <2> QED
    BY <1>1, <2>1 DEF Ways
<1> HIDE DEF f, g, h
<1>5. ASSUME NEW x \in -1 .. 1, NEW y \in -1 .. 1 PROVE g[RowOf(x, y)] = h[RowOf(x, y)]
  <2>1. Turn(u2, x) \in -1 .. 1 /\ Turn(v2, y) \in -1 .. 1
    BY TurnIs
  <2> DEFINE a == Turn(vv, y)
             b == Turn(uu, x)
  <2>2. Turn(u1, Turn(v2, y)) = a
    BY TurnTurn
  <2>3. Turn(v1, Turn(u2, x)) = b
    BY TurnTurn
  <2>4. \A z \in -1 .. 1 : Turn(o2, Turn(o1, z)) = Turn(oo, z)
    <3>1. \A z \in -1 .. 1 : Turn(o2, Turn(o1, z)) = Turn(Turn(o2, o1), z)
      BY TurnTurn
    <3>2. Turn(o2, o1) = oo
      BY TurnIs
    <3> QED
      BY <3>1, <3>2
  <2>5. a \in -1 .. 1 /\ b \in -1 .. 1
    BY <1>1, TurnIs
  <2>6. \A p, q \in -1 .. 1 : tt[RowOf(p, q)] \in -1 .. 1
    <3>1. \A p, q \in -1 .. 1 : RowOf((p + 2) - 2, (q + 2) - 2) \in 1 .. 9 /\ (p + 2) - 2 = p /\ (q + 2) - 2 = q
      BY RowsAre
    <3> QED
      BY <3>1 DEF Table
  <2>7. g[RowOf(x, y)] = Turn(o2, f[RowOf(Turn(v2, y), Turn(u2, x))])
    BY <1>3
  <2>8. f[RowOf(Turn(v2, y), Turn(u2, x))] = Turn(o1, tt[IF s1 = 1 THEN RowOf(b, a) ELSE RowOf(a, b)])
    BY <1>2, <2>1, <2>2, <2>3
  <2>9. h[RowOf(x, y)] = Turn(oo, tt[IF s1 = 1 THEN RowOf(b, a) ELSE RowOf(a, b)])
    BY <1>4
  <2> HIDE DEF a, b, oo
  <2> QED
    BY <2>4, <2>5, <2>6, <2>7, <2>8, <2>9
<1>6. g = h
  BY <1>3, <1>4, <1>5, TableSame
<1> QED
  BY <1>6 DEF f, g, h

(* What is a table with signs on its wires and its output is a renaming.   *)
LEMMA Straight ==
  ASSUME NEW tt \in Table, NEW f \in Table, NEW u \in Signs, NEW v \in Signs, NEW o \in Signs,
         \A p, q \in -1 .. 1 : f[RowOf(p, q)] = Turn(o, tt[RowOf(Turn(u, p), Turn(v, q))])
  PROVE  f \in Orbit(tt)
<1>1. /\ Renamed(tt, 0, u, v, o) \in Table
      /\ \A x, y \in -1 .. 1 : Renamed(tt, 0, u, v, o)[RowOf(x, y)] = Turn(o, tt[RowOf(Turn(u, x), Turn(v, y))])
  BY StraightAt
<1>2. f = Renamed(tt, 0, u, v, o)
  BY <1>1, TableSame
<1>3. 0 \in Ways
  BY DEF Ways
<1> QED
  BY <1>2, <1>3, InOrbit

(* The first of the renamings leaves the table as it is.                   *)
LEMMA OrbitSelf ==
  ASSUME NEW tt \in Table
  PROVE  Renamed(tt, 0, 1, 1, 1) = tt /\ tt \in Orbit(tt)
<1>1. ASSUME NEW u \in Signs, u = 1 PROVE Renamed(tt, 0, u, u, u) = tt
  <2>1. Renamed(tt, 0, u, u, u) \in Table
    BY StraightAt
  <2>2. ASSUME NEW x \in -1 .. 1, NEW y \in -1 .. 1
        PROVE  Renamed(tt, 0, u, u, u)[RowOf(x, y)] = tt[RowOf(x, y)]
    <3>1. Renamed(tt, 0, u, u, u)[RowOf(x, y)] = Turn(u, tt[RowOf(Turn(u, x), Turn(u, y))])
      BY StraightAt
    <3>2. Turn(u, x) = x /\ Turn(u, y) = y
      BY <1>1, TurnIs
    <3>3. tt[RowOf(x, y)] \in Int
      <4>1. RowOf((x + 2) - 2, (y + 2) - 2) \in 1 .. 9 /\ (x + 2) - 2 = x /\ (y + 2) - 2 = y
        BY RowsAre
      <4> QED
        BY <4>1 DEF Table
    <3>4. \A z \in Int : Turn(u, z) = z
      BY <1>1, TurnIs
    <3> QED
      BY <3>1, <3>2, <3>3, <3>4
  <2> QED
    BY <2>1, <2>2, TableSame
<1>2. Renamed(tt, 0, 1, 1, 1) = tt
  BY <1>1, SignsAre
<1>3. Renamed(tt, 0, 1, 1, 1) \in Orbit(tt)
  BY SignsAre, InOrbit DEF Ways
<1> QED
  BY <1>2, <1>3

(* A renaming has the renamings of the table it renames.                   *)
LEMMA OrbitWithin ==
  ASSUME NEW q \in Table, NEW r \in Table, NEW s3 \in Ways, NEW u3 \in Signs, NEW v3 \in Signs, NEW o3 \in Signs,
         q = Renamed(r, s3, u3, v3, o3)
  PROVE  Orbit(q) \subseteq Orbit(r)
<1> SUFFICES ASSUME NEW s \in Orbit(q) PROVE s \in Orbit(r)
  OBVIOUS
<1>1. PICK s2 \in Ways, u2 \in Signs, v2 \in Signs, o2 \in Signs : s = Renamed(q, s2, u2, v2, o2)
  BY InOrbit
<1>2. CASE s2 = 0
  <2>0. Renamed(Renamed(r, s3, u3, v3, o3), 0, u2, v2, o2) = Renamed(r, s3, Turn(u3, u2), Turn(v3, v2), Turn(o3, o2))
    BY ThenStraight
  <2>1. s = Renamed(r, s3, Turn(u3, u2), Turn(v3, v2), Turn(o3, o2))
    BY <1>1, <1>2, <2>0
  <2>2. Turn(u3, u2) \in Signs /\ Turn(v3, v2) \in Signs /\ Turn(o3, o2) \in Signs
    BY TurnIs
  <2> QED
    BY <2>1, <2>2, InOrbit
<1>3. CASE s2 = 1
  <2>0. Renamed(Renamed(r, s3, u3, v3, o3), 1, u2, v2, o2) = Renamed(r, 1 - s3, Turn(v3, u2), Turn(u3, v2), Turn(o3, o2))
    BY ThenSwapped
  <2>1. s = Renamed(r, 1 - s3, Turn(v3, u2), Turn(u3, v2), Turn(o3, o2))
    BY <1>1, <1>3, <2>0
  <2>2. /\ Turn(v3, u2) \in Signs /\ Turn(u3, v2) \in Signs /\ Turn(o3, o2) \in Signs
        /\ 1 - s3 \in Ways
    BY TurnIs DEF Ways
  <2> QED
    BY <2>1, <2>2, InOrbit
<1> QED
  BY <1>2, <1>3 DEF Ways

LEMMA OrbitSame ==
  ASSUME NEW tt \in Table, NEW t \in Orbit(tt)
  PROVE  t \in Table /\ Orbit(t) = Orbit(tt)
<1>1. PICK s1 \in Ways, u1 \in Signs, v1 \in Signs, o1 \in Signs : t = Renamed(tt, s1, u1, v1, o1)
  BY InOrbit
<1>2. t \in Table
  BY <1>1, RenamingAt
<1>4. \E s3 \in Ways, u3 \in Signs, v3 \in Signs, o3 \in Signs : tt = Renamed(t, s3, u3, v3, o3)
  <2>1. Turn(u1, u1) = 1 /\ Turn(v1, v1) = 1 /\ Turn(o1, o1) = 1
    BY TurnIs
  <2>2. Renamed(tt, 0, 1, 1, 1) = tt
    BY OrbitSelf
  <2>3. CASE s1 = 0
    <3>1. Renamed(t, 0, u1, v1, o1) = Renamed(tt, s1, Turn(u1, u1), Turn(v1, v1), Turn(o1, o1))
      BY <1>1, ThenStraight
    <3> QED
      BY <2>1, <2>2, <2>3, <3>1
  <2>4. CASE s1 = 1
    <3>1. Renamed(t, 1, v1, u1, o1) = Renamed(tt, 1 - s1, Turn(v1, v1), Turn(u1, u1), Turn(o1, o1))
      BY <1>1, ThenSwapped
    <3>2. 1 - s1 = 0
      BY <2>4
    <3> QED
      BY <2>1, <2>2, <2>4, <3>1, <3>2
  <2> QED
    BY <2>3, <2>4 DEF Ways
<1>5. Orbit(t) \subseteq Orbit(tt)
  BY <1>1, <1>2, OrbitWithin
<1>6. Orbit(tt) \subseteq Orbit(t)
  BY <1>2, <1>4, OrbitWithin
<1> QED
  BY <1>2, <1>5, <1>6

-----------------------------------------------------------------------------
(* Some keys have a least, place by place.                                 *)
Key9 == [1 .. 9 -> 0 .. 2]

LEMMA LeastOne ==
  ASSUME NEW N, N \subseteq Nat, N # {}
  PROVE  \E n \in N : \A m \in N : n <= m
<1> DEFINE R == OpToRel(<, Nat)
<1>1. PICK n \in N : \A m \in N : ~ (<<m, n>> \in R)
  BY NatLessThanWellFounded, WFMin
<1>2. ASSUME NEW m \in N PROVE n <= m
  <2>1. m \in Nat /\ n \in Nat /\ ~ (m < n)
    BY <1>1 DEF OpToRel
  <2> QED
    BY <2>1
<1> QED
  BY <1>2

(* s is least as far as the first m places tell.                           *)
Leading(K, s, m) ==
  s \in K /\ \A t \in K : \/ \A j \in 1 .. m : s[j] = t[j]
                          \/ \E i \in 1 .. m : s[i] < t[i] /\ \A j \in 1 .. i - 1 : s[j] = t[j]

LEMMA LeadingOn ==
  ASSUME NEW K, K \subseteq Key9, NEW m \in 1 .. 9, NEW s, Leading(K, s, m - 1)
  PROVE  \E q : Leading(K, q, m)
<1> DEFINE A == {t \in K : \A j \in 1 .. m - 1 : s[j] = t[j]}
           N == {t[m] : t \in A}
<1>1. \A t \in K : t[m] \in Nat
  BY DEF Key9
<1>2. N \subseteq Nat /\ N # {}
  BY <1>1 DEF Leading
<1>3. PICK n \in N : \A k \in N : n <= k
  <2> HIDE DEF N
  <2> QED
    BY <1>2, LeastOne
<1>4. PICK q \in A : n = q[m]
  OBVIOUS
<1>5. q \in K /\ \A j \in 1 .. m - 1 : s[j] = q[j]
  OBVIOUS
<1>6. ASSUME NEW t \in K
      PROVE  \/ \A j \in 1 .. m : q[j] = t[j]
             \/ \E i \in 1 .. m : q[i] < t[i] /\ \A j \in 1 .. i - 1 : q[j] = t[j]
  <2>1. CASE t \in A
    <3>1. q[m] <= t[m] /\ q[m] \in Nat /\ t[m] \in Nat
      BY <1>1, <1>3, <1>4, <1>5, <2>1
    <3>2. \A j \in 1 .. m - 1 : q[j] = t[j]
      BY <1>5, <2>1
    <3>3. \A j \in 1 .. m : j \in 1 .. m - 1 \/ j = m
      OBVIOUS
    <3>4. m \in 1 .. m
      OBVIOUS
    <3> HIDE DEF A, N
    <3> QED
      BY <3>1, <3>2, <3>3, <3>4
  <2>2. CASE t \notin A
    <3>1. PICK i \in 1 .. m - 1 : s[i] < t[i] /\ \A j \in 1 .. i - 1 : s[j] = t[j]
      BY <2>2 DEF Leading
    <3>2. i \in 1 .. m /\ \A j \in 1 .. i - 1 : j \in 1 .. m - 1
      OBVIOUS
    <3>3. q[i] < t[i] /\ \A j \in 1 .. i - 1 : q[j] = t[j]
      BY <1>5, <3>1, <3>2
    <3> QED
      BY <3>2, <3>3
  <2> QED
    BY <2>1, <2>2
<1> QED
  BY <1>5, <1>6 DEF Leading

LEMMA LeastIn ==
  ASSUME NEW K, K \subseteq Key9, K # {}
  PROVE  LeastKey(K) \in K
<1> DEFINE T == {m \in 0 .. 9 : \E s : Leading(K, s, m)}
<1>1. 0 \in T
  <2>1. PICK s \in K : TRUE
    OBVIOUS
  <2>2. Leading(K, s, 0)
    BY DEF Leading
  <2> QED
    BY <2>2
<1>2. ASSUME NEW m \in 1 .. 9, m - 1 \in T PROVE m \in T
  <2>1. PICK s : Leading(K, s, m - 1)
    BY <1>2
  <2>2. \E q : Leading(K, q, m)
    BY <2>1, LeadingOn
  <2> QED
    BY <2>2
<1>3. 9 \in T
  <2> HIDE DEF T
  <2>1. \A m \in 0 .. 9 : m \in T
    BY <1>1, <1>2, Climb
  <2> QED
    BY <2>1
<1>4. PICK s : Leading(K, s, 9)
  BY <1>3
<1>5. ASSUME NEW t \in K, t # s PROVE Less(s, t)
  <2>1. s \in Key9 /\ t \in Key9
    BY <1>4 DEF Leading
  <2>2. ~ \A j \in 1 .. 9 : s[j] = t[j]
    BY <1>5, <2>1 DEF Key9
  <2>3. PICK i \in 1 .. 9 : s[i] < t[i] /\ \A j \in 1 .. i - 1 : s[j] = t[j]
    BY <1>4, <2>2 DEF Leading
  <2>4. i \in DOMAIN s
    BY <2>1 DEF Key9
  <2> QED
    BY <2>3, <2>4 DEF Less
<1>6. s \in K /\ \A t \in K \ {s} : Less(s, t)
  BY <1>4, <1>5 DEF Leading
<1> QED
  BY <1>6, Zenon DEF LeastKey

(* A renaming has the signature of the table, and the signature is the key *)
(* of a renaming.                                                          *)
LEMMA Encoded == \A tt \in Table : encode(tt) \in Key9
  BY DEF Table, Key9, encode

LEMMA CanonicalSame ==
  ASSUME NEW tt \in Table
  PROVE  /\ canonical(tt) \in {encode(t) : t \in Orbit(tt)}
         /\ \A t \in Orbit(tt) : canonical(t) = canonical(tt)
<1> DEFINE K == {encode(t) : t \in Orbit(tt)}
<1>1. canonical(tt) = LeastKey(K)
  BY CanonicalIs
<1>2. K \subseteq Key9 /\ K # {}
  <2>1. \A t \in Orbit(tt) : encode(t) \in Key9
    BY OrbitSame, Encoded
  <2>2. tt \in Orbit(tt)
    BY OrbitSelf
  <2> QED
    BY <2>1, <2>2
<1>3. canonical(tt) \in K
  <2> HIDE DEF K
  <2> QED
    BY <1>1, <1>2, LeastIn
<1>4. ASSUME NEW t \in Orbit(tt) PROVE canonical(t) = canonical(tt)
  <2>1. t \in Table /\ Orbit(t) = Orbit(tt)
    BY OrbitSame
  <2>2. canonical(t) = LeastKey({encode(s) : s \in Orbit(t)})
    BY <2>1, CanonicalIs
  <2> QED
    BY <1>1, <2>1, <2>2
<1> QED
  BY <1>3, <1>4

-----------------------------------------------------------------------------
(* The cells on tables, and the leaves.                                    *)
Cells1 == {"neg", "id"}
Cells2 == {"sum", "mul", "min", "max"}

LEMMA TritsClosed ==
  ASSUME NEW cell \in Cells1 \cup Cells2, NEW a \in -1 .. 1, NEW b \in -1 .. 1
  PROVE  CELLS(cell, a, b) \in -1 .. 1
<1>1. a * b \in -1 .. 1
  <2>1. a \in {-1, 0, 1}
    OBVIOUS
  <2> QED
    BY <2>1
<1>2. t_sum(a, b) \in -1 .. 1
  <2>1. a + b + 3 \in 1 .. 5
    OBVIOUS
  <2>2. (a + b + 3) % 3 \in 0 .. 2
    BY <2>1
  <2> QED
    BY <2>2 DEF t_sum
<1>3. CASE cell = "neg" \/ cell = "id"
  BY <1>3 DEF CELLS
<1>4. CASE cell = "sum"
  BY <1>2, <1>4 DEF CELLS
<1>5. CASE cell = "mul"
  BY <1>1, <1>5 DEF CELLS, t_mul
<1>6. CASE cell = "min" \/ cell = "max"
  BY <1>6 DEF CELLS
<1> QED
  BY <1>3, <1>4, <1>5, <1>6 DEF Cells1, Cells2

LEMMA Applied ==
  ASSUME NEW cell \in Cells1 \cup Cells2, NEW f \in Table, NEW g \in Table
  PROVE  apply2(cell, f, g) \in Table
<1>1. ASSUME NEW i \in 1 .. 9 PROVE CELLS(cell, f[i], g[i]) \in -1 .. 1
  BY TritsClosed DEF Table
<1> QED
  BY <1>1 DEF apply2, Table

Leaves1 == {"c-1", "c0", "c+1", "x", "y"}

LEMMA LeafIs ==
  /\ \A leaf \in Leaves1 : LEAF_TABLE(leaf) \in Table
  /\ \A x, y \in -1 .. 1 : LEAF_TABLE("x")[RowOf(x, y)] = x /\ LEAF_TABLE("y")[RowOf(x, y)] = y
<1>1. ASSUME NEW i \in 1 .. 9 PROVE ASSIGN2[i][1] \in -1 .. 1 /\ ASSIGN2[i][2] \in -1 .. 1
  BY RowsAre
<1>2. ASSUME NEW x \in -1 .. 1, NEW y \in -1 .. 1
      PROVE  RowOf(x, y) \in 1 .. 9 /\ ASSIGN2[RowOf(x, y)][1] = x /\ ASSIGN2[RowOf(x, y)][2] = y
  <2>1. x + 2 \in 1 .. 3 /\ y + 2 \in 1 .. 3 /\ (x + 2) - 2 = x /\ (y + 2) - 2 = y
    OBVIOUS
  <2>2. RowOf(x, y) \in 1 .. 9 /\ Line3(RowOf(x, y)) = x + 2 /\ Col3(RowOf(x, y)) = y + 2
    BY <2>1, RowsAre
  <2>3. ASSIGN2[RowOf(x, y)] = <<x, y>>
    BY <2>1, <2>2, RowsAre
  <2> QED
    BY <2>2, <2>3
<1>3. ASSUME NEW leaf \in Leaves1 PROVE LEAF_TABLE(leaf) \in Table
  <2>1. leaf = "x" => LEAF_TABLE(leaf) = [i \in 1 .. 9 |-> ASSIGN2[i][1]]
    BY DEF LEAF_TABLE
  <2>2. leaf = "y" => LEAF_TABLE(leaf) = [i \in 1 .. 9 |-> ASSIGN2[i][2]]
    BY DEF LEAF_TABLE
  <2>3. leaf \in {"c-1", "c0", "c+1"} => LEAF_TABLE(leaf) \in [1 .. 9 -> {-1, 0, 1}]
    BY DEF LEAF_TABLE
  <2>4. {-1, 0, 1} \subseteq -1 .. 1
    OBVIOUS
  <2> QED
    BY <1>1, <2>1, <2>2, <2>3, <2>4 DEF Table, Leaves1
<1>4. ASSUME NEW x \in -1 .. 1, NEW y \in -1 .. 1
      PROVE  LEAF_TABLE("x")[RowOf(x, y)] = x /\ LEAF_TABLE("y")[RowOf(x, y)] = y
  <2>1. LEAF_TABLE("x") = [i \in 1 .. 9 |-> ASSIGN2[i][1]] /\ LEAF_TABLE("y") = [i \in 1 .. 9 |-> ASSIGN2[i][2]]
    BY DEF LEAF_TABLE
  <2> QED
    BY <1>2, <2>1
<1> QED
  BY <1>3, <1>4

(* The renamings of the sum that the script shows.                         *)
Sums == apply2("sum", LEAF_TABLE("x"), LEAF_TABLE("y"))
Opposite(t) == [i \in 1 .. 9 |-> -t[i]]

LEMMA VariantsIn ==
  /\ Sums \in Table /\ Sums \in variants
  /\ variants \subseteq Orbit(Sums)
<1> DEFINE x == LEAF_TABLE("x")
           y == LEAF_TABLE("y")
<1>0. x \in Table /\ y \in Table /\ "sum" \in Cells1 \cup Cells2
  BY LeafIs DEF Leaves1, Cells2
<1>1. /\ \A f, g \in Table : /\ apply2("sum", f, g) \in Table
                             /\ \A i \in 1 .. 9 : apply2("sum", f, g)[i] = t_sum(f[i], g[i])
      /\ \A f \in Table : /\ Opposite(f) \in Table
                          /\ \A i \in 1 .. 9 : Opposite(f)[i] = -f[i]
  <2>1. \A f, g \in Table : apply2("sum", f, g) \in Table
    BY <1>0, Applied
  <2>2. \A f, g : \A i \in 1 .. 9 : apply2("sum", f, g)[i] = t_sum(f[i], g[i])
    BY DEF apply2, CELLS
  <2>3. \A f \in Table : /\ Opposite(f) \in Table
                         /\ \A i \in 1 .. 9 : Opposite(f)[i] = -f[i]
    BY DEF Opposite, Table
  <2> QED
    BY <2>1, <2>2, <2>3
<1>2. variants = {apply2("sum", x, y), apply2("sum", y, x), apply2("sum", Opposite(x), y),
                  apply2("sum", x, Opposite(y)), Opposite(apply2("sum", x, y)),
                  Opposite(apply2("sum", Opposite(x), Opposite(y)))}
  BY Zenon DEF variants, Opposite
<1>3. \A p, q \in -1 .. 1 : /\ RowOf(p, q) \in 1 .. 9 /\ x[RowOf(p, q)] = p /\ y[RowOf(p, q)] = q
  <2>1. \A p, q \in -1 .. 1 : RowOf((p + 2) - 2, (q + 2) - 2) \in 1 .. 9 /\ (p + 2) - 2 = p /\ (q + 2) - 2 = q
    BY RowsAre
  <2> QED
    BY <2>1, LeafIs
<1>4. Sums = apply2("sum", x, y)
  BY DEF Sums
<1> HIDE DEF x, y
<1>5. Sums \in Table
  BY <1>0, <1>1, <1>4
<1>6. \A p, q \in -1 .. 1 : Sums[RowOf(p, q)] = t_sum(p, q) /\ t_sum(p, q) \in Int /\ t_sum(p, q) = t_sum(q, p)
  <2>1. \A p, q \in -1 .. 1 : Sums[RowOf(p, q)] = t_sum(p, q)
    BY <1>0, <1>1, <1>3, <1>4
  <2>2. \A p, q \in -1 .. 1 : t_sum(p, q) \in Int
    BY <1>3, <1>5, <2>1 DEF Table
  <2>3. \A p, q \in -1 .. 1 : t_sum(p, q) = t_sum(q, p)
    <3>1. \A p, q \in -1 .. 1 : p + q + 3 = q + p + 3
      OBVIOUS
    <3> QED
      BY <3>1 DEF t_sum
  <2> QED
    BY <2>1, <2>2, <2>3
<1>7. 1 \in Signs /\ -1 \in Signs
  BY SignsAre
<1>8. ASSUME NEW u \in Signs, NEW v \in Signs, NEW o \in Signs, NEW f \in Table,
             \A p, q \in -1 .. 1 : f[RowOf(p, q)] = Turn(o, t_sum(Turn(u, p), Turn(v, q)))
      PROVE  f \in Orbit(Sums)
  <2>1. ASSUME NEW p \in -1 .. 1, NEW q \in -1 .. 1
        PROVE  f[RowOf(p, q)] = Turn(o, Sums[RowOf(Turn(u, p), Turn(v, q))])
    <3>1. Turn(u, p) \in -1 .. 1 /\ Turn(v, q) \in -1 .. 1
      BY TurnIs
    <3> QED
      BY <1>6, <1>8, <3>1
  <2> QED
    BY <1>5, <2>1, Straight
<1>9. \A p \in -1 .. 1 : Turn(1, p) = p /\ Turn(-1, p) = -p /\ -p \in -1 .. 1
  BY TurnIs
<1>10. \A z \in Int : Turn(1, z) = z /\ Turn(-1, z) = -z
  BY TurnIs
<1>11. apply2("sum", x, y) \in Orbit(Sums)
  BY <1>4, <1>5, OrbitSelf
<1>12. apply2("sum", y, x) \in Orbit(Sums)
  <2>1. apply2("sum", y, x) \in Table
    BY <1>0, <1>1
  <2>2. \A p, q \in -1 .. 1 : apply2("sum", y, x)[RowOf(p, q)] = Turn(1, t_sum(Turn(1, p), Turn(1, q)))
    BY <1>0, <1>1, <1>3, <1>6, <1>9, <1>10
  <2> QED
    BY <1>7, <1>8, <2>1, <2>2
<1>13. apply2("sum", Opposite(x), y) \in Orbit(Sums)
  <2>1. apply2("sum", Opposite(x), y) \in Table
    BY <1>0, <1>1
  <2>2. \A p, q \in -1 .. 1 : apply2("sum", Opposite(x), y)[RowOf(p, q)] = Turn(1, t_sum(Turn(-1, p), Turn(1, q)))
    BY <1>0, <1>1, <1>3, <1>6, <1>9, <1>10
  <2> QED
    BY <1>7, <1>8, <2>1, <2>2
<1>14. apply2("sum", x, Opposite(y)) \in Orbit(Sums)
  <2>1. apply2("sum", x, Opposite(y)) \in Table
    BY <1>0, <1>1
  <2>2. \A p, q \in -1 .. 1 : apply2("sum", x, Opposite(y))[RowOf(p, q)] = Turn(1, t_sum(Turn(1, p), Turn(-1, q)))
    BY <1>0, <1>1, <1>3, <1>6, <1>9, <1>10
  <2> QED
    BY <1>7, <1>8, <2>1, <2>2
<1>15. Opposite(apply2("sum", x, y)) \in Orbit(Sums)
  <2>1. Opposite(apply2("sum", x, y)) \in Table
    BY <1>0, <1>1
  <2>2. \A p, q \in -1 .. 1 : Opposite(apply2("sum", x, y))[RowOf(p, q)] = Turn(-1, t_sum(Turn(1, p), Turn(1, q)))
    BY <1>0, <1>1, <1>3, <1>6, <1>9, <1>10
  <2> QED
    BY <1>7, <1>8, <2>1, <2>2
<1>16. Opposite(apply2("sum", Opposite(x), Opposite(y))) \in Orbit(Sums)
  <2>0. apply2("sum", Opposite(x), Opposite(y)) \in Table
    BY <1>0, <1>1
  <2>1. Opposite(apply2("sum", Opposite(x), Opposite(y))) \in Table
    BY <1>1, <2>0
  <2>2. \A p, q \in -1 .. 1 : Opposite(apply2("sum", Opposite(x), Opposite(y)))[RowOf(p, q)] = Turn(-1, t_sum(Turn(-1, p), Turn(-1, q)))
    BY <1>0, <1>1, <1>3, <1>6, <1>9, <1>10, <2>0
  <2> QED
    BY <1>7, <1>8, <2>1, <2>2
<1> QED
  BY <1>2, <1>4, <1>5, <1>11, <1>12, <1>13, <1>14, <1>15, <1>16

LEMMA VariantsOne == Cardinality({canonical(t) : t \in variants}) = 1
<1>1. {canonical(t) : t \in variants} = {canonical(Sums)}
  <2>1. \A t \in variants : canonical(t) = canonical(Sums)
    BY VariantsIn, CanonicalSame
  <2> QED
    BY <2>1, VariantsIn
<1> QED
  BY <1>1, FS_Singleton

-----------------------------------------------------------------------------
(* The fragment with its inputs in any order: what counts is which of them *)
(* is the one of the minimum.                                              *)
MinMax(a, b, c) == CELLS("min", CELLS("max", a, b), c)

Frags == [i \in 1 .. 3 |-> [w \in Inputs3 |->
            CASE i = 1 -> MinMax(w[2], w[3], w[1])
              [] i = 2 -> MinMax(w[3], w[1], w[2])
              [] i = 3 -> MinMax(w[1], w[2], w[3])]]

LEMMA InputsAre ==
  /\ \A w \in Inputs3 : w[1] \in -1 .. 1 /\ w[2] \in -1 .. 1 /\ w[3] \in -1 .. 1
  /\ \A a, b, c \in -1 .. 1 : <<a, b, c>> \in Inputs3
  /\ \A a, b, c \in -1 .. 1 : MinMax(a, b, c) = MinMax(b, a, c)
<1>1. \A w \in Inputs3 : w[1] \in -1 .. 1 /\ w[2] \in -1 .. 1 /\ w[3] \in -1 .. 1
  BY DEF Inputs3
<1>2. \A a, b, c \in -1 .. 1 : <<a, b, c>> \in Inputs3
  BY DEF Inputs3
<1>3. ASSUME NEW a \in -1 .. 1, NEW b \in -1 .. 1, NEW c \in -1 .. 1 PROVE MinMax(a, b, c) = MinMax(b, a, c)
  <2>1. CELLS("max", a, b) = IF a < b THEN b ELSE a
    BY DEF CELLS
  <2>2. CELLS("max", b, a) = IF b < a THEN a ELSE b
    BY DEF CELLS
  <2>3. CELLS("max", a, b) = CELLS("max", b, a)
    BY <2>1, <2>2
  <2> QED
    BY <2>3 DEF MinMax
<1> QED
  BY <1>1, <1>2, <1>3

LEMMA OrdersAre ==
  /\ \A s \in Orders3 : /\ s[1] \in 1 .. 3 /\ s[2] \in 1 .. 3 /\ s[3] \in 1 .. 3
                        /\ s[1] # s[2] /\ s[1] # s[3] /\ s[2] # s[3]
  /\ \A i, k \in 1 .. 3 : \E s \in Orders3 : s[i] = k
<1>1. ASSUME NEW s \in Orders3
      PROVE  /\ s[1] \in 1 .. 3 /\ s[2] \in 1 .. 3 /\ s[3] \in 1 .. 3
             /\ s[1] # s[2] /\ s[1] # s[3] /\ s[2] # s[3]
  <2>1. s \in [1 .. 3 -> 1 .. 3] /\ {s[i] : i \in 1 .. 3} = 1 .. 3
    BY DEF Orders3
  <2>2. s[1] \in 1 .. 3 /\ s[2] \in 1 .. 3 /\ s[3] \in 1 .. 3
    BY <2>1
  <2>3. \A k \in 1 .. 3 : k = s[1] \/ k = s[2] \/ k = s[3]
    <3>1. \A k \in 1 .. 3 : \E i \in 1 .. 3 : k = s[i]
      BY <2>1
    <3>2. \A i \in 1 .. 3 : i = 1 \/ i = 2 \/ i = 3
      OBVIOUS
    <3> QED
      BY <3>1, <3>2
  <2>4. (1 = s[1] \/ 1 = s[2] \/ 1 = s[3]) /\ (2 = s[1] \/ 2 = s[2] \/ 2 = s[3]) /\ (3 = s[1] \/ 3 = s[2] \/ 3 = s[3])
    BY <2>3
  <2> QED
    BY <2>2, <2>4
<1>2. ASSUME NEW i \in 1 .. 3, NEW k \in 1 .. 3 PROVE \E s \in Orders3 : s[i] = k
  <2> DEFINE s == [m \in 1 .. 3 |-> IF m = i THEN k ELSE IF m = k THEN i ELSE m]
  <2>1. s \in [1 .. 3 -> 1 .. 3] /\ s[i] = k
    OBVIOUS
  <2>2. \A m \in 1 .. 3 : s[m] \in 1 .. 3 /\ s[s[m]] = m
    OBVIOUS
  <2> HIDE DEF s
  <2>3. {s[m] : m \in 1 .. 3} = 1 .. 3
    BY <2>2
  <2> QED
    BY <2>1, <2>3 DEF Orders3
<1> QED
  BY <1>1, <1>2

LEMMA FragsTurn ==
  /\ frag = Frags[3]
  /\ \A i \in 1 .. 3 : \A s \in Orders3 : relabel3(Frags[i], s) = Frags[s[i]]
<1>1. frag = Frags[3]
  BY DEF frag, Frags, MinMax
<1>2. ASSUME NEW i \in 1 .. 3, NEW s \in Orders3 PROVE relabel3(Frags[i], s) = Frags[s[i]]
  <2>0. /\ s[1] \in 1 .. 3 /\ s[2] \in 1 .. 3 /\ s[3] \in 1 .. 3
        /\ s[1] # s[2] /\ s[1] # s[3] /\ s[2] # s[3]
    BY OrdersAre
  <2>1. ASSUME NEW w \in Inputs3
        PROVE  Frags[i][<<w[s[1]], w[s[2]], w[s[3]]>>] = Frags[s[i]][w]
    <3> DEFINE z == <<w[s[1]], w[s[2]], w[s[3]]>>
    <3>1. w[1] \in -1 .. 1 /\ w[2] \in -1 .. 1 /\ w[3] \in -1 .. 1
      BY InputsAre
    <3>2. \A m \in 1 .. 3 : w[m] \in -1 .. 1
      <4>1. \A m \in 1 .. 3 : m = 1 \/ m = 2 \/ m = 3
        OBVIOUS
      <4> QED
        BY <3>1, <4>1
    <3>3. w[s[1]] \in -1 .. 1 /\ w[s[2]] \in -1 .. 1 /\ w[s[3]] \in -1 .. 1
      BY <2>0, <3>2
    <3>4. z \in Inputs3
      BY <3>3, InputsAre
    <3>5. z[1] = w[s[1]] /\ z[2] = w[s[2]] /\ z[3] = w[s[3]]
      OBVIOUS
    <3> HIDE DEF z
    <3>6. /\ \A y \in Inputs3 : /\ Frags[1][y] = MinMax(y[2], y[3], y[1])
                                /\ Frags[2][y] = MinMax(y[3], y[1], y[2])
                                /\ Frags[3][y] = MinMax(y[1], y[2], y[3])
      BY DEF Frags
    <3>7. \A j, k, m \in 1 .. 3 : (j # k /\ j # m /\ k # m) => Frags[m][w] = MinMax(w[j], w[k], w[m])
      <4> SUFFICES ASSUME NEW j \in 1 .. 3, NEW k \in 1 .. 3, NEW m \in 1 .. 3, j # k, j # m, k # m
                   PROVE  Frags[m][w] = MinMax(w[j], w[k], w[m])
        OBVIOUS
      <4>1. (m = 1 \/ m = 2 \/ m = 3) /\ (j = 1 \/ j = 2 \/ j = 3) /\ (k = 1 \/ k = 2 \/ k = 3)
        OBVIOUS
      <4>2. CASE m = 1
        BY <3>1, <3>6, <4>1, <4>2, InputsAre
      <4>3. CASE m = 2
        BY <3>1, <3>6, <4>1, <4>3, InputsAre
      <4>4. CASE m = 3
        BY <3>1, <3>6, <4>1, <4>4, InputsAre
      <4> QED
        BY <4>1, <4>2, <4>3, <4>4
    <3>8. CASE i = 1
      <4>1. Frags[i][z] = MinMax(w[s[2]], w[s[3]], w[s[1]])
        BY <3>4, <3>5, <3>6, <3>8
      <4> QED
        BY <2>0, <3>7, <3>8, <4>1 DEF z
    <3>9. CASE i = 2
      <4>1. Frags[i][z] = MinMax(w[s[3]], w[s[1]], w[s[2]])
        BY <3>4, <3>5, <3>6, <3>9
      <4> QED
        BY <2>0, <3>7, <3>9, <4>1 DEF z
    <3>10. CASE i = 3
      <4>1. Frags[i][z] = MinMax(w[s[1]], w[s[2]], w[s[3]])
        BY <3>4, <3>5, <3>6, <3>10
      <4> QED
        BY <2>0, <3>7, <3>10, <4>1 DEF z
    <3>11. i = 1 \/ i = 2 \/ i = 3
      OBVIOUS
    <3> QED
      BY <3>8, <3>9, <3>10, <3>11
  <2>2. s[i] \in 1 .. 3
    BY <2>0
  <2>3. \A k \in 1 .. 3 : Frags[k] = [w \in Inputs3 |-> Frags[k][w]]
    BY DEF Frags
  <2>4. relabel3(Frags[i], s) = [w \in Inputs3 |-> Frags[i][<<w[s[1]], w[s[2]], w[s[3]]>>]]
    BY DEF relabel3
  <2>5. relabel3(Frags[i], s) = [w \in Inputs3 |-> Frags[s[i]][w]]
    BY <2>1, <2>4
  <2> QED
    BY <2>2, <2>3, <2>5
<1> QED
  BY <1>1, <1>2

LEMMA FragsApart == Frags[1] # Frags[2] /\ Frags[1] # Frags[3] /\ Frags[2] # Frags[3]
<1>1. <<-1, 1, 1>> \in Inputs3 /\ <<1, -1, 1>> \in Inputs3
  <2>1. -1 \in -1 .. 1 /\ 1 \in -1 .. 1
    OBVIOUS
  <2> QED
    BY <2>1, InputsAre
<1>2. /\ MinMax(1, 1, -1) = -1 /\ MinMax(1, -1, 1) = 1 /\ MinMax(-1, 1, 1) = 1
  BY DEF MinMax, CELLS
<1>3. \A y \in Inputs3 : /\ Frags[1][y] = MinMax(y[2], y[3], y[1])
                         /\ Frags[2][y] = MinMax(y[3], y[1], y[2])
                         /\ Frags[3][y] = MinMax(y[1], y[2], y[3])
  BY DEF Frags
<1>4. \A a, b, c : <<a, b, c>>[1] = a /\ <<a, b, c>>[2] = b /\ <<a, b, c>>[3] = c
  OBVIOUS
<1>5. Frags[1][<<-1, 1, 1>>] = -1 /\ Frags[2][<<-1, 1, 1>>] = 1 /\ Frags[3][<<-1, 1, 1>>] = 1
  BY <1>1, <1>2, <1>3, <1>4
<1>6. Frags[2][<<1, -1, 1>>] = -1 /\ Frags[3][<<1, -1, 1>>] = 1
  BY <1>1, <1>2, <1>3, <1>4
<1> QED
  BY <1>5, <1>6

(* Three things that differ make a set of three.                          *)
LEMMA ThreeApart ==
  ASSUME NEW a, NEW b, NEW c, a # b, a # c, b # c
  PROVE  Cardinality({a, b, c}) = 3
<1>1. IsFiniteSet({a}) /\ Cardinality({a}) = 1
  BY FS_Singleton
<1>2. b \notin {a} /\ c \notin {a} \cup {b}
  OBVIOUS
<1>3. /\ IsFiniteSet({a} \cup {b})
      /\ Cardinality({a} \cup {b}) = IF b \in {a} THEN Cardinality({a}) ELSE Cardinality({a}) + 1
  BY <1>1, FS_AddElement
<1>4. Cardinality({a} \cup {b}) = 2
  BY <1>1, <1>2, <1>3
<1>5. Cardinality(({a} \cup {b}) \cup {c})
        = IF c \in {a} \cup {b} THEN Cardinality({a} \cup {b}) ELSE Cardinality({a} \cup {b}) + 1
  BY <1>3, FS_AddElement
<1>6. ({a} \cup {b}) \cup {c} = {a, b, c}
  OBVIOUS
<1> QED
  BY <1>2, <1>4, <1>5, <1>6

LEMMA FragOrbit ==
  LET orbit == {relabel3(frag, s) : s \in Orders3}
  IN  Cardinality(orbit) = 3 /\ Cardinality({canon3(t) : t \in orbit}) = 1
<1> DEFINE orbit == {relabel3(frag, s) : s \in Orders3}
           K == {Key3(Frags[k]) : k \in 1 .. 3}
<1>1. orbit = {Frags[k] : k \in 1 .. 3}
  <2>1. \A s \in Orders3 : relabel3(frag, s) = Frags[s[3]] /\ s[3] \in 1 .. 3
    BY FragsTurn, OrdersAre
  <2>2. \A k \in 1 .. 3 : \E s \in Orders3 : s[3] = k
    BY OrdersAre
  <2> QED
    BY <2>1, <2>2
<1>2. {Frags[k] : k \in 1 .. 3} = {Frags[1], Frags[2], Frags[3]}
  <2>1. \A k : k \in 1 .. 3 <=> k = 1 \/ k = 2 \/ k = 3
    OBVIOUS
  <2> QED
    BY <2>1
<1>3. Cardinality(orbit) = 3
  <2>1. Cardinality({Frags[1], Frags[2], Frags[3]}) = 3
    BY FragsApart, ThreeApart
  <2> QED
    BY <2>1, <1>1, <1>2
<1>4. \A i \in 1 .. 3 : canon3(Frags[i]) = LeastKey(K)
  <2> SUFFICES ASSUME NEW i \in 1 .. 3 PROVE canon3(Frags[i]) = LeastKey(K)
    OBVIOUS
  <2>1. \A s \in Orders3 : relabel3(Frags[i], s) = Frags[s[i]] /\ s[i] \in 1 .. 3
    <3>1. \A s \in Orders3 : s[1] \in 1 .. 3 /\ s[2] \in 1 .. 3 /\ s[3] \in 1 .. 3
      BY OrdersAre
    <3>2. i = 1 \/ i = 2 \/ i = 3
      OBVIOUS
    <3> QED
      BY <3>1, <3>2, FragsTurn
  <2>2. \A k \in 1 .. 3 : \E s \in Orders3 : s[i] = k
    BY OrdersAre
  <2>3. {Key3(relabel3(Frags[i], s)) : s \in Orders3} = K
    BY <2>1, <2>2
  <2> QED
    BY <2>3 DEF canon3
<1>5. {canon3(t) : t \in orbit} = {LeastKey(K)}
  <2> HIDE DEF K
  <2>1. 1 \in 1 .. 3
    OBVIOUS
  <2> QED
    BY <1>1, <1>4, <2>1
<1> QED
  BY <1>3, <1>5, FS_Singleton
-----------------------------------------------------------------------------
(* The trees made of a leaf, or of a cell and trees of K.                  *)
Leafs        == {<<leaf>> : leaf \in Leaves1}
Unaries(K)   == {<<cell, c>> : cell \in Cells1, c \in K}
Binaries(K)  == {<<cell, c, d>> : cell \in Cells2, c \in K, d \in K}
Offspring(K) == Unaries(K) \cup Binaries(K)

(* A sequence over a set is one over a larger set.                         *)
LEMMA SeqGrows ==
  ASSUME NEW K, NEW L, K \subseteq L, NEW w \in Seq(K)
  PROVE  w \in Seq(L)
<1>1. Len(w) \in Nat /\ w \in [1 .. Len(w) -> K]
  OBVIOUS
<1>2. w \in [1 .. Len(w) -> L]
  BY <1>1
<1> QED
  BY <1>1, <1>2, LaidOut

(* The place of a pair in the product of two sequences.                    *)
LEMMA PairAt ==
  ASSUME NEW n \in Nat, NEW m \in Nat, NEW k \in 1 .. n * m
  PROVE  ((k - 1) \div m) + 1 \in 1 .. n /\ ((k - 1) % m) + 1 \in 1 .. m
<1>0. n * m \in Nat /\ k - 1 \in Nat /\ k - 1 < n * m
  OBVIOUS
<1>1. m > 0
  <2>1. m = 0 => n * m = 0
    OBVIOUS
  <2> QED
    BY <1>0, <2>1
<1> DEFINE q == (k - 1) \div m
           r == (k - 1) % m
<1>2. q \in Int /\ r \in 0 .. m - 1 /\ k - 1 = m * q + r
  BY <1>0, <1>1
<1> HIDE DEF q, r
<1>3. q >= 0
  <2> SUFFICES ASSUME q <= -1 PROVE FALSE
    BY <1>2
  <2>1. m * q <= m * (-1)
    BY <1>1, <1>2
  <2>2. m * (-1) = -m
    OBVIOUS
  <2>3. m * q \in Int
    BY <1>2
  <2> QED
    BY <1>0, <1>2, <2>1, <2>2, <2>3
<1>4. q < n
  <2> SUFFICES ASSUME q >= n PROVE FALSE
    BY <1>2
  <2>1. m * q >= m * n
    BY <1>1, <1>2
  <2>2. m * n = n * m /\ m * q \in Int
    BY <1>2
  <2> QED
    BY <1>0, <1>2, <2>1, <2>2
<1>5. q + 1 \in 1 .. n /\ r + 1 \in 1 .. m
  BY <1>2, <1>3, <1>4
<1> QED
  BY <1>5 DEF q, r

LEMMA CrossIs ==
  ASSUME NEW K, NEW A \in Seq(K), NEW B \in Seq(K)
  PROVE  Cross(A, B) \in Seq(K \X K)
<1> DEFINE n == Len(A)
           m == Len(B)
           w == Cross(A, B)
<1>1. n \in Nat /\ m \in Nat /\ n * m \in Nat
  OBVIOUS
<1>2. ASSUME NEW k \in 1 .. n * m
      PROVE  <<A[((k - 1) \div m) + 1], B[((k - 1) % m) + 1]>> \in K \X K
  <2>1. ((k - 1) \div m) + 1 \in 1 .. n /\ ((k - 1) % m) + 1 \in 1 .. m
    BY <1>1, PairAt
  <2>2. A[((k - 1) \div m) + 1] \in K /\ B[((k - 1) % m) + 1] \in K
    BY <2>1
  <2> QED
    BY <2>2
<1>3. w = [k \in 1 .. n * m |-> <<A[((k - 1) \div m) + 1], B[((k - 1) % m) + 1]>>]
  BY DEF Cross
<1> HIDE DEF n, m, w
<1>4. w \in [1 .. n * m -> K \X K]
  BY <1>2, <1>3
<1>5. w \in Seq(K \X K)
  BY <1>1, <1>4, LaidOut
<1> QED
  BY <1>5 DEF w

(* Sequences laid end to end.                                              *)
LaidStep(parts, f) == [k \in 0 .. Len(parts) |-> IF k = 0 THEN <<>> ELSE f[k - 1] \o parts[k]]

LEMMA JointIs ==
  ASSUME NEW S, NEW parts \in Seq(Seq(S))
  PROVE  Joint(parts) \in Seq(S)
<1> DEFINE n == Len(parts)
           V == Seq(S)
           g == [p \in (1 .. n) \X V |-> p[2] \o parts[p[1]]]
<1>1. /\ n \in Nat /\ <<>> \in V
      /\ \A k \in 1 .. n : parts[k] \in V
      /\ \A v, w \in V : v \o w \in V
  OBVIOUS
<1> HIDE DEF n, V
<1>2. /\ g \in [(1 .. n) \X V -> V]
      /\ \A i \in 1 .. n : \A v \in V : g[<<i, v>>] = v \o parts[i]
  <2>1. \A p \in (1 .. n) \X V : p[1] \in 1 .. n /\ p[2] \in V
    OBVIOUS
  <2>2. \A p \in (1 .. n) \X V : p[2] \o parts[p[1]] \in V
    BY <1>1, <2>1
  <2> QED
    BY <2>2
<1> HIDE DEF g
<1>3. Recurses(n, V, <<>>, g)
  BY <1>1, <1>2, Recursion
<1>4. PICK f \in [0 .. n -> V] : f[0] = <<>> /\ \A i \in 1 .. n : f[i] = g[<<i, f[i - 1]>>]
  BY <1>3 DEF Recurses
<1>5. f = LaidStep(parts, f)
  <2>1. ASSUME NEW i \in 1 .. n PROVE f[i] = f[i - 1] \o parts[i]
    <3>1. i - 1 \in 0 .. n
      BY <1>1
    <3>2. f[i - 1] \in V
      BY <1>4, <3>1
    <3> QED
      BY <1>2, <1>4, <3>2
  <2>2. \A i \in 0 .. n : f[i] = IF i = 0 THEN <<>> ELSE f[i - 1] \o parts[i]
    <3>1. \A i \in 0 .. n : i = 0 \/ i \in 1 .. n
      BY <1>1
    <3> QED
      BY <1>4, <2>1, <3>1
  <2>3. f = [i \in 0 .. n |-> IF i = 0 THEN <<>> ELSE f[i - 1] \o parts[i]]
    BY <2>2
  <2> QED
    BY <2>3 DEF LaidStep, n
<1> DEFINE h == CHOOSE x : x = LaidStep(parts, x)
<1>6. h = LaidStep(parts, h)
  <2>1. \E x : x = LaidStep(parts, x)
    BY <1>5
  <2> QED
    BY <2>1, Zenon
<1>7. Joint(parts) = h[n]
  BY DEF Joint, LaidStep, n
<1> HIDE DEF h
<1>8. h[0] = <<>> /\ \A k \in 1 .. n : h[k] = h[k - 1] \o parts[k]
  <2>1. h = [k \in 0 .. n |-> IF k = 0 THEN <<>> ELSE h[k - 1] \o parts[k]]
    BY <1>6 DEF LaidStep, n
  <2>2. \A k \in 0 .. n : h[k] = IF k = 0 THEN <<>> ELSE h[k - 1] \o parts[k]
    BY <2>1
  <2>3. 0 \in 0 .. n /\ \A k \in 1 .. n : k \in 0 .. n /\ k # 0
    BY <1>1
  <2> QED
    BY <2>2, <2>3
<1> DEFINE T == {k \in 0 .. n : h[k] \in V}
<1>9. 0 \in T
  BY <1>1, <1>8
<1>10. ASSUME NEW k \in 1 .. n, k - 1 \in T PROVE k \in T
  <2>1. k \in 0 .. n /\ h[k - 1] \in V
    BY <1>1, <1>10
  <2>2. h[k] = h[k - 1] \o parts[k] /\ parts[k] \in V
    BY <1>1, <1>8
  <2>3. h[k] \in V
    BY <1>1, <2>1, <2>2
  <2> QED
    BY <2>1, <2>3
<1>11. n \in T
  <2> HIDE DEF T
  <2>1. \A k \in 0 .. n : k \in T
    BY <1>1, <1>9, <1>10, Climb
  <2> QED
    BY <1>1, <2>1
<1> QED
  BY <1>7, <1>11 DEF V

(* Trees one node larger than their parts, each cell in its turn.          *)
LEMMA TreesOfIs ==
  ASSUME NEW K, NEW by, NEW s \in Nat, s >= 2, \A i \in 1 .. s - 1 : by[i] \in Seq(K), Len(by[s - 1]) >= 1
  PROVE  TreesOf(by, s) \in Seq(Offspring(K)) /\ Len(TreesOf(by, s)) >= 1
<1> DEFINE O == Offspring(K)
           last == by[s - 1]
           Unary(cell) == [k \in DOMAIN last |-> <<cell, last[k]>>]
           Pairs(cell, i) == LET pairs == Cross(by[i], by[s - 1 - i])
                             IN  [k \in DOMAIN pairs |-> <<cell, pairs[k][1], pairs[k][2]>>]
           Binary(cell) == Joint([i \in 1 .. s - 2 |-> Pairs(cell, i)])
           u1 == Unary("neg")
           u2 == Unary("id")
           b1 == Binary("sum")
           b2 == Binary("mul")
           b3 == Binary("min")
           b4 == Binary("max")
<1>1. TreesOf(by, s) = ((((u1 \o u2) \o b1) \o b2) \o b3) \o b4
  BY Zenon DEF TreesOf
<1>2. ASSUME NEW cell \in Cells1 PROVE Unary(cell) \in Seq(O) /\ Len(Unary(cell)) = Len(last)
  <2> DEFINE n == Len(last)
  <2>1. n \in Nat /\ DOMAIN last = 1 .. n /\ \A k \in 1 .. n : last[k] \in K
    <3>1. last \in Seq(K)
      OBVIOUS
    <3> QED
      BY <3>1
  <2> HIDE DEF last, n
  <2>2. \A c \in K : <<cell, c>> \in O
    BY DEF Offspring, Unaries
  <2> HIDE DEF O
  <2>3. Unary(cell) \in [1 .. n -> O]
    BY <2>1, <2>2
  <2> QED
    BY <2>1, <2>3, LaidOut DEF n
<1>3. ASSUME NEW cell \in Cells2 PROVE Binary(cell) \in Seq(O)
  <2> DEFINE parts == [i \in 1 .. s - 2 |-> Pairs(cell, i)]
  <2>1. ASSUME NEW i \in 1 .. s - 2 PROVE Pairs(cell, i) \in Seq(O)
    <3> DEFINE pairs == Cross(by[i], by[s - 1 - i])
               n == Len(pairs)
    <3>1. by[i] \in Seq(K) /\ by[s - 1 - i] \in Seq(K)
      <4>1. i \in 1 .. s - 1 /\ s - 1 - i \in 1 .. s - 1
        OBVIOUS
      <4> QED
        BY <4>1
    <3>2. pairs \in Seq(K \X K)
      BY <3>1, CrossIs
    <3> HIDE DEF pairs
    <3>3. n \in Nat /\ DOMAIN pairs = 1 .. n /\ \A k \in 1 .. n : pairs[k][1] \in K /\ pairs[k][2] \in K
      BY <3>2
    <3>4. \A c, d \in K : <<cell, c, d>> \in O
      BY DEF Offspring, Binaries
    <3> HIDE DEF O, n
    <3>5. [k \in DOMAIN pairs |-> <<cell, pairs[k][1], pairs[k][2]>>] \in [1 .. n -> O]
      BY <3>3, <3>4
    <3>6. [k \in DOMAIN pairs |-> <<cell, pairs[k][1], pairs[k][2]>>] \in Seq(O)
      BY <3>3, <3>5, LaidOut
    <3> QED
      BY <3>6 DEF pairs
  <2> DEFINE V == Seq(O)
             m == s - 2
  <2>2. m \in Nat
    OBVIOUS
  <2>3. parts \in [1 .. m -> V]
    <3> HIDE DEF Pairs, O
    <3> QED
      BY <2>1
  <2> HIDE DEF parts, O, V, m
  <2>4. parts \in Seq(V)
    BY <2>2, <2>3, LaidOut
  <2>5. Joint(parts) \in Seq(O)
    BY <2>4, JointIs DEF V
  <2> QED
    BY <2>5 DEF parts
<1>4. "neg" \in Cells1 /\ "id" \in Cells1 /\ {"sum", "mul", "min", "max"} = Cells2
  BY DEF Cells1, Cells2
<1>5. u1 \in Seq(O) /\ u2 \in Seq(O) /\ Len(u1) >= 1
  <2> HIDE DEF Unary
  <2> QED
    BY <1>2, <1>4
<1>6. b1 \in Seq(O) /\ b2 \in Seq(O) /\ b3 \in Seq(O) /\ b4 \in Seq(O)
  <2> HIDE DEF Binary
  <2> QED
    BY <1>3, <1>4
<1>7. \A v, w \in Seq(O) : v \o w \in Seq(O) /\ (Len(v) >= 1 => Len(v \o w) >= 1)
  <2> HIDE DEF O
  <2>1. ASSUME NEW v \in Seq(O), NEW w \in Seq(O) PROVE v \o w \in Seq(O) /\ (Len(v) >= 1 => Len(v \o w) >= 1)
    <3>1. v \o w \in Seq(O) /\ Len(v \o w) = Len(v) + Len(w) /\ Len(v) \in Nat /\ Len(w) \in Nat
      OBVIOUS
    <3> QED
      BY <3>1
  <2> QED
    BY <2>1
<1> HIDE DEF O, u1, u2, b1, b2, b3, b4
<1>8. u1 \o u2 \in Seq(O) /\ Len(u1 \o u2) >= 1
  BY <1>5, <1>7
<1>9. (u1 \o u2) \o b1 \in Seq(O) /\ Len((u1 \o u2) \o b1) >= 1
  BY <1>6, <1>7, <1>8
<1>10. ((u1 \o u2) \o b1) \o b2 \in Seq(O) /\ Len(((u1 \o u2) \o b1) \o b2) >= 1
  BY <1>6, <1>7, <1>9
<1>11. (((u1 \o u2) \o b1) \o b2) \o b3 \in Seq(O) /\ Len((((u1 \o u2) \o b1) \o b2) \o b3) >= 1
  BY <1>6, <1>7, <1>10
<1>12. ((((u1 \o u2) \o b1) \o b2) \o b3) \o b4 \in Seq(O) /\ Len(((((u1 \o u2) \o b1) \o b2) \o b3) \o b4) >= 1
  BY <1>6, <1>7, <1>11
<1> QED
  BY <1>1, <1>12 DEF O

(* The sizes up to the s-th: the trees of each are leaves or have their    *)
(* parts among the sizes before.                                           *)
Kids(by, i) == UNION {{by[j][k] : k \in 1 .. Len(by[j])} : j \in 1 .. i - 1}
Trees(by, i) == Leafs \cup Offspring(Kids(by, i))

Grown(by, s) ==
  /\ \E W : by \in Seq(W)
  /\ Len(by) = s
  /\ \A i \in 1 .. s : Len(by[i]) >= 1 /\ by[i] \in Seq(Trees(by, i))

LEMMA GrownFirst == Grown(<<LEAVES>>, 1)
<1> DEFINE by == <<LEAVES>>
<1>1. <<"c-1">> \in Leafs /\ <<"c0">> \in Leafs /\ <<"c+1">> \in Leafs /\ <<"x">> \in Leafs /\ <<"y">> \in Leafs
  BY DEF Leafs, Leaves1
<1>2. Leafs \subseteq Trees(by, 1)
  BY DEF Trees
<1>3. LEAVES \in Seq(Trees(by, 1)) /\ Len(LEAVES) >= 1
  <2> HIDE DEF by
  <2>1. /\ <<"c-1">> \in Trees(by, 1) /\ <<"c0">> \in Trees(by, 1) /\ <<"c+1">> \in Trees(by, 1)
        /\ <<"x">> \in Trees(by, 1) /\ <<"y">> \in Trees(by, 1)
    BY <1>1, <1>2
  <2> QED
    BY <2>1 DEF LEAVES
<1>4. by \in Seq({LEAVES}) /\ Len(by) = 1 /\ by[1] = LEAVES
  OBVIOUS
<1> HIDE DEF by
<1>5. Grown(by, 1)
  BY <1>3, <1>4 DEF Grown
<1> QED
  BY <1>5 DEF by

LEMMA GrownOn ==
  ASSUME NEW by, NEW s \in Nat \ {0}, Grown(by, s)
  PROVE  Grown(Append(by, TreesOf(by, s + 1)), s + 1)
<1> DEFINE x  == TreesOf(by, s + 1)
           K  == Kids(by, s + 1)
           b2 == Append(by, x)
<1>1. PICK W : by \in Seq(W)
  BY DEF Grown
<1>2. Len(by) = s /\ \A i \in 1 .. s : Len(by[i]) >= 1 /\ by[i] \in Seq(Trees(by, i))
  BY DEF Grown
<1>3. \A i \in 1 .. s : by[i] \in Seq(K)
  <2> SUFFICES ASSUME NEW i \in 1 .. s PROVE by[i] \in Seq(K)
    OBVIOUS
  <2> DEFINE n == Len(by[i])
  <2>1. n \in Nat /\ by[i] = [k \in 1 .. n |-> by[i][k]]
    BY <1>2
  <2>2. i \in 1 .. (s + 1) - 1
    OBVIOUS
  <2>3. \A k \in 1 .. n : by[i][k] \in K
    BY <2>2 DEF Kids
  <2> HIDE DEF n, K
  <2>4. by[i] \in [1 .. n -> K]
    BY <2>1, <2>3
  <2> QED
    BY <2>1, <2>4, LaidOut
<1>4. x \in Seq(Offspring(K)) /\ Len(x) >= 1
  <2>1. /\ s + 1 \in Nat /\ s + 1 >= 2 /\ (s + 1) - 1 = s /\ s \in 1 .. s
    OBVIOUS
  <2> HIDE DEF K
  <2>2. (\A i \in 1 .. (s + 1) - 1 : by[i] \in Seq(K)) /\ Len(by[(s + 1) - 1]) >= 1
    BY <1>2, <1>3, <2>1
  <2> QED
    BY <2>1, <2>2, TreesOfIs
<1>5. /\ b2 \in Seq(W \cup {x}) /\ Len(b2) = s + 1
      /\ \A i \in 1 .. s : b2[i] = by[i]
      /\ b2[s + 1] = x
  <2> HIDE DEF x
  <2> DEFINE V == W \cup {x}
  <2>1. W \subseteq V /\ x \in V
    OBVIOUS
  <2> HIDE DEF V
  <2>3. by \in Seq(V) /\ x \in V
    BY <1>1, <2>1, SeqGrows
  <2>4. b2 \in Seq(V) /\ Len(b2) = s + 1 /\ (\A i \in 1 .. s : b2[i] = by[i]) /\ b2[s + 1] = x
    BY <1>2, <2>3, AppendProperties
  <2> QED
    BY <2>4 DEF V
<1> HIDE DEF x, b2
<1>6. \A i \in 1 .. s + 1 : Kids(b2, i) = Kids(by, i)
  <2> SUFFICES ASSUME NEW i \in 1 .. s + 1 PROVE Kids(b2, i) = Kids(by, i)
    OBVIOUS
  <2>1. \A j \in 1 .. i - 1 : b2[j] = by[j]
    BY <1>5
  <2>2. {{b2[j][k] : k \in 1 .. Len(b2[j])} : j \in 1 .. i - 1} = {{by[j][k] : k \in 1 .. Len(by[j])} : j \in 1 .. i - 1}
    BY <2>1
  <2> QED
    BY <2>2 DEF Kids
<1>7. ASSUME NEW i \in 1 .. s + 1 PROVE Len(b2[i]) >= 1 /\ b2[i] \in Seq(Trees(b2, i))
  <2>1. Trees(b2, i) = Trees(by, i)
    BY <1>6 DEF Trees
  <2>2. CASE i \in 1 .. s
    BY <1>2, <1>5, <2>1, <2>2
  <2>3. CASE i = s + 1
    <3>1. Offspring(K) \subseteq Trees(by, i)
      BY <2>3 DEF Trees
    <3> DEFINE O == Offspring(K)
               V == Trees(by, i)
    <3>2. x \in Seq(O) /\ O \subseteq V
      BY <1>4, <3>1
    <3> HIDE DEF O, V
    <3>3. x \in Seq(V)
      BY <3>2, SeqGrows
    <3>4. x \in Seq(Trees(by, i))
      BY <3>3 DEF V
    <3> QED
      BY <1>4, <1>5, <2>1, <2>3, <3>4
  <2> QED
    BY <2>2, <2>3
<1>8. Grown(b2, s + 1)
  BY <1>5, <1>7 DEF Grown
<1> QED
  BY <1>8 DEF b2, x

(* The list of all trees is what its recursion gives.                      *)
GrowStep(n, f) ==
  [s \in 1 .. n |-> IF s = 1 THEN <<LEAVES>> ELSE Append(f[s - 1], TreesOf(f[s - 1], s))]

LEMMA GrowExists ==
  ASSUME NEW n \in Nat \ {0}
  PROVE  \E f : f = GrowStep(n, f)
<1> DEFINE m == n - 1
           T == {k \in 0 .. m : \E f : f = GrowStep(k + 1, f)}
<1>0. m \in Nat
  OBVIOUS
<1>1. 0 \in T
  <2> DEFINE f == [s \in 1 .. 1 |-> <<LEAVES>>]
  <2>1. f = GrowStep(1, f)
    <3>1. \A s \in 1 .. 1 : s = 1
      OBVIOUS
    <3> QED
      BY <3>1 DEF GrowStep
  <2>2. 0 + 1 = 1 /\ 0 \in 0 .. m
    BY <1>0
  <2> HIDE DEF f, m
  <2> QED
    BY <2>1, <2>2
<1>2. ASSUME NEW k \in 1 .. m, k - 1 \in T PROVE k \in T
  <2>1. PICK f : f = GrowStep((k - 1) + 1, f)
    BY <1>2
  <2>2. (k - 1) + 1 = k /\ k \in Nat \ {0}
    OBVIOUS
  <2>3. f = GrowStep(k, f)
    BY <2>1, <2>2
  <2> DEFINE h == [s \in 1 .. k + 1 |-> IF s = k + 1 THEN Append(f[k], TreesOf(f[k], k + 1)) ELSE f[s]]
  <2>4. \A s \in 1 .. k : h[s] = f[s]
    OBVIOUS
  <2>5. ASSUME NEW s \in 1 .. k + 1
        PROVE  h[s] = IF s = 1 THEN <<LEAVES>> ELSE Append(h[s - 1], TreesOf(h[s - 1], s))
    <3>1. CASE s = k + 1
      <4>1. s # 1 /\ s - 1 = k /\ h[k] = f[k]
        BY <2>2, <2>4, <3>1
      <4>2. h[s] = Append(f[k], TreesOf(f[k], k + 1))
        BY <3>1
      <4> HIDE DEF h
      <4> QED
        BY <3>1, <4>1, <4>2
    <3>2. CASE s \in 1 .. k
      <4>1. f[s] = IF s = 1 THEN <<LEAVES>> ELSE Append(f[s - 1], TreesOf(f[s - 1], s))
        BY <2>3, <3>2 DEF GrowStep
      <4>2. s # 1 => s - 1 \in 1 .. k
        BY <3>2
      <4> HIDE DEF h
      <4> QED
        BY <2>4, <3>2, <4>1, <4>2
    <3> QED
      BY <3>1, <3>2
  <2>6. h = [s \in 1 .. k + 1 |-> h[s]]
    OBVIOUS
  <2> HIDE DEF h
  <2>7. h = GrowStep(k + 1, h)
    BY <2>5, <2>6 DEF GrowStep
  <2>8. k \in 0 .. m
    OBVIOUS
  <2> HIDE DEF m
  <2> QED
    BY <2>7, <2>8
<1>3. m \in T
  <2> HIDE DEF T, m
  <2>1. \A k \in 0 .. m : k \in T
    BY <1>0, <1>1, <1>2, Climb
  <2> QED
    BY <1>0, <2>1
<1>4. m + 1 = n
  OBVIOUS
<1> HIDE DEF m
<1> QED
  BY <1>3, <1>4

LEMMA BySizeIs == Grown(BySize, MAX_SIZE)
<1> DEFINE h == CHOOSE f : f = GrowStep(MAX_SIZE, f)
           m == MAX_SIZE - 1
           T == {k \in 0 .. m : Grown(h[k + 1], k + 1)}
<1>0. MAX_SIZE \in Nat \ {0} /\ m \in Nat /\ m + 1 = MAX_SIZE
  BY MemoAssumption
<1>1. h = GrowStep(MAX_SIZE, h)
  <2>1. \E f : f = GrowStep(MAX_SIZE, f)
    BY <1>0, GrowExists
  <2> QED
    BY <2>1, Zenon
<1>2. BySize = h[MAX_SIZE]
  BY DEF BySize, GrowStep
<1> HIDE DEF h, m
<1>3. \A s \in 1 .. MAX_SIZE : h[s] = IF s = 1 THEN <<LEAVES>> ELSE Append(h[s - 1], TreesOf(h[s - 1], s))
  BY <1>1 DEF GrowStep
<1>4. 0 \in T
  <2>1. h[1] = <<LEAVES>> /\ 0 + 1 = 1 /\ 0 \in 0 .. m
    BY <1>0, <1>3
  <2> QED
    BY <2>1, GrownFirst
<1>5. ASSUME NEW k \in 1 .. m, k - 1 \in T PROVE k \in T
  <2>1. (k - 1) + 1 = k /\ k \in Nat \ {0} /\ k + 1 \in 1 .. MAX_SIZE /\ k + 1 # 1 /\ (k + 1) - 1 = k /\ k \in 0 .. m
    BY <1>0
  <2>2. Grown(h[k], k)
    BY <1>5, <2>1
  <2>3. h[k + 1] = Append(h[k], TreesOf(h[k], k + 1))
    BY <1>3, <2>1
  <2> QED
    BY <2>1, <2>2, <2>3, GrownOn
<1>6. m \in T
  <2> HIDE DEF T
  <2>1. \A k \in 0 .. m : k \in T
    BY <1>0, <1>4, <1>5, Climb
  <2> QED
    BY <1>0, <2>1
<1> QED
  BY <1>0, <1>2, <1>6

-----------------------------------------------------------------------------
(* What a count asks of the caches: the trees of the sizes counted, and    *)
(* those of this size before this one, have their tables, which are tables *)
(* of trits; and what has a signature has the one canonical gives it.      *)
Counted(s, k) == s < size \/ (s = size /\ k < at)

MemoInv ==
  /\ size \in 1 .. MAX_SIZE + 1 /\ at \in Nat \ {0}
  /\ size <= MAX_SIZE => at <= Len(BySize[size])
  /\ \A s \in 1 .. MAX_SIZE - 1 : \A k \in 1 .. Len(BySize[s]) :
       Counted(s, k) => BySize[s][k] \in DOMAIN table_cache
  /\ \A e \in DOMAIN table_cache : table_cache[e] \in Table
  /\ DOMAIN raw_counter \subseteq DOMAIN canon_cache
  /\ \A tt \in DOMAIN canon_cache : tt \in Table /\ canon_cache[tt] = canonical(tt)

LEMMA MemoInitHolds == MemoInit => MemoInv
<1> SUFFICES ASSUME MemoInit PROVE MemoInv
  OBVIOUS
<1>1. MAX_SIZE \in Nat \ {0} /\ Len(BySize[1]) >= 1
  <2>1. MAX_SIZE \in Nat \ {0} /\ 1 \in 1 .. MAX_SIZE
    BY MemoAssumption
  <2> QED
    BY <2>1, BySizeIs DEF Grown
<1>2. size = 1 /\ at = 1
  BY DEF MemoInit
<1>3. DOMAIN table_cache = {} /\ DOMAIN canon_cache = {} /\ DOMAIN raw_counter = {}
  BY DEF MemoInit, Empty
<1>4. \A s \in 1 .. MAX_SIZE - 1 : \A k \in 1 .. Len(BySize[s]) : ~ Counted(s, k)
  BY <1>1, <1>2 DEF Counted
<1> QED
  BY <1>1, <1>2, <1>3, <1>4 DEF MemoInv

(* The table of a tree whose parts have theirs.                            *)
LEMMA TableIs ==
  ASSUME NEW K, NEW e \in Leafs \cup Offspring(K),
         \A c \in K : c \in DOMAIN table_cache /\ table_cache[c] \in Table
  PROVE  table(e) \in Table
<1>1. CASE e \in Leafs
  <2>1. PICK leaf \in Leaves1 : e = <<leaf>>
    BY <1>1 DEF Leafs
  <2>2. Children(e) = <<>> /\ e[1] = leaf
    BY <2>1 DEF Children
  <2>3. table(e) = LEAF_TABLE(leaf)
    BY <2>2 DEF table
  <2> QED
    BY <2>3, LeafIs
<1>2. CASE e \in Unaries(K)
  <2>1. PICK cell \in Cells1, c \in K : e = <<cell, c>>
    BY <1>2 DEF Unaries
  <2>2. e[1] = cell /\ e[2] = c /\ Len(e) = 2
    BY <2>1
  <2>3. Children(e) # <<>>
    <3>1. Len(<<c>>) = 1 /\ Len(<<>>) = 0 /\ Tail(e) = <<c>>
      BY <2>1
    <3> QED
      BY <3>1 DEF Children
  <2>4. table(e) = apply2(cell, table_cache[c], table_cache[c])
    BY <2>2, <2>3 DEF table
  <2> QED
    BY <2>4, Applied
<1>3. CASE e \in Binaries(K)
  <2>1. PICK cell \in Cells2, c \in K, d \in K : e = <<cell, c, d>>
    BY <1>3 DEF Binaries
  <2>2. e[1] = cell /\ e[2] = c /\ e[3] = d /\ Len(e) = 3
    BY <2>1
  <2>3. Children(e) # <<>>
    <3>1. Len(<<c, d>>) = 2 /\ Len(<<>>) = 0 /\ Tail(e) = <<c, d>>
      BY <2>1
    <3> QED
      BY <3>1 DEF Children
  <2>4. table(e) = apply2(cell, table_cache[c], table_cache[d])
    BY <2>2, <2>3 DEF table
  <2> QED
    BY <2>4, Applied
<1> QED
  BY <1>1, <1>2, <1>3 DEF Offspring

(* The tree to be counted, and what it is made of, which has tables.       *)
LEMMA CountFinds ==
  ASSUME MemoInv, Count
  PROVE  /\ size \in 1 .. MAX_SIZE /\ at \in 1 .. Len(BySize[size])
         /\ MAX_SIZE \in Nat \ {0} /\ size \in Nat /\ at \in Nat /\ Len(BySize[size]) \in Nat
         /\ BySize[size][at] \in Leafs \cup Offspring(Kids(BySize, size))
         /\ \A c \in Kids(BySize, size) : c \in DOMAIN table_cache /\ table_cache[c] \in Table
<1> DEFINE e == BySize[size][at]
<1>1. /\ size \in 1 .. MAX_SIZE /\ at \in 1 .. Len(BySize[size])
  <2>1. size <= MAX_SIZE
    BY Zenon DEF Count
  <2>2. size \in 1 .. MAX_SIZE
    BY <2>1, MemoAssumption DEF MemoInv
  <2>3. Len(BySize[size]) \in Nat
    BY <2>2, BySizeIs DEF Grown
  <2>4. at \in 1 .. Len(BySize[size])
    BY <2>1, <2>3 DEF MemoInv
  <2> QED
    BY <2>2, <2>4
<1>2. MAX_SIZE \in Nat \ {0} /\ size \in Nat /\ at \in Nat /\ Len(BySize[size]) \in Nat
  BY <1>1, MemoAssumption, BySizeIs DEF Grown
<1>3. e \in Leafs \cup Offspring(Kids(BySize, size))
  <2>1. BySize[size] \in Seq(Trees(BySize, size))
    BY <1>1, BySizeIs DEF Grown
  <2>2. e \in Trees(BySize, size)
    <3> DEFINE S == Trees(BySize, size)
    <3> HIDE DEF S
    <3>1. BySize[size] \in Seq(S)
      BY <2>1 DEF S
    <3>2. e \in S
      BY <1>1, <3>1
    <3> QED
      BY <3>2 DEF S
  <2> QED
    BY <2>2 DEF Trees
<1>4. ASSUME NEW c \in Kids(BySize, size) PROVE c \in DOMAIN table_cache /\ table_cache[c] \in Table
  <2>1. PICK j \in 1 .. size - 1 : c \in {BySize[j][k] : k \in 1 .. Len(BySize[j])}
    BY DEF Kids
  <2>2. PICK k \in 1 .. Len(BySize[j]) : c = BySize[j][k]
    BY <2>1
  <2>3. j \in 1 .. MAX_SIZE - 1 /\ Counted(j, k)
    BY <1>1, <1>2 DEF Counted
  <2> QED
    BY <2>2, <2>3 DEF MemoInv
<1> QED
  BY <1>1, <1>2, <1>3, <1>4

LEMMA CountKeeps ==
  ASSUME MemoInv, Count
  PROVE  MemoInv'
<1> DEFINE e == BySize[size][at]
           tt == table(e)
           csig == canon_of(tt)
<1>1. /\ size \in 1 .. MAX_SIZE /\ at \in 1 .. Len(BySize[size])
      /\ table_cache' = IF size < MAX_SIZE THEN Put(table_cache, e, tt) ELSE table_cache
      /\ canon_cache' = Put(canon_cache, tt, csig)
      /\ raw_counter' = Bump(raw_counter, tt)
      /\ IF at < Len(BySize[size]) THEN at' = at + 1 /\ size' = size ELSE at' = 1 /\ size' = size + 1
  <2>1. /\ size <= MAX_SIZE
        /\ table_cache' = IF size < MAX_SIZE THEN Put(table_cache, e, tt) ELSE table_cache
        /\ canon_cache' = Put(canon_cache, tt, csig)
        /\ raw_counter' = Bump(raw_counter, tt)
        /\ IF at < Len(BySize[size]) THEN at' = at + 1 /\ size' = size ELSE at' = 1 /\ size' = size + 1
    BY Zenon DEF Count
  <2>2. size \in 1 .. MAX_SIZE /\ at \in 1 .. Len(BySize[size])
    BY CountFinds
  <2> HIDE DEF e, tt, csig
  <2> QED
    BY <2>1, <2>2
<1>2. MAX_SIZE \in Nat \ {0} /\ size \in Nat /\ at \in Nat /\ Len(BySize[size]) \in Nat
  BY CountFinds
<1>3. e \in Leafs \cup Offspring(Kids(BySize, size))
  BY CountFinds
<1>4. \A c \in Kids(BySize, size) : c \in DOMAIN table_cache /\ table_cache[c] \in Table
  BY CountFinds
<1>5. tt \in Table
  BY <1>3, <1>4, TableIs
<1>6. csig = canonical(tt)
  BY DEF canon_of, MemoInv
<1> HIDE DEF e, tt, csig
<1>7. size' \in 1 .. MAX_SIZE + 1 /\ at' \in Nat \ {0} /\ (size' <= MAX_SIZE => at' <= Len(BySize[size']))
  <2>1. CASE at < Len(BySize[size])
    BY <1>1, <1>2, <2>1
  <2>2. CASE ~ (at < Len(BySize[size]))
    <3>1. at' = 1 /\ size' = size + 1
      BY <1>1, <2>2
    <3>2. size + 1 <= MAX_SIZE => Len(BySize[size + 1]) >= 1
      <4>1. size + 1 <= MAX_SIZE => size + 1 \in 1 .. MAX_SIZE
        BY <1>1, <1>2
      <4> QED
        BY <4>1, BySizeIs DEF Grown
    <3> QED
      BY <1>1, <1>2, <3>1, <3>2
  <2> QED
    BY <2>1, <2>2
<1>8. /\ DOMAIN canon_cache' = DOMAIN canon_cache \cup {tt}
      /\ \A j \in DOMAIN canon_cache' : canon_cache'[j] = IF j = tt THEN csig ELSE canon_cache[j]
  BY <1>1 DEF Put
<1>9. DOMAIN raw_counter' = DOMAIN raw_counter \cup {tt}
  BY <1>1 DEF Bump
<1>10. size < MAX_SIZE =>
         /\ DOMAIN table_cache' = DOMAIN table_cache \cup {e}
         /\ \A j \in DOMAIN table_cache' : table_cache'[j] = IF j = e THEN tt ELSE table_cache[j]
  BY <1>1 DEF Put
<1>11. ASSUME NEW s \in 1 .. MAX_SIZE - 1, NEW k \in 1 .. Len(BySize[s]), Counted(s, k)'
       PROVE  BySize[s][k] \in DOMAIN table_cache'
  <2>1. DOMAIN table_cache \subseteq DOMAIN table_cache'
    <3>1. CASE size < MAX_SIZE
      BY <1>10, <3>1
    <3>2. CASE ~ (size < MAX_SIZE)
      BY <1>1, <3>2
    <3> QED
      BY <3>1, <3>2
  <2>2. s < size' \/ (s = size' /\ k < at')
    BY <1>11 DEF Counted
  <2>3. Counted(s, k) \/ (s = size /\ k = at)
    <3>0. s \in Nat /\ k \in Nat
      OBVIOUS
    <3>1. CASE at < Len(BySize[size])
      BY <1>1, <1>2, <2>2, <3>0, <3>1 DEF Counted
    <3>2. CASE ~ (at < Len(BySize[size]))
      <4>1. at = Len(BySize[size]) /\ at' = 1 /\ size' = size + 1
        BY <1>1, <1>2, <3>2
      <4>2. ~ (s = size' /\ k < at')
        BY <3>0, <4>1
      <4>3. s < size + 1
        BY <2>2, <4>1, <4>2
      <4>4. s < size \/ s = size
        BY <1>2, <3>0, <4>3
      <4>5. s = size => k < at \/ k = at
        BY <1>2, <4>1
      <4> QED
        BY <4>4, <4>5 DEF Counted
    <3> QED
      BY <3>1, <3>2
  <2>4. CASE Counted(s, k)
    BY <2>1, <2>4 DEF MemoInv
  <2>5. CASE s = size /\ k = at
    <3>1. size < MAX_SIZE /\ BySize[s][k] = e
      BY <1>2, <2>5 DEF e
    <3> QED
      BY <1>10, <3>1
  <2> QED
    BY <2>3, <2>4, <2>5
<1>12. ASSUME NEW c \in DOMAIN table_cache' PROVE table_cache'[c] \in Table
  <2>1. \A d \in DOMAIN table_cache : table_cache[d] \in Table
    BY DEF MemoInv
  <2>2. CASE size < MAX_SIZE
    BY <1>5, <1>10, <2>1, <2>2
  <2>3. CASE ~ (size < MAX_SIZE)
    BY <1>1, <2>1, <2>3
  <2> QED
    BY <2>2, <2>3
<1>13. DOMAIN raw_counter' \subseteq DOMAIN canon_cache'
  BY <1>8, <1>9 DEF MemoInv
<1>14. ASSUME NEW t \in DOMAIN canon_cache' PROVE t \in Table /\ canon_cache'[t] = canonical(t)
  <2>1. \A r \in DOMAIN canon_cache : r \in Table /\ canon_cache[r] = canonical(r)
    BY DEF MemoInv
  <2> QED
    BY <1>5, <1>6, <1>8, <2>1
<1>15. MAX_SIZE' = MAX_SIZE /\ BySize' = BySize /\ Table' = Table
  OBVIOUS
<1> QED
  BY <1>7, <1>11, <1>12, <1>13, <1>14, <1>15 DEF MemoInv

LEMMA MemoNextKeeps ==
  ASSUME MemoInv, MemoNext \/ UNCHANGED memoVars
  PROVE  MemoInv'
<1>1. CASE Count
  BY <1>1, CountKeeps
<1>2. ASSUME UNCHANGED counted PROVE MemoInv'
  <2>1. /\ size' = size /\ at' = at /\ table_cache' = table_cache /\ canon_cache' = canon_cache
        /\ raw_counter' = raw_counter
    BY <1>2 DEF counted
  <2> QED
    BY <2>1 DEF MemoInv, Counted
<1>3. ~ Count => UNCHANGED counted
  BY DEF MemoNext, Report, Fallback, Down, Lookup, LookupRaises, LookedAll, memoVars, counted
<1> QED
  BY <1>1, <1>2, <1>3

LEMMA MemoInvSuffices == MemoInv => MemoExact
<1> SUFFICES ASSUME MemoInv PROVE MemoExact
  OBVIOUS
<1>1. ASSUME NEW tt \in DOMAIN raw_counter
      PROVE  /\ canon_cache[tt] \in {encode(t) : t \in Orbit(tt)}
             /\ \A t \in Orbit(tt) : canonical(t) = canon_cache[tt]
  <2>1. tt \in Table /\ canon_cache[tt] = canonical(tt)
    BY DEF MemoInv
  <2> QED
    BY <2>1, CanonicalSame
<1> QED
  BY <1>1, VariantsOne, FragOrbit DEF MemoExact

(* "Each path exists once", for trees of any size: two fragments have the  *)
(* same signature exactly when one is a free renaming of the other, and    *)
(* the script's own orbits come to one node each.                          *)
THEOREM MemoIsExact == Spec => []MemoExact
<1>1. Init => MemoInv
  BY MemoInitHolds DEF Init
<1>2. MemoInv /\ [Next]_scriptVars => MemoInv'
  <2> SUFFICES ASSUME MemoInv, [Next]_scriptVars PROVE MemoInv'
    OBVIOUS
  <2>1. MemoNext \/ UNCHANGED memoVars
    BY DEF Next, scriptVars
  <2> QED
    BY <2>1, MemoNextKeeps
<1>3. MemoInv => MemoExact
  BY MemoInvSuffices
<1> QED
  BY <1>1, <1>2, <1>3, PTL DEF Spec

-----------------------------------------------------------------------------
(* Sums and folds over finite sets.  What holds of a set as soon as it     *)
(* holds of the set without one of its elements holds of every finite set. *)
LEMMA SubsetClimb ==
  ASSUME NEW S, IsFiniteSet(S), NEW T,
         \A s \in SUBSET S : (\A x \in s : s \ {x} \in T) => s \in T
  PROVE  \A s \in SUBSET S : s \in T
<1> DEFINE n == Cardinality(S)
           N == {m \in 0 .. n : \A s \in SUBSET S : Cardinality(s) <= m => s \in T}
<1>1. n \in Nat
  BY FS_CardinalityType
<1>2. \A s \in SUBSET S : IsFiniteSet(s) /\ Cardinality(s) \in Nat /\ Cardinality(s) <= n
  BY FS_Subset, FS_CardinalityType
<1>3. \A s \in SUBSET S : \A x \in s : Cardinality(s \ {x}) = Cardinality(s) - 1
  BY <1>2, FS_RemoveElement
<1>4. \A s \in SUBSET S : Cardinality(s) = 0 => s = {}
  BY <1>2, FS_EmptySet
<1> HIDE DEF n
<1>5. 0 \in N
  <2> SUFFICES ASSUME NEW s \in SUBSET S, Cardinality(s) <= 0 PROVE s \in T
    BY <1>1
  <2>1. s = {}
    BY <1>2, <1>4
  <2> QED
    BY <2>1
<1>6. ASSUME NEW m \in 1 .. n, m - 1 \in N PROVE m \in N
  <2> SUFFICES ASSUME NEW s \in SUBSET S, Cardinality(s) <= m PROVE s \in T
    BY <1>1
  <2>1. ASSUME NEW x \in s PROVE s \ {x} \in T
    <3>1. s \ {x} \in SUBSET S /\ Cardinality(s \ {x}) <= m - 1
      BY <1>2, <1>3
    <3> QED
      BY <1>6, <3>1
  <2> QED
    BY <2>1
<1>7. n \in N
  <2> HIDE DEF N
  <2>1. \A m \in 0 .. n : m \in N
    BY <1>1, <1>5, <1>6, Climb
  <2> QED
    BY <1>1, <2>1
<1> QED
  BY <1>2, <1>7

(* The table of a fold: each subset from the one without its chosen        *)
(* element.  ch chooses, and st takes a step.                              *)
FoldsUp(S, base, ch, st, g) ==
  \A s \in SUBSET S : g[s] = IF s = {} THEN base ELSE st[<<ch[s], g[s \ {ch[s]}]>>]

LEMMA FoldExists ==
  ASSUME NEW S, IsFiniteSet(S), NEW V, NEW base \in V, NEW ch, NEW st \in [S \X V -> V],
         \A s \in SUBSET S : s # {} => ch[s] \in s
  PROVE  \E g \in [SUBSET S -> V] : FoldsUp(S, base, ch, st, g)
<1> DEFINE n == Cardinality(S)
           OfSize(m) == {s \in SUBSET S : Cardinality(s) <= m}
           Upto(m, g) == \A s \in OfSize(m) : g[s] = IF s = {} THEN base ELSE st[<<ch[s], g[s \ {ch[s]}]>>]
           N == {m \in 0 .. n : \E g \in [OfSize(m) -> V] : Upto(m, g)}
<1>1. n \in Nat
  BY FS_CardinalityType
<1>2. \A s \in SUBSET S : IsFiniteSet(s) /\ Cardinality(s) \in Nat /\ Cardinality(s) <= n
  BY FS_Subset, FS_CardinalityType
<1>3. \A s \in SUBSET S : \A x \in s : Cardinality(s \ {x}) = Cardinality(s) - 1
  BY <1>2, FS_RemoveElement
<1>4. \A s \in SUBSET S : Cardinality(s) = 0 <=> s = {}
  BY <1>2, FS_EmptySet
<1> HIDE DEF n
<1>5. 0 \in N
  <2> DEFINE g == [s \in OfSize(0) |-> base]
  <2>1. g \in [OfSize(0) -> V]
    OBVIOUS
  <2>2. \A s \in OfSize(0) : s = {}
    BY <1>2, <1>4
  <2>3. Upto(0, g)
    BY <2>2
  <2>4. 0 \in 0 .. n
    BY <1>1
  <2> HIDE DEF g, Upto, OfSize
  <2> QED
    BY <2>1, <2>3, <2>4
<1>6. ASSUME NEW m \in 1 .. n, m - 1 \in N PROVE m \in N
  <2>1. PICK g \in [OfSize(m - 1) -> V] : Upto(m - 1, g)
    BY <1>6
  <2>2. ASSUME NEW s \in OfSize(m), s # {}
        PROVE  ch[s] \in S /\ s \ {ch[s]} \in OfSize(m - 1) /\ st[<<ch[s], g[s \ {ch[s]}]>>] \in V
    <3>1. s \in SUBSET S /\ ch[s] \in s /\ Cardinality(s) <= m
      BY <2>2
    <3>2. s \ {ch[s]} \in SUBSET S /\ Cardinality(s \ {ch[s]}) <= m - 1
      BY <1>2, <1>3, <3>1
    <3>3. s \ {ch[s]} \in OfSize(m - 1) /\ ch[s] \in S
      BY <3>1, <3>2
    <3>4. g[s \ {ch[s]}] \in V
      BY <2>1, <3>3
    <3> QED
      BY <3>3, <3>4
  <2> DEFINE h == [s \in OfSize(m) |-> IF s = {} THEN base ELSE st[<<ch[s], g[s \ {ch[s]}]>>]]
  <2>3. h \in [OfSize(m) -> V]
    BY <2>2
  <2>4. \A s \in OfSize(m - 1) : s \in OfSize(m)
    BY <1>2
  <2>5. \A s \in OfSize(m - 1) : h[s] = g[s]
    BY <2>1, <2>4
  <2>6. ASSUME NEW s \in OfSize(m) PROVE h[s] = IF s = {} THEN base ELSE st[<<ch[s], h[s \ {ch[s]}]>>]
    <3>1. s # {} => h[s \ {ch[s]}] = g[s \ {ch[s]}]
      BY <2>2, <2>5
    <3> HIDE DEF OfSize
    <3>2. h[s] = IF s = {} THEN base ELSE st[<<ch[s], g[s \ {ch[s]}]>>]
      OBVIOUS
    <3> HIDE DEF h
    <3> QED
      BY <3>1, <3>2
  <2>7. Upto(m, h)
    BY <2>6
  <2>8. m \in 0 .. n
    BY <1>1
  <2> HIDE DEF h, Upto, OfSize
  <2> QED
    BY <2>3, <2>7, <2>8
<1>7. n \in N
  <2> HIDE DEF N
  <2>1. \A m \in 0 .. n : m \in N
    BY <1>1, <1>5, <1>6, Climb
  <2> QED
    BY <1>1, <2>1
<1>8. OfSize(n) = SUBSET S
  BY <1>2
<1>9. PICK g \in [OfSize(n) -> V] : Upto(n, g)
  BY <1>7
<1> HIDE DEF OfSize
<1> QED
  BY <1>8, <1>9 DEF FoldsUp

(* The sum of a counter over some keys, as CountersAgree takes it.         *)
SumOf(f, S) == MapThenSumSet(LAMBDA x : f[x], S)
Chosen(s) == CHOOSE x \in s : TRUE
Adding(f, S, g) ==
  [s \in SUBSET S |-> IF s = {} THEN 0 ELSE f[Chosen(s)] + g[s \ {Chosen(s)}]]
SumTable(f, S) == CHOOSE g : g = Adding(f, S, g)

LEMMA SumOfIs ==
  ASSUME NEW f, NEW S
  PROVE  SumOf(f, S) = SumTable(f, S)[S]
BY DEF SumOf, MapThenSumSet, MapThenFoldSet, SumTable, Adding, Chosen

LEMMA ChosenIn == \A s : s # {} => Chosen(s) \in s
<1> SUFFICES ASSUME NEW s, s # {} PROVE Chosen(s) \in s
  OBVIOUS
<1>1. \E x \in s : TRUE
  OBVIOUS
<1> QED
  BY <1>1, Zenon DEF Chosen

LEMMA SumTableIs ==
  ASSUME NEW S, IsFiniteSet(S), NEW f, \A x \in S : f[x] \in Int
  PROVE  /\ SumTable(f, S) = Adding(f, S, SumTable(f, S))
         /\ \A s \in SUBSET S : SumTable(f, S)[s] \in Int
<1> DEFINE ch == [s \in SUBSET S |-> Chosen(s)]
           st == [p \in S \X Int |-> f[p[1]] + p[2]]
           h == SumTable(f, S)
<1>1. \A s \in SUBSET S : s # {} => Chosen(s) \in s
  BY ChosenIn
<1>2. /\ st \in [S \X Int -> Int] /\ \A x \in S : \A v \in Int : st[<<x, v>>] = f[x] + v
      /\ \A s \in SUBSET S : ch[s] = Chosen(s)
  <2>1. \A p \in S \X Int : p[1] \in S /\ p[2] \in Int
    OBVIOUS
  <2>2. \A p \in S \X Int : f[p[1]] + p[2] \in Int
    BY <2>1
  <2> QED
    BY <2>2
<1> HIDE DEF ch, st, h
<1>3. PICK g \in [SUBSET S -> Int] : FoldsUp(S, 0, ch, st, g)
  <2>1. 0 \in Int /\ \A s \in SUBSET S : s # {} => ch[s] \in s
    BY <1>1, <1>2
  <2>2. \E g \in [SUBSET S -> Int] : FoldsUp(S, 0, ch, st, g)
    BY <1>2, <2>1, FoldExists
  <2> QED
    BY <2>2
<1>4. g = Adding(f, S, g)
  <2>1. ASSUME NEW s \in SUBSET S PROVE g[s] = IF s = {} THEN 0 ELSE f[Chosen(s)] + g[s \ {Chosen(s)}]
    <3>1. g[s] = IF s = {} THEN 0 ELSE st[<<Chosen(s), g[s \ {Chosen(s)}]>>]
      BY <1>2, <1>3 DEF FoldsUp
    <3>2. CASE s # {}
      <4>1. Chosen(s) \in S /\ s \ {Chosen(s)} \in SUBSET S
        BY <1>1, <3>2
      <4>2. g[s \ {Chosen(s)}] \in Int
        BY <1>3, <4>1
      <4>3. st[<<Chosen(s), g[s \ {Chosen(s)}]>>] = f[Chosen(s)] + g[s \ {Chosen(s)}]
        BY <1>2, <4>1, <4>2
      <4> QED
        BY <3>1, <3>2, <4>3
    <3> QED
      BY <3>1, <3>2
  <2>2. g = [s \in SUBSET S |-> g[s]]
    BY <1>3
  <2> QED
    BY <2>1, <2>2 DEF Adding
<1>5. h = Adding(f, S, h)
  <2>1. \E x : x = Adding(f, S, x)
    BY <1>4
  <2> QED
    BY <2>1, Zenon DEF h, SumTable
<1>6. \A s \in SUBSET S : h[s] = IF s = {} THEN 0 ELSE f[Chosen(s)] + h[s \ {Chosen(s)}]
  BY <1>5 DEF Adding
<1> DEFINE T == {s \in SUBSET S : h[s] \in Int}
<1>7. ASSUME NEW s \in SUBSET S, \A x \in s : s \ {x} \in T PROVE s \in T
  <2>1. CASE s = {}
    <3>1. h[s] = 0
      BY <1>6, <2>1
    <3> QED
      BY <3>1
  <2>2. CASE s # {}
    <3>1. Chosen(s) \in s
      BY <1>1, <2>2
    <3>2. f[Chosen(s)] \in Int /\ h[s \ {Chosen(s)}] \in Int
      BY <1>7, <3>1
    <3>3. h[s] = f[Chosen(s)] + h[s \ {Chosen(s)}]
      BY <1>6, <2>2
    <3> QED
      BY <3>2, <3>3
  <2> QED
    BY <2>1, <2>2
<1>8. \A s \in SUBSET S : s \in T
  <2> HIDE DEF T
  <2> QED
    BY <1>7, SubsetClimb
<1> QED
  BY <1>5, <1>8 DEF h

(* Sums of counters that agree on the keys are the same, whatever else     *)
(* their tables hold.                                                      *)
LEMMA TablesAgree ==
  ASSUME NEW R, IsFiniteSet(R), NEW S, NEW f, \A x \in R : f[x] \in Int,
         NEW g, \A x \in S : g[x] = f[x], S \subseteq R
  PROVE  SumTable(f, R)[S] = SumTable(g, S)[S]
<1>1. IsFiniteSet(S) /\ \A x \in S : g[x] \in Int
  BY FS_Subset
<1> DEFINE h == SumTable(f, R)
           k == SumTable(g, S)
<1>2. h = Adding(f, R, h) /\ k = Adding(g, S, k)
  BY <1>1, SumTableIs
<1> HIDE DEF h, k
<1>3. \A s \in SUBSET S : /\ h[s] = IF s = {} THEN 0 ELSE f[Chosen(s)] + h[s \ {Chosen(s)}]
                          /\ k[s] = IF s = {} THEN 0 ELSE g[Chosen(s)] + k[s \ {Chosen(s)}]
  BY <1>2 DEF Adding
<1> DEFINE T == {s \in SUBSET S : h[s] = k[s]}
<1>4. ASSUME NEW s \in SUBSET S, \A x \in s : s \ {x} \in T PROVE s \in T
  <2>1. CASE s = {}
    BY <1>3, <2>1
  <2>2. CASE s # {}
    <3>1. Chosen(s) \in s
      BY <2>2, ChosenIn
    <3>2. h[s \ {Chosen(s)}] = k[s \ {Chosen(s)}] /\ f[Chosen(s)] = g[Chosen(s)]
      BY <1>4, <3>1
    <3> QED
      BY <1>3, <2>2, <3>2
  <2> QED
    BY <2>1, <2>2
<1>5. S \in T
  <2> HIDE DEF T
  <2> QED
    BY <1>1, <1>4, SubsetClimb
<1> QED
  BY <1>5 DEF h, k

LEMMA SumSame ==
  ASSUME NEW S, IsFiniteSet(S), NEW f, \A x \in S : f[x] \in Int, NEW g, \A x \in S : g[x] = f[x]
  PROVE  SumOf(f, S) = SumOf(g, S)
BY TablesAgree, SumOfIs

LEMMA SumSteps ==
  ASSUME NEW S, IsFiniteSet(S), NEW f, \A x \in S : f[x] \in Int
  PROVE  /\ SumOf(f, S) \in Int
         /\ S = {} => SumOf(f, S) = 0
         /\ S # {} => SumOf(f, S) = f[Chosen(S)] + SumOf(f, S \ {Chosen(S)})
<1> DEFINE h == SumTable(f, S)
<1>1. h = Adding(f, S, h) /\ h[S] \in Int
  BY SumTableIs
<1> HIDE DEF h
<1>2. h[S] = IF S = {} THEN 0 ELSE f[Chosen(S)] + h[S \ {Chosen(S)}]
  BY <1>1 DEF Adding
<1>3. SumOf(f, S) = h[S]
  BY SumOfIs DEF h
<1>4. h[S \ {Chosen(S)}] = SumOf(f, S \ {Chosen(S)})
  BY TablesAgree, SumOfIs DEF h
<1> QED
  BY <1>1, <1>2, <1>3, <1>4

(* One key may be taken out of a sum, whichever it is.                     *)
LEMMA SumWithout ==
  ASSUME NEW S, IsFiniteSet(S), NEW f, \A x \in S : f[x] \in Int, NEW x \in S
  PROVE  SumOf(f, S) = f[x] + SumOf(f, S \ {x})
<1> DEFINE T == {s \in SUBSET S : \A y \in s : SumOf(f, s) = f[y] + SumOf(f, s \ {y})}
<1>1. \A s \in SUBSET S : IsFiniteSet(s) /\ (\A y \in s : f[y] \in Int)
  BY FS_Subset
<1>2. ASSUME NEW s \in SUBSET S, \A y \in s : s \ {y} \in T, NEW y \in s
      PROVE  SumOf(f, s) = f[y] + SumOf(f, s \ {y})
  <2> DEFINE z == Chosen(s)
             r == s \ {y, z}
  <2>1. z \in s /\ SumOf(f, s) = f[z] + SumOf(f, s \ {z})
    BY <1>1, <1>2, ChosenIn, SumSteps
  <2> HIDE DEF z
  <2>2. CASE y = z
    BY <2>1, <2>2
  <2>3. CASE y # z
    <3>1. y \in s \ {z} /\ (s \ {z}) \ {y} = r /\ z \in s \ {y} /\ (s \ {y}) \ {z} = r
      BY <1>2, <2>1, <2>3
    <3>2. SumOf(f, s \ {z}) = f[y] + SumOf(f, r)
      BY <1>2, <2>1, <3>1
    <3>3. SumOf(f, s \ {y}) = f[z] + SumOf(f, r)
      BY <1>2, <3>1
    <3>4. SumOf(f, r) \in Int
      <4>1. r \in SUBSET S
        OBVIOUS
      <4> HIDE DEF r
      <4> QED
        BY <1>1, <4>1, SumSteps
    <3>5. f[y] \in Int /\ f[z] \in Int
      BY <1>1, <1>2, <2>1
    <3> HIDE DEF r
    <3> QED
      BY <2>1, <3>2, <3>3, <3>4, <3>5
  <2> QED
    BY <2>2, <2>3
<1>3. S \in T
  <2>1. ASSUME NEW s \in SUBSET S, \A y \in s : s \ {y} \in T PROVE s \in T
    BY <1>2, <2>1
  <2> HIDE DEF T
  <2>2. \A s \in SUBSET S : s \in T
    BY <2>1, SubsetClimb
  <2> QED
    BY <2>2
<1> QED
  BY <1>3

-----------------------------------------------------------------------------
(* What a counter comes to when one of its keys is counted.                *)
Tally(c) == c \in [DOMAIN c -> Nat]

LEMMA BumpIs ==
  ASSUME NEW c, Tally(c), NEW k
  PROVE  /\ Tally(Bump(c, k)) /\ DOMAIN Bump(c, k) = DOMAIN c \cup {k}
         /\ \A j \in DOMAIN c \ {k} : Bump(c, k)[j] = c[j]
         /\ Bump(c, k)[k] = (IF k \in DOMAIN c THEN c[k] ELSE 0) + 1
<1> DEFINE b == Bump(c, k)
<1>1. b = [j \in DOMAIN c \cup {k} |->
             (IF j \in DOMAIN c THEN c[j] ELSE 0) + (IF j = k THEN 1 ELSE 0)]
  BY DEF Bump
<1>2. \A j \in DOMAIN c : c[j] \in Nat
  BY DEF Tally
<1> HIDE DEF b
<1>3. DOMAIN b = DOMAIN c \cup {k}
  BY <1>1
<1>4. \A j \in DOMAIN c \cup {k} :
        b[j] = (IF j \in DOMAIN c THEN c[j] ELSE 0) + (IF j = k THEN 1 ELSE 0)
  BY <1>1
<1>5. \A j \in DOMAIN c \ {k} : b[j] = c[j]
  BY <1>2, <1>4
<1>6. b[k] = (IF k \in DOMAIN c THEN c[k] ELSE 0) + 1
  BY <1>4
<1>7. \A j \in DOMAIN b : b[j] \in Nat
  BY <1>2, <1>3, <1>5, <1>6
<1>8. b = [j \in DOMAIN b |-> b[j]]
  BY <1>1
<1>9. Tally(b)
  BY <1>7, <1>8 DEF Tally
<1> QED
  BY <1>3, <1>5, <1>6, <1>9 DEF b

LEMMA SumOther ==
  ASSUME NEW c, Tally(c), NEW S, IsFiniteSet(S), S \subseteq DOMAIN c, NEW k, k \notin S
  PROVE  SumOf(Bump(c, k), S) = SumOf(c, S)
<1>1. ASSUME NEW x \in S PROVE c[x] \in Int /\ Bump(c, k)[x] = c[x]
  <2>1. x \in DOMAIN c \ {k}
    OBVIOUS
  <2>2. \A j \in DOMAIN c \ {k} : Bump(c, k)[j] = c[j]
    BY BumpIs
  <2>3. c[x] \in Int
    BY <2>1 DEF Tally
  <2> QED
    BY <2>1, <2>2, <2>3
<1> QED
  BY <1>1, SumSame

LEMMA SumBump ==
  ASSUME NEW c, Tally(c), NEW S, IsFiniteSet(S), S \subseteq DOMAIN c, NEW k, k \in DOMAIN c => k \in S
  PROVE  SumOf(Bump(c, k), S \cup {k}) = SumOf(c, S) + 1
<1> DEFINE b == Bump(c, k)
           R == S \ {k}
<1>1. /\ Tally(b) /\ DOMAIN b = DOMAIN c \cup {k} /\ (\A j \in DOMAIN c \ {k} : b[j] = c[j])
      /\ b[k] = (IF k \in DOMAIN c THEN c[k] ELSE 0) + 1
  BY BumpIs
<1> HIDE DEF b
<1>2. /\ IsFiniteSet(S \cup {k}) /\ k \in S \cup {k} /\ (S \cup {k}) \ {k} = R
      /\ \A x \in S \cup {k} : b[x] \in Int
  BY <1>1, FS_AddElement DEF Tally
<1>3. SumOf(b, S \cup {k}) = b[k] + SumOf(b, R)
  BY <1>2, SumWithout
<1>4. IsFiniteSet(R) /\ (\A x \in R : c[x] \in Int /\ b[x] = c[x])
  BY <1>1, FS_Subset DEF Tally
<1> HIDE DEF R
<1>5. SumOf(b, R) = SumOf(c, R) /\ SumOf(c, R) \in Int
  BY <1>4, SumSame, SumSteps
<1>6. CASE k \in S
  <2>1. c[k] \in Int /\ \A x \in S : c[x] \in Int
    BY <1>6 DEF Tally
  <2>2. SumOf(c, S) = c[k] + SumOf(c, R)
    BY <1>6, <2>1, SumWithout DEF R
  <2>3. b[k] = c[k] + 1
    BY <1>1, <1>6
  <2> QED
    BY <1>3, <1>5, <2>1, <2>2, <2>3 DEF b
<1>7. CASE k \notin S
  <2>1. R = S /\ b[k] = 1
    BY <1>1, <1>7 DEF R
  <2> QED
    BY <1>3, <1>5, <2>1 DEF b
<1> QED
  BY <1>6, <1>7

(* Tables are told apart by their keys; those of one signature are         *)
(* renamings of each other.                                                *)
LEMMA EncodeApart ==
  ASSUME NEW s \in Table, NEW t \in Table, encode(s) = encode(t)
  PROVE  s = t
<1>1. \A i \in 1 .. 9 : s[i] \in Int /\ t[i] \in Int /\ s[i] + 1 = t[i] + 1
  BY DEF Table, encode
<1> QED
  BY <1>1 DEF Table

LEMMA SameOrbit ==
  ASSUME NEW s \in Table, NEW t \in Table, canonical(s) = canonical(t)
  PROVE  s \in Orbit(t)
<1>1. PICK p \in Orbit(s) : canonical(s) = encode(p)
  BY CanonicalSame
<1>2. PICK q \in Orbit(t) : canonical(t) = encode(q)
  BY CanonicalSame
<1>3. p \in Table /\ q \in Table /\ Orbit(p) = Orbit(s) /\ Orbit(q) = Orbit(t)
  BY OrbitSame
<1>4. p = q
  BY <1>1, <1>2, <1>3, EncodeApart
<1>5. s \in Orbit(s)
  BY OrbitSelf
<1> QED
  BY <1>3, <1>4, <1>5

(* A table with its inputs swapped, and the signature that minds nothing   *)
(* but their order.                                                        *)
Swap2(tt) == flatten(transpose(matrix(tt)))

LEMMA Swap2Is ==
  ASSUME NEW tt \in Table
  PROVE  Swap2(tt) \in Orbit(tt) /\ Swap2(tt) \in Table /\ Swap2(Swap2(tt)) = tt
<1>1. 1 \in Signs /\ 1 \in Ways /\ Turn(1, 1) = 1
  BY SignsAre, TurnIs DEF Ways
<1>2. \A t \in Table : Swap2(t) = Renamed(t, 1, 1, 1, 1)
  BY <1>1, FirstMoves, ShownIs DEF Swap2
<1>3. \A t \in Table : Swap2(t) \in Orbit(t)
  BY <1>1, <1>2, InOrbit
<1>4. Swap2(tt) \in Table
  BY <1>3, OrbitSame
<1>5. Renamed(Renamed(tt, 1, 1, 1, 1), 1, 1, 1, 1) = Renamed(tt, 1 - 1, Turn(1, 1), Turn(1, 1), Turn(1, 1))
  BY <1>1, ThenSwapped
<1>6. Renamed(tt, 0, 1, 1, 1) = tt
  BY OrbitSelf
<1>7. Swap2(Swap2(tt)) = tt
  BY <1>1, <1>2, <1>4, <1>5, <1>6
<1> QED
  BY <1>3, <1>4, <1>7

LEMMA PermIs ==
  ASSUME NEW tt \in Table
  PROVE  canonical_perm(tt) = encode(tt) \/ canonical_perm(tt) = encode(Swap2(tt))
<1> DEFINE K == {encode(tt), encode(Swap2(tt))}
<1>1. canonical_perm(tt) = LeastKey(K)
  BY DEF canonical_perm, Swap2
<1>2. K \subseteq Key9 /\ K # {}
  BY Encoded, Swap2Is
<1>3. canonical_perm(tt) \in K
  <2> HIDE DEF K
  <2> QED
    BY <1>1, <1>2, LeastIn
<1> QED
  BY <1>3

LEMMA PermTells ==
  ASSUME NEW s \in Table, NEW t \in Table, canonical_perm(s) = canonical_perm(t)
  PROVE  canonical(s) = canonical(t)
<1>1. \A r \in Table : \E q \in Orbit(r) : canonical_perm(r) = encode(q)
  BY PermIs, Swap2Is, OrbitSelf
<1>2. PICK p \in Orbit(s) : canonical_perm(s) = encode(p)
  BY <1>1
<1>3. PICK q \in Orbit(t) : canonical_perm(t) = encode(q)
  BY <1>1
<1>4. p \in Table /\ q \in Table
  BY OrbitSame
<1>5. p = q
  BY <1>2, <1>3, <1>4, EncodeApart
<1>6. canonical(p) = canonical(s) /\ canonical(q) = canonical(t)
  BY CanonicalSame
<1> QED
  BY <1>5, <1>6

LEMMA PairsAre ==
  /\ IsFiniteSet({-1, 1}) /\ Cardinality({-1, 1}) = 2
  /\ IsFiniteSet({0, 1}) /\ Cardinality({0, 1}) = 2
<1>1. ASSUME NEW a, NEW b, a # b PROVE IsFiniteSet({a, b}) /\ Cardinality({a, b}) = 2
  <2>1. IsFiniteSet({a}) /\ Cardinality({a}) = 1 /\ b \notin {a} /\ {a} \cup {b} = {a, b}
    BY <1>1, FS_Singleton
  <2>2. /\ IsFiniteSet({a} \cup {b})
        /\ Cardinality({a} \cup {b}) = IF b \in {a} THEN Cardinality({a}) ELSE Cardinality({a}) + 1
    BY <2>1, FS_AddElement
  <2> QED
    BY <2>1, <2>2
<1>2. -1 # 1 /\ 0 # 1
  OBVIOUS
<1>3. IsFiniteSet({-1, 1}) /\ Cardinality({-1, 1}) = 2
  BY <1>1, <1>2
<1>4. IsFiniteSet({0, 1}) /\ Cardinality({0, 1}) = 2
  BY <1>1, <1>2
<1> QED
  BY <1>3, <1>4

(* There are sixteen ways to rename, so no more than sixteen tables.       *)
LEMMA OrbitSmall ==
  ASSUME NEW tt \in Table
  PROVE  IsFiniteSet(Orbit(tt)) /\ Cardinality(Orbit(tt)) <= 16
<1> DEFINE P == Ways \X Signs
           Q == Signs \X Signs
           f == [p \in P \X Q |-> Renamed(tt, p[1][1], p[1][2], p[2][1], p[2][2])]
<1>1. /\ IsFiniteSet(Ways) /\ Cardinality(Ways) = 2
      /\ IsFiniteSet(Signs) /\ Cardinality(Signs) = 2
  <2>1. Ways = {0, 1} /\ Signs = {-1, 1}
    BY DEF Ways, Signs
  <2> QED
    BY <2>1, PairsAre
<1>2. IsFiniteSet(P) /\ Cardinality(P) = 4
  BY <1>1, FS_Product
<1>3. IsFiniteSet(Q) /\ Cardinality(Q) = 4
  BY <1>1, FS_Product
<1>4. IsFiniteSet(P \X Q) /\ Cardinality(P \X Q) = 16
  <2> HIDE DEF P, Q
  <2>1. Cardinality(P \X Q) = Cardinality(P) * Cardinality(Q) /\ IsFiniteSet(P \X Q)
    BY <1>2, <1>3, FS_Product
  <2> QED
    BY <1>2, <1>3, <2>1
<1>5. ASSUME NEW p \in P \X Q PROVE f[p] \in Orbit(tt)
  <2>1. p[1][1] \in Ways /\ p[1][2] \in Signs /\ p[2][1] \in Signs /\ p[2][2] \in Signs
    OBVIOUS
  <2> QED
    BY <2>1, InOrbit
<1>6. ASSUME NEW t \in Orbit(tt) PROVE \E p \in P \X Q : f[p] = t
  <2>1. PICK way \in Ways, u \in Signs, v \in Signs, o \in Signs : t = Renamed(tt, way, u, v, o)
    BY InOrbit
  <2>2. <<<<way, u>>, <<v, o>>>> \in P \X Q
    OBVIOUS
  <2>3. f[<<<<way, u>>, <<v, o>>>>] = Renamed(tt, way, u, v, o)
    BY <2>2
  <2> QED
    BY <2>1, <2>2, <2>3
<1>7. f \in Surjection(P \X Q, Orbit(tt))
  <2>1. f \in [P \X Q -> Orbit(tt)]
    BY <1>5
  <2> HIDE DEF f, P, Q
  <2> QED
    BY <1>6, <2>1 DEF Surjection
<1>8. IsFiniteSet(Orbit(tt)) /\ Cardinality(Orbit(tt)) <= Cardinality(P \X Q)
  <2> HIDE DEF f, P, Q
  <2> QED
    BY <1>4, <1>7, FS_Surjection
<1> QED
  BY <1>4, <1>8

(* Tables of one signature: at most sixteen, and at most two for each      *)
(* signature of theirs that minds only the order.                          *)
LEMMA FewTables ==
  ASSUME NEW R, R \subseteq Table, \A s, t \in R : canonical(s) = canonical(t)
  PROVE  /\ IsFiniteSet(R) /\ Cardinality(R) <= 16
         /\ IsFiniteSet({canonical_perm(t) : t \in R})
         /\ Cardinality(R) <= 2 * Cardinality({canonical_perm(t) : t \in R})
<1>1. IsFiniteSet(R) /\ Cardinality(R) <= 16
  <2>1. CASE R = {}
    BY <2>1, FS_EmptySet
  <2>2. CASE R # {}
    <3>1. PICK t \in R : TRUE
      BY <2>2
    <3>2. R \in SUBSET Orbit(t)
      BY <3>1, SameOrbit
    <3>3. IsFiniteSet(R) /\ Cardinality(R) <= Cardinality(Orbit(t)) /\ Cardinality(Orbit(t)) <= 16
      BY <3>1, <3>2, OrbitSmall, FS_Subset
    <3>4. Cardinality(R) \in Nat /\ Cardinality(Orbit(t)) \in Nat
      BY <3>1, <3>3, OrbitSmall, FS_CardinalityType
    <3> QED
      BY <3>3, <3>4
  <2> QED
    BY <2>1, <2>2
<1> DEFINE P == {canonical_perm(t) : t \in R}
           f == [t \in R |-> <<canonical_perm(t), IF canonical_perm(t) = encode(t) THEN 0 ELSE 1>>]
           g == [t \in R |-> canonical_perm(t)]
<1>2. IsFiniteSet(P)
  <2>1. g \in Surjection(R, P)
    BY DEF Surjection
  <2> HIDE DEF g, P
  <2> QED
    BY <1>1, <2>1, FS_Surjection
<1>3. IsFiniteSet(P \X {0, 1}) /\ Cardinality(P \X {0, 1}) = Cardinality(P) * 2
  <2> HIDE DEF P
  <2> QED
    BY <1>2, PairsAre, FS_Product
<1>4. ASSUME NEW s \in R, NEW t \in R, f[s] = f[t] PROVE s = t
  <2>1. s \in Table /\ t \in Table
    OBVIOUS
  <2>2. /\ canonical_perm(s) = canonical_perm(t)
        /\ canonical_perm(s) = encode(s) <=> canonical_perm(t) = encode(t)
    <3>1. /\ f[s][1] = canonical_perm(s) /\ f[t][1] = canonical_perm(t)
          /\ f[s][2] = IF canonical_perm(s) = encode(s) THEN 0 ELSE 1
          /\ f[t][2] = IF canonical_perm(t) = encode(t) THEN 0 ELSE 1
      OBVIOUS
    <3> HIDE DEF f
    <3> QED
      BY <1>4, <3>1
  <2>3. CASE canonical_perm(s) = encode(s)
    BY <2>1, <2>2, <2>3, EncodeApart
  <2>4. CASE canonical_perm(s) # encode(s)
    <3>1. encode(Swap2(s)) = encode(Swap2(t))
      BY <2>1, <2>2, <2>4, PermIs
    <3>2. Swap2(s) = Swap2(t)
      BY <2>1, <3>1, Swap2Is, EncodeApart
    <3> QED
      BY <2>1, <3>2, Swap2Is
  <2> QED
    BY <2>3, <2>4
<1>5. f \in Injection(R, P \X {0, 1})
  <2>1. f \in [R -> P \X {0, 1}]
    OBVIOUS
  <2>2. \A s, t \in R : f[s] = f[t] => s = t
    <3> HIDE DEF f
    <3> QED
      BY <1>4
  <2> HIDE DEF f, P
  <2> QED
    BY <2>1, <2>2 DEF Injection, IsInjective
<1>6. Cardinality(R) <= Cardinality(P \X {0, 1})
  <2> HIDE DEF f, P
  <2> QED
    BY <1>3, <1>5, FS_Injection
<1>7. Cardinality(P) \in Nat
  <2> HIDE DEF P
  <2> QED
    BY <1>2, FS_CardinalityType
<1> HIDE DEF P
<1>8. Cardinality(R) <= 2 * Cardinality(P)
  BY <1>3, <1>6, <1>7
<1> QED
  BY <1>1, <1>2, <1>8 DEF P

(* Filing the children of a tree under its signature keeps the edges       *)
(* between known signatures.                                               *)
EdgesAmong(K) == UNION {[D -> Nat] : D \in SUBSET (K \X K)}
Latest(s) == CHOOSE x \in s : \A y \in s : x >= y
Filing(csig, E, kids, g) ==
  [s \in SUBSET DOMAIN kids |->
     IF s = {} THEN E ELSE Bump(g[s \ {Latest(s)}], <<csig, ChildSig(kids[Latest(s)])>>)]
Filed(csig, E, kids) == CHOOSE g : g = Filing(csig, E, kids, g)

LEMMA EdgesAre ==
  ASSUME NEW K, NEW E
  PROVE  E \in EdgesAmong(K) <=> Tally(E) /\ DOMAIN E \subseteq K \X K
<1>1. ASSUME E \in EdgesAmong(K) PROVE Tally(E) /\ DOMAIN E \subseteq K \X K
  <2>1. PICK D \in SUBSET (K \X K) : E \in [D -> Nat]
    BY <1>1 DEF EdgesAmong
  <2> QED
    BY <2>1 DEF Tally
<1>2. ASSUME Tally(E), DOMAIN E \subseteq K \X K PROVE E \in EdgesAmong(K)
  BY <1>2 DEF Tally, EdgesAmong
<1> QED
  BY <1>1, <1>2

LEMMA LatestIn ==
  ASSUME NEW n \in Nat, NEW s \in SUBSET (1 .. n), s # {}
  PROVE  Latest(s) \in s
<1> DEFINE N == {n - x : x \in s}
<1>1. N \subseteq Nat /\ N # {}
  <2>1. \A x \in s : x \in 1 .. n
    OBVIOUS
  <2>2. \A x \in 1 .. n : n - x \in Nat
    OBVIOUS
  <2>3. N \subseteq Nat
    BY <2>1, <2>2
  <2>4. PICK x \in s : TRUE
    OBVIOUS
  <2>5. n - x \in N
    OBVIOUS
  <2> QED
    BY <2>3, <2>5
<1>2. PICK m \in N : \A k \in N : m <= k
  <2> HIDE DEF N
  <2> QED
    BY <1>1, LeastOne
<1>3. PICK x \in s : m = n - x
  OBVIOUS
<1>4. ASSUME NEW y \in s PROVE x >= y
  <2>1. n - y \in N
    OBVIOUS
  <2>2. n - x <= n - y
    <3> HIDE DEF N
    <3> QED
      BY <1>2, <1>3, <2>1
  <2>3. x \in Int /\ y \in Int
    OBVIOUS
  <2> QED
    BY <2>2, <2>3
<1>5. \E z \in s : \A y \in s : z >= y
  BY <1>4
<1> QED
  BY <1>5, Zenon DEF Latest

LEMMA FiledAmong ==
  ASSUME NEW K, NEW csig \in K, NEW E \in EdgesAmong(K), NEW kids, NEW n \in Nat, DOMAIN kids = 1 .. n,
         \A i \in 1 .. n : ChildSig(kids[i]) \in K
  PROVE  Filed(csig, E, kids)[DOMAIN kids] \in EdgesAmong(K)
<1> DEFINE D == DOMAIN kids
           V == EdgesAmong(K)
           ch == [s \in SUBSET D |-> Latest(s)]
           st == [p \in D \X V |-> Bump(p[2], <<csig, ChildSig(kids[p[1]])>>)]
           h == Filed(csig, E, kids)
<1>1. IsFiniteSet(D)
  BY FS_Interval
<1>2. \A s \in SUBSET D : s # {} => Latest(s) \in s
  BY LatestIn
<1>3. ASSUME NEW i \in D, NEW F \in V PROVE Bump(F, <<csig, ChildSig(kids[i])>>) \in V
  <2> DEFINE k == <<csig, ChildSig(kids[i])>>
  <2>1. k \in K \X K
    OBVIOUS
  <2> HIDE DEF k
  <2>2. Tally(F) /\ DOMAIN F \subseteq K \X K
    BY EdgesAre
  <2>3. Tally(Bump(F, k)) /\ DOMAIN Bump(F, k) = DOMAIN F \cup {k}
    BY <2>2, BumpIs
  <2>4. DOMAIN Bump(F, k) \subseteq K \X K
    BY <2>1, <2>2, <2>3
  <2> QED
    BY <2>3, <2>4, EdgesAre DEF k
<1> HIDE DEF V
<1>4. /\ st \in [D \X V -> V]
      /\ \A i \in D : \A F \in V : st[<<i, F>>] = Bump(F, <<csig, ChildSig(kids[i])>>)
  <2>1. \A p \in D \X V : p[1] \in D /\ p[2] \in V
    OBVIOUS
  <2>2. \A p \in D \X V : Bump(p[2], <<csig, ChildSig(kids[p[1]])>>) \in V
    BY <1>3, <2>1
  <2> HIDE DEF D
  <2> QED
    BY <2>2
<1>5. \A s \in SUBSET D : ch[s] = Latest(s)
  OBVIOUS
<1>6. E \in V
  BY DEF V
<1> HIDE DEF D, ch, st, h
<1>7. PICK g \in [SUBSET D -> V] : FoldsUp(D, E, ch, st, g)
  <2>1. \A s \in SUBSET D : s # {} => ch[s] \in s
    BY <1>2, <1>5
  <2>2. \E g \in [SUBSET D -> V] : FoldsUp(D, E, ch, st, g)
    BY <1>1, <1>4, <1>6, <2>1, FoldExists
  <2> QED
    BY <2>2
<1>8. g = Filing(csig, E, kids, g)
  <2>1. ASSUME NEW s \in SUBSET D
        PROVE  g[s] = IF s = {} THEN E ELSE Bump(g[s \ {Latest(s)}], <<csig, ChildSig(kids[Latest(s)])>>)
    <3>1. g[s] = IF s = {} THEN E ELSE st[<<Latest(s), g[s \ {Latest(s)}]>>]
      BY <1>5, <1>7 DEF FoldsUp
    <3>2. CASE s # {}
      <4>1. Latest(s) \in D /\ s \ {Latest(s)} \in SUBSET D
        BY <1>2, <3>2
      <4>2. g[s \ {Latest(s)}] \in V
        BY <1>7, <4>1
      <4>3. st[<<Latest(s), g[s \ {Latest(s)}]>>] = Bump(g[s \ {Latest(s)}], <<csig, ChildSig(kids[Latest(s)])>>)
        BY <1>4, <4>1, <4>2
      <4> QED
        BY <3>1, <3>2, <4>3
    <3> QED
      BY <3>1, <3>2
  <2>2. g = [s \in SUBSET D |-> g[s]]
    BY <1>7
  <2> QED
    BY <2>1, <2>2 DEF Filing, D
<1>9. h = Filing(csig, E, kids, h)
  <2>1. \E x : x = Filing(csig, E, kids, x)
    BY <1>8
  <2> QED
    BY <2>1, Zenon DEF h, Filed
<1>10. \A s \in SUBSET D :
         h[s] = IF s = {} THEN E ELSE Bump(h[s \ {Latest(s)}], <<csig, ChildSig(kids[Latest(s)])>>)
  BY <1>9 DEF Filing, D
<1> DEFINE T == {s \in SUBSET D : h[s] \in V}
<1>11. ASSUME NEW s \in SUBSET D, \A x \in s : s \ {x} \in T PROVE s \in T
  <2>1. CASE s = {}
    <3>1. h[s] = E
      BY <1>10, <2>1
    <3> QED
      BY <1>6, <3>1
  <2>2. CASE s # {}
    <3>1. Latest(s) \in s
      BY <1>2, <2>2
    <3>2. h[s \ {Latest(s)}] \in V /\ Latest(s) \in D
      BY <1>11, <3>1
    <3>3. h[s] = Bump(h[s \ {Latest(s)}], <<csig, ChildSig(kids[Latest(s)])>>)
      BY <1>10, <2>2
    <3>4. h[s] \in V
      BY <1>3, <3>2, <3>3
    <3> QED
      BY <3>4
  <2> QED
    BY <2>1, <2>2
<1>12. h[D] \in V
  <2> HIDE DEF T
  <2>1. \A s \in SUBSET D : s \in T
    BY <1>1, <1>11, SubsetClimb
  <2>2. D \in T
    BY <2>1
  <2> QED
    BY <2>2 DEF T
<1> QED
  BY <1>12 DEF h, D, V

LEMMA ChildrenIn ==
  ASSUME NEW K, NEW e \in Leafs \cup Offspring(K)
  PROVE  \E n \in Nat : DOMAIN Children(e) = 1 .. n /\ \A i \in 1 .. n : Children(e)[i] \in K
<1>1. CASE e \in Leafs
  <2>1. PICK leaf \in Leaves1 : e = <<leaf>>
    BY <1>1 DEF Leafs
  <2>2. Children(e) = <<>>
    BY <2>1 DEF Children
  <2>3. DOMAIN Children(e) = 1 .. 0 /\ \A i \in 1 .. 0 : Children(e)[i] \in K
    BY <2>2
  <2> QED
    BY <2>3
<1>2. CASE e \in Unaries(K)
  <2>1. PICK cell \in Cells1, c \in K : e = <<cell, c>>
    BY <1>2 DEF Unaries
  <2>2. Children(e) = <<c>>
    BY <2>1 DEF Children
  <2>3. DOMAIN Children(e) = 1 .. 1 /\ \A i \in 1 .. 1 : Children(e)[i] \in K
    BY <2>2
  <2> QED
    BY <2>3
<1>3. CASE e \in Binaries(K)
  <2>1. PICK cell \in Cells2, c \in K, d \in K : e = <<cell, c, d>>
    BY <1>3 DEF Binaries
  <2>2. Children(e) = <<c, d>>
    BY <2>1 DEF Children
  <2>3. DOMAIN Children(e) = 1 .. 2 /\ \A i \in 1 .. 2 : Children(e)[i] \in K
    BY <2>2
  <2> QED
    BY <2>3
<1> QED
  BY <1>1, <1>2, <1>3 DEF Offspring

(* What counting it does, with the tree, its table and its signature.      *)
LEMMA CountTakes ==
  ASSUME MemoInv, Count
  PROVE  LET e == BySize[size][at]
         IN  /\ table(e) \in Table /\ canon_of(table(e)) = canonical(table(e))
             /\ table_cache' = IF size < MAX_SIZE THEN Put(table_cache, e, table(e)) ELSE table_cache
             /\ raw_counter' = Bump(raw_counter, table(e))
             /\ perm_counter' = Bump(perm_counter, canonical_perm(table(e)))
             /\ canon_counter' = Bump(canon_counter, canonical(table(e)))
             /\ edges' = Filed(canonical(table(e)), edges, Children(e))[DOMAIN Children(e)]
             /\ lattice' = lattice /\ phase = "count"
             /\ \E n \in Nat : /\ DOMAIN Children(e) = 1 .. n
                               /\ \A i \in 1 .. n : /\ Children(e)[i] \in DOMAIN table_cache
                                                    /\ table_cache[Children(e)[i]] \in Table
<1> DEFINE e == BySize[size][at]
           tt == table(e)
<1>1. e \in Leafs \cup Offspring(Kids(BySize, size))
  BY CountFinds
<1>2. \A c \in Kids(BySize, size) : c \in DOMAIN table_cache /\ table_cache[c] \in Table
  BY CountFinds
<1>3. tt \in Table
  BY <1>1, <1>2, TableIs
<1>4. canon_of(tt) = canonical(tt)
  BY DEF canon_of, MemoInv
<1>5. \E n \in Nat : DOMAIN Children(e) = 1 .. n /\ \A i \in 1 .. n : Children(e)[i] \in Kids(BySize, size)
  <2> HIDE DEF e
  <2> QED
    BY <1>1, ChildrenIn
<1>6. /\ table_cache' = IF size < MAX_SIZE THEN Put(table_cache, e, tt) ELSE table_cache
      /\ raw_counter' = Bump(raw_counter, tt)
      /\ perm_counter' = Bump(perm_counter, canonical_perm(tt))
      /\ canon_counter' = Bump(canon_counter, canon_of(tt))
      /\ lattice' = lattice /\ phase = "count"
  BY Zenon DEF Count
<1>7. edges' = Filed(canonical(tt), edges, Children(e))[DOMAIN Children(e)]
  <2>1. \E d \in {BySize[size][at]} : \E t \in {table(d)} : \E csig \in {canon_of(t)} :
          edges' = Filed(csig, edges, Children(d))[DOMAIN Children(d)]
    BY Zenon DEF Count, FoldLeft, MapThenFoldSet, Max, Filed, Filing, Latest
  <2>2. edges' = Filed(canon_of(tt), edges, Children(e))[DOMAIN Children(e)]
    <3> HIDE DEF e, tt
    <3> QED
      BY <2>1 DEF e, tt
  <2> QED
    BY <1>4, <2>2
<1> HIDE DEF e, tt
<1>8. \E n \in Nat : /\ DOMAIN Children(e) = 1 .. n
                      /\ \A i \in 1 .. n : Children(e)[i] \in DOMAIN table_cache /\ table_cache[Children(e)[i]] \in Table
  BY <1>2, <1>5
<1> QED
  BY <1>3, <1>4, <1>6, <1>7, <1>8 DEF e, tt

-----------------------------------------------------------------------------
(* What the counters hold: their keys are the signatures of the tables     *)
(* counted, of either kind; what the tables of a signature come to, and    *)
(* what their signatures by order come to, is what is counted under it;    *)
(* and every tree with a table is under a signature that has been counted. *)
Raws(c)  == {tt \in DOMAIN raw_counter : canonical(tt) = c}
Perms(c) == {canonical_perm(tt) : tt \in Raws(c)}

CountsInv ==
  /\ Tally(raw_counter) /\ Tally(perm_counter) /\ Tally(canon_counter) /\ Tally(edges)
  /\ DOMAIN perm_counter = {canonical_perm(tt) : tt \in DOMAIN raw_counter}
  /\ DOMAIN canon_counter = {canonical(tt) : tt \in DOMAIN raw_counter}
  /\ \A c \in DOMAIN canon_counter : /\ SumOf(raw_counter, Raws(c)) = canon_counter[c]
                                     /\ SumOf(perm_counter, Perms(c)) = canon_counter[c]
  /\ \A e \in DOMAIN table_cache : canonical(table_cache[e]) \in DOMAIN canon_counter
  /\ DOMAIN edges \subseteq (DOMAIN canon_counter) \X (DOMAIN canon_counter)
  /\ \A nodes \in lattice : \A n \in nodes : \A k \in n.edges : \E m \in nodes : m.id = k[1]

LEMMA CountsInitHolds == MemoInit => CountsInv
<1> SUFFICES ASSUME MemoInit PROVE CountsInv
  OBVIOUS
<1>1. DOMAIN Empty = {} /\ Tally(Empty)
  BY DEF Empty, Tally
<1>2. /\ table_cache = Empty /\ raw_counter = Empty /\ perm_counter = Empty /\ canon_counter = Empty
      /\ edges = Empty /\ lattice = {}
  BY DEF MemoInit
<1> QED
  BY <1>1, <1>2 DEF CountsInv

LEMMA RawsSmall ==
  ASSUME MemoInv, NEW c
  PROVE  /\ Raws(c) \subseteq Table /\ Raws(c) \subseteq DOMAIN raw_counter
         /\ IsFiniteSet(Raws(c)) /\ IsFiniteSet(Perms(c)) /\ Cardinality(Raws(c)) <= 16
         /\ Cardinality(Raws(c)) <= 2 * Cardinality(Perms(c))
<1> DEFINE R == Raws(c)
<1>1. R \subseteq Table /\ \A s, t \in R : canonical(s) = canonical(t)
  BY DEF MemoInv, Raws
<1>2. R \subseteq DOMAIN raw_counter
  BY DEF Raws
<1> HIDE DEF R
<1>3. /\ IsFiniteSet(R) /\ Cardinality(R) <= 16 /\ IsFiniteSet({canonical_perm(t) : t \in R})
      /\ Cardinality(R) <= 2 * Cardinality({canonical_perm(t) : t \in R})
  BY <1>1, FewTables
<1> QED
  BY <1>1, <1>2, <1>3 DEF R, Perms

(* What a signature comes to after one more table is counted.              *)
LEMMA ClassesKeep ==
  ASSUME MemoInv, CountsInv, NEW tt \in Table,
         raw_counter' = Bump(raw_counter, tt), perm_counter' = Bump(perm_counter, canonical_perm(tt)),
         canon_counter' = Bump(canon_counter, canonical(tt)), NEW c \in DOMAIN canon_counter'
  PROVE  SumOf(raw_counter', Raws(c)') = canon_counter'[c] /\ SumOf(perm_counter', Perms(c)') = canon_counter'[c]
<1> DEFINE csig == canonical(tt)
           psig == canonical_perm(tt)
           R == Raws(c)
           P == Perms(c)
<1>1. Tally(raw_counter) /\ Tally(perm_counter) /\ Tally(canon_counter)
  BY DEF CountsInv
<1>2. /\ DOMAIN raw_counter' = DOMAIN raw_counter \cup {tt}
      /\ DOMAIN canon_counter' = DOMAIN canon_counter \cup {csig}
      /\ \A j \in DOMAIN canon_counter \ {csig} : canon_counter'[j] = canon_counter[j]
      /\ canon_counter'[csig] = (IF csig \in DOMAIN canon_counter THEN canon_counter[csig] ELSE 0) + 1
  <2>1. DOMAIN Bump(raw_counter, tt) = DOMAIN raw_counter \cup {tt}
    BY <1>1, BumpIs
  <2> HIDE DEF csig
  <2>2. /\ DOMAIN Bump(canon_counter, csig) = DOMAIN canon_counter \cup {csig}
        /\ \A j \in DOMAIN canon_counter \ {csig} : Bump(canon_counter, csig)[j] = canon_counter[j]
        /\ Bump(canon_counter, csig)[csig] = (IF csig \in DOMAIN canon_counter THEN canon_counter[csig] ELSE 0) + 1
    BY <1>1, BumpIs
  <2> QED
    BY <2>1, <2>2 DEF csig
<1>3. DOMAIN raw_counter \subseteq Table
  BY DEF MemoInv
<1>4. IsFiniteSet(R) /\ IsFiniteSet(P) /\ R \subseteq DOMAIN raw_counter
  BY RawsSmall
<1>5. P \subseteq DOMAIN perm_counter
  BY <1>4 DEF CountsInv, Perms
<1>6. Raws(c)' = IF c = csig THEN R \cup {tt} ELSE R
  <2>1. Raws(c)' = {t \in DOMAIN raw_counter' : canonical(t) = c}
    BY DEF Raws
  <2> QED
    BY <1>2, <2>1 DEF Raws
<1>7. Perms(c)' = IF c = csig THEN P \cup {psig} ELSE P
  <2>1. Perms(c)' = {canonical_perm(t) : t \in Raws(c)'}
    BY DEF Perms
  <2> QED
    BY <1>6, <2>1 DEF Perms
<1>8. CASE c = csig
  <2>1. tt \in DOMAIN raw_counter => tt \in R
    BY <1>8 DEF Raws
  <2>2. psig \in DOMAIN perm_counter => psig \in P
    <3> SUFFICES ASSUME psig \in DOMAIN perm_counter PROVE psig \in P
      OBVIOUS
    <3>1. PICK t \in DOMAIN raw_counter : psig = canonical_perm(t)
      BY DEF CountsInv
    <3>2. t \in Table /\ canonical(t) = csig
      BY <1>3, <3>1, PermTells
    <3>3. t \in R
      BY <1>8, <3>2 DEF Raws
    <3> QED
      BY <3>1, <3>3 DEF Perms
  <2> HIDE DEF R, P, psig
  <2>3. SumOf(raw_counter', R \cup {tt}) = SumOf(raw_counter, R) + 1
    BY <1>1, <1>4, <2>1, SumBump
  <2>4. SumOf(perm_counter', P \cup {psig}) = SumOf(perm_counter, P) + 1
    BY <1>1, <1>4, <1>5, <2>2, SumBump DEF psig
  <2>5. CASE csig \in DOMAIN canon_counter
    <3>1. canon_counter'[c] = canon_counter[c] + 1
      BY <1>2, <1>8, <2>5
    <3>2. SumOf(raw_counter, R) = canon_counter[c] /\ SumOf(perm_counter, P) = canon_counter[c]
      BY <1>8, <2>5 DEF CountsInv, R, P
    <3> QED
      BY <1>6, <1>7, <1>8, <2>3, <2>4, <3>1, <3>2
  <2>6. CASE csig \notin DOMAIN canon_counter
    <3>1. canon_counter'[c] = 0 + 1
      BY <1>2, <1>8, <2>6
    <3>2. R = {}
      BY <1>8, <2>6 DEF CountsInv, Raws, R
    <3>3. P = {}
      BY <3>2 DEF Perms, P, R
    <3>4. SumOf(raw_counter, R) = 0 /\ SumOf(perm_counter, P) = 0
      BY <1>4, <3>2, <3>3, SumSteps
    <3> QED
      BY <1>6, <1>7, <1>8, <2>3, <2>4, <3>1, <3>4
  <2> QED
    BY <2>5, <2>6
<1>9. CASE c # csig
  <2>1. c \in DOMAIN canon_counter /\ canon_counter'[c] = canon_counter[c]
    BY <1>2, <1>9
  <2>2. tt \notin R
    BY <1>9 DEF Raws
  <2>3. psig \notin P
    <3> SUFFICES ASSUME psig \in P PROVE FALSE
      OBVIOUS
    <3>1. PICK t \in R : psig = canonical_perm(t)
      BY DEF Perms
    <3>2. t \in Table /\ canonical(t) = c
      BY <1>3, <3>1 DEF Raws
    <3> QED
      BY <1>9, <3>1, <3>2, PermTells
  <2>4. SumOf(raw_counter, R) = canon_counter[c] /\ SumOf(perm_counter, P) = canon_counter[c]
    BY <2>1 DEF CountsInv
  <2> HIDE DEF R, P, psig
  <2>5. SumOf(raw_counter', R) = SumOf(raw_counter, R)
    BY <1>1, <1>4, <2>2, SumOther
  <2>6. SumOf(perm_counter', P) = SumOf(perm_counter, P)
    BY <1>1, <1>4, <1>5, <2>3, SumOther DEF psig
  <2> QED
    BY <1>6, <1>7, <1>9, <2>1, <2>4, <2>5, <2>6
<1> QED
  BY <1>8, <1>9

LEMMA CountsCount ==
  ASSUME MemoInv, CountsInv, Count
  PROVE  CountsInv'
<1> DEFINE e == BySize[size][at]
           tt == table(e)
           csig == canonical(tt)
           psig == canonical_perm(tt)
           kids == Children(e)
<1>1. /\ tt \in Table
      /\ table_cache' = IF size < MAX_SIZE THEN Put(table_cache, e, tt) ELSE table_cache
      /\ raw_counter' = Bump(raw_counter, tt)
      /\ perm_counter' = Bump(perm_counter, psig)
      /\ canon_counter' = Bump(canon_counter, csig)
      /\ edges' = Filed(csig, edges, kids)[DOMAIN kids]
      /\ lattice' = lattice
      /\ \E n \in Nat : /\ DOMAIN kids = 1 .. n
                        /\ \A i \in 1 .. n : kids[i] \in DOMAIN table_cache /\ table_cache[kids[i]] \in Table
  BY CountTakes
<1>2. \A c \in DOMAIN canon_counter' :
        SumOf(raw_counter', Raws(c)') = canon_counter'[c] /\ SumOf(perm_counter', Perms(c)') = canon_counter'[c]
  BY <1>1, ClassesKeep
<1> HIDE DEF e, tt, csig, psig, kids
<1>3. Tally(raw_counter) /\ Tally(perm_counter) /\ Tally(canon_counter) /\ Tally(edges)
  BY DEF CountsInv
<1>4. /\ Tally(raw_counter') /\ DOMAIN raw_counter' = DOMAIN raw_counter \cup {tt}
      /\ Tally(perm_counter') /\ DOMAIN perm_counter' = DOMAIN perm_counter \cup {psig}
      /\ Tally(canon_counter') /\ DOMAIN canon_counter' = DOMAIN canon_counter \cup {csig}
  BY <1>1, <1>3, BumpIs
<1>5. DOMAIN perm_counter' = {canonical_perm(t) : t \in DOMAIN raw_counter'}
  BY <1>4 DEF CountsInv, psig
<1>6. DOMAIN canon_counter' = {canonical(t) : t \in DOMAIN raw_counter'}
  BY <1>4 DEF CountsInv, csig
<1>7. \A d \in DOMAIN table_cache' : canonical(table_cache'[d]) \in DOMAIN canon_counter'
  <2>1. \A d \in DOMAIN table_cache : canonical(table_cache[d]) \in DOMAIN canon_counter
    BY DEF CountsInv
  <2>2. CASE size < MAX_SIZE
    <3>1. /\ DOMAIN table_cache' = DOMAIN table_cache \cup {e}
          /\ \A j \in DOMAIN table_cache' : table_cache'[j] = IF j = e THEN tt ELSE table_cache[j]
      BY <1>1, <2>2 DEF Put
    <3> QED
      BY <1>4, <2>1, <3>1 DEF csig
  <2>3. CASE ~ (size < MAX_SIZE)
    BY <1>1, <1>4, <2>1, <2>3
  <2> QED
    BY <2>2, <2>3
<1>8. edges' \in EdgesAmong(DOMAIN canon_counter')
  <2> DEFINE K == DOMAIN canon_counter'
  <2>1. csig \in K /\ DOMAIN canon_counter \subseteq K
    BY <1>4
  <2>2. PICK n \in Nat : /\ DOMAIN kids = 1 .. n
                         /\ \A i \in 1 .. n : kids[i] \in DOMAIN table_cache /\ table_cache[kids[i]] \in Table
    BY <1>1
  <2>3. \A t \in Table : canon_of(t) = canonical(t)
    BY DEF canon_of, MemoInv
  <2>4. ASSUME NEW i \in 1 .. n PROVE ChildSig(kids[i]) \in K
    <3>1. ChildSig(kids[i]) = canonical(table_cache[kids[i]])
      BY <2>2, <2>3 DEF ChildSig
    <3>2. canonical(table_cache[kids[i]]) \in DOMAIN canon_counter
      BY <2>2 DEF CountsInv
    <3> QED
      BY <2>1, <3>1, <3>2
  <2>5. edges \in EdgesAmong(K)
    <3>1. DOMAIN edges \subseteq (DOMAIN canon_counter) \X (DOMAIN canon_counter)
      BY DEF CountsInv
    <3>2. DOMAIN edges \subseteq K \X K
      BY <2>1, <3>1
    <3> HIDE DEF K
    <3> QED
      BY <1>3, <3>2, EdgesAre
  <2> HIDE DEF K
  <2>6. Filed(csig, edges, kids)[DOMAIN kids] \in EdgesAmong(K)
    BY <2>1, <2>2, <2>4, <2>5, FiledAmong
  <2> QED
    BY <1>1, <2>6 DEF K
<1>9. Tally(edges') /\ DOMAIN edges' \subseteq (DOMAIN canon_counter') \X (DOMAIN canon_counter')
  BY <1>8, EdgesAre
<1>10. \A nodes \in lattice' : \A n \in nodes : \A k \in n.edges : \E m \in nodes : m.id = k[1]
  BY <1>1 DEF CountsInv
<1>11. Tally(raw_counter)' /\ Tally(perm_counter)' /\ Tally(canon_counter)' /\ Tally(edges)'
  BY <1>4, <1>9 DEF Tally
<1>12. \A c \in DOMAIN canon_counter' :
         SumOf(raw_counter, Raws(c))' = canon_counter'[c] /\ SumOf(perm_counter, Perms(c))' = canon_counter'[c]
  BY <1>2
<1> QED
  BY <1>5, <1>6, <1>7, <1>9, <1>10, <1>11, <1>12 DEF CountsInv

(* What the lattice is given: an edge goes to a signature that is counted, *)
(* and every signature that is counted is a node.                          *)
LEMMA DownKnows ==
  ASSUME CountsInv
  PROVE  \A n \in Nodes : \A k \in n.edges : \E m \in Nodes : m.id = k[1]
<1> DEFINE Out(c) == {<<p[2], edges[p]>> : p \in {q \in DOMAIN edges : q[1] = c}}
           node(c) == [id |-> c, freq |-> canon_counter[c], edges |-> Out(c)]
<1>1. Nodes = {node(c) : c \in DOMAIN canon_counter}
  BY DEF Nodes
<1>2. \A c : node(c).id = c /\ node(c).edges = Out(c)
  OBVIOUS
<1>3. ASSUME NEW c, NEW k \in Out(c) PROVE k[1] \in DOMAIN canon_counter
  <2>1. PICK p \in DOMAIN edges : k = <<p[2], edges[p]>>
    OBVIOUS
  <2>2. p \in (DOMAIN canon_counter) \X (DOMAIN canon_counter)
    BY DEF CountsInv
  <2>3. p[2] \in DOMAIN canon_counter
    BY <2>2
  <2> QED
    BY <2>1, <2>3
<1> HIDE DEF Out, node
<1> QED
  BY <1>1, <1>2, <1>3

LEMMA CountsNextKeeps ==
  ASSUME MemoInv, CountsInv, MemoNext \/ UNCHANGED memoVars
  PROVE  CountsInv'
<1>1. CASE Count
  BY <1>1, CountsCount
<1>2. ASSUME UNCHANGED counted,
             lattice' = lattice \/ lattice' = {Nodes}
      PROVE  CountsInv'
  <2>1. /\ table_cache' = table_cache /\ raw_counter' = raw_counter /\ perm_counter' = perm_counter
        /\ canon_counter' = canon_counter /\ edges' = edges
    BY <1>2 DEF counted
  <2>2. \A nodes \in lattice' : \A n \in nodes : \A k \in n.edges : \E m \in nodes : m.id = k[1]
    <3>1. CASE lattice' = lattice
      BY <3>1 DEF CountsInv
    <3>2. CASE lattice' = {Nodes}
      BY <3>2, DownKnows
    <3> QED
      BY <1>2, <3>1, <3>2
  <2> QED
    BY <2>1, <2>2 DEF CountsInv, Raws, Perms, Tally
<1>3. CASE Report
  BY <1>2, <1>3 DEF Report
<1>4. CASE Fallback
  BY <1>2, <1>4 DEF Fallback
<1>5. CASE Down
  BY <1>2, <1>5 DEF Down
<1>6. CASE Lookup
  BY <1>2, <1>6 DEF Lookup
<1>7. CASE LookupRaises
  BY <1>2, <1>7 DEF LookupRaises
<1>8. CASE LookedAll
  BY <1>2, <1>8 DEF LookedAll
<1>9. CASE UNCHANGED memoVars
  BY <1>2, <1>9 DEF memoVars, counted
<1> QED
  BY <1>1, <1>3, <1>4, <1>5, <1>6, <1>7, <1>8, <1>9 DEF MemoNext

LEMMA CountsInvSuffices == MemoInv /\ CountsInv => CountersAgree
<1> SUFFICES ASSUME MemoInv, CountsInv PROVE CountersAgree
  OBVIOUS
<1>1. ASSUME NEW c \in DOMAIN canon_counter
      PROVE  LET raws  == {tt \in DOMAIN raw_counter : canon_cache[tt] = c}
                 perms == {canonical_perm(tt) : tt \in raws}
             IN  /\ SumTable(raw_counter, raws)[raws] = canon_counter[c]
                 /\ SumTable(perm_counter, perms)[perms] = canon_counter[c]
                 /\ Cardinality(raws) <= 16 /\ Cardinality(raws) <= 2 * Cardinality(perms)
  <2>1. {tt \in DOMAIN raw_counter : canon_cache[tt] = c} = Raws(c)
    BY DEF MemoInv, Raws
  <2>2. /\ SumTable(raw_counter, Raws(c))[Raws(c)] = canon_counter[c]
        /\ SumTable(perm_counter, Perms(c))[Perms(c)] = canon_counter[c]
    BY SumOfIs DEF CountsInv
  <2>3. Cardinality(Raws(c)) <= 16 /\ Cardinality(Raws(c)) <= 2 * Cardinality(Perms(c))
    BY RawsSmall
  <2> QED
    BY <2>1, <2>2, <2>3 DEF Perms
<1>2. /\ \A p \in DOMAIN edges : p[1] \in DOMAIN canon_counter /\ p[2] \in DOMAIN canon_counter
      /\ \A nodes \in lattice : \A n \in nodes : \A k \in n.edges : \E m \in nodes : m.id = k[1]
  BY DEF CountsInv
<1> QED
  BY <1>1, <1>2, Zenon DEF CountersAgree, MapThenSumSet, MapThenFoldSet, SumTable, Adding, Chosen

(* The three counters tell of the same trees, of any size: a class counts  *)
(* what its tables count and what its permutation classes count, no class  *)
(* has more than sixteen tables or two for each permutation class, every   *)
(* child has been counted, and no edge given to the lattice dangles.       *)
THEOREM CountersDoAgree == Spec => []CountersAgree
<1>1. Init => MemoInv /\ CountsInv
  BY MemoInitHolds, CountsInitHolds DEF Init
<1>2. MemoInv /\ CountsInv /\ [Next]_scriptVars => (MemoInv /\ CountsInv)'
  <2> SUFFICES ASSUME MemoInv, CountsInv, [Next]_scriptVars PROVE MemoInv' /\ CountsInv'
    OBVIOUS
  <2>1. MemoNext \/ UNCHANGED memoVars
    BY DEF Next, scriptVars
  <2> QED
    BY <2>1, MemoNextKeeps, CountsNextKeeps
<1>3. MemoInv /\ CountsInv => CountersAgree
  BY CountsInvSuffices
<1> QED
  BY <1>1, <1>2, <1>3, PTL DEF Spec

-----------------------------------------------------------------------------
(* The lever sweep.                                                        *)

Kinds == {"epush", "epull", "ecyc1", "ecyc2", "ecyct", "vraa", "vrab", "vlna"}

Syllables == Kinds \cup {"x", "id", "sc", "02", "05", "10", "30", "100", "500"}

(* A name of the grid has six parts, one for each lever; of those only the *)
(* first two have capitals, so the log keeps the others as they are.       *)
LEMMA LowerIs ==
  ASSUME NEW nm \in Grid
  PROVE  /\ nm[2] \in {"ID", "SC"} /\ nm[3] \in {"02", "05", "10"}
         /\ nm[4] \in {"05", "10", "30", "100"} /\ nm[5] \in {"100", "500"} /\ nm[6] \in {"05", "10"}
         /\ lower(nm) \in Seq(Syllables) /\ Len(lower(nm)) = 6
         /\ lower(nm)[2] = "sc" <=> nm[2] = "SC"
         /\ \A i \in 3 .. 6 : lower(nm)[i] = nm[i]
<1>1. PICK mod \in {"ID", "SC"}, ip \in {"02", "05", "10"}, pw \in {"05", "10", "30", "100"},
           rw \in {"100", "500"}, cl \in {"05", "10"} : nm = <<"X", mod, ip, pw, rw, cl>>
  <2>1. /\ DOMAIN MODS = {"ID", "SC"} /\ DOMAIN IPS = {"02", "05", "10"}
        /\ DOMAIN PWS = {"05", "10", "30", "100"} /\ DOMAIN RWS = {"100", "500"} /\ DOMAIN CLS = {"05", "10"}
    BY DEF MODS, IPS, PWS, RWS, CLS
  <2> QED
    BY <2>1 DEF Grid
<1>2. /\ Len(nm) = 6 /\ DOMAIN nm = 1 .. 6
      /\ nm[1] = "X" /\ nm[2] = mod /\ nm[3] = ip /\ nm[4] = pw /\ nm[5] = rw /\ nm[6] = cl
  BY <1>1
<1> DEFINE low(s) == IF s \in DOMAIN Lower THEN Lower[s] ELSE s
<1>3. /\ \A s \in {"02", "05", "10", "30", "100", "500"} : low(s) = s
      /\ low("X") = "x" /\ low("ID") = "id" /\ low("SC") = "sc"
  BY DEF Lower
<1>4. \A i \in 1 .. 6 : low(nm[i]) \in Syllables
  <2>1. low(mod) \in Syllables /\ low(ip) = ip /\ low(pw) = pw /\ low(rw) = rw /\ low(cl) = cl /\ low("X") \in Syllables
    BY <1>3 DEF Syllables
  <2>2. \A i \in 1 .. 6 : i = 1 \/ i = 2 \/ i = 3 \/ i = 4 \/ i = 5 \/ i = 6
    OBVIOUS
  <2>3. ip \in Syllables /\ pw \in Syllables /\ rw \in Syllables /\ cl \in Syllables
    BY DEF Syllables
  <2> QED
    BY <1>2, <2>1, <2>2, <2>3
<1>5. lower(nm) = [i \in 1 .. 6 |-> low(nm[i])]
  BY <1>2 DEF lower
<1> HIDE DEF low
<1>6. /\ lower(nm) \in Seq(Syllables) /\ Len(lower(nm)) = 6
      /\ \A i \in 1 .. 6 : lower(nm)[i] = low(nm[i])
  BY <1>4, <1>5
<1>7. lower(nm)[2] = "sc" <=> nm[2] = "SC"
  <2>1. lower(nm)[2] = low(mod)
    BY <1>2, <1>6
  <2> QED
    BY <1>2, <1>3, <2>1
<1>8. \A i \in 3 .. 6 : lower(nm)[i] = nm[i]
  <2>1. \A i \in 3 .. 6 : i \in 1 .. 6 /\ nm[i] \in {"02", "05", "10", "30", "100", "500"}
    BY <1>2
  <2> QED
    BY <1>3, <1>6, <2>1
<1> QED
  BY <1>2, <1>6, <1>7, <1>8

(* The name of a measurement falls back into its kind and its instance.    *)
LEMMA NamesPart ==
  ASSUME NEW kind \in Syllables, NEW inst \in Seq(Syllables)
  PROVE  Head(<<kind>> \o inst) = kind /\ inst_of(<<kind>> \o inst) = inst
<1> DEFINE s == <<kind>> \o inst
<1>1. /\ s \in Seq(Syllables) /\ Len(s) = Len(inst) + 1 /\ s[1] = kind
      /\ \A i \in 1 .. Len(inst) : s[i + 1] = inst[i]
  <2>1. <<kind>> \in Seq(Syllables) /\ Len(<<kind>>) = 1 /\ <<kind>>[1] = kind
    OBVIOUS
  <2>2. /\ s \in Seq(Syllables) /\ Len(s) = 1 + Len(inst)
        /\ \A i \in 1 .. 1 + Len(inst) : s[i] = IF i <= 1 THEN <<kind>>[i] ELSE inst[i - 1]
    BY <2>1, ConcatProperties
  <2>3. Len(inst) \in Nat
    OBVIOUS
  <2> HIDE DEF s
  <2> QED
    BY <2>1, <2>2, <2>3
<1> HIDE DEF s
<1>2. Tail(s) \in Seq(Syllables) /\ Len(Tail(s)) = Len(inst) /\ \A i \in 1 .. Len(inst) : Tail(s)[i] = s[i + 1]
  <2>1. s # <<>> /\ Len(inst) \in Nat
    BY <1>1
  <2> QED
    BY <1>1, <2>1, HeadTailProperties
<1>3. Tail(s) = inst
  BY <1>1, <1>2, SeqEqual
<1>4. Head(s) = kind
  BY <1>1
<1> QED
  BY <1>3, <1>4 DEF inst_of, s

(* The levers a name was made of are those that are read back from it.     *)
LEMMA DecodeIs ==
  ASSUME NEW nm \in Grid
  PROVE  decode(lower(nm)) = Settings(nm)
<1> DEFINE s == lower(nm)
<1>1. /\ nm[2] \in {"ID", "SC"} /\ nm[3] \in {"02", "05", "10"}
      /\ nm[4] \in {"05", "10", "30", "100"} /\ nm[5] \in {"100", "500"} /\ nm[6] \in {"05", "10"}
      /\ s[2] = "sc" <=> nm[2] = "SC"
      /\ s[3] = nm[3] /\ s[4] = nm[4] /\ s[5] = nm[5] /\ s[6] = nm[6]
  BY LowerIs
<1> HIDE DEF s
<1>2. (IF s[2] = "sc" THEN "SCHOTTKY" ELSE "IDEAL") = MODS[nm[2]]
  BY <1>1 DEF MODS
<1>3. (CASE s[3] = "02" -> 2 [] s[3] = "05" -> 5 [] s[3] = "10" -> 10) = IPS[nm[3]]
  BY <1>1 DEF IPS
<1>4. (CASE s[4] = "05" -> 5 [] s[4] = "10" -> 10 [] s[4] = "30" -> 30 [] s[4] = "100" -> 100) = PWS[nm[4]]
  BY <1>1 DEF PWS
<1>5. (CASE s[5] = "100" -> 100 [] s[5] = "500" -> 500) = RWS[nm[5]]
  BY <1>1 DEF RWS
<1>6. (CASE s[6] = "05" -> 5 [] s[6] = "10" -> 10) = CLS[nm[6]]
  BY <1>1 DEF CLS
<1>7. decode(s) = Settings(nm)
  BY <1>2, <1>3, <1>4, <1>5, <1>6 DEF decode, Settings
<1> QED
  BY <1>7 DEF s

LEMMA NamedIs ==
  /\ DOMAIN Named = {lower(nm) : nm \in Grid}
  /\ \A inst \in DOMAIN Named : Named[inst] \in Grid /\ lower(Named[inst]) = inst /\ inst \in Seq(Syllables)
<1>1. DOMAIN Named = {lower(nm) : nm \in Grid}
  BY DEF Named
<1>2. ASSUME NEW inst \in DOMAIN Named
      PROVE  Named[inst] \in Grid /\ lower(Named[inst]) = inst /\ inst \in Seq(Syllables)
  <2>1. PICK nm \in Grid : lower(nm) = inst
    BY <1>1
  <2>2. Named[inst] = CHOOSE n \in Grid : lower(n) = inst
    BY <1>1 DEF Named
  <2>3. Named[inst] \in Grid /\ lower(Named[inst]) = inst
    BY <2>1, <2>2
  <2>4. lower(Named[inst]) \in Seq(Syllables)
    BY <2>3, LowerIs
  <2> QED
    BY <2>3, <2>4
<1> QED
  BY <1>1, <1>2

(* A pulse is at most 14 ns long, whatever its width.                      *)
LEMMA PulseIs ==
  ASSUME NEW inst \in DOMAIN Named
  PROVE  \E long \in 1 .. 140 : \A from \in Int : Pulse(from, decode(inst).pw) = <<from, from + long>>
<1>1. PICK nm \in Grid : inst = lower(nm)
  BY NamedIs
<1>2. decode(inst).pw = PWS[nm[4]]
  BY <1>1, DecodeIs DEF Settings
<1>3. PWS[nm[4]] \in {5, 10, 30, 100}
  BY LowerIs DEF PWS
<1> DEFINE w == PWS[nm[4]]
           long == w + 2 * (w \div 5)
<1>4. long \in 1 .. 140
  BY <1>3
<1>5. \A from \in Int : Pulse(from, w) = <<from, from + long>>
  BY <1>3 DEF Pulse
<1> QED
  BY <1>2, <1>4, <1>5

LEMMA MinOne == ASSUME NEW a \in Int PROVE Min({a}) = a
<1>1. a \in {a} /\ \A y \in {a} : a <= y
  OBVIOUS
<1> QED
  BY <1>1 DEF Min

LEMMA MinTwo == ASSUME NEW a \in Int, NEW b \in Int, a < b PROVE Min({a, b}) = a
<1>1. a \in {a, b} /\ \A y \in {a, b} : a <= y
  OBVIOUS
<1>2. \A z \in {a, b} : (\A y \in {a, b} : z <= y) => z = a
  OBVIOUS
<1> QED
  BY <1>1, <1>2 DEF Min

(* What a window and the pulses of its node have to do with one another:   *)
(* those it touches lie in it, and they are the ones it is named for.      *)
Covers(w, pulses, starts) ==
  LET Touches == {p \in pulses : p[1] < w[2] /\ w[1] < p[2]}
  IN  /\ \A p \in Touches : w[1] <= p[1] /\ p[2] <= w[2]
      /\ {p[1] : p \in Touches} = starts

(* One pulse in the window, and another, if there is one, out of it.       *)
LEMMA CoversOne ==
  ASSUME NEW w, NEW pulses, NEW p, p \in pulses, p[1] < w[2], w[1] < p[2], w[1] <= p[1], p[2] <= w[2],
         \A q \in pulses : q # p => ~ (q[1] < w[2] /\ w[1] < q[2])
  PROVE  Covers(w, pulses, {p[1]})
<1> DEFINE Touches == {q \in pulses : q[1] < w[2] /\ w[1] < q[2]}
<1>1. Touches = {p}
  OBVIOUS
<1>2. {q[1] : q \in Touches} = {p[1]}
  BY <1>1
<1> QED
  BY <1>1, <1>2, Zenon DEF Covers

(* What is measured in the window of a kind, and what that is named for.   *)
Pulses(inst, kind) == subckt(decode(inst).pw)[Probe(kind)]

Meant(pulses, kind) ==
  LET first == Min({p[1] : p \in pulses})
  IN  CASE kind = "ecyc2" -> {p[1] : p \in pulses} \ {first}
        [] kind = "ecycT" -> {p[1] : p \in pulses}
        [] OTHER          -> {first}

LEMMA WindowsHold ==
  ASSUME NEW inst \in DOMAIN Named, NEW kind \in DOMAIN WINDOWS
  PROVE  Covers(WINDOWS[kind], Pulses(inst, kind), Meant(Pulses(inst, kind), kind))
<1> DEFINE pw == decode(inst).pw
           c == Pulse(100, pw)
           d == Pulse(400, pw)
           a == Pulse(1000, pw)
           b == Pulse(1240, pw)
<1>1. PICK long \in 1 .. 140 : \A from \in Int : Pulse(from, pw) = <<from, from + long>>
  BY PulseIs
<1>2. \A from \in Int : Pulse(from, pw)[1] = from /\ Pulse(from, pw)[2] = from + long
  <2> SUFFICES ASSUME NEW from \in Int PROVE Pulse(from, pw)[1] = from /\ Pulse(from, pw)[2] = from + long
    OBVIOUS
  <2>1. Pulse(from, pw) = <<from, from + long>>
    BY <1>1
  <2>2. <<from, from + long>>[1] = from /\ <<from, from + long>>[2] = from + long
    OBVIOUS
  <2> HIDE DEF pw
  <2> QED
    BY <2>1, <2>2
<1>3. /\ c[1] = 100 /\ c[2] = 100 + long /\ d[1] = 400 /\ d[2] = 400 + long
      /\ a[1] = 1000 /\ a[2] = 1000 + long /\ b[1] = 1240 /\ b[2] = 1240 + long
  <2> HIDE DEF pw
  <2> QED
    BY <1>2
<1>4. /\ subckt(pw)["pwpA"] = {c} /\ subckt(pw)["pwpB"] = {d} /\ subckt(pw)["pwpC"] = {a, b}
  <2> HIDE DEF pw
  <2> QED
    BY DEF subckt
<1>5. kind \in {"epush", "epull", "ecyc1", "ecyc2", "ecycT"}
  BY DEF WINDOWS
<1> DEFINE there == Pulses(inst, kind)
<1>6. there = subckt(pw)[Probe(kind)]
  BY DEF Pulses
<1> HIDE DEF a, b, c, d, pw, there
<1>7. /\ Covers(WINDOWS["epush"], {c}, {100}) /\ Covers(WINDOWS["epull"], {d}, {400})
      /\ Covers(WINDOWS["ecyc1"], {a, b}, {1000}) /\ Covers(WINDOWS["ecyc2"], {a, b}, {1240})
      /\ Covers(WINDOWS["ecycT"], {a, b}, {1000, 1240})
  <2>1. long \in 1 .. 140
    BY <1>1
  <2>2. Covers(WINDOWS["epush"], {c}, {100})
    <3> DEFINE w == WINDOWS["epush"]
    <3>1. w[1] = 90 /\ w[2] = 260
      BY DEF WINDOWS
    <3> HIDE DEF w
    <3>2. Covers(w, {c}, {c[1]})
      BY <1>3, <2>1, <3>1, CoversOne
    <3> QED
      BY <1>3, <3>2 DEF w
  <2>3. Covers(WINDOWS["epull"], {d}, {400})
    <3> DEFINE w == WINDOWS["epull"]
    <3>1. w[1] = 390 /\ w[2] = 560
      BY DEF WINDOWS
    <3> HIDE DEF w
    <3>2. Covers(w, {d}, {d[1]})
      BY <1>3, <2>1, <3>1, CoversOne
    <3> QED
      BY <1>3, <3>2 DEF w
  <2>4. Covers(WINDOWS["ecyc1"], {a, b}, {1000})
    <3> DEFINE w == WINDOWS["ecyc1"]
    <3>1. w[1] = 990 /\ w[2] = 1230
      BY DEF WINDOWS
    <3> HIDE DEF w
    <3>2. \A q \in {a, b} : q # a => ~ (q[1] < w[2] /\ w[1] < q[2])
      BY <1>3, <2>1, <3>1
    <3>3. a \in {a, b} /\ a[1] < w[2] /\ w[1] < a[2] /\ w[1] <= a[1] /\ a[2] <= w[2]
      BY <1>3, <2>1, <3>1
    <3>4. Covers(w, {a, b}, {a[1]})
      BY <3>2, <3>3, CoversOne
    <3> QED
      BY <1>3, <2>1, <3>4 DEF w
  <2>5. Covers(WINDOWS["ecyc2"], {a, b}, {1240})
    <3> DEFINE w == WINDOWS["ecyc2"]
    <3>1. w[1] = 1230 /\ w[2] = 1390
      BY DEF WINDOWS
    <3> HIDE DEF w
    <3>2. \A q \in {a, b} : q # b => ~ (q[1] < w[2] /\ w[1] < q[2])
      BY <1>3, <2>1, <3>1
    <3>3. b \in {a, b} /\ b[1] < w[2] /\ w[1] < b[2] /\ w[1] <= b[1] /\ b[2] <= w[2]
      BY <1>3, <2>1, <3>1
    <3>4. Covers(w, {a, b}, {b[1]})
      BY <3>2, <3>3, CoversOne
    <3> QED
      BY <1>3, <2>1, <3>4 DEF w
  <2>6. Covers(WINDOWS["ecycT"], {a, b}, {1000, 1240})
    <3> DEFINE w       == WINDOWS["ecycT"]
               Touches == {p \in {a, b} : p[1] < w[2] /\ w[1] < p[2]}
    <3>1. w[1] = 990 /\ w[2] = 1390
      BY DEF WINDOWS
    <3> HIDE DEF w
    <3>2. Touches = {a, b}
      BY <1>3, <2>1, <3>1
    <3>3. {p[1] : p \in Touches} = {1000, 1240}
      BY <1>3, <2>1, <3>2
    <3>4. \A p \in Touches : w[1] <= p[1] /\ p[2] <= w[2]
      BY <1>3, <2>1, <3>1, <3>2
    <3>5. Covers(w, {a, b}, {1000, 1240})
      BY <3>3, <3>4 DEF Covers
    <3> QED
      BY <3>5 DEF w
  <2> QED
    BY <2>2, <2>3, <2>4, <2>5, <2>6
<1>8. CASE kind = "epush"
  <2>1. there = {c}
    BY <1>4, <1>6, <1>8 DEF Probe
  <2>2. {p[1] : p \in there} = {100}
    BY <1>3, <2>1
  <2>3. Meant(there, kind) = {100}
    BY <1>8, <2>2, MinOne DEF Meant
  <2> QED
    BY <1>7, <1>8, <2>1, <2>3 DEF there
<1>9. CASE kind = "epull"
  <2>1. there = {d}
    BY <1>4, <1>6, <1>9 DEF Probe
  <2>2. {p[1] : p \in there} = {400}
    BY <1>3, <2>1
  <2>3. Meant(there, kind) = {400}
    BY <1>9, <2>2, MinOne DEF Meant
  <2> QED
    BY <1>7, <1>9, <2>1, <2>3 DEF there
<1>10. CASE kind \in {"ecyc1", "ecyc2", "ecycT"}
  <2>1. there = {a, b}
    BY <1>4, <1>6, <1>10 DEF Probe
  <2>2. {p[1] : p \in there} = {1000, 1240}
    BY <1>3, <2>1
  <2>3. Min({1000, 1240}) = 1000 /\ {1000, 1240} \ {1000} = {1240}
    BY MinTwo
  <2>4. CASE kind = "ecyc1"
    <3>1. Meant(there, kind) = {Min({p[1] : p \in there})}
      BY <2>4, Zenon DEF Meant
    <3>2. Meant(there, kind) = {1000}
      BY <2>2, <2>3, <3>1
    <3> QED
      BY <1>7, <2>1, <2>4, <3>2 DEF there
  <2>5. CASE kind = "ecyc2"
    <3>1. Meant(there, kind) = {p[1] : p \in there} \ {Min({p[1] : p \in there})}
      BY <2>5, Zenon DEF Meant
    <3>2. Meant(there, kind) = {1240}
      BY <2>2, <2>3, <3>1
    <3> QED
      BY <1>7, <2>1, <2>5, <3>2 DEF there
  <2>6. CASE kind = "ecycT"
    <3>1. Meant(there, kind) = {1000, 1240}
      BY <2>2, <2>6 DEF Meant
    <3> QED
      BY <1>7, <2>1, <2>6, <3>1 DEF there
  <2> QED
    BY <1>10, <2>4, <2>5, <2>6
<1> QED
  BY <1>5, <1>8, <1>9, <1>10

LEMMA WindowsAreRight == SweepWindows
<1>1. ASSUME NEW inst \in epushes, NEW kind \in DOMAIN WINDOWS
      PROVE  LET w       == WINDOWS[kind]
                 pulses  == subckt(decode(inst).pw)[Probe(kind)]
                 Touches == {p \in pulses : p[1] < w[2] /\ w[1] < p[2]}
                 first   == Min({p[1] : p \in pulses})
             IN  /\ \A p \in Touches : w[1] <= p[1] /\ p[2] <= w[2]
                 /\ {p[1] : p \in Touches} =
                      CASE kind = "ecyc2" -> {p[1] : p \in pulses} \ {first}
                        [] kind = "ecycT" -> {p[1] : p \in pulses}
                        [] OTHER          -> {first}
  <2>1. inst \in DOMAIN Named
    BY DEF epushes
  <2> QED
    BY <2>1, WindowsHold DEF Covers, Pulses, Meant
<1>2. WINDOWS["ecyc1"] \o WINDOWS["ecyc2"] =
        <<WINDOWS["ecycT"][1], WINDOWS["ecyc1"][2], WINDOWS["ecyc1"][2], WINDOWS["ecycT"][2]>>
  <2>1. <<990, 1230>> \o <<1230, 1390>> = <<990, 1230, 1230, 1390>>
    <3> DEFINE a == <<990, 1230>>
               b == <<1230, 1390>>
               c == <<990, 1230, 1230, 1390>>
    <3>1. a \in Seq(Int) /\ Len(a) = 2 /\ b \in Seq(Int) /\ Len(b) = 2 /\ c \in Seq(Int) /\ Len(c) = 4
      OBVIOUS
    <3>2. /\ a \o b \in Seq(Int) /\ Len(a \o b) = 2 + 2
          /\ \A i \in 1 .. 2 + 2 : (a \o b)[i] = IF i <= 2 THEN a[i] ELSE b[i - 2]
      BY <3>1, ConcatProperties
    <3>3. /\ a[1] = 990 /\ a[2] = 1230 /\ b[1] = 1230 /\ b[2] = 1390
          /\ c[1] = 990 /\ c[2] = 1230 /\ c[3] = 1230 /\ c[4] = 1390
      OBVIOUS
    <3> HIDE DEF a, b, c
    <3>4. Len(a \o b) = 4 /\ \A i \in 1 .. 4 : i = 1 \/ i = 2 \/ i = 3 \/ i = 4
      BY <3>2
    <3>5. \A i \in 1 .. 4 : (a \o b)[i] = c[i]
      <4>1. /\ (a \o b)[1] = a[1] /\ (a \o b)[2] = a[2]
            /\ (a \o b)[3] = b[1] /\ (a \o b)[4] = b[2]
        BY <3>2
      <4> QED
        BY <3>3, <3>4, <4>1
    <3>6. a \o b = c
      BY <3>1, <3>2, <3>4, <3>5, SeqEqual
    <3> QED
      BY <3>6 DEF a, b, c
  <2> QED
    BY <2>1 DEF WINDOWS
<1> QED
  BY <1>1, <1>2, Zenon DEF SweepWindows

(* For every cell of the grid and every energy, the window holds the       *)
(* pulses it is named for from the first moment to the last and touches no *)
(* other (make_ternary_sweep.py:23-25): the longest of them lasts 14 ns.   *)
THEOREM WindowsAreWide == Spec => []SweepWindows
BY WindowsAreRight, PTL

(* What the analyser knows after each part of its report.  A failed        *)
(* measurement is one of a cell varied or of the idle driver; what was     *)
(* reported as the cheapest is the cheapest of the cells the log has a     *)
(* push energy of; to get past the first of the three every one of these   *)
(* had a rail, and past each of them what was printed of the cell was      *)
(* there and the idle driver's energy, NaN or not, averaged in.            *)
Cheapest(i, thr) ==
  /\ i \in epushes /\ Logged(i).railA >= thr
  /\ \A j \in epushes : Logged(j).railA >= thr => Logged(i).epush <= Logged(j).epush

Whole(i) == \A kind \in {"vraa", "vrab", "epull", "ecyc1", "ecyc2", "ecyct"} : Has(kind, i)

Reports(n) ==
  /\ n >= 1 => /\ \A i \in epushes : Has("vraa", i)
               /\ Cheapest(mins[1], 25) /\ Whole(mins[1])
  /\ n >= 2 => Cheapest(mins[2], 10) /\ Whole(mins[2])
  /\ n >= 3 => Cheapest(mins[3], 0) /\ Whole(mins[3])

Shares ==
  /\ \A k \in 4 .. Len(mins) : mins[k] \in epushes /\ Logged(mins[1]).epush <= Logged(mins[k]).epush
  /\ \E k \in 4 .. Len(mins) : Logged(mins[k]).epush = Logged(mins[1]).epush

Gridded == \A i \in epushes, kind \in {"vraa", "vrab", "epull", "ecyc2"} : Has(kind, i)

Failed(name) == \E kind \in Kinds, inst \in DOMAIN Named : name = <<kind>> \o inst

(* The idle driver's measurements as the report takes them, and the parts  *)
(* that have averaged its energy.                                          *)
IdleTaken == null_case = [m \in Idle |-> IF m \in lost THEN Default(m) ELSE "measured"]

IdleEnergy == IF ENull \in lost THEN "nan" ELSE "measured"

Averaged(parts) == averages = parts \X {IdleEnergy}

(* No instance asserts its rail.                                           *)
NoRail == \A i \in DOMAIN Named : Logged(i).railA < 25

SweepInv ==
  /\ measured \in [Varied -> [epush : 1 .. 2, railA : {9, 10, 25}]]
  /\ \A name \in lost : (Failed(name) \/ name \in Idle) /\ lost = {name}
  /\ mins \in Seq(DOMAIN Named)
  /\ report \in {"null", "strict", "loose", "raw", "diodes", "grid", "printed", "raised"}
  /\ report # "null" => IdleTaken
  /\ report \in {"null", "strict"} => Len(mins) = 0 /\ Averaged({})
  /\ report = "loose" => Len(mins) = 1 /\ Reports(1) /\ Averaged({"strict"})
  /\ report = "raw" => Len(mins) = 2 /\ Reports(2) /\ Averaged({"strict", "loose"})
  /\ report = "diodes" => Len(mins) = 3 /\ Reports(3) /\ Averaged({"strict", "loose", "raw"})
  /\ report \in {"grid", "printed"} =>
       Len(mins) >= 4 /\ Reports(3) /\ Shares /\ Averaged({"strict", "loose", "raw"})
  /\ report = "printed" => Gridded
  /\ report = "raised" /\ lost \subseteq Idle => NoRail

LEMMA LoggedIs ==
  ASSUME measured \in [Varied -> [epush : 1 .. 2, railA : {9, 10, 25}]], NEW inst \in DOMAIN Named
  PROVE  /\ Logged(inst).epush \in {1, 2, Usual.epush} /\ Usual.epush \in Int
         /\ Logged(inst).epush \in Int /\ Logged(inst).railA \in Int
<1>1. Usual.epush \in Int /\ Usual.railA \in Int
  BY SweepAssumption
<1>2. CASE Named[inst] \in Varied
  <2>1. Logged(inst) = measured[Named[inst]]
    BY <1>2 DEF Logged
  <2>2. measured[Named[inst]] \in [epush : 1 .. 2, railA : {9, 10, 25}]
    BY <1>2
  <2>3. Logged(inst).epush \in 1 .. 2 /\ Logged(inst).railA \in {9, 10, 25}
    BY <2>1, <2>2
  <2> QED
    BY <1>1, <2>3
<1>3. CASE Named[inst] \notin Varied
  <2>1. Logged(inst) = Usual
    BY <1>3 DEF Logged
  <2> QED
    BY <1>1, <2>1
<1> QED
  BY <1>2, <1>3

LEMMA MinThree ==
  ASSUME NEW u \in Int, NEW T \in SUBSET {1, 2, u}, T # {}
  PROVE  Min(T) \in T /\ \A y \in T : Min(T) <= y
<1>1. \E x \in T : \A y \in T : x <= y
  <2>1. \A y \in T : y = 1 \/ y = 2 \/ y = u
    OBVIOUS
  <2>2. CASE u <= 1 /\ u \in T
    BY <2>1, <2>2
  <2>3. CASE 1 \in T /\ ~ (u <= 1 /\ u \in T)
    BY <2>1, <2>3
  <2>4. CASE 1 \notin T /\ 2 \in T /\ ~ (u <= 2 /\ u \in T)
    BY <2>1, <2>4
  <2>5. CASE 1 \notin T /\ u \in T /\ (u <= 2 \/ 2 \notin T)
    BY <2>1, <2>5
  <2>6. 1 \in T \/ 2 \in T \/ u \in T
    BY <2>1
  <2> QED
    BY <2>2, <2>3, <2>4, <2>5, <2>6
<1> QED
  BY <1>1 DEF Min

(* The cheapest of some instances is one of them.                          *)
LEMMA CheapestOne ==
  ASSUME measured \in [Varied -> [epush : 1 .. 2, railA : {9, 10, 25}]],
         NEW cands \in SUBSET DOMAIN Named, cands # {}
  PROVE  /\ Least(cands) \in cands
         /\ \A j \in cands : Logged(Least(cands)).epush <= Logged(j).epush
<1> DEFINE T == {Logged(i).epush : i \in cands}
<1>1. T \in SUBSET {1, 2, Usual.epush} /\ T # {} /\ Usual.epush \in Int
  BY LoggedIs
<1>2. Min(T) \in T /\ \A y \in T : Min(T) <= y
  <2> HIDE DEF T
  <2> QED
    BY <1>1, MinThree
<1>3. \E i \in cands : Logged(i).epush = Min(T)
  BY <1>2
<1>4. Least(cands) = CHOOSE i \in cands : Logged(i).epush = Min(T)
  BY DEF Least
<1>5. Least(cands) \in cands /\ Logged(Least(cands)).epush = Min(T)
  BY <1>3, <1>4
<1> QED
  BY <1>2, <1>5

(* The parts come in their order.                                          *)
LEMMA PartIs ==
  ASSUME NEW names, Part(names)
  PROVE  /\ mins' = mins \o names
         /\ report = "null" => report' = "strict"
         /\ report = "strict" => report' = "loose"
         /\ report = "loose" => report' = "raw"
         /\ report = "raw" => report' = "diodes"
         /\ report = "diodes" => report' = "grid"
         /\ report = "grid" => report' = "printed"
<1>1. /\ DOMAIN Parts = 1 .. 7
      /\ Parts[1] = "null" /\ Parts[2] = "strict" /\ Parts[3] = "loose" /\ Parts[4] = "raw"
      /\ Parts[5] = "diodes" /\ Parts[6] = "grid" /\ Parts[7] = "printed"
  BY DEF Parts
<1>2. ASSUME NEW k \in 1 .. 6, report = Parts[k]
      PROVE  report' = Parts[k + 1]
  <2>1. \A i \in 1 .. 7 : Parts[i] = Parts[k] => i = k
    <3>1. \A i \in 1 .. 7 : i = 1 \/ i = 2 \/ i = 3 \/ i = 4 \/ i = 5 \/ i = 6 \/ i = 7
      OBVIOUS
    <3> QED
      BY <1>1, <3>1
  <2>2. k \in DOMAIN Parts
    BY <1>1
  <2>3. (CHOOSE i \in DOMAIN Parts : Parts[i] = report) = k
    BY <1>1, <1>2, <2>1, <2>2
  <2> QED
    BY <2>3 DEF Part
<1>3. mins' = mins \o names
  BY DEF Part
<1>4. /\ report = "null" => report' = "strict"
      /\ report = "strict" => report' = "loose"
      /\ report = "loose" => report' = "raw"
      /\ report = "raw" => report' = "diodes"
      /\ report = "diodes" => report' = "grid"
      /\ report = "grid" => report' = "printed"
  <2>1. 1 + 1 = 2 /\ 2 + 1 = 3 /\ 3 + 1 = 4 /\ 4 + 1 = 5 /\ 5 + 1 = 6 /\ 6 + 1 = 7
    OBVIOUS
  <2> QED
    BY <1>1, <1>2, <2>1
<1> QED
  BY <1>3, <1>4

LEMMA SweepInitHolds == SweepInit => SweepInv
<1> SUFFICES ASSUME SweepInit PROVE SweepInv
  OBVIOUS
<1>1. /\ measured \in [Varied -> [epush : 1 .. 2, railA : {9, 10, 25}]]
      /\ report = "null" /\ mins = <<>> /\ averages = {}
  BY DEF SweepInit
<1>2. ASSUME NEW name \in lost PROVE (Failed(name) \/ name \in Idle) /\ lost = {name}
  <2> DEFINE kinds == {lower(<<k>>)[1] : k \in KINDS}
  <2>a. PICK lose \in Losses : lost = {lose}
    BY <1>2 DEF SweepInit
  <2>b. CASE lose \in Idle
    BY <2>a, <2>b
  <2> SUFFICES ASSUME lose \notin Idle PROVE Failed(name) /\ lost = {name}
    BY <2>b
  <2>1. PICK kind \in kinds, nm \in Varied : lost = {<<kind>> \o lower(nm)}
    <3> DEFINE called(kind, nm) == <<kind>> \o lower(nm)
    <3>1. Losses = Idle \cup {called(kind, nm) : kind \in kinds, nm \in Varied}
      BY DEF Losses
    <3> HIDE DEF kinds, called
    <3>2. PICK kind \in kinds, nm \in Varied : lose = called(kind, nm)
      BY <3>1
    <3> QED
      BY <2>a, <3>2 DEF called
  <2>2. PICK k \in KINDS : kind = lower(<<k>>)[1]
    BY <2>1
  <2>3. lower(<<k>>)[1] = IF k \in DOMAIN Lower THEN Lower[k] ELSE k
    BY DEF lower
  <2>4. (IF k \in DOMAIN Lower THEN Lower[k] ELSE k) \in Kinds
    BY DEF Kinds, KINDS, Lower
  <2>5. nm \in Grid
    BY SweepAssumption
  <2>6. lower(nm) \in DOMAIN Named
    BY <2>5, NamedIs
  <2> QED
    BY <2>1, <2>2, <2>3, <2>4, <2>6 DEF Failed
<1>3. Averaged({})
  BY <1>1 DEF Averaged
<1> QED
  BY <1>1, <1>2, <1>3 DEF SweepInv

(* A step appends to what was reported, and what was holds on.             *)
LEMMA ReportsOn ==
  ASSUME NEW names \in Seq(DOMAIN Named), SweepInv, mins' = mins \o names, UNCHANGED <<measured, lost>>
  PROVE  /\ mins' \in Seq(DOMAIN Named) /\ Len(mins') = Len(mins) + Len(names)
         /\ \A i \in 1 .. Len(mins) : mins'[i] = mins[i]
         /\ \A i \in 1 .. Len(names) : mins'[Len(mins) + i] = names[i]
<1>1. mins \in Seq(DOMAIN Named)
  BY DEF SweepInv
<1> QED
  BY <1>1, ConcatProperties

LEMMA Steady ==
  ASSUME UNCHANGED <<measured, lost>>
  PROVE  /\ epushes' = epushes
         /\ \A i : Logged(i)' = Logged(i)
         /\ \A kind, i : Has(kind, i)' <=> Has(kind, i)
<1>1. \A i : Logged(i)' = Logged(i)
  BY DEF Logged
<1>2. \A kind, i : Has(kind, i)' <=> Has(kind, i)
  BY DEF Has
<1>3. epushes' = epushes
  BY DEF epushes, Has
<1> QED
  BY <1>1, <1>2, <1>3

LEMMA SteadyToo ==
  ASSUME UNCHANGED <<measured, lost>>
  PROVE  /\ \A i, thr : Cheapest(i, thr)' <=> Cheapest(i, thr)
         /\ \A i : Whole(i)' <=> Whole(i)
         /\ (\A i \in epushes : Has("vraa", i))' <=> \A i \in epushes : Has("vraa", i)
         /\ Gridded' <=> Gridded
         /\ NoRail' <=> NoRail
<1>1. \A i, thr : Cheapest(i, thr)' <=> Cheapest(i, thr)
  BY Steady DEF Cheapest
<1>2. \A i : Whole(i)' <=> Whole(i)
  BY Steady DEF Whole
<1>3. (\A i \in epushes : Has("vraa", i))' <=> \A i \in epushes : Has("vraa", i)
  BY Steady
<1>4. Gridded' <=> Gridded
  BY Steady DEF Gridded
<1>5. NoRail' <=> NoRail
  BY Steady DEF NoRail
<1> QED
  BY <1>1, <1>2, <1>3, <1>4, <1>5

(* What is averaged in.                                                    *)
LEMMA AveragedOn ==
  ASSUME UNCHANGED <<measured, lost>>, NEW parts, NEW part, Averaged(parts),
         averages' = averages \cup {<<part, IdleEnergy>>}
  PROVE  Averaged(parts \cup {part})'
<1>1. IdleEnergy' = IdleEnergy
  BY DEF IdleEnergy
<1> DEFINE E == IdleEnergy
<1>2. averages = parts \X {E} /\ averages' = averages \cup {<<part, E>>}
  BY DEF Averaged
<1> HIDE DEF E
<1>3. (parts \X {E}) \cup {<<part, E>>} = (parts \cup {part}) \X {E}
  OBVIOUS
<1>4. averages' = (parts \cup {part}) \X {E}
  BY <1>2, <1>3
<1> QED
  BY <1>1, <1>4 DEF Averaged, E

LEMMA AveragedStays ==
  ASSUME UNCHANGED <<measured, lost, averages>>, NEW parts, Averaged(parts)
  PROVE  Averaged(parts)'
BY DEF Averaged, IdleEnergy

(* With every instance measured whole a report stops only for want of an   *)
(* instance that asserts its rail.                                         *)
LEMMA AllThere ==
  ASSUME lost \subseteq Idle
  PROVE  /\ epushes = DOMAIN Named
         /\ \A kind \in Kinds, inst \in DOMAIN Named : Has(kind, inst)
<1>1. ASSUME NEW kind \in Kinds, NEW inst \in DOMAIN Named PROVE Has(kind, inst)
  <2>1. kind \in Syllables /\ inst \in Seq(Syllables)
    BY NamedIs DEF Syllables
  <2>2. Head(<<kind>> \o inst) = kind
    BY <2>1, NamesPart
  <2>3. \A m \in Idle : Head(m) \in {"enull", "vra", "vrb"}
    BY DEF Idle, ENull
  <2>4. kind \notin {"enull", "vra", "vrb"}
    BY DEF Kinds
  <2> QED
    BY <2>2, <2>3, <2>4 DEF Has
<1>2. "epush" \in Kinds
  BY DEF Kinds
<1> QED
  BY <1>1, <1>2 DEF epushes

LEMMA ReportsStay ==
  ASSUME UNCHANGED <<measured, lost>>, NEW n \in 0 .. 3, Reports(n), \A i \in 1 .. n : mins'[i] = mins[i]
  PROVE  Reports(n)'
<1>1. /\ n >= 1 => mins'[1] = mins[1]
      /\ n >= 2 => mins'[2] = mins[2]
      /\ n >= 3 => mins'[3] = mins[3]
  OBVIOUS
<1> QED
  BY <1>1, SteadyToo DEF Reports

(* What a part that is reported tells.                                     *)
LEMMA ReportedIs ==
  ASSUME SweepInv, report # "null", NEW thr \in {25, 10, 0}, Reported(thr), ~ Raised
  PROVE  /\ averages' = averages \cup {<<report, IdleEnergy>>}
         /\ \E x \in DOMAIN Named :
              Part(<<x>>) /\ Cheapest(x, thr) /\ Whole(x) /\ (thr > 0 => \A i \in epushes : Has("vraa", i))
<1> DEFINE cands == {i \in epushes : Logged(i).railA >= thr}
<1>1. /\ thr > 0 => \A i \in epushes : Has("vraa", i)
      /\ cands # {} /\ Whole(Least(cands)) /\ Part(<<Least(cands)>>)
      /\ averages' = averages \cup {<<report, null_case[ENull]>>}
  BY DEF Reported, Whole
<1>2. cands \in SUBSET DOMAIN Named
  BY DEF epushes
<1>3. /\ Least(cands) \in cands
      /\ \A j \in cands : Logged(Least(cands)).epush <= Logged(j).epush
  BY <1>1, <1>2, CheapestOne DEF SweepInv
<1>4. Cheapest(Least(cands), thr)
  BY <1>3 DEF Cheapest
<1>5. null_case[ENull] = IdleEnergy
  <2>1. IdleTaken /\ ENull \in Idle /\ Default(ENull) = "nan"
    BY DEF SweepInv, Idle, Default
  <2> QED
    BY <2>1 DEF IdleTaken, IdleEnergy
<1> QED
  BY <1>1, <1>2, <1>3, <1>4, <1>5

(* A part that raises with every instance measured whole.                  *)
LEMMA RaisedIs ==
  ASSUME SweepInv, SweepNext, Raised, lost \subseteq Idle
  PROVE  NoRail
<1>1. report' = "raised" /\ \A names : ~ Part(names) \/ report \notin {"null", "strict", "loose", "raw", "diodes", "grid"}
  <2>1. report' = "raised"
    BY DEF Raised
  <2> QED
    BY <2>1, PartIs
<1>2. /\ epushes = DOMAIN Named
      /\ \A kind \in Kinds, inst \in DOMAIN Named : Has(kind, inst)
  BY AllThere
<1>3. {"vraa", "vrab", "epull", "ecyc1", "ecyc2", "ecyct"} \subseteq Kinds
  BY DEF Kinds
<1>4. measured \in [Varied -> [epush : 1 .. 2, railA : {9, 10, 25}]]
  BY DEF SweepInv
<1>5. ASSUME NEW thr \in {25, 10, 0}, Reported(thr), report \in {"strict", "loose", "raw"}
      PROVE  \A i \in DOMAIN Named : ~ (Logged(i).railA >= thr)
  <2> DEFINE cands == {i \in epushes : Logged(i).railA >= thr}
  <2>1. \A i \in epushes : Has("vraa", i)
    BY <1>2, <1>3
  <2>2. ASSUME cands # {} PROVE FALSE
    <3>1. cands \in SUBSET DOMAIN Named
      BY <1>2
    <3>2. Least(cands) \in DOMAIN Named
      <4> HIDE DEF cands
      <4> QED
        BY <1>4, <2>2, <3>1, CheapestOne
    <3>3. \A kind \in {"vraa", "vrab", "epull", "ecyc1", "ecyc2", "ecyct"} : Has(kind, Least(cands))
      BY <1>2, <1>3, <3>2
    <3>4. Part(<<Least(cands)>>)
      BY <1>5, <2>1, <2>2, <3>3 DEF Reported
    <3> QED
      BY <1>1, <1>5, <3>4
  <2> QED
    BY <1>2, <2>2
<1>6. CASE NullCase
  BY <1>1, <1>6 DEF NullCase
<1>7. CASE report = "strict" /\ Reported(25)
  <2>1. \A i \in DOMAIN Named : ~ (Logged(i).railA >= 25) /\ Logged(i).railA \in Int
    BY <1>4, <1>5, <1>7, LoggedIs
  <2> QED
    BY <2>1 DEF NoRail
<1>8. CASE report = "loose" /\ Reported(10)
  <2>1. Cheapest(mins[1], 25)
    BY <1>8 DEF SweepInv, Reports
  <2>2. mins[1] \in DOMAIN Named /\ Logged(mins[1]).railA >= 25 /\ Logged(mins[1]).railA \in Int
    BY <1>2, <1>4, <2>1, LoggedIs DEF Cheapest
  <2>3. ~ (Logged(mins[1]).railA >= 10)
    BY <1>5, <1>8, <2>2
  <2> QED
    BY <2>2, <2>3
<1>9. CASE report = "raw" /\ Reported(0)
  <2>1. Cheapest(mins[1], 25)
    BY <1>9 DEF SweepInv, Reports
  <2>2. mins[1] \in DOMAIN Named /\ Logged(mins[1]).railA >= 25 /\ Logged(mins[1]).railA \in Int
    BY <1>2, <1>4, <2>1, LoggedIs DEF Cheapest
  <2>3. ~ (Logged(mins[1]).railA >= 0)
    BY <1>5, <1>9, <2>2
  <2> QED
    BY <2>2, <2>3
<1>10. CASE Diodes
  <2>1. \A i \in epushes : Has("vraa", i)
    BY <1>2, <1>3
  <2>2. report = "diodes" /\ \E names : Part(names)
    BY <1>10, <2>1 DEF Diodes
  <2> QED
    BY <1>1, <2>2
<1>11. CASE FullGrid
  <2>1. \A i \in epushes, kind \in {"vraa", "vrab", "epull", "ecyc2"} : Has(kind, i)
    BY <1>2, <1>3
  <2>2. report = "grid" /\ Part(<<>>)
    BY <1>11, <2>1 DEF FullGrid
  <2> QED
    BY <1>1, <2>2
<1> QED
  BY <1>6, <1>7, <1>8, <1>9, <1>10, <1>11 DEF SweepNext, Minimum

LEMMA TwoOnes ==
  ASSUME NEW S, NEW a \in S, NEW b \in S
  PROVE  <<a>> \o <<b>> = <<a, b>>
<1> DEFINE c == <<a>> \o <<b>>
           d == <<a, b>>
<1>1. <<a>> \in Seq(S) /\ Len(<<a>>) = 1 /\ <<b>> \in Seq(S) /\ Len(<<b>>) = 1
      /\ <<a>>[1] = a /\ <<b>>[1] = b
  OBVIOUS
<1>2. /\ c \in Seq(S) /\ Len(c) = 1 + 1
      /\ \A i \in 1 .. 1 + 1 : c[i] = IF i <= 1 THEN <<a>>[i] ELSE <<b>>[i - 1]
  BY <1>1, ConcatProperties
<1>3. d \in Seq(S) /\ Len(d) = 2 /\ d[1] = a /\ d[2] = b
  OBVIOUS
<1> HIDE DEF c, d
<1>4. \A i \in 1 .. 2 : c[i] = d[i]
  <2>1. \A i \in 1 .. 2 : i = 1 \/ i = 2
    OBVIOUS
  <2> QED
    BY <1>1, <1>2, <1>3, <2>1
<1>5. c = d
  BY <1>2, <1>3, <1>4, SeqEqual
<1> QED
  BY <1>5 DEF c, d

(* One of the diodes has the cheapest push of both.                        *)
LEMMA DiodesIs ==
  ASSUME SweepInv, report = "diodes", Diodes, ~ Raised
  PROVE  \E names \in Seq(DOMAIN Named) :
            /\ Part(names) /\ Len(names) >= 1
            /\ \A k \in 1 .. Len(names) :
                 names[k] \in epushes /\ Logged(mins[1]).epush <= Logged(names[k]).epush
            /\ \E k \in 1 .. Len(names) : Logged(names[k]).epush = Logged(mins[1]).epush
<1> DEFINE cands(dmod) == {i \in epushes : decode(i).diode = dmod /\ Logged(i).railA >= 25}
           Best(dmod)  == IF cands(dmod) = {} THEN <<>> ELSE <<Least(cands(dmod))>>
           names == Best("IDEAL") \o Best("SCHOTTKY")
<1>1. Part(names)
  BY DEF Diodes
<1>2. Cheapest(mins[1], 25)
  BY DEF SweepInv, Reports
<1>3. \A i \in epushes : i \in DOMAIN Named /\ Logged(i).epush \in Int
  BY LoggedIs DEF SweepInv, epushes
<1>4. ASSUME NEW dmod, cands(dmod) # {}
      PROVE  /\ Least(cands(dmod)) \in cands(dmod)
             /\ \A j \in cands(dmod) : Logged(Least(cands(dmod))).epush <= Logged(j).epush
  <2>1. cands(dmod) \in SUBSET DOMAIN Named
    BY DEF epushes
  <2>2. measured \in [Varied -> [epush : 1 .. 2, railA : {9, 10, 25}]]
    BY DEF SweepInv
  <2> HIDE DEF cands
  <2> QED
    BY <1>4, <2>1, <2>2, CheapestOne
<1>5. ASSUME NEW dmod, NEW i \in cands(dmod)
      PROVE  i \in epushes /\ Logged(mins[1]).epush <= Logged(i).epush
  BY <1>2 DEF Cheapest
<1>6. mins[1] \in cands("IDEAL") \/ mins[1] \in cands("SCHOTTKY")
  <2>1. decode(mins[1]).diode \in {"IDEAL", "SCHOTTKY"}
    BY DEF decode
  <2> QED
    BY <1>2, <2>1 DEF Cheapest
<1>7. ASSUME NEW dmod, mins[1] \in cands(dmod)
      PROVE  Logged(Least(cands(dmod))).epush = Logged(mins[1]).epush
  <2>1. Least(cands(dmod)) \in epushes /\ mins[1] \in epushes
    BY <1>4, <1>7
  <2> HIDE DEF cands
  <2>2. /\ Logged(Least(cands(dmod))).epush <= Logged(mins[1]).epush
        /\ Logged(mins[1]).epush <= Logged(Least(cands(dmod))).epush
    BY <1>4, <1>5, <1>7
  <2> QED
    BY <1>3, <2>1, <2>2
<1> DEFINE a == Least(cands("IDEAL"))
           b == Least(cands("SCHOTTKY"))
<1>8. /\ cands("IDEAL") # {} => /\ a \in epushes /\ Logged(mins[1]).epush <= Logged(a).epush
                                /\ mins[1] \in cands("IDEAL") => Logged(a).epush = Logged(mins[1]).epush
      /\ cands("SCHOTTKY") # {} => /\ b \in epushes /\ Logged(mins[1]).epush <= Logged(b).epush
                                   /\ mins[1] \in cands("SCHOTTKY") => Logged(b).epush = Logged(mins[1]).epush
  <2> HIDE DEF cands
  <2> QED
    BY <1>4, <1>5, <1>7
<1>9. epushes \subseteq DOMAIN Named
  BY DEF epushes
<1> DEFINE ideal == cands("IDEAL")
           schottky == cands("SCHOTTKY")
<1> HIDE DEF cands, a, b
<1>10. CASE ideal # {} /\ schottky # {}
  <2>1. names = <<a>> \o <<b>>
    BY <1>10 DEF a, b
  <2>2. <<a>> \o <<b>> = <<a, b>>
    BY <1>8, <1>10, TwoOnes
  <2>3. <<a, b>> \in Seq(DOMAIN Named) /\ Len(<<a, b>>) = 2 /\ <<a, b>>[1] = a /\ <<a, b>>[2] = b
    BY <1>8, <1>9, <1>10
  <2> DEFINE ab == <<a, b>>
  <2>4. Part(ab)
    BY <1>1, <2>1, <2>2
  <2>5. ab \in Seq(DOMAIN Named) /\ Len(ab) = 2 /\ ab[1] = a /\ ab[2] = b
    BY <2>3
  <2> HIDE DEF ab, names
  <2>6. \A k \in 1 .. Len(ab) : ab[k] \in epushes /\ Logged(mins[1]).epush <= Logged(ab[k]).epush
    BY <1>8, <1>10, <2>5
  <2>7. \E k \in 1 .. Len(ab) : Logged(ab[k]).epush = Logged(mins[1]).epush
    BY <1>6, <1>8, <1>10, <2>5
  <2>8. ab \in Seq(DOMAIN Named) /\ Len(ab) >= 1
    BY <2>5
  <2> QED
    BY <2>4, <2>6, <2>7, <2>8, Zenon
<1>11. CASE ideal # {} /\ schottky = {}
  <2> DEFINE only == <<a>>
  <2>1. names = only
    BY <1>11 DEF a
  <2>2. only \in Seq(DOMAIN Named) /\ Len(only) = 1 /\ only[1] = a
    BY <1>8, <1>9, <1>11
  <2> HIDE DEF only
  <2>3. \A k \in 1 .. Len(only) : only[k] \in epushes /\ Logged(mins[1]).epush <= Logged(only[k]).epush
    BY <1>8, <1>11, <2>2
  <2>4. \E k \in 1 .. Len(only) : Logged(only[k]).epush = Logged(mins[1]).epush
    BY <1>6, <1>8, <1>11, <2>2
  <2>5. Part(only)
    BY <1>1, <2>1
  <2>6. only \in Seq(DOMAIN Named) /\ Len(only) >= 1
    BY <2>2
  <2> QED
    BY <2>3, <2>4, <2>5, <2>6, Zenon
<1>12. CASE ideal = {} /\ schottky # {}
  <2> DEFINE only == <<b>>
  <2>1. names = only
    BY <1>12 DEF b
  <2>2. only \in Seq(DOMAIN Named) /\ Len(only) = 1 /\ only[1] = b
    BY <1>8, <1>9, <1>12
  <2> HIDE DEF only
  <2>3. \A k \in 1 .. Len(only) : only[k] \in epushes /\ Logged(mins[1]).epush <= Logged(only[k]).epush
    BY <1>8, <1>12, <2>2
  <2>4. \E k \in 1 .. Len(only) : Logged(only[k]).epush = Logged(mins[1]).epush
    BY <1>6, <1>8, <1>12, <2>2
  <2>5. Part(only)
    BY <1>1, <2>1
  <2>6. only \in Seq(DOMAIN Named) /\ Len(only) >= 1
    BY <2>2
  <2> QED
    BY <2>3, <2>4, <2>5, <2>6, Zenon
<1> QED
  BY <1>6, <1>10, <1>11, <1>12

LEMMA GridIs ==
  ASSUME FullGrid, ~ Raised
  PROVE  Part(<<>>) /\ Gridded
BY DEF FullGrid, Gridded

LEMMA SweepNextKeeps ==
  ASSUME SweepInv, SweepNext
  PROVE  SweepInv'
<1>1. /\ UNCHANGED <<measured, lost>>
      /\ ~ NullCase => report # "null" /\ UNCHANGED null_case
  BY DEF SweepNext, NullCase, Minimum, Diodes, FullGrid
<1>2. /\ measured' \in [Varied -> [epush : 1 .. 2, railA : {9, 10, 25}]]
      /\ \A name \in lost' : (Failed(name) \/ name \in Idle) /\ lost' = {name}
  BY <1>1 DEF SweepInv
<1>n. CASE NullCase
  <2>1. report = "null" /\ Part(<<>>) /\ UNCHANGED averages /\ IdleTaken'
    BY <1>1, <1>n DEF NullCase, IdleTaken
  <2>2. mins \in Seq(DOMAIN Named) /\ Len(mins) = 0 /\ Averaged({})
    BY <2>1 DEF SweepInv
  <2>3. mins' = mins /\ report' = "strict"
    BY <2>1, <2>2, PartIs
  <2>4. Averaged({})'
    BY <1>1, <2>1, <2>2, AveragedStays
  <2> QED
    BY <1>2, <2>1, <2>2, <2>3, <2>4 DEF SweepInv
<1> SUFFICES ASSUME ~ NullCase PROVE SweepInv'
  BY <1>n
<1>i. IdleTaken'
  <2>1. IdleTaken
    BY <1>1 DEF SweepInv
  <2> QED
    BY <1>1, <2>1 DEF IdleTaken
<1>3. CASE Raised
  <2>1. lost' \subseteq Idle => NoRail'
    <3>1. lost \subseteq Idle => NoRail
      BY <1>3, RaisedIs
    <3> QED
      BY <1>1, <3>1, SteadyToo
  <2>2. report' = "raised" /\ UNCHANGED mins
    BY <1>3 DEF Raised
  <2> QED
    BY <1>2, <1>i, <2>1, <2>2 DEF SweepInv
<1>4. ASSUME ~ Raised, report = "strict", Reported(25)
      PROVE  SweepInv'
  <2>1. PICK x \in DOMAIN Named :
           Part(<<x>>) /\ Cheapest(x, 25) /\ Whole(x) /\ \A i \in epushes : Has("vraa", i)
    <3>1. PICK x \in DOMAIN Named :
             Part(<<x>>) /\ Cheapest(x, 25) /\ Whole(x) /\ (25 > 0 => \A i \in epushes : Has("vraa", i))
      BY <1>1, <1>4, ReportedIs
    <3> QED
      BY <3>1
  <2>2. <<x>> \in Seq(DOMAIN Named) /\ Len(<<x>>) = 1 /\ <<x>>[1] = x /\ 1 \in 1 .. 1
    OBVIOUS
  <2>3. mins' = mins \o <<x>> /\ report' = "loose" /\ Len(mins) = 0
    BY <1>4, <2>1, PartIs DEF SweepInv
  <2>4. mins' \in Seq(DOMAIN Named) /\ Len(mins') = 1 /\ mins'[1] = x
    BY <1>1, <2>2, <2>3, ReportsOn
  <2>5. Reports(1)'
    BY <1>1, <2>1, <2>4, SteadyToo DEF Reports
  <2>6. Averaged({"strict"})'
    <3>1. Averaged({}) /\ averages' = averages \cup {<<"strict", IdleEnergy>>}
      BY <1>1, <1>4, ReportedIs DEF SweepInv
    <3>2. Averaged({} \cup {"strict"})'
      BY <1>1, <3>1, AveragedOn
    <3>3. {} \cup {"strict"} = {"strict"}
      OBVIOUS
    <3> QED
      BY <3>2, <3>3
  <2> QED
    BY <1>2, <1>i, <2>3, <2>4, <2>5, <2>6 DEF SweepInv
<1>5. ASSUME ~ Raised, report = "loose", Reported(10)
      PROVE  SweepInv'
  <2>1. PICK x \in DOMAIN Named : Part(<<x>>) /\ Cheapest(x, 10) /\ Whole(x)
    BY <1>1, <1>5, ReportedIs
  <2>2. <<x>> \in Seq(DOMAIN Named) /\ Len(<<x>>) = 1 /\ <<x>>[1] = x /\ 1 \in 1 .. 1
    OBVIOUS
  <2>3. mins' = mins \o <<x>> /\ report' = "raw" /\ Len(mins) = 1 /\ Reports(1)
    BY <1>5, <2>1, PartIs DEF SweepInv
  <2>4. mins' \in Seq(DOMAIN Named) /\ Len(mins') = 2 /\ mins'[2] = x /\ mins'[1] = mins[1]
    <3>1. Len(mins') = Len(mins) + 1 /\ mins'[Len(mins) + 1] = <<x>>[1]
      BY <1>1, <2>2, <2>3, ReportsOn
    <3> QED
      BY <1>1, <2>2, <2>3, <3>1, ReportsOn
  <2>5. Reports(1)'
    BY <1>1, <2>3, <2>4, ReportsStay
  <2>6. Reports(2)'
    BY <1>1, <2>1, <2>4, <2>5, SteadyToo DEF Reports
  <2>7. Averaged({"strict", "loose"})'
    <3>1. Averaged({"strict"}) /\ averages' = averages \cup {<<"loose", IdleEnergy>>}
      BY <1>1, <1>5, ReportedIs DEF SweepInv
    <3>2. Averaged({"strict"} \cup {"loose"})'
      BY <1>1, <3>1, AveragedOn
    <3>3. {"strict"} \cup {"loose"} = {"strict", "loose"}
      OBVIOUS
    <3> QED
      BY <3>2, <3>3
  <2> QED
    BY <1>2, <1>i, <2>3, <2>4, <2>6, <2>7 DEF SweepInv
<1>6. ASSUME ~ Raised, report = "raw", Reported(0)
      PROVE  SweepInv'
  <2>1. PICK x \in DOMAIN Named : Part(<<x>>) /\ Cheapest(x, 0) /\ Whole(x)
    BY <1>1, <1>6, ReportedIs
  <2>2. <<x>> \in Seq(DOMAIN Named) /\ Len(<<x>>) = 1 /\ <<x>>[1] = x /\ 1 \in 1 .. 1
    OBVIOUS
  <2>3. mins' = mins \o <<x>> /\ report' = "diodes" /\ Len(mins) = 2 /\ Reports(2)
    BY <1>6, <2>1, PartIs DEF SweepInv
  <2>4. mins' \in Seq(DOMAIN Named) /\ Len(mins') = 3 /\ mins'[3] = x /\ \A i \in 1 .. 2 : mins'[i] = mins[i]
    <3>1. Len(mins') = Len(mins) + 1 /\ mins'[Len(mins) + 1] = <<x>>[1]
      BY <1>1, <2>2, <2>3, ReportsOn
    <3>2. mins' \in Seq(DOMAIN Named) /\ \A k \in 1 .. Len(mins) : mins'[k] = mins[k]
      BY <1>1, <2>2, <2>3, ReportsOn
    <3> QED
      BY <2>2, <2>3, <3>1, <3>2
  <2>5. Reports(2)'
    BY <1>1, <2>3, <2>4, ReportsStay
  <2>6. Reports(3)'
    BY <1>1, <2>1, <2>4, <2>5, SteadyToo DEF Reports
  <2>7. Averaged({"strict", "loose", "raw"})'
    <3>1. Averaged({"strict", "loose"}) /\ averages' = averages \cup {<<"raw", IdleEnergy>>}
      BY <1>1, <1>6, ReportedIs DEF SweepInv
    <3>2. Averaged({"strict", "loose"} \cup {"raw"})'
      BY <1>1, <3>1, AveragedOn
    <3>3. {"strict", "loose"} \cup {"raw"} = {"strict", "loose", "raw"}
      OBVIOUS
    <3> QED
      BY <3>2, <3>3
  <2> QED
    BY <1>2, <1>i, <2>3, <2>4, <2>6, <2>7 DEF SweepInv
<1>7. ASSUME ~ Raised, Diodes
      PROVE  SweepInv'
  <2>1. report = "diodes" /\ Len(mins) = 3 /\ Reports(3)
    BY <1>7 DEF Diodes, SweepInv
  <2>2. PICK names \in Seq(DOMAIN Named) :
           /\ Part(names) /\ Len(names) >= 1
           /\ \A k \in 1 .. Len(names) :
                names[k] \in epushes /\ Logged(mins[1]).epush <= Logged(names[k]).epush
           /\ \E k \in 1 .. Len(names) : Logged(names[k]).epush = Logged(mins[1]).epush
    BY <1>7, <2>1, DiodesIs
  <2>3. mins' = mins \o names /\ report' = "grid"
    BY <2>1, <2>2, PartIs
  <2>4. /\ mins' \in Seq(DOMAIN Named) /\ Len(mins') = 3 + Len(names)
        /\ \A i \in 1 .. 3 : mins'[i] = mins[i]
        /\ \A i \in 1 .. Len(names) : mins'[3 + i] = names[i]
    BY <1>1, <2>1, <2>3, ReportsOn
  <2>5. Reports(3)'
    BY <1>1, <2>1, <2>4, ReportsStay
  <2>6. \A i : Logged(i)' = Logged(i)
    BY <1>1, Steady
  <2>7. epushes' = epushes
    BY <1>1, Steady
  <2>8. Len(names) \in Nat
    OBVIOUS
  <2>9. \A k \in 4 .. Len(mins') : k - 3 \in 1 .. Len(names) /\ mins'[k] = names[k - 3]
    BY <2>4, <2>8
  <2>10. (\A k \in 4 .. Len(mins) : mins[k] \in epushes /\ Logged(mins[1]).epush <= Logged(mins[k]).epush)'
    BY <2>2, <2>4, <2>6, <2>7, <2>9
  <2>11. (\E k \in 4 .. Len(mins) : Logged(mins[k]).epush = Logged(mins[1]).epush)'
    <3>1. PICK k \in 1 .. Len(names) : Logged(names[k]).epush = Logged(mins[1]).epush
      BY <2>2
    <3>2. k + 3 \in 4 .. Len(mins') /\ mins'[k + 3] = names[k]
      BY <2>4, <2>8
    <3> QED
      BY <2>4, <2>6, <3>1, <3>2
  <2>12. Shares'
    BY <2>10, <2>11 DEF Shares
  <2>13. Averaged({"strict", "loose", "raw"})'
    <3>1. Averaged({"strict", "loose", "raw"}) /\ UNCHANGED averages
      BY <1>7, <2>1 DEF SweepInv, Diodes
    <3> QED
      BY <1>1, <3>1, AveragedStays
  <2> QED
    BY <1>2, <1>i, <2>2, <2>3, <2>4, <2>5, <2>8, <2>12, <2>13 DEF SweepInv
<1>8. ASSUME ~ Raised, FullGrid
      PROVE  SweepInv'
  <2>1. report = "grid" /\ Len(mins) >= 4 /\ Reports(3) /\ Shares /\ mins \in Seq(DOMAIN Named)
    BY <1>8 DEF FullGrid, SweepInv
  <2>2. Part(<<>>) /\ Gridded
    BY <1>8, GridIs
  <2>3. mins' = mins /\ report' = "printed"
    BY <2>1, <2>2, PartIs
  <2>4. Reports(3)'
    BY <1>1, <2>1, <2>3, ReportsStay
  <2>5. Shares'
    <3>1. \A i : Logged(i)' = Logged(i)
      BY <1>1, Steady
    <3>2. epushes' = epushes
      BY <1>1, Steady
    <3> QED
      BY <2>1, <2>3, <3>1, <3>2 DEF Shares
  <2>6. Gridded'
    BY <1>1, <2>2, SteadyToo
  <2>7. Averaged({"strict", "loose", "raw"})'
    <3>1. Averaged({"strict", "loose", "raw"}) /\ UNCHANGED averages
      BY <1>8, <2>1 DEF SweepInv, FullGrid
    <3> QED
      BY <1>1, <3>1, AveragedStays
  <2> QED
    BY <1>2, <1>i, <2>1, <2>3, <2>4, <2>5, <2>6, <2>7 DEF SweepInv
<1> QED
  BY <1>3, <1>4, <1>5, <1>6, <1>7, <1>8 DEF SweepNext, Minimum

LEMMA SweepInvSuffices ==
  ASSUME SweepInv
  PROVE  SweepStands
<1> DEFINE energy(i) == Logged(mins[i]).epush
<1>1. ASSUME NEW nm \in Grid PROVE decode(inst_of(<<"epush">> \o lower(nm))) = Settings(nm)
  <2>1. lower(nm) \in Seq(Syllables) /\ "epush" \in Syllables
    BY LowerIs DEF Syllables, Kinds
  <2>2. inst_of(<<"epush">> \o lower(nm)) = lower(nm)
    BY <2>1, NamesPart
  <2> QED
    BY <2>2, DecodeIs
<1>2. ASSUME report = "printed"
      PROVE  /\ energy(3) <= energy(2) /\ energy(2) <= energy(1)
             /\ energy(1) = Min({energy(i) : i \in 4 .. Len(mins)})
             /\ \A name \in lost :
                  \/ Head(name) = "epush" /\ inst_of(name) \notin ToSet(mins)
                  \/ Head(name) = "vlna"
                  \/ Head(name) \in {"ecyc1", "ecyct"} /\ inst_of(name) \notin {mins[1], mins[2], mins[3]}
                  \/ name \in Idle \ {ENull} /\ null_case[name] = "zero"
                  \/ name = ENull
             /\ averages = {"strict", "loose", "raw"}
                            \X {IF ENull \in lost THEN "nan" ELSE "measured"}
  <2>1. /\ measured \in [Varied -> [epush : 1 .. 2, railA : {9, 10, 25}]]
        /\ mins \in Seq(DOMAIN Named) /\ Len(mins) >= 4 /\ Shares /\ Gridded
        /\ \A i \in epushes : Has("vraa", i)
        /\ Cheapest(mins[1], 25) /\ Cheapest(mins[2], 10) /\ Cheapest(mins[3], 0)
        /\ Whole(mins[1]) /\ Whole(mins[2]) /\ Whole(mins[3])
    BY <1>2 DEF SweepInv, Reports
  <2>2. \A i \in epushes : i \in DOMAIN Named /\ Logged(i).epush \in Int /\ Logged(i).railA \in Int
    BY <2>1, LoggedIs DEF epushes
  <2>3. energy(2) <= energy(1)
    BY <2>1, <2>2 DEF Cheapest
  <2>4. energy(3) <= energy(2)
    BY <2>1, <2>2 DEF Cheapest
  <2>5. energy(1) = Min({energy(i) : i \in 4 .. Len(mins)})
    <3> DEFINE T == {energy(i) : i \in 4 .. Len(mins)}
    <3>1. energy(1) \in T /\ \A y \in T : energy(1) <= y /\ y \in Int
      BY <2>1, <2>2 DEF Shares
    <3>2. energy(1) \in Int
      BY <2>1, <2>2 DEF Cheapest
    <3> HIDE DEF T, energy
    <3>3. \A x \in T : (\A y \in T : x <= y) => x = energy(1)
      BY <3>1, <3>2
    <3>4. Min(T) = energy(1)
      BY <3>1, <3>3 DEF Min
    <3> QED
      BY <3>4 DEF T
  <2>6. \A k \in 1 .. Len(mins) : mins[k] \in epushes
    <3>1. \A k \in 1 .. Len(mins) : k = 1 \/ k = 2 \/ k = 3 \/ k \in 4 .. Len(mins)
      BY <2>1
    <3> QED
      BY <2>1, <3>1 DEF Cheapest, Shares
  <2>7. ASSUME NEW name \in lost
        PROVE  \/ Head(name) = "epush" /\ inst_of(name) \notin ToSet(mins)
               \/ Head(name) = "vlna"
               \/ Head(name) \in {"ecyc1", "ecyct"} /\ inst_of(name) \notin {mins[1], mins[2], mins[3]}
               \/ name \in Idle \ {ENull} /\ null_case[name] = "zero"
               \/ name = ENull
    <3>i. CASE name \in Idle
      <4>1. IdleTaken
        BY <1>2 DEF SweepInv
      <4>2. name # ENull => null_case[name] = "zero"
        BY <2>7, <3>i, <4>1 DEF IdleTaken, Default
      <4> QED
        BY <3>i, <4>2
    <3> SUFFICES ASSUME name \notin Idle
                 PROVE  \/ Head(name) = "epush" /\ inst_of(name) \notin ToSet(mins)
                        \/ Head(name) = "vlna"
                        \/ /\ Head(name) \in {"ecyc1", "ecyct"}
                           /\ inst_of(name) \notin {mins[1], mins[2], mins[3]}
      BY <3>i
    <3>1. PICK kind \in Kinds, inst \in DOMAIN Named : name = <<kind>> \o inst
      BY <2>7 DEF SweepInv, Failed
    <3>2. inst \in Seq(Syllables) /\ kind \in Syllables
      BY NamedIs DEF Syllables
    <3>3. Head(name) = kind /\ inst_of(name) = inst
      BY <3>1, <3>2, NamesPart
    <3>4. ~ Has(kind, inst)
      BY <2>7, <3>1 DEF Has
    <3>5. CASE kind = "epush"
      <4>1. inst \notin epushes
        BY <3>4, <3>5 DEF epushes
      <4>2. \A i \in ToSet(mins) : i \in epushes
        BY <2>1, <2>6 DEF ToSet
      <4> QED
        BY <3>3, <3>5, <4>1, <4>2
    <3>6. CASE kind # "epush"
      <4>1. <<"epush">> \o inst # name
        <5>1. "epush" \in Syllables
          BY DEF Syllables, Kinds
        <5>2. Head(<<"epush">> \o inst) = "epush"
          BY <3>2, <5>1, NamesPart
        <5> QED
          BY <3>3, <3>6, <5>2
      <4>2. inst \in epushes
        <5>1. lost = {name}
          BY <2>7 DEF SweepInv
        <5> QED
          BY <4>1, <5>1 DEF epushes, Has
      <4>3. kind \notin {"vraa", "vrab", "epull", "ecyc2"}
        BY <2>1, <3>4, <4>2 DEF Gridded
      <4>4. CASE kind = "vlna"
        BY <3>3, <4>4
      <4>5. CASE kind \in {"ecyc1", "ecyct"}
        <5>1. inst # mins[1] /\ inst # mins[2] /\ inst # mins[3]
          BY <2>1, <3>4, <4>5 DEF Whole
        <5> QED
          BY <3>3, <4>5, <5>1
      <4> QED
        BY <3>6, <4>3, <4>4, <4>5 DEF Kinds
    <3> QED
      BY <3>5, <3>6
  <2>8. averages = {"strict", "loose", "raw"} \X {IF ENull \in lost THEN "nan" ELSE "measured"}
    BY <1>2 DEF SweepInv, Averaged, IdleEnergy
  <2> QED
    BY <2>3, <2>4, <2>5, <2>7, <2>8
<1>3. report = "raised" /\ lost \subseteq Idle => \A i \in DOMAIN Named : Logged(i).railA < 25
  BY DEF SweepInv, NoRail
<1> HIDE DEF energy
<1> QED
  BY <1>1, <1>2, <1>3 DEF SweepStands, energy

(* Whichever cells are varied and whatever the others measure, and         *)
(* whichever one measurement is missing, the idle driver's among them: a   *)
(* name leads back to its levers; a report that reaches its end has named  *)
(* as the cheapest what is the cheapest of what the log has, and of what   *)
(* is missing used nothing but the defaults of analyze_sweep.py:44-45, the *)
(* NaN in every average and the zero volts; and a missing measurement of   *)
(* the idle driver never stops it.                                         *)
THEOREM ReportStands == Spec => []SweepStands
<1>1. Init => SweepInv
  BY SweepInitHolds DEF Init
<1>2. SweepInv /\ [Next]_scriptVars => SweepInv'
  <2> SUFFICES ASSUME SweepInv, [Next]_scriptVars PROVE SweepInv'
    OBVIOUS
  <2>1. SweepNext \/ UNCHANGED sweepVars
    BY DEF Next, scriptVars
  <2>2. CASE UNCHANGED sweepVars
    <3>1. /\ measured' = measured /\ lost' = lost /\ report' = report /\ mins' = mins
          /\ null_case' = null_case /\ averages' = averages
      BY <2>2 DEF sweepVars
    <3>2. \A n : Reports(n)' <=> Reports(n)
      BY <3>1, SteadyToo DEF Reports
    <3>3. Shares' <=> Shares
      BY <3>1, Steady DEF Shares
    <3>4. (Gridded' <=> Gridded) /\ (NoRail' <=> NoRail)
      BY <3>1, SteadyToo
    <3>5. (IdleTaken' <=> IdleTaken) /\ \A parts : Averaged(parts)' <=> Averaged(parts)
      BY <3>1 DEF IdleTaken, Averaged, IdleEnergy
    <3> QED
      BY <3>1, <3>2, <3>3, <3>4, <3>5 DEF SweepInv, Failed
  <2> QED
    BY <2>1, <2>2, SweepNextKeeps
<1>3. SweepInv => SweepStands
  BY SweepInvSuffices
<1> QED
  BY <1>1, <1>2, <1>3, PTL DEF Spec

-----------------------------------------------------------------------------
(* The summary of the low-swing sweep.                                     *)

(* A finite set in an order that is total has a first.                     *)
LEMMA FirstOf ==
  ASSUME NEW S, IsFiniteSet(S), NEW R,
         \A i, j \in S : <<i, j>> \in R \/ <<j, i>> \in R,
         \A i, j, k \in S : <<i, j>> \in R /\ <<j, k>> \in R => <<i, k>> \in R,
         NEW is \in SUBSET S, is # {}
  PROVE  \E i \in is : \A j \in is : <<i, j>> \in R
<1> DEFINE Has1(s) == \E i \in s : \A j \in s : <<i, j>> \in R
           T == {s \in SUBSET S : s # {} => Has1(s)}
<1>1. ASSUME NEW s \in SUBSET S, \A x \in s : s \ {x} \in T
      PROVE  s \in T
  <2>1. CASE s = {}
    BY <2>1
  <2>2. CASE s # {}
    <3>1. PICK x \in s : TRUE
      BY <2>2
    <3>2. CASE s \ {x} = {}
      <4>1. s = {x}
        BY <3>1, <3>2
      <4>2. <<x, x>> \in R
        BY <3>1
      <4> QED
        BY <4>1, <4>2
    <3>3. CASE s \ {x} # {}
      <4>1. PICK f \in s \ {x} : \A j \in s \ {x} : <<f, j>> \in R
        BY <1>1, <3>1, <3>3
      <4>2. f \in S /\ x \in S
        BY <3>1
      <4>3. CASE <<f, x>> \in R
        <5>1. \A j \in s : <<f, j>> \in R
          BY <4>1, <4>3
        <5> QED
          BY <4>1, <5>1
      <4>4. CASE <<x, f>> \in R
        <5>1. <<x, x>> \in R
          BY <4>2
        <5>2. \A j \in s : <<x, j>> \in R
          BY <4>1, <4>2, <4>4, <5>1
        <5> QED
          BY <3>1, <5>2
      <4> QED
        BY <4>2, <4>3, <4>4
    <3> QED
      BY <3>2, <3>3
  <2> QED
    BY <2>1, <2>2
<1>2. \A s \in SUBSET S : s \in T
  <2> HIDE DEF T
  <2> QED
    BY <1>1, SubsetClimb
<1> QED
  BY <1>2

(* What the summary takes from a row: where the sense amplifier is OK it   *)
(* is the receiver, and where the preamp is there is one.                  *)
Amount == {NaN} \cup {<<v>> : v \in Int}

GoodRow(r) ==
  /\ r.vd \in Nat /\ r.rec \in {"SA", "preamp", "NONE"}
  /\ r.clsA = <<"OK", "OK">> <=> r.rec = "SA"
  /\ r.clsB = <<"OK", "OK">> => r.rec # "NONE"
  /\ r.total \in Amount

GoodRows(rs) == \E n \in Nat : DOMAIN rs = 1 .. n /\ Len(rs) = n /\ \A i \in 1 .. n : GoodRow(rs[i])

LEMMA AmountIs ==
  ASSUME NEW u \in Amount
  PROVE  u # NaN => u[1] \in Int
<1>1. CASE u \in {<<v>> : v \in Int}
  <2>1. PICK v \in Int : u = <<v>>
    BY <1>1
  <2> QED
    BY <2>1
<1> QED
  BY <1>1 DEF Amount

LEMMA AddsUp ==
  ASSUME NEW u \in Amount, NEW v \in Amount
  PROVE  Plus2(u, v) \in Amount
<1>1. CASE u = NaN \/ v = NaN
  BY <1>1 DEF Plus2, Amount
<1>2. CASE u # NaN /\ v # NaN
  <2>1. u[1] + v[1] \in Int
    BY <1>2, AmountIs
  <2>2. Plus2(u, v) = <<u[1] + v[1]>>
    BY <1>2 DEF Plus2
  <2> QED
    BY <2>1, <2>2 DEF Amount
<1> QED
  BY <1>1, <1>2

LEMMA OutcomesCount ==
  ASSUME NEW M \in OUTCOMES
  PROVE  \A k \in DOMAIN M : M[k] \in Int
<1> DEFINE few == [k \in DOMAIN Resolving \ {"e_rec_a"} |-> Resolving[k]]
           none == [k \in {} |-> 0]
<1>1. ASSUME NEW a \in Int, NEW b \in Int, NEW c \in Int, NEW d \in Int
      PROVE  \A k \in DOMAIN Outcome(a, b, c, d) : Outcome(a, b, c, d)[k] \in Int
  BY DEF Outcome
<1>2. \A k \in DOMAIN Resolving : Resolving[k] \in Int
  BY <1>1 DEF Resolving
<1>3. \A k \in DOMAIN few : few[k] \in Int
  BY <1>2
<1>4. \A k \in DOMAIN none : none[k] \in Int
  OBVIOUS
<1>5. (\E a, b, c, d \in Int : M = Outcome(a, b, c, d)) \/ M = few \/ M = none
  <2>1. \/ M = Outcome(10, 12, 30, 30) \/ M = Outcome(9, 12, 10, 30) \/ M = Outcome(5, 5, 7, 5)
        \/ M = Outcome(0, 2, 4, -3) \/ M = few \/ M = none
    BY DEF OUTCOMES, Resolving
  <2>2. -3 \in Int
    OBVIOUS
  <2> HIDE DEF few, none
  <2> QED
    BY <2>1, <2>2
<1> HIDE DEF few, none
<1> QED
  BY <1>1, <1>3, <1>4, <1>5

LEMMA RowIs ==
  ASSUME NEW section, section.params.vd \in Nat, section.meas \in OUTCOMES
  PROVE  GoodRow(Row(section))
<1> DEFINE g(k)  == IF k \in DOMAIN section.meas THEN <<section.meas[k]>> ELSE NaN
           okA   == AtLeast(g("da_pa"), 10) /\ AtLeast(g("db_na"), 10)
           okB   == AtLeast(g("da_pb"), 10) /\ AtLeast(g("db_nb"), 10)
           ifSA  == g("e_rec_a")
           ifPA  == g("e_rec_b")
           wire  == Plus2(g("e_drv"), <<section.params.vd>>)
           iface == IF okA THEN ifSA ELSE IF okB \/ Below(ifPA, ifSA) THEN ifPA ELSE ifSA
           r == Row(section)
<1>1. /\ r.vd = section.params.vd
      /\ r.rec = IF okA THEN "SA" ELSE IF okB THEN "preamp" ELSE "NONE"
      /\ r.total = Plus2(wire, iface)
      /\ r.clsA = <<classify(g("da_pa")), classify(g("db_na"))>>
      /\ r.clsB = <<classify(g("da_pb")), classify(g("db_nb"))>>
  BY DEF Row
<1>2. \A k \in {"e_drv", "e_rec_a", "e_rec_b"} : g(k) \in Amount
  BY OutcomesCount DEF Amount
<1>3. r.total \in Amount
  <2>1. <<section.params.vd>> \in Amount
    BY DEF Amount
  <2> HIDE DEF g
  <2>2. wire \in Amount /\ ifSA \in Amount /\ ifPA \in Amount
    BY <1>2, <2>1, AddsUp
  <2> HIDE DEF wire, ifSA, ifPA, okA, okB
  <2>3. iface \in Amount
    BY <2>2
  <2> HIDE DEF iface
  <2> QED
    BY <1>1, <2>2, <2>3, AddsUp
<1>4. \A d : classify(d) = "OK" <=> AtLeast(d, 10)
  BY DEF classify
<1>5. \A x, y : <<x, y>> = <<"OK", "OK">> <=> x = "OK" /\ y = "OK"
  OBVIOUS
<1>6. r.clsA = <<"OK", "OK">> <=> okA
  <2> HIDE DEF g, r
  <2> QED
    BY <1>1, <1>4, <1>5
<1>7. r.clsB = <<"OK", "OK">> <=> okB
  <2> HIDE DEF g, r
  <2> QED
    BY <1>1, <1>4, <1>5
<1>8. r.vd \in Nat
  BY <1>1
<1> HIDE DEF okA, okB, r, wire, iface
<1> QED
  BY <1>1, <1>3, <1>6, <1>7, <1>8 DEF GoodRow, r

(* A row of the lowest rail, or of the highest, is one of those given.     *)
LEMMA LowestIs ==
  ASSUME NEW rs, GoodRows(rs), NEW is \in SUBSET DOMAIN rs, is # {}
  PROVE  \E i \in is : Lowest(rs, is) = rs[i] /\ \A j \in is : rs[i].vd <= rs[j].vd
<1>1. PICK n \in Nat : DOMAIN rs = 1 .. n /\ \A i \in 1 .. n : GoodRow(rs[i])
  BY DEF GoodRows
<1>2. \A i \in 1 .. n : rs[i].vd \in Nat
  BY <1>1 DEF GoodRow
<1> DEFINE S == 1 .. n
           R == {ij \in S \X S : Sooner(rs, ij[1], ij[2])}
<1>3. \A i, j \in S : <<i, j>> \in R <=> Sooner(rs, i, j)
  OBVIOUS
<1>4. IsFiniteSet(S) /\ S \subseteq Nat /\ is \in SUBSET S
  BY <1>1, FS_Interval
<1> HIDE DEF R
<1>5. \A i, j \in S : <<i, j>> \in R \/ <<j, i>> \in R
  <2>1. \A i, j \in S : Sooner(rs, i, j) \/ Sooner(rs, j, i)
    BY <1>2 DEF Sooner
  <2> QED
    BY <1>3, <2>1
<1>6. \A i, j, k \in S : <<i, j>> \in R /\ <<j, k>> \in R => <<i, k>> \in R
  BY <1>2, <1>3 DEF Sooner
<1>7. \E i \in is : \A j \in is : <<i, j>> \in R
  <2> HIDE DEF S
  <2> QED
    BY <1>4, <1>5, <1>6, FirstOf
<1>8. \E i \in is : \A j \in is : Sooner(rs, i, j)
  BY <1>3, <1>4, <1>7
<1>9. PICK i \in is : Lowest(rs, is) = rs[i] /\ \A j \in is : Sooner(rs, i, j)
  BY <1>8 DEF Lowest
<1>10. \A j \in is : rs[i].vd <= rs[j].vd
  BY <1>2, <1>4, <1>9 DEF Sooner
<1> QED
  BY <1>9, <1>10

LEMMA HighestIs ==
  ASSUME NEW rs, GoodRows(rs), NEW is \in SUBSET DOMAIN rs, is # {}
  PROVE  \E i \in is : Highest(rs, is) = rs[i]
<1>1. PICK n \in Nat : DOMAIN rs = 1 .. n /\ \A i \in 1 .. n : GoodRow(rs[i])
  BY DEF GoodRows
<1>2. \A i \in 1 .. n : rs[i].vd \in Nat
  BY <1>1 DEF GoodRow
<1> DEFINE S == 1 .. n
           Over(i, j) == rs[i].vd > rs[j].vd \/ (rs[i].vd = rs[j].vd /\ i <= j)
           R == {ij \in S \X S : Over(ij[1], ij[2])}
<1>3. \A i, j \in S : <<i, j>> \in R <=> Over(i, j)
  OBVIOUS
<1>4. IsFiniteSet(S) /\ S \subseteq Nat /\ is \in SUBSET S
  BY <1>1, FS_Interval
<1> HIDE DEF R
<1>5. \A i, j \in S : <<i, j>> \in R \/ <<j, i>> \in R
  <2>1. \A i, j \in S : Over(i, j) \/ Over(j, i)
    BY <1>2
  <2> HIDE DEF Over
  <2> QED
    BY <1>3, <2>1
<1>6. \A i, j, k \in S : <<i, j>> \in R /\ <<j, k>> \in R => <<i, k>> \in R
  BY <1>2, <1>3
<1>7. \E i \in is : \A j \in is : <<i, j>> \in R
  <2> HIDE DEF S
  <2> QED
    BY <1>4, <1>5, <1>6, FirstOf
<1>8. \E i \in is : \A j \in is : Over(i, j)
  <2> HIDE DEF Over
  <2> QED
    BY <1>3, <1>4, <1>7
<1> QED
  BY <1>8 DEF Highest

(* The places of a mode's rows, from the first to the last, are taken by   *)
(* one row each: a row ahead of another has the lower place.               *)
LEMMA OfModeIs ==
  ASSUME GoodRows(rows), NEW mode
  PROVE  /\ GoodRows(OfMode(mode))
         /\ \A k, l \in DOMAIN OfMode(mode) : k <= l => OfMode(mode)[k].vd <= OfMode(mode)[l].vd
<1>1. PICK n \in Nat : DOMAIN rows = 1 .. n /\ \A i \in 1 .. n : GoodRow(rows[i])
  BY DEF GoodRows
<1>2. \A i \in 1 .. n : rows[i].vd \in Nat
  BY <1>1 DEF GoodRow
<1> DEFINE mine     == {i \in DOMAIN rows : rows[i].mode = mode}
           Upto(i) == {j \in mine : Sooner(rows, j, i)}
           Place(i) == Cardinality(Upto(i))
           c == Cardinality(mine)
<1>3. mine \in SUBSET (1 .. n) /\ IsFiniteSet(1 .. n)
  BY <1>1, FS_Interval
<1>4. IsFiniteSet(mine) /\ c \in Nat
  <2> HIDE DEF mine
  <2> QED
    BY <1>3, FS_Subset, FS_CardinalityType
<1>5. OfMode(mode) = [k \in 1 .. c |-> rows[CHOOSE i \in mine : Place(i) = k]]
  BY DEF OfMode
<1> HIDE DEF mine
<1>6. \A i, j \in mine : Sooner(rows, i, j) \/ Sooner(rows, j, i)
  BY <1>2, <1>3 DEF Sooner
<1>7. \A i, j, k \in mine : Sooner(rows, i, j) /\ Sooner(rows, j, k) => Sooner(rows, i, k)
  BY <1>2, <1>3 DEF Sooner
<1>8. \A i, j \in mine : Sooner(rows, i, j) /\ Sooner(rows, j, i) => i = j
  <2> SUFFICES ASSUME NEW i \in mine, NEW j \in mine, Sooner(rows, i, j), Sooner(rows, j, i)
               PROVE  i = j
    OBVIOUS
  <2>1. i \in Nat /\ j \in Nat /\ rows[i].vd \in Nat /\ rows[j].vd \in Nat
    BY <1>2, <1>3
  <2> QED
    BY <2>1 DEF Sooner
<1>9. ASSUME NEW i \in mine
      PROVE  IsFiniteSet(Upto(i)) /\ Place(i) \in 1 .. c /\ i \in Upto(i)
  <2>1. i \in Upto(i) /\ Upto(i) \in SUBSET mine
    BY <1>6
  <2> HIDE DEF Upto
  <2>2. IsFiniteSet(Upto(i)) /\ Place(i) <= c /\ Place(i) \in Nat
    BY <1>4, <2>1, FS_Subset, FS_CardinalityType
  <2>3. Place(i) # 0
    BY <2>1, <2>2, FS_EmptySet
  <2> QED
    BY <1>4, <2>1, <2>2, <2>3
<1>10. ASSUME NEW i \in mine, NEW j \in mine, i # j, Sooner(rows, i, j)
       PROVE  Place(i) < Place(j)
  <2>1. Upto(i) \in SUBSET Upto(j)
    BY <1>7, <1>10
  <2>2. j \in Upto(j) /\ j \notin Upto(i)
    BY <1>8, <1>9, <1>10
  <2>3. IsFiniteSet(Upto(j)) /\ Place(i) \in Nat /\ Place(j) \in Nat
    BY <1>4, <1>9
  <2> HIDE DEF Upto
  <2>4. Cardinality(Upto(i)) <= Cardinality(Upto(j)) /\ Cardinality(Upto(i)) # Cardinality(Upto(j))
    BY <2>1, <2>2, <2>3, FS_Subset
  <2> QED
    BY <2>3, <2>4
<1> HIDE DEF Upto, Place, c
<1>11. \A k \in 1 .. c : \E i \in mine : Place(i) = k
  <2> DEFINE f == [i \in mine |-> Place(i)]
             C == 1 .. c
  <2>1. f \in Injection(mine, C)
    <3>1. \A i, j \in mine : Place(i) = Place(j) => i = j
      <4> SUFFICES ASSUME NEW i \in mine, NEW j \in mine, i # j PROVE Place(i) # Place(j)
        OBVIOUS
      <4>1. Place(i) \in Nat /\ Place(j) \in Nat
        BY <1>4, <1>9
      <4> QED
        BY <1>6, <1>10, <4>1
    <3>2. f \in [mine -> C]
      BY <1>9
    <3> QED
      BY <3>1, <3>2 DEF Injection, IsInjective
  <2>2. IsFiniteSet(C) /\ Cardinality(C) = c
    BY <1>4, FS_Interval
  <2>3. Cardinality(mine) = c
    BY DEF c
  <2> HIDE DEF f, C
  <2>4. f \in Surjection(mine, C)
    BY <2>1, <2>2, <2>3, FS_Injection
  <2>5. \A k \in C : \E i \in mine : f[i] = k
    BY <2>4 DEF Surjection
  <2> QED
    BY <2>5 DEF f, C
<1> DEFINE ith(k) == CHOOSE i \in mine : Place(i) = k
<1>12. \A k \in 1 .. c : ith(k) \in mine /\ Place(ith(k)) = k
  BY <1>11
<1>13. \A k \in 1 .. c : OfMode(mode)[k] = rows[ith(k)]
  BY <1>5
<1>14. DOMAIN OfMode(mode) = 1 .. c /\ Len(OfMode(mode)) = c
  BY <1>4, <1>5
<1> HIDE DEF ith
<1>15. GoodRows(OfMode(mode))
  <2>1. \A k \in 1 .. c : GoodRow(OfMode(mode)[k])
    BY <1>1, <1>3, <1>12, <1>13
  <2> QED
    BY <1>4, <1>14, <2>1 DEF GoodRows
<1>16. ASSUME NEW k \in 1 .. c, NEW l \in 1 .. c, k <= l
       PROVE  rows[ith(k)].vd <= rows[ith(l)].vd
  <2>1. ith(k) \in mine /\ ith(l) \in mine /\ Place(ith(k)) = k /\ Place(ith(l)) = l
    BY <1>12
  <2>2. ith(k) # ith(l) /\ Sooner(rows, ith(l), ith(k)) => l < k
    BY <1>10, <2>1
  <2>3. Sooner(rows, ith(k), ith(l))
    BY <1>6, <1>16, <2>1, <2>2
  <2>4. rows[ith(k)].vd \in Nat /\ rows[ith(l)].vd \in Nat
    BY <1>2, <1>3, <2>1
  <2> QED
    BY <2>3, <2>4 DEF Sooner
<1> QED
  BY <1>13, <1>14, <1>15, <1>16

(* The scan of min, by its step.                                           *)
Picked(rs, is, k, before) ==
  IF k \in is /\ (before = 0 \/ Below(rs[k].total, rs[before].total)) THEN k ELSE before

ScanStep(rs, is, f) == [k \in 0 .. Len(rs) |-> IF k = 0 THEN 0 ELSE Picked(rs, is, k, f[k - 1])]

LEMMA PyMinIs ==
  ASSUME NEW rs, NEW is, \E f : f = ScanStep(rs, is, f)
  PROVE  \E f : f = ScanStep(rs, is, f) /\ PyMin(rs, is) = rs[f[Len(rs)]]
<1> DEFINE s == CHOOSE f : f = ScanStep(rs, is, f)
<1>1. s = ScanStep(rs, is, s)
  OBVIOUS
<1>2. PyMin(rs, is) = rs[s[Len(rs)]]
  BY Zenon DEF PyMin, ScanStep, Picked
<1> QED
  BY <1>1, <1>2

LEMMA ScanExists ==
  ASSUME NEW rs, NEW is, Len(rs) \in Nat
  PROVE  \E f : f = ScanStep(rs, is, f)
<1> DEFINE n == Len(rs)
           S == 0 .. n
           g == [kb \in (1 .. n) \X S |-> Picked(rs, is, kb[1], kb[2])]
<1>1. n \in Nat /\ 0 \in S
  OBVIOUS
<1>2. \A k \in 1 .. n, b \in S : Picked(rs, is, k, b) \in S
  BY DEF Picked
<1>3. g \in [(1 .. n) \X S -> S]
  <2> HIDE DEF S
  <2> QED
    BY <1>2
<1>4. Recurses(n, S, 0, g)
  <2> HIDE DEF g, S, n
  <2> QED
    BY <1>1, <1>3, Recursion
<1>5. PICK f \in [0 .. n -> S] : f[0] = 0 /\ \A k \in 1 .. n : f[k] = g[<<k, f[k - 1]>>]
  <2> HIDE DEF g, S
  <2> QED
    BY <1>4 DEF Recurses
<1>6. ASSUME NEW k \in 1 .. n PROVE f[k] = Picked(rs, is, k, f[k - 1])
  <2>1. <<k, f[k - 1]>> \in (1 .. n) \X S
    BY <1>5
  <2> HIDE DEF S
  <2> QED
    BY <1>5, <2>1
<1> HIDE DEF S
<1> QED
  BY <1>5, <1>6 DEF ScanStep

(* What min returns: the first of its rows if that has no energy, and if   *)
(* it has one, a row whose energy is the least of those known.             *)
LEMMA PyMinGives ==
  ASSUME NEW rs, GoodRows(rs), NEW is \in SUBSET DOMAIN rs, NEW m \in is, \A j \in is : m <= j
  PROVE  \E e \in is :
            /\ PyMin(rs, is) = rs[e]
            /\ rs[m].total = NaN => e = m
            /\ rs[m].total # NaN =>
                 /\ rs[e].total # NaN
                 /\ \A j \in is : rs[j].total # NaN => rs[e].total[1] <= rs[j].total[1]
<1>1. PICK n \in Nat : DOMAIN rs = 1 .. n /\ Len(rs) = n /\ \A i \in 1 .. n : GoodRow(rs[i])
  BY DEF GoodRows
<1>2. PICK f : f = ScanStep(rs, is, f) /\ PyMin(rs, is) = rs[f[n]]
  BY <1>1, ScanExists, PyMinIs
<1>3. f[0] = 0 /\ \A k \in 1 .. n : f[k] = Picked(rs, is, k, f[k - 1])
  <2>1. \A h : h = ScanStep(rs, is, f) => h[0] = 0 /\ \A k \in 1 .. n : h[k] = Picked(rs, is, k, f[k - 1])
    BY <1>1 DEF ScanStep
  <2> QED
    BY <1>2, <2>1
<1>4. \A i \in 1 .. n : rs[i].total # NaN => rs[i].total[1] \in Int
  BY <1>1, AmountIs DEF GoodRow
<1>5. is \in SUBSET (1 .. n) /\ m \in 1 .. n
  BY <1>1
<1> DEFINE Scanned(k, e) ==
             /\ e = 0 => \A j \in is : j > k
             /\ e # 0 => /\ e \in is /\ m <= k
                         /\ rs[m].total = NaN => e = m
                         /\ rs[m].total # NaN =>
                              /\ rs[e].total # NaN
                              /\ \A j \in is : j <= k /\ rs[j].total # NaN => rs[e].total[1] <= rs[j].total[1]
           T == {k \in 0 .. n : Scanned(k, f[k])}
<1>6. 0 \in T
  BY <1>3, <1>5
<1>7. ASSUME NEW k \in 1 .. n, k - 1 \in T
      PROVE  k \in T
  <2> DEFINE e == f[k - 1]
  <2>1. Scanned(k - 1, e) /\ f[k] = Picked(rs, is, k, e)
    BY <1>3, <1>7
  <2> HIDE DEF e, T
  <2>2. CASE k \notin is
    <3>1. f[k] = e
      BY <2>1, <2>2 DEF Picked
    <3>2. \A j \in is : j <= k => j <= k - 1
      BY <1>5, <2>2
    <3>3. \A j \in is : j > k - 1 => j > k
      BY <1>5, <2>2
    <3>4. e = 0 => \A j \in is : j > k
      BY <2>1, <3>3
    <3>5. m <= k - 1 => m <= k
      BY <1>5
    <3>6. Scanned(k, e)
      BY <2>1, <3>2, <3>4, <3>5
    <3> QED
      BY <3>1, <3>6 DEF T
  <2>3. CASE k \in is /\ e = 0
    <3>1. f[k] = k /\ k # 0
      BY <2>1, <2>3 DEF Picked
    <3>2. m = k
      <4>1. m > k - 1 /\ m <= k
        BY <2>1, <2>3
      <4> QED
        BY <1>5, <4>1
    <3>3. \A j \in is : j <= k => j = k
      BY <1>5, <2>1, <2>3
    <3>4. Scanned(k, k)
      BY <1>4, <1>5, <2>3, <3>1, <3>2, <3>3
    <3> QED
      BY <3>1, <3>4 DEF T
  <2>4. CASE k \in is /\ e # 0
    <3>1. /\ e \in is /\ m <= k - 1 /\ m <= k
          /\ rs[m].total = NaN => e = m
          /\ rs[m].total # NaN =>
               /\ rs[e].total # NaN
               /\ \A j \in is : j <= k - 1 /\ rs[j].total # NaN => rs[e].total[1] <= rs[j].total[1]
      BY <1>5, <2>1, <2>4
    <3>2. \A j \in is : j <= k => j <= k - 1 \/ j = k
      BY <1>5
    <3>3. \A j \in is : rs[j].total # NaN => rs[j].total[1] \in Int
      BY <1>4, <1>5
    <3>4. CASE Below(rs[k].total, rs[e].total)
      <4>1. f[k] = k /\ k # 0
        BY <2>1, <2>4, <3>4 DEF Picked
      <4>2. rs[k].total # NaN /\ rs[e].total # NaN /\ rs[k].total[1] < rs[e].total[1]
        BY <3>4 DEF Below
      <4>3. rs[m].total # NaN
        BY <3>1, <4>2
      <4>4. \A j \in is : j <= k /\ rs[j].total # NaN => rs[k].total[1] <= rs[j].total[1]
        BY <2>4, <3>1, <3>2, <3>3, <4>2, <4>3
      <4>5. Scanned(k, k)
        BY <2>4, <3>1, <4>1, <4>2, <4>3, <4>4
      <4> QED
        BY <4>1, <4>5 DEF T
    <3>5. CASE ~ Below(rs[k].total, rs[e].total)
      <4>1. f[k] = e
        BY <2>1, <2>4, <3>5 DEF Picked
      <4>2. rs[m].total # NaN => \A j \in is : j <= k /\ rs[j].total # NaN => rs[e].total[1] <= rs[j].total[1]
        <5> SUFFICES ASSUME rs[m].total # NaN, NEW j \in is, j <= k, rs[j].total # NaN
                     PROVE  rs[e].total[1] <= rs[j].total[1]
          OBVIOUS
        <5>1. CASE j <= k - 1
          BY <3>1, <5>1
        <5>2. CASE j = k
          <6>1. rs[e].total # NaN /\ rs[e].total[1] \in Int /\ rs[k].total[1] \in Int
            BY <3>1, <3>3, <5>2
          <6>2. ~ (rs[k].total[1] < rs[e].total[1])
            BY <3>5, <5>2, <6>1 DEF Below
          <6> QED
            BY <5>2, <6>1, <6>2
        <5> QED
          BY <3>2, <5>1, <5>2
      <4>3. Scanned(k, e)
        BY <2>4, <3>1, <4>2
      <4> QED
        BY <4>1, <4>3 DEF T
    <3> QED
      BY <3>4, <3>5
  <2> QED
    BY <2>2, <2>3, <2>4
<1>8. n \in T
  <2> HIDE DEF T
  <2>1. \A k \in 0 .. n : k \in T
    BY <1>1, <1>6, <1>7, Climb
  <2> QED
    BY <1>1, <2>1
<1> DEFINE e == f[n]
<1>9. Scanned(n, e)
  BY <1>8
<1> HIDE DEF e
<1>10. e # 0
  BY <1>5, <1>9
<1>11. \A j \in is : j <= n
  BY <1>5
<1>12. /\ e \in is
       /\ rs[m].total = NaN => e = m
       /\ rs[m].total # NaN =>
            /\ rs[e].total # NaN
            /\ \A j \in is : rs[j].total # NaN => rs[e].total[1] <= rs[j].total[1]
  BY <1>9, <1>10, <1>11
<1>13. PyMin(rs, is) = rs[e]
  BY <1>2 DEF e
<1> HIDE DEF Scanned
<1> QED
  BY <1>12, <1>13

(* A summary that names a point is true of the rows of its mode.           *)
FloorTrue(rs, s) ==
  /\ \A i \in DOMAIN rs :
       rs[i].rec = "SA" => s.sa_floor # <<>> /\ s.sa_floor[1].vd <= rs[i].vd
  /\ \A f \in ToSet(s.sa_floor) : f.rec = "SA"
  /\ \A f \in ToSet(s.pa_floor) : f.rec \in {"SA", "preamp"}
  /\ \A below \in ToSet(s.nxt) :
       /\ below.rec \in {"preamp", "NONE"}
       /\ s.win => LET base == Highest(rs, DOMAIN rs)
                   IN  NaN \notin {below.wire, s.sa_floor[1].wire, base.ifSA, base.ifPA}

BestTrue(rs, best) ==
  LET able  == Resolved(rs)
      low == rs[Min(able)]
  IN  /\ best.rec # "NONE"
      /\ \A i \in able : low.vd <= rs[i].vd
      /\ best.total = NaN <=> low.total = NaN
      /\ best.total # NaN => \A i \in able : rs[i].total # NaN => best.total[1] <= rs[i].total[1]

LEMMA BestIsTrue ==
  ASSUME NEW rs, GoodRows(rs), \A k, l \in DOMAIN rs : k <= l => rs[k].vd <= rs[l].vd, Resolved(rs) # {}
  PROVE  BestTrue(rs, PyMin(rs, Resolved(rs)))
<1> DEFINE able == Resolved(rs)
           m  == Min(able)
<1>1. PICK n \in Nat : DOMAIN rs = 1 .. n
  BY DEF GoodRows
<1>2. able \in SUBSET DOMAIN rs /\ able # {} /\ \A i \in able : rs[i].rec # "NONE"
  BY DEF Resolved
<1> HIDE DEF able
<1>3. able \subseteq Nat
  BY <1>1, <1>2
<1>4. m \in able /\ \A j \in able : m <= j
  <2>1. \E i \in able : \A j \in able : i <= j
    BY <1>2, <1>3, LeastOne
  <2> QED
    BY <2>1 DEF Min
<1> HIDE DEF m
<1>5. PICK e \in able :
        /\ PyMin(rs, able) = rs[e]
        /\ rs[m].total = NaN => e = m
        /\ rs[m].total # NaN =>
             /\ rs[e].total # NaN
             /\ \A j \in able : rs[j].total # NaN => rs[e].total[1] <= rs[j].total[1]
  BY <1>2, <1>4, PyMinGives
<1>6. \A i \in able : rs[m].vd <= rs[i].vd
  BY <1>2, <1>4
<1>7. rs[e].total = NaN <=> rs[m].total = NaN
  BY <1>5
<1>8. rs[e].total # NaN => \A i \in able : rs[i].total # NaN => rs[e].total[1] <= rs[i].total[1]
  BY <1>5, <1>7
<1>9. rs[e].rec # "NONE"
  BY <1>2
<1> QED
  BY <1>5, <1>6, <1>7, <1>8, <1>9 DEF BestTrue, able, m

LEMMA OneOf ==
  ASSUME NEW x
  PROVE  ToSet(<<x>>) = {x} /\ ToSet(<<>>) = {} /\ <<x>>[1] = x /\ <<x>> # <<>>
<1>1. DOMAIN <<x>> = {1} /\ <<x>>[1] = x /\ DOMAIN <<>> = {}
  OBVIOUS
<1> QED
  BY <1>1 DEF ToSet

LEMMA SummaryTrue ==
  ASSUME GoodRows(rows), NEW mode, ~ SummaryOf(mode).none
  PROVE  FloorTrue(OfMode(mode), SummaryOf(mode)) /\ BestTrue(OfMode(mode), SummaryOf(mode).best)
<1> DEFINE rs    == OfMode(mode)
           s     == SummaryOf(mode)
           OK    == <<"OK", "OK">>
           saOf  == {i \in DOMAIN rs : rs[i].clsA = OK}
           paOf  == {i \in DOMAIN rs : rs[i].clsB = OK}
           floor == Lowest(rs, saOf)
           base  == Highest(rs, DOMAIN rs)
           below == {i \in DOMAIN rs : rs[i].vd < floor.vd /\ rs[i].clsB # <<"FAIL", "FAIL">>}
           step  == Minus2(base.ifPA, base.ifSA)
           gain  == Minus2(floor.wire, Highest(rs, below).wire)
           won   == /\ saOf # {} /\ below # {}
                    /\ gain # NaN /\ step # NaN /\ gain[1] >= step[1]
           full  == [mode |-> mode, none |-> FALSE, best |-> PyMin(rs, Resolved(rs)),
                     sa_floor |-> IF saOf = {} THEN <<>> ELSE <<floor>>,
                     pa_floor |-> IF paOf = {} THEN <<>> ELSE <<Lowest(rs, paOf)>>,
                     nxt |-> IF saOf = {} \/ below = {} THEN <<>> ELSE <<Highest(rs, below)>>,
                     win |-> won]
<1>1. s = IF Resolved(rs) = {} THEN [mode |-> mode, none |-> TRUE] ELSE full
  BY Zenon DEF SummaryOf
<1>2. Resolved(rs) # {}
  <2> SUFFICES ASSUME Resolved(rs) = {} PROVE FALSE
    OBVIOUS
  <2>1. s = [mode |-> mode, none |-> TRUE]
    BY <1>1
  <2> HIDE DEF s
  <2>2. s.none
    BY <2>1
  <2> QED
    BY <2>2 DEF s
<1>3. s = full
  BY <1>1, <1>2, Zenon
<1>4. GoodRows(rs) /\ \A k, l \in DOMAIN rs : k <= l => rs[k].vd <= rs[l].vd
  BY OfModeIs
<1> HIDE DEF s, rs, won
<1>5. /\ s.best = PyMin(rs, Resolved(rs))
      /\ s.sa_floor = IF saOf = {} THEN <<>> ELSE <<floor>>
      /\ s.pa_floor = IF paOf = {} THEN <<>> ELSE <<Lowest(rs, paOf)>>
      /\ s.nxt = IF saOf = {} \/ below = {} THEN <<>> ELSE <<Highest(rs, below)>>
      /\ s.win = won
  <2> HIDE DEF saOf, paOf, floor, below
  <2> QED
    BY <1>3
<1>6. \A i \in DOMAIN rs : /\ rs[i].vd \in Nat /\ rs[i].rec \in {"SA", "preamp", "NONE"}
                           /\ rs[i].clsA = OK <=> rs[i].rec = "SA"
                           /\ rs[i].clsB = OK => rs[i].rec # "NONE"
  BY <1>4 DEF GoodRows, GoodRow
<1>7. BestTrue(rs, s.best)
  BY <1>2, <1>4, <1>5, BestIsTrue
<1> HIDE DEF OK
<1>8. saOf # {} => /\ floor.rec = "SA" /\ floor.vd \in Nat
                   /\ \A i \in saOf : floor.vd <= rs[i].vd
  <2> SUFFICES ASSUME saOf # {} PROVE /\ floor.rec = "SA" /\ floor.vd \in Nat
                                      /\ \A i \in saOf : floor.vd <= rs[i].vd
    OBVIOUS
  <2>1. saOf \in SUBSET DOMAIN rs
    OBVIOUS
  <2>2. PICK i \in saOf : floor = rs[i] /\ \A j \in saOf : rs[i].vd <= rs[j].vd
    <3> HIDE DEF saOf
    <3> QED
      BY <1>4, <2>1, LowestIs
  <2> QED
    BY <1>6, <2>2
<1>9. paOf # {} => Lowest(rs, paOf).rec \in {"SA", "preamp"}
  <2> SUFFICES ASSUME paOf # {} PROVE Lowest(rs, paOf).rec \in {"SA", "preamp"}
    OBVIOUS
  <2>1. paOf \in SUBSET DOMAIN rs
    OBVIOUS
  <2>2. PICK i \in paOf : Lowest(rs, paOf) = rs[i]
    <3> HIDE DEF paOf
    <3> QED
      BY <1>4, <2>1, LowestIs
  <2>3. i \in DOMAIN rs /\ rs[i].clsB = OK
    BY <2>2
  <2> QED
    BY <1>6, <2>2, <2>3
<1>10. saOf # {} /\ below # {} => Highest(rs, below).rec \in {"preamp", "NONE"}
  <2> SUFFICES ASSUME saOf # {}, below # {} PROVE Highest(rs, below).rec \in {"preamp", "NONE"}
    OBVIOUS
  <2>1. below \in SUBSET DOMAIN rs
    OBVIOUS
  <2>2. PICK i \in below : Highest(rs, below) = rs[i]
    <3> HIDE DEF below
    <3> QED
      BY <1>4, <2>1, HighestIs
  <2>3. i \in DOMAIN rs /\ rs[i].vd < floor.vd
    BY <2>2
  <2> HIDE DEF floor, below
  <2>4. rs[i].rec # "SA"
    <3> SUFFICES ASSUME rs[i].rec = "SA" PROVE FALSE
      OBVIOUS
    <3>1. i \in saOf
      BY <1>6, <2>3
    <3>2. floor.vd <= rs[i].vd /\ floor.vd \in Nat /\ rs[i].vd \in Nat
      BY <1>6, <1>8, <2>3, <3>1
    <3> QED
      BY <2>3, <3>2
  <2> QED
    BY <1>6, <2>2, <2>3, <2>4
<1>11. won => /\ saOf # {} /\ below # {}
              /\ NaN \notin {Highest(rs, below).wire, floor.wire, base.ifSA, base.ifPA}
  <2> SUFFICES ASSUME won PROVE /\ saOf # {} /\ below # {}
                                /\ NaN \notin {Highest(rs, below).wire, floor.wire, base.ifSA, base.ifPA}
    OBVIOUS
  <2>1. saOf # {} /\ below # {} /\ gain # NaN /\ step # NaN
    BY DEF won
  <2> HIDE DEF saOf, below, floor, base
  <2>2. floor.wire # NaN /\ Highest(rs, below).wire # NaN
    BY <2>1 DEF Minus2
  <2>3. base.ifPA # NaN /\ base.ifSA # NaN
    BY <2>1 DEF Minus2
  <2> QED
    BY <2>1, <2>2, <2>3
<1>12. \A i \in DOMAIN rs : rs[i].rec = "SA" => i \in saOf
  BY <1>6
<1> DEFINE lowPre == Lowest(rs, paOf)
           highBelow == Highest(rs, below)
<1>13. FloorTrue(rs, s)
  <2> HIDE DEF saOf, paOf, below, floor, base, lowPre, highBelow
  <2>1. \A i \in DOMAIN rs : rs[i].rec = "SA" => s.sa_floor # <<>> /\ s.sa_floor[1].vd <= rs[i].vd
    <3> SUFFICES ASSUME NEW i \in DOMAIN rs, rs[i].rec = "SA"
                 PROVE  s.sa_floor # <<>> /\ s.sa_floor[1].vd <= rs[i].vd
      OBVIOUS
    <3>1. i \in saOf
      BY <1>12
    <3>2. s.sa_floor = <<floor>>
      BY <1>5, <3>1
    <3>3. floor.vd <= rs[i].vd
      BY <1>8, <3>1
    <3> QED
      BY <3>2, <3>3, OneOf
  <2>2. \A f \in ToSet(s.sa_floor) : f.rec = "SA"
    <3>1. CASE saOf = {}
      BY <1>5, <3>1, OneOf
    <3>2. CASE saOf # {}
      <4>1. s.sa_floor = <<floor>>
        BY <1>5, <3>2
      <4> QED
        BY <1>8, <3>2, <4>1, OneOf
    <3> QED
      BY <3>1, <3>2
  <2>3. \A f \in ToSet(s.pa_floor) : f.rec \in {"SA", "preamp"}
    <3>1. CASE paOf = {}
      BY <1>5, <3>1, OneOf
    <3>2. CASE paOf # {}
      <4>1. s.pa_floor = <<lowPre>> /\ lowPre.rec \in {"SA", "preamp"}
        BY <1>5, <1>9, <3>2 DEF lowPre
      <4> QED
        BY <4>1, OneOf
    <3> QED
      BY <3>1, <3>2
  <2>4. ASSUME NEW b \in ToSet(s.nxt)
        PROVE  /\ b.rec \in {"preamp", "NONE"}
               /\ s.win => NaN \notin {b.wire, s.sa_floor[1].wire, base.ifSA, base.ifPA}
    <3>1. CASE saOf = {} \/ below = {}
      BY <1>5, <2>4, <3>1, OneOf
    <3>2. CASE saOf # {} /\ below # {}
      <4>1. s.nxt = <<highBelow>> /\ s.sa_floor = <<floor>> /\ highBelow.rec \in {"preamp", "NONE"}
        BY <1>5, <1>10, <3>2 DEF highBelow
      <4>2. b = highBelow /\ s.sa_floor[1] = floor
        BY <2>4, <4>1, OneOf
      <4>3. s.win => NaN \notin {highBelow.wire, floor.wire, base.ifSA, base.ifPA}
        BY <1>5, <1>11 DEF highBelow
      <4> QED
        BY <4>1, <4>2, <4>3
    <3> QED
      BY <3>1, <3>2
  <2> QED
    BY <2>1, <2>2, <2>3, <2>4, Zenon DEF FloorTrue, base
<1> QED
  BY <1>7, <1>13 DEF rs, s


(* The rails of the banners are those of the passes.                       *)
LEMMA PointsAre == \A i \in 1 .. Len(POINTS) : POINTS[i].vd \in Nat
<1> DEFINE T == [mode : {"FAIR", "VTENG"}, vd : Nat]
           fair  == [i \in DOMAIN FAIR |-> [mode |-> "FAIR", vd |-> FAIR[i]]]
           vteng == [i \in DOMAIN VTENG |-> [mode |-> "VTENG", vd |-> VTENG[i]]]
<1>1. fair \in Seq(T) /\ vteng \in Seq(T)
  <2>1. \A v \in Nat : [mode |-> "FAIR", vd |-> v] \in T /\ [mode |-> "VTENG", vd |-> v] \in T
    OBVIOUS
  <2>2. /\ Len(FAIR) \in Nat /\ DOMAIN FAIR = 1 .. Len(FAIR) /\ \A i \in DOMAIN FAIR : FAIR[i] \in Nat
        /\ Len(VTENG) \in Nat /\ DOMAIN VTENG = 1 .. Len(VTENG) /\ \A i \in DOMAIN VTENG : VTENG[i] \in Nat
    BY SwingAssumption
  <2>3. \A i \in 1 .. Len(FAIR) : fair[i] \in T
    BY <2>1, <2>2
  <2>4. \A i \in 1 .. Len(VTENG) : vteng[i] \in T
    BY <2>1, <2>2
  <2>5. \A n \in Nat : \A f : f = [i \in 1 .. n |-> f[i]] /\ (\A i \in 1 .. n : f[i] \in T) => f \in Seq(T)
    <3> HIDE DEF T
    <3> QED
      OBVIOUS
  <2>6. fair = [i \in 1 .. Len(FAIR) |-> fair[i]] /\ vteng = [i \in 1 .. Len(VTENG) |-> vteng[i]]
    BY <2>2
  <2> HIDE DEF T, fair, vteng
  <2> QED
    BY <2>2, <2>3, <2>4, <2>5, <2>6
<1>2. POINTS = fair \o vteng
  BY DEF POINTS
<1>3. POINTS \in Seq(T)
  <2> HIDE DEF T, fair, vteng
  <2> QED
    BY <1>1, <1>2
<1>4. \A i \in 1 .. Len(POINTS) : POINTS[i] \in T
  <2> HIDE DEF T
  <2> QED
    BY <1>3
<1> QED
  BY <1>4

Railed == \A k \in 1 .. Len(log) : log[k].banner # <<>> => log[k].banner[1].vd \in Nat

LEMMA RailedGrows ==
  ASSUME Paired, Railed, NEW pt, pt.vd \in Nat, NEW M,
         log' = log \o <<[banner |-> <<pt>>, meas |-> Nothing], [banner |-> <<>>, meas |-> M]>>
  PROVE  Railed'
<1> DEFINE b1 == [banner |-> <<pt>>, meas |-> Nothing]
           b2 == [banner |-> <<>>, meas |-> M]
           n  == Len(log)
<1>1. n \in Nat /\ log \in Seq(Line)
  BY DEF Paired
<1>2. b1.banner = <<pt>> /\ b2.banner = <<>> /\ <<pt>>[1] = pt
  OBVIOUS
<1>3. \A x, y : /\ Len(log \o <<x, y>>) = n + 2
                /\ \A k \in 1 .. n : (log \o <<x, y>>)[k] = log[k]
                /\ (log \o <<x, y>>)[n + 1] = x /\ (log \o <<x, y>>)[n + 2] = y
  <2> HIDE DEF Line
  <2> QED
    BY <1>1
<1> HIDE DEF b1, b2
<1>4. /\ Len(log') = n + 2 /\ \A k \in 1 .. n : log'[k] = log[k]
      /\ log'[n + 1] = b1 /\ log'[n + 2] = b2
  BY <1>3 DEF b1, b2
<1>5. ASSUME NEW k \in 1 .. n + 2, log'[k].banner # <<>>
      PROVE  log'[k].banner[1].vd \in Nat
  <2>1. CASE k \in 1 .. n
    BY <1>4, <1>5, <2>1 DEF Railed
  <2>2. CASE k = n + 1
    BY <1>2, <1>4, <2>2
  <2>3. CASE k = n + 2
    BY <1>2, <1>4, <1>5, <2>3
  <2> QED
    BY <1>1, <2>1, <2>2, <2>3
<1> QED
  BY <1>4, <1>5 DEF Railed

(* The summaries printed are of the modes in their order, and of good rows.*)
Told == \E n \in 0 .. 2 : summary = [m \in 1 .. n |-> SummaryOf(MODES[m])]

SwingInv ==
  /\ SectionsInv /\ Railed
  /\ bench \in {"sweep", "split"} => summary = <<>>
  /\ bench \notin {"sweep", "split"} => GoodRows(rows) /\ Told

LEMMA SectionsGood ==
  ASSUME SectionsInv, Railed, bench # "sweep"
  PROVE  GoodRows([i \in DOMAIN sections |-> Row(sections[i])])
<1> DEFINE h == Len(log) \div 2
           r == [i \in DOMAIN sections |-> Row(sections[i])]
<1>1. h \in Nat /\ Len(log) = 2 * h /\ log \in Seq(Line)
  BY DEF SectionsInv, Paired
<1>2. sections = Sections(h)
  BY DEF SectionsInv
<1> HIDE DEF h
<1>3. DOMAIN sections = 1 .. h /\ \A i \in 1 .. h : sections[i] = Section(i)
  BY <1>2 DEF Sections
<1>4. ASSUME NEW i \in 1 .. h
      PROVE  GoodRow(Row(Section(i)))
  <2>1. 2 * i \in 1 .. Len(log) /\ 2 * i - 1 \in 1 .. Len(log) /\ (2 * i - 1) % 2 # 0
    BY <1>1
  <2>2. log[2 * i - 1].banner # <<>>
    BY <2>1 DEF SectionsInv, Paired
  <2>3. log[2 * i - 1].banner[1].vd \in Nat
    BY <2>1, <2>2 DEF Railed
  <2>4. log[2 * i] \in Line
    <3> HIDE DEF Line
    <3> QED
      BY <1>1, <2>1
  <2>5. log[2 * i].meas \in OUTCOMES
    BY <2>4 DEF Line
  <2>6. Section(i).params.vd \in Nat /\ Section(i).meas \in OUTCOMES
    BY <2>3, <2>5 DEF Section
  <2> QED
    BY <2>6, RowIs
<1>5. DOMAIN r = 1 .. h /\ Len(r) = h
  BY <1>1, <1>3
<1>6. \A i \in 1 .. h : r[i] = Row(Section(i))
  BY <1>3
<1> HIDE DEF r
<1>7. GoodRows(r)
  BY <1>1, <1>4, <1>5, <1>6 DEF GoodRows
<1> QED
  BY <1>7 DEF r

LEMMA ToldStays ==
  ASSUME rows' = rows
  PROVE  \A mode : SummaryOf(mode)' = SummaryOf(mode)
BY DEF SummaryOf, OfMode

LEMMA ToldGrows ==
  ASSUME Told, Summary
  PROVE  Told'
<1> DEFINE f == [m \in 1 .. 2 |-> SummaryOf(MODES[m])]
           S == {f[1], f[2]}
<1>1. PICK n \in 0 .. 2 : summary = [m \in 1 .. n |-> SummaryOf(MODES[m])]
  BY DEF Told
<1>2. \A m \in 1 .. 2 : f[m] = SummaryOf(MODES[m]) /\ f[m] \in S
  <2>1. \A m \in 1 .. 2 : m = 1 \/ m = 2
    OBVIOUS
  <2> QED
    BY <2>1
<1>3. Len(MODES) = 2
  BY DEF MODES
<1> HIDE DEF f
<1>4. \A k \in 0 .. 2 : [m \in 1 .. k |-> SummaryOf(MODES[m])] = [m \in 1 .. k |-> f[m]]
  BY <1>2
<1>5. summary = [m \in 1 .. n |-> f[m]] /\ Len(summary) = n
  BY <1>1, <1>4
<1>6. n < 2 /\ summary' = Append(summary, SummaryOf(MODES[n + 1])) /\ rows' = rows
  BY <1>3, <1>5 DEF Summary
<1>7. summary' = Append([m \in 1 .. n |-> f[m]], f[n + 1])
  BY <1>2, <1>5, <1>6
<1>8. summary' = [m \in 1 .. n + 1 |-> f[m]]
  <2>1. \A i \in 1 .. n + 1 : f[i] \in S
    BY <1>2, <1>6
  <2> HIDE DEF S
  <2> QED
    BY <1>7, <2>1, AppendNext
<1>9. summary' = [m \in 1 .. n + 1 |-> SummaryOf(MODES[m])]
  BY <1>4, <1>6, <1>8
<1>10. summary' = [m \in 1 .. n + 1 |-> SummaryOf(MODES[m])']
  BY <1>6, <1>9, ToldStays
<1>11. n + 1 \in 0 .. 2
  BY <1>6
<1>12. \E k \in 0 .. 2 : summary' = [m \in 1 .. k |-> SummaryOf(MODES[m])']
  BY <1>10, <1>11, Zenon
<1> QED
  BY <1>12, Zenon DEF Told

LEMMA SwingStart == Init => SwingInv
BY SectionsInit DEF Init, SwingInit, SwingInv, Railed

LEMMA SwingStays ==
  ASSUME SwingInv, UNCHANGED <<log, rows, summary>>, SectionsInv',
         bench' \in {"sweep", "split"} <=> bench \in {"sweep", "split"}
  PROVE  SwingInv'
<1>1. Railed'
  BY DEF SwingInv, Railed
<1>2. Told => Told'
  BY ToldStays DEF Told
<1>3. GoodRows(rows) => GoodRows(rows)'
  OBVIOUS
<1> QED
  BY <1>1, <1>2, <1>3 DEF SwingInv

LEMMA SwingStep == SwingInv /\ [Next]_scriptVars => SwingInv'
<1> SUFFICES ASSUME SwingInv, [Next]_scriptVars PROVE SwingInv'
  OBVIOUS
<1>1. SectionsInv'
  BY SectionsNext DEF SwingInv
<1>2. CASE UNCHANGED swingVars
  BY <1>1, <1>2, SwingStays DEF swingVars
<1>3. CASE run_point
  <2>1. bench = "sweep" /\ bench' = "sweep" /\ UNCHANGED <<rows, summary>> /\ summary = <<>>
    BY <1>3 DEF run_point, SwingInv
  <2>2. CASE log' = log
    BY <1>1, <2>1, <2>2, SwingStays
  <2>3. CASE log' # log
    <3>1. PICK M \in OUTCOMES :
            log' = log \o <<[banner |-> <<POINTS[at_point + 1]>>, meas |-> Nothing], [banner |-> <<>>, meas |-> M]>>
      BY <1>3, <2>3 DEF run_point, Nothing
    <3>2. POINTS[at_point + 1].vd \in Nat
      <4>1. at_point \in Nat /\ at_point < Len(POINTS) /\ Len(POINTS) \in Nat
        BY <1>3, PointsAre DEF run_point, SwingInv, SectionsInv
      <4> QED
        BY <4>1, PointsAre
    <3>3. Railed'
      BY <3>1, <3>2, RailedGrows DEF SwingInv, SectionsInv
    <3> QED
      BY <1>1, <2>1, <3>3 DEF SwingInv
  <2> QED
    BY <2>2, <2>3
<1>4. CASE Split
  BY <1>1, <1>4, SwingStays DEF Split
<1>5. CASE main
  <2>1. /\ bench = "split" /\ bench' = "tables" /\ UNCHANGED <<log, summary>>
        /\ rows' = [i \in DOMAIN sections |-> Row(sections[i])]
    BY <1>5 DEF main
  <2>2. GoodRows(rows')
    BY <2>1, SectionsGood DEF SwingInv
  <2>3. Railed'
    BY <2>1 DEF SwingInv, Railed
  <2>4. summary' = <<>>
    BY <2>1 DEF SwingInv
  <2>5. summary' = [m \in 1 .. 0 |-> SummaryOf(MODES[m])']
    BY <2>4
  <2>6. Told'
    BY <2>5 DEF Told
  <2> QED
    BY <1>1, <2>1, <2>2, <2>3, <2>6 DEF SwingInv
<1>6. CASE NoRows
  BY <1>1, <1>6, SwingStays DEF NoRows
<1>7. CASE Summary
  <2>1. bench = "tables" /\ bench' \in {"tables", "printed"} /\ UNCHANGED <<log, rows>>
    BY <1>7 DEF Summary
  <2>2. Told /\ GoodRows(rows)
    BY <2>1 DEF SwingInv
  <2>3. Told'
    BY <1>7, <2>2, ToldGrows
  <2>4. Railed'
    BY <2>1 DEF SwingInv, Railed
  <2>5. GoodRows(rows')
    BY <2>1, <2>2
  <2> QED
    BY <1>1, <2>1, <2>3, <2>4, <2>5 DEF SwingInv
<1> QED
  BY <1>2, <1>3, <1>4, <1>5, <1>6, <1>7 DEF Next, scriptVars, SwingNext

LEMMA SwingHolds == SwingInv => SummaryStands
<1> SUFFICES ASSUME SwingInv PROVE SummaryStands
  OBVIOUS
<1>1. CASE bench \in {"sweep", "split"}
  <2>1. summary = <<>> /\ DOMAIN summary = {}
    BY <1>1 DEF SwingInv
  <2> QED
    BY <2>1 DEF SummaryStands, FloorStands, BestStands
<1>2. CASE bench \notin {"sweep", "split"}
  <2>1. GoodRows(rows) /\ Told
    BY <1>2 DEF SwingInv
  <2>2. \A m \in DOMAIN summary : summary[m] = SummaryOf(MODES[m])
    BY <2>1 DEF Told
  <2>3. ASSUME NEW m \in DOMAIN summary, ~ summary[m].none
        PROVE  /\ FloorTrue(OfMode(MODES[m]), summary[m])
               /\ BestTrue(OfMode(MODES[m]), summary[m].best)
    BY <2>1, <2>2, <2>3, SummaryTrue
  <2>4. FloorStands
    BY <2>3, Zenon DEF FloorStands, FloorTrue
  <2>5. BestStands
    BY <2>3, Zenon DEF BestStands, BestTrue
  <2> QED
    BY <2>4, <2>5 DEF SummaryStands
<1> QED
  BY <1>1, <1>2

(* Whatever each point measured, and whichever runs died or left an energy *)
(* out, the low-swing analyser's summary of a mode is true of its rows: at *)
(* the floor it prints the sense amplifier reads, and below it no point is *)
(* read by it; the cheapest point it prints resolves, and costs the least  *)
(* of the known energies unless the lowest rail that resolves has none.    *)
THEOREM SummaryIsTrue == Spec => []SummaryStands
<1>1. Init => SwingInv
  BY SwingStart
<1>2. SwingInv /\ [Next]_scriptVars => SwingInv'
  BY SwingStep
<1>3. SwingInv => SummaryStands
  BY SwingHolds
<1> QED
  BY <1>1, <1>2, <1>3, PTL DEF Spec
=============================================================================
