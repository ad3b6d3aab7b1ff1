------------------------------ MODULE Crossover -----------------------------
(***************************************************************************)
(* scripts/address_crossover.py: how many trits and how many bits name one *)
(* of N things.  The script cuts 1..MAX_N into cells of equal counts,      *)
(* walks over them to see that they tile the range, and holds the first    *)
(* few N against the formulas one by one.                                  *)
(***************************************************************************)
EXTENDS Integers, Sequences, FiniteSets, FiniteSetsExt

CONSTANTS BOX,        \* bits of the box; the script's are 32
          limit       \* how far the scan goes; the script's is 2^20

Power(base) == LET p[e \in Nat] == IF e = 0 THEN 1 ELSE base * p[e - 1] IN p

MAX_N == Power(2)[BOX]

(* The report names N = 3 and N = 4, so the box is no smaller.             *)
ASSUME CrossoverAssumption == BOX \in Nat /\ BOX >= 2 /\ limit \in 1 .. MAX_N

(* Powers of three up to the first above MAX_N.                            *)
POW3 == LET top == CHOOSE e \in 1 .. BOX : Power(3)[e - 1] <= MAX_N /\ Power(3)[e] > MAX_N
        IN  [i \in 1 .. top + 1 |-> Power(3)[i - 1]]

(* bisect_right: how many powers are at most n - 1.                        *)
trits(n) == Cardinality({i \in DOMAIN POW3 : POW3[i] <= n - 1})

(* The bit length of n - 1.                                                *)
bits(n) == CHOOSE b \in 0 .. BOX : n - 1 < Power(2)[b] /\ (b = 0 \/ Power(2)[b - 1] <= n - 1)

(* The same count as scripts/plot_address_curves.py draws it.              *)
ilog3(n) == CHOOSE t \in 0 .. BOX : Power(3)[t] >= n /\ (t = 0 \/ Power(3)[t - 1] < n)

symbol_pair(n) == <<trits(n), bits(n)>>

-----------------------------------------------------------------------------
VARIABLES
  k_trits, j_bits,      \* the two loops of crossover_ranges
  wins, ties, loses,    \* cells <<lo, hi, trits, bits>>
  stage,                \* "ranges", "tiles", "scan", "done"; or "raised"
  left,                 \* the cells verify_coverage has still to visit
  total, prev_end,      \* what it has counted, and how far it has come
  at_n                  \* the scan of brute_force_check

crossVars == <<k_trits, j_bits, wins, ties, loses, stage, left, total, prev_end, at_n>>

Larger(a, b)  == IF a > b THEN a ELSE b
Smaller(a, b) == IF a < b THEN a ELSE b

(* Mutant: a cell starts where the one below it ends.                      *)
LeastOfAt(base, e) == IF e = 0 THEN 1 ELSE Power(base)[e - 1]

(* The least N that takes e symbols of a base.                             *)
LeastOf(base, e) == IF e = 0 THEN 1 ELSE Power(base)[e - 1] + 1

Cell == LET lo == Larger(LeastOf(3, k_trits), LeastOf(2, j_bits))
            hi == Smaller(Power(3)[k_trits], Power(2)[j_bits])
        IN  <<lo, hi, k_trits, j_bits>>

crossover_ranges ==
  /\ stage = "ranges" /\ k_trits <= trits(MAX_N)
  /\ \E some \in {IF Cell[1] <= Cell[2] THEN {Cell} ELSE {}} :
       /\ wins'  = IF k_trits < j_bits THEN wins \cup some ELSE wins
       /\ ties'  = IF k_trits = j_bits THEN ties \cup some ELSE ties
       /\ loses' = IF k_trits > j_bits THEN loses \cup some ELSE loses
  /\ IF j_bits < bits(MAX_N)
     THEN j_bits' = j_bits + 1 /\ k_trits' = k_trits
     ELSE j_bits' = 0 /\ k_trits' = k_trits + 1
  /\ UNCHANGED <<stage, left, total, prev_end, at_n>>

(* The assertion that nothing loses; then every cell is to be visited.     *)
NoLoser ==
  /\ stage = "ranges" /\ k_trits > trits(MAX_N)
  /\ stage' = IF loses = {} THEN "tiles" ELSE "raised"
  /\ left' = wins \cup ties
  /\ UNCHANGED <<k_trits, j_bits, wins, ties, loses, total, prev_end, at_n>>

(* The order of sorted, as far as the walk can tell two cells apart.       *)
Before(c, o) == c[1] < o[1] \/ (c[1] = o[1] /\ c[2] <= o[2])

(* Every cell in its turn must start where the one before it ended: a gap  *)
(* raises, and so does a cell that overlaps another or repeats it.         *)
verify_coverage ==
  /\ stage = "tiles"
  /\ \E cell \in left :
       /\ \A o \in left : Before(cell, o)
       /\ left' = left \ {cell}
       /\ IF cell[1] = prev_end + 1
          THEN /\ total' = total + cell[2] - cell[1] + 1
               /\ prev_end' = cell[2] /\ stage' = stage
          ELSE stage' = "raised" /\ UNCHANGED <<total, prev_end>>
  /\ UNCHANGED <<k_trits, j_bits, wins, ties, loses, at_n>>

(* The two assertions after the walk.                                      *)
Covered ==
  /\ stage = "tiles" /\ left = {}
  /\ stage' = IF total = MAX_N /\ prev_end = MAX_N THEN "scan" ELSE "raised"
  /\ UNCHANGED <<k_trits, j_bits, wins, ties, loses, left, total, prev_end, at_n>>

analytic(n) == {<<c[3], c[4]>> : c \in {c \in wins \cup ties : c[1] <= n /\ n <= c[2]}}

brute_force_check ==
  /\ stage = "scan"
  /\ IF analytic(at_n) # {symbol_pair(at_n)} THEN stage' = "raised" /\ at_n' = at_n
     ELSE IF at_n < limit THEN at_n' = at_n + 1 /\ stage' = stage
     ELSE stage' = "done" /\ at_n' = at_n
  /\ UNCHANGED <<k_trits, j_bits, wins, ties, loses, left, total, prev_end>>

CrossInit ==
  /\ k_trits = 0 /\ j_bits = 0 /\ wins = {} /\ ties = {} /\ loses = {}
  /\ stage = "ranges" /\ left = {} /\ total = 0 /\ prev_end = 0 /\ at_n = 1

CrossNext == crossover_ranges \/ NoLoser \/ verify_coverage \/ Covered \/ brute_force_check

-----------------------------------------------------------------------------
(* What the report prints of the cells.                                    *)
first_win       == Min({c[1] : c \in wins})
permanent_start == Max({c[2] : c \in ties}) + 1

(* None of the script's assertions fails (114, 125-129, 143): each cell    *)
(* starts where the one before it ended, so that none overlaps another and *)
(* none is missing, the last ends the range, and all agree with the        *)
(* formulas.                                                               *)
NeverRaises == stage # "raised"

(* On both ends of every cell and at every N scanned: the two scripts      *)
(* count the same trits, ternary never needs more than binary, and the     *)
(* closed form that is printed is the curve: ternary wins at 3 and from 5  *)
(* on (187-205).                                                           *)
CurveExact ==
  /\ \A n \in (UNION {{c[1], c[2]} : c \in wins \cup ties}) \cup {at_n} :
       /\ trits(n) = ilog3(n) /\ trits(n) <= bits(n)
       /\ trits(n) < bits(n) <=> (n = 3 \/ n >= 5)
  /\ stage = "scan" => first_win = 3 /\ permanent_start = 5

(* The crossover printed is the crossover.                                 *)
CrossoverExact == NeverRaises /\ CurveExact
=============================================================================
