----------------------------- MODULE EnergyProofs ---------------------------
(***************************************************************************)
(* The branch-and-bound search of tau_energy_search.py finds the optimum,  *)
(* for every target, list of gates and non-negative energies; without the  *)
(* cuts it is the search by levels of LevelSearch; the gates of run_mux    *)
(* select; and every netlist kept or returned, rebuilt from the cells of   *)
(* the RTL, is the function it is kept for, at the cost noted.             *)
(***************************************************************************)
EXTENDS EnergyOptimum, FiniteSetTheorems, SequenceTheorems, WellFoundedInduction, TLAPS

(* A set of naturals has a least element.                                  *)
LEMMA LeastNat ==
  ASSUME NEW S \in SUBSET Nat, S # {}
  PROVE  \E m \in S : \A k \in S : m <= k
<1> DEFINE R == OpToRel(<, Nat)
<1>1. IsWellFoundedOn(R, Nat)
  BY NatLessThanWellFounded
<1>2. \A k, m \in Nat : k < m => <<k, m>> \in R
  BY DEF OpToRel
<1> HIDE DEF R
<1>3. PICK m \in S : \A k \in S : ~ (<<k, m>> \in R)
  <2>1. S \subseteq Nat
    OBVIOUS
  <2> QED
    BY <1>1, <2>1, WFMin
<1>4. ASSUME NEW k \in S PROVE m <= k
  <2>1. k \in Nat /\ m \in Nat
    OBVIOUS
  <2>2. ~ (k < m)
    BY <1>2, <1>3, <2>1, Zenon
  <2> QED
    BY <2>1, <2>2
<1> QED
  BY <1>4

-----------------------------------------------------------------------------
(* Truth tables of one job, and what a node costs.                         *)
Fns(j) == [Rows(j.n) -> TRITS]

GateNames == {GATES[i] : i \in DOMAIN GATES}

(* A gate gives a trit on trits.                                           *)
LEMMA OutputTrit ==
  ASSUME NEW g \in GateNames, NEW a \in TRITS, NEW b \in TRITS
  PROVE  Output(g, a, b) \in TRITS
<1>1. bal_mod3(a + b) \in TRITS /\ bal_mod3(a + 1) \in TRITS
  BY DEF bal_mod3, TRITS
<1>2. a * b \in TRITS
  <2>1. CASE a = 0  BY <2>1 DEF TRITS
  <2>2. CASE a = 1  BY <2>2 DEF TRITS
  <2>3. CASE a = -1 BY <2>3 DEF TRITS
  <2> QED BY <2>1, <2>2, <2>3 DEF TRITS
<1>3. cons(a, b) \in TRITS /\ tand(a, b) \in TRITS /\ tor(a, b) \in TRITS /\ tneg(a) \in TRITS
  BY DEF cons, tand, tor, tneg, Lesser, Greater, TRITS
<1>4. tmul(a, b) \in TRITS /\ cyc(a) \in TRITS /\ tsum(a, b) \in TRITS
  BY <1>1, <1>2 DEF tmul, cyc, tsum
<1>5. g \in {"cons", "tmul", "tneg", "cyc", "tand", "tor", "tsum"}
  BY DEF GateNames, GATES
<1> HIDE DEF TRITS
<1> QED
  BY <1>3, <1>4, <1>5 DEF Output

(* A gate on truth tables gives a truth table.                             *)
LEMMA ApplyFn ==
  ASSUME NEW j \in Jobs, NEW g \in GateNames, NEW f \in Fns(j), NEW h \in Fns(j)
  PROVE  apply(g, f, h) \in Fns(j)
<1>1. \A r \in Rows(j.n) : Output(g, f[r], h[r]) \in TRITS
  BY OutputTrit DEF Fns
<1> QED
  BY <1>1 DEF apply, Fns

(* The inputs and the constants are truth tables.                          *)
LEMMA LeafFn ==
  ASSUME NEW j \in Jobs
  PROVE  Leaves(j) \subseteq Fns(j)
<1>1. ASSUME NEW i \in 0 .. j.n - 1 PROVE Input(j.n, i) \in Fns(j)
  <2>1. j.n - 1 - i \in 0 .. j.n
    BY JobsAssumption
  <2>2. 3 ^ (j.n - 1 - i) \in Nat \ {0} /\ 3 ^ j.n \in Nat
    BY <2>1, JobsAssumption
  <2> DEFINE p == 3 ^ (j.n - 1 - i)
             N == 3 ^ j.n
  <2> HIDE DEF p, N
  <2>3. ASSUME NEW r \in 1 .. N PROVE (((r - 1) \div p) % 3) - 1 \in TRITS
    <3>1. p \in Nat \ {0} /\ N \in Nat
      BY <2>2 DEF p, N
    <3>2. (r - 1) \div p \in Int
      BY <3>1
    <3> QED
      BY <3>2 DEF TRITS
  <2> QED
    BY <2>3 DEF Input, Fns, Rows, p, N
<1> QED
  BY <1>1 DEF Leaves, Always, Fns, TRITS

(* The least a node can cost is what an all-null one does.                 *)
LEMMA NodeBound ==
  ASSUME NEW j \in Jobs, NEW tt \in Fns(j)
  PROVE  node_cost(tt) \in Nat /\ min_node(3 ^ j.n) \in Nat /\ min_node(3 ^ j.n) <= node_cost(tt)
<1> DEFINE N == 3 ^ j.n
           c == nonnull_count(tt)
<1>1. N \in Nat
  <2>1. j.n \in 0 .. j.n
    BY JobsAssumption
  <2> QED
    BY <2>1, JobsAssumption
<1>2. tt \in [1 .. N -> TRITS] /\ DOMAIN tt = 1 .. N
  BY DEF Fns, Rows
<1>3. Len(tt) = N
  BY <1>1, <1>2
<1>4. IsFiniteSet(1 .. N) /\ Cardinality(1 .. N) = N
  BY <1>1, FS_Interval
<1>5. c \in Nat /\ c <= N
  <2>1. {r \in DOMAIN tt : tt[r] # 0} \subseteq 1 .. N
    BY <1>2
  <2> QED
    BY <1>1, <1>4, <2>1, FS_Subset, FS_CardinalityType DEF nonnull_count
<1> HIDE DEF N, c
<1>6. /\ E_STATIC \in Nat /\ E_NULL \in Nat /\ E_PLUSMINUS \in Nat /\ E_NULL <= E_PLUSMINUS
  BY EnergyAssumption
<1>7. E_PLUSMINUS * c >= E_NULL * c /\ E_PLUSMINUS * c \in Nat /\ E_NULL * c \in Nat
  BY <1>5, <1>6
<1>8. E_NULL * (N - c) = E_NULL * N - E_NULL * c /\ E_NULL * N \in Nat /\ E_NULL * (N - c) \in Nat
  BY <1>1, <1>5, <1>6
<1>9. node_cost(tt) = E_STATIC + E_PLUSMINUS * c + E_NULL * (N - c)
  BY <1>3 DEF node_cost, c
<1>10. min_node(N) = E_STATIC + E_NULL * N
  BY DEF min_node
<1> QED
  BY <1>6, <1>7, <1>8, <1>9, <1>10 DEF N
-----------------------------------------------------------------------------
(* What netlists there are, without a search: the triples <<k, f, c>> such *)
(* that f is realised at cost c by a netlist of at most k levels.          *)
Price(g, c, d) == IF arity(g) = 1 THEN c ELSE c + d

Operands(g, f, c, h, d) == arity(g) = 1 => h = f /\ d = c

Closed(j, P) ==
  /\ \A f \in Leaves(j) : <<0, f, 0>> \in P
  /\ \A k, c \in Nat, f \in Fns(j) : <<k, f, c>> \in P => <<k + 1, f, c>> \in P
  /\ \A k, c, d \in Nat, f, h \in Fns(j), g \in j.gates :
       <<k, f, c>> \in P /\ <<k, h, d>> \in P /\ Operands(g, f, c, h, d) =>
         <<k + 1, apply(g, f, h), Price(g, c, d) + node_cost(apply(g, f, h))>> \in P

Triples(j) == Nat \X Fns(j) \X Nat

Derived(j, k, f, c) == \A P \in SUBSET Triples(j) : Closed(j, P) => <<k, f, c>> \in P

(* A leaf is realised at no cost.                                          *)
LEMMA DerivedLeaf ==
  ASSUME NEW j \in Jobs, NEW f \in Leaves(j)
  PROVE  Derived(j, 0, f, 0)
BY DEF Derived, Closed

(* More levels lose nothing.                                               *)
LEMMA DerivedUp ==
  ASSUME NEW j \in Jobs, NEW k \in Nat, NEW f \in Fns(j), NEW c \in Nat, Derived(j, k, f, c)
  PROVE  Derived(j, k + 1, f, c)
<1> SUFFICES ASSUME NEW P \in SUBSET Triples(j), Closed(j, P) PROVE <<k + 1, f, c>> \in P
  BY DEF Derived
<1>1. <<k, f, c>> \in P
  BY DEF Derived
<1> QED
  BY <1>1 DEF Closed

(* A gate on two realised functions realises a third.                      *)
LEMMA DerivedGate ==
  ASSUME NEW j \in Jobs, NEW k \in Nat, NEW c \in Nat, NEW d \in Nat,
         NEW f \in Fns(j), NEW h \in Fns(j), NEW g \in j.gates,
         Derived(j, k, f, c), Derived(j, k, h, d), Operands(g, f, c, h, d)
  PROVE  Derived(j, k + 1, apply(g, f, h), Price(g, c, d) + node_cost(apply(g, f, h)))
<1> DEFINE v == Price(g, c, d) + node_cost(apply(g, f, h))
<1> SUFFICES ASSUME NEW P \in SUBSET Triples(j), Closed(j, P)
             PROVE  <<k + 1, apply(g, f, h), v>> \in P
  BY DEF Derived
<1>1. <<k, f, c>> \in P /\ <<k, h, d>> \in P
  BY DEF Derived
<1> QED
  BY <1>1 DEF Closed

(* A netlist is a leaf, or one of fewer levels, or a gate on two of fewer. *)
ByGate(j, k, h, v) ==
  \E g \in j.gates, f, e \in Fns(j), c, d \in Nat :
    /\ Derived(j, k, f, c) /\ Derived(j, k, e, d) /\ Operands(g, f, c, e, d)
    /\ h = apply(g, f, e) /\ v = Price(g, c, d) + node_cost(h)

Reason(j, k, h, v) ==
  \/ k = 0 /\ h \in Leaves(j) /\ v = 0
  \/ k # 0 /\ Derived(j, k - 1, h, v)
  \/ k # 0 /\ ByGate(j, k - 1, h, v)

(* What a gate realises is a truth table, at a natural cost.               *)
LEMMA PriceNat ==
  ASSUME NEW j \in Jobs, NEW g \in j.gates, NEW f \in Fns(j), NEW h \in Fns(j),
         NEW c \in Nat, NEW d \in Nat
  PROVE  /\ apply(g, f, h) \in Fns(j)
         /\ Price(g, c, d) \in Nat
         /\ Price(g, c, d) + node_cost(apply(g, f, h)) \in Nat
<1>1. g \in GateNames
  BY JobsAssumption DEF GateNames
<1>2. apply(g, f, h) \in Fns(j)
  BY <1>1, ApplyFn
<1>3. node_cost(apply(g, f, h)) \in Nat
  BY <1>2, NodeBound
<1>4. Price(g, c, d) \in Nat
  BY DEF Price
<1> QED
  BY <1>2, <1>3, <1>4

(* Nothing else is realised: each triple has one of the three reasons.     *)
LEMMA DerivedInversion ==
  ASSUME NEW j \in Jobs, NEW k \in Nat, NEW h \in Fns(j), NEW v \in Nat, Derived(j, k, h, v)
  PROVE  Reason(j, k, h, v)
<1> DEFINE P == {t \in Triples(j) : Derived(j, t[1], t[2], t[3]) /\ Reason(j, t[1], t[2], t[3])}
<1>0. ASSUME NEW a \in Nat, NEW f \in Fns(j), NEW b \in Nat
      PROVE  <<a, f, b>> \in P <=> Derived(j, a, f, b) /\ Reason(j, a, f, b)
  BY DEF Triples
<1>00. P \in SUBSET Triples(j)
  OBVIOUS
<1> HIDE DEF P
<1>1. ASSUME NEW f \in Leaves(j) PROVE <<0, f, 0>> \in P
  <2>1. f \in Fns(j)
    BY LeafFn
  <2>2. Derived(j, 0, f, 0)
    BY DerivedLeaf
  <2>3. Reason(j, 0, f, 0)
    BY DEF Reason
  <2> QED
    BY <1>0, <2>1, <2>2, <2>3
<1>2. ASSUME NEW a \in Nat, NEW b \in Nat, NEW f \in Fns(j), <<a, f, b>> \in P
      PROVE  <<a + 1, f, b>> \in P
  <2>1. Derived(j, a, f, b)
    BY <1>0, <1>2
  <2>2. Derived(j, a + 1, f, b)
    BY <2>1, DerivedUp
  <2>3. a + 1 \in Nat /\ a + 1 # 0 /\ (a + 1) - 1 = a
    OBVIOUS
  <2>4. Reason(j, a + 1, f, b)
    BY <2>1, <2>3 DEF Reason
  <2> QED
    BY <1>0, <2>2, <2>3, <2>4
<1>3. ASSUME NEW a \in Nat, NEW c \in Nat, NEW d \in Nat, NEW f \in Fns(j), NEW e \in Fns(j),
             NEW g \in j.gates,
             <<a, f, c>> \in P, <<a, e, d>> \in P, Operands(g, f, c, e, d)
      PROVE  <<a + 1, apply(g, f, e), Price(g, c, d) + node_cost(apply(g, f, e))>> \in P
  <2> DEFINE w == Price(g, c, d) + node_cost(apply(g, f, e))
  <2>1. Derived(j, a, f, c) /\ Derived(j, a, e, d)
    BY <1>0, <1>3
  <2>2. Derived(j, a + 1, apply(g, f, e), w)
    BY <2>1, <1>3, DerivedGate
  <2>3. apply(g, f, e) \in Fns(j) /\ w \in Nat
    BY PriceNat
  <2>4. a + 1 \in Nat /\ a + 1 # 0 /\ (a + 1) - 1 = a
    OBVIOUS
  <2>5. ByGate(j, a, apply(g, f, e), w)
    BY <2>1, <1>3 DEF ByGate
  <2>6. Reason(j, a + 1, apply(g, f, e), w)
    BY <2>4, <2>5 DEF Reason
  <2> QED
    BY <1>0, <2>2, <2>3, <2>4, <2>6
<1>4. Closed(j, P)
  BY <1>1, <1>2, <1>3 DEF Closed
<1>5. <<k, h, v>> \in P
  BY <1>00, <1>4 DEF Derived
<1> QED
  BY <1>0, <1>5
-----------------------------------------------------------------------------
(* The state of a search.  A table of netlists has a cost for each; it     *)
(* keeps a function at a cost when it has a netlist no dearer.             *)
Table(nets) ==
  /\ DOMAIN nets \subseteq Fns(job)
  /\ \A f \in DOMAIN nets : nets[f].cost \in Nat

Kept(nets, h, c) == h \in DOMAIN nets /\ nets[h].cost <= c

(* Gate i has been put on f, and on f with every second operand, where the *)
(* bound did not forbid it.                                                *)
Covered(i, f) ==
  \A h \in DOMAIN signals :
    LET g == GATES[i]
        c == Price(g, cf(f), cf(h))
    IN  /\ g \in job.gates /\ Operands(g, f, cf(f), h, cf(h)) /\ ~Cut(c)
        => Kept(new, apply(g, f, h), c + node_cost(apply(g, f, h)))

Optimal(C) ==
  /\ C \in SUBSET Nat
  /\ \A b, c \in C : b = c
  /\ \A c \in C : Derived(job, job.max_depth, job.target, c)
  /\ \A v \in Nat : Derived(job, job.max_depth, job.target, v) => \E c \in C : c <= v

TypeInv ==
  /\ job \in Jobs /\ prune \in BOOLEAN
  /\ Table(signals) /\ Table(new)
  /\ depth \in 1 .. job.max_depth + 1
  /\ gate \in 1 .. Len(GATES) + 1
  /\ pool \subseteq DOMAIN signals
  /\ best_cost \in SUBSET Nat

(* Every netlist kept exists; every one that exists in the levels done and *)
(* is below the bound has one kept that is no dearer; the bound is one of  *)
(* the target.                                                             *)
KeptExist == \A f \in DOMAIN signals : Derived(job, depth - 1, f, cf(f))

ExactBelow ==
  \A h \in Fns(job), v \in Nat :
    Derived(job, depth - 1, h, v) /\ (\A b \in Bound : v < b) => Kept(signals, h, v)

BoundKnown == \A b \in best_cost : Kept(signals, job.target, b)

(* The same of the level being built, as far as the loops have come.       *)
NewExist == \A f \in DOMAIN new : Derived(job, depth, f, new[f].cost)

NewCovers ==
  depth <= job.max_depth =>
    \A i \in 1 .. Len(GATES), f \in DOMAIN signals :
      i < gate \/ (i = gate /\ f \notin pool) => Covered(i, f)

NewEmpty == depth > job.max_depth => DOMAIN new = {} /\ ~Searching

FoundOptimal ==
  /\ \E S : found \in Seq(S)
  /\ \A i \in DOMAIN found : Optimal(found[i].cost)

SearchInv ==
  /\ TypeInv /\ KeptExist /\ ExactBelow /\ BoundKnown
  /\ NewExist /\ NewCovers /\ NewEmpty /\ FoundOptimal

(* The costs kept are naturals.                                            *)
LEMMA CfNat ==
  ASSUME TypeInv, NEW f \in DOMAIN signals
  PROVE  cf(f) \in Nat /\ f \in Fns(job)
BY DEF TypeInv, Table, cf

(* The cheapest of a set is one of it.                                     *)
LEMMA CheapestIs ==
  ASSUME NEW S \in SUBSET DOMAIN signals, S # {}, TypeInv
  PROVE  LET o == Cheapest(S, cf) IN o \in S /\ \A f \in S : cf(o) <= cf(f)
<1> DEFINE V == {cf(f) : f \in S}
<1>1. V \in SUBSET Nat /\ V # {}
  BY CfNat
<1>2. PICK m \in V : \A k \in V : m <= k
  <2> HIDE DEF V
  <2> QED BY <1>1, LeastNat
<1>3. PICK f \in S : cf(f) = m
  OBVIOUS
<1>4. \A g \in S : cf(f) <= cf(g)
  BY <1>2, <1>3
<1> QED
  BY <1>4 DEF Cheapest

(* The cheapest netlist of a set is one of it.                             *)
LEMMA CheapestNet ==
  ASSUME NEW S, S # {}, \A n \in S : n.cost \in Nat
  PROVE  LET o == Cheapest(S, LAMBDA n : n.cost) IN o \in S /\ \A n \in S : o.cost <= n.cost
<1> DEFINE V == {n.cost : n \in S}
<1>1. V \in SUBSET Nat /\ V # {}
  OBVIOUS
<1>2. PICK m \in V : \A k \in V : m <= k
  <2> HIDE DEF V
  <2> QED BY <1>1, LeastNat
<1>3. PICK f \in S : f.cost = m
  OBVIOUS
<1>4. \A g \in S : f.cost <= g.cost
  BY <1>2, <1>3
<1> QED
  BY <1>4 DEF Cheapest

(* A row of placements leaves the tables it is offered to with the least.  *)
Offered(row) ==
  /\ DOMAIN new' \subseteq Fns(job)
  /\ \A f \in DOMAIN new' :
       /\ new'[f].cost \in Nat
       /\ \/ f \in DOMAIN new /\ new'[f].cost = new[f].cost
          \/ \E n \in row : n.fn = f /\ new'[f].cost = n.cost
  /\ \A f \in Fns(job), c \in Nat : Kept(new, f, c) => Kept(new', f, c)
  /\ \A n \in row : Kept(new', n.fn, n.cost)

(* Offer does so.                                                          *)
LEMMA OfferRow ==
  ASSUME TypeInv, NEW row, \A n \in row : n.fn \in Fns(job) /\ n.cost \in Nat, Offer(row)
  PROVE  Offered(row)
<1> DEFINE functions == {n.fn : n \in row}
           Of(h) == {n \in row : n.fn = h}
           least(h) == Cheapest(Of(h), LAMBDA n : n.cost)
           Taken(h) == h \in functions /\ Beats(least(h).cost, new, h)
<1>1. new' = [h \in DOMAIN new \cup functions |-> IF Taken(h) THEN least(h) ELSE new[h]]
  BY DEF Offer, Cheapest
<1>2. ASSUME NEW h \in functions
      PROVE  least(h) \in row /\ least(h).fn = h /\ \A n \in Of(h) : least(h).cost <= n.cost
  <2>1. Of(h) # {} /\ \A n \in Of(h) : n.cost \in Nat
    OBVIOUS
  <2>2. least(h) \in Of(h) /\ \A n \in Of(h) : least(h).cost <= n.cost
    <3> HIDE DEF Of
    <3> QED BY <2>1, CheapestNet
  <2> QED
    BY <2>2
<1> HIDE DEF least
<1>3. \A f \in DOMAIN new : new[f].cost \in Nat /\ f \in Fns(job)
  BY DEF TypeInv, Table
<1>4. DOMAIN new' \subseteq Fns(job)
  BY <1>1, <1>3
<1>5. ASSUME NEW f \in DOMAIN new'
      PROVE  /\ new'[f].cost \in Nat
             /\ \/ f \in DOMAIN new /\ new'[f].cost = new[f].cost
                \/ \E n \in row : n.fn = f /\ new'[f].cost = n.cost
  <2>1. CASE Taken(f)
    <3>1. new'[f] = least(f)
      BY <1>1, <2>1
    <3> QED
      BY <1>2, <2>1, <3>1
  <2>2. CASE ~Taken(f)
    <3>1. new'[f] = new[f] /\ f \in DOMAIN new
      BY <1>1, <2>2 DEF Beats
    <3> QED
      BY <1>3, <3>1
  <2> QED
    BY <2>1, <2>2
<1>6. ASSUME NEW f \in Fns(job), NEW c \in Nat, Kept(new, f, c) PROVE Kept(new', f, c)
  <2>1. f \in DOMAIN new /\ new[f].cost <= c /\ new[f].cost \in Nat
    BY <1>3, <1>6 DEF Kept
  <2>2. f \in DOMAIN new'
    BY <1>1, <2>1
  <2>3. CASE Taken(f)
    <3>1. new'[f] = least(f) /\ least(f).cost < new[f].cost
      BY <1>1, <2>1, <2>3 DEF Beats
    <3>2. least(f).cost \in Nat
      BY <1>2, <2>3
    <3> QED
      BY <2>1, <2>2, <3>1, <3>2 DEF Kept
  <2>4. CASE ~Taken(f)
    BY <1>1, <2>1, <2>2, <2>4 DEF Kept
  <2> QED
    BY <2>3, <2>4
<1>7. ASSUME NEW n \in row PROVE Kept(new', n.fn, n.cost)
  <2> DEFINE f == n.fn
  <2>1. f \in functions /\ f \in DOMAIN new' /\ n \in Of(f)
    BY <1>1
  <2>2. least(f).cost <= n.cost /\ least(f).cost \in Nat /\ n.cost \in Nat
    BY <1>2, <2>1
  <2>3. CASE Taken(f)
    <3>1. new'[f] = least(f)
      BY <1>1, <2>1, <2>3
    <3> QED
      BY <2>1, <2>2, <3>1 DEF Kept
  <2>4. CASE ~Taken(f)
    <3>1. new'[f] = new[f] /\ f \in DOMAIN new /\ ~(least(f).cost < new[f].cost)
      BY <1>1, <2>1, <2>4 DEF Beats
    <3>2. new[f].cost <= n.cost
      BY <1>3, <2>2, <3>1
    <3> QED
      BY <2>1, <3>1, <3>2 DEF Kept
  <2> QED
    BY <2>3, <2>4
<1> QED
  BY <1>4, <1>5, <1>6, <1>7 DEF Offered
-----------------------------------------------------------------------------
(* One row: what a step offers, and all that the bound allows.             *)
RowOf(g, o, row) ==
  /\ \A n \in row : \E h \in DOMAIN signals :
       /\ Operands(g, o, cf(o), h, cf(h))
       /\ n.fn = apply(g, o, h) /\ n.cost = Price(g, cf(o), cf(h)) + node_cost(n.fn)
  /\ \A h \in DOMAIN signals :
       Operands(g, o, cf(o), h, cf(h)) /\ ~Cut(Price(g, cf(o), cf(h))) =>
         \E n \in row : /\ n.fn = apply(g, o, h)
                        /\ n.cost = Price(g, cf(o), cf(h)) + node_cost(n.fn)

(* A row placed for the cheapest of the pool keeps the invariant.          *)
LEMMA RowKeeps ==
  ASSUME SearchInv, Searching, pool # {}, GATES[gate] \in job.gates,
         NEW row, RowOf(GATES[gate], Operand, row), Row(row)
  PROVE  SearchInv'
<1> DEFINE g == GATES[gate]
           o == Operand
           v(h) == Price(g, cf(o), cf(h)) + node_cost(apply(g, o, h))
<1>1. /\ TypeInv /\ KeptExist /\ ExactBelow /\ BoundKnown
      /\ NewExist /\ NewCovers /\ NewEmpty /\ FoundOptimal
  BY DEF SearchInv
<1>2. /\ UNCHANGED <<job, prune, signals, depth, gate, best_cost, found>>
      /\ pool' = pool \ {o} /\ Offer(row)
  BY DEF Row
<1>3. o \in pool /\ o \in DOMAIN signals /\ o \in Fns(job) /\ cf(o) \in Nat
  BY <1>1, CheapestIs, CfNat DEF Operand, TypeInv
<1>4. /\ g \in job.gates /\ job \in Jobs /\ depth \in Nat /\ depth - 1 \in Nat
      /\ job.max_depth \in Nat /\ depth <= job.max_depth
  BY <1>1, JobsAssumption DEF TypeInv, NewEmpty
<1>5. ASSUME NEW h \in DOMAIN signals
      PROVE  /\ h \in Fns(job) /\ cf(h) \in Nat /\ apply(g, o, h) \in Fns(job)
             /\ Price(g, cf(o), cf(h)) \in Nat /\ v(h) \in Nat
  BY <1>1, <1>3, <1>4, CfNat, PriceNat
<1>6. ASSUME NEW n \in row
      PROVE  n.fn \in Fns(job) /\ n.cost \in Nat /\ Derived(job, depth, n.fn, n.cost)
  <2>1. PICK h \in DOMAIN signals : /\ Operands(g, o, cf(o), h, cf(h))
                                    /\ n.fn = apply(g, o, h) /\ n.cost = v(h)
    BY DEF RowOf
  <2>2. Derived(job, depth - 1, o, cf(o)) /\ Derived(job, depth - 1, h, cf(h))
    BY <1>1, <1>3 DEF KeptExist
  <2>3. Derived(job, (depth - 1) + 1, apply(g, o, h), v(h))
    BY <1>3, <1>4, <1>5, <2>1, <2>2, DerivedGate
  <2>4. (depth - 1) + 1 = depth
    BY <1>4
  <2> QED
    BY <1>5, <2>1, <2>3, <2>4
<1>7. Offered(row)
  BY <1>1, <1>2, <1>6, OfferRow
<1>8. \A c : Cut(c)' <=> Cut(c)
  BY <1>2 DEF Cut, Bound, MinNode
<1>9. \A f : cf(f)' = cf(f)
  BY <1>2 DEF cf
<1>10. TypeInv'
  <2>1. Table(new)'
    BY <1>2, <1>7 DEF Offered, Table
  <2>2. Table(signals)'
    BY <1>1, <1>2 DEF TypeInv, Table
  <2> QED
    BY <1>1, <1>2, <2>1, <2>2 DEF TypeInv
<1>11. KeptExist' /\ ExactBelow' /\ BoundKnown' /\ FoundOptimal'
  <2>1. KeptExist'
    BY <1>1, <1>2, <1>9 DEF KeptExist
  <2>2. ExactBelow'
    <3>1. Bound' = Bound
      BY <1>2 DEF Bound
    <3> QED
      BY <1>1, <1>2, <3>1 DEF ExactBelow, Kept
  <2>3. BoundKnown'
    BY <1>1, <1>2 DEF BoundKnown, Kept
  <2>4. FoundOptimal'
    BY <1>1, <1>2 DEF FoundOptimal, Optimal
  <2> QED
    BY <2>1, <2>2, <2>3, <2>4
<1>12. NewExist'
  <2>1. ASSUME NEW f \in DOMAIN new' PROVE Derived(job, depth, f, new'[f].cost)
    BY <1>1, <1>6, <1>7 DEF Offered, NewExist
  <2> QED
    BY <1>2, <2>1 DEF NewExist
<1>13. NewEmpty'
  BY <1>2, <1>4 DEF NewEmpty
<1>14. NewCovers'
  <2>1. SUFFICES ASSUME NEW i \in 1 .. Len(GATES), NEW f \in DOMAIN signals,
                        i < gate \/ (i = gate /\ f \notin pool')
                 PROVE  Covered(i, f)'
    BY <1>2 DEF NewCovers
  <2>2. SUFFICES ASSUME NEW h \in DOMAIN signals,
                        GATES[i] \in job.gates, Operands(GATES[i], f, cf(f), h, cf(h)),
                        ~Cut(Price(GATES[i], cf(f), cf(h)))
                 PROVE  Kept(new', apply(GATES[i], f, h),
                             Price(GATES[i], cf(f), cf(h)) + node_cost(apply(GATES[i], f, h)))
    BY <1>2, <1>8, <1>9 DEF Covered
  <2>3. CASE i = gate /\ f = o
    <3>1. PICK n \in row : n.fn = apply(g, o, h) /\ n.cost = v(h)
      BY <2>2, <2>3 DEF RowOf
    <3> QED
      BY <1>7, <2>3, <3>1 DEF Offered
  <2>4. CASE ~(i = gate /\ f = o)
    <3>1. i < gate \/ (i = gate /\ f \notin pool)
      BY <1>2, <2>1, <2>4
    <3>2. Covered(i, f)
      BY <1>1, <1>4, <3>1 DEF NewCovers
    <3> DEFINE a == apply(GATES[i], f, h)
               c == Price(GATES[i], cf(f), cf(h)) + node_cost(a)
    <3>3. Kept(new, a, c)
      BY <2>2, <3>2 DEF Covered
    <3>4. a \in Fns(job) /\ c \in Nat
      BY <1>1, <1>4, <2>2, CfNat, PriceNat
    <3> HIDE DEF a, c
    <3>5. Kept(new', a, c)
      BY <1>7, <3>3, <3>4 DEF Offered
    <3> QED
      BY <3>5 DEF a, c
  <2> QED
    BY <2>3, <2>4
<1> QED
  BY <1>10, <1>11, <1>12, <1>13, <1>14 DEF SearchInv

(* A gate of one input, put on the cheapest of the pool.                   *)
LEMMA UnaryRow ==
  ASSUME TypeInv, UnaryStep
  PROVE  RowOf(GATES[gate], Operand, {Place1(Operand)})
<1> DEFINE g == GATES[gate]
           o == Operand
           n == Place1(o)
<1>1. pool # {} /\ arity(g) = 1
  BY DEF UnaryStep
<1>2. o \in DOMAIN signals
  BY <1>1, CheapestIs DEF Operand, TypeInv
<1>3. n.fn = apply(g, o, o) /\ n.cost = Price(g, cf(o), cf(o)) + node_cost(n.fn)
  BY <1>1 DEF Place1, Net, Price
<1>4. Operands(g, o, cf(o), o, cf(o))
  BY DEF Operands
<1>5. ASSUME NEW h \in DOMAIN signals, Operands(g, o, cf(o), h, cf(h)) PROVE h = o
  BY <1>1, <1>5 DEF Operands
<1>6. RowOf(g, o, {n})
  <2> HIDE DEF n, g, o
  <2> QED
    BY <1>2, <1>3, <1>4, <1>5 DEF RowOf
<1> QED
  BY <1>6

(* A gate of two inputs, put on the cheapest and every partner allowed.    *)
LEMMA BinaryRow ==
  ASSUME TypeInv, BinaryStep
  PROVE  RowOf(GATES[gate], Operand,
               {Place2(Operand, h) : h \in {h \in DOMAIN signals : ~Cut(cf(Operand) + cf(h))}})
<1> DEFINE g == GATES[gate]
           o == Operand
           row == {Place2(o, h) : h \in {h \in DOMAIN signals : ~Cut(cf(o) + cf(h))}}
<1>1. pool # {} /\ arity(g) # 1
  BY DEF BinaryStep
<1>2. ASSUME NEW h \in DOMAIN signals
      PROVE  /\ Place2(o, h).fn = apply(g, o, h)
             /\ Place2(o, h).cost = Price(g, cf(o), cf(h)) + node_cost(Place2(o, h).fn)
             /\ Price(g, cf(o), cf(h)) = cf(o) + cf(h)
             /\ Operands(g, o, cf(o), h, cf(h))
  BY <1>1 DEF Place2, Net, Price, Operands
<1>3. RowOf(g, o, row)
  <2>1. ASSUME NEW n \in row
        PROVE  \E h \in DOMAIN signals :
                 /\ Operands(g, o, cf(o), h, cf(h))
                 /\ n.fn = apply(g, o, h) /\ n.cost = Price(g, cf(o), cf(h)) + node_cost(n.fn)
    <3>1. PICK h \in DOMAIN signals : n = Place2(o, h)
      OBVIOUS
    <3> QED
      BY <1>2, <3>1
  <2>2. ASSUME NEW h \in DOMAIN signals, ~Cut(Price(g, cf(o), cf(h)))
        PROVE  \E n \in row : /\ n.fn = apply(g, o, h)
                              /\ n.cost = Price(g, cf(o), cf(h)) + node_cost(n.fn)
    <3>1. Place2(o, h) \in row
      BY <1>2, <2>2
    <3> QED
      BY <1>2, <3>1
  <2> HIDE DEF row, g, o
  <2> QED
    BY <2>1, <2>2 DEF RowOf
<1> QED
  BY <1>3

(* Both steps place such a row.                                            *)
LEMMA StepRow ==
  ASSUME TypeInv, UnaryStep \/ BinaryStep
  PROVE  /\ Searching /\ pool # {} /\ GATES[gate] \in job.gates
         /\ \E row : RowOf(GATES[gate], Operand, row) /\ Row(row)
<1>1. CASE UnaryStep
  BY <1>1, UnaryRow DEF UnaryStep
<1>2. CASE BinaryStep
  BY <1>2, BinaryRow DEF BinaryStep
<1> QED
  BY <1>1, <1>2

(* A first operand too dear for the bound leaves nothing to do: no input   *)
(* lowers a price, and the rest of the pool is no cheaper.                 *)
LEMMA CutCovers ==
  ASSUME TypeInv, pool # {}, Cut(cf(Operand)), NEW f \in pool, NEW i \in 1 .. Len(GATES)
  PROVE  Covered(i, f)
<1>1. PICK b \in Bound : cf(Operand) + MinNode >= b
  BY DEF Cut
<1>2. Operand \in DOMAIN signals /\ cf(Operand) <= cf(f) /\ f \in DOMAIN signals
  BY CheapestIs DEF Operand, TypeInv
<1>3. b \in Nat /\ MinNode \in Nat
  <2>1. b \in Nat
    BY DEF Bound, TypeInv
  <2>2. job \in Jobs
    BY DEF TypeInv
  <2>3. PICK l \in Fns(job) : TRUE
    <3>1. Always(job.n, 0) \in Fns(job)
      BY DEF Always, Fns, TRITS
    <3> QED BY <3>1
  <2>4. MinNode \in Nat
    BY <2>2, <2>3, NodeBound DEF MinNode
  <2> QED
    BY <2>1, <2>4
<1>4. ASSUME NEW h \in DOMAIN signals PROVE Cut(Price(GATES[i], cf(f), cf(h)))
  <2>1. cf(f) \in Nat /\ cf(h) \in Nat /\ cf(Operand) \in Nat
    BY <1>2, CfNat
  <2>2. Price(GATES[i], cf(f), cf(h)) \in Nat /\ Price(GATES[i], cf(f), cf(h)) >= cf(f)
    BY <2>1 DEF Price
  <2> DEFINE p == Price(GATES[i], cf(f), cf(h))
             q == cf(f)
             r == cf(Operand)
             m == MinNode
  <2>3. p + m >= b
    <3>1. p \in Nat /\ q \in Nat /\ r \in Nat /\ m \in Nat /\ b \in Nat
      BY <1>3, <2>1, <2>2
    <3>2. p >= q /\ r <= q /\ r + m >= b
      BY <1>1, <1>2, <2>2
    <3> HIDE DEF p, q, r, m
    <3> QED
      BY <3>1, <3>2
  <2> QED
    BY <2>3 DEF Cut
<1> QED
  BY <1>4 DEF Covered

(* The loop over the pool is left when all of it is done or too dear.      *)
LEMMA NextGateKeeps ==
  ASSUME SearchInv, NextGate
  PROVE  SearchInv'
<1>1. /\ TypeInv /\ KeptExist /\ ExactBelow /\ BoundKnown
      /\ NewExist /\ NewCovers /\ NewEmpty /\ FoundOptimal
  BY DEF SearchInv
<1>2. /\ UNCHANGED <<job, prune, signals, depth, new, best_cost, found>>
      /\ gate' = gate + 1 /\ pool' = DOMAIN signals /\ gate <= Len(GATES)
      /\ (pool # {} /\ GATES[gate] \in job.gates) => Cut(cf(Operand))
  BY DEF NextGate, Searching
<1>3. Len(GATES) = 7 /\ gate \in Nat
  BY <1>1 DEF GATES, TypeInv
<1>4. TypeInv'
  <2>1. gate' \in 1 .. Len(GATES) + 1
    BY <1>1, <1>2, <1>3 DEF TypeInv
  <2>2. Table(new)' /\ Table(signals)'
    BY <1>1, <1>2 DEF TypeInv, Table
  <2> QED
    BY <1>1, <1>2, <2>1, <2>2 DEF TypeInv
<1>5. \A c : Cut(c)' <=> Cut(c)
  BY <1>2 DEF Cut, Bound, MinNode
<1>6. \A f : cf(f)' = cf(f)
  BY <1>2 DEF cf
<1>7. KeptExist' /\ BoundKnown' /\ NewExist' /\ FoundOptimal'
  <2>1. KeptExist'
    BY <1>1, <1>2, <1>6 DEF KeptExist
  <2> QED
    BY <1>1, <1>2, <2>1 DEF BoundKnown, NewExist, FoundOptimal, Optimal, Kept
<1>8. ExactBelow'
  <2>1. Bound' = Bound
    BY <1>2 DEF Bound
  <2> QED
    BY <1>1, <1>2, <2>1 DEF ExactBelow, Kept
<1>9. NewEmpty'
  <2>1. depth <= job.max_depth
    <3>1. job.max_depth \in Nat /\ depth \in Nat
      BY <1>1, JobsAssumption DEF TypeInv
    <3>2. Searching
      BY <1>2 DEF Searching
    <3> QED
      BY <1>1, <3>1, <3>2 DEF NewEmpty
  <2>2. ~(depth > job.max_depth)
    BY <1>1, <2>1, JobsAssumption DEF TypeInv
  <2> QED
    BY <1>2, <2>2 DEF NewEmpty
<1>10. NewCovers'
  <2>1. SUFFICES ASSUME NEW i \in 1 .. Len(GATES), NEW f \in DOMAIN signals, i <= gate,
                        depth <= job.max_depth
                 PROVE  Covered(i, f)'
    BY <1>2, <1>3 DEF NewCovers
  <2>2. SUFFICES Covered(i, f)
    BY <1>2, <1>5, <1>6 DEF Covered, Kept
  <2>3. CASE i < gate \/ (i = gate /\ f \notin pool)
    BY <1>1, <2>1, <2>3 DEF NewCovers
  <2>4. CASE i = gate /\ f \in pool
    <3>1. CASE GATES[gate] \in job.gates
      BY <1>1, <1>2, <2>4, <3>1, CutCovers
    <3>2. CASE GATES[gate] \notin job.gates
      BY <2>4, <3>2 DEF Covered
    <3> QED
      BY <3>1, <3>2
  <2> QED
    BY <1>3, <2>1, <2>3, <2>4
<1> QED
  BY <1>4, <1>7, <1>8, <1>9, <1>10 DEF SearchInv

-----------------------------------------------------------------------------
(* A level merged into the table: nothing kept is lost, nothing is made up.*)
LEMMA MergeKeeps ==
  ASSUME TypeInv
  PROVE  LET all == Merge(signals, new)
         IN  /\ DOMAIN all = DOMAIN signals \cup DOMAIN new
             /\ \A h \in DOMAIN all :
                  /\ h \in Fns(job) /\ all[h].cost \in Nat
                  /\ \/ h \in DOMAIN signals /\ all[h] = signals[h]
                     \/ h \in DOMAIN new /\ all[h] = new[h]
             /\ \A h \in Fns(job), c \in Nat :
                  Kept(signals, h, c) \/ Kept(new, h, c) => Kept(all, h, c)
<1> DEFINE all == Merge(signals, new)
<1>1. /\ \A f \in DOMAIN new : new[f].cost \in Nat /\ f \in Fns(job)
      /\ \A f \in DOMAIN signals : signals[f].cost \in Nat /\ f \in Fns(job)
  BY DEF TypeInv, Table
<1>2. DOMAIN all = DOMAIN signals \cup DOMAIN new
  BY DEF Merge
<1>3. ASSUME NEW h \in DOMAIN all
      PROVE  \/ /\ h \in DOMAIN new /\ all[h] = new[h]
                /\ h \in DOMAIN signals => new[h].cost <= signals[h].cost
             \/ /\ h \in DOMAIN signals /\ all[h] = signals[h]
                /\ h \in DOMAIN new => signals[h].cost <= new[h].cost
  <2>1. h \in DOMAIN signals \cup DOMAIN new
    BY <1>2
  <2>2. CASE h \in DOMAIN new /\ Beats(new[h].cost, signals, h)
    <3>1. all[h] = new[h]
      BY <2>1, <2>2 DEF Merge
    <3>2. h \in DOMAIN signals => new[h].cost < signals[h].cost
      BY <2>2 DEF Beats
    <3> QED
      BY <1>1, <2>2, <3>1, <3>2
  <2>3. CASE ~(h \in DOMAIN new /\ Beats(new[h].cost, signals, h))
    <3>1. all[h] = signals[h]
      BY <2>1, <2>3 DEF Merge
    <3>2. h \in DOMAIN signals /\ (h \in DOMAIN new => ~(new[h].cost < signals[h].cost))
      BY <2>1, <2>3 DEF Beats
    <3> QED
      BY <1>1, <3>1, <3>2
  <2> QED
    BY <2>2, <2>3
<1> HIDE DEF all
<1>4. ASSUME NEW h \in Fns(job), NEW c \in Nat, Kept(signals, h, c) \/ Kept(new, h, c)
      PROVE  Kept(all, h, c)
  <2>1. h \in DOMAIN all
    BY <1>2, <1>4 DEF Kept
  <2> QED
    BY <1>1, <1>3, <1>4, <2>1 DEF Kept
<1>5. ASSUME NEW h \in DOMAIN all
      PROVE  /\ h \in Fns(job) /\ all[h].cost \in Nat
             /\ \/ h \in DOMAIN signals /\ all[h] = signals[h]
                \/ h \in DOMAIN new /\ all[h] = new[h]
  BY <1>1, <1>3
<1> QED
  BY <1>2, <1>4, <1>5 DEF all

(* The step of the induction by levels: a netlist of one level more that is*)
(* below the bound is a gate on two that are, so the loops have placed it, *)
(* or something no dearer.                                                 *)
LEMMA LevelCovers ==
  ASSUME TypeInv, ExactBelow, depth <= job.max_depth,
         \A i \in 1 .. Len(GATES), f \in DOMAIN signals : Covered(i, f),
         NEW h \in Fns(job), NEW v \in Nat, Derived(job, depth, h, v), \A b \in Bound : v < b
  PROVE  Kept(signals, h, v) \/ Kept(new, h, v)
<1>1. job \in Jobs /\ depth \in Nat /\ depth # 0 /\ depth - 1 \in Nat
  BY JobsAssumption DEF TypeInv
<1>2. Reason(job, depth, h, v)
  BY <1>1, DerivedInversion
<1>3. CASE Derived(job, depth - 1, h, v)
  BY <1>3 DEF ExactBelow
<1>4. CASE ByGate(job, depth - 1, h, v)
  <2>1. PICK g \in job.gates, f \in Fns(job), e \in Fns(job), c \in Nat, d \in Nat :
          /\ Derived(job, depth - 1, f, c) /\ Derived(job, depth - 1, e, d)
          /\ Operands(g, f, c, e, d)
          /\ h = apply(g, f, e) /\ v = Price(g, c, d) + node_cost(h)
    BY <1>4 DEF ByGate
  <2>2. node_cost(h) \in Nat /\ MinNode \in Nat /\ MinNode <= node_cost(h)
    BY <1>1, NodeBound DEF MinNode
  <2>3. Price(g, c, d) \in Nat /\ c <= Price(g, c, d) /\ d <= Price(g, c, d)
    BY <2>1 DEF Price, Operands
  <2>4. c <= v /\ d <= v
    BY <2>1, <2>2, <2>3
  <2>5. \A b \in Bound : b \in Nat /\ c < b /\ d < b
    <3>1. \A b \in Bound : b \in Nat
      BY DEF Bound, TypeInv
    <3> QED
      BY <2>4, <3>1
  <2>6. Kept(signals, f, c) /\ Kept(signals, e, d)
    BY <2>1, <2>5 DEF ExactBelow
  <2>7. /\ f \in DOMAIN signals /\ e \in DOMAIN signals
        /\ cf(f) \in Nat /\ cf(e) \in Nat /\ cf(f) <= c /\ cf(e) <= d
    BY <2>6, CfNat DEF Kept, cf
  <2>8. Operands(g, f, cf(f), e, cf(e))
    BY <2>1 DEF Operands
  <2> DEFINE p == Price(g, cf(f), cf(e))
  <2>9. p \in Nat /\ p <= Price(g, c, d)
    BY <2>7 DEF Price
  <2> HIDE DEF p
  <2>10. p + node_cost(h) \in Nat /\ p + node_cost(h) <= v /\ p + MinNode <= v
    BY <2>1, <2>2, <2>3, <2>9
  <2>11. ~Cut(p)
    <3>1. \A b \in Bound : ~(p + MinNode >= b)
      BY <2>2, <2>5, <2>9, <2>10
    <3> QED
      BY <3>1 DEF Cut
  <2>12. PICK i \in 1 .. Len(GATES) : g = GATES[i]
    BY <1>1, JobsAssumption DEF GATES
  <2>13. Covered(i, f)
    BY <2>7
  <2>14. Kept(new, h, p + node_cost(h))
    BY <2>1, <2>7, <2>8, <2>11, <2>12, <2>13 DEF Covered, p
  <2>15. Kept(new, h, v)
    <3>1. \A f1 \in DOMAIN new : new[f1].cost \in Nat
      BY DEF TypeInv, Table
    <3> QED
      BY <2>10, <2>14, <3>1 DEF Kept
  <2> QED
    BY <2>15
<1> QED
  BY <1>1, <1>2, <1>3, <1>4 DEF Reason

(* The end of a level.                                                     *)
LEMMA EndLevelKeeps ==
  ASSUME SearchInv, EndLevel
  PROVE  SearchInv'
<1>1. /\ TypeInv /\ KeptExist /\ ExactBelow /\ BoundKnown
      /\ NewExist /\ NewCovers /\ NewEmpty /\ FoundOptimal
  BY DEF SearchInv
<1> DEFINE C == CostOf(new, job.target)
<1>2. /\ UNCHANGED <<job, prune, found>>
      /\ ~Searching /\ depth <= job.max_depth
      /\ signals' = Merge(signals, new) /\ pool' = DOMAIN signals' /\ depth' = depth + 1
      /\ new' = [h \in {} |-> 0]
      /\ gate' = IF depth < job.max_depth THEN 1 ELSE gate
  BY DEF EndLevel
<1>3. \/ best_cost' = C /\ \E c \in C : \A b \in best_cost : c < b
      \/ best_cost' = best_cost
  BY DEF EndLevel
<1>4. /\ job \in Jobs /\ depth \in Nat /\ depth - 1 \in Nat /\ depth' - 1 = depth
      /\ job.max_depth \in Nat /\ job.target \in Fns(job)
      /\ Len(GATES) = 7 /\ gate = Len(GATES) + 1
  <2>1. job \in Jobs /\ depth \in 1 .. job.max_depth + 1 /\ gate \in 1 .. Len(GATES) + 1
    BY <1>1 DEF TypeInv
  <2>2. job.max_depth \in Nat /\ job.target \in Fns(job)
    BY <2>1, JobsAssumption DEF Fns
  <2>3. Len(GATES) = 7
    BY DEF GATES
  <2>4. ~(gate <= Len(GATES))
    BY <1>2 DEF Searching
  <2> QED
    BY <1>2, <2>1, <2>2, <2>3, <2>4
<1>5. /\ \A h \in DOMAIN signals' :
           /\ h \in Fns(job) /\ signals'[h].cost \in Nat
           /\ \/ h \in DOMAIN signals /\ signals'[h] = signals[h]
              \/ h \in DOMAIN new /\ signals'[h] = new[h]
      /\ \A h \in Fns(job), c \in Nat :
           Kept(signals, h, c) \/ Kept(new, h, c) => Kept(signals', h, c)
  BY <1>1, <1>2, MergeKeeps
<1>6. /\ C \in SUBSET Nat
      /\ \A c \in C : Kept(new, job.target, c)
      /\ \A b, c \in C : b = c
  <2>1. \A f \in DOMAIN new : new[f].cost \in Nat
    BY <1>1 DEF TypeInv, Table
  <2> QED
    BY <2>1 DEF CostOf, Kept
<1> HIDE DEF C
<1>7. TypeInv'
  <2>1. Table(signals)'
    BY <1>2, <1>5 DEF Table
  <2>2. Table(new)'
    BY <1>2 DEF Table
  <2>3. depth' \in 1 .. job.max_depth + 1
    BY <1>2, <1>4
  <2>4. gate' \in 1 .. Len(GATES) + 1
    BY <1>2, <1>4
  <2>5. best_cost' \in SUBSET Nat
    BY <1>1, <1>3, <1>6 DEF TypeInv
  <2> QED
    BY <1>1, <1>2, <2>1, <2>2, <2>3, <2>4, <2>5 DEF TypeInv
<1>8. KeptExist'
  <2>1. SUFFICES ASSUME NEW f \in DOMAIN signals'
                 PROVE  Derived(job, depth, f, signals'[f].cost)
    BY <1>2, <1>4 DEF KeptExist, cf
  <2>2. CASE f \in DOMAIN signals /\ signals'[f] = signals[f]
    <3>1. Derived(job, depth - 1, f, cf(f)) /\ f \in Fns(job) /\ cf(f) \in Nat
      BY <1>1, <2>2, CfNat DEF KeptExist
    <3>2. Derived(job, (depth - 1) + 1, f, cf(f))
      BY <1>4, <3>1, DerivedUp
    <3>3. (depth - 1) + 1 = depth
      BY <1>4
    <3> QED
      BY <2>2, <3>2, <3>3 DEF cf
  <2>3. CASE f \in DOMAIN new /\ signals'[f] = new[f]
    BY <1>1, <2>3 DEF NewExist
  <2> QED
    BY <1>5, <2>2, <2>3
<1>9. BoundKnown'
  <2>1. ASSUME NEW b \in best_cost' PROVE Kept(signals', job.target, b)
    <3>1. b \in Nat
      BY <1>7 DEF TypeInv
    <3>2. Kept(signals, job.target, b) \/ Kept(new, job.target, b)
      BY <1>1, <1>3, <1>6 DEF BoundKnown
    <3> QED
      BY <1>4, <1>5, <3>1, <3>2
  <2> QED
    BY <1>2, <2>1 DEF BoundKnown
<1>10. ExactBelow'
  <2>1. SUFFICES ASSUME NEW h \in Fns(job), NEW v \in Nat,
                        Derived(job, depth, h, v), \A b \in Bound' : v < b
                 PROVE  Kept(signals', h, v)
    BY <1>2, <1>4 DEF ExactBelow
  <2>2. \A b \in Bound : v < b
    <3>1. CASE ~prune
      BY <3>1 DEF Bound
    <3>2. CASE prune
      <4>1. Bound = best_cost /\ Bound' = best_cost'
        BY <1>2, <3>2 DEF Bound
      <4>2. ASSUME NEW b \in best_cost, NEW c \in C, best_cost' = C, c < b PROVE v < b
        <5>1. v < c
          BY <2>1, <4>1, <4>2
        <5>2. c \in Nat /\ b \in Nat
          BY <1>1, <1>6 DEF TypeInv
        <5> QED
          BY <4>2, <5>1, <5>2
      <4> QED
        BY <1>3, <2>1, <4>1, <4>2
    <3> QED
      BY <3>1, <3>2
  <2>3. \A i \in 1 .. Len(GATES), f \in DOMAIN signals : Covered(i, f)
    BY <1>1, <1>2, <1>4 DEF NewCovers
  <2>4. Kept(signals, h, v) \/ Kept(new, h, v)
    BY <1>1, <1>2, <2>1, <2>2, <2>3, LevelCovers
  <2> QED
    BY <1>5, <2>4
<1>11. NewExist'
  BY <1>2 DEF NewExist
<1>12. NewCovers'
  <2>1. depth' <= job.max_depth => gate' = 1
    BY <1>2, <1>4
  <2> QED
    BY <1>2, <2>1 DEF NewCovers
<1>13. NewEmpty'
  <2>1. depth' > job.max_depth => gate' = gate
    BY <1>2, <1>4
  <2>2. DOMAIN new' = {}
    BY <1>2
  <2> QED
    BY <1>2, <2>1, <2>2 DEF NewEmpty, Searching
<1>14. FoundOptimal'
  BY <1>1, <1>2 DEF FoundOptimal, Optimal
<1> QED
  BY <1>7, <1>8, <1>9, <1>10, <1>11, <1>12, <1>13, <1>14 DEF SearchInv

-----------------------------------------------------------------------------
(* After the last level the table has the optimum of the target.           *)
LEMMA TargetOptimal ==
  ASSUME SearchInv, depth > job.max_depth
  PROVE  Optimal(CostOf(signals, job.target))
<1> DEFINE C == CostOf(signals, job.target)
<1>1. TypeInv /\ KeptExist /\ ExactBelow /\ BoundKnown
  BY DEF SearchInv
<1>2. depth - 1 = job.max_depth /\ job.target \in Fns(job)
  BY <1>1, JobsAssumption DEF TypeInv, Fns
<1>3. C \in SUBSET Nat /\ \A b, c \in C : b = c
  BY <1>1 DEF TypeInv, Table, CostOf
<1>4. ASSUME NEW c \in C PROVE Derived(job, job.max_depth, job.target, c)
  BY <1>1, <1>2 DEF KeptExist, CostOf, cf
<1>5. ASSUME NEW v \in Nat, Kept(signals, job.target, v) PROVE \E c \in C : c <= v
  BY <1>5 DEF Kept, CostOf
<1>6. ASSUME NEW v \in Nat, Derived(job, job.max_depth, job.target, v)
      PROVE  \E c \in C : c <= v
  <2>1. CASE \A b \in Bound : v < b
    BY <1>1, <1>2, <1>5, <1>6, <2>1 DEF ExactBelow
  <2>2. CASE \E b \in Bound : ~(v < b)
    <3>1. PICK b \in Bound : ~(v < b)
      BY <2>2
    <3>2. b \in Nat /\ Kept(signals, job.target, b)
      BY <1>1 DEF Bound, TypeInv, BoundKnown
    <3>3. PICK c \in C : c <= b
      BY <1>5, <3>2
    <3> QED
      BY <1>3, <3>1, <3>2, <3>3
  <2> QED
    BY <2>1, <2>2
<1> HIDE DEF C
<1> QED
  BY <1>3, <1>4, <1>6 DEF Optimal, C

(* Where a run of the search starts.                                       *)
Fresh ==
  /\ job \in Jobs /\ prune \in BOOLEAN
  /\ signals = LeafNets(job) /\ pool = DOMAIN signals
  /\ depth = 1 /\ DOMAIN new = {} /\ gate = 1 /\ best_cost = {}
  /\ FoundOptimal

(* Both runs start well.                                                   *)
LEMMA FreshInv == Fresh => SearchInv
<1> SUFFICES ASSUME Fresh PROVE SearchInv
  OBVIOUS
<1>1. /\ job \in Jobs /\ prune \in BOOLEAN
      /\ signals = LeafNets(job) /\ pool = DOMAIN signals
      /\ depth = 1 /\ DOMAIN new = {} /\ gate = 1 /\ best_cost = {}
      /\ FoundOptimal
  BY DEF Fresh
<1>2. /\ DOMAIN signals = Leaves(job)
      /\ \A f \in DOMAIN signals : f \in Fns(job) /\ cf(f) = 0 /\ signals[f].cost = 0
  BY <1>1, LeafFn DEF LeafNets, Net, cf
<1>3. job.max_depth \in Nat \ {0} /\ Len(GATES) = 7
  BY <1>1, JobsAssumption DEF GATES
<1>4. TypeInv
  BY <1>1, <1>2, <1>3 DEF TypeInv, Table
<1>5. KeptExist
  <2>1. \A f \in DOMAIN signals : Derived(job, 0, f, 0)
    BY <1>1, <1>2, DerivedLeaf
  <2> QED
    BY <1>1, <1>2, <2>1 DEF KeptExist
<1>6. ExactBelow
  <2>1. SUFFICES ASSUME NEW h \in Fns(job), NEW v \in Nat, Derived(job, 0, h, v)
                 PROVE  Kept(signals, h, v)
    BY <1>1 DEF ExactBelow
  <2>2. Reason(job, 0, h, v)
    BY <1>1, <2>1, DerivedInversion
  <2> QED
    BY <1>2, <2>2 DEF Reason, Kept
<1>7. BoundKnown /\ NewExist /\ NewEmpty /\ NewCovers
  BY <1>1, <1>2, <1>3 DEF BoundKnown, NewExist, NewEmpty, NewCovers
<1> QED
  BY <1>1, <1>4, <1>5, <1>6, <1>7 DEF SearchInv

(* What the other steps leave alone.                                       *)
LEMMA SameKeeps ==
  ASSUME SearchInv, UNCHANGED <<job, prune, signals, depth, new, gate, pool, best_cost>>,
         FoundOptimal'
  PROVE  SearchInv'
<1>1. /\ TypeInv /\ KeptExist /\ ExactBelow /\ BoundKnown
      /\ NewExist /\ NewCovers /\ NewEmpty
  BY DEF SearchInv
<1>2. TypeInv' /\ KeptExist' /\ BoundKnown' /\ NewExist'
  BY <1>1 DEF TypeInv, Table, KeptExist, cf, BoundKnown, Kept, NewExist
<1>3. ExactBelow' /\ NewEmpty'
  BY <1>1 DEF ExactBelow, Bound, Kept, NewEmpty, Searching
<1>4. NewCovers'
  BY <1>1 DEF NewCovers, Covered, Cut, Bound, MinNode, cf, Kept
<1> QED
  BY <1>2, <1>3, <1>4 DEF SearchInv

(* The end of a run.                                                       *)
LEMMA ReturnKeeps ==
  ASSUME SearchInv, Return
  PROVE  SearchInv'
<1>1. /\ TypeInv /\ KeptExist /\ ExactBelow /\ BoundKnown
      /\ NewExist /\ NewCovers /\ NewEmpty /\ FoundOptimal
  BY DEF SearchInv
<1>2. /\ depth > job.max_depth
      /\ found' = Append(found, Returned) /\ job' = job /\ new' = new
  BY DEF Return
<1>3. FoundOptimal'
  <2>1. Optimal(Returned.cost)
    BY <1>2, TargetOptimal DEF Returned
  <2>2. PICK S : found \in Seq(S)
    BY <1>1 DEF FoundOptimal
  <2> DEFINE T == S \cup {Returned}
  <2>3. found \in Seq(T)
    BY <2>2
  <2>4. found' \in Seq(T)
    BY <1>2, <2>3
  <2>5. ASSUME NEW i \in DOMAIN found' PROVE Optimal(found'[i].cost)
    <3>1. CASE i \in DOMAIN found
      <4>1. found'[i] = found[i]
        BY <1>2, <2>3, <3>1
      <4> QED
        BY <1>1, <3>1, <4>1 DEF FoundOptimal
    <3>2. CASE i \notin DOMAIN found
      <4>1. found'[i] = Returned
        BY <1>2, <2>3, <3>2
      <4> QED
        BY <2>1, <4>1
    <3> QED
      BY <3>1, <3>2
  <2>6. \A i \in DOMAIN found' : Optimal(found[i].cost)'
    BY <1>2, <2>5 DEF Optimal
  <2> QED
    BY <2>4, <2>6 DEF FoundOptimal
<1>4. CASE prune
  <2>1. /\ prune' = FALSE /\ signals' = LeafNets(job) /\ pool' = DOMAIN signals'
        /\ depth' = 1 /\ gate' = 1 /\ best_cost' = {}
    BY <1>4 DEF Return
  <2>2. DOMAIN new = {}
    BY <1>1, <1>2 DEF NewEmpty
  <2>3. Fresh'
    BY <1>1, <1>2, <1>3, <2>1, <2>2 DEF Fresh, TypeInv, LeafNets, Leaves
  <2> QED
    BY <2>3, FreshInv, PTL
<1>5. CASE ~prune
  <2>1. UNCHANGED <<job, prune, signals, depth, new, gate, pool, best_cost>>
    BY <1>5 DEF Return
  <2> QED
    BY <1>3, <2>1, SameKeeps
<1> QED
  BY <1>4, <1>5

-----------------------------------------------------------------------------
(* The search keeps, at every step, a table that has every netlist of the  *)
(* levels done that could still matter, and no netlist that does not exist *)
(* (the loops of synthesize, 228-300).                                     *)
THEOREM SearchCorrect == Spec => []SearchInv
<1>1. Init => SearchInv
  <2>1. Init => Fresh
    <3> SUFFICES ASSUME Init PROVE Fresh
      OBVIOUS
    <3>1. found = <<>>
      BY DEF Init
    <3>2. FoundOptimal
      BY <3>1 DEF FoundOptimal
    <3> QED
      BY <3>2 DEF Init, Fresh
  <2> QED
    BY <2>1, FreshInv
<1>2. SearchInv /\ [Next]_searchVars => SearchInv'
  <2> SUFFICES ASSUME SearchInv, [Next]_searchVars PROVE SearchInv'
    OBVIOUS
  <2>1. CASE UnaryStep \/ BinaryStep
    <3>1. TypeInv
      BY DEF SearchInv
    <3> QED
      BY <2>1, <3>1, StepRow, RowKeeps
  <2>3. CASE NextGate
    BY <2>3, NextGateKeeps
  <2>4. CASE EndLevel
    BY <2>4, EndLevelKeeps
  <2>5. CASE Return
    BY <2>5, ReturnKeeps
  <2>6. CASE MuxStep \/ UNCHANGED searchVars
    <3>1. UNCHANGED <<job, prune, signals, depth, new, gate, pool, best_cost, found>>
      BY <2>6 DEF MuxStep, searchVars
    <3>2. FoundOptimal'
      BY <3>1 DEF SearchInv, FoundOptimal, Optimal
    <3> QED
      BY <3>1, <3>2, SameKeeps
  <2> QED
    BY <2>1, <2>3, <2>4, <2>5, <2>6 DEF Next
<1> QED
  BY <1>1, <1>2, PTL DEF Spec

(* Whatever a run of the search returns, pruned or not, is a netlist of at *)
(* most max_depth levels of the target, and no such netlist is cheaper;    *)
(* when it returns none there is none (205-208).                           *)
THEOREM ReturnsLeast == Spec => []FoundOptimal
<1>1. SearchInv => FoundOptimal
  BY DEF SearchInv
<1> QED
  BY <1>1, SearchCorrect, PTL

(* Two costs of least netlists are one, or there is none.                  *)
LEMMA OptimalOnce ==
  ASSUME NEW B, NEW C, Optimal(B), Optimal(C)
  PROVE  B = C
<1>1. ASSUME NEW X, NEW Y, Optimal(X), Optimal(Y), NEW x \in X PROVE x \in Y
  <2>1. x \in Nat /\ Derived(job, job.max_depth, job.target, x)
    BY <1>1 DEF Optimal
  <2>2. PICK y \in Y : y <= x
    BY <1>1, <2>1 DEF Optimal
  <2>3. y \in Nat /\ Derived(job, job.max_depth, job.target, y)
    BY <1>1 DEF Optimal
  <2>4. PICK z \in X : z <= y
    BY <1>1, <2>3 DEF Optimal
  <2>5. z = x
    BY <1>1 DEF Optimal
  <2> QED
    BY <2>1, <2>2, <2>3, <2>4, <2>5
<1> QED
  BY <1>1

(* Pruning does not change the optimum (the assertion of run_demo, 452),   *)
(* for every target, list of gates and non-negative energies.              *)
THEOREM PruningKeepsOptimum == Spec => []SameOptimum
<1>1. FoundOptimal => SameOptimum
  <2> SUFFICES ASSUME FoundOptimal, Len(found) = 2 PROVE found[1].cost = found[2].cost
    BY DEF SameOptimum
  <2>1. 1 \in DOMAIN found /\ 2 \in DOMAIN found
    <3>1. PICK S : found \in Seq(S)
      BY DEF FoundOptimal
    <3> QED
      BY <3>1
  <2>2. Optimal(found[1].cost) /\ Optimal(found[2].cost)
    BY <2>1 DEF FoundOptimal
  <2> QED
    BY <2>2, OptimalOnce
<1> QED
  BY <1>1, ReturnsLeast, PTL

-----------------------------------------------------------------------------
(* The search without pruning, level by level.  Everything new has been    *)
(* placed: a gate of the job on functions of the levels done, at the price *)
(* of that placement.                                                      *)
PlacedAs(h, p) ==
  \E g \in job.gates, f, e \in DOMAIN signals :
    Operands(g, f, cf(f), e, cf(e)) /\ h = apply(g, f, e) /\ p = Price(g, cf(f), cf(e))

NewPlaced ==
  \A h \in DOMAIN new : \E p \in Nat : PlacedAs(h, p) /\ new[h].cost = p + node_cost(h)

(* It is kept: a row adds placements, the rest of the steps add nothing.   *)
LEMMA PlacedKeeps ==
  ASSUME SearchInv, NewPlaced, [Next]_searchVars
  PROVE  NewPlaced'
<1>1. TypeInv /\ NewEmpty
  BY DEF SearchInv
<1>2. CASE UnaryStep \/ BinaryStep
  <2>1. PICK row : RowOf(GATES[gate], Operand, row) /\ Row(row)
    BY <1>1, <1>2, StepRow
  <2> DEFINE g == GATES[gate]
             o == Operand
  <2>2. g \in job.gates /\ pool # {} /\ job \in Jobs
    BY <1>1, <1>2, StepRow DEF TypeInv
  <2>3. o \in DOMAIN signals /\ o \in Fns(job) /\ cf(o) \in Nat
    BY <1>1, <2>2, CheapestIs, CfNat DEF Operand, TypeInv
  <2>4. UNCHANGED <<job, signals>> /\ Offer(row)
    BY <2>1 DEF Row
  <2>5. ASSUME NEW n \in row
        PROVE  /\ n.fn \in Fns(job) /\ n.cost \in Nat
               /\ \E p \in Nat : PlacedAs(n.fn, p) /\ n.cost = p + node_cost(n.fn)
    <3>1. PICK e \in DOMAIN signals :
            /\ Operands(g, o, cf(o), e, cf(e))
            /\ n.fn = apply(g, o, e) /\ n.cost = Price(g, cf(o), cf(e)) + node_cost(n.fn)
      BY <2>1 DEF RowOf
    <3> HIDE DEF g, o
    <3>2. e \in Fns(job) /\ cf(e) \in Nat
      BY <1>1, CfNat
    <3>3. apply(g, o, e) \in Fns(job) /\ Price(g, cf(o), cf(e)) \in Nat
          /\ Price(g, cf(o), cf(e)) + node_cost(apply(g, o, e)) \in Nat
      BY <2>2, <2>3, <3>2, PriceNat
    <3>4. PlacedAs(n.fn, Price(g, cf(o), cf(e)))
      BY <2>2, <2>3, <3>1 DEF PlacedAs
    <3> QED
      BY <3>1, <3>3, <3>4
  <2>6. Offered(row)
    BY <1>1, <2>4, <2>5, OfferRow
  <2>7. \A h, p : PlacedAs(h, p)' <=> PlacedAs(h, p)
    BY <2>4 DEF PlacedAs, cf
  <2>8. ASSUME NEW h \in DOMAIN new'
        PROVE  \E p \in Nat : PlacedAs(h, p) /\ new'[h].cost = p + node_cost(h)
    <3>1. CASE h \in DOMAIN new /\ new'[h].cost = new[h].cost
      BY <3>1 DEF NewPlaced
    <3>2. CASE \E n \in row : n.fn = h /\ new'[h].cost = n.cost
      BY <2>5, <3>2
    <3> QED
      BY <2>6, <3>1, <3>2 DEF Offered
  <2> QED
    BY <2>7, <2>8 DEF NewPlaced
<1>3. CASE NextGate \/ MuxStep \/ UNCHANGED searchVars
  <2>1. UNCHANGED <<job, signals, new>>
    BY <1>3 DEF NextGate, MuxStep, searchVars
  <2> QED
    BY <2>1 DEF NewPlaced, PlacedAs, cf
<1>4. CASE EndLevel
  <2>1. DOMAIN new' = {}
    BY <1>4 DEF EndLevel
  <2> QED
    BY <2>1 DEF NewPlaced
<1>5. CASE Return
  <2>1. DOMAIN new' = {}
    BY <1>1, <1>5 DEF Return, NewEmpty
  <2> QED
    BY <2>1 DEF NewPlaced
<1> QED
  BY <1>2, <1>3, <1>4, <1>5 DEF Next

(* A finished level has every placement, no dearer than it was placed.     *)
LEMMA LevelPlaced ==
  ASSUME SearchInv, NewPlaced, EndLevel, ~prune, NEW h, NEW p, PlacedAs(h, p)
  PROVE  p \in Nat /\ h \in DOMAIN new /\ new[h].cost <= p + node_cost(h)
<1>1. TypeInv /\ NewCovers /\ job \in Jobs /\ depth <= job.max_depth
  BY DEF SearchInv, TypeInv, EndLevel
<1>2. PICK g \in job.gates, f \in DOMAIN signals, e \in DOMAIN signals :
        /\ Operands(g, f, cf(f), e, cf(e)) /\ h = apply(g, f, e) /\ p = Price(g, cf(f), cf(e))
  BY DEF PlacedAs
<1>3. PICK i \in 1 .. Len(GATES) : g = GATES[i]
  BY <1>1, JobsAssumption DEF GATES
<1>4. i < gate
  <2>1. gate \in 1 .. Len(GATES) + 1 /\ ~(gate <= Len(GATES)) /\ Len(GATES) = 7
    BY <1>1 DEF TypeInv, EndLevel, Searching, GATES
  <2> QED
    BY <2>1
<1>5. Covered(i, f)
  BY <1>1, <1>4 DEF NewCovers
<1>6. ~Cut(p)
  BY DEF Cut, Bound
<1>7. Kept(new, h, p + node_cost(h))
  BY <1>2, <1>3, <1>5, <1>6 DEF Covered
<1>8. cf(f) \in Nat /\ cf(e) \in Nat
  BY <1>1, CfNat
<1> QED
  BY <1>2, <1>7, <1>8 DEF Kept, Price

(* The costs of a table.                                                   *)
Costs(nets) == [f \in DOMAIN nets |-> nets[f].cost]

(* The placements of the abstract search are those of the concrete one.    *)
LEMMA PlacedSame ==
  ASSUME NEW h, NEW p
  PROVE  PlacedAs(h, p) <=> \E g \in job.gates : <<h, p>> \in Exact!Placed(Costs(signals), g)
<1> DEFINE c == Costs(signals)
<1>1. DOMAIN c = DOMAIN signals /\ \A f \in DOMAIN signals : c[f] = cf(f)
  BY DEF Costs, cf
<1> HIDE DEF c
<1>2. ASSUME NEW g
      PROVE  /\ Exact!arity(g) = arity(g)
             /\ \A f, e : Exact!apply(g, f, e) = apply(g, f, e)
  <2>1. Exact!arity(g) = arity(g)
    BY DEF Exact!arity, arity
  <2>2. \A a, b : Exact!Output(g, a, b) = Output(g, a, b)
    BY DEF Exact!Output, Output, Exact!cons, cons, Exact!tmul, tmul, Exact!tneg, tneg,
           Exact!cyc, cyc, Exact!tand, tand, Exact!tor, tor, Exact!tsum, tsum,
           Exact!bal_mod3, bal_mod3, Exact!Lesser, Lesser, Exact!Greater, Greater
  <2>3. \A f, e : Exact!apply(g, f, e) = apply(g, f, e)
    BY <2>2 DEF Exact!apply, apply
  <2> QED
    BY <2>1, <2>3
<1>3. ASSUME NEW g
      PROVE  <<h, p>> \in Exact!Placed(c, g)
             <=> \E f, e \in DOMAIN signals :
                   /\ Operands(g, f, cf(f), e, cf(e))
                   /\ h = apply(g, f, e) /\ p = Price(g, cf(f), cf(e))
  <2>1. CASE arity(g) = 1
    <3>1. Exact!Placed(c, g) = {<<apply(g, f, f), c[f]>> : f \in DOMAIN c}
      BY <1>2, <2>1 DEF Exact!Placed
    <3>2. <<h, p>> \in Exact!Placed(c, g)
            <=> \E f \in DOMAIN signals : h = apply(g, f, f) /\ p = cf(f)
      BY <1>1, <3>1
    <3>3. \A f, e : Operands(g, f, cf(f), e, cf(e)) <=> e = f
      BY <2>1 DEF Operands
    <3>4. \A f, e : Price(g, cf(f), cf(e)) = cf(f)
      BY <2>1 DEF Price
    <3> QED
      BY <3>2, <3>3, <3>4
  <2>2. CASE arity(g) # 1
    <3>1. Exact!Placed(c, g)
            = {<<apply(g, q[1], q[2]), c[q[1]] + c[q[2]]>> : q \in (DOMAIN c) \X (DOMAIN c)}
      BY <1>2, <2>2 DEF Exact!Placed
    <3>2. <<h, p>> \in Exact!Placed(c, g)
            <=> \E f, e \in DOMAIN signals : h = apply(g, f, e) /\ p = cf(f) + cf(e)
      <4>1. ASSUME NEW f \in DOMAIN signals, NEW e \in DOMAIN signals,
                   h = apply(g, f, e), p = cf(f) + cf(e)
            PROVE  <<h, p>> \in Exact!Placed(c, g)
        <5>1. <<f, e>> \in (DOMAIN c) \X (DOMAIN c) /\ <<f, e>>[1] = f /\ <<f, e>>[2] = e
          BY <1>1
        <5> QED
          BY <1>1, <3>1, <4>1, <5>1
      <4>2. ASSUME <<h, p>> \in Exact!Placed(c, g)
            PROVE  \E f, e \in DOMAIN signals : h = apply(g, f, e) /\ p = cf(f) + cf(e)
        <5>1. PICK q \in (DOMAIN c) \X (DOMAIN c) :
                <<h, p>> = <<apply(g, q[1], q[2]), c[q[1]] + c[q[2]]>>
          BY <3>1, <4>2
        <5>2. q[1] \in DOMAIN signals /\ q[2] \in DOMAIN signals
              /\ h = apply(g, q[1], q[2]) /\ p = c[q[1]] + c[q[2]]
          BY <1>1, <5>1
        <5> QED
          BY <1>1, <5>2
      <4> QED
        BY <4>1, <4>2
    <3> QED
      BY <2>2, <3>2 DEF Operands, Price
  <2> QED
    BY <2>1, <2>2
<1> QED
  BY <1>3 DEF PlacedAs, c

(* The least of a set of naturals that has one of its members below all.   *)
LEMMA LeastIs ==
  ASSUME NEW S, NEW m \in S, S \subseteq Nat, \A k \in S : m <= k
  PROVE  Exact!Least(S) = m
<1>1. \A k \in S : (\A u \in S : k <= u) => k = m
  OBVIOUS
<1> QED
  BY <1>1 DEF Exact!Least

(* Merging a finished level is relaxing the costs once.                    *)
LEMMA MergeRelaxes ==
  ASSUME SearchInv, NewPlaced, EndLevel, ~prune
  PROVE  Costs(Merge(signals, new)) = Exact!Relaxed(Costs(signals), job.gates)
<1> DEFINE c      == Costs(signals)
           placed == UNION {Exact!Placed(c, g) : g \in job.gates}
           reached == {q[1] : q \in placed}
           S(h)   == {q[2] : q \in {r \in placed : r[1] = h}}
           Best(h) == Exact!Least(S(h)) + Exact!node_cost(h)
           all    == Merge(signals, new)
<1>1. TypeInv
  BY DEF SearchInv
<1>2. /\ \A f \in DOMAIN new : new[f].cost \in Nat
      /\ \A f \in DOMAIN signals : signals[f].cost \in Nat
  BY <1>1 DEF TypeInv, Table
<1>3. Exact!Relaxed(c, job.gates)
        = [h \in DOMAIN c \cup reached |->
             IF h \notin reached THEN c[h]
             ELSE IF h \notin DOMAIN c THEN Best(h)
             ELSE Exact!Lesser(c[h], Best(h))]
  BY DEF Exact!Relaxed
<1>4. DOMAIN c = DOMAIN signals /\ \A f \in DOMAIN signals : c[f] = signals[f].cost
  BY DEF Costs
<1>5. ASSUME NEW q \in placed PROVE q = <<q[1], q[2]>> /\ PlacedAs(q[1], q[2])
  <2>1. PICK g \in job.gates : q \in Exact!Placed(c, g)
    OBVIOUS
  <2>2. q = <<q[1], q[2]>>
    BY <2>1 DEF Exact!Placed
  <2> QED
    BY <2>1, <2>2, PlacedSame
<1>6. ASSUME NEW h, NEW p, PlacedAs(h, p) PROVE <<h, p>> \in placed
  BY <1>6, PlacedSame
<1> HIDE DEF placed, c
<1>7. reached = DOMAIN new
  <2>1. ASSUME NEW q \in placed PROVE q[1] \in DOMAIN new
    BY <1>5, LevelPlaced
  <2>2. ASSUME NEW h \in DOMAIN new PROVE h \in reached
    <3>1. PICK p \in Nat : PlacedAs(h, p)
      BY DEF NewPlaced
    <3>2. <<h, p>> \in placed /\ <<h, p>>[1] = h
      BY <1>6, <3>1
    <3> QED
      BY <3>2
  <2> QED
    BY <2>1, <2>2
<1>8. ASSUME NEW h \in DOMAIN new PROVE Best(h) = new[h].cost
  <2>1. PICK p \in Nat : PlacedAs(h, p) /\ new[h].cost = p + node_cost(h)
    BY DEF NewPlaced
  <2>2. p \in S(h)
    <3>1. <<h, p>> \in placed /\ <<h, p>>[1] = h /\ <<h, p>>[2] = p
      BY <1>6, <2>1
    <3> QED
      BY <3>1
  <2>3. ASSUME NEW k \in S(h) PROVE k \in Nat /\ p <= k
    <3>1. PlacedAs(h, k)
      BY <1>5
    <3>2. k \in Nat /\ new[h].cost <= k + node_cost(h)
      BY <3>1, LevelPlaced
    <3>3. node_cost(h) \in Nat
      BY <1>1, NodeBound DEF TypeInv, Table
    <3> QED
      BY <2>1, <3>2, <3>3
  <2> HIDE DEF S
  <2>4. Exact!Least(S(h)) = p
    BY <2>2, <2>3, LeastIs
  <2>5. Exact!node_cost(h) = node_cost(h)
    BY DEF Exact!node_cost, node_cost, Exact!nonnull_count, nonnull_count,
           Exact!Cardinality, Cardinality
  <2>6. Best(h) = Exact!Least(S(h)) + Exact!node_cost(h)
    OBVIOUS
  <2> HIDE DEF Best
  <2> QED
    BY <2>6, <2>1, <2>4, <2>5
<1> HIDE DEF reached, Best
<1>9. DOMAIN all = DOMAIN signals \cup DOMAIN new
  BY DEF Merge
<1>10. ASSUME NEW h \in DOMAIN all
       PROVE  all[h].cost = IF h \notin DOMAIN new THEN signals[h].cost
                            ELSE IF h \notin DOMAIN signals THEN new[h].cost
                            ELSE Exact!Lesser(signals[h].cost, new[h].cost)
  <2>1. all[h] = IF h \in DOMAIN new /\ Beats(new[h].cost, signals, h) THEN new[h] ELSE signals[h]
    BY <1>9 DEF Merge
  <2> HIDE DEF all
  <2>2. CASE h \in DOMAIN new /\ h \in DOMAIN signals
    <3>1. new[h].cost \in Nat /\ signals[h].cost \in Nat
      BY <1>2, <2>2
    <3> QED
      BY <2>1, <2>2, <3>1 DEF Beats, Exact!Lesser
  <2>3. CASE ~(h \in DOMAIN new /\ h \in DOMAIN signals)
    BY <1>9, <2>1, <2>3 DEF Beats
  <2> QED
    BY <2>2, <2>3
<1> HIDE DEF all
<1>11. Costs(all) = [h \in DOMAIN all |-> all[h].cost]
  BY DEF Costs
<1>12. Exact!Relaxed(c, job.gates)
         = [h \in DOMAIN all |-> IF h \notin DOMAIN new THEN signals[h].cost
                                 ELSE IF h \notin DOMAIN signals THEN new[h].cost
                                 ELSE Exact!Lesser(signals[h].cost, new[h].cost)]
  BY <1>3, <1>4, <1>7, <1>8, <1>9
<1> QED
  BY <1>10, <1>11, <1>12 DEF all, c

(* Level by level the costs of the run without pruning are those of the    *)
(* search that knows no order (LevelSearch), for every target, gate list,  *)
(* depth and non-negative energies: the order in which the loops take      *)
(* gates and operands, and the choice among netlists of equal cost, do not *)
(* matter.                                                                 *)
THEOREM SearchIsExact == Spec => ExactByLevel
<1> DEFINE cost  == IF prune THEN [f \in Leaves(job) |-> 0] ELSE [f \in DOMAIN signals |-> cf(f)]
           level == IF prune THEN 0 ELSE depth - 1
<1>1. Init => Exact!LevelInit
  BY DEF Init, Exact!LevelInit, Leaves, Exact!Leaves, Input, Exact!Input, Always, Exact!Always,
         Rows, Exact!Rows, TRITS, Exact!TRITS
<1>2. Init => NewPlaced
  BY DEF Init, NewPlaced
<1>3. SearchInv /\ NewPlaced /\ [Next]_searchVars => [Exact!Deepen]_(Exact!lvars)
  <2> SUFFICES ASSUME SearchInv, NewPlaced, [Next]_searchVars
               PROVE  Exact!Deepen \/ UNCHANGED Exact!lvars
    OBVIOUS
  <2> SUFFICES Exact!Deepen \/ UNCHANGED <<job, cost, level>>
    BY DEF Exact!lvars
  <2>1. TypeInv
    BY DEF SearchInv
  <2>2. CASE EndLevel /\ ~prune
    <3>1. /\ job' = job /\ ~prune' /\ depth' = depth + 1 /\ depth <= job.max_depth
          /\ signals' = Merge(signals, new)
      BY <2>2 DEF EndLevel
    <3>2. depth \in Nat
      BY <2>1, JobsAssumption DEF TypeInv
    <3>3. cost = Costs(signals) /\ cost' = Costs(Merge(signals, new))
      BY <2>2, <3>1 DEF Costs, cf
    <3>4. Costs(Merge(signals, new)) = Exact!Relaxed(Costs(signals), job.gates)
      BY <2>2, MergeRelaxes
    <3>5. level = depth - 1 /\ level' = level + 1 /\ level < job.max_depth
      BY <2>1, <2>2, <3>1, <3>2, JobsAssumption DEF TypeInv
    <3> QED
      BY <3>1, <3>3, <3>4, <3>5 DEF Exact!Deepen
  <2>3. CASE EndLevel /\ prune
    BY <2>3 DEF EndLevel
  <2>4. CASE UnaryStep \/ BinaryStep \/ NextGate \/ MuxStep \/ UNCHANGED searchVars
    <3>1. UNCHANGED <<job, prune, signals, depth>>
      BY <2>4 DEF UnaryStep, BinaryStep, Row, NextGate, MuxStep, searchVars
    <3> QED
      BY <3>1 DEF cf
  <2>5. CASE Return /\ prune
    <3>1. job' = job /\ ~prune' /\ depth' = 1 /\ signals' = LeafNets(job)
      BY <2>5 DEF Return
    <3>2. DOMAIN signals' = Leaves(job) /\ \A f \in Leaves(job) : signals'[f].cost = 0
      BY <3>1 DEF LeafNets, Net
    <3>3. cost' = [f \in Leaves(job) |-> 0]
      BY <3>1, <3>2 DEF cf
    <3>4. Leaves(job)' = Leaves(job)
      BY <3>1 DEF Leaves
    <3> QED
      BY <2>5, <3>1, <3>3
  <2>6. CASE Return /\ ~prune
    <3>1. UNCHANGED <<job, prune, signals, depth>>
      BY <2>6 DEF Return
    <3> QED
      BY <3>1 DEF cf
  <2> QED
    BY <2>2, <2>3, <2>4, <2>5, <2>6 DEF Next
<1>4. Spec => []NewPlaced
  <2>1. SearchInv /\ NewPlaced /\ [Next]_searchVars => NewPlaced'
    BY PlacedKeeps
  <2> QED
    BY <1>2, <2>1, SearchCorrect, PTL DEF Spec
<1> QED
  BY <1>1, <1>3, <1>4, SearchCorrect, PTL DEF Spec, ExactByLevel, Exact!LevelSpec

-----------------------------------------------------------------------------
(* The multiplexer.  The rails there are before step d + 1 of run_mux, and *)
(* what has been run holds as an equation of tables.                       *)
RailsAt(d) == DOMAIN Rails4 \cup {STEPS[i][1] : i \in 1 .. d}

MuxInv ==
  /\ IsFiniteSet(DOMAIN env)
  /\ \E d \in 0 .. Len(STEPS) :
       /\ Done = d /\ DOMAIN env = RailsAt(d)
       /\ \A i \in 1 .. d :
            env[STEPS[i][1]] = apply(STEPS[i][2], env[STEPS[i][3]], env[STEPS[i][4]])
  /\ \A name \in DOMAIN Rails4 : env[name] = Rails4[name]

(* Every step names a new rail and reads rails there are.                  *)
LEMMA StepsInOrder ==
  ASSUME NEW d \in 0 .. Len(STEPS) - 1
  PROVE  /\ STEPS[d + 1][1] \notin RailsAt(d)
         /\ STEPS[d + 1][3] \in RailsAt(d) /\ STEPS[d + 1][4] \in RailsAt(d)
<1>1. d \in {0, 1, 2, 3, 4, 5, 6, 7, 8, 9, 10}
  BY DEF STEPS
<1>2. DOMAIN Rails4 = {"s", "xm", "x0", "xp", "+1", "-1", "0"}
  BY DEF Rails4
<1>3. /\ STEPS[1][1] = "Dp" /\ STEPS[2][1] = "cn" /\ STEPS[3][1] = "Dn" /\ STEPS[4][1] = "sq"
      /\ STEPS[5][1] = "nsq" /\ STEPS[6][1] = "D0" /\ STEPS[7][1] = "tm" /\ STEPS[8][1] = "t0"
      /\ STEPS[9][1] = "tp" /\ STEPS[10][1] = "m1" /\ STEPS[11][1] = "out"
  BY DEF STEPS
<1>4. /\ STEPS[1][3] = "s" /\ STEPS[2][3] = "s" /\ STEPS[3][3] = "cn" /\ STEPS[4][3] = "s"
      /\ STEPS[5][3] = "sq" /\ STEPS[6][3] = "+1" /\ STEPS[7][3] = "Dn" /\ STEPS[8][3] = "D0"
      /\ STEPS[9][3] = "Dp" /\ STEPS[10][3] = "tm" /\ STEPS[11][3] = "m1"
  BY DEF STEPS
<1>5. /\ STEPS[1][4] = "+1" /\ STEPS[2][4] = "-1" /\ STEPS[3][4] = "cn" /\ STEPS[4][4] = "s"
      /\ STEPS[5][4] = "sq" /\ STEPS[6][4] = "nsq" /\ STEPS[7][4] = "xm" /\ STEPS[8][4] = "x0"
      /\ STEPS[9][4] = "xp" /\ STEPS[10][4] = "t0" /\ STEPS[11][4] = "tp"
  BY DEF STEPS
<1>6. STEPS[d + 1][1] \notin RailsAt(d)
  <2>1. STEPS[d + 1][1] \notin DOMAIN Rails4
    BY <1>1, <1>2, <1>3
  <2>2. \A i \in 1 .. 10 : i <= d => STEPS[d + 1][1] # STEPS[i][1]
    <3> DEFINE e == d + 1
    <3>1. \A i \in 1 .. 11 : i \in {1, 2, 3, 4, 5, 6, 7, 8, 9, 10, 11}
      OBVIOUS
    <3>2. e \in 1 .. 11
      BY <1>1
    <3> HIDE DEF e
    <3>3. \A i, k \in 1 .. 11 : i # k => STEPS[i][1] # STEPS[k][1]
      BY <1>3, <3>1
    <3>4. ASSUME NEW i \in 1 .. 10, i <= d PROVE STEPS[e][1] # STEPS[i][1]
      <4>1. i # e /\ i \in 1 .. 11
        BY <1>1, <3>4 DEF e
      <4> QED
        BY <3>2, <3>3, <4>1
    <3> QED
      BY <3>4 DEF e
  <2> QED
    BY SMTT(20), <1>1, <2>1, <2>2 DEF RailsAt
<1>7. STEPS[d + 1][3] \in RailsAt(d)
  BY <1>1, <1>2, <1>3, <1>4 DEF RailsAt
<1>8. STEPS[d + 1][4] \in RailsAt(d)
  BY <1>1, <1>2, <1>3, <1>5 DEF RailsAt
<1> QED
  BY <1>6, <1>7, <1>8

(* The rails of the inputs carry trits.                                    *)
LEMMA InputTrits ==
  ASSUME NEW name \in {"s", "xm", "x0", "xp"}, NEW r \in Rows(4)
  PROVE  Rails4[name][r] \in TRITS
<1>1. PICK i \in 1 .. 4 : DATA[i] = name
  BY DEF DATA
<1>2. PICK k \in 0 .. 3 : Rails4[name] = Input(4, k)
  <2>1. Rails4[name] = Input(4, (CHOOSE j \in 1 .. 4 : DATA[j] = name) - 1)
    BY DEF Rails4
  <2> QED
    BY <1>1, <2>1
<1>3. 3 - k \in 0 .. 4 /\ 4 - 1 - k = 3 - k
  OBVIOUS
<1> DEFINE p == 3 ^ (3 - k)
           N == 3 ^ 4
<1>4. p \in Nat \ {0} /\ N \in Nat
  <2> DEFINE q == 3 - k
  <2>1. q \in 0 .. 4 /\ 4 \in 0 .. 4
    BY <1>3
  <2> HIDE DEF q
  <2>2. 3 ^ q \in Nat \ {0} /\ 3 ^ 4 \in Nat
    BY <2>1, MuxAssumption, Zenon
  <2> QED
    BY <2>2 DEF q
<1>5. Input(4, k)[r] = (((r - 1) \div p) % 3) - 1 /\ r \in 1 .. N
  BY <1>3 DEF Input, Rows
<1> HIDE DEF p, N
<1>6. (r - 1) \div p \in Int
  BY <1>4, <1>5
<1> QED
  BY <1>2, <1>5, <1>6 DEF TRITS

(* The sum of three products, of which the detectors leave one.            *)
LEMMA MuxRow ==
  ASSUME NEW s \in TRITS, NEW xm \in TRITS, NEW x0 \in TRITS, NEW xp \in TRITS
  PROVE  LET Dp == cons(s, 1)
             Dn == tneg(cons(s, -1))
             D0 == tsum(1, tneg(tmul(s, s)))
         IN  tsum(tsum(tmul(Dn, xm), tmul(D0, x0)), tmul(Dp, xp)) = mux3(s, xm, x0, xp)
<1>1. \A x \in TRITS : bal_mod3(x) = x /\ bal_mod3(x + 0) = x /\ bal_mod3(0 + x) = x
  BY DEF TRITS, bal_mod3
<1>2. \A x \in TRITS : 1 * x = x /\ 0 * x = 0
  BY DEF TRITS
<1> HIDE DEF TRITS
<1>01. bal_mod3(1 + 0) = 1 /\ bal_mod3(1 + (-1)) = 0
  <2>1. \A z \in {0, 1} : bal_mod3(z) = z
    BY DEF bal_mod3
  <2>2. 1 + 0 = 1 /\ 1 + (-1) = 0
    OBVIOUS
  <2> QED
    BY <2>1, <2>2
<1>02. (-1) * (-1) = 1 /\ 0 * 0 = 0 /\ 1 * 1 = 1
  OBVIOUS
<1>03. -(-1) = 1 /\ -0 = 0
  <2>1. \A x, y \in Int : x + y = 0 => -x = y
    OBVIOUS
  <2>2. -1 \in Int /\ 0 \in Int /\ 1 \in Int /\ (-1) + 1 = 0 /\ 0 + 0 = 0
    OBVIOUS
  <2> QED
    BY <2>1, <2>2, Zenon
<1>0. bal_mod3(1 + 0) = 1 /\ bal_mod3(1 + (-1)) = 0
      /\ (-1) * (-1) = 1 /\ 0 * 0 = 0 /\ 1 * 1 = 1 /\ -(-1) = 1 /\ -0 = 0
      /\ s \in {-1, 0, 1}
  BY <1>01, <1>02, <1>03 DEF TRITS
<1>3. CASE s = -1
  <2>1. cons(s, 1) = 0 /\ tneg(cons(s, -1)) = 1 /\ tsum(1, tneg(tmul(s, s))) = 0
    BY <1>0, <1>3 DEF cons, tneg, tsum, tmul
  <2> QED
    BY <1>1, <1>2, <1>3, <2>1 DEF tsum, tmul, mux3, TRITS
<1>4. CASE s = 0
  <2>1. cons(s, 1) = 0 /\ tneg(cons(s, -1)) = 0 /\ tsum(1, tneg(tmul(s, s))) = 1
    BY <1>0, <1>4 DEF cons, tneg, tsum, tmul
  <2> QED
    BY <1>1, <1>2, <1>4, <2>1 DEF tsum, tmul, mux3, TRITS
<1>5. CASE s = 1
  <2>1. cons(s, 1) = 1 /\ tneg(cons(s, -1)) = 0 /\ tsum(1, tneg(tmul(s, s))) = 0
    BY <1>0, <1>5 DEF cons, tneg, tsum, tmul
  <2> QED
    BY <1>1, <1>2, <1>5, <2>1 DEF tsum, tmul, mux3, TRITS
<1> QED
  BY <1>0, <1>3, <1>4, <1>5

(* A step of run_mux adds its equation.                                    *)
LEMMA MuxKeeps ==
  ASSUME MuxInv, MuxStep
  PROVE  MuxInv'
<1>1. PICK d \in 0 .. Len(STEPS) :
        /\ Done = d /\ DOMAIN env = RailsAt(d)
        /\ \A i \in 1 .. d :
             env[STEPS[i][1]] = apply(STEPS[i][2], env[STEPS[i][3]], env[STEPS[i][4]])
  BY DEF MuxInv
<1>2. Len(STEPS) = 11 /\ d \in 0 .. Len(STEPS) - 1
  BY <1>1 DEF MuxStep, STEPS
<1> DEFINE step == STEPS[d + 1]
<1>3. env' = [name \in DOMAIN env \cup {step[1]} |->
                IF name = step[1] THEN apply(step[2], env[step[3]], env[step[4]]) ELSE env[name]]
  BY <1>1 DEF MuxStep
<1>4. step[1] \notin RailsAt(d) /\ step[3] \in RailsAt(d) /\ step[4] \in RailsAt(d)
  BY <1>2, StepsInOrder
<1>5. DOMAIN env' = DOMAIN env \cup {step[1]} /\ \A name \in DOMAIN env : env'[name] = env[name]
  BY <1>1, <1>3, <1>4
<1>6. IsFiniteSet(DOMAIN env) /\ IsFiniteSet(DOMAIN env')
      /\ Cardinality(DOMAIN env') = Cardinality(DOMAIN env) + 1
  <2>1. IsFiniteSet(DOMAIN env)
    BY DEF MuxInv
  <2> DEFINE x == step[1]
             S == DOMAIN env
  <2>2. x \notin S /\ DOMAIN env' = S \cup {x}
    BY <1>1, <1>4, <1>5
  <2> HIDE DEF x, S, step
  <2>3. IsFiniteSet(S) => IsFiniteSet(S \cup {x}) /\ Cardinality(S \cup {x}) = Cardinality(S) + 1
    BY <2>2, FS_AddElement
  <2> QED
    BY <2>1, <2>2, <2>3 DEF S
<1>7. Done' = d + 1
  <2>1. Done' = Cardinality(DOMAIN env') - Cardinality(DOMAIN Rails4)
    BY DEF Done
  <2>2. Cardinality(DOMAIN env) - Cardinality(DOMAIN Rails4) = d
    BY <1>1 DEF Done
  <2>3. IsFiniteSet(DOMAIN Rails4)
    <3>1. DOMAIN Rails4 = {"s", "xm", "x0", "xp", "+1", "-1", "0"}
      BY DEF Rails4
    <3> QED
      BY <3>1, FS_EmptySet, FS_AddElement
  <2>4. Cardinality(DOMAIN env) \in Nat /\ Cardinality(DOMAIN Rails4) \in Nat
    BY <1>6, <2>3, FS_CardinalityType
  <2> QED
    BY <1>6, <2>1, <2>2, <2>4
<1>8. RailsAt(d + 1) = RailsAt(d) \cup {step[1]}
  BY <1>2 DEF RailsAt
<1>9. ASSUME NEW i \in 1 .. d + 1
      PROVE  env'[STEPS[i][1]] = apply(STEPS[i][2], env'[STEPS[i][3]], env'[STEPS[i][4]])
  <2>1. CASE i = d + 1
    BY <1>1, <1>3, <1>4, <1>5, <2>1
  <2>2. CASE i # d + 1
    <3> DEFINE e == i - 1
    <3>1. i \in 1 .. d /\ e \in 0 .. Len(STEPS) - 1 /\ e + 1 = i /\ e <= d
      BY <1>2, <2>2
    <3>2. STEPS[i][3] \in RailsAt(e) /\ STEPS[i][4] \in RailsAt(e)
      BY <3>1, StepsInOrder
    <3>3. RailsAt(e) \subseteq RailsAt(d) /\ STEPS[i][1] \in RailsAt(d)
      BY <1>2, <3>1 DEF RailsAt
    <3> QED
      BY <1>1, <1>5, <3>1, <3>2, <3>3
  <2> QED
    BY <2>1, <2>2
<1>10. \A name \in DOMAIN Rails4 : env'[name] = Rails4[name]
  BY <1>1, <1>5 DEF MuxInv, RailsAt
<1>11. d + 1 \in 0 .. Len(STEPS)
  BY <1>2
<1> QED
  BY <1>1, <1>5, <1>6, <1>7, <1>8, <1>9, <1>10, <1>11 DEF MuxInv

(* The eleven gates, all run, select: on every row the output is the data  *)
(* input that the selector names (run_mux, whose test only prints FAIL).   *)
THEOREM MuxCorrect == Spec => []MuxSelects
<1>1. Init => MuxInv
  <2> SUFFICES ASSUME Init PROVE MuxInv
    OBVIOUS
  <2>1. env = Rails4 /\ DOMAIN env = {"s", "xm", "x0", "xp", "+1", "-1", "0"}
    BY DEF Init, Rails4
  <2>2. IsFiniteSet(DOMAIN env)
    BY <2>1, FS_EmptySet, FS_AddElement
  <2>3. Done = 0
    BY <2>1, <2>2, FS_CardinalityType DEF Done
  <2>4. RailsAt(0) = DOMAIN Rails4 /\ 0 \in 0 .. Len(STEPS)
    BY DEF RailsAt, STEPS
  <2> QED
    BY <2>1, <2>2, <2>3, <2>4 DEF MuxInv
<1>2. MuxInv /\ [Next]_searchVars => MuxInv'
  <2> SUFFICES ASSUME MuxInv, [Next]_searchVars PROVE MuxInv'
    OBVIOUS
  <2>1. CASE MuxStep
    BY <2>1, MuxKeeps
  <2>2. CASE env' = env
    BY <2>2 DEF MuxInv, Done
  <2>3. MuxStep \/ env' = env
    BY DEF Next, UnaryStep, BinaryStep, Row, NextGate, EndLevel, Return, searchVars
  <2> QED
    BY <2>1, <2>2, <2>3
<1>3. MuxInv => MuxSelects
  <2> SUFFICES ASSUME MuxInv, Done = Len(STEPS), NEW r \in Rows(4)
               PROVE  env["out"][r] = mux3(env["s"][r], env["xm"][r], env["x0"][r], env["xp"][r])
    BY DEF MuxSelects
  <2>1. \A i \in 1 .. 11 :
          env[STEPS[i][1]] = apply(STEPS[i][2], env[STEPS[i][3]], env[STEPS[i][4]])
    <3>1. Len(STEPS) = 11
      BY DEF STEPS
    <3> QED
      BY <3>1 DEF MuxInv
  <2>2. /\ \A name \in {"s", "xm", "x0", "xp"} : env[name][r] \in TRITS
           /\ DOMAIN env[name] = Rows(4)
        /\ env["+1"] = Always(4, 1) /\ env["-1"] = Always(4, -1)
    <3>1. \A name \in {"s", "xm", "x0", "xp", "+1", "-1", "0"} : env[name] = Rails4[name]
      BY DEF MuxInv, Rails4
    <3>2. Rails4["+1"] = Always(4, 1) /\ Rails4["-1"] = Always(4, -1)
      BY DEF Rails4
    <3>3. \A name \in {"s", "xm", "x0", "xp"} : DOMAIN Rails4[name] = Rows(4)
      BY DEF Rails4, Input
    <3> QED
      BY <3>1, <3>2, <3>3, InputTrits
  <2>3. /\ env["Dp"] = apply("cons", env["s"], env["+1"])
        /\ env["cn"] = apply("cons", env["s"], env["-1"])
        /\ env["Dn"] = apply("tneg", env["cn"], env["cn"])
        /\ env["sq"] = apply("tmul", env["s"], env["s"])
        /\ env["nsq"] = apply("tneg", env["sq"], env["sq"])
        /\ env["D0"] = apply("tsum", env["+1"], env["nsq"])
        /\ env["tm"] = apply("tmul", env["Dn"], env["xm"])
        /\ env["t0"] = apply("tmul", env["D0"], env["x0"])
        /\ env["tp"] = apply("tmul", env["Dp"], env["xp"])
        /\ env["m1"] = apply("tsum", env["tm"], env["t0"])
        /\ env["out"] = apply("tsum", env["m1"], env["tp"])
    BY <2>1 DEF STEPS
  <2>4. \A g, f, h : DOMAIN f = Rows(4) =>
          DOMAIN apply(g, f, h) = Rows(4) /\ apply(g, f, h)[r] = Output(g, f[r], h[r])
    BY DEF apply
  <2>5. DOMAIN Always(4, 1) = Rows(4) /\ Always(4, 1)[r] = 1 /\ Always(4, -1)[r] = -1
    BY DEF Always
  <2>6. \A a, b : /\ Output("cons", a, b) = cons(a, b) /\ Output("tneg", a, b) = tneg(a)
                  /\ Output("tmul", a, b) = tmul(a, b) /\ Output("tsum", a, b) = tsum(a, b)
    BY DEF Output
  <2>7. /\ env["Dp"][r] = cons(env["s"][r], 1)  /\ DOMAIN env["Dp"] = Rows(4)
        /\ env["cn"][r] = cons(env["s"][r], -1) /\ DOMAIN env["cn"] = Rows(4)
        /\ env["sq"][r] = tmul(env["s"][r], env["s"][r]) /\ DOMAIN env["sq"] = Rows(4)
    BY <2>2, <2>3, <2>4, <2>5, <2>6
  <2>8. /\ env["Dn"][r] = tneg(env["cn"][r])  /\ DOMAIN env["Dn"] = Rows(4)
        /\ env["nsq"][r] = tneg(env["sq"][r]) /\ DOMAIN env["nsq"] = Rows(4)
        /\ env["D0"][r] = tsum(1, env["nsq"][r]) /\ DOMAIN env["D0"] = Rows(4)
    BY <2>2, <2>3, <2>4, <2>5, <2>6, <2>7
  <2>9. /\ env["tm"][r] = tmul(env["Dn"][r], env["xm"][r]) /\ DOMAIN env["tm"] = Rows(4)
        /\ env["t0"][r] = tmul(env["D0"][r], env["x0"][r])
        /\ env["tp"][r] = tmul(env["Dp"][r], env["xp"][r])
    BY <2>3, <2>4, <2>6, <2>7, <2>8
  <2>10. /\ env["m1"][r] = tsum(env["tm"][r], env["t0"][r]) /\ DOMAIN env["m1"] = Rows(4)
         /\ env["out"][r] = tsum(env["m1"][r], env["tp"][r])
    BY <2>3, <2>4, <2>6, <2>9
  <2> QED
    BY <2>2, <2>7, <2>8, <2>9, <2>10, MuxRow
<1> QED
  BY <1>1, <1>2, <1>3, PTL DEF Spec

-----------------------------------------------------------------------------
(* What the netlists are.  First the cells of the RTL, trit by trit.       *)
LEMMA CodeIs ==
  /\ Code(0) = 0 /\ Code(1) = 1 /\ Code(-1) = 2
  /\ OfCode[0] = 0 /\ OfCode[1] = 1 /\ OfCode[2] = -1
<1>1. Code(0) = 0 /\ Code(1) = 1 /\ Code(-1) = 2
  BY DEF Code, RTL!Null, RTL!Plus, RTL!Minus
<1>2. \A x \in TRITS : x = 0 \/ x = 1 \/ x = -1
  BY DEF TRITS
<1>3. \A c \in 0 .. 2 : OfCode[c] = CHOOSE x \in TRITS : Code(x) = c
  BY DEF OfCode, RTL!Balanced, RTL!Null, RTL!Minus
<1>4. \A c \in 0 .. 2 : \E x \in TRITS : Code(x) = c
  <2>1. 0 \in TRITS /\ 1 \in TRITS /\ -1 \in TRITS
    BY DEF TRITS
  <2>2. \A c \in 0 .. 2 : c = 0 \/ c = 1 \/ c = 2
    OBVIOUS
  <2> QED
    BY <1>1, <2>1, <2>2
<1>5. \A c \in 0 .. 2 : OfCode[c] \in TRITS /\ Code(OfCode[c]) = c
  BY <1>3, <1>4
<1>6. OfCode[0] = 0 /\ OfCode[1] = 1 /\ OfCode[2] = -1
  <2>1. \A c \in {0, 1, 2} : OfCode[c] = 0 \/ OfCode[c] = 1 \/ OfCode[c] = -1
    BY <1>2, <1>5
  <2> QED
    BY <1>1, <1>5, <2>1
<1> QED
  BY <1>1, <1>6

(* The adder of the RTL with no carry in.                                  *)
LEMMA AdderIs ==
  ASSUME NEW s \in 0 .. 2, NEW t \in 0 .. 2
  PROVE  /\ RTL!TaddSum(<<s, t, 0>>) =
              IF s = t THEN (IF s = 0 THEN 0 ELSE 3 - s) ELSE IF s = 0 THEN t ELSE IF t = 0 THEN s ELSE 0
         /\ RTL!TaddCarry(<<s, t, 0>>) = IF s = t THEN s ELSE 0
BY DEF RTL!TaddSum, RTL!SumPush, RTL!SumPull, RTL!TaddCarry, RTL!TwoPush, RTL!TwoPull, RTL!NoPush,
       RTL!NoPull, RTL!Input, RTL!Others, RTL!Push, RTL!Pull, RTL!Rails, RTL!Null, RTL!Plus,
       RTL!Minus, RTL!Never

(* The cells of the RTL are the gates of the script.                       *)
LEMMA CellIs ==
  ASSUME NEW g \in GateNames, NEW a \in TRITS, NEW b \in TRITS
  PROVE  RtlOutput[g][<<a, b>>] = Output(g, a, b)
<1>1. RtlOutput[g][<<a, b>>] = OfCode[RtlCell(g, Code(a), Code(b))]
  <2> DEFINE Cells == [p \in TRITS \X TRITS |-> OfCode[RtlCell(g, Code(p[1]), Code(p[2]))]]
  <2>1. RtlOutput[g] = Cells
    BY Zenon DEF RtlOutput, GateNames
  <2>2. <<a, b>> \in TRITS \X TRITS /\ <<a, b>>[1] = a /\ <<a, b>>[2] = b
    OBVIOUS
  <2>3. Cells[<<a, b>>] = OfCode[RtlCell(g, Code(a), Code(b))]
    BY <2>2
  <2> QED
    BY <2>1, <2>3
<1>2. g \in {"cons", "tmul", "tneg", "cyc", "tand", "tor", "tsum"}
  BY DEF GateNames, GATES
<1>3. (a = 0 \/ a = 1 \/ a = -1) /\ (b = 0 \/ b = 1 \/ b = -1)
  BY DEF TRITS
<1> DEFINE s == Code(a)
           t == Code(b)
<1>4. s \in 0 .. 2 /\ t \in 0 .. 2
  BY <1>3, CodeIs
<1>5. CASE g = "cons"
  <2>1. RtlCell(g, s, t) = RTL!TaddCarry(<<s, t, 0>>)
    BY <1>5 DEF RtlCell, RTL!Null
  <2>2. RtlCell(g, s, t) = IF s = t THEN s ELSE 0
    BY <1>4, <2>1, AdderIs
  <2>3. Output(g, a, b) = IF a = b THEN a ELSE 0
    BY <1>5 DEF Output, cons
  <2> QED
    BY <1>1, <1>3, <2>2, <2>3, CodeIs
<1>6. CASE g = "tsum"
  <2>1. RtlCell(g, s, t) = RTL!TaddSum(<<s, t, 0>>)
    BY <1>6 DEF RtlCell, RTL!Null
  <2>2. RtlCell(g, s, t) = IF s = t THEN (IF s = 0 THEN 0 ELSE 3 - s)
                           ELSE IF s = 0 THEN t ELSE IF t = 0 THEN s ELSE 0
    BY <1>4, <2>1, AdderIs
  <2>3. Output(g, a, b) = bal_mod3(a + b)
    BY <1>6 DEF Output, tsum
  <2> QED
    BY <1>1, <1>3, <2>2, <2>3, CodeIs DEF bal_mod3
<1>7. CASE g = "cyc"
  <2>1. RtlCell(g, s, t) = RTL!TaddSum(<<s, 1, 0>>)
    BY <1>7 DEF RtlCell, RTL!Null, RTL!Plus
  <2>2. RtlCell(g, s, t) = IF s = 1 THEN 2 ELSE IF s = 0 THEN 1 ELSE 0
    BY <1>4, <2>1, AdderIs
  <2>3. Output(g, a, b) = bal_mod3(a + 1)
    BY <1>7 DEF Output, cyc
  <2> QED
    BY <1>1, <1>3, <2>2, <2>3, CodeIs DEF bal_mod3
<1>8. CASE g = "tmul"
  <2>1. RtlCell(g, s, t) = RTL!TMul(s, t)
    BY <1>8 DEF RtlCell
  <2>2. RTL!TMul(s, t) = IF s = 0 \/ t = 0 THEN 0 ELSE IF s = t THEN 1 ELSE 2
    BY <1>4 DEF RTL!TMul, RTL!Push, RTL!Pull, RTL!Plus, RTL!Minus, RTL!Null, RTL!Never
  <2>3. Output(g, a, b) = IF a = 0 \/ b = 0 THEN 0 ELSE IF a = b THEN 1 ELSE -1
    BY <1>3, <1>8 DEF Output, tmul
  <2> QED
    BY <1>1, <1>3, <2>1, <2>2, <2>3, CodeIs
<1>9. CASE g = "tneg"
  <2>1. RtlCell(g, s, t) = RTL!TNeg(s)
    BY <1>9 DEF RtlCell
  <2>2. RTL!TNeg(s) = IF s = 0 THEN 0 ELSE 3 - s
    BY <1>4 DEF RTL!TNeg, RTL!Rails, RTL!Push, RTL!Pull, RTL!Plus, RTL!Minus, RTL!Never
  <2>3. Output(g, a, b) = -a
    BY <1>9 DEF Output, tneg
  <2> QED
    BY <1>1, <1>3, <2>1, <2>2, <2>3, CodeIs
<1>10. CASE g = "tand"
  <2>1. RtlCell(g, s, t) = RTL!Rails(RTL!Push(s) /\ RTL!Push(t), RTL!Pull(s) \/ RTL!Pull(t))
    BY <1>10 DEF RtlCell
  <2>2. RtlCell(g, s, t) = IF s = 2 \/ t = 2 THEN 2 ELSE IF s = 1 /\ t = 1 THEN 1 ELSE 0
    BY <1>4, <2>1 DEF RTL!Rails, RTL!Push, RTL!Pull, RTL!Plus, RTL!Minus, RTL!Never
  <2>3. Output(g, a, b) = IF a < b THEN a ELSE b
    BY <1>10 DEF Output, tand, Lesser
  <2> QED
    BY <1>1, <1>3, <2>2, <2>3, CodeIs
<1>11. CASE g = "tor"
  <2>1. RtlCell(g, s, t) = RTL!Rails(RTL!Push(s) \/ RTL!Push(t), RTL!Pull(s) /\ RTL!Pull(t))
    BY <1>11 DEF RtlCell
  <2>2. RtlCell(g, s, t) = IF s = 1 \/ t = 1 THEN 1 ELSE IF s = 2 /\ t = 2 THEN 2 ELSE 0
    BY <1>4, <2>1 DEF RTL!Rails, RTL!Push, RTL!Pull, RTL!Plus, RTL!Minus, RTL!Never
  <2>3. Output(g, a, b) = IF a < b THEN b ELSE a
    BY <1>11 DEF Output, tor, Greater
  <2> QED
    BY <1>1, <1>3, <2>2, <2>3, CodeIs
<1> QED
  BY <1>2, <1>5, <1>6, <1>7, <1>8, <1>9, <1>10, <1>11

-----------------------------------------------------------------------------
(* The recursions of a rebuilding are over the depth, so they define what  *)
(* they say.                                                               *)
LEMMA UsedIs ==
  ASSUME NEW net, job.max_depth \in Nat
  PROVE  LET u == Used(net)
         IN  u = [k \in 0 .. job.max_depth |->
                    IF k = 0 THEN {net} ELSE UNION {ToSet(n.inputs) : n \in u[k - 1]}]
<1> DEFINE At(k, p) == IF k = 0 THEN {net} ELSE UNION {ToSet(n.inputs) : n \in p}
           Up(u, m) == u = [k \in 0 .. m |-> At(k, u[k - 1])]
           Bad      == {m \in Nat : ~ \E u : Up(u, m)}
<1>1. Bad = {}
  <2>1. SUFFICES ASSUME Bad # {} PROVE FALSE
    OBVIOUS
  <2>2. PICK m \in Bad : \A k \in Bad : m <= k
    <3>1. Bad \subseteq Nat
      OBVIOUS
    <3> HIDE DEF Bad
    <3> QED
      BY <2>1, <3>1, LeastNat
  <2>3. m \in Nat /\ ~ \E u : Up(u, m)
    BY <2>2
  <2>4. CASE m = 0
    <3>1. Up([k \in 0 .. 0 |-> {net}], 0)
      OBVIOUS
    <3> QED
      BY <2>3, <2>4, <3>1
  <2>5. CASE m # 0
    <3>1. m - 1 \in Nat /\ m - 1 \notin Bad
      <4>1. m \in Nat /\ \A k \in Bad : m <= k
        BY <2>2, <2>3
      <4> HIDE DEF Bad
      <4> QED
        BY <2>5, <4>1
    <3>2. PICK v : Up(v, m - 1)
      BY <3>1
    <3> DEFINE u == [k \in 0 .. m |-> At(k, v[k - 1])]
    <3>3. ASSUME NEW k \in 0 .. m, k # 0 PROVE u[k - 1] = v[k - 1]
      <4>1. k - 1 \in 0 .. m /\ k - 1 \in 0 .. m - 1
        BY <2>3, <3>3
      <4> HIDE DEF At
      <4> QED
        BY <3>2, <4>1
    <3>4. ASSUME NEW k \in 0 .. m PROVE At(k, u[k - 1]) = At(k, v[k - 1])
      BY <3>3
    <3>5. Up(u, m)
      <4> HIDE DEF At
      <4> QED
        BY <3>4
    <3> QED
      BY <2>3, <3>5
  <2> QED
    BY <2>4, <2>5
<1>2. \E u : Up(u, job.max_depth)
  BY <1>1
<1>3. Used(net) = CHOOSE u : Up(u, job.max_depth)
  BY DEF Used
<1>4. Up(Used(net), job.max_depth)
  <2> HIDE DEF Up
  <2> QED
    BY <1>2, <1>3
<1> QED
  BY <1>4

(* The same of what they come to.                                          *)
LEMMA MadeIs ==
  ASSUME NEW net, job.max_depth \in Nat
  PROVE  LET v == Made(net)
         IN  v = [k \in 0 .. job.max_depth |->
                    [n \in Used(net)[job.max_depth - k] |->
                       IF n.inputs = <<>> THEN Leaf(n.fn)
                       ELSE IF k = 0 THEN Leaf(<<>>)
                       ELSE Composed(n, v[k - 1][n.inputs[1]], v[k - 1][Last(n.inputs)])]]
<1> DEFINE At(k, p) == [n \in Used(net)[job.max_depth - k] |->
                          IF n.inputs = <<>> THEN Leaf(n.fn)
                          ELSE IF k = 0 THEN Leaf(<<>>)
                          ELSE Composed(n, p[n.inputs[1]], p[Last(n.inputs)])]
           Up(u, m) == u = [k \in 0 .. m |-> At(k, u[k - 1])]
           Bad      == {m \in Nat : ~ \E u : Up(u, m)}
<1>0. ASSUME NEW p, NEW q PROVE At(0, p) = At(0, q)
  OBVIOUS
<1>1. Bad = {}
  <2> HIDE DEF At
  <2>1. SUFFICES ASSUME Bad # {} PROVE FALSE
    OBVIOUS
  <2>2. PICK m \in Bad : \A k \in Bad : m <= k
    <3>1. Bad \subseteq Nat
      OBVIOUS
    <3> HIDE DEF Bad
    <3> QED
      BY <2>1, <3>1, LeastNat
  <2>3. m \in Nat /\ ~ \E u : Up(u, m)
    BY <2>2
  <2>4. CASE m = 0
    <3> DEFINE u == [k \in 0 .. 0 |-> At(k, <<>>)]
    <3>1. \A k \in 0 .. 0 : At(k, <<>>) = At(k, u[k - 1])
      <4>1. \A k \in 0 .. 0 : k = 0
        OBVIOUS
      <4> QED
        BY <1>0, <4>1
    <3>2. Up(u, 0)
      BY <3>1
    <3> QED
      BY <2>3, <2>4, <3>2
  <2>5. CASE m # 0
    <3>1. m - 1 \in Nat /\ m - 1 \notin Bad
      <4>1. m \in Nat /\ \A k \in Bad : m <= k
        BY <2>2, <2>3
      <4> HIDE DEF Bad
      <4> QED
        BY <2>5, <4>1
    <3>2. PICK v : Up(v, m - 1)
      BY <3>1
    <3> DEFINE u == [k \in 0 .. m |-> At(k, v[k - 1])]
    <3>3. ASSUME NEW k \in 0 .. m, k # 0 PROVE u[k - 1] = v[k - 1]
      <4>1. k - 1 \in 0 .. m /\ k - 1 \in 0 .. m - 1
        BY <2>3, <3>3
      <4> QED
        BY <3>2, <4>1
    <3>4. ASSUME NEW k \in 0 .. m PROVE At(k, u[k - 1]) = At(k, v[k - 1])
      <4>1. CASE k = 0
        BY <1>0, <4>1
      <4>2. CASE k # 0
        BY <3>3, <4>2
      <4> QED
        BY <4>1, <4>2
    <3>5. Up(u, m)
      BY <3>4
    <3> QED
      BY <2>3, <3>5
  <2> QED
    BY <2>4, <2>5
<1>2. \E u : Up(u, job.max_depth)
  BY <1>1
<1>3. Made(net) = CHOOSE u : Up(u, job.max_depth)
  BY DEF Made
<1>4. Up(Made(net), job.max_depth)
  <2> HIDE DEF Up
  <2> QED
    BY <1>2, <1>3
<1> QED
  BY <1>4

-----------------------------------------------------------------------------
(* A net is one that can be rebuilt when it stands in a tower of stages:   *)
(* every net of a stage is a leaf, or a gate of the job on nets of the     *)
(* stage below, at the price of that gate.                                 *)
LeafNet(n) == \E f \in Leaves(job) : n = Net(f, "leaf", <<>>, 0)

Paid(g, a, b) == Price(g, a.cost, b.cost) + node_cost(apply(g, a.fn, b.fn))

Placement(g, a, b) ==
  Net(apply(g, a.fn, b.fn), g, IF arity(g) = 1 THEN <<a>> ELSE <<a, b>>, Paid(g, a, b))

GateNet(n, S) ==
  \E g \in job.gates, a, b \in S : (arity(g) = 1 => b = a) /\ n = Placement(g, a, b)

Tower(c) ==
  /\ \A n \in c[0] : LeafNet(n)
  /\ \A i, k \in 0 .. job.max_depth : i <= k => c[i] \subseteq c[k]
  /\ \A k \in 1 .. job.max_depth : \A n \in c[k] : LeafNet(n) \/ GateNet(n, c[k - 1])

(* What a placement is.                                                    *)
LEMMA PlacementIs ==
  ASSUME NEW g, NEW a, NEW b, NEW n, n = Placement(g, a, b)
  PROVE  /\ n.fn = apply(g, a.fn, b.fn) /\ n.gate = g
         /\ n.inputs = IF arity(g) = 1 THEN <<a>> ELSE <<a, b>>
         /\ n.cost = Paid(g, a, b)
<1> DEFINE F == apply(g, a.fn, b.fn)
           I == IF arity(g) = 1 THEN <<a>> ELSE <<a, b>>
           C == Paid(g, a, b)
<1>1. n = [fn |-> F, gate |-> g, inputs |-> I, cost |-> C]
  BY Zenon DEF Placement, Net
<1> HIDE DEF F, I, C
<1>2. n.fn = F /\ n.gate = g /\ n.inputs = I /\ n.cost = C
  BY <1>1
<1> QED
  BY <1>2 DEF F, I, C

(* A gate of a tower is a placement on two nets below.                     *)
LEMMA GateIs ==
  ASSUME NEW n, NEW S, GateNet(n, S)
  PROVE  \E g \in job.gates, a, b \in S :
           /\ arity(g) = 1 => b = a
           /\ n.fn = apply(g, a.fn, b.fn) /\ n.gate = g
           /\ n.inputs = IF arity(g) = 1 THEN <<a>> ELSE <<a, b>>
           /\ n.cost = Paid(g, a, b)
<1>1. PICK g \in job.gates, a \in S, b \in S : (arity(g) = 1 => b = a) /\ n = Placement(g, a, b)
  BY DEF GateNet
<1>2. /\ n.fn = apply(g, a.fn, b.fn) /\ n.gate = g
      /\ n.inputs = IF arity(g) = 1 THEN <<a>> ELSE <<a, b>>
      /\ n.cost = Paid(g, a, b)
  BY <1>1, PlacementIs
<1> QED
  BY <1>1, <1>2

(* A leaf is an input or a constant, and costs nothing.                    *)
LEMMA LeafIs ==
  ASSUME NEW n, LeafNet(n)
  PROVE  n.fn \in Leaves(job) /\ n.inputs = <<>> /\ n.cost = 0
BY DEF LeafNet, Net

(* The nets of a tower are truth tables at natural costs.                  *)
LEMMA TowerNets ==
  ASSUME job \in Jobs, NEW c, Tower(c), NEW k \in 0 .. job.max_depth, NEW n \in c[k]
  PROVE  n.fn \in Fns(job) /\ n.cost \in Nat
<1> DEFINE Good(m) == \A x \in c[m] : x.fn \in Fns(job) /\ x.cost \in Nat
           Bad     == {m \in 0 .. job.max_depth : ~Good(m)}
<1>1. job.max_depth \in Nat
  BY JobsAssumption
<1>2. \A x : LeafNet(x) => x.fn \in Fns(job) /\ x.cost \in Nat
  BY LeafFn, LeafIs
<1>3. ASSUME NEW m \in 1 .. job.max_depth, Good(m - 1) PROVE Good(m)
  <2>1. SUFFICES ASSUME NEW x \in c[m] PROVE x.fn \in Fns(job) /\ x.cost \in Nat
    OBVIOUS
  <2>2. LeafNet(x) \/ GateNet(x, c[m - 1])
    BY <2>1 DEF Tower
  <2>3. CASE GateNet(x, c[m - 1])
    <3>1. PICK g \in job.gates, a \in c[m - 1], b \in c[m - 1] :
            x.fn = apply(g, a.fn, b.fn) /\ x.cost = Paid(g, a, b)
      BY <2>3, GateIs
    <3>2. a.fn \in Fns(job) /\ a.cost \in Nat /\ b.fn \in Fns(job) /\ b.cost \in Nat
      BY <1>3, <3>1
    <3>3. /\ apply(g, a.fn, b.fn) \in Fns(job)
          /\ Paid(g, a, b) \in Nat
      BY <3>1, <3>2, PriceNat DEF Paid
    <3> QED
      BY <3>1, <3>3
  <2> QED
    BY <1>2, <2>2, <2>3
<1>4. Bad = {}
  <2>1. SUFFICES ASSUME Bad # {} PROVE FALSE
    OBVIOUS
  <2>2. PICK m \in Bad : \A i \in Bad : m <= i
    <3>1. Bad \subseteq Nat
      OBVIOUS
    <3> HIDE DEF Bad
    <3> QED
      BY <2>1, <3>1, LeastNat
  <2>3. m \in 0 .. job.max_depth /\ ~Good(m)
    BY <2>2
  <2>4. m # 0
    <3>1. Good(0)
      BY <1>2 DEF Tower
    <3> QED
      BY <2>3, <3>1
  <2>5. m \in 1 .. job.max_depth /\ m - 1 \in 0 .. job.max_depth /\ ~(m <= m - 1)
    BY <1>1, <2>3, <2>4
  <2>6. m - 1 \notin Bad
    <3> HIDE DEF Bad
    <3> QED
      BY <2>2, <2>5
  <2>7. Good(m - 1)
    BY <2>5, <2>6
  <2> HIDE DEF Good
  <2> QED
    BY <1>3, <2>3, <2>5, <2>7
<1>5. Good(k)
  <2> HIDE DEF Good
  <2> QED
    BY <1>4
<1> QED
  BY <1>5

(* What is used at a distance from the output is in the stage that far     *)
(* below the top.                                                          *)
LEMMA UsedStage ==
  ASSUME job \in Jobs, NEW c, Tower(c), NEW net \in c[job.max_depth],
         NEW k \in 0 .. job.max_depth
  PROVE  Used(net)[k] \subseteq c[job.max_depth - k]
<1> DEFINE D == job.max_depth
           u == Used(net)
           Bad == {m \in 0 .. D : ~(u[m] \subseteq c[D - m])}
<1>1. D \in Nat
  BY JobsAssumption
<1>2. u = [m \in 0 .. D |->
             IF m = 0 THEN {net} ELSE UNION {ToSet(n.inputs) : n \in u[m - 1]}]
  BY <1>1, UsedIs
<1> HIDE DEF u
<1>3. u[0] = {net}
  BY <1>1, <1>2
<1>4. ASSUME NEW m \in 1 .. D, u[m - 1] \subseteq c[D - (m - 1)] PROVE u[m] \subseteq c[D - m]
  <2>1. u[m] = UNION {ToSet(n.inputs) : n \in u[m - 1]}
    <3>1. m \in 0 .. D /\ m # 0
      OBVIOUS
    <3> QED
      BY <1>2, <3>1
  <2>2. D - (m - 1) \in 1 .. D /\ D - (m - 1) - 1 = D - m
    BY <1>1
  <2>3. ASSUME NEW n \in u[m - 1], NEW x \in ToSet(n.inputs) PROVE x \in c[D - m]
    <3>1. LeafNet(n) \/ GateNet(n, c[D - m])
      <4>1. \A i \in 1 .. D : \A y \in c[i] : LeafNet(y) \/ GateNet(y, c[i - 1])
        BY DEF Tower
      <4>2. n \in c[D - (m - 1)]
        BY <1>4
      <4> HIDE DEF D
      <4> QED
        BY <2>2, <4>1, <4>2
    <3>2. ~LeafNet(n)
      <4>1. ToSet(<<>>) = {}
        BY DEF ToSet
      <4> QED
        BY <2>3, <4>1, LeafIs
    <3>3. PICK g \in job.gates, a \in c[D - m], b \in c[D - m] :
            n.inputs = IF arity(g) = 1 THEN <<a>> ELSE <<a, b>>
      BY <3>1, <3>2, GateIs
    <3>4. n.inputs = <<a>> \/ n.inputs = <<a, b>>
      BY <3>3
    <3>5. ToSet(<<a>>) = {a} /\ ToSet(<<a, b>>) = {a, b}
      BY DEF ToSet
    <3> QED
      BY <2>3, <3>4, <3>5
  <2> QED
    BY <2>1, <2>3
<1>5. Bad = {}
  <2>1. SUFFICES ASSUME Bad # {} PROVE FALSE
    OBVIOUS
  <2>2. PICK m \in Bad : \A i \in Bad : m <= i
    <3>1. Bad \subseteq Nat
      OBVIOUS
    <3> HIDE DEF Bad
    <3> QED
      BY <2>1, <3>1, LeastNat
  <2>3. m \in 0 .. D /\ ~(u[m] \subseteq c[D - m])
    BY <2>2
  <2>4. m # 0
    <3>1. u[0] \subseteq c[D - 0]
      BY <1>1, <1>3
    <3> QED
      BY <2>3, <3>1
  <2>5. m \in 1 .. D /\ m - 1 \in 0 .. D /\ ~(m <= m - 1)
    BY <1>1, <2>3, <2>4
  <2>6. m - 1 \notin Bad
    <3> HIDE DEF Bad
    <3> QED
      BY <2>2, <2>5
  <2>7. u[m - 1] \subseteq c[D - (m - 1)]
    BY <2>5, <2>6
  <2> QED
    BY <1>4, <2>3, <2>5, <2>7
<1> QED
  BY <1>5 DEF u

(* Composing what the inputs come to gives what the net is said to be.     *)
LEMMA ComposedIs ==
  ASSUME job \in Jobs, NEW g \in job.gates, NEW a, NEW b, NEW n,
         a.fn \in Fns(job), b.fn \in Fns(job), a.cost \in Nat, b.cost \in Nat,
         arity(g) = 1 => b = a,
         n.fn = apply(g, a.fn, b.fn), n.gate = g,
         n.inputs = (IF arity(g) = 1 THEN <<a>> ELSE <<a, b>>), n.cost = Paid(g, a, b),
         NEW A, NEW B, A.fn = a.fn, A.energy = a.cost, B.fn = b.fn, B.energy = b.cost
  PROVE  Composed(n, A, B).fn = n.fn /\ Composed(n, A, B).energy = n.cost
<1> DEFINE fn  == [r \in DOMAIN n.fn |-> RtlOutput[n.gate][<<A.fn[r], B.fn[r]>>]]
           two == Len(n.inputs) = 2
           en  == node_cost(fn) + A.energy + (IF two THEN B.energy ELSE 0)
           ord == A.order \o (IF two THEN B.order ELSE <<>>) \o <<n>>
<1>1. Composed(n, A, B) = [fn |-> fn, energy |-> en, order |-> ord]
  BY Zenon DEF Composed
<1> HIDE DEF ord
<1>2. Composed(n, A, B).fn = fn /\ Composed(n, A, B).energy = en
  <2> HIDE DEF fn, en
  <2> QED
    BY <1>1
<1>3. g \in GateNames
  BY JobsAssumption DEF GateNames
<1>4. n.fn \in Fns(job)
  BY <1>3, ApplyFn
<1>5. fn = n.fn
  <2>1. DOMAIN n.fn = Rows(job.n) /\ DOMAIN a.fn = Rows(job.n)
    BY <1>4 DEF Fns
  <2>2. ASSUME NEW r \in Rows(job.n)
        PROVE  RtlOutput[n.gate][<<A.fn[r], B.fn[r]>>] = n.fn[r]
    <3>1. a.fn[r] \in TRITS /\ b.fn[r] \in TRITS
      BY DEF Fns
    <3>2. RtlOutput[g][<<a.fn[r], b.fn[r]>>] = Output(g, a.fn[r], b.fn[r])
      BY <1>3, <3>1, CellIs
    <3>3. n.fn[r] = Output(g, a.fn[r], b.fn[r])
      BY <2>1 DEF apply
    <3> QED
      BY <3>2, <3>3
  <2>3. n.fn = [r \in DOMAIN n.fn |-> n.fn[r]]
    BY <1>4 DEF Fns
  <2> QED
    BY <2>1, <2>2, <2>3
<1>6. two <=> arity(g) # 1
  BY DEF arity
<1>7. en = n.cost
  <2>1. node_cost(n.fn) \in Nat
    BY <1>4, NodeBound
  <2>2. en = node_cost(n.fn) + a.cost + (IF arity(g) # 1 THEN b.cost ELSE 0)
    BY <1>5, <1>6
  <2>3. n.cost = (IF arity(g) = 1 THEN a.cost ELSE a.cost + b.cost) + node_cost(n.fn)
    BY DEF Paid, Price
  <2> HIDE DEF en
  <2> QED
    BY <2>1, <2>2, <2>3
<1> QED
  BY <1>2, <1>5, <1>7

(* Rebuilt from the farthest, each comes to what it is said to be.         *)
LEMMA MadeStage ==
  ASSUME job \in Jobs, NEW c, Tower(c), NEW net \in c[job.max_depth],
         NEW k \in 0 .. job.max_depth, NEW n \in Used(net)[job.max_depth - k]
  PROVE  Made(net)[k][n].fn = n.fn /\ Made(net)[k][n].energy = n.cost
<1> DEFINE D == job.max_depth
           v == Made(net)
           Right(m) == \A x \in Used(net)[D - m] : v[m][x].fn = x.fn /\ v[m][x].energy = x.cost
           Bad == {m \in 0 .. D : ~Right(m)}
<1>1. D \in Nat
  BY JobsAssumption
<1>2. \A m \in 0 .. D : \A x \in Used(net)[D - m] :
        v[m][x] = IF x.inputs = <<>> THEN Leaf(x.fn)
                  ELSE IF m = 0 THEN Leaf(<<>>)
                  ELSE Composed(x, v[m - 1][x.inputs[1]], v[m - 1][Last(x.inputs)])
  <2> DEFINE At(m) == [x \in Used(net)[D - m] |->
                         IF x.inputs = <<>> THEN Leaf(x.fn)
                         ELSE IF m = 0 THEN Leaf(<<>>)
                         ELSE Composed(x, v[m - 1][x.inputs[1]], v[m - 1][Last(x.inputs)])]
  <2>1. v = [m \in 0 .. D |-> At(m)]
    BY <1>1, MadeIs
  <2> HIDE DEF v
  <2>2. \A m \in 0 .. D : v[m] = At(m)
    <3> HIDE DEF At
    <3> QED
      BY <2>1
  <2> QED
    BY <2>2
<1> HIDE DEF v
<1>3. \A x : Leaf(x).fn = x /\ Leaf(x).energy = 0
  BY DEF Leaf
<1>4. ASSUME NEW m \in 0 .. D, NEW x \in Used(net)[D - m], LeafNet(x)
      PROVE  v[m][x].fn = x.fn /\ v[m][x].energy = x.cost
  <2>1. x.inputs = <<>> /\ x.cost = 0
    BY <1>4, LeafIs
  <2>2. v[m][x] = Leaf(x.fn)
    BY <1>2, <2>1
  <2> QED
    BY <1>3, <2>1, <2>2
<1>5. ASSUME NEW m \in 0 .. D, NEW x \in Used(net)[D - m]
      PROVE  x \in c[m]
  <2>1. D - m \in 0 .. D /\ D - (D - m) = m
    BY <1>1
  <2>2. Used(net)[D - m] \subseteq c[D - (D - m)]
    BY <2>1, UsedStage
  <2> QED
    BY <2>1, <2>2
<1>6. ASSUME NEW m \in 1 .. D, Right(m - 1) PROVE Right(m)
  <2>1. SUFFICES ASSUME NEW x \in Used(net)[D - m]
                 PROVE  v[m][x].fn = x.fn /\ v[m][x].energy = x.cost
    OBVIOUS
  <2>2. m \in 0 .. D /\ m - 1 \in 0 .. D /\ m # 0
    BY <1>1
  <2>3. LeafNet(x) \/ GateNet(x, c[m - 1])
    BY <1>5, <2>2 DEF Tower
  <2>4. CASE LeafNet(x)
    BY <1>4, <2>2, <2>4
  <2>5. CASE GateNet(x, c[m - 1])
    <3>1. PICK g \in job.gates, a \in c[m - 1], b \in c[m - 1] :
            /\ arity(g) = 1 => b = a
            /\ x.fn = apply(g, a.fn, b.fn) /\ x.gate = g
            /\ x.inputs = IF arity(g) = 1 THEN <<a>> ELSE <<a, b>>
            /\ x.cost = Paid(g, a, b)
      BY <2>5, GateIs
    <3>2. x.inputs # <<>> /\ x.inputs[1] = a /\ Last(x.inputs) = b
          /\ a \in ToSet(x.inputs) /\ b \in ToSet(x.inputs)
      <4>1. CASE arity(g) = 1
        <5>1. x.inputs = <<a>> /\ b = a
          BY <3>1, <4>1
        <5> QED
          BY <5>1 DEF Last, ToSet
      <4>2. CASE arity(g) # 1
        <5>1. x.inputs = <<a, b>>
          BY <3>1, <4>2
        <5> QED
          BY <5>1 DEF Last, ToSet
      <4> QED
        BY <4>1, <4>2
    <3>3. Used(net)[D - (m - 1)] = UNION {ToSet(y.inputs) : y \in Used(net)[D - m]}
      <4> DEFINE u == Used(net)
      <4>1. u = [i \in 0 .. D |->
                  IF i = 0 THEN {net} ELSE UNION {ToSet(y.inputs) : y \in u[i - 1]}]
        BY <1>1, UsedIs
      <4>2. D - (m - 1) \in 0 .. D /\ D - (m - 1) # 0 /\ D - (m - 1) - 1 = D - m
        BY <1>1
      <4> HIDE DEF u
      <4>3. \A i \in 0 .. D : i # 0 => u[i] = UNION {ToSet(y.inputs) : y \in u[i - 1]}
        BY <4>1
      <4>4. u[D - (m - 1)] = UNION {ToSet(y.inputs) : y \in u[D - m]}
        <5> HIDE DEF D
        <5> QED
          BY <4>2, <4>3
      <4> QED
        BY <4>4 DEF u
    <3>4. a \in Used(net)[D - (m - 1)] /\ b \in Used(net)[D - (m - 1)]
      BY <3>2, <3>3
    <3>5. /\ v[m - 1][a].fn = a.fn /\ v[m - 1][a].energy = a.cost
          /\ v[m - 1][b].fn = b.fn /\ v[m - 1][b].energy = b.cost
      BY <1>6, <3>4
    <3>6. a.fn \in Fns(job) /\ b.fn \in Fns(job) /\ a.cost \in Nat /\ b.cost \in Nat
      BY <2>2, <3>1, TowerNets
    <3>7. v[m][x] = Composed(x, v[m - 1][a], v[m - 1][b])
      BY <1>2, <2>2, <3>2
    <3>8. /\ Composed(x, v[m - 1][a], v[m - 1][b]).fn = x.fn
          /\ Composed(x, v[m - 1][a], v[m - 1][b]).energy = x.cost
      <4> DEFINE A == v[m - 1][a]
                 B == v[m - 1][b]
      <4>1. A.fn = a.fn /\ A.energy = a.cost /\ B.fn = b.fn /\ B.energy = b.cost
        BY <3>5
      <4> HIDE DEF A, B
      <4>2. Composed(x, A, B).fn = x.fn /\ Composed(x, A, B).energy = x.cost
        BY <3>1, <3>6, <4>1, ComposedIs
      <4> QED
        BY <4>2 DEF A, B
    <3> QED
      BY <3>7, <3>8
  <2> QED
    BY <2>3, <2>4, <2>5
<1>7. Bad = {}
  <2>1. SUFFICES ASSUME Bad # {} PROVE FALSE
    OBVIOUS
  <2>2. PICK m \in Bad : \A i \in Bad : m <= i
    <3>1. Bad \subseteq Nat
      OBVIOUS
    <3> HIDE DEF Bad
    <3> QED
      BY <2>1, <3>1, LeastNat
  <2>3. m \in 0 .. D /\ ~Right(m)
    BY <2>2
  <2>4. m # 0
    <3>1. Right(0)
      <4>1. \A x \in Used(net)[D - 0] : LeafNet(x)
        BY <1>1, <1>5 DEF Tower
      <4> QED
        BY <1>1, <1>4, <4>1
    <3> QED
      BY <2>3, <3>1
  <2>5. m \in 1 .. D /\ m - 1 \in 0 .. D /\ ~(m <= m - 1)
    BY <1>1, <2>3, <2>4
  <2>6. m - 1 \notin Bad
    <3> HIDE DEF Bad
    <3> QED
      BY <2>2, <2>5
  <2>7. Right(m - 1)
    BY <2>5, <2>6
  <2> HIDE DEF Right
  <2> QED
    BY <1>6, <2>3, <2>5, <2>7
<1>8. Right(k)
  <2> HIDE DEF Right
  <2> QED
    BY <1>7
<1> QED
  BY <1>8 DEF v

(* So a net of a tower is what it is said to be.                           *)
LEMMA TowerSound ==
  ASSUME job \in Jobs, NEW c, Tower(c), NEW net \in c[job.max_depth]
  PROVE  eval_net(net) = net.fn /\ Energy(net) = net.cost
<1>1. job.max_depth \in Nat /\ job.max_depth \in 0 .. job.max_depth
      /\ job.max_depth - job.max_depth = 0 /\ 0 \in 0 .. job.max_depth
  BY JobsAssumption
<1>2. net \in Used(net)[0]
  <2> DEFINE u == Used(net)
  <2>1. u = [i \in 0 .. job.max_depth |->
               IF i = 0 THEN {net} ELSE UNION {ToSet(y.inputs) : y \in u[i - 1]}]
    BY <1>1, UsedIs
  <2> HIDE DEF u
  <2>2. u[0] = {net}
    BY <1>1, <2>1
  <2> QED
    BY <2>2 DEF u
<1>3. net \in Used(net)[job.max_depth - job.max_depth]
  BY <1>1, <1>2
<1>4. /\ Made(net)[job.max_depth][net].fn = net.fn
      /\ Made(net)[job.max_depth][net].energy = net.cost
  BY <1>1, <1>3, MadeStage
<1> QED
  BY <1>4 DEF eval_net, Energy, Rebuilt

-----------------------------------------------------------------------------
(* The netlists of the search stand in such a tower: those kept in the     *)
(* stages done, those of the level being built on top of them.             *)
Standing(c) ==
  /\ Tower(c)
  /\ \A f \in DOMAIN signals : signals[f] \in c[depth - 1] /\ signals[f].fn = f
  /\ \A f \in DOMAIN new : GateNet(new[f], c[depth - 1]) /\ new[f].fn = f

FoundNets ==
  \A i \in DOMAIN found : \A k \in DOMAIN found[i].net :
    \E c : /\ Tower(c) /\ found[i].net[k] \in c[job.max_depth]
           /\ found[i].net[k].fn = job.target

NetInv == (\E c : Standing(c)) /\ FoundNets

(* A tower depends on the job only.                                        *)
LEMMA TowerSame ==
  ASSUME job' = job, NEW c
  PROVE  /\ Tower(c)' <=> Tower(c)
         /\ \A n, S : GateNet(n, S)' <=> GateNet(n, S)
<1>1. \A n : LeafNet(n)' <=> LeafNet(n)
  BY DEF LeafNet, Leaves
<1>2. \A n, S : GateNet(n, S)' <=> GateNet(n, S)
  BY DEF GateNet
<1> QED
  BY <1>1, <1>2 DEF Tower

(* More to build on does no harm.                                          *)
LEMMA GateMono ==
  ASSUME NEW n, NEW S, NEW T, S \subseteq T, GateNet(n, S)
  PROVE  GateNet(n, T)
BY DEF GateNet

(* A tower of leaves.                                                      *)
LEMMA LeafTower ==
  ASSUME job \in Jobs
  PROVE  \E c : /\ Tower(c)
                /\ \A f \in Leaves(job) : LeafNets(job)[f] \in c[0] /\ LeafNets(job)[f].fn = f
<1> DEFINE L == {Net(f, "leaf", <<>>, 0) : f \in Leaves(job)}
           c == [k \in 0 .. job.max_depth |-> L]
<1>1. job.max_depth \in Nat
  BY JobsAssumption
<1>2. \A n \in L : LeafNet(n)
  BY DEF LeafNet
<1>3. \A f \in Leaves(job) : LeafNets(job)[f] \in L /\ LeafNets(job)[f].fn = f
  BY DEF LeafNets, Net
<1> HIDE DEF L
<1>4. \A k \in 0 .. job.max_depth : c[k] = L
  OBVIOUS
<1>5. 0 \in 0 .. job.max_depth /\ \A k \in 1 .. job.max_depth : k \in 0 .. job.max_depth
  BY <1>1
<1> HIDE DEF c
<1>6. Tower(c)
  BY <1>2, <1>4, <1>5 DEF Tower
<1> QED
  BY <1>3, <1>4, <1>5, <1>6

(* A finished level joins its stage and those above.                       *)
LEMMA LevelTower ==
  ASSUME job \in Jobs, NEW c, Tower(c), NEW d \in 1 .. job.max_depth,
         NEW S, \A n \in S : GateNet(n, c[d - 1]),
         NEW e, e = [k \in 0 .. job.max_depth |-> IF k < d THEN c[k] ELSE c[k] \cup S]
  PROVE  Tower(e)
<1> DEFINE D == job.max_depth
<1>1. D \in Nat
  BY JobsAssumption
<1>2. /\ \A k \in 0 .. D : k < d => e[k] = c[k]
      /\ \A k \in 0 .. D : ~(k < d) => e[k] = c[k] \cup S
      /\ \A k \in 0 .. D : c[k] \subseteq e[k]
  OBVIOUS
<1>3. \A n \in e[0] : LeafNet(n)
  <2>1. 0 \in 0 .. D /\ 0 < d
    BY <1>1
  <2> QED
    BY <1>2, <2>1 DEF Tower
<1>4. ASSUME NEW i \in 0 .. D, NEW k \in 0 .. D, i <= k PROVE e[i] \subseteq e[k]
  <2>1. c[i] \subseteq c[k]
    BY <1>4 DEF Tower
  <2>2. CASE i < d
    BY <1>2, <2>1, <2>2
  <2>3. CASE ~(i < d)
    <3>1. ~(k < d)
      BY <1>1, <1>4, <2>3
    <3> QED
      BY <1>2, <2>1, <2>3, <3>1
  <2> QED
    BY <2>2, <2>3
<1>5. ASSUME NEW k \in 1 .. D, NEW n \in e[k] PROVE LeafNet(n) \/ GateNet(n, e[k - 1])
  <2>1. k \in 0 .. D /\ k - 1 \in 0 .. D /\ d - 1 \in 0 .. D
    BY <1>1
  <2>2. c[k - 1] \subseteq e[k - 1]
    BY <1>2, <2>1
  <2>3. CASE n \in c[k]
    <3>1. LeafNet(n) \/ GateNet(n, c[k - 1])
      BY <2>3 DEF Tower
    <3> QED
      BY <2>2, <3>1, GateMono
  <2>4. CASE n \notin c[k]
    <3>1. ~(k < d) /\ n \in S
      BY <1>2, <1>5, <2>1, <2>4
    <3>2. d - 1 <= k - 1
      BY <1>1, <3>1
    <3>3. c[d - 1] \subseteq c[k - 1]
      BY <2>1, <3>2 DEF Tower
    <3>4. c[d - 1] \subseteq e[k - 1]
      BY <2>2, <3>3
    <3> QED
      BY <3>1, <3>4, GateMono
  <2> QED
    BY <2>3, <2>4
<1> QED
  BY <1>3, <1>4, <1>5 DEF Tower

(* The netlists a row leaves in the table are its own or were there.       *)
LEMMA OfferNets ==
  ASSUME NEW row, \A n \in row : n.cost \in Nat, Offer(row), NEW h \in DOMAIN new'
  PROVE  \/ h \in DOMAIN new /\ new'[h] = new[h]
         \/ new'[h] \in row /\ new'[h].fn = h
<1> DEFINE functions == {n.fn : n \in row}
           Of(x) == {n \in row : n.fn = x}
           least(x) == Cheapest(Of(x), LAMBDA n : n.cost)
           Taken(x) == x \in functions /\ Beats(least(x).cost, new, x)
<1>1. new' = [x \in DOMAIN new \cup functions |-> IF Taken(x) THEN least(x) ELSE new[x]]
  BY DEF Offer, Cheapest
<1>2. ASSUME h \in functions PROVE least(h) \in row /\ least(h).fn = h
  <2>1. Of(h) # {} /\ \A n \in Of(h) : n.cost \in Nat
    BY <1>2
  <2>2. least(h) \in Of(h)
    <3> HIDE DEF Of
    <3> QED BY <2>1, CheapestNet
  <2> QED
    BY <2>2
<1> HIDE DEF least
<1>3. new'[h] = IF Taken(h) THEN least(h) ELSE new[h]
  BY <1>1
<1>4. CASE Taken(h)
  BY <1>2, <1>3, <1>4
<1>5. CASE ~Taken(h)
  <2>1. h \in DOMAIN new
    BY <1>1, <1>5 DEF Beats
  <2> QED
    BY <1>3, <1>5, <2>1
<1> QED
  BY <1>4, <1>5

(* What a step places is a gate on netlists that are kept.                 *)
LEMMA PlacesStand ==
  ASSUME SearchInv, NEW c, Standing(c), pool # {}, GATES[gate] \in job.gates,
         NEW h \in DOMAIN signals
  PROVE  /\ arity(GATES[gate]) = 1 => GateNet(Place1(Operand), c[depth - 1])
         /\ arity(GATES[gate]) # 1 => GateNet(Place2(Operand, h), c[depth - 1])
<1> DEFINE g == GATES[gate]
           o == Operand
           a == signals[o]
           b == signals[h]
<1>1. TypeInv
  BY DEF SearchInv
<1>2. o \in DOMAIN signals
  BY <1>1, CheapestIs DEF Operand, TypeInv
<1>3. /\ a \in c[depth - 1] /\ a.fn = o /\ a.cost = cf(o)
      /\ b \in c[depth - 1] /\ b.fn = h /\ b.cost = cf(h)
  BY <1>2 DEF Standing, cf
<1> HIDE DEF a, b, o, g
<1>4. ASSUME arity(g) = 1 PROVE GateNet(Place1(o), c[depth - 1])
  <2>1. Place1(o) = Net(apply(g, o, o), g, <<a>>, cf(o) + node_cost(apply(g, o, o)))
    BY DEF Place1, a, g
  <2>2. Paid(g, a, a) = cf(o) + node_cost(apply(g, o, o))
    BY <1>3, <1>4 DEF Paid, Price
  <2>3. Place1(o) = Placement(g, a, a)
    BY <1>3, <1>4, <2>1, <2>2 DEF Placement
  <2> QED
    BY <1>3, <2>3 DEF GateNet, g
<1>5. ASSUME arity(g) # 1 PROVE GateNet(Place2(o, h), c[depth - 1])
  <2>1. Place2(o, h) = Net(apply(g, o, h), g, <<a, b>>, cf(o) + cf(h) + node_cost(apply(g, o, h)))
    BY DEF Place2, a, b, g
  <2>2. Paid(g, a, b) = cf(o) + cf(h) + node_cost(apply(g, o, h))
    BY <1>3, <1>5 DEF Paid, Price
  <2>3. Place2(o, h) = Placement(g, a, b)
    BY <1>3, <1>5, <2>1, <2>2 DEF Placement
  <2> QED
    BY <1>3, <1>5, <2>3 DEF GateNet, g
<1> QED
  BY <1>4, <1>5 DEF g, o

(* The netlists keep standing in a tower: a row of placements,             *)
LEMMA RowStands ==
  ASSUME SearchInv, NEW c, Standing(c), UnaryStep \/ BinaryStep
  PROVE  Standing(c)'
<1> DEFINE one == {Place1(Operand)}
           all == {Place2(Operand, h) : h \in {h \in DOMAIN signals : ~Cut(cf(Operand) + cf(h))}}
<1>1. TypeInv
  BY DEF SearchInv
<1>2. Searching /\ pool # {} /\ GATES[gate] \in job.gates
  BY DEF UnaryStep, BinaryStep
<1>3. PICK row : Row(row) /\ \A n \in row : GateNet(n, c[depth - 1]) /\ n.cost \in Nat
  <2>1. Operand \in DOMAIN signals
    BY <1>1, <1>2, CheapestIs DEF Operand, TypeInv
  <2>2. job \in Jobs /\ depth \in 1 .. job.max_depth
    <3>1. job \in Jobs /\ depth \in 1 .. job.max_depth + 1
      BY <1>1 DEF TypeInv
    <3>2. ~(depth > job.max_depth)
      BY <1>2 DEF SearchInv, NewEmpty
    <3>3. job.max_depth \in Nat
      BY <3>1, JobsAssumption
    <3> QED
      BY <3>1, <3>2, <3>3
  <2>3. ASSUME NEW n, GateNet(n, c[depth - 1]) PROVE n.cost \in Nat
    <3>1. PICK g \in job.gates, a \in c[depth - 1], b \in c[depth - 1] : n.cost = Paid(g, a, b)
      BY <2>3, GateIs
    <3>2. depth - 1 \in 0 .. job.max_depth
      BY <2>2, JobsAssumption
    <3>3. a.fn \in Fns(job) /\ a.cost \in Nat /\ b.fn \in Fns(job) /\ b.cost \in Nat
      BY <2>2, <3>1, <3>2, TowerNets DEF Standing
    <3>4. Paid(g, a, b) \in Nat
      BY <2>2, <3>1, <3>3, PriceNat DEF Paid
    <3> QED
      BY <3>1, <3>4
  <2>4. CASE UnaryStep
    <3>1. arity(GATES[gate]) = 1 /\ Row(one)
      BY <2>4 DEF UnaryStep
    <3>2. GateNet(Place1(Operand), c[depth - 1])
      BY <1>2, <2>1, <3>1, PlacesStand
    <3> QED
      BY <2>3, <3>1, <3>2
  <2>5. CASE BinaryStep
    <3>1. arity(GATES[gate]) # 1 /\ Row(all)
      BY <2>5 DEF BinaryStep
    <3>2. \A h \in DOMAIN signals : GateNet(Place2(Operand, h), c[depth - 1])
      BY <1>2, <3>1, PlacesStand
    <3>3. \A n \in all : \E h \in DOMAIN signals : n = Place2(Operand, h)
      OBVIOUS
    <3> HIDE DEF all
    <3>4. \A n \in all : GateNet(n, c[depth - 1])
      BY <3>2, <3>3
    <3> QED
      BY <2>3, <3>1, <3>4
  <2> QED
    BY <2>4, <2>5
<1>4. job' = job /\ signals' = signals /\ depth' = depth /\ Offer(row)
  BY <1>3 DEF Row
<1>5. Tower(c)' /\ \A n, S : GateNet(n, S)' <=> GateNet(n, S)
  BY <1>4, TowerSame DEF Standing
<1>6. ASSUME NEW f \in DOMAIN new' PROVE GateNet(new'[f], c[depth - 1]) /\ new'[f].fn = f
  <2>1. \/ f \in DOMAIN new /\ new'[f] = new[f]
        \/ new'[f] \in row /\ new'[f].fn = f
    BY <1>3, <1>4, OfferNets
  <2>2. CASE f \in DOMAIN new /\ new'[f] = new[f]
    BY <2>2 DEF Standing
  <2>3. CASE new'[f] \in row /\ new'[f].fn = f
    BY <1>3, <2>3
  <2> QED
    BY <2>1, <2>2, <2>3
<1>7. \A f \in DOMAIN signals : signals[f] \in c[depth - 1] /\ signals[f].fn = f
  BY DEF Standing
<1>8. \A f \in DOMAIN new' : GateNet(new[f], c[depth - 1])' /\ new'[f].fn = f
  BY <1>4, <1>5, <1>6
<1> QED
  BY <1>4, <1>5, <1>7, <1>8 DEF Standing

(* the end of a level,                                                     *)
LEMMA LevelStands ==
  ASSUME SearchInv, NEW c, Standing(c), EndLevel
  PROVE  \E e : Standing(e)'
<1> DEFINE D == job.max_depth
           S == {new[h] : h \in DOMAIN new}
<1>1. job \in Jobs /\ depth \in 1 .. D /\ D \in Nat
  <2>1. job \in Jobs /\ depth \in 1 .. D + 1 /\ depth <= D
    BY DEF SearchInv, TypeInv, EndLevel
  <2> QED
    BY <2>1, JobsAssumption
<1>2. /\ job' = job /\ depth' = depth + 1 /\ signals' = Merge(signals, new) /\ DOMAIN new' = {}
  BY DEF EndLevel
<1>3. \A n \in S : GateNet(n, c[depth - 1])
  BY DEF Standing
<1>4. PICK e : e = [k \in 0 .. D |-> IF k < depth THEN c[k] ELSE c[k] \cup S]
  OBVIOUS
<1>5. Tower(e)
  <2>1. Tower(c)
    BY DEF Standing
  <2>2. PICK d : d = depth
    OBVIOUS
  <2>3. PICK T : T = S
    OBVIOUS
  <2> HIDE DEF S
  <2>4. d \in 1 .. job.max_depth /\ \A n \in T : GateNet(n, c[d - 1])
    BY <1>1, <1>3, <2>2, <2>3
  <2>5. e = [k \in 0 .. job.max_depth |-> IF k < d THEN c[k] ELSE c[k] \cup T]
    BY <1>4, <2>2, <2>3
  <2> QED
    BY <1>1, <2>1, <2>4, <2>5, LevelTower
<1>6. c[depth - 1] \subseteq c[depth]
  <2>1. depth - 1 \in 0 .. D /\ depth \in 0 .. D /\ depth - 1 <= depth
    BY <1>1
  <2> QED
    BY <2>1 DEF Standing, Tower
<1>7. e[depth] = c[depth] \cup S
  BY <1>1, <1>4
<1>8. ASSUME NEW f \in DOMAIN signals'
      PROVE  signals'[f] \in e[depth] /\ signals'[f].fn = f
  <2>1. /\ f \in DOMAIN signals \cup DOMAIN new
        /\ signals'[f] = IF f \in DOMAIN new /\ Beats(new[f].cost, signals, f) THEN new[f]
                         ELSE signals[f]
    BY <1>2, <1>8 DEF Merge
  <2>2. CASE f \in DOMAIN new /\ signals'[f] = new[f]
    BY <1>7, <2>2 DEF Standing
  <2>3. CASE f \in DOMAIN signals /\ signals'[f] = signals[f]
    BY <1>6, <1>7, <2>3 DEF Standing
  <2> QED
    BY <2>1, <2>2, <2>3 DEF Beats
<1>9. Tower(e)'
  BY <1>2, <1>5, TowerSame
<1>10. depth' - 1 = depth
  BY <1>1, <1>2
<1>11. Standing(e)'
  BY <1>2, <1>8, <1>9, <1>10 DEF Standing
<1> QED
  BY <1>11

(* and the end of a run, which returns one of them.                        *)
LEMMA ReturnStands ==
  ASSUME SearchInv, NetInv, Return
  PROVE  NetInv'
<1>1. PICK c : Standing(c)
  BY DEF NetInv
<1>2. /\ job' = job /\ new' = new /\ depth > job.max_depth /\ found' = Append(found, Returned)
  BY DEF Return
<1>3. /\ job \in Jobs /\ depth - 1 = job.max_depth /\ DOMAIN new = {}
  <2>1. job \in Jobs /\ depth \in 1 .. job.max_depth + 1
    BY DEF SearchInv, TypeInv
  <2>2. DOMAIN new = {}
    BY <1>2 DEF SearchInv, NewEmpty
  <2> QED
    BY <1>2, <2>1, <2>2, JobsAssumption
<1>4. \A k \in DOMAIN Returned.net :
        /\ Tower(c) /\ Returned.net[k] \in c[job.max_depth]
        /\ Returned.net[k].fn = job.target
  <2>1. Returned.net = IF job.target \in DOMAIN signals THEN <<signals[job.target]>> ELSE <<>>
    BY DEF Returned
  <2>2. CASE job.target \in DOMAIN signals
    <3>1. Tower(c) /\ signals[job.target] \in c[job.max_depth] /\ signals[job.target].fn = job.target
      BY <1>1, <1>3, <2>2 DEF Standing
    <3>2. DOMAIN Returned.net = {1} /\ Returned.net[1] = signals[job.target]
      BY <2>1, <2>2
    <3> QED
      BY <3>1, <3>2
  <2>3. CASE job.target \notin DOMAIN signals
    BY <2>1, <2>3
  <2> QED
    BY <2>2, <2>3
<1>5. \A e : Tower(e)' <=> Tower(e)
  BY <1>2, TowerSame
<1>6. FoundNets'
  <2>1. PICK S : found \in Seq(S)
    BY DEF SearchInv, FoundOptimal
  <2>2. found \in Seq(S \cup {Returned})
    BY <2>1
  <2>3. ASSUME NEW i \in DOMAIN found'
        PROVE  found'[i] = Returned \/ (i \in DOMAIN found /\ found'[i] = found[i])
    BY <1>2, <2>2, <2>3
  <2>4. ASSUME NEW i \in DOMAIN found', NEW k \in DOMAIN found'[i].net
        PROVE  \E e : /\ Tower(e) /\ found'[i].net[k] \in e[job.max_depth]
                      /\ found'[i].net[k].fn = job.target
    <3>1. CASE found'[i] = Returned
      BY <1>4, <2>4, <3>1
    <3>2. CASE i \in DOMAIN found /\ found'[i] = found[i]
      BY <2>4, <3>2 DEF NetInv, FoundNets
    <3> QED
      BY <2>3, <3>1, <3>2
  <2> QED
    BY <1>2, <1>5, <2>4 DEF FoundNets
<1>7. \E e : Standing(e)'
  <2>1. CASE prune
    <3>1. signals' = LeafNets(job) /\ depth' = 1
      BY <2>1 DEF Return
    <3>2. PICK e : /\ Tower(e)
                   /\ \A f \in Leaves(job) : LeafNets(job)[f] \in e[0] /\ LeafNets(job)[f].fn = f
      BY <1>3, LeafTower
    <3>3. DOMAIN signals' = Leaves(job)
      BY <3>1 DEF LeafNets
    <3>4. \A f \in DOMAIN signals' : signals'[f] \in e[depth' - 1] /\ signals'[f].fn = f
      BY <3>1, <3>2, <3>3
    <3>5. Standing(e)'
      BY <1>2, <1>3, <1>5, <3>2, <3>4 DEF Standing
    <3> QED
      BY <3>5
  <2>2. CASE ~prune
    <3>1. UNCHANGED <<job, signals, depth, new>>
      BY <2>2 DEF Return
    <3>2. Standing(c)'
      <4>1. Tower(c)' /\ \A n, S : GateNet(n, S)' <=> GateNet(n, S)
        BY <1>1, <3>1, TowerSame DEF Standing
      <4> QED
        BY <1>1, <3>1, <4>1 DEF Standing
    <3> QED
      BY <3>2
  <2> QED
    BY <2>1, <2>2
<1> QED
  BY <1>6, <1>7 DEF NetInv

(* Every step keeps them standing.                                         *)
LEMMA NetsKeep ==
  ASSUME SearchInv, NetInv, [Next]_searchVars
  PROVE  NetInv'
<1>1. PICK c : Standing(c)
  BY DEF NetInv
<1>2. ASSUME job' = job, found' = found PROVE FoundNets'
  <2>1. \A e : Tower(e)' <=> Tower(e)
    BY <1>2, TowerSame
  <2> QED
    BY <1>2, <2>1 DEF NetInv, FoundNets
<1>3. CASE UnaryStep \/ BinaryStep
  <2>1. job' = job /\ found' = found
    BY <1>3 DEF UnaryStep, BinaryStep, Row
  <2> QED
    BY <1>1, <1>2, <1>3, <2>1, RowStands DEF NetInv
<1>4. CASE NextGate \/ MuxStep \/ UNCHANGED searchVars
  <2>1. UNCHANGED <<job, signals, depth, new, found>>
    BY <1>4 DEF NextGate, MuxStep, searchVars
  <2>2. Tower(c)' /\ \A n, S : GateNet(n, S)' <=> GateNet(n, S)
    BY <1>1, <2>1, TowerSame DEF Standing
  <2>3. Standing(c)'
    BY <1>1, <2>1, <2>2 DEF Standing
  <2> QED
    BY <1>2, <2>1, <2>3 DEF NetInv
<1>5. CASE EndLevel
  <2>1. job' = job /\ found' = found
    BY <1>5 DEF EndLevel
  <2> QED
    BY <1>1, <1>2, <1>5, <2>1, LevelStands DEF NetInv
<1>6. CASE Return
  BY <1>6, ReturnStands
<1> QED
  BY <1>3, <1>4, <1>5, <1>6 DEF Next

-----------------------------------------------------------------------------
(* How many netlists a run looks at.  All the placements there are: a      *)
(* level and a gate, and two functions realised below that level.          *)
Reach(j, k) == {f \in Fns(j) : \E c \in Nat : Derived(j, k, f, c)}

Work(j) ==
  {w \in ((1 .. j.max_depth) \X (1 .. Len(GATES))) \X (Fns(j) \X Fns(j)) :
     /\ GATES[w[1][2]] \in j.gates
     /\ w[2][1] \in Reach(j, w[1][1] - 1) /\ w[2][2] \in Reach(j, w[1][1] - 1)
     /\ arity(GATES[w[1][2]]) = 1 => w[2][2] = w[2][1]}

(* Those the loops have passed at level d, gate g, with the pool p left.   *)
Before(j, d, g, p) ==
  {w \in Work(j) : \/ w[1][1] < d
                   \/ w[1][1] = d /\ (w[1][2] < g \/ (w[1][2] = g /\ w[2][1] \notin p))}

Passed == Before(job, depth, gate, pool)

(* A run has looked at some of those it passed; without the cuts, at all.  *)
Counted ==
  \E T \in SUBSET Passed : generated = Cardinality(T) /\ (~prune => T = Passed)

FoundCounts ==
  /\ prune <=> Len(found) = 0
  /\ \A i \in DOMAIN found : found[i].generated <= Cardinality(Work(job))
  /\ \A i \in DOMAIN found : i = 2 => found[i].generated = Cardinality(Work(job))

CountInv == Counted /\ FoundCounts

(* There are finitely many.                                                *)
LEMMA FnsFinite ==
  ASSUME NEW j \in Jobs
  PROVE  IsFiniteSet(Fns(j))
<1> DEFINE R == Rows(j.n)
           G == SUBSET (R \X TRITS)
           graph == [f \in Fns(j) |-> {<<r, f[r]>> : r \in R}]
<1>1. IsFiniteSet(R)
  <2>1. 3 ^ j.n \in Nat
    BY JobsAssumption
  <2> HIDE DEF R
  <2>2. R = 1 .. 3 ^ j.n
    BY DEF R, Rows
  <2> DEFINE N == 3 ^ j.n
  <2>3. N \in Int /\ 1 \in Int
    BY <2>1
  <2> HIDE DEF N
  <2>4. IsFiniteSet(1 .. N)
    BY <2>3, FS_Interval
  <2> QED
    BY <2>2, <2>4 DEF N
<1>2. IsFiniteSet(TRITS)
  <2>1. PICK low \in Int : low = -1
    OBVIOUS
  <2>2. TRITS = low .. 1
    BY <2>1 DEF TRITS
  <2>3. IsFiniteSet(low .. 1)
    BY FS_Interval
  <2> QED
    BY <2>2, <2>3
<1>3. IsFiniteSet(G)
  <2> HIDE DEF R
  <2>1. IsFiniteSet(R \X TRITS)
    BY <1>1, <1>2, FS_Product
  <2> DEFINE P == R \X TRITS
  <2> HIDE DEF P
  <2>2. IsFiniteSet(SUBSET P)
    BY <2>1, FS_SUBSET DEF P
  <2> QED
    BY <2>2 DEF P
<1>4. graph \in Injection(Fns(j), G)
  <2>1. ASSUME NEW f \in Fns(j) PROVE graph[f] = {<<r, f[r]>> : r \in R} /\ graph[f] \in G
    BY DEF Fns
  <2>2. graph \in [Fns(j) -> G]
    <3> HIDE DEF G
    <3> QED
      BY <2>1
  <2>3. ASSUME NEW f \in Fns(j), NEW h \in Fns(j), graph[f] = graph[h] PROVE f = h
    <3>1. ASSUME NEW r \in R PROVE f[r] = h[r]
      <4>1. <<r, f[r]>> \in graph[h]
        BY <2>1, <2>3
      <4>2. PICK q \in R : <<r, f[r]>> = <<q, h[q]>>
        BY <2>1, <4>1
      <4> QED
        BY <4>2
    <3>2. f = [r \in R |-> f[r]] /\ h = [r \in R |-> h[r]]
      BY DEF Fns
    <3> QED
      BY <3>1, <3>2
  <2> HIDE DEF graph, G
  <2> QED
    BY <2>2, <2>3 DEF Injection, IsInjective
<1> HIDE DEF G, graph
<1> QED
  BY <1>3, <1>4, FS_Injection

(* So there are finitely many placements.                                  *)
LEMMA WorkFinite ==
  ASSUME NEW j \in Jobs
  PROVE  /\ IsFiniteSet(Work(j))
         /\ \A T : T \subseteq Work(j) =>
              IsFiniteSet(T) /\ Cardinality(T) \in Nat /\ Cardinality(T) <= Cardinality(Work(j))
<1> DEFINE A == (1 .. j.max_depth) \X (1 .. Len(GATES))
           B == Fns(j) \X Fns(j)
<1>1. j.max_depth \in Int /\ Len(GATES) \in Int /\ 1 \in Int
  BY JobsAssumption DEF GATES
<1>2. IsFiniteSet(1 .. j.max_depth) /\ IsFiniteSet(1 .. Len(GATES))
  BY <1>1, FS_Interval
<1>3. IsFiniteSet(A)
  BY <1>2, FS_Product
<1>4. IsFiniteSet(B)
  BY FnsFinite, FS_Product
<1>5. Work(j) \in SUBSET (A \X B)
  BY Zenon DEF Work
<1> HIDE DEF A, B
<1>6. IsFiniteSet(A \X B)
  BY <1>3, <1>4, FS_Product
<1>7. IsFiniteSet(Work(j))
  BY <1>5, <1>6, FS_Subset
<1>8. ASSUME NEW T, T \subseteq Work(j)
      PROVE  IsFiniteSet(T) /\ Cardinality(T) \in Nat /\ Cardinality(T) <= Cardinality(Work(j))
  <2>1. T \in SUBSET Work(j)
    BY <1>8
  <2>2. IsFiniteSet(T) /\ Cardinality(T) <= Cardinality(Work(j))
    BY <1>7, <2>1, FS_Subset
  <2> QED
    BY <2>2, FS_CardinalityType
<1> QED
  BY <1>7, <1>8

(* The functions kept are realised; without the cuts they are all of them. *)
Known ==
  /\ DOMAIN signals \subseteq Reach(job, depth - 1)
  /\ ~prune => DOMAIN signals = Reach(job, depth - 1)

(* The search keeps that.                                                  *)
LEMMA KeptReach == SearchInv => Known
<1> SUFFICES ASSUME SearchInv PROVE Known
  OBVIOUS
<1>1. TypeInv /\ KeptExist /\ ExactBelow
  BY DEF SearchInv
<1>2. ASSUME NEW f \in DOMAIN signals PROVE f \in Reach(job, depth - 1)
  BY <1>1, CfNat DEF KeptExist, Reach
<1>3. ASSUME ~prune, NEW f \in Reach(job, depth - 1) PROVE f \in DOMAIN signals
  <2>1. f \in Fns(job) /\ \E c \in Nat : Derived(job, depth - 1, f, c)
    BY <1>3 DEF Reach
  <2>2. Bound = {}
    BY <1>3 DEF Bound
  <2> QED
    BY <1>1, <2>1, <2>2 DEF ExactBelow, Kept
<1> QED
  BY <1>2, <1>3 DEF Known

(* What a row places, it counts.                                           *)
LEMMA RowCounts ==
  ASSUME SearchInv, NEW c, Standing(c), Counted, UnaryStep \/ BinaryStep
  PROVE  Counted'
<1> DEFINE g == GATES[gate]
           o == Operand
           E == {h \in DOMAIN signals : ~Cut(cf(o) + cf(h))}
           Placed(h) == IF arity(g) = 1 THEN Place1(o) ELSE Place2(o, h)
           at(h) == <<<<depth, gate>>, <<o, h>>>>
<1>1. TypeInv
  BY DEF SearchInv
<1>2. Searching /\ pool # {} /\ g \in job.gates
  BY DEF UnaryStep, BinaryStep
<1>3. o \in DOMAIN signals /\ o \in pool
  BY <1>1, <1>2, CheapestIs DEF Operand, TypeInv
<1>4. PICK H : /\ H \subseteq DOMAIN signals /\ Row({Placed(h) : h \in H})
               /\ arity(g) = 1 => H = {o}
               /\ ~prune /\ arity(g) # 1 => H = DOMAIN signals
  <2>1. CASE UnaryStep
    <3>1. arity(g) = 1 /\ Row({Place1(o)})
      BY <2>1 DEF UnaryStep
    <3>2. {Placed(h) : h \in {o}} = {Place1(o)}
      BY <3>1
    <3> QED
      BY <1>3, <3>1, <3>2
  <2>2. CASE BinaryStep
    <3>1. arity(g) # 1 /\ Row({Place2(o, h) : h \in E})
      BY <2>2 DEF BinaryStep
    <3>2. {Placed(h) : h \in E} = {Place2(o, h) : h \in E}
      BY <3>1
    <3>3. ~prune => E = DOMAIN signals
      BY DEF Cut, Bound
    <3> QED
      BY <3>1, <3>2, <3>3
  <2> QED
    BY <2>1, <2>2
<1> HIDE DEF g, o
<1>5. \A h, i \in DOMAIN signals : Placed(h) = Placed(i) /\ arity(g) # 1 => h = i
  <2>1. SUFFICES ASSUME NEW h \in DOMAIN signals, NEW i \in DOMAIN signals,
                        Place2(o, h) = Place2(o, i)
                 PROVE  h = i
    OBVIOUS
  <2>2. \A e : Place2(o, e).inputs = <<signals[o], signals[e]>>
    BY DEF Place2, Net
  <2>3. <<signals[o], signals[h]>> = <<signals[o], signals[i]>>
    BY <2>1, <2>2
  <2>4. signals[h] = signals[i]
    BY <2>3
  <2>5. signals[h].fn = h /\ signals[i].fn = i
    BY DEF Standing
  <2> QED
    BY <2>4, <2>5
<1> DEFINE row == {Placed(h) : h \in H}
<1>6. \A h, i \in H : Placed(h) = Placed(i) => h = i
  <2>1. CASE arity(g) = 1
    BY <1>4, <2>1
  <2>2. CASE arity(g) # 1
    BY <1>4, <1>5, <2>2
  <2> QED
    BY <2>1, <2>2
<1>7. /\ UNCHANGED <<job, prune, signals, depth, gate, found>>
      /\ pool' = pool \ {o} /\ generated' = generated + Cardinality(row)
  BY <1>4 DEF Row, o
<1> HIDE DEF Placed
<1> DEFINE U == {at(h) : h \in H}
<1>8. job \in Jobs /\ depth \in 1 .. job.max_depth /\ gate \in 1 .. Len(GATES)
  <2>1. job \in Jobs /\ depth \in 1 .. job.max_depth + 1 /\ gate \in 1 .. Len(GATES) + 1
    BY <1>1 DEF TypeInv
  <2>2. ~(depth > job.max_depth) /\ gate <= Len(GATES)
    BY <1>2 DEF SearchInv, NewEmpty, Searching
  <2>3. job.max_depth \in Nat /\ Len(GATES) = 7
    BY <2>1, JobsAssumption DEF GATES
  <2> QED
    BY <2>1, <2>2, <2>3
<1>9. DOMAIN signals \subseteq Fns(job) /\ DOMAIN signals \subseteq Reach(job, depth - 1)
      /\ (~prune => DOMAIN signals = Reach(job, depth - 1))
  BY KeptReach, <1>1 DEF TypeInv, Table, Known
<1>10. U \subseteq Work(job)
  <2>1. SUFFICES ASSUME NEW h \in H PROVE at(h) \in Work(job)
    OBVIOUS
  <2>2. at(h) \in ((1 .. job.max_depth) \X (1 .. Len(GATES))) \X (Fns(job) \X Fns(job))
    BY <1>3, <1>4, <1>8, <1>9, <2>1
  <2>3. /\ at(h)[1][1] = depth /\ at(h)[1][2] = gate /\ at(h)[2][1] = o /\ at(h)[2][2] = h
    OBVIOUS
  <2>4. /\ o \in Reach(job, depth - 1) /\ h \in Reach(job, depth - 1)
        /\ GATES[gate] \in job.gates /\ (arity(GATES[gate]) = 1 => h = o)
    BY <1>2, <1>3, <1>4, <1>9, <2>1 DEF g
  <2> HIDE DEF at
  <2> QED
    BY <2>2, <2>3, <2>4 DEF Work
<1>11. IsFiniteSet(U) /\ Cardinality(U) \in Nat
  BY <1>8, <1>10, WorkFinite
<1>12. Cardinality(row) = Cardinality(U)
  <2> DEFINE b == [u \in U |-> Placed(u[2][2])]
  <2>1. \A h \in H : at(h) \in U /\ at(h)[2][2] = h
    OBVIOUS
  <2>2. \A u \in U : u[2][2] \in H /\ u = at(u[2][2])
    OBVIOUS
  <2> HIDE DEF U, at
  <2>3. b \in [U -> row]
    BY <2>2
  <2>4. \A u, w \in U : b[u] = b[w] => u = w
    <3>1. SUFFICES ASSUME NEW u \in U, NEW w \in U, Placed(u[2][2]) = Placed(w[2][2])
                   PROVE  u = w
      OBVIOUS
    <3>2. u[2][2] = w[2][2]
      BY <1>6, <2>2, <3>1
    <3> QED
      BY <2>2, <3>2
  <2>5. \A n \in row : \E u \in U : b[u] = n
    <3>1. SUFFICES ASSUME NEW h \in H PROVE \E u \in U : b[u] = Placed(h)
      OBVIOUS
    <3>2. b[at(h)] = Placed(h)
      BY <2>1
    <3> QED
      BY <2>1, <3>2
  <2>6. b \in Bijection(U, row)
    <3> HIDE DEF b, row
    <3> QED
      BY <2>3, <2>4, <2>5 DEF Bijection, Injection, IsInjective, Surjection
  <2>7. ExistsBijection(U, row)
    BY <2>6 DEF ExistsBijection
  <2> HIDE DEF row, b
  <2> QED
    BY <1>11, <2>7, FS_Bijection
<1>13. PICK T \in SUBSET Passed : generated = Cardinality(T) /\ (~prune => T = Passed)
  BY DEF Counted
<1>14. /\ T \subseteq Work(job)
       /\ \A t \in T : \/ t[1][1] < depth
                       \/ t[1][1] = depth /\ (t[1][2] < gate \/ (t[1][2] = gate /\ t[2][1] \notin pool))
  BY <1>13 DEF Passed, Before
<1>15. IsFiniteSet(T) /\ Cardinality(T) \in Nat
  BY <1>8, <1>14, WorkFinite
<1>16. T \cap U = {}
  <2>1. SUFFICES ASSUME NEW h \in H, at(h) \in T PROVE FALSE
    OBVIOUS
  <2>2. at(h)[1][1] = depth /\ at(h)[1][2] = gate /\ at(h)[2][1] = o
    OBVIOUS
  <2> HIDE DEF at
  <2> QED
    BY <1>3, <1>8, <1>14, <2>1, <2>2
<1>17. generated' = Cardinality(T \cup U)
  <2>1. Cardinality(T \cup U) = Cardinality(T) + Cardinality(U) - Cardinality(T \cap U)
    BY <1>11, <1>15, FS_Union
  <2>2. Cardinality(T \cap U) = 0
    BY <1>16, FS_EmptySet
  <2> HIDE DEF row, U
  <2> QED
    BY <1>7, <1>11, <1>12, <1>13, <1>15, <2>1, <2>2
<1>18. Passed' = Before(job, depth, gate, pool \ {o})
  BY <1>7 DEF Passed
<1>19. T \cup U \subseteq Before(job, depth, gate, pool \ {o})
  <2>1. ASSUME NEW t \in T PROVE t \in Before(job, depth, gate, pool \ {o})
    BY <1>14 DEF Before
  <2>2. ASSUME NEW h \in H PROVE at(h) \in Before(job, depth, gate, pool \ {o})
    <3>1. at(h)[1][1] = depth /\ at(h)[1][2] = gate /\ at(h)[2][1] = o /\ at(h) \in U
      BY <2>2
    <3>2. at(h) \in Work(job)
      BY <1>10, <3>1
    <3> HIDE DEF at, U
    <3> QED
      BY <3>1, <3>2 DEF Before
  <2> QED
    BY <2>1, <2>2
<1>20. ASSUME ~prune, NEW w \in Before(job, depth, gate, pool \ {o}) PROVE w \in T \cup U
  <2>1. /\ w \in Work(job)
        /\ \/ w[1][1] < depth
           \/ w[1][1] = depth /\ (w[1][2] < gate \/ (w[1][2] = gate /\ w[2][1] \notin pool \ {o}))
    BY <1>20 DEF Before
  <2>2. CASE w \in Passed
    BY <1>13, <1>20, <2>2
  <2>3. CASE w \notin Passed
    <3>1. w[1][1] = depth /\ w[1][2] = gate /\ w[2][1] = o
      BY <2>1, <2>3 DEF Passed, Before
    <3>2. /\ w \in ((1 .. job.max_depth) \X (1 .. Len(GATES))) \X (Fns(job) \X Fns(job))
          /\ w[2][2] \in Reach(job, depth - 1) /\ (arity(g) = 1 => w[2][2] = o)
      BY <2>1, <3>1 DEF Work, g
    <3>3. w = at(w[2][2])
      BY <3>1, <3>2
    <3>4. w[2][2] \in H
      BY <1>4, <1>9, <1>20, <3>2
    <3> QED
      BY <3>3, <3>4
  <2> QED
    BY <2>2, <2>3
<1> HIDE DEF U, row
<1>21. T \cup U \in SUBSET Passed' /\ (~prune' => T \cup U = Passed')
  BY <1>7, <1>18, <1>19, <1>20
<1> QED
  BY <1>17, <1>21 DEF Counted

(* The other steps of the loops pass nothing they have not looked at.      *)
LEMMA LoopCounts ==
  ASSUME SearchInv, SearchInv', Counted, NextGate \/ EndLevel
  PROVE  Counted'
<1>1. PICK T \in SUBSET Passed : generated = Cardinality(T) /\ (~prune => T = Passed)
  BY DEF Counted
<1>2. job' = job /\ prune' = prune /\ generated' = generated /\ pool' = DOMAIN signals'
  BY DEF NextGate, EndLevel
<1>3. /\ job \in Jobs /\ depth \in 1 .. job.max_depth + 1 /\ gate \in 1 .. Len(GATES) + 1
      /\ job.max_depth \in Nat /\ Len(GATES) = 7
  <2>1. job \in Jobs /\ depth \in 1 .. job.max_depth + 1 /\ gate \in 1 .. Len(GATES) + 1
    BY DEF SearchInv, TypeInv
  <2> QED
    BY <2>1, JobsAssumption DEF GATES
<1>4. Passed' = Before(job, depth', gate', pool')
  BY <1>2 DEF Passed
<1>5. \A w \in Work(job) : /\ w[1][1] \in 1 .. job.max_depth /\ w[1][2] \in 1 .. 7
                           /\ GATES[w[1][2]] \in job.gates
                           /\ w[2][1] \in Reach(job, w[1][1] - 1)
  <2>1. Len(GATES) = 7
    BY <1>3
  <2> QED
    BY <2>1 DEF Work
<1>6. ~prune => DOMAIN signals' = Reach(job, depth' - 1)
  <2>1. Known'
    BY KeptReach, PTL
  <2> QED
    BY <1>2, <2>1 DEF Known
<1>7. CASE NextGate
  <2>1. /\ depth' = depth /\ gate' = gate + 1 /\ signals' = signals
        /\ (pool # {} /\ GATES[gate] \in job.gates) => Cut(cf(Operand))
    BY <1>7 DEF NextGate
  <2>2. ASSUME NEW w \in Passed PROVE w \in Passed'
    <3>1. /\ w \in Work(job)
          /\ \/ w[1][1] < depth
             \/ w[1][1] = depth /\ (w[1][2] < gate \/ (w[1][2] = gate /\ w[2][1] \notin pool))
      BY <2>2 DEF Passed, Before
    <3>2. w[1][2] <= gate => w[1][2] < gate + 1
      BY <1>3, <1>5, <3>1
    <3> QED
      BY <1>3, <1>4, <1>5, <2>1, <3>1, <3>2 DEF Before
  <2>3. ASSUME ~prune, NEW w \in Passed' PROVE w \in Passed
    <3>1. /\ w \in Work(job)
          /\ \/ w[1][1] < depth
             \/ w[1][1] = depth
                /\ (w[1][2] < gate + 1 \/ (w[1][2] = gate + 1 /\ w[2][1] \notin DOMAIN signals))
      BY <1>2, <1>4, <2>1, <2>3 DEF Before
    <3>2. CASE w[1][1] < depth
      BY <3>1, <3>2 DEF Passed, Before
    <3>3. CASE w[1][1] = depth /\ w[1][2] < gate + 1
      <4>1. w[1][2] < gate \/ w[1][2] = gate
        BY <1>3, <1>5, <3>1, <3>3
      <4>2. w[1][2] = gate => w[2][1] \notin pool
        <5>1. ~Cut(cf(Operand))
          BY <2>3 DEF Cut, Bound
        <5> QED
          BY <1>5, <2>1, <3>1, <5>1
      <4> QED
        BY <3>1, <3>3, <4>1, <4>2 DEF Passed, Before
    <3>4. CASE w[1][1] = depth /\ w[2][1] \notin DOMAIN signals
      BY <1>5, <1>6, <2>1, <2>3, <3>1, <3>4
    <3> QED
      BY <3>1, <3>2, <3>3, <3>4
  <2>4. T \in SUBSET Passed' /\ (~prune' => T = Passed')
    BY <1>1, <1>2, <2>2, <2>3
  <2> QED
    BY <1>1, <1>2, <2>4 DEF Counted
<1>8. CASE EndLevel
  <2>1. /\ depth' = depth + 1 /\ depth <= job.max_depth /\ gate = 8
        /\ gate' = IF depth < job.max_depth THEN 1 ELSE gate
    BY <1>3, <1>8 DEF EndLevel, Searching
  <2>2. ASSUME NEW w \in Passed PROVE w \in Passed'
    <3>1. w \in Work(job) /\ (w[1][1] < depth \/ w[1][1] = depth)
      BY <2>2 DEF Passed, Before
    <3>2. w[1][1] < depth + 1
      BY <1>3, <1>5, <3>1
    <3> QED
      BY <1>4, <2>1, <3>1, <3>2 DEF Before
  <2>3. ASSUME ~prune, NEW w \in Passed' PROVE w \in Passed
    <3>1. /\ w \in Work(job)
          /\ \/ w[1][1] < depth + 1
             \/ w[1][1] = depth + 1
                /\ (w[1][2] < gate' \/ (w[1][2] = gate' /\ w[2][1] \notin DOMAIN signals'))
      BY <1>2, <1>4, <2>1, <2>3 DEF Before
    <3>2. CASE w[1][1] < depth + 1
      <4>1. w[1][1] < depth \/ (w[1][1] = depth /\ w[1][2] < gate)
        BY <1>3, <1>5, <2>1, <3>1, <3>2
      <4> QED
        BY <3>1, <4>1 DEF Passed, Before
    <3>3. CASE w[1][1] = depth + 1
      <4>1. depth < job.max_depth /\ gate' = 1
        BY <1>3, <1>5, <2>1, <3>1, <3>3
      <4>2. ~(w[1][2] < 1)
        BY <1>5, <3>1
      <4>3. w[2][1] \notin DOMAIN signals'
        BY <1>3, <3>1, <3>3, <4>1, <4>2
      <4>4. depth' - 1 = w[1][1] - 1
        BY <2>1, <3>3
      <4>5. w[2][1] \in Reach(job, depth' - 1)
        BY <1>5, <3>1, <4>4
      <4> QED
        BY <1>6, <2>3, <4>3, <4>5
    <3> QED
      BY <3>1, <3>2, <3>3
  <2>4. T \in SUBSET Passed' /\ (~prune' => T = Passed')
    BY <1>1, <1>2, <2>2, <2>3
  <2> QED
    BY <1>1, <1>2, <2>4 DEF Counted
<1> QED
  BY <1>7, <1>8

(* A run that returns has passed everything; the next has passed nothing.  *)
LEMMA ReturnCounts ==
  ASSUME SearchInv, SearchInv', CountInv, Return
  PROVE  CountInv'
<1>1. PICK T \in SUBSET Passed : generated = Cardinality(T) /\ (~prune => T = Passed)
  BY DEF CountInv, Counted
<1>2. job' = job /\ depth > job.max_depth /\ Len(found) < 2 /\ found' = Append(found, Returned)
  BY DEF Return
<1>3. /\ job \in Jobs /\ depth = job.max_depth + 1 /\ job.max_depth \in Nat
  <2>1. job \in Jobs /\ depth \in 1 .. job.max_depth + 1
    BY DEF SearchInv, TypeInv
  <2> QED
    BY <1>2, <2>1, JobsAssumption
<1>4. Passed = Work(job)
  <2>1. \A w \in Work(job) : w[1][1] \in 1 .. job.max_depth
    BY DEF Work
  <2>2. \A w \in Work(job) : w[1][1] < depth
    BY <1>3, <2>1
  <2> QED
    BY <2>2 DEF Passed, Before
<1>5. /\ Returned.generated <= Cardinality(Work(job))
      /\ ~prune => Returned.generated = Cardinality(Work(job))
  <2>1. Returned.generated = generated
    BY DEF Returned
  <2> QED
    BY <1>1, <1>3, <1>4, <2>1, WorkFinite
<1>6. PICK S : found \in Seq(S)
  BY DEF SearchInv, FoundOptimal
<1>7. Len(found) \in Nat /\ (prune <=> Len(found) = 0) /\ (~prune => Len(found) = 1)
  <2>1. Len(found) \in Nat /\ (prune <=> Len(found) = 0)
    BY <1>6 DEF CountInv, FoundCounts
  <2>2. Len(found) = 0 \/ Len(found) = 1
    BY <1>2, <2>1
  <2>3. CASE prune
    BY <2>1, <2>3
  <2>4. CASE ~prune
    BY <2>1, <2>2, <2>4
  <2> QED
    BY <2>3, <2>4
<1>8. FoundCounts'
  <2>1. found' \in Seq(S \cup {Returned}) /\ Len(found') = Len(found) + 1
    BY <1>2, <1>6
  <2>2. prune' = FALSE
    <3>1. CASE prune
      BY <3>1 DEF Return
    <3>2. CASE ~prune
      <4>1. prune' = prune /\ prune \in BOOLEAN
        BY <3>2 DEF Return, SearchInv, TypeInv
      <4> QED
        BY <3>2, <4>1
    <3> QED
      BY <3>1, <3>2
  <2>3. ASSUME NEW i \in DOMAIN found'
        PROVE  \/ i = Len(found) + 1 /\ found'[i] = Returned
               \/ i \in DOMAIN found /\ found'[i] = found[i] /\ i <= Len(found)
    BY <1>2, <1>6, <2>1, <2>3
  <2>4. ASSUME NEW i \in DOMAIN found'
        PROVE  /\ found'[i].generated <= Cardinality(Work(job))
               /\ i = 2 => found'[i].generated = Cardinality(Work(job))
    <3>1. CASE i = Len(found) + 1 /\ found'[i] = Returned
      BY <1>5, <1>7, <3>1
    <3>2. CASE i \in DOMAIN found /\ found'[i] = found[i] /\ i <= Len(found)
      BY <3>2 DEF CountInv, FoundCounts
    <3> QED
      BY <2>3, <2>4, <3>1, <3>2
  <2>5. prune' <=> Len(found') = 0
    BY <1>7, <2>1, <2>2
  <2> QED
    BY <1>2, <2>4, <2>5 DEF FoundCounts
<1>9. Counted'
  <2>1. CASE prune
    <3>1. /\ prune' = FALSE /\ generated' = 0 /\ depth' = 1 /\ gate' = 1 /\ pool' = DOMAIN signals'
      BY <2>1 DEF Return
    <3>2. DOMAIN signals' = Reach(job, 0)
      <4>1. Known'
        BY KeptReach, PTL
      <4> QED
        BY <1>2, <3>1, <4>1 DEF Known
    <3>3. Passed' = Before(job, 1, 1, Reach(job, 0))
      BY <1>2, <3>1, <3>2 DEF Passed
    <3>4. \A w \in Work(job) : /\ w[1][1] \in 1 .. job.max_depth /\ w[1][2] \in 1 .. Len(GATES)
                               /\ w[2][1] \in Reach(job, w[1][1] - 1)
      BY DEF Work
    <3>5. ASSUME NEW w \in Before(job, 1, 1, Reach(job, 0)) PROVE FALSE
      <4>1. /\ w \in Work(job)
            /\ \/ w[1][1] < 1
               \/ w[1][1] = 1 /\ (w[1][2] < 1 \/ (w[1][2] = 1 /\ w[2][1] \notin Reach(job, 0)))
        BY <3>5 DEF Before
      <4>2. ~(w[1][1] < 1) /\ ~(w[1][2] < 1)
        BY <3>4, <4>1
      <4>3. w[1][1] = 1 => w[1][1] - 1 = 0
        OBVIOUS
      <4>4. w[1][1] = 1 => w[2][1] \in Reach(job, 0)
        BY <3>4, <4>1, <4>3
      <4> QED
        BY <4>1, <4>2, <4>4
    <3>6. Passed' = {}
      BY <3>3, <3>5
    <3>7. {} \in SUBSET Passed' /\ generated' = Cardinality({}) /\ (~prune' => {} = Passed')
      BY <3>1, <3>6, FS_EmptySet
    <3> QED
      BY <3>7 DEF Counted
  <2>2. CASE ~prune
    <3>1. UNCHANGED <<job, prune, depth, gate, pool, generated>>
      BY <2>2 DEF Return
    <3> QED
      BY <3>1 DEF CountInv, Counted, Passed
  <2> QED
    BY <2>1, <2>2
<1> QED
  BY <1>8, <1>9 DEF CountInv

(* Every step counts what it looks at.                                     *)
LEMMA CountsKeep ==
  ASSUME SearchInv, SearchInv', NetInv, CountInv, [Next]_searchVars
  PROVE  CountInv'
<1>1. PICK c : Standing(c)
  BY DEF NetInv
<1>2. ASSUME UNCHANGED <<job, prune, found>> PROVE FoundCounts'
  BY <1>2 DEF CountInv, FoundCounts
<1>3. CASE UnaryStep \/ BinaryStep
  <2>1. UNCHANGED <<job, prune, found>>
    BY <1>3 DEF UnaryStep, BinaryStep, Row
  <2> QED
    BY <1>1, <1>2, <1>3, <2>1, RowCounts DEF CountInv
<1>4. CASE NextGate \/ EndLevel
  <2>1. UNCHANGED <<job, prune, found>>
    BY <1>4 DEF NextGate, EndLevel
  <2> QED
    BY <1>2, <1>4, <2>1, LoopCounts DEF CountInv
<1>5. CASE Return
  BY <1>5, ReturnCounts
<1>6. CASE MuxStep \/ UNCHANGED searchVars
  <2>1. UNCHANGED <<job, prune, depth, gate, pool, generated, found>>
    BY <1>6 DEF MuxStep, searchVars
  <2> QED
    BY <1>2, <2>1 DEF CountInv, Counted, Passed
<1> QED
  BY <1>3, <1>4, <1>5, <1>6 DEF Next

(* What is found and kept is sound, and pruning never looks at more.       *)
LEMMA NetsAre ==
  ASSUME SearchInv, NetInv, CountInv
  PROVE  NetsSound
<1>1. PICK c : Standing(c)
  BY DEF NetInv
<1>2. /\ job \in Jobs /\ job.max_depth \in Nat /\ depth \in 1 .. job.max_depth + 1
  <2>1. job \in Jobs /\ depth \in 1 .. job.max_depth + 1
    BY DEF SearchInv, TypeInv
  <2> QED
    BY <2>1, JobsAssumption
<1>3. ASSUME NEW f \in DOMAIN signals PROVE Sound(signals, f)
  <2>1. depth - 1 \in 0 .. job.max_depth /\ job.max_depth \in 0 .. job.max_depth
        /\ depth - 1 <= job.max_depth
    BY <1>2
  <2>2. c[depth - 1] \subseteq c[job.max_depth]
    BY <1>1, <2>1 DEF Standing, Tower
  <2>3. signals[f] \in c[job.max_depth] /\ signals[f].fn = f
    BY <1>1, <2>2 DEF Standing
  <2>4. eval_net(signals[f]) = signals[f].fn /\ Energy(signals[f]) = signals[f].cost
    BY <1>1, <1>2, <2>3, TowerSound DEF Standing
  <2> QED
    BY <2>3, <2>4 DEF Sound
<1>4. ASSUME NEW f \in DOMAIN new PROVE Sound(new, f)
  <2>1. depth \in 1 .. job.max_depth
    <3>1. ~(depth > job.max_depth)
      BY <1>4 DEF SearchInv, NewEmpty
    <3> QED
      BY <1>2, <3>1
  <2>2. PICK d : d = depth
    OBVIOUS
  <2>3. PICK n : n = new[f]
    OBVIOUS
  <2>4. d \in 1 .. job.max_depth /\ \A x \in {n} : GateNet(x, c[d - 1])
    BY <1>1, <1>4, <2>1, <2>2, <2>3 DEF Standing
  <2>5. PICK e : e = [k \in 0 .. job.max_depth |-> IF k < d THEN c[k] ELSE c[k] \cup {n}]
    OBVIOUS
  <2>6. Tower(c)
    BY <1>1 DEF Standing
  <2>7. Tower(e)
    BY <1>2, <2>4, <2>5, <2>6, LevelTower
  <2>8. n \in e[job.max_depth]
    <3>1. job.max_depth \in 0 .. job.max_depth /\ ~(job.max_depth < d)
      BY <1>2, <2>4
    <3> QED
      BY <2>5, <3>1
  <2>9. eval_net(n) = n.fn /\ Energy(n) = n.cost
    BY <1>2, <2>7, <2>8, TowerSound
  <2>10. n.fn = f
    BY <1>1, <1>4, <2>3 DEF Standing
  <2> QED
    BY <2>3, <2>9, <2>10 DEF Sound
<1>5. ASSUME NEW i \in DOMAIN found, NEW k \in DOMAIN found[i].net
      PROVE  eval_net(found[i].net[k]) = job.target
  <2>1. PICK e : /\ Tower(e) /\ found[i].net[k] \in e[job.max_depth]
                 /\ found[i].net[k].fn = job.target
    BY <1>5 DEF NetInv, FoundNets
  <2>2. eval_net(found[i].net[k]) = found[i].net[k].fn
    BY <1>2, <2>1, TowerSound
  <2> QED
    BY <2>1, <2>2
<1>6. ASSUME Len(found) = 2 PROVE found[1].generated <= found[2].generated
  <2>1. PICK S : found \in Seq(S)
    BY DEF SearchInv, FoundOptimal
  <2>2. 1 \in DOMAIN found /\ 2 \in DOMAIN found
    BY <1>6, <2>1
  <2> QED
    BY <2>2 DEF CountInv, FoundCounts
<1> QED
  BY <1>3, <1>4, <1>5, <1>6 DEF NetsSound

(* Whatever the search keeps, and what it returns, computes the function   *)
(* it is kept for when it is rebuilt from the cells of the RTL, at the     *)
(* cost noted, and the run that prunes looks at no more placements than    *)
(* the run that does not: for every target, list of gates, depth and       *)
(* non-negative energies (synthesize, 228-300, and verify_net, 308-323).   *)
THEOREM NetsAreSound == Spec => []NetsSound
<1>1. Init => NetInv /\ CountInv
  <2> SUFFICES ASSUME Init PROVE NetInv /\ CountInv
    OBVIOUS
  <2>1. /\ job \in Jobs /\ prune = TRUE /\ signals = LeafNets(job) /\ depth = 1
        /\ new = [h \in {} |-> 0] /\ generated = 0 /\ found = <<>>
    BY DEF Init
  <2>2. \E c : Standing(c)
    <3>1. PICK c : /\ Tower(c)
                   /\ \A f \in Leaves(job) : LeafNets(job)[f] \in c[0] /\ LeafNets(job)[f].fn = f
      BY <2>1, LeafTower
    <3>2. DOMAIN signals = Leaves(job)
      BY <2>1 DEF LeafNets
    <3>3. Standing(c)
      BY <2>1, <3>1, <3>2 DEF Standing
    <3> QED
      BY <3>3
  <2>3. Counted
    <3>1. {} \in SUBSET Passed /\ generated = Cardinality({})
      BY <2>1, FS_EmptySet
    <3> QED
      BY <2>1, <3>1 DEF Counted
  <2>4. DOMAIN found = {} /\ Len(found) = 0
    BY <2>1
  <2>5. FoundNets /\ FoundCounts
    BY <2>1, <2>4 DEF FoundNets, FoundCounts
  <2> QED
    BY <2>2, <2>3, <2>5 DEF NetInv, CountInv
<1>2. SearchInv /\ SearchInv' /\ NetInv /\ CountInv /\ [Next]_searchVars => NetInv' /\ CountInv'
  BY NetsKeep, CountsKeep
<1>3. SearchInv /\ NetInv /\ CountInv => NetsSound
  BY NetsAre
<1> QED
  BY <1>1, <1>2, <1>3, SearchCorrect, PTL DEF Spec
=============================================================================
