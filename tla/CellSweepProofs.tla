--------------------------- MODULE CellSweepProofs --------------------------
(***************************************************************************)
(* What the two test benches sweep a few widths for, at every width and    *)
(* for every operand: each cell gives the exact result of its arithmetic,  *)
(* and the cells that are meant to be drop-ins for one another give the    *)
(* same trits.  The values of the single cells are in TritsProofs; here    *)
(* they are put together along the sweep.  The polar adder, a netlist of   *)
(* one digit, settles to the sum of its operands in every state of a chip  *)
(* with no defect.                                                         *)
(***************************************************************************)
EXTENDS CellSweep, TritsProofs

(* The operands are words of the width under test.                         *)
SweepType ==
  /\ NTRITS \in Widths
  /\ a \in Words(NTRITS) /\ b \in Words(NTRITS)
  /\ c \in Words(NTRITS) /\ d \in Words(NTRITS)

(* The widths at which Karatsuba is a drop-in.  Of an odd word the high    *)
(* half is as long as the sum of the halves is wide (tmul_opt.v:131-151),  *)
(* and a carry of that sum is lost.                                        *)
EvenWidths == \A n \in Widths : n % 2 = 0

(* The sweep drives words of that width and no others.                     *)
LEMMA SweepTyped == SweepSpec => []SweepType
<1>1. SweepInit => SweepType
  <2> SUFFICES ASSUME SweepInit PROVE SweepType
    OBVIOUS
  <2>1. NTRITS \in Widths /\ NTRITS \in Nat /\ Operands[NTRITS] \subseteq Words(NTRITS)
    BY SweepAssumption DEF SweepInit
  <2>2. Nulls(NTRITS) \in Words(NTRITS)
    BY <2>1, ValNulls
  <2> QED
    BY <2>1, <2>2 DEF SweepInit, SweepType
<1>2. SweepType /\ [Drive]_sweepVars => SweepType'
  <2> SUFFICES ASSUME SweepType, [Drive]_sweepVars PROVE SweepType'
    OBVIOUS
  <2>1. CASE Drive
    <3>1. Operands[NTRITS] \subseteq Words(NTRITS)
      BY SweepAssumption DEF SweepType
    <3> QED
      BY <2>1, <3>1 DEF Drive, SweepType
  <2>2. CASE UNCHANGED sweepVars
    BY <2>2 DEF sweepVars, SweepType
  <2> QED
    BY <2>1, <2>2
<1> QED
  BY <1>1, <1>2, PTL DEF SweepSpec

(* An even width is twice a half of at least one trit.                     *)
LEMMA HalfWidth ==
  ASSUME EvenWidths, SweepType
  PROVE  \E K \in Nat \ {0} : NTRITS = 2 * K
<1>1. NTRITS \in Nat \ {0, 1} /\ NTRITS % 2 = 0
  BY SweepAssumption DEF SweepType, EvenWidths
<1>2. NTRITS \div 2 \in Nat \ {0} /\ NTRITS = 2 * (NTRITS \div 2)
  BY <1>1
<1> QED
  BY <1>2

-----------------------------------------------------------------------------
(* The Karatsuba multiplier is a drop-in for the shift-add one, and the    *)
(* product is exact (tmul_opt.v:113-184), at every even width.             *)
THEOREM KaratsubaIsExact ==
  ASSUME EvenWidths PROVE SweepSpec => []KaratsubaExact
<1>1. SweepType => KaratsubaExact
  <2> SUFFICES ASSUME SweepType PROVE KaratsubaExact
    OBVIOUS
  <2>1. PICK K \in Nat \ {0} : NTRITS = 2 * K
    BY HalfWidth
  <2>2. /\ NTRITS \in Nat \ {0, 1} /\ NTRITS \in Nat \ {0}
        /\ a \in Words(NTRITS) /\ b \in Words(NTRITS)
    BY <2>1 DEF SweepType
  <2>3. HalvesFit(a) /\ HalvesFit(b)
    BY <2>1, <2>2, EvenHalves
  <2>4. Karatsuba(a, b) = Mul(a, b)
    BY <2>2, <2>3, KaratsubaDropIn
  <2>5. Val(Mul(a, b)) = Val(a) * Val(b)
    BY <2>2, ValMul
  <2> QED
    BY <2>4, <2>5 DEF KaratsubaExact
<1> QED
  BY <1>1, SweepTyped, PTL

(* The Eisenstein product by three products and by four: the same trits,   *)
(* and the lattice product (tmul_opt.v:186-272), at every width.           *)
THEOREM EisenIsExact == SweepSpec => []EisenExact
<1>1. SweepType => EisenExact
  <2> SUFFICES ASSUME SweepType PROVE EisenExact
    OBVIOUS
  <2>1. /\ NTRITS \in Nat \ {0}
        /\ a \in Words(NTRITS) /\ b \in Words(NTRITS) /\ c \in Words(NTRITS) /\ d \in Words(NTRITS)
    BY SweepAssumption DEF SweepType
  <2>2. LET p == EisenMul(a, b, c, d)
        IN  /\ Val(p.A) = EisenA(Val(a), Val(b), Val(c), Val(d))
            /\ Val(p.B) = EisenB(Val(a), Val(b), Val(c), Val(d))
            /\ p = EisenMulNaive(a, b, c, d)
    BY <2>1, EisenIs
  <2> QED
    BY <2>2 DEF EisenExact
<1> QED
  BY <1>1, SweepTyped, PTL

(* The norms by three products and by two, with either multiplier: the low *)
(* half of the norm, flagged exactly when it is not all of it              *)
(* (ternary_gates.v:130-167, tmul_opt.v:274-331), at every even width.     *)
THEOREM NormIsExact ==
  ASSUME EvenWidths PROVE SweepSpec => []NormExact
<1>1. SweepType => NormExact
  <2> SUFFICES ASSUME SweepType PROVE NormExact
    OBVIOUS
  <2>1. PICK K \in Nat \ {0} : NTRITS = 2 * K
    BY HalfWidth
  <2>2. NTRITS \in Nat \ {0} /\ a \in Words(NTRITS) /\ b \in Words(NTRITS)
    BY <2>1 DEF SweepType
  <2> DEFINE v == NormOf(Val(a), Val(b))
             Exact(cell) == Val(cell.n) = Residue(v, NTRITS) /\ (cell.ofit <=> ~Fits(v, NTRITS))
  <2>3. Exact(Norm(a, b))
    BY <2>2, NormIs
  <2>4. Exact(NormOpt(a, b, FALSE)) /\ Exact(NormOpt(a, b, TRUE))
    BY <2>1, <2>2, NormOptIs
  <2> QED
    BY <2>3, <2>4 DEF NormExact
<1> QED
  BY <1>1, SweepTyped, PTL

(* The split cell of the CPU and the cells of one scalar each give the     *)
(* same inner, outer and symmetric products, exactly (ga_ops.v:66-269), at *)
(* every width.                                                            *)
THEOREM GaIsExact == SweepSpec => []GaExact
<1>1. SweepType => GaExact
  <2> SUFFICES ASSUME SweepType PROVE GaExact
    OBVIOUS
  <2> DEFINE n == NTRITS
             R == 2 * NTRITS + 1
             W == 2 * NTRITS + 2
             g == GaSplit(a, b, c, d)
             dot   == TDot(a, b, c, d)
             wedge == TWedge(a, b, c, d)
             sym   == TSymDot(a, b, c, d)
             x == DotOf(Val(a), Val(b), Val(c), Val(d))
             y == WedgeOf(Val(a), Val(b), Val(c), Val(d))
             z == SymDotOf(Val(a), Val(b), Val(c), Val(d))
  <2>1. /\ n \in Nat \ {0}
        /\ a \in Words(n) /\ b \in Words(n) /\ c \in Words(n) /\ d \in Words(n)
    BY SweepAssumption DEF SweepType
  <2>2. R \in 0 .. W /\ W \in Nat
    BY <2>1
  <2>3. /\ g.dot \in Words(W) /\ Val(g.dot) = x /\ g.wedge \in Words(W) /\ Val(g.wedge) = y
        /\ g.symdot \in Words(W) /\ Val(g.symdot) = z
    BY <2>1, GaSplitIs
  <2>4. /\ dot \in Words(R) /\ Val(dot) = x /\ wedge \in Words(R) /\ Val(wedge) = y
        /\ sym \in Words(R) /\ Val(sym) = z
    BY <2>1, GaCellsAre
  <2>5. GaExact <=> /\ g.dot = Ext(dot, Len(g.dot)) /\ Val(g.dot) = x
                    /\ g.wedge = Ext(wedge, Len(g.dot)) /\ Val(g.wedge) = y
                    /\ g.symdot = Ext(sym, Len(g.dot)) /\ Val(g.symdot) = z
    BY DEF GaExact
  <2> HIDE DEF n, R, W, g, dot, wedge, sym, x, y, z
  <2>6. ASSUME NEW u \in Words(W), NEW w \in Words(R), Val(u) = Val(w)
        PROVE  u = Ext(w, W)
    <3>1. Ext(w, W) \in Words(W) /\ Val(Ext(w, W)) = Val(w)
      BY <2>2, WorthExt
    <3> QED
      BY <2>2, <2>6, <3>1, ValOne
  <2>7. Len(g.dot) = W
    BY <2>2, <2>3, LenOf
  <2> QED
    BY <2>3, <2>4, <2>5, <2>6, <2>7
<1> QED
  BY <1>1, SweepTyped, PTL
-----------------------------------------------------------------------------
(* The polar adder.                                                        *)

(* The gates of the netlist, by its five parts.                            *)
LEMMA NetlistIs ==
  /\ Len(pol_fa) = 34 /\ DOMAIN pol_fa = 1 .. 34
  /\ \A k \in 1 .. 10 : pol_fa[k] = Majority[k]
  /\ \A k \in 1 .. 12 : pol_fa[10 + k] = Exactly[k]
  /\ \A k \in 1 .. 2  : pol_fa[22 + k] = CarryRails[k]
  /\ \A k \in 1 .. 8  : pol_fa[24 + k] = SumRails[k]
  /\ \A k \in 1 .. 2  : pol_fa[32 + k] = Drivers[k]
<1> DEFINE S == {Majority[k] : k \in 1 .. 10} \cup {Exactly[k] : k \in 1 .. 12}
                  \cup {CarryRails[k] : k \in 1 .. 2} \cup {SumRails[k] : k \in 1 .. 8}
                  \cup {Drivers[k] : k \in 1 .. 2}
<1>1. Len(Majority) = 10 /\ Majority \in Seq(S)
  BY DEF Majority
<1>2. Len(Exactly) = 12 /\ Exactly \in Seq(S)
  BY DEF Exactly
<1>3. Len(CarryRails) = 2 /\ CarryRails \in Seq(S)
  BY DEF CarryRails
<1>4. Len(SumRails) = 8 /\ SumRails \in Seq(S)
  BY DEF SumRails
<1>5. Len(Drivers) = 2 /\ Drivers \in Seq(S)
  BY DEF Drivers
<1> DEFINE two   == Majority \o Exactly
           three == two \o CarryRails
           four  == three \o SumRails
<1> HIDE DEF S
<1>6. IsJoin(two, S, Majority, Exactly, 10, 12)
  BY <1>1, <1>2, Joined
<1>7. IsJoin(three, S, two, CarryRails, 22, 2)
  <2> HIDE DEF two
  <2>1. two \in Seq(S) /\ Len(two) = 22
    BY <1>6 DEF IsJoin
  <2> QED
    BY <1>3, <2>1, Joined
<1>8. IsJoin(four, S, three, SumRails, 24, 8)
  <2> HIDE DEF three
  <2>1. three \in Seq(S) /\ Len(three) = 24
    BY <1>7 DEF IsJoin
  <2> QED
    BY <1>4, <2>1, Joined
<1>9. IsJoin(pol_fa, S, four, Drivers, 32, 2)
  <2>1. pol_fa = four \o Drivers
    BY DEF pol_fa
  <2> HIDE DEF four
  <2>2. four \in Seq(S) /\ Len(four) = 32
    BY <1>8 DEF IsJoin
  <2> QED
    BY <1>5, <2>1, <2>2, Joined
<1> HIDE DEF two, three, four
<1> QED
  BY <1>6, <1>7, <1>8, <1>9 DEF IsJoin

(* Where each node is driven in the netlist.                               *)
Rank ==
  [pa |-> 0, na |-> 0, pb |-> 0, nb |-> 0, pc |-> 0, nc |-> 0,
   p21 |-> 1, n21 |-> 2, p22 |-> 3, n22 |-> 4, p23 |-> 5, n23 |-> 6, p2 |-> 7, n2 |-> 8,
   pz |-> 9, nz |-> 10, a3p |-> 11, a3n |-> 12, a3pb |-> 13, a3nb |-> 14, p2x |-> 15,
   n2x |-> 16, pany |-> 17, nany |-> 18, p2b |-> 19, n2b |-> 20, p1 |-> 21, n1 |-> 22,
   cop |-> 23, con |-> 24, t1 |-> 25, t2 |-> 26, t3 |-> 27, sp |-> 28, t4 |-> 29,
   t5 |-> 30, t6 |-> 31, sn |-> 32, gpsum |-> 33, gpcout |-> 34]

Kinds == {"inv", "and2", "and3", "or3", "nor3"}

(* Gate k of the netlist drives the node of rank k, from earlier ones.     *)
Ordered(k, g) ==
  /\ g.out \in DOMAIN Rank /\ Rank[g.out] = k /\ g.kind \in Kinds
  /\ \A i \in DOMAIN g.ins : g.ins[i] \in DOMAIN Rank /\ Rank[g.ins[i]] \in 0 .. k - 1

LEMMA InOrder == \A k \in 1 .. 34 : Ordered(k, pol_fa[k])
<1>1. \A k \in 1 .. 10 : Ordered(k, Majority[k])
  BY DEF Ordered, Majority, G, Rank, Kinds
<1>2. \A k \in 1 .. 12 : Ordered(10 + k, Exactly[k])
  BY DEF Ordered, Exactly, G, Rank, Kinds
<1>3. \A k \in 1 .. 2 : Ordered(22 + k, CarryRails[k])
  BY DEF Ordered, CarryRails, G, Rank, Kinds
<1>4. \A k \in 1 .. 8 : Ordered(24 + k, SumRails[k])
  BY DEF Ordered, SumRails, G, Rank, Kinds
<1>5. \A k \in 1 .. 2 : Ordered(32 + k, Drivers[k])
  BY DEF Ordered, Drivers, G, Rank, Kinds
<1>6. ASSUME NEW k \in 1 .. 34 PROVE Ordered(k, pol_fa[k])
  <2>1. CASE k \in 1 .. 10
    BY <1>1, <2>1, NetlistIs
  <2>2. CASE k \in 11 .. 22
    <3>1. k - 10 \in 1 .. 12 /\ k = 10 + (k - 10)
      BY <2>2
    <3> QED
      BY <1>2, <3>1, NetlistIs
  <2>3. CASE k \in 23 .. 24
    <3>1. k - 22 \in 1 .. 2 /\ k = 22 + (k - 22)
      BY <2>3
    <3> QED
      BY <1>3, <3>1, NetlistIs
  <2>4. CASE k \in 25 .. 32
    <3>1. k - 24 \in 1 .. 8 /\ k = 24 + (k - 24)
      BY <2>4
    <3> QED
      BY <1>4, <3>1, NetlistIs
  <2>5. CASE k \in 33 .. 34
    <3>1. k - 32 \in 1 .. 2 /\ k = 32 + (k - 32)
      BY <2>5
    <3> QED
      BY <1>5, <3>1, NetlistIs
  <2> QED
    BY <2>1, <2>2, <2>3, <2>4, <2>5
<1> QED
  BY <1>6

(* The nodes by the recursion of Settled, one gate a step.                 *)
Driven(k, held, nodes) ==
  [nodes EXCEPT ![pol_fa[k].out] =
     IF pol_fa[k].out \in DOMAIN held THEN held[pol_fa[k].out]
     ELSE Gate(pol_fa[k].kind, [i \in DOMAIN pol_fa[k].ins |-> nodes[pol_fa[k].ins[i]]])]

SettleStep(t, held, f) ==
  [k \in 0 .. Len(pol_fa) |-> IF k = 0 THEN t_recv2(t) ELSE Driven(k, held, f[k - 1])]

(* What gate k makes of the nodes it is given.                             *)
Output(k, nodes) ==
  Gate(pol_fa[k].kind, [i \in DOMAIN pol_fa[k].ins |-> nodes[pol_fa[k].ins[i]]])

LEMMA DrivenIs == \A k : \A nodes : Driven(k, Healthy, nodes) = [nodes EXCEPT ![pol_fa[k].out] = Output(k, nodes)]
<1>1. DOMAIN Healthy = {}
  BY DEF Healthy
<1> QED
  BY <1>1 DEF Driven, Output

(* A gate is a Boolean function.                                           *)
LEMMA GateBoolean == \A kind \in Kinds : \A v : Gate(kind, v) \in BOOLEAN
  BY DEF Gate, Kinds

(* The nodes that are named are the nodes that are driven.                 *)
LEMMA NamesRanked == NodeNames = DOMAIN Rank /\ \A node \in NodeNames : Rank[node] \in Nat
<1>1. ASSUME NEW k \in DOMAIN pol_fa PROVE pol_fa[k].out \in DOMAIN Rank
  BY NetlistIs, InOrder DEF Ordered
<1>2. {"pa", "na", "pb", "nb", "pc", "nc"} \subseteq DOMAIN Rank
  BY DEF Rank
<1>3. ASSUME NEW node \in DOMAIN Rank, node \notin {"pa", "na", "pb", "nb", "pc", "nc"}
      PROVE  node \in NodeNames
  <2>1. Rank[node] \in 1 .. 34
    BY SMTT(20), <1>3 DEF Rank
  <2>2. pol_fa[Rank[node]].out \in DOMAIN Rank /\ Rank[pol_fa[Rank[node]].out] = Rank[node]
    BY <2>1, InOrder DEF Ordered
  <2>3. pol_fa[Rank[node]].out = node
    BY <1>3, <2>1, <2>2 DEF Rank
  <2> QED
    BY <2>1, <2>3, NetlistIs DEF NodeNames
<1>4. NodeNames = DOMAIN Rank
  BY <1>1, <1>2, <1>3 DEF NodeNames
<1>5. \A node \in DOMAIN Rank : Rank[node] \in Nat
  BY DEF Rank
<1> QED
  BY <1>4, <1>5

(* Where nothing is held every node settles at what its gate makes of the  *)
(* others, and an input rail at what the receiver drives.                  *)
LEMMA SettledIs ==
  ASSUME NEW t
  PROVE  /\ \A k \in 1 .. 34 : Settled(t, Healthy)[pol_fa[k].out] = Output(k, Settled(t, Healthy))
         /\ \A node \in NodeNames : Rank[node] = 0 => Settled(t, Healthy)[node] = t_recv2(t)[node]
<1> DEFINE S == [NodeNames -> BOOLEAN]
           s == CHOOSE f : f = SettleStep(t, Healthy, f)
           g == [x \in (1 .. 34) \X S |-> Driven(x[1], Healthy, x[2])]
           base == t_recv2(t)
<1>1. base \in S
  <2>1. \A u : Push(u) \in BOOLEAN /\ Pull(u) \in BOOLEAN
    BY DEF Push, Pull
  <2> QED
    BY <2>1 DEF t_recv2
<1>2. g \in [(1 .. 34) \X S -> S]
  <2>1. ASSUME NEW k \in 1 .. 34, NEW nodes \in S
        PROVE  Driven(k, Healthy, nodes) \in S
    <3>1. Output(k, nodes) \in BOOLEAN
      BY InOrder, GateBoolean DEF Output, Ordered
    <3> QED
      BY <3>1, DrivenIs
  <2> QED
    BY <2>1
<1> HIDE DEF base
<1>3. PICK h \in [0 .. 34 -> S] : h[0] = base /\ \A k \in 1 .. 34 : h[k] = g[<<k, h[k - 1]>>]
  <2> HIDE DEF g, S
  <2>1. Recurses(34, S, base, g)
    BY <1>1, <1>2, Recursion
  <2> QED
    BY <2>1 DEF Recurses
<1>4. ASSUME NEW k \in 1 .. 34
      PROVE  h[k] = Driven(k, Healthy, h[k - 1]) /\ h[k] \in S /\ h[k - 1] \in S
  <2>1. k - 1 \in 0 .. 34 /\ k \in 0 .. 34
    OBVIOUS
  <2> HIDE DEF S
  <2>2. <<k, h[k - 1]>> \in (1 .. 34) \X S
    BY <1>3, <2>1
  <2>3. g[<<k, h[k - 1]>>] = Driven(k, Healthy, h[k - 1])
    BY <2>2
  <2> HIDE DEF g
  <2> QED
    BY <1>3, <2>1, <2>3
<1> HIDE DEF g
<1>5. h = SettleStep(t, Healthy, h)
  <2>1. \A k \in 0 .. 34 : h[k] = IF k = 0 THEN t_recv2(t) ELSE Driven(k, Healthy, h[k - 1])
    BY <1>3, <1>4 DEF base
  <2> HIDE DEF S
  <2> QED
    BY <2>1, <1>3, NetlistIs DEF SettleStep
<1>6. s = SettleStep(t, Healthy, s)
  BY <1>5
<1>7. Settled(t, Healthy) = s[34]
  <2>1. Settled(t, Healthy) = s[Len(pol_fa)]
    BY Zenon DEF Settled, SettleStep, Driven
  <2> QED
    BY <2>1, NetlistIs
<1> HIDE DEF s
<1>8. s[34] = h[34]
  <2>1. s[0] = base /\ \A k \in 1 .. 34 : s[k] = Driven(k, Healthy, s[k - 1])
    BY <1>6, NetlistIs DEF SettleStep, base
  <2> DEFINE A == {k \in 0 .. 34 : s[k] = h[k]}
  <2>2. 0 \in A /\ \A k \in 1 .. 34 : k - 1 \in A => k \in A
    BY SMTT(20), <1>3, <1>4, <2>1
  <2>3. \A k \in 0 .. 34 : k \in A
    <3> HIDE DEF A
    <3> QED
      BY <2>2, Climb
  <2> QED
    BY <2>3
<1>9. ASSUME NEW m \in 1 .. 34
      PROVE  /\ pol_fa[m].out \in NodeNames /\ Rank[pol_fa[m].out] = m
             /\ h[m][pol_fa[m].out] = Output(m, h[m - 1])
             /\ \A node \in NodeNames : node # pol_fa[m].out => h[m][node] = h[m - 1][node]
  <2>1. pol_fa[m].out \in NodeNames /\ Rank[pol_fa[m].out] = m
    <3>1. Ordered(m, pol_fa[m])
      BY InOrder
    <3> QED
      BY <3>1, NamesRanked DEF Ordered
  <2>2. h[m] = [h[m - 1] EXCEPT ![pol_fa[m].out] = Output(m, h[m - 1])] /\ DOMAIN h[m - 1] = NodeNames
    BY <1>4, DrivenIs
  <2> QED
    BY <2>1, <2>2
<1> HIDE DEF S
(* A node keeps its value from its own gate on.                            *)
<1> DEFINE Kept == {m \in 0 .. 34 : \A node \in NodeNames :
                      Rank[node] <= m => h[m][node] = h[Rank[node]][node]}
<1>10. \A m \in 0 .. 34 : m \in Kept
  <2>1. 0 \in Kept
    <3>1. 0 \in 0 .. 34 /\ \A node \in NodeNames : Rank[node] \in Nat
      BY NamesRanked
    <3>2. \A node \in NodeNames : Rank[node] <= 0 => Rank[node] = 0
      BY <3>1
    <3> QED
      BY <3>1, <3>2
  <2>2. ASSUME NEW m \in 1 .. 34, m - 1 \in Kept PROVE m \in Kept
    <3> SUFFICES ASSUME NEW node \in NodeNames, Rank[node] <= m PROVE h[m][node] = h[Rank[node]][node]
      OBVIOUS
    <3>1. Rank[node] \in Nat
      BY NamesRanked
    <3>2. CASE Rank[node] = m
      BY <3>2
    <3>3. CASE Rank[node] # m
      <4>1. node # pol_fa[m].out
        BY <1>9, <3>3
      <4>2. h[m][node] = h[m - 1][node]
        BY <1>9, <4>1
      <4>3. Rank[node] <= m - 1
        BY <3>1, <3>3
      <4> QED
        BY <2>2, <4>2, <4>3
    <3> QED
      BY <3>2, <3>3
  <2> HIDE DEF Kept
  <2> QED
    BY <2>1, <2>2, Climb
<1>11. ASSUME NEW k \in 1 .. 34 PROVE h[34][pol_fa[k].out] = Output(k, h[34])
  <2> DEFINE o == pol_fa[k].out
             in == pol_fa[k].ins
  <2>1. o \in NodeNames /\ Rank[o] = k
    BY <1>9
  <2>2. h[34][o] = h[k][o]
    BY <1>10, <2>1
  <2>3. h[k][o] = Output(k, h[k - 1])
    BY <1>9
  <2>4. \A node \in NodeNames : Rank[node] \in 0 .. k - 1 => h[k - 1][node] = h[34][node]
    <3>1. k - 1 \in 0 .. 34 /\ 34 \in 0 .. 34 /\ k - 1 <= 34
      OBVIOUS
    <3>2. k - 1 \in Kept /\ 34 \in Kept
      <4> HIDE DEF Kept
      <4> QED
        BY <1>10, <3>1
    <3> SUFFICES ASSUME NEW node \in NodeNames, Rank[node] \in 0 .. k - 1
                 PROVE  h[k - 1][node] = h[34][node]
      OBVIOUS
    <3>3. Rank[node] <= k - 1 /\ Rank[node] <= 34
      OBVIOUS
    <3>4. h[k - 1][node] = h[Rank[node]][node] /\ h[34][node] = h[Rank[node]][node]
      BY <3>2, <3>3
    <3> QED
      BY <3>4
  <2>5. \A i \in DOMAIN in : in[i] \in NodeNames /\ Rank[in[i]] \in 0 .. k - 1
    <3>1. Ordered(k, pol_fa[k])
      BY InOrder
    <3> QED
      BY <3>1, NamesRanked DEF Ordered
  <2> HIDE DEF in
  <2>6. [i \in DOMAIN in |-> h[k - 1][in[i]]] = [i \in DOMAIN in |-> h[34][in[i]]]
    BY <2>4, <2>5
  <2>7. Output(k, h[k - 1]) = Output(k, h[34])
    BY <2>6 DEF Output, in
  <2> HIDE DEF o
  <2> QED
    BY <2>2, <2>3, <2>7 DEF o
<1>12. ASSUME NEW node \in NodeNames, Rank[node] = 0 PROVE h[34][node] = base[node]
  BY <1>3, <1>10, <1>12
<1> QED
  BY <1>7, <1>8, <1>11, <1>12 DEF base

(* What each gate of a part says of the settled nodes.                     *)
Gated(f, g) == f[g.out] = Gate(g.kind, [i \in DOMAIN g.ins |-> f[g.ins[i]]])

LEMMA AllGated ==
  ASSUME NEW f, \A k \in 1 .. 34 : f[pol_fa[k].out] = Output(k, f)
  PROVE  /\ \A k \in 1 .. 10 : Gated(f, Majority[k])
         /\ \A k \in 1 .. 12 : Gated(f, Exactly[k])
         /\ \A k \in 1 .. 2  : Gated(f, CarryRails[k])
         /\ \A k \in 1 .. 8  : Gated(f, SumRails[k])
         /\ \A k \in 1 .. 2  : Gated(f, Drivers[k])
<1>1. \A k \in 1 .. 34 : Gated(f, pol_fa[k])
  BY Zenon DEF Output, Gated
<1>2. ASSUME NEW k \in 1 .. 12 PROVE Gated(f, Exactly[k])
  <2>1. 10 + k \in 1 .. 34
    OBVIOUS
  <2> QED
    BY <1>1, <2>1, NetlistIs
<1>3. ASSUME NEW k \in 1 .. 2 PROVE Gated(f, CarryRails[k]) /\ Gated(f, Drivers[k])
  <2>1. 22 + k \in 1 .. 34 /\ 32 + k \in 1 .. 34
    OBVIOUS
  <2> QED
    BY <1>1, <2>1, NetlistIs
<1>4. ASSUME NEW k \in 1 .. 8 PROVE Gated(f, SumRails[k])
  <2>1. 24 + k \in 1 .. 34
    OBVIOUS
  <2> QED
    BY <1>1, <2>1, NetlistIs
<1>5. ASSUME NEW k \in 1 .. 10 PROVE Gated(f, Majority[k])
  <2>1. k \in 1 .. 34
    OBVIOUS
  <2> QED
    BY <1>1, <2>1, NetlistIs
<1> QED
  BY <1>2, <1>3, <1>4, <1>5

(* What a gate of each kind says.                                          *)
LEMMA InvNode ==
  ASSUME NEW f, NEW o, NEW x, Gated(f, G(o, "inv", <<x>>))
  PROVE  f[o] <=> ~ f[x]
<1>1. f[o] = Gate("inv", [i \in DOMAIN <<x>> |-> f[<<x>>[i]]])
  BY DEF Gated, G
<1>2. [i \in DOMAIN <<x>> |-> f[<<x>>[i]]][1] = f[x]
  OBVIOUS
<1>3. \A v : Gate("inv", v) = ~ v[1]
  BY DEF Gate
<1> QED
  BY <1>1, <1>2, <1>3

LEMMA And2Node ==
  ASSUME NEW f, NEW o, NEW x, NEW y, Gated(f, G(o, "and2", <<x, y>>))
  PROVE  f[o] <=> f[x] /\ f[y]
<1> DEFINE v == [i \in DOMAIN <<x, y>> |-> f[<<x, y>>[i]]]
<1>1. f[o] = Gate("and2", v)
  BY DEF Gated, G
<1>2. v[1] = f[x] /\ v[2] = f[y]
  OBVIOUS
<1>3. Gate("and2", v) = (v[1] /\ v[2])
  BY DEF Gate
<1> HIDE DEF v
<1> QED
  BY <1>1, <1>2, <1>3

LEMMA And3Node ==
  ASSUME NEW f, NEW o, NEW x, NEW y, NEW z, Gated(f, G(o, "and3", <<x, y, z>>))
  PROVE  f[o] <=> f[x] /\ f[y] /\ f[z]
<1> DEFINE v == [i \in DOMAIN <<x, y, z>> |-> f[<<x, y, z>>[i]]]
<1>1. f[o] = Gate("and3", v)
  BY DEF Gated, G
<1>2. v[1] = f[x] /\ v[2] = f[y] /\ v[3] = f[z]
  OBVIOUS
<1>3. Gate("and3", v) = (v[1] /\ v[2] /\ v[3])
  BY DEF Gate
<1> HIDE DEF v
<1> QED
  BY <1>1, <1>2, <1>3

LEMMA Or3Node ==
  ASSUME NEW f, NEW o, NEW x, NEW y, NEW z, Gated(f, G(o, "or3", <<x, y, z>>))
  PROVE  f[o] <=> f[x] \/ f[y] \/ f[z]
<1> DEFINE v == [i \in DOMAIN <<x, y, z>> |-> f[<<x, y, z>>[i]]]
<1>1. f[o] = Gate("or3", v)
  BY DEF Gated, G
<1>2. v[1] = f[x] /\ v[2] = f[y] /\ v[3] = f[z]
  OBVIOUS
<1>3. Gate("or3", v) = (v[1] \/ v[2] \/ v[3])
  BY DEF Gate
<1> HIDE DEF v
<1> QED
  BY <1>1, <1>2, <1>3

LEMMA Nor3Node ==
  ASSUME NEW f, NEW o, NEW x, NEW y, NEW z, Gated(f, G(o, "nor3", <<x, y, z>>))
  PROVE  f[o] <=> ~ (f[x] \/ f[y] \/ f[z])
<1> DEFINE v == [i \in DOMAIN <<x, y, z>> |-> f[<<x, y, z>>[i]]]
<1>1. f[o] = Gate("nor3", v)
  BY DEF Gated, G
<1>2. v[1] = f[x] /\ v[2] = f[y] /\ v[3] = f[z]
  OBVIOUS
<1>3. Gate("nor3", v) = (~ (v[1] \/ v[2] \/ v[3]))
  BY DEF Gate
<1> HIDE DEF v
<1> QED
  BY <1>1, <1>2, <1>3

LEMMA MajorityNodes ==
  ASSUME NEW f, \A k \in 1 .. 10 : Gated(f, Majority[k])
  PROVE  /\ f.p21 <=> f.pa /\ f.pb
         /\ f.n21 <=> f.na /\ f.nb
         /\ f.p22 <=> f.pa /\ f.pc
         /\ f.n22 <=> f.na /\ f.nc
         /\ f.p23 <=> f.pb /\ f.pc
         /\ f.n23 <=> f.nb /\ f.nc
         /\ f.p2 <=> f.p21 \/ f.p22 \/ f.p23
         /\ f.n2 <=> f.n21 \/ f.n22 \/ f.n23
         /\ f.pz <=> ~ (f.pa \/ f.pb \/ f.pc)
         /\ f.nz <=> ~ (f.na \/ f.nb \/ f.nc)
<1>1. /\ f.p21 <=> f.pa /\ f.pb
      /\ f.n21 <=> f.na /\ f.nb
      /\ f.p22 <=> f.pa /\ f.pc
      /\ f.n22 <=> f.na /\ f.nc
      /\ f.p23 <=> f.pb /\ f.pc
      /\ f.n23 <=> f.nb /\ f.nc
  <2>1. /\ Gated(f, G("p21", "and2", <<"pa", "pb">>))
        /\ Gated(f, G("n21", "and2", <<"na", "nb">>))
        /\ Gated(f, G("p22", "and2", <<"pa", "pc">>))
        /\ Gated(f, G("n22", "and2", <<"na", "nc">>))
        /\ Gated(f, G("p23", "and2", <<"pb", "pc">>))
        /\ Gated(f, G("n23", "and2", <<"nb", "nc">>))
    BY DEF Majority
  <2> QED
    BY <2>1, And2Node
<1>2. /\ f.p2 <=> f.p21 \/ f.p22 \/ f.p23
      /\ f.n2 <=> f.n21 \/ f.n22 \/ f.n23
  <2>1. /\ Gated(f, G("p2", "or3", <<"p21", "p22", "p23">>))
        /\ Gated(f, G("n2", "or3", <<"n21", "n22", "n23">>))
    BY DEF Majority
  <2> QED
    BY <2>1, Or3Node
<1>3. /\ f.pz <=> ~ (f.pa \/ f.pb \/ f.pc)
      /\ f.nz <=> ~ (f.na \/ f.nb \/ f.nc)
  <2>1. /\ Gated(f, G("pz", "nor3", <<"pa", "pb", "pc">>))
        /\ Gated(f, G("nz", "nor3", <<"na", "nb", "nc">>))
    BY DEF Majority
  <2> QED
    BY <2>1, Nor3Node
<1> QED
  BY <1>1, <1>2, <1>3

LEMMA ExactlyNodes ==
  ASSUME NEW f, \A k \in 1 .. 12 : Gated(f, Exactly[k])
  PROVE  /\ f.a3p <=> f.pa /\ f.pb /\ f.pc
         /\ f.a3n <=> f.na /\ f.nb /\ f.nc
         /\ f.a3pb <=> ~ f.a3p
         /\ f.a3nb <=> ~ f.a3n
         /\ f.p2x <=> f.p2 /\ f.a3pb
         /\ f.n2x <=> f.n2 /\ f.a3nb
         /\ f.pany <=> f.pa \/ f.pb \/ f.pc
         /\ f.nany <=> f.na \/ f.nb \/ f.nc
         /\ f.p2b <=> ~ f.p2
         /\ f.n2b <=> ~ f.n2
         /\ f.p1 <=> f.pany /\ f.p2b
         /\ f.n1 <=> f.nany /\ f.n2b
<1>1. /\ f.a3p <=> f.pa /\ f.pb /\ f.pc
      /\ f.a3n <=> f.na /\ f.nb /\ f.nc
  <2>1. /\ Gated(f, G("a3p", "and3", <<"pa", "pb", "pc">>))
        /\ Gated(f, G("a3n", "and3", <<"na", "nb", "nc">>))
    BY DEF Exactly
  <2> QED
    BY <2>1, And3Node
<1>2. /\ f.a3pb <=> ~ f.a3p
      /\ f.a3nb <=> ~ f.a3n
      /\ f.p2b <=> ~ f.p2
      /\ f.n2b <=> ~ f.n2
  <2>1. /\ Gated(f, G("a3pb", "inv", <<"a3p">>))
        /\ Gated(f, G("a3nb", "inv", <<"a3n">>))
        /\ Gated(f, G("p2b", "inv", <<"p2">>))
        /\ Gated(f, G("n2b", "inv", <<"n2">>))
    BY DEF Exactly
  <2> QED
    BY <2>1, InvNode
<1>3. /\ f.p2x <=> f.p2 /\ f.a3pb
      /\ f.n2x <=> f.n2 /\ f.a3nb
      /\ f.p1 <=> f.pany /\ f.p2b
      /\ f.n1 <=> f.nany /\ f.n2b
  <2>1. /\ Gated(f, G("p2x", "and2", <<"p2", "a3pb">>))
        /\ Gated(f, G("n2x", "and2", <<"n2", "a3nb">>))
        /\ Gated(f, G("p1", "and2", <<"pany", "p2b">>))
        /\ Gated(f, G("n1", "and2", <<"nany", "n2b">>))
    BY DEF Exactly
  <2> QED
    BY <2>1, And2Node
<1>4. /\ f.pany <=> f.pa \/ f.pb \/ f.pc
      /\ f.nany <=> f.na \/ f.nb \/ f.nc
  <2>1. /\ Gated(f, G("pany", "or3", <<"pa", "pb", "pc">>))
        /\ Gated(f, G("nany", "or3", <<"na", "nb", "nc">>))
    BY DEF Exactly
  <2> QED
    BY <2>1, Or3Node
<1> QED
  BY <1>1, <1>2, <1>3, <1>4

LEMMA CarryRailsNodes ==
  ASSUME NEW f, \A k \in 1 .. 2 : Gated(f, CarryRails[k])
  PROVE  /\ f.cop <=> f.nz /\ f.p2
         /\ f.con <=> f.pz /\ f.n2
<1>1. /\ f.cop <=> f.nz /\ f.p2
      /\ f.con <=> f.pz /\ f.n2
  <2>1. /\ Gated(f, G("cop", "and2", <<"nz", "p2">>))
        /\ Gated(f, G("con", "and2", <<"pz", "n2">>))
    BY DEF CarryRails
  <2> QED
    BY <2>1, And2Node
<1> QED
  BY <1>1

LEMMA SumRailsNodes ==
  ASSUME NEW f, \A k \in 1 .. 8 : Gated(f, SumRails[k])
  PROVE  /\ f.t1 <=> f.p1 /\ f.nz
         /\ f.t2 <=> f.p2x /\ f.n1
         /\ f.t3 <=> f.pz /\ f.n2x
         /\ f.sp <=> f.t1 \/ f.t2 \/ f.t3
         /\ f.t4 <=> f.n1 /\ f.pz
         /\ f.t5 <=> f.n2x /\ f.p1
         /\ f.t6 <=> f.nz /\ f.p2x
         /\ f.sn <=> f.t4 \/ f.t5 \/ f.t6
<1>1. /\ f.t1 <=> f.p1 /\ f.nz
      /\ f.t2 <=> f.p2x /\ f.n1
      /\ f.t3 <=> f.pz /\ f.n2x
      /\ f.t4 <=> f.n1 /\ f.pz
      /\ f.t5 <=> f.n2x /\ f.p1
      /\ f.t6 <=> f.nz /\ f.p2x
  <2>1. /\ Gated(f, G("t1", "and2", <<"p1", "nz">>))
        /\ Gated(f, G("t2", "and2", <<"p2x", "n1">>))
        /\ Gated(f, G("t3", "and2", <<"pz", "n2x">>))
        /\ Gated(f, G("t4", "and2", <<"n1", "pz">>))
        /\ Gated(f, G("t5", "and2", <<"n2x", "p1">>))
        /\ Gated(f, G("t6", "and2", <<"nz", "p2x">>))
    BY DEF SumRails
  <2> QED
    BY <2>1, And2Node
<1>2. /\ f.sp <=> f.t1 \/ f.t2 \/ f.t3
      /\ f.sn <=> f.t4 \/ f.t5 \/ f.t6
  <2>1. /\ Gated(f, G("sp", "or3", <<"t1", "t2", "t3">>))
        /\ Gated(f, G("sn", "or3", <<"t4", "t5", "t6">>))
    BY DEF SumRails
  <2> QED
    BY <2>1, Or3Node
<1> QED
  BY <1>1, <1>2

LEMMA DriversNodes ==
  ASSUME NEW f, \A k \in 1 .. 2 : Gated(f, Drivers[k])
  PROVE  /\ f.gpsum <=> ~ f.sp
         /\ f.gpcout <=> ~ f.cop
<1>1. /\ f.gpsum <=> ~ f.sp
      /\ f.gpcout <=> ~ f.cop
  <2>1. /\ Gated(f, G("gpsum", "inv", <<"sp">>))
        /\ Gated(f, G("gpcout", "inv", <<"cop">>))
    BY DEF Drivers
  <2> QED
    BY <2>1, InvNode
<1> QED
  BY <1>1

(* So each wire of the polar adder is the trit of tadd1, and neither       *)
(* driver ever has both transistors on.                                    *)
LEMMA PolarIsAdder ==
  ASSUME NEW r \in Balanced, NEW s \in Balanced, NEW u \in Balanced
  PROVE  PolarFa[<<r, s, u>>] = [sum |-> Sum1[<<r, s, u>>], carry |-> Carry1[<<r, s, u>>]]
<1> DEFINE t == <<r, s, u>>
           f == Settled(t, Healthy)
<1>1. /\ (f.pa <=> Push(r)) /\ (f.pb <=> Push(s)) /\ (f.pc <=> Push(u))
      /\ (f.na <=> Pull(r)) /\ (f.nb <=> Pull(s)) /\ (f.nc <=> Pull(u))
  <2>1. \A node \in {"pa", "na", "pb", "nb", "pc", "nc"} : node \in NodeNames /\ Rank[node] = 0
    BY NamesRanked DEF Rank
  <2>2. \A node \in {"pa", "na", "pb", "nb", "pc", "nc"} : f[node] = t_recv2(t)[node]
    <3> HIDE DEF t
    <3> QED
      BY <2>1, SettledIs
  <2>3. /\ t_recv2(t)["pa"] = Push(r) /\ t_recv2(t)["pb"] = Push(s) /\ t_recv2(t)["pc"] = Push(u)
        /\ t_recv2(t)["na"] = Pull(r) /\ t_recv2(t)["nb"] = Pull(s) /\ t_recv2(t)["nc"] = Pull(u)
    BY <2>1 DEF t_recv2
  <2> HIDE DEF f, t
  <2> QED
    BY <2>2, <2>3
<1>2. /\ \A k \in 1 .. 10 : Gated(f, Majority[k])
      /\ \A k \in 1 .. 12 : Gated(f, Exactly[k])
      /\ \A k \in 1 .. 2  : Gated(f, CarryRails[k])
      /\ \A k \in 1 .. 8  : Gated(f, SumRails[k])
      /\ \A k \in 1 .. 2  : Gated(f, Drivers[k])
  <2>1. \A k \in 1 .. 34 : f[pol_fa[k].out] = Output(k, f)
    <3> HIDE DEF t
    <3> QED
      BY SettledIs
  <2> HIDE DEF f
  <2> QED
    BY <2>1, AllGated
<1> HIDE DEF f
<1>3. /\ f.p2 <=> (f.pa /\ f.pb) \/ (f.pa /\ f.pc) \/ (f.pb /\ f.pc)
      /\ f.n2 <=> (f.na /\ f.nb) \/ (f.na /\ f.nc) \/ (f.nb /\ f.nc)
      /\ f.pz <=> ~ (f.pa \/ f.pb \/ f.pc)
      /\ f.nz <=> ~ (f.na \/ f.nb \/ f.nc)
  BY <1>2, MajorityNodes
<1>4. /\ f.p2x <=> f.p2 /\ ~ (f.pa /\ f.pb /\ f.pc)
      /\ f.n2x <=> f.n2 /\ ~ (f.na /\ f.nb /\ f.nc)
      /\ f.p1 <=> (f.pa \/ f.pb \/ f.pc) /\ ~ f.p2
      /\ f.n1 <=> (f.na \/ f.nb \/ f.nc) /\ ~ f.n2
  BY <1>2, ExactlyNodes
<1>5. /\ f.gpcout <=> ~ (f.nz /\ f.p2)
      /\ f.con <=> f.pz /\ f.n2
      /\ f.gpsum <=> ~ ((f.p1 /\ f.nz) \/ (f.p2x /\ f.n1) \/ (f.pz /\ f.n2x))
      /\ f.sn <=> (f.n1 /\ f.pz) \/ (f.n2x /\ f.p1) \/ (f.nz /\ f.p2x)
  BY <1>2, CarryRailsNodes, SumRailsNodes, DriversNodes
<1>6. PolarFa[t] = [sum |-> driver(f.gpsum, f.sn), carry |-> driver(f.gpcout, f.con)]
  <2>1. t \in Rows27
    BY DEF Rows27
  <2> HIDE DEF t
  <2> QED
    BY <2>1 DEF PolarFa, Wires, f
<1>7. Sum1[t] = TaddSum(t) /\ Carry1[t] = TaddCarry(t)
  BY DEF Sum1, Carry1, Trit, Balanced, Null, Plus, Minus, Never
<1>8. (f.gpsum <=> ~ SumPush(t)) /\ (f.sn <=> SumPull(t))
  BY <1>1, <1>3, <1>4, <1>5
     DEF SumPush, SumPull, NoPush, NoPull, Input, Others, Push, Pull, Balanced, Null, Plus, Minus, Never
<1>9. (f.gpcout <=> ~ (NoPull(t) /\ TwoPush(t))) /\ (f.con <=> NoPush(t) /\ TwoPull(t))
  BY <1>1, <1>3, <1>4, <1>5
     DEF TwoPush, TwoPull, NoPush, NoPull, Input, Others, Push, Pull, Balanced, Null, Plus, Minus, Never
<1>10. driver(f.gpsum, f.sn) = TaddSum(t) /\ driver(f.gpcout, f.con) = TaddCarry(t)
  BY <1>8, <1>9 DEF driver, TaddSum, TaddCarry, Rails
<1> QED
  BY <1>6, <1>7, <1>10

(* The chain of PolarRipple by its recursion.                              *)
PolarStep(u, w, f) ==
  [i \in 0 .. Len(u) |->
     IF i = 0 THEN Start
     ELSE [sum   |-> Append(f[i - 1].sum, PolarFa[<<u[i], w[i], f[i - 1].carry>>].sum),
           carry |-> PolarFa[<<u[i], w[i], f[i - 1].carry>>].carry]]

(* Chained, the cells add words as tadd_n does.                            *)
LEMMA PolarRippleIs ==
  ASSUME NEW n \in Nat, NEW u \in Words(n), NEW w \in Words(n)
  PROVE  PolarRipple(u, w) = Ripple(u, w)
<1>1. Len(u) = n /\ u \in WordOf(n, Trit) /\ w \in WordOf(n, Trit)
  BY WordLen, TritWord DEF Words, WordOf
<1>2. PICK f : f = RippleStep(u, w, f) /\ Ripple(u, w) = f[Len(u)]
  BY <1>1, RippleExists, RippleIs
<1>3. f[0] = Start /\ \A i \in 1 .. n : f[i] = Adder(u, w, i, f[i - 1])
  BY <1>1, <1>2, RippleAt
<1> DEFINE Cell(i, p) == [sum   |-> Append(p.sum, PolarFa[<<u[i], w[i], p.carry>>].sum),
                          carry |-> PolarFa[<<u[i], w[i], p.carry>>].carry]
           s == CHOOSE h : h = PolarStep(u, w, h)
<1>4. ASSUME NEW i \in 1 .. n, NEW p, p.carry \in Balanced
      PROVE  Adder(u, w, i, p) = Cell(i, p) /\ Adder(u, w, i, p).carry \in Balanced
  <2>1. u[i] \in Balanced /\ w[i] \in Balanced
    BY DEF Words
  <2>2. PolarFa[<<u[i], w[i], p.carry>>]
          = [sum |-> Sum1[<<u[i], w[i], p.carry>>], carry |-> Carry1[<<u[i], w[i], p.carry>>]]
    BY <1>4, <2>1, PolarIsAdder
  <2>3. Carry1[<<u[i], w[i], p.carry>>] \in Balanced
    BY <1>4, <2>1, CellsClosed
  <2> QED
    BY <2>2, <2>3 DEF Adder
<1>5. \A i \in 0 .. n : f[i].carry \in Balanced
  <2> DEFINE T == {i \in 0 .. n : f[i].carry \in Balanced}
  <2>1. 0 \in T
    BY <1>3 DEF Start, Balanced, Null, Minus
  <2>2. ASSUME NEW i \in 1 .. n, i - 1 \in T PROVE i \in T
    <3>1. f[i - 1].carry \in Balanced
      BY <2>2
    <3>2. Adder(u, w, i, f[i - 1]).carry \in Balanced
      <4> HIDE DEF Cell
      <4> QED
        BY <1>4, <3>1
    <3> QED
      BY <1>3, <3>2
  <2>3. \A i \in 0 .. n : i \in T
    <3> HIDE DEF T
    <3> QED
      BY <2>1, <2>2, Climb
  <2> QED
    BY <2>3
<1>6. ASSUME NEW i \in 1 .. n PROVE f[i] = Cell(i, f[i - 1])
  <2>1. f[i - 1].carry \in Balanced
    BY <1>5
  <2> HIDE DEF Cell
  <2> QED
    BY <1>3, <1>4, <2>1
<1>7. f = PolarStep(u, w, f)
  <2>1. f = [i \in 0 .. n |-> IF i = 0 THEN Start ELSE Adder(u, w, i, f[i - 1])]
    BY <1>1, <1>2 DEF RippleStep
  <2>2. \A i \in 0 .. n : (IF i = 0 THEN Start ELSE Adder(u, w, i, f[i - 1]))
                          = (IF i = 0 THEN Start ELSE Cell(i, f[i - 1]))
    <3> HIDE DEF Cell
    <3> QED
      BY <1>3, <1>6
  <2>3. f = [i \in 0 .. n |-> IF i = 0 THEN Start ELSE Cell(i, f[i - 1])]
    <3> HIDE DEF Cell
    <3> QED
      BY <2>1, <2>2
  <2> QED
    BY <1>1, <2>3, Zenon DEF PolarStep
<1>8. s = PolarStep(u, w, s)
  BY <1>7
<1>9. PolarRipple(u, w) = s[Len(u)]
  BY Zenon DEF PolarRipple, PolarStep, Start
<1> HIDE DEF s
<1>10. s[0] = Start /\ \A i \in 1 .. n : s[i] = Cell(i, s[i - 1])
  <2>1. s = [i \in 0 .. n |-> IF i = 0 THEN Start ELSE Cell(i, s[i - 1])]
    BY <1>1, <1>8, Zenon DEF PolarStep
  <2> HIDE DEF Cell
  <2> DEFINE e == [i \in 0 .. n |-> IF i = 0 THEN Start ELSE Cell(i, s[i - 1])]
  <2>2. e[0] = Start /\ \A i \in 1 .. n : e[i] = Cell(i, s[i - 1])
    OBVIOUS
  <2> HIDE DEF e
  <2>3. s = e
    BY <2>1 DEF e
  <2> QED
    BY <2>2, <2>3
<1>11. s[n] = f[n]
  <2> DEFINE T == {i \in 0 .. n : s[i] = f[i]}
  <2> HIDE DEF Cell
  <2>1. 0 \in T /\ \A i \in 1 .. n : i - 1 \in T => i \in T
    BY <1>3, <1>6, <1>10
  <2>2. \A i \in 0 .. n : i \in T
    <3> HIDE DEF T
    <3> QED
      BY <2>1, Climb
  <2> QED
    BY <2>2
<1> QED
  BY <1>1, <1>2, <1>9, <1>11

(* The count of the devices, gate by gate.                                 *)
CountStep(f) ==
  [k \in 0 .. Len(pol_fa) |->
     IF k = 0 THEN 3 * (2 + 6) + 2 * 2 ELSE f[k - 1] + Transistors[pol_fa[k].kind]]

(* The netlist has the devices that its header counts: 6 D + 218 T.        *)
LEMMA DevicesAre == Devices = 224
<1> DEFINE g == [x \in (1 .. 34) \X Int |-> x[2] + Transistors[pol_fa[x[1]].kind]]
           s == CHOOSE f : f = CountStep(f)
<1>1. /\ Transistors["inv"] = 2 /\ Transistors["and2"] = 6 /\ Transistors["nor3"] = 6
      /\ Transistors["and3"] = 8 /\ Transistors["or3"] = 8
  BY SMTT(20) DEF Transistors
<1>2. \A k \in 1 .. 34 : Transistors[pol_fa[k].kind] \in Int
  <2>1. \A kind \in Kinds : Transistors[kind] \in Int
    BY <1>1 DEF Kinds
  <2> QED
    BY <2>1, InOrder DEF Ordered
<1>3. g \in [(1 .. 34) \X Int -> Int] /\ 28 \in Int
  <2>1. ASSUME NEW x \in (1 .. 34) \X Int PROVE x[2] + Transistors[pol_fa[x[1]].kind] \in Int
    <3>1. x[1] \in 1 .. 34 /\ x[2] \in Int
      OBVIOUS
    <3>2. Transistors[pol_fa[x[1]].kind] \in Int
      BY <1>2, <3>1
    <3> QED
      BY <3>1, <3>2
  <2> QED
    BY <2>1
<1>4. PICK h \in [0 .. 34 -> Int] : h[0] = 28 /\ \A k \in 1 .. 34 : h[k] = g[<<k, h[k - 1]>>]
  <2> HIDE DEF g
  <2>1. Recurses(34, Int, 28, g)
    BY <1>3, Recursion
  <2> QED
    BY <2>1 DEF Recurses
<1>5. \A k \in 1 .. 34 : h[k] = h[k - 1] + Transistors[pol_fa[k].kind]
  <2> SUFFICES ASSUME NEW k \in 1 .. 34 PROVE h[k] = h[k - 1] + Transistors[pol_fa[k].kind]
    OBVIOUS
  <2>1. k - 1 \in 0 .. 34
    OBVIOUS
  <2>2. <<k, h[k - 1]>> \in (1 .. 34) \X Int
    BY <2>1
  <2>3. g[<<k, h[k - 1]>>] = h[k - 1] + Transistors[pol_fa[k].kind]
    BY <2>2
  <2> HIDE DEF g
  <2> QED
    BY <1>4, <2>3
<1> HIDE DEF g
<1>6. h = CountStep(h)
  <2> DEFINE e == [k \in 0 .. 34 |-> IF k = 0 THEN 3 * (2 + 6) + 2 * 2
                                   ELSE h[k - 1] + Transistors[pol_fa[k].kind]]
  <2>1. \A k \in 0 .. 34 : h[k] = e[k]
    BY <1>4, <1>5
  <2>2. h = e
    <3>1. DOMAIN e = 0 .. 34 /\ e = [k \in 0 .. 34 |-> e[k]]
      OBVIOUS
    <3> HIDE DEF e
    <3> QED
      BY <1>4, <2>1, <3>1
  <2> QED
    BY <2>2, NetlistIs, Zenon DEF CountStep
<1>7. s = CountStep(s)
  BY <1>6
<1>8. Devices = s[34]
  <2>1. Devices = s[Len(pol_fa)]
    BY Zenon DEF Devices, CountStep
  <2> QED
    BY <2>1, NetlistIs
<1> HIDE DEF s
<1>9. s[0] = 28 /\ \A k \in 1 .. 34 : s[k] = s[k - 1] + Transistors[pol_fa[k].kind]
  BY <1>7, NetlistIs DEF CountStep
<1>10. s[10] = 28 + 6 * 6 + 2 * 8 + 2 * 6
  <2>1. \A k \in 1 .. 10 : s[k] = s[k - 1] + Transistors[Majority[k].kind]
    BY <1>9, NetlistIs
  <2>2. s[6] = 28 + 6 * 6
    <3>1. \A k \in 1 .. 6 : Majority[k].kind = "and2"
      BY DEF Majority, G
    <3> QED
      BY <1>1, <1>9, <2>1, <3>1
  <2>3. s[10] = s[6] + 2 * 8 + 2 * 6
    <3>1. Majority[7].kind = "or3" /\ Majority[8].kind = "or3" /\ Majority[9].kind = "nor3" /\ Majority[10].kind = "nor3"
      BY DEF Majority, G
    <3> QED
      BY <1>1, <2>1, <2>2, <3>1
  <2> QED
    BY <2>2, <2>3
<1>11. s[22] = s[10] + 2 * 8 + 2 * 2 + 2 * 6 + 2 * 8 + 2 * 2 + 2 * 6
  <2>1. \A k \in 1 .. 12 : s[10 + k] = s[10 + k - 1] + Transistors[Exactly[k].kind]
    <3>1. \A k \in 1 .. 12 : 10 + k \in 1 .. 34
      OBVIOUS
    <3> QED
      BY <1>9, <3>1, NetlistIs
  <2>2. /\ Exactly[1].kind = "and3" /\ Exactly[2].kind = "and3" /\ Exactly[3].kind = "inv" /\ Exactly[4].kind = "inv"
        /\ Exactly[5].kind = "and2" /\ Exactly[6].kind = "and2" /\ Exactly[7].kind = "or3" /\ Exactly[8].kind = "or3"
        /\ Exactly[9].kind = "inv" /\ Exactly[10].kind = "inv" /\ Exactly[11].kind = "and2" /\ Exactly[12].kind = "and2"
    BY DEF Exactly, G
  <2> QED
    BY <1>1, <1>10, <2>1, <2>2
<1>12. s[24] = s[22] + 2 * 6
  <2>1. \A k \in 1 .. 2 : s[22 + k] = s[22 + k - 1] + Transistors[CarryRails[k].kind]
    <3>1. \A k \in 1 .. 2 : 22 + k \in 1 .. 34
      OBVIOUS
    <3> QED
      BY <1>9, <3>1, NetlistIs
  <2>2. CarryRails[1].kind = "and2" /\ CarryRails[2].kind = "and2"
    BY DEF CarryRails, G
  <2> QED
    BY <1>1, <1>10, <1>11, <2>1, <2>2
<1>13. s[32] = s[24] + 3 * 6 + 8 + 3 * 6 + 8
  <2>1. \A k \in 1 .. 8 : s[24 + k] = s[24 + k - 1] + Transistors[SumRails[k].kind]
    <3>1. \A k \in 1 .. 8 : 24 + k \in 1 .. 34
      OBVIOUS
    <3> QED
      BY <1>9, <3>1, NetlistIs
  <2>2. /\ SumRails[1].kind = "and2" /\ SumRails[2].kind = "and2" /\ SumRails[3].kind = "and2" /\ SumRails[4].kind = "or3"
        /\ SumRails[5].kind = "and2" /\ SumRails[6].kind = "and2" /\ SumRails[7].kind = "and2" /\ SumRails[8].kind = "or3"
    BY DEF SumRails, G
  <2> QED
    BY <1>1, <1>10, <1>11, <1>12, <2>1, <2>2
<1>14. s[34] = s[32] + 2 * 2
  <2>1. \A k \in 1 .. 2 : s[32 + k] = s[32 + k - 1] + Transistors[Drivers[k].kind]
    <3>1. \A k \in 1 .. 2 : 32 + k \in 1 .. 34
      OBVIOUS
    <3> QED
      BY <1>9, <3>1, NetlistIs
  <2>2. Drivers[1].kind = "inv" /\ Drivers[2].kind = "inv"
    BY DEF Drivers, G
  <2> QED
    BY <1>1, <1>10, <1>11, <1>12, <1>13, <2>1, <2>2
<1> QED
  BY <1>8, <1>10, <1>11, <1>12, <1>13, <1>14

(* The polar adder of the circuit files is the adder of the RTL, cell by   *)
(* cell and at every width (gen_polar_full_adder.py:196-243).              *)
THEOREM PolarIsExact == SweepSpec => []PolarExact
<1>1. SweepType => PolarExact
  <2> SUFFICES ASSUME SweepType PROVE PolarExact
    OBVIOUS
  <2>1. NTRITS \in Nat
    BY SweepAssumption DEF SweepType
  <2>2. PolarRipple(a, b) = Ripple(a, b)
    BY <2>1, PolarRippleIs DEF SweepType
  <2>3. ASSUME NEW i \in 1 .. NTRITS
        PROVE  LET t    == <<a[i], b[i], c[i]>>
                   wire == PolarFa[t]
               IN  /\ Never \notin {wire.sum, wire.carry}
                   /\ [sum |-> Digit(wire.sum), carry |-> Digit(wire.carry)] = expected(t)
    <3> DEFINE r == a[i]
               s == b[i]
               u == c[i]
               t == <<r, s, u>>
    <3>1. r \in Balanced /\ s \in Balanced /\ u \in Balanced
      BY DEF SweepType, Words
    <3> HIDE DEF r, s, u
    <3>2. PolarFa[t] = [sum |-> Sum1[t], carry |-> Carry1[t]]
      BY <3>1, PolarIsAdder
    <3>3. Sum1[t] \in Balanced /\ Carry1[t] \in Balanced
      BY <3>1, CellsClosed
    <3>4. Digit(Sum1[t]) + 3 * Digit(Carry1[t]) = Digit(r) + Digit(s) + Digit(u)
      BY <3>1, FullAdder
    <3>5. Never \notin Balanced
      BY DEF Never, Balanced, Null, Minus
    <3>6. \A x \in Balanced : Digit(x) \in {-1, 0, 1}
      BY DigitIs
    <3>7. ASSUME NEW x \in {-1, 0, 1}, NEW y \in {-1, 0, 1}, NEW z \in -3 .. 3, x + 3 * y = z
          PROVE  /\ x = IF z % 3 = 2 THEN -1 ELSE z % 3
                 /\ y = IF z >= 2 THEN 1 ELSE IF z <= -2 THEN -1 ELSE 0
      BY <3>7
    <3>8. Digit(r) + Digit(s) + Digit(u) \in -3 .. 3
      BY <3>1, <3>6
    <3>9. expected(t) = [sum |-> Digit(Sum1[t]), carry |-> Digit(Carry1[t])]
      <4> DEFINE z == Digit(r) + Digit(s) + Digit(u)
      <4>1. expected(t) = [sum   |-> IF z % 3 = 2 THEN -1 ELSE z % 3,
                           carry |-> IF z >= 2 THEN 1 ELSE IF z <= -2 THEN -1 ELSE 0]
        BY DEF expected
      <4> HIDE DEF z
      <4> QED
        BY <3>3, <3>4, <3>6, <3>7, <3>8, <4>1 DEF z
    <3>10. /\ Never \notin {PolarFa[t].sum, PolarFa[t].carry}
           /\ [sum |-> Digit(PolarFa[t].sum), carry |-> Digit(PolarFa[t].carry)] = expected(t)
      BY <3>2, <3>3, <3>5, <3>9
    <3> QED
      BY <3>10 DEF r, s, u
  <2> QED
    BY <2>2, <2>3, DevicesAre DEF PolarExact
<1> QED
  BY <1>1, SweepTyped, PTL
=============================================================================
