--------------------------------- MODULE Cpu --------------------------------
(***************************************************************************)
(* rtl/cpu.v with the register file of rtl/ternary_mem.v: one instruction  *)
(* per clock edge, decoded straight from the instruction memory.  Eight    *)
(* registers hold lattice points a + b.w of two six-trit coefficients.     *)
(*                                                                         *)
(* A rail of a register may be upset (docs/compute/storage.md 6.1 is about *)
(* that); the register file watches for the code 11 on its two read ports  *)
(* and its write port.                                                     *)
(***************************************************************************)
EXTENDS EisenCells

CONSTANTS Programs,     \* instruction memories, 16 instructions each
          Disturbed,    \* the programs whose runs may be upset
          MaxUpsets     \* bound on the upsets of a run

N    == 6
Reg  == 0 .. 7
PC   == 0 .. 15
HLT  == 15

(* The nine low bits are the registers ra and rb and three spare bits, or  *)
(* the immediate of LDI; the units see all three readings at once.         *)
Instr == [op : 0 .. 15, rd : Reg, low : 0 .. 511]

Ra(i)  == i.low \div 64
Rb(i)  == (i.low \div 8) % 8
Imm(i) == IF i.low < 256 THEN i.low ELSE i.low - 512

ASSUME CpuAssumption == Programs \subseteq [PC -> Instr] /\ MaxUpsets \in Nat

VARIABLES
  rst_n, imem, pc, ir, rf, hlt, ovf,
  upsets,     \* history: rails upset since reset
  silent,     \* history: an upset made a code that is not 11
  caught,     \* history: a canary fired since reset
  golden      \* history: the register file without the upsets

coreVars == <<pc, ir, rf, hlt, ovf>>
history  == <<upsets, silent, caught, golden>>
cpuVars  == <<rst_n, imem, coreVars, history>>

Point(w, v) == [a |-> w, b |-> v]
Scalar(w)   == Point(w, Nulls(N))
Origin      == Scalar(Nulls(N))
Result(p, o) == [wdata |-> p, wovf |-> o]

-----------------------------------------------------------------------------
(* The units, on the points x = rf[ra] and y = rf[rb].                     *)

TADD(x, y) ==
  LET s == Ripple(x.a, y.a)
      t == Ripple(x.b, y.b)
  IN  Result(Point(s.sum, t.sum), s.carry # Null \/ t.carry # Null)

TSUB(x, y) == TADD(x, Point(Neg(y.a), Neg(y.b)))

(* Multiplication by w^k; the sum a + b is watched whatever k is.          *)
TROT(x, k) ==
  LET s == Ripple(x.a, x.b)
      p == CASE k = 0 -> x
             [] k = 1 -> Point(Neg(x.b), s.sum)
             [] k = 2 -> Point(Neg(s.sum), x.a)
             [] k = 3 -> Point(Neg(x.a), Neg(x.b))
             [] k = 4 -> Point(x.b, Neg(s.sum))
             [] k = 5 -> Point(s.sum, Neg(x.a))
             [] OTHER -> Origin
  IN  Result(p, s.carry # Null)

TNORM(x, y) == LET r == NormOpt(x.a, y.a, FALSE) IN Result(Scalar(r.n), r.ofit)

TMUL(x, y) ==
  LET p == EisenMul(x.a, x.b, y.a, y.b)
  IN  Result(Point(Low(p.A, N), Low(p.B, N)), Wider(p.A, N) \/ Wider(p.B, N))

TCONJ(x) == LET p == Conj(x.a, x.b) IN Result(Point(p.a, p.b), p.ofit)

(* A scalar of the split cell, cut to the a-field.                         *)
GaScalar(w) == Result(Scalar(Low(w, N)), Wider(w, N))
Split(x, y) == GaSplit(x.a, x.b, y.a, y.b)

(* s2t6: balanced digits from the top, by comparing the residual with half *)
(* the weight.                                                             *)
S2T6(v) ==
  LET step[k \in 0 .. N] ==
        IF k = 0 THEN [r |-> v, w |-> <<>>]
        ELSE LET p      == step[k - 1]
                 weight == Pow3[N - k]
                 half   == Greatest(N - k)
                 t      == IF p.r > half THEN Plus ELSE IF p.r < -half THEN Minus ELSE Null
             IN  [r |-> p.r - Digit(t) * weight, w |-> <<t>> \o p.w]
  IN  step[N].w

Alu(i, x, y) ==
  CASE i.op = 0 -> TADD(x, y)
    [] i.op = 1 -> TSUB(x, y)
    [] i.op = 2 -> TROT(x, Rb(i))
    [] i.op = 3 -> TNORM(x, y)
    [] i.op = 4 -> Result(Scalar(S2T6(Imm(i))), FALSE)
    [] i.op = 5 -> TMUL(x, y)
    [] i.op = 6 -> TCONJ(x)
    [] i.op = 7 -> GaScalar(Split(x, y).dot)
    [] i.op = 8 -> GaScalar(Split(x, y).wedge)
    [] i.op = 9 -> GaScalar(Split(x, y).symdot)
    [] OTHER    -> Result(Origin, FALSE)

-----------------------------------------------------------------------------
Fetch == imem[pc]

PointHasNever(p) == HasNever(p.a) \/ HasNever(p.b)

(* Mutant: only the first read port is watched.                            *)
CanaryOnePort(x, y, w) == PointHasNever(x) \/ PointHasNever(w)

Canary(x, y, w) == PointHasNever(x) \/ PointHasNever(y) \/ PointHasNever(w)

(* Mutant: a program counter of more than four bits.                       *)
NextPcWide(p) == p + 1

NextPc(p) == (p + 1) % 16

(* A clock edge with an instruction other than HLT: the result is written  *)
(* whatever the opcode, and the flag is the flag of this instruction.      *)
Execute ==
  LET i == Fetch
      x == rf[Ra(i)]
      y == rf[Rb(i)]
      r == Alu(i, x, y)
  IN  /\ rst_n /\ ~hlt /\ i.op # HLT
      /\ ir' = i
      /\ pc' = NextPc(pc)
      /\ rf' = [rf EXCEPT ![i.rd] = r.wdata]
      /\ ovf' = (r.wovf \/ Canary(x, y, r.wdata))
      /\ caught' = (caught \/ Canary(x, y, r.wdata))
      /\ golden' = [golden EXCEPT ![i.rd] = Alu(i, golden[Ra(i)], golden[Rb(i)]).wdata]
      /\ UNCHANGED <<rst_n, imem, hlt, upsets, silent>>

(* HLT freezes pc; its register fields are read, and watched, all the same.*)
Halt ==
  LET i == Fetch
      fired == Canary(rf[Ra(i)], rf[Rb(i)], Origin)
  IN  /\ rst_n /\ ~hlt /\ i.op = HLT
      /\ ir' = i /\ hlt' = TRUE
      /\ ovf' = fired
      /\ caught' = (caught \/ fired)
      /\ UNCHANGED <<rst_n, imem, pc, rf, upsets, silent, golden>>

(* rst_n falls at any moment and clears everything but the program.        *)
AssertReset ==
  /\ rst_n /\ rst_n' = FALSE
  /\ pc' = 0 /\ hlt' = FALSE /\ ovf' = FALSE
  /\ ir' = [op |-> 0, rd |-> 0, low |-> 0]
  /\ rf' = [r \in Reg |-> Origin]
  /\ upsets' = 0 /\ silent' = FALSE /\ caught' = FALSE
  /\ golden' = [r \in Reg |-> Origin]
  /\ UNCHANGED imem

ReleaseReset == ~rst_n /\ rst_n' = TRUE /\ UNCHANGED <<imem, coreVars, history>>

(* One rail of one trit flips.                                             *)
Flips(t) == {Rails(~Push(t), Pull(t)), Rails(Push(t), ~Pull(t))}

Upset ==
  /\ rst_n /\ upsets < MaxUpsets /\ imem \in Disturbed
  /\ \E r \in Reg, half \in {"a", "b"}, k \in 1 .. N :
       \E t \in Flips(rf[r][half][k]) :
         /\ rf' = [rf EXCEPT ![r][half][k] = t]
         /\ silent' = (silent \/ t # Never)
  /\ upsets' = upsets + 1
  /\ UNCHANGED <<rst_n, imem, pc, ir, hlt, ovf, caught, golden>>

(* Power-on with the reset held.                                           *)
Init ==
  /\ imem \in Programs
  /\ rst_n = FALSE /\ pc = 0 /\ hlt = FALSE /\ ovf = FALSE
  /\ ir = [op |-> 0, rd |-> 0, low |-> 0]
  /\ rf = [r \in Reg |-> Origin] /\ golden = rf
  /\ upsets = 0 /\ silent = FALSE /\ caught = FALSE

Edge == Execute \/ Halt
Next == Edge \/ AssertReset \/ ReleaseReset \/ Upset

Spec == Init /\ [][Next]_cpuVars

-----------------------------------------------------------------------------
(* Types: every register is twelve trits of any of the four codes.         *)
File(codes) == [Reg -> [a : [1 .. N -> codes], b : [1 .. N -> codes]]]

TypeOK ==
  /\ rst_n \in BOOLEAN /\ hlt \in BOOLEAN /\ ovf \in BOOLEAN
  /\ imem \in Programs /\ pc \in PC /\ ir \in Instr
  /\ rf \in File(Trit) /\ golden \in File(Balanced)
  /\ upsets \in 0 .. MaxUpsets /\ silent \in BOOLEAN /\ caught \in BOOLEAN

(* encode_never_both (ternary_gates.v:28-30) for the whole data path: no   *)
(* program, whatever it computes and overflows, ever brings the code 11    *)
(* into a register, and so no canary fires without an upset.               *)
NeverBoth == upsets = 0 => rf \in File(Balanced) /\ ~caught

(* What an upset that makes an 11 can do (ternary_mem.v:131-147): until a  *)
(* canary has fired, the only register that differs from the undisturbed   *)
(* run is one that still shows an 11.  Nothing computed from it escapes    *)
(* unseen, even where the adder turns the 11 back into a valid trit.       *)
Contained ==
  ~silent => \A r \in Reg : rf[r] = golden[r] \/ PointHasNever(rf[r]) \/ caught

-----------------------------------------------------------------------------
(* The instruction set on integers (the table of cpu.v:20-57), written     *)
(* without looking at the units: a point is a pair, w.(a, b) = (-b, a+b).  *)
Pair(p) == <<Val(p.a), Val(p.b)>>

Turned(z, k) ==
  LET turn[j \in 0 .. 5] == IF j = 0 THEN z ELSE <<-turn[j - 1][2], turn[j - 1][1] + turn[j - 1][2]>>
  IN  turn[k]

Meaning(i, z, v) ==
  CASE i.op = 0 -> <<z[1] + v[1], z[2] + v[2]>>
    [] i.op = 1 -> <<z[1] - v[1], z[2] - v[2]>>
    [] i.op = 2 -> IF Rb(i) < 6 THEN Turned(z, Rb(i)) ELSE <<0, 0>>
    [] i.op = 3 -> <<NormOf(z[1], v[1]), 0>>
    [] i.op = 4 -> <<Imm(i), 0>>
    [] i.op = 5 -> <<EisenA(z[1], z[2], v[1], v[2]), EisenB(z[1], z[2], v[1], v[2])>>
    [] i.op = 6 -> <<z[1] + z[2], -z[2]>>
    [] i.op = 7 -> <<DotOf(z[1], z[2], v[1], v[2]), 0>>
    [] i.op = 8 -> <<WedgeOf(z[1], z[2], v[1], v[2]), 0>>
    [] i.op = 9 -> <<SymDotOf(z[1], z[2], v[1], v[2]), 0>>
    [] OTHER    -> <<0, 0>>

(* An instruction on registers without an 11 stores what it means, cut to  *)
(* six balanced trits a coefficient, and raises the flag exactly when the  *)
(* cut changed it; a rotation raises it exactly when a + b does not fit,   *)
(* also for the k that do not use a + b.                                   *)
AluExact ==
  [][LET i == Fetch
         x == rf[Ra(i)]
         y == rf[Rb(i)]
         m == Meaning(i, Pair(x), Pair(y))
         wide == IF i.op = 2 THEN <<Pair(x)[1] + Pair(x)[2], 0>> ELSE m
     IN  rst_n' /\ pc' # pc /\ ~PointHasNever(x) /\ ~PointHasNever(y) =>
           /\ Pair(rf'[i.rd]) = <<Residue(m[1], N), Residue(m[2], N)>>
           /\ ovf' <=> ~(Fits(wide[1], N) /\ Fits(wide[2], N))]_cpuVars

(* cpu.v:59 says that ovf latches any overflow: once up it stays up until  *)
(* reset.                                                                  *)
OvfLatches == [][ovf /\ rst_n' => ovf']_cpuVars
=============================================================================
