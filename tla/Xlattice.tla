------------------------------- MODULE Xlattice -----------------------------
(***************************************************************************)
(* scripts/xlattice.py: the thirteen Xlattice instructions in the tinyrv   *)
(* emulator.  The handler of opcode 0x0B decodes two-bit trits into        *)
(* integers, computes with ternary_ops, and encodes the result back; the   *)
(* pod instructions read and write a store of cells of its own.            *)
(*                                                                         *)
(* The rest of the emulator is external: its registers (x0 reads zero and  *)
(* cannot be written), its base instructions, which leave any word in a    *)
(* register, and what it does with an exception or an instruction the      *)
(* handler does not know, taken here as the end of the run.                *)
(***************************************************************************)
EXTENDS TernaryOps, XlatticeCfu, FiniteSets

CONSTANTS
  Reg,          \* the registers programs use, 0 among them
  Instrs,       \* the instructions programs are made of
  RawWords,     \* what base instructions leave in a register
  HostWrites,   \* values of some cells that the host program stores at once
  MaxSteps      \* bound on the steps of a run

Instr == [f3 : 0 .. 7, f7 : 0 .. 127, rd : Reg, rs1 : Reg, rs2 : Reg, imm : -2048 .. 2047]

(* What eight trits can hold.                                              *)
Wide8 == -3280 .. 3280

ASSUME XlatticeAssumption ==
  /\ 0 \in Reg /\ Reg \subseteq 0 .. 31
  /\ Instrs \subseteq Instr
  /\ RawWords \subseteq Register
  /\ \A h \in HostWrites : DOMAIN h \subseteq Int \X Int /\ \A c \in DOMAIN h : h[c] \in Wide8
  /\ MaxSteps \in Nat

VARIABLES
  x,                \* the registers
  xlattice_ovf,
  hex_mem,          \* the cells written so far; the others read as 0
  hex_bits_moved,
  op,               \* <<i>> after the custom-0 instruction i, <<>> after another step
  steps,            \* base and custom instructions and host writes so far
  status            \* "running", or why the run ended

emuVars == <<x, xlattice_ovf, hex_mem, hex_bits_moved, op, steps, status>>

-----------------------------------------------------------------------------
(* Words.  decode_field raises on 11, so it is defined on the other codes. *)
decode_field(w) == Val(w)
decode_word(w)  == <<decode_field(AField(w)), decode_field(BField(w))>>
decode_pair(w)  == <<decode_field(SubSeq(w, 1, 8)), decode_field(SubSeq(w, 9, 16))>>

(* The remainder 2 is the code of -1, and then one is carried.             *)
encode_field(v, n) ==
  LET r[i \in 0 .. n] == IF i = 0 THEN v ELSE (r[i - 1] + 1) \div 3
  IN  [i \in 1 .. n |-> r[i - 1] % 3]

encode_word(z) == encode_field(z[1], 6) \o encode_field(z[2], 6) \o Nulls(4)
encode_pair(j) == encode_field(j[1], 8) \o encode_field(j[2], 8)

fits6(v) == v \in -364 .. 364

SetRegister(r, w) == x' = IF r = 0 THEN x ELSE [x EXCEPT ![r] = w]

(* Mutant: only the a-field is checked.                                    *)
set_word_half(r, z) ==
  /\ xlattice_ovf' = (xlattice_ovf \/ ~fits6(z[1]))
  /\ SetRegister(r, encode_word(z))

set_word(r, z) ==
  /\ xlattice_ovf' = (xlattice_ovf \/ ~fits6(z[1]) \/ ~fits6(z[2]))
  /\ SetRegister(r, encode_word(z))

set_scalar(r, v) == set_word(r, <<v, 0>>)

-----------------------------------------------------------------------------
(* The cell store.                                                         *)
Cell(m, c) == IF c \in DOMAIN m THEN m[c] ELSE 0

pod_cells(c) == {c} \cup {eadd(c, ANGLE_UNITS[k]) : k \in Angle}
ring(m, c)   == [k \in Angle |-> Cell(m, eadd(c, ANGLE_UNITS[k]))]

(* The cells of a pod take a centre value and six others.                  *)
scatter_pod(c, centre, F) ==
  hex_mem' = [d \in DOMAIN hex_mem \cup pod_cells(c) |->
                IF d = c THEN centre
                ELSE IF d \in pod_cells(c)
                     THEN F[CHOOSE k \in Angle : d = eadd(c, ANGLE_UNITS[k])]
                     ELSE hex_mem[d]]

count_pod == hex_bits_moved' = hex_bits_moved + 7 * 32

-----------------------------------------------------------------------------
(* The handler, one action per operand format.  Every format decodes the   *)
(* registers it names before it looks at funct7; TROT decodes the register *)
(* whose number is its angle.                                              *)
Decodes(i) ==
  CASE i.f3 = 0      -> {AField(x[r]) : r \in {i.rs1, i.rs2}}
                          \cup {BField(x[r]) : r \in {i.rs1, i.rs2}}
    [] i.f3 \in {1, 3} -> {AField(x[i.rs1]), BField(x[i.rs1])}
    [] i.f3 = 4      -> {x[i.rs1], AField(x[i.rs2]), BField(x[i.rs2])}
    [] OTHER         -> {}

Canary(i) == \E w \in Decodes(i) : HasNever(w)

Known(i) ==
  \/ i.f3 = 0 /\ i.f7 \in 0 .. 6
  \/ i.f3 \in {1, 3} /\ i.f7 \in 0 .. 1
  \/ i.f3 \in {2, 4}

R2(i) ==
  LET z == decode_word(x[i.rs1])
      w == decode_word(x[i.rs2])
  IN  /\ i.f3 = 0
      /\ CASE i.f7 = 0 -> set_word(i.rd, eadd(z, w))
           [] i.f7 = 1 -> set_word(i.rd, esub(z, w))
           [] i.f7 = 2 -> set_word(i.rd, erot(z, i.rs2 % 8))
           [] i.f7 = 3 -> set_word(i.rd, emul(z, w))
           [] i.f7 = 4 -> set_scalar(i.rd, tdot(z, w))
           [] i.f7 = 5 -> set_scalar(i.rd, twedge(z, w))
           [] i.f7 = 6 -> set_scalar(i.rd, tsymdot(z, w))
      /\ UNCHANGED <<hex_mem, hex_bits_moved>>

R1(i) ==
  LET z == decode_word(x[i.rs1])
  IN  /\ i.f3 = 1
      /\ CASE i.f7 = 0 -> set_scalar(i.rd, enorm(z))
           [] i.f7 = 1 -> set_word(i.rd, econj(z))
      /\ UNCHANGED <<hex_mem, hex_bits_moved>>

LDI(i) ==
  /\ i.f3 = 2
  /\ set_word(i.rd, <<i.imm, 0>>)
  /\ UNCHANGED <<hex_mem, hex_bits_moved>>

(* Mutant: the centre is summed with its neighbours.                       *)
HeatStepPod(u, F) == u \div 3 + (u + F[0] + F[1] + F[2] + F[3] + F[4] + F[5]) \div 9

(* The heat step, both quotients rounded down.                             *)
HeatStep(u, F) == u \div 3 + (F[0] + F[1] + F[2] + F[3] + F[4] + F[5]) \div 9

PodRead(i) ==
  LET c == decode_word(x[i.rs1])
      F == ring(hex_mem, c)
  IN  /\ i.f3 = 3
      /\ count_pod
      /\ CASE i.f7 = 0 -> /\ SetRegister(i.rd, encode_pair(tgrad(F)))
                            /\ UNCHANGED xlattice_ovf
           [] i.f7 = 1 -> set_scalar(i.rd, HeatStep(Cell(hex_mem, c), F))
      /\ UNCHANGED hex_mem

PodWrite(i) ==
  /\ i.f3 = 4
  /\ scatter_pod(decode_word(x[i.rs2]), 0, trecon(decode_pair(x[i.rs1])))
  /\ count_pod
  /\ set_scalar(i.rd, 0)

(* An 11 in a register the format decodes is a ValueError, raised before   *)
(* anything is written.                                                    *)
RaiseCanary(i) ==
  /\ Canary(i)
  /\ status' = "canary"
  /\ UNCHANGED <<x, xlattice_ovf, hex_mem, hex_bits_moved>>

(* A pod is read, and counted, before funct7 is found unknown.             *)
Unimplemented(i) ==
  /\ ~Canary(i) /\ ~Known(i)
  /\ status' = "unimplemented"
  /\ IF i.f3 = 3 THEN count_pod ELSE UNCHANGED hex_bits_moved
  /\ UNCHANGED <<x, xlattice_ovf, hex_mem>>

Complete(i) ==
  /\ ~Canary(i) /\ Known(i)
  /\ UNCHANGED status
  /\ R2(i) \/ R1(i) \/ LDI(i) \/ PodRead(i) \/ PodWrite(i)

Running == status = "running" /\ steps < MaxSteps /\ steps' = steps + 1

custom0(i) == op' = <<i>> /\ Running /\ (RaiseCanary(i) \/ Unimplemented(i) \/ Complete(i))

(* A base instruction writes a register.                                   *)
BaseWrite ==
  /\ Running
  /\ \E r \in Reg \ {0}, w \in RawWords : x' = [x EXCEPT ![r] = w]
  /\ op' = <<>>
  /\ UNCHANGED <<xlattice_ovf, hex_mem, hex_bits_moved, status>>

(* The program around the emulator puts values in the cell store.          *)
HostWrite ==
  /\ Running
  /\ \E h \in HostWrites :
       hex_mem' = [c \in DOMAIN h \cup DOMAIN hex_mem |->
                     IF c \in DOMAIN h THEN h[c] ELSE hex_mem[c]]
  /\ op' = <<>>
  /\ UNCHANGED <<x, xlattice_ovf, hex_bits_moved, status>>

Init ==
  /\ x = [r \in Reg |-> Nulls(16)]
  /\ xlattice_ovf = FALSE
  /\ hex_mem = [c \in {} |-> 0]
  /\ hex_bits_moved = 0
  /\ op = <<>>
  /\ steps = 0 /\ status = "running"

Next == (\E i \in Instrs : custom0(i)) \/ BaseWrite \/ HostWrite

Spec == Init /\ [][Next]_emuVars

-----------------------------------------------------------------------------
RTL == INSTANCE HexField

(* The same instructions by the ternary cells of the RTL, trit by trit.    *)
(* TROT as cpu.v does it: nothing for the angles 6 and 7, and the flag of  *)
(* a + b for every angle.                                                  *)
Turn6(a, b, k) ==
  LET s == Ripple(a, b).sum
      p == CASE k = 0 -> <<a, b>>
             [] k = 1 -> <<Neg(b), s>>
             [] k = 2 -> <<Neg(s), a>>
             [] k = 3 -> <<Neg(a), Neg(b)>>
             [] k = 4 -> <<b, Neg(s)>>
             [] k = 5 -> <<s, Neg(a)>>
             [] OTHER -> <<Nulls(6), Nulls(6)>>
  IN  Point6(p[1], p[2], Ripple(a, b).carry # Null)

ByCells(i, z, w) ==
  LET a == AField(z)
      b == BField(z)
      c == AField(w)
      d == BField(w)
      sum(u, v) == Ripple(u, v).sum
      out(u, v) == Ripple(u, v).carry # Null
      prod == EisenMul(a, b, c, d)
  IN  CASE i.f3 = 0 /\ i.f7 = 0 -> Point6(sum(a, c), sum(b, d), out(a, c) \/ out(b, d))
        [] i.f3 = 0 /\ i.f7 = 1 ->
             Point6(sum(a, Neg(c)), sum(b, Neg(d)), out(a, Neg(c)) \/ out(b, Neg(d)))
        [] i.f3 = 0 /\ i.f7 = 2 -> Turn6(a, b, i.rs2 % 8)
        [] i.f3 = 0 /\ i.f7 = 3 ->
             Point6(Low(prod.A, 6), Low(prod.B, 6), Wider(prod.A, 6) \/ Wider(prod.B, 6))
        [] i.f3 = 1 /\ i.f7 = 0 -> LET n == Norm(a, b) IN Point6(n.n, Nulls(6), n.ofit)
        [] OTHER -> Cfu(i.f3, i.f7, z, w)

(* An instruction of the first two formats, beside the cells.              *)
MirroredStep ==
  LET i == op'[1]
      z == x[i.rs1]
      k == i.rs2 % 8
      trot  == i.f3 = 0 /\ i.f7 = 2
      Ports == IF i.f3 = 0 THEN {z, x[i.rs2]} ELSE {z}
  IN  op' # <<>> /\ i.f3 \in 0 .. 1 =>
        /\ status' = "canary" <=> \E v \in Ports : HasNever(AField(v)) \/ HasNever(BField(v))
        /\ status' = "canary" => UNCHANGED <<x, xlattice_ovf>>
        /\ status' = "running" =>
             \A r \in {ByCells(i, z, x[i.rs2])} :
               /\ i.rd # 0 =>
                    (x'[i.rd] = Ext(r.rd, 16) <=> trot /\ k > 5 => decode_word(z) = <<0, 0>>)
               /\ xlattice_ovf' <=> xlattice_ovf \/ (r.ovf /\ ~(trot /\ k % 3 = 0))

(* Where the emulator mirrors the RTL (xlattice.py:26, xlattice_encoding.md *)
(* 1.2), and where not.  Integers decoded, combined and encoded again give *)
(* the trits the cells give, but for a rotation by the angles 6 and 7,     *)
(* which erot takes modulo 6 and cpu.v:192 answers with zero.  The latch   *)
(* takes up exactly the flags of the cells, but for a rotation by 0, 3 and *)
(* 6, where cpu.v:193 flags a sum that is not part of the result.  And an  *)
(* 11 at either read port, that of the register a rotation only names its  *)
(* angle by included, ends the run with the latch and the registers as     *)
(* they were, where cpu.v:239 flags it, writes the result and goes on.     *)
MirrorsCells == [][MirroredStep]_emuVars

(* An instruction that wants a result, beside the ports.                   *)
AnsweredStep ==
  LET i == op'[1]
  IN  op' # <<>> /\ status' # "canary" /\ i.rd # 0 =>
        \A p \in {Pcpi(TRUE, TRUE, i, x[i.rs1], x[i.rs2])} :
          /\ p.ready /\ p.wr
          /\ NeorvCfu(TRUE, i, x[i.rs1], x[i.rs2]) = [valid |-> TRUE, result |-> p.rd]
          /\ status' = "running" /\ x'[i.rd] = p.rd
               <=> \/ <<i.f3, i.f7>> \in {<<1, 1>>, <<0, 4>>, <<0, 5>>, <<0, 6>>}
                   \/ status' = "running" /\ x'[i.rd] = Nulls(16)

(* One core calls the emulator's handler, another the ports of the RTL,    *)
(* with the same registers.  The ports complete every instruction, with a  *)
(* zero unless it is one of four: so they agree with the emulator exactly  *)
(* on these and on results that are zero -- the status of a TRECON that    *)
(* was never performed among them (picorv32_pcpi_xlattice.v:42-43).        *)
PortAnswers == [][AnsweredStep]_emuVars

(* A step on the pod of a point.                                           *)
KeptStep ==
  LET i == op'[1]
      c == decode_word(x[IF i.f3 = 4 THEN i.rs2 ELSE i.rs1])
      j == tgrad(ring(hex_mem', c))
  IN  op' # <<>> =>
      /\ hex_bits_moved' - hex_bits_moved =
           IF i.f3 \in {3, 4} /\ status' # "canary" THEN 32 * Cardinality(pod_cells(c)) ELSE 0
      /\ status' = "running" /\ i.f3 = 4 =>
           /\ j = decode_pair(x[i.rs1]) /\ encode_pair(j) = x[i.rs1]
           /\ RTL!Ofit(j[1], j[2]) <=> ring(hex_mem', c) # RTL!Recon(j[1], j[2])
           /\ i.rd # 0 => x'[i.rd] = Nulls(16)
           /\ xlattice_ovf' = xlattice_ovf
      /\ status' = "running" /\ i.f3 = 3 /\ i.f7 = 0 /\ i.rd # 0 /\ decode_pair(x'[i.rd]) # j =>
           /\ xlattice_ovf' = xlattice_ovf
           /\ \E k \in Angle : ~fits6(ring(hex_mem, c)[k])

(* What the pod instructions keep of the derivative, beside grad_recon.v.  *)
(* TRECON leaves a pod whose derivative is what it was given, to the last  *)
(* of eight trits.  The RTL and xlattice_encoding.md 3.4 store six: the    *)
(* two pods are the same exactly when the fit flag is down.  With the flag *)
(* up the emulator stores cells wider than a word of the lattice, and      *)
(* still reports status 0 and latches nothing, where 3.4 has status 1      *)
(* (xlattice.py:184: not yet modeled).  On such cells, and on no others,   *)
(* TGRAD may lose the derivative, without a flag.  Seven words are counted *)
(* for each pod, that of an unknown TGRAD included.                        *)
PodKeeps == [][KeptStep]_emuVars

(* A heat step that wants a result, beside trelax.v.                       *)
HeatedStep ==
  LET i == op'[1]
      c == decode_word(x[i.rs1])
      u == Cell(hex_mem, c)
      F == ring(hex_mem, c)
      pod == {u} \cup {F[k] : k \in Angle}
      v == decode_word(x'[i.rd])[1]
  IN  op' # <<>> /\ status' = "running" /\ i.f3 = 3 /\ i.f7 = 1 /\ i.rd # 0
      /\ (\A p \in pod : fits6(p)) =>
        \/ /\ RTL!Relax(u, F) - v \in 0 .. 2
           /\ \E p \in pod : p - 1 <= v
           /\ \E p \in pod : v <= p
        \/ -364 \in pod /\ v = 364 /\ xlattice_ovf'

(* The heat step rounds down where trelax.v rounds to nearest: on a pod of *)
(* six-trit values it stays at most two behind the RTL and at most one     *)
(* below the least value of the pod, and never above the greatest; one     *)
(* below the least value there is is an overflow, and it is latched.       *)
HeatRange == [][HeatedStep]_emuVars
=============================================================================
