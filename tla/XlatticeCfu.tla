----------------------------- MODULE XlatticeCfu ----------------------------
(***************************************************************************)
(* The combinational co-processor rtl/xlattice_cfu.v and its two ports,    *)
(* rtl/picorv32_pcpi_xlattice.v and rtl/neorv32_cfu_xlattice.v.  A         *)
(* register of the core is sixteen two-bit trits; the co-processor reads   *)
(* the low twelve, a point a + b.w of six trits a coefficient.             *)
(***************************************************************************)
EXTENDS EisenCells

Register == [1 .. 16 -> Trit]

AField(x) == SubSeq(x, 1, 6)
BField(x) == SubSeq(x, 7, 12)

(* What the co-processor returns in rd, and its flag.                      *)
Point6(a, b, ovf) == [rd |-> a \o b, ovf |-> ovf]
Scalar6(w)        == Point6(Low(w, 6), Nulls(6), Wider(w, 6))

(* The four instructions it knows; every other one gets a zero.            *)
Cfu(f3, f7, z, w) ==
  LET ga   == GaSplit(AField(z), BField(z), AField(w), BField(w))
      conj == Conj(AField(z), BField(z))
  IN  CASE f3 = 1 /\ f7 = 1 -> Point6(conj.a, conj.b, conj.ofit)
        [] f3 = 0 /\ f7 = 4 -> Scalar6(ga.dot)
        [] f3 = 0 /\ f7 = 5 -> Scalar6(ga.wedge)
        [] f3 = 0 /\ f7 = 6 -> Scalar6(ga.symdot)
        [] OTHER -> Point6(Nulls(6), Nulls(6), FALSE)

(* Mutant: the port answers only what the co-processor knows, as an        *)
(* instruction that traps would need.                                      *)
PcpiSelective(valid, custom0, i, rs1, rs2) ==
  LET hit == valid /\ custom0 /\ <<i.f3, i.f7>> \in {<<1, 1>>, <<0, 4>>, <<0, 5>>, <<0, 6>>}
  IN  [wr |-> hit, ready |-> hit, rd |-> Ext(Cfu(i.f3, i.f7, rs1, rs2).rd, 16)]

(* The PicoRV32 port: ready and wr in the cycle of valid for every custom-0 *)
(* instruction; the flag is not connected.                                 *)
Pcpi(valid, custom0, i, rs1, rs2) ==
  LET hit == valid /\ custom0
  IN  [wr |-> hit, ready |-> hit, rd |-> Ext(Cfu(i.f3, i.f7, rs1, rs2).rd, 16)]

(* The NEORV32 port: valid_o is start_i, whatever the opcode.              *)
NeorvCfu(start, i, rs1, rs2) ==
  [valid |-> start, result |-> Ext(Cfu(i.f3, i.f7, rs1, rs2).rd, 16)]
=============================================================================
