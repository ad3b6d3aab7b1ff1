--------------------------- MODULE HexFieldAccel ---------------------------
(***************************************************************************)
(* rtl/hex_field_accel.v: the field-calculus accelerator, a peripheral on  *)
(* the processor's memory port at BASE = 0x2000.                           *)
(*                                                                         *)
(*   BASE+0x000 .. 0x0FC  the 64 cells     BASE+0x10C  read : TRECON ofit  *)
(*   BASE+0x100  write: pod centre         BASE+0x110  read : TRELAX u'    *)
(*   BASE+0x104  read : div                BASE+0x114  write: TRECON       *)
(*   BASE+0x108  read : curl               BASE+0x118  write: TRELAX       *)
(*                                                                         *)
(* Every action below is what the peripheral does at one clock edge.  The  *)
(* bus variables are inputs: the composition says what they become.        *)
(*                                                                         *)
(* A pod may reach past the 64 cells (its centre lies on the rim of the    *)
(* store, or outside it).  A read of a missing cell returns an unknown     *)
(* value (here any member of Unknown), and a write to one is lost or, when *)
(* the index is cut to the 6 bits of the store, lands on another cell.     *)
(***************************************************************************)
EXTENDS MemPort, HexAddr, HexField

CONSTANT Unknown      \* field values an index outside the store may read as

ASSUME UnknownAssumption == Unknown \subseteq Coef /\ Unknown # {}

VARIABLES
  cells,                       \* [CellIdx -> Word]
  field_center,                \* pod centre, a flat address
  field_ready, field_rdata     \* the answer, registered

fieldVars == <<cells, field_center, field_ready, field_rdata>>

CellIdx   == 0 .. 63
FieldBase == 8192
FieldOff  == mem_addr - FieldBase
FieldHit  == mem_valid /\ mem_addr >= FieldBase /\ mem_addr < FieldBase + 284
IsCell    == FieldOff < 256

-----------------------------------------------------------------------------
(* The combinational path: pod lookup, gather, derivative.                 *)

Pod     == HexPod(field_center)
InStore == \A j \in 0 .. 6 : Pod[j] \in CellIdx

(* What the seven cell ports may carry: port 0 is the centre cc, port k+1  *)
(* the neighbour F_k, all of them the low 6 trits of a cell.               *)
Gathers ==
  LET missing == {j \in 0 .. 6 : Pod[j] \notin CellIdx}
  IN  {[j \in 0 .. 6 |-> IF j \in missing THEN u[j] ELSE Low6(cells[Pod[j]])] :
         u \in [missing -> Unknown]}

Neighbors(g) == [k \in Dir |-> g[k + 1]]
DivOf(g)     == Div(Neighbors(g))
CurlOf(g)    == Curl(Neighbors(g))

(* The cell port j writes to, if any: a missing cell is dropped or, when   *)
(* aliased, found under the low 6 bits of its index.                       *)
Lands(j, c, aliased) == /\ Pod[j] \in CellIdx \/ aliased
                        /\ Pod[j] % 64 = c

(* The cells after the ports of w are written; the last assignment wins.   *)
Scatter(w, aliased) ==
  [c \in CellIdx |->
     LET ports == {j \in DOMAIN w : Lands(j, c, aliased)}
     IN  IF ports = {} THEN cells[c]
         ELSE w[CHOOSE j \in ports : \A i \in ports : i <= j]]

(* Mutant: the two grades on each other's neighbour.                       *)
ReconWordsSwapped(g) ==
  LET nb == Recon(CurlOf(g), DivOf(g))
  IN  [j \in 0 .. 6 |-> IF j = 0 THEN 0 ELSE nb[j - 1]]

(* TRECON: what the seven ports write back, the centre first.              *)
ReconWords(g) ==
  LET nb == Recon(DivOf(g), CurlOf(g))
  IN  [j \in 0 .. 6 |-> IF j = 0 THEN 0 ELSE nb[j - 1]]

-----------------------------------------------------------------------------
(* The registers.                                                          *)

FieldReset ==
  /\ cells' = [c \in CellIdx |-> 0]
  /\ field_center' = 0
  /\ field_ready' = FALSE
  /\ field_rdata' = 0

StoreCell ==
  /\ FieldHit /\ IsStore /\ IsCell
  /\ cells' = [cells EXCEPT ![FieldOff \div 4] = mem_wdata]
  /\ UNCHANGED <<field_center, field_rdata>>

StoreCenter ==
  /\ FieldHit /\ IsStore /\ FieldOff = 256
  /\ field_center' = mem_wdata
  /\ UNCHANGED <<cells, field_rdata>>

StoreRecon ==
  /\ FieldHit /\ IsStore /\ FieldOff = 276
  /\ \E g \in Gathers, aliased \in BOOLEAN : cells' = Scatter(ReconWords(g), aliased)
  /\ UNCHANGED <<field_center, field_rdata>>

StoreRelax ==
  /\ FieldHit /\ IsStore /\ FieldOff = 280
  /\ \E g \in Gathers, aliased \in BOOLEAN :
       cells' = Scatter([j \in {0} |-> Relax(g[0], Neighbors(g))], aliased)
  /\ UNCHANGED <<field_center, field_rdata>>

(* The other offsets of the window are read-only: the store is answered    *)
(* and has no effect.                                                      *)
FieldStoreNowhere ==
  /\ FieldHit /\ IsStore /\ ~IsCell /\ FieldOff \notin {256, 276, 280}
  /\ UNCHANGED <<cells, field_center, field_rdata>>

(* What a load at offset off returns when the gather is g.                 *)
FieldRegister(off, g) ==
  CASE off < 256 -> cells[off \div 4]
    [] off = 260 -> DivOf(g)
    [] off = 264 -> CurlOf(g)
    [] off = 268 -> IF Ofit(DivOf(g), CurlOf(g)) THEN 1 ELSE 0
    [] off = 272 -> Relax(g[0], Neighbors(g))
    [] OTHER     -> 0

FieldLoad ==
  /\ FieldHit /\ IsLoad
  /\ \E g \in Gathers : field_rdata' = FieldRegister(FieldOff, g)
  /\ UNCHANGED <<cells, field_center>>

FieldQuiet == ~FieldHit /\ UNCHANGED <<cells, field_center, field_rdata>>

(* One clock edge out of reset.                                            *)
FieldEdge ==
  /\ field_ready' = FieldHit
  /\ \/ StoreCell \/ StoreCenter \/ StoreRecon \/ StoreRelax \/ FieldStoreNowhere
     \/ FieldLoad \/ FieldQuiet
=============================================================================
