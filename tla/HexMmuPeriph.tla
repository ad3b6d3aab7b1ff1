---------------------------- MODULE HexMmuPeriph ---------------------------
(***************************************************************************)
(* rtl/hex_mmu_periph.v: the pod lookup as a peripheral at BASE = 0x1000.  *)
(* A store to BASE sets the centre; a load of BASE echoes it and a load of *)
(* BASE + 4 j, j in 1 .. 6, returns the address of the w^(j-1) neighbour.  *)
(***************************************************************************)
EXTENDS MemPort, HexAddr

VARIABLES mmu_center, mmu_ready, mmu_rdata

mmuVars == <<mmu_center, mmu_ready, mmu_rdata>>

MmuBase == 4096
MmuOff  == mem_addr - MmuBase
MmuHit  == mem_valid /\ mem_addr >= MmuBase /\ mem_addr < MmuBase + 28

MmuReset == mmu_center' = 0 /\ mmu_ready' = FALSE /\ mmu_rdata' = 0

MmuStoreCenter ==
  /\ MmuHit /\ IsStore /\ MmuOff = 0
  /\ mmu_center' = mem_wdata
  /\ UNCHANGED mmu_rdata

(* A store to a pod register is answered and has no effect.                *)
MmuStoreNowhere ==
  /\ MmuHit /\ IsStore /\ MmuOff # 0
  /\ UNCHANGED <<mmu_center, mmu_rdata>>

MmuLoad ==
  /\ MmuHit /\ IsLoad
  /\ mmu_rdata' = HexPod(mmu_center)[MmuOff \div 4]
  /\ UNCHANGED mmu_center

MmuQuiet == ~MmuHit /\ UNCHANGED <<mmu_center, mmu_rdata>>

(* One clock edge out of reset.                                            *)
MmuEdge ==
  /\ mmu_ready' = MmuHit
  /\ MmuStoreCenter \/ MmuStoreNowhere \/ MmuLoad \/ MmuQuiet
=============================================================================
