------------------------------- MODULE TauSoc ------------------------------
(***************************************************************************)
(* rtl/tau_soc.v, clock edge by clock edge: a binary RISC-V core           *)
(* (PicoRV32, which the repository uses and does not contain) on one       *)
(* memory port shared by a RAM and three peripherals.                      *)
(*                                                                         *)
(* All registers change together at a clock edge, so the next-state        *)
(* relation is the conjunction of what the core and the four devices do at *)
(* the edge, each a disjunction of its own cases.  Reset is asynchronous   *)
(* in the peripherals (negedge resetn), synchronous in the core, and does  *)
(* not reach the RAM.                                                      *)
(***************************************************************************)
EXTENDS HexMmuPeriph, HexFieldAccel, TernaryLinkPeriph, Ram

CONSTANT Requests    \* the accesses the program makes: [addr, wdata, wstrb]

VARIABLES
  resetn,
  memory, ram_ready, ram_rdata,
  performed    \* history: edges at which a device acted on the current request, 2 for more

busVars  == <<mem_addr, mem_wdata, mem_wstrb>>
coreVars == <<mem_valid, busVars>>
ramVars  == <<memory, ram_ready, ram_rdata>>
vars     == <<resetn, coreVars, ramVars, mmuVars, fieldVars, linkVars, performed>>

(* The core addresses whole words, and what it stores is a word of the     *)
(* device the address selects.                                             *)
WellFormed(r) ==
  /\ r.addr \in Nat /\ r.addr % 4 = 0
  /\ r.wstrb \subseteq Lane
  /\ r.addr < 4 * RamWords => r.wdata \in RamWord
  /\ r.addr \in {MmuBase, FieldBase + 256} => r.wdata \in Flat
  /\ r.addr \in FieldBase .. FieldBase + 255 => r.wdata \in Word
  /\ r.addr = LinkBase => r.wdata \in LinkWord

ASSUME RequestsAssumption ==
  \A r \in Requests :
    WellFormed(r) /\ r = [addr |-> r.addr, wdata |-> r.wdata, wstrb |-> r.wstrb]

(* Mutants: the windows tested in the wrong order; one bound off by one.   *)
ReadyLowFirst == IF mem_addr >= 4096 THEN mmu_ready
                 ELSE IF mem_addr >= 8192 THEN field_ready
                 ELSE IF mem_addr >= 12288 THEN link_ready ELSE ram_ready

ReadyPastBase == IF mem_addr > 12288 THEN link_ready
                 ELSE IF mem_addr > 8192 THEN field_ready
                 ELSE IF mem_addr > 4096 THEN mmu_ready ELSE ram_ready

(* The answer the core sees: multiplexed by the address alone.             *)
mem_ready == IF mem_addr >= 12288 THEN link_ready
             ELSE IF mem_addr >= 8192 THEN field_ready
             ELSE IF mem_addr >= 4096 THEN mmu_ready ELSE ram_ready

mem_rdata == IF mem_addr >= 12288 THEN link_rdata
             ELSE IF mem_addr >= 8192 THEN field_rdata
             ELSE IF mem_addr >= 4096 THEN mmu_rdata ELSE ram_rdata

-----------------------------------------------------------------------------
(* The core.  It raises mem_valid with a request, holds the request until  *)
(* it samples mem_ready, and then lowers mem_valid for at least one cycle; *)
(* the address lines keep their last value in between.                     *)

CoreRequest ==
  /\ ~mem_valid
  /\ \E r \in Requests : /\ mem_addr' = r.addr
                         /\ mem_wdata' = r.wdata
                         /\ mem_wstrb' = r.wstrb
  /\ mem_valid' = TRUE

CoreThink    == ~mem_valid /\ UNCHANGED coreVars
CoreWait     == mem_valid /\ ~mem_ready /\ UNCHANGED coreVars
CoreComplete == mem_valid /\ mem_ready /\ mem_valid' = FALSE /\ UNCHANGED busVars

CoreEdge == CoreRequest \/ CoreThink \/ CoreWait \/ CoreComplete

-----------------------------------------------------------------------------
(* The RAM.                                                                *)

RamHit == mem_valid /\ ~mem_ready /\ mem_addr < 4 * RamWords

(* Mutant: the lanes are ignored.                                          *)
RamAccessAllLanes ==
  /\ RamHit
  /\ ram_ready' = TRUE
  /\ ram_rdata' = memory[mem_addr \div 4]
  /\ memory' = [memory EXCEPT ![mem_addr \div 4] =
                  Merge(@, mem_wdata, IF IsStore THEN Lane ELSE {})]

RamAccess ==
  /\ RamHit
  /\ ram_ready' = TRUE
  /\ ram_rdata' = memory[mem_addr \div 4]
  /\ memory' = [memory EXCEPT ![mem_addr \div 4] = Merge(@, mem_wdata, mem_wstrb)]

(* Mutant: ready is not lowered after an access.                           *)
RamIdleSticky == ~RamHit /\ UNCHANGED ramVars

RamIdle == ~RamHit /\ ram_ready' = FALSE /\ UNCHANGED <<memory, ram_rdata>>

RamEdge == RamAccess \/ RamIdle

-----------------------------------------------------------------------------
Mapped == \/ mem_addr < 4 * RamWords
          \/ mem_addr \in MmuBase .. MmuBase + 27
          \/ mem_addr \in FieldBase .. FieldBase + 283
          \/ mem_addr \in LinkBase .. LinkBase + 19

Performs == RamHit \/ MmuHit \/ FieldHit \/ LinkHit

Count == performed' = IF mem_valid
                      THEN IF Performs /\ performed < 2 THEN performed + 1 ELSE performed
                      ELSE IF mem_valid' THEN 0 ELSE performed

Clock ==
  /\ resetn
  /\ CoreEdge /\ RamEdge /\ MmuEdge /\ FieldEdge /\ LinkEdge
  /\ Count
  /\ UNCHANGED resetn

(* Reset falls between two edges: the peripherals clear at once.           *)
AssertReset ==
  /\ resetn
  /\ resetn' = FALSE
  /\ MmuReset /\ FieldReset /\ LinkReset
  /\ UNCHANGED <<coreVars, ramVars, performed>>

(* A clock edge under reset: the core abandons its request, and the RAM,   *)
(* which has no reset, still answers it.                                   *)
ClockInReset ==
  /\ ~resetn
  /\ mem_valid' = FALSE
  /\ RamEdge
  /\ UNCHANGED <<resetn, busVars, mmuVars, fieldVars, linkVars, performed>>

(* Reset lasts at least until the core has seen a clock edge under it.     *)
ReleaseReset ==
  /\ ~resetn /\ ~mem_valid
  /\ resetn' = TRUE
  /\ UNCHANGED <<coreVars, ramVars, mmuVars, fieldVars, linkVars, performed>>

(* Power-on, with the peripherals already reset; the registers of the core *)
(* and the RAM port that no reset reaches start with any value.            *)
Init ==
  /\ resetn = FALSE
  /\ mem_valid = FALSE
  /\ \E r \in Requests : mem_addr = r.addr /\ mem_wdata = r.wdata /\ mem_wstrb = r.wstrb
  /\ memory \in [RamIdx -> RamWord]
  /\ ram_ready \in BOOLEAN
  /\ ram_rdata \in RamWord
  /\ mmu_center = 0 /\ mmu_ready = FALSE /\ mmu_rdata = 0
  /\ cells = [c \in CellIdx |-> 0]
  /\ field_center = 0 /\ field_ready = FALSE /\ field_rdata = 0
  /\ link_word = 0
  /\ link_ready = FALSE /\ link_rdata = 0
  /\ performed = 0

Next == Clock \/ AssertReset \/ ClockInReset \/ ReleaseReset

Spec == Init /\ [][Next]_vars

(* The clock keeps running, in reset as out of it.                         *)
FairSpec == Spec /\ WF_vars(Clock) /\ WF_vars(ClockInReset)

-----------------------------------------------------------------------------
(* The program's view: a request is pending until a device acts on it.     *)
Phase == CASE ~mem_valid -> "idle"
           [] mem_valid /\ performed = 0 -> "pending"
           [] OTHER -> "done"

CONSTANT NoAnswer

Promise == INSTANCE SocSpec
  WITH on <- resetn, phase <- Phase,
       req <- [addr |-> mem_addr, wdata |-> mem_wdata, wstrb |-> mem_wstrb],
       answer <- IF resetn /\ Phase = "done" /\ mem_wstrb = {} THEN mem_rdata ELSE NoAnswer,
       mmuCenter <- mmu_center, fieldCenter <- field_center, linkWord <- link_word

-----------------------------------------------------------------------------
(* A step that is a clock edge out of reset.                               *)
Edge == resetn /\ resetn'

(* Types.  The core's outputs always show one of its requests; each device *)
(* register keeps to its width.                                            *)
TypeOK ==
  /\ resetn \in BOOLEAN /\ mem_valid \in BOOLEAN
  /\ \E r \in Requests : mem_addr = r.addr /\ mem_wdata = r.wdata /\ mem_wstrb = r.wstrb
  /\ memory \in [RamIdx -> RamWord]
  /\ ram_ready \in BOOLEAN /\ ram_rdata \in RamWord
  /\ mmu_center \in Flat /\ mmu_ready \in BOOLEAN /\ mmu_rdata \in Flat
  /\ cells \in [CellIdx -> Word]
  /\ field_center \in Flat /\ field_ready \in BOOLEAN /\ field_rdata \in Word
  /\ link_word \in LinkWord /\ link_ready \in BOOLEAN /\ link_rdata \in Nat
  /\ performed \in 0 .. 2

(* The handshake (tau_soc.v:48-97).  While a request is up, the core sees  *)
(* ready exactly when a device acted on this very request one edge ago: a  *)
(* ready line left over from the previous request never answers the next   *)
(* one, and no device is still silent one edge after acting.               *)
Handshake ==
  resetn /\ mem_valid => /\ mem_ready <=> performed = 1
                         /\ performed \in {0, 1}

(* At most one device drives ready, and it is the one whose address range  *)
(* the multiplexer (tau_soc.v:92-97) selects, so no answer is masked.      *)
OneAnswer ==
  LET lines == <<ram_ready, mmu_ready, field_ready, link_ready>>
      up    == {i \in DOMAIN lines : lines[i]}
  IN  resetn /\ mem_valid => \A i, j \in up : i = j /\ mem_ready

(* The programs SocSpec is about: R holds no TRELAX store, and every centre *)
(* it stores has its pod in the cells.                                     *)
AtomicProgram(R) ==
  \A r \in R : r.wstrb # {} =>
    /\ r.addr # FieldBase + 280
    /\ r.addr = FieldBase + 256 => \A j \in 0 .. 6 : HexPod(r.wdata)[j] \in CellIdx

(* The SoC implements the atomic devices of SocSpec.                       *)
AtomicDevices == Promise!SocSafety

(* ... and acts on every pending access that reset does not cut off.       *)
AtomicAndLive == Promise!SocFair

(* Every request to a mapped address is answered, or cut off by reset.     *)
Answered == mem_valid /\ Mapped ~> ~mem_valid

(* Holding the request one edge longer than the device needs does no harm: *)
(* the second edge leaves every register the program can see as it is.     *)
SecondEdgeHarmless ==
  [][Edge /\ mem_valid /\ performed = 1 =>
       UNCHANGED <<memory, mmu_center, cells, field_center, link_word>>]_vars

(* What TRECON keeps (hex_field_accel.v:12-14, the flag at 0x10C).  The     *)
(* derivative of the pod survives the store exactly when the flag, read    *)
(* before the store, says it fits; afterwards the flag always reads 0, so  *)
(* a program that reads it late cannot tell.                               *)
HeldBy(store) == [k \in Dir |-> Low6(store[Pod[k + 1]])]

ReconKeeps ==
  Edge /\ FieldHit /\ IsStore /\ FieldOff = 276 /\ InStore =>
    LET before == HeldBy(cells)
        after  == HeldBy(cells')
    IN  /\ Div(after) = Div(before) /\ Curl(after) = Curl(before)
             <=> ~Ofit(Div(before), Curl(before))
        /\ ~Ofit(Div(after), Curl(after))

ReconFlag == [][ReconKeeps]_vars

(* The maximum principle of the heat step (trelax.v): whatever the two     *)
(* roundings do, the relaxed centre lies between the least and the         *)
(* greatest value of its pod.  On the rim of the store the pod includes    *)
(* what a missing cell reads as.                                           *)
Seen == {Low6(cells[c]) : c \in {Pod[j] : j \in 0 .. 6} \cap CellIdx}
          \cup (IF InStore THEN {} ELSE Unknown)

RelaxBounded ==
  Edge /\ FieldHit /\ IsStore /\ FieldOff = 280 /\ field_center \in CellIdx =>
    LET u == cells'[field_center]
    IN  (\E v \in Seen : v <= u) /\ (\E v \in Seen : u <= v)

RelaxMaxPrinciple == [][RelaxBounded]_vars

(* hex_field_accel.v:26 calls a store to 0x118 one step of the centre cell *)
(* (u <- u'); an access held by the core must not step it again.           *)
TrelaxOneStep ==
  [][Edge /\ FieldHit /\ FieldOff = 280 /\ performed = 1 => cells' = cells]_vars
=============================================================================
