------------------------- MODULE TernaryLinkPeriph -------------------------
(***************************************************************************)
(* rtl/ternary_link_periph.v with rtl/ternary_link.v: the transport link,  *)
(* a peripheral at BASE = 0x3000.  A store to BASE latches a word of       *)
(* LinkTrits trits (12 in the RTL), two bits each; loads measure the word. *)
(***************************************************************************)
EXTENDS MemPort, FiniteSets

CONSTANT LinkTrits

ASSUME LinkTritsAssumption == LinkTrits \in Nat \ {0}

(* True of every power; stated because the provers know nothing of ^.      *)
ASSUME LinkPowerAssumption == 4 ^ LinkTrits \in Nat \ {0}

LinkWord == 0 .. 4 ^ LinkTrits - 1            \* reg [23:0]
TritPos  == 0 .. LinkTrits - 1

TritAt(w, i) == (w \div 4 ^ i) % 4            \* word[2*i +: 2]

NullCode  == 0      \* 2'b00; 2'b01 is +1 and 2'b10 is -1
NeverCode == 3      \* 2'b11

VARIABLES link_word, link_ready, link_rdata

linkVars == <<link_word, link_ready, link_rdata>>

LinkBase == 12288
LinkOff  == mem_addr - LinkBase

(* Mutant: the window ends one register early.                             *)
LinkHitShort == mem_valid /\ mem_addr >= LinkBase /\ mem_addr < LinkBase + 16

LinkHit  == mem_valid /\ mem_addr >= LinkBase /\ mem_addr < LinkBase + 20

NullCount(w)  == Cardinality({i \in TritPos : TritAt(w, i) = NullCode})
Active(w) == LinkTrits - NullCount(w)
Flag(w)   == \E i \in TritPos : TritAt(w, i) = NeverCode
Energy(w) == 120 * Active(w) + 5 * NullCount(w)

LinkReset == link_word' = 0 /\ link_ready' = FALSE /\ link_rdata' = 0

LinkTransmit ==
  /\ LinkHit /\ IsStore /\ LinkOff = 0
  /\ link_word' = mem_wdata
  /\ UNCHANGED link_rdata

LinkStoreNowhere ==
  /\ LinkHit /\ IsStore /\ LinkOff # 0
  /\ UNCHANGED <<link_word, link_rdata>>

LinkRegister(off) ==
  CASE off = 0  -> link_word
    [] off = 4  -> NullCount(link_word)
    [] off = 8  -> Active(link_word)
    [] off = 12 -> IF Flag(link_word) THEN 1 ELSE 0
    [] off = 16 -> Energy(link_word)

LinkLoad ==
  /\ LinkHit /\ IsLoad
  /\ link_rdata' = LinkRegister(LinkOff)
  /\ UNCHANGED link_word

LinkQuiet == ~LinkHit /\ UNCHANGED <<link_word, link_rdata>>

(* One clock edge out of reset.                                            *)
LinkEdge ==
  /\ link_ready' = LinkHit
  /\ LinkTransmit \/ LinkStoreNowhere \/ LinkLoad \/ LinkQuiet
=============================================================================
