---------------------------- MODULE TauSocProofs ---------------------------
(***************************************************************************)
(* Theorems about the SoC, for every program, memory size, byte size, word *)
(* length of the link and side of the hex lattice: its invariants, and     *)
(* that it implements the atomic devices of SocSpec.                       *)
(***************************************************************************)
EXTENDS TauSoc, HexWalkProofs, FiniteSetTheorems

-----------------------------------------------------------------------------
(* The field calculus: what one pod's arithmetic guarantees, for every     *)
(* field value.                                                            *)

(* The three ranges as bounds.                                             *)
LEMMA Ranges ==
  /\ \A x : x \in Coef  <=> x \in Int /\ -364 <= x /\ x <= 364
  /\ \A x : x \in Coef8 <=> x \in Int /\ -3280 <= x /\ x <= 3280
  /\ \A x : x \in Word  <=> x \in Int /\ -265720 <= x /\ x <= 265720
<1>1. \A n \in Int : \A x : x \in -n .. n <=> x \in Int /\ -n <= x /\ x <= n  OBVIOUS
<1>2. Max6 \in Int /\ Max8 \in Int /\ Max12 \in Int  BY DEF Max6, Max8, Max12
<1>3. /\ \A x : x \in Coef  <=> x \in Int /\ -Max6 <= x /\ x <= Max6
      /\ \A x : x \in Coef8 <=> x \in Int /\ -Max8 <= x /\ x <= Max8
      /\ \A x : x \in Word  <=> x \in Int /\ -Max12 <= x /\ x <= Max12
  BY <1>1, <1>2 DEF Coef, Coef8, Word
<1> QED BY <1>3 DEF Max6, Max8, Max12

(* The six neighbours of a pod, one by one.                                *)
LEMMA SixNeighbors ==
  ASSUME NEW F, \A k \in Dir : F[k] \in Coef
  PROVE  \A k \in {0, 1, 2, 3, 4, 5} : F[k] \in Int /\ -364 <= F[k] /\ F[k] <= 364
BY Ranges DEF Dir

(* TGRAD is lossless at full range (grad_recon.v:54-57): div and curl stay *)
(* within the 8 trits of the adders, so none of the three adders of either *)
(* tree drops a carry.                                                     *)
THEOREM TgradLossless ==
  ASSUME NEW F, \A k \in Dir : F[k] \in Coef
  PROVE  Div(F) \in Coef8 /\ Curl(F) \in Coef8
<1>1. Div(F) \in Int /\ -1456 <= Div(F) /\ Div(F) <= 1456
  BY SixNeighbors DEF Div
<1>2. Curl(F) \in Int /\ -1456 <= Curl(F) /\ Curl(F) <= 1456
  BY SixNeighbors DEF Curl
<1> QED BY <1>1, <1>2, Ranges

(* Cutting a word to six trits leaves a six-trit value, and leaves alone   *)
(* what already is one.                                                    *)
LEMMA Low6Fits ==
  ASSUME NEW x \in Int
  PROVE  Low6(x) \in Coef /\ (x \in Coef => Low6(x) = x)
BY Ranges DEF Low6

(* The maximum principle of trelax_cell: bounds of the pod bound the       *)
(* relaxed centre.  The two roundings, u/3 and the neighbour sum / 9, can  *)
(* err upwards together by less than one step, and the final sum never     *)
(* leaves the six trits it is cut to.                                      *)
THEOREM RelaxBetween ==
  ASSUME NEW u \in Coef, NEW F, \A k \in Dir : F[k] \in Coef,
         NEW lo \in Int, NEW hi \in Int,
         lo <= u, u <= hi,
         \A k \in Dir : lo <= F[k] /\ F[k] <= hi
  PROVE  Relax(u, F) \in Coef /\ lo <= Relax(u, F) /\ Relax(u, F) <= hi
<1> DEFINE s == NbSum(F)
           v == DropTrit(u) + DropTrits(s)
<1>1. /\ s \in Int
      /\ 6 * lo <= s /\ s <= 6 * hi
      /\ -2184 <= s /\ s <= 2184
  <2>1. \A k \in {0, 1, 2, 3, 4, 5} : lo <= F[k] /\ F[k] <= hi  BY DEF Dir
  <2> QED BY <2>1, SixNeighbors DEF NbSum
<1> HIDE DEF s
<1>2. lo <= v /\ v <= hi  BY <1>1, Ranges DEF DropTrit, DropTrits
<1>3. v \in Coef          BY <1>1, Ranges DEF DropTrit, DropTrits
<1>4. Low6(v) = v         BY <1>3, Low6Fits, Ranges
<1> QED BY <1>2, <1>3, <1>4 DEF Relax, s

(* TRECON is a section of TGRAD (hex_field_accel.v:12-14): the derivative  *)
(* of what it writes is the derivative it was given, cut to six trits, and *)
(* it is that derivative itself exactly when ofit stays low.               *)
THEOREM ReconSection ==
  ASSUME NEW div \in Int, NEW curl \in Int
  PROVE  LET J == Recon(div, curl)
         IN  /\ Div(J) = Low6(div) /\ Curl(J) = Low6(curl)
             /\ Div(J) = div /\ Curl(J) = curl <=> ~Ofit(div, curl)
             /\ ~Ofit(Div(J), Curl(J))
<1> DEFINE J == Recon(div, curl)
<1>1. /\ J[0] = Low6(div) /\ J[1] = Low6(curl)
      /\ J[2] = 0 /\ J[3] = 0 /\ J[4] = 0 /\ J[5] = 0
  BY DEF Recon, Dir
<1>2. Low6(div) \in Coef /\ Low6(curl) \in Coef
      /\ Low6(div) \in Int /\ Low6(curl) \in Int
  BY Low6Fits, Ranges
<1>3. Div(J) = Low6(div) /\ Curl(J) = Low6(curl)
  <2> HIDE DEF J
  <2> QED BY <1>1, <1>2 DEF Div, Curl
<1>4. Low6(div) = div /\ Low6(curl) = curl <=> ~Ofit(div, curl)
  BY <1>2, Low6Fits DEF Ofit
<1>5. ~Ofit(Low6(div), Low6(curl))  BY <1>2 DEF Ofit
<1> QED BY <1>3, <1>4, <1>5

-----------------------------------------------------------------------------
(* The RAM.                                                                *)

(* Adding a digit above.                                                   *)
LEMMA Horner ==
  ASSUME NEW B \in Nat, NEW M \in Nat, NEW x \in 0 .. B - 1, NEW y \in 0 .. M - 1
  PROVE  x + B * y \in 0 .. B * M - 1
<1>1. B * y \in Nat /\ B * M \in Nat /\ B * (y + 1) \in Nat  OBVIOUS
<1>2. B * (y + 1) = B * y + B  OBVIOUS
<1>3. B * (y + 1) <= B * M
  <2>1. M - (y + 1) \in Nat  OBVIOUS
  <2>2. B * (M - (y + 1)) \in Nat  BY <2>1
  <2>3. B * (M - (y + 1)) = B * M - B * (y + 1)  OBVIOUS
  <2> QED BY <1>1, <2>2, <2>3
<1> QED BY <1>1, <1>2, <1>3

(* A byte-lane store leaves a word of four bytes.                          *)
LEMMA MergeType ==
  ASSUME NEW old \in RamWord, NEW new \in RamWord, NEW strobe
  PROVE  Merge(old, new, strobe) \in RamWord
<1> DEFINE B == ByteSize
           b(l) == ByteAt(IF l \in strobe THEN new ELSE old, l)
<1>1. B \in Nat /\ B > 0  BY RamAssumption
<1>2. B * B \in Nat /\ B * B > 0  BY <1>1
<1>3. B * (B * B) \in Nat /\ B * (B * B) > 0  BY <1>1, <1>2
<1>4. \A l \in 0 .. 3 : b(l) \in 0 .. B - 1
  <2>1. ASSUME NEW w \in RamWord, NEW l \in 0 .. 3 PROVE Shift(w, l) \in Int
    BY <1>1, <1>2, <1>3 DEF Shift, RamWord
  <2>2. ASSUME NEW w \in RamWord, NEW l \in 0 .. 3 PROVE ByteAt(w, l) \in 0 .. B - 1
    BY <1>1, <2>1 DEF ByteAt
  <2> QED BY <2>2
<1> HIDE DEF b
<1>5. b(2) + B * b(3) \in 0 .. B * B - 1
  <2>1. b(2) \in 0 .. B - 1 /\ b(3) \in 0 .. B - 1  BY <1>4
  <2> QED BY <1>1, <2>1, Horner
<1>6. b(1) + B * (b(2) + B * b(3)) \in 0 .. B * (B * B) - 1
  BY <1>1, <1>2, <1>4, <1>5, Horner
<1>7. b(0) + B * (b(1) + B * (b(2) + B * b(3))) \in 0 .. B * (B * (B * B)) - 1
  BY <1>1, <1>3, <1>4, <1>6, Horner
<1> QED BY <1>7 DEF Merge, RamWord, b

-----------------------------------------------------------------------------
(* The link.                                                               *)

(* The counts of a link word are natural numbers.                          *)
LEMMA NullsType ==
  ASSUME NEW w PROVE NullCount(w) \in Nat /\ Active(w) \in Nat /\ Energy(w) \in Nat
<1> DEFINE N == {i \in TritPos : TritAt(w, i) = NullCode}
<1>1. IsFiniteSet(TritPos) /\ Cardinality(TritPos) = LinkTrits
  BY LinkTritsAssumption, FS_Interval DEF TritPos
<1>2. IsFiniteSet(N) /\ Cardinality(N) <= LinkTrits
  <2>1. N \subseteq TritPos OBVIOUS
  <2> QED BY <1>1, <2>1, FS_Subset
<1>3. Cardinality(N) \in Nat  BY <1>2, FS_CardinalityType
<1>4. NullCount(w) = Cardinality(N)  BY DEF NullCount
<1> HIDE DEF N
<1> QED BY <1>2, <1>3, <1>4, LinkTritsAssumption DEF Active, Energy

-----------------------------------------------------------------------------
(* Type correctness.                                                       *)

(* What the request on the bus is known to be.                             *)
BusOK == WellFormed([addr |-> mem_addr, wdata |-> mem_wdata, wstrb |-> mem_wstrb])

(* The bus always shows one of the program's requests, so what is on it is *)
(* well formed.                                                            *)
LEMMA BusTyped ==
  ASSUME \E r \in Requests : mem_addr = r.addr /\ mem_wdata = r.wdata /\ mem_wstrb = r.wstrb
  PROVE  BusOK
BY RequestsAssumption DEF BusOK, WellFormed

(* An edge of the RAM (tau_soc.v:53-63) keeps its types.                   *)
LEMMA RamTyped ==
  ASSUME BusOK, RamEdge,
         memory \in [RamIdx -> RamWord], ram_ready \in BOOLEAN, ram_rdata \in RamWord
  PROVE  memory' \in [RamIdx -> RamWord] /\ ram_ready' \in BOOLEAN /\ ram_rdata' \in RamWord
<1>1. CASE RamAccess
  <2>1. mem_addr \div 4 \in RamIdx /\ mem_wdata \in RamWord
    BY <1>1, RamAssumption DEF RamAccess, RamHit, BusOK, WellFormed, RamIdx
  <2> QED BY <1>1, <2>1, MergeType DEF RamAccess
<1>2. CASE RamIdle  BY <1>2 DEF RamIdle
<1> QED BY <1>1, <1>2 DEF RamEdge

(* An edge of the pod lookup (hex_mmu_periph.v:37-59) keeps its types: the *)
(* seven addresses it may return are addresses.                            *)
LEMMA MmuTyped ==
  ASSUME BusOK, MmuEdge, mmu_center \in Flat, mmu_rdata \in Flat
  PROVE  mmu_center' \in Flat /\ mmu_ready' \in BOOLEAN /\ mmu_rdata' \in Flat
<1>1. mmu_ready' \in BOOLEAN  BY DEF MmuEdge, MmuHit
<1>2. CASE MmuStoreCenter
  <2>1. mem_wdata \in Flat
    BY <1>2 DEF MmuStoreCenter, MmuOff, BusOK, WellFormed, MmuBase
  <2> QED BY <1>1, <1>2, <2>1 DEF MmuStoreCenter
<1>3. CASE MmuStoreNowhere  BY <1>1, <1>3 DEF MmuStoreNowhere
<1>4. CASE MmuLoad
  <2>1. MmuOff \div 4 \in 0 .. 6
    BY <1>4 DEF MmuLoad, MmuHit, MmuOff, MmuBase, BusOK, WellFormed
  <2> QED BY <1>1, <1>4, <2>1, PodDistinct DEF MmuLoad
<1>5. CASE MmuQuiet  BY <1>1, <1>5 DEF MmuQuiet
<1> QED BY <1>2, <1>3, <1>4, <1>5 DEF MmuEdge

(* An edge of the link (ternary_link_periph.v:61-82) keeps its types.      *)
LEMMA LinkTyped ==
  ASSUME BusOK, LinkEdge, link_word \in LinkWord, link_rdata \in Nat
  PROVE  link_word' \in LinkWord /\ link_ready' \in BOOLEAN /\ link_rdata' \in Nat
<1>1. link_ready' \in BOOLEAN  BY DEF LinkEdge, LinkHit
<1>2. CASE LinkTransmit
  <2>1. mem_wdata \in LinkWord
    BY <1>2 DEF LinkTransmit, LinkOff, BusOK, WellFormed, LinkBase
  <2> QED BY <1>1, <1>2, <2>1 DEF LinkTransmit
<1>3. CASE LinkStoreNowhere  BY <1>1, <1>3 DEF LinkStoreNowhere
<1>4. CASE LinkLoad
  <2>1. LinkOff \in {0, 4, 8, 12, 16}
    BY <1>4 DEF LinkLoad, LinkHit, LinkOff, LinkBase, BusOK, WellFormed
  <2>2. link_word \in Nat  BY DEF LinkWord
  <2>3. LinkRegister(LinkOff) \in Nat  BY <2>1, <2>2, NullsType DEF LinkRegister
  <2> QED BY <1>1, <1>4, <2>3 DEF LinkLoad
<1>5. CASE LinkQuiet  BY <1>1, <1>5 DEF LinkQuiet
<1> QED BY <1>2, <1>3, <1>4, <1>5 DEF LinkEdge

-----------------------------------------------------------------------------
(* The field accelerator.                                                  *)

(* What six or eight trits hold, twelve trits hold.                        *)
LEMMA CoefInWord == Coef \subseteq Word /\ Coef8 \subseteq Word
BY Ranges

(* Whatever a pod port carries is a coefficient.                           *)
LEMMA GatherTyped ==
  ASSUME cells \in [CellIdx -> Word], NEW g \in Gathers
  PROVE  \A j \in 0 .. 6 : g[j] \in Coef
<1> DEFINE missing == {j \in 0 .. 6 : Pod[j] \notin CellIdx}
<1>1. PICK u \in [missing -> Unknown] :
         g = [j \in 0 .. 6 |-> IF j \in missing THEN u[j] ELSE Low6(cells[Pod[j]])]
  BY DEF Gathers
<1>2. ASSUME NEW j \in 0 .. 6 PROVE g[j] \in Coef
  <2>1. CASE j \in missing
    <3>1. u[j] \in Coef  BY <2>1, UnknownAssumption
    <3> HIDE DEF missing
    <3> QED BY <1>1, <2>1, <3>1
  <2>2. CASE j \notin missing
    <3>1. cells[Pod[j]] \in Int  BY <2>2, Ranges
    <3>2. Low6(cells[Pod[j]]) \in Coef  BY <3>1, Low6Fits
    <3> HIDE DEF missing
    <3> QED BY <1>1, <2>2, <3>2
  <2> QED BY <2>1, <2>2
<1> QED BY <1>2

(* The six neighbour ports carry coefficients when all seven do.           *)
LEMMA NeighborsTyped ==
  ASSUME NEW g, \A j \in 0 .. 6 : g[j] \in Coef
  PROVE  \A k \in Dir : Neighbors(g)[k] \in Coef
BY DEF Neighbors, Dir

(* The maximum principle in terms of the seven ports.                      *)
LEMMA RelaxPorts ==
  ASSUME NEW g, \A j \in 0 .. 6 : g[j] \in Coef,
         NEW lo \in Int, NEW hi \in Int, \A j \in 0 .. 6 : lo <= g[j] /\ g[j] <= hi
  PROVE  /\ Relax(g[0], Neighbors(g)) \in Coef
         /\ lo <= Relax(g[0], Neighbors(g)) /\ Relax(g[0], Neighbors(g)) <= hi
<1>1. \A k \in Dir : lo <= Neighbors(g)[k] /\ Neighbors(g)[k] <= hi
  <2>1. \A k \in Dir : k + 1 \in 0 .. 6 /\ Neighbors(g)[k] = g[k + 1]
    BY DEF Neighbors, Dir
  <2> QED BY <2>1
<1>2. g[0] \in Coef /\ lo <= g[0] /\ g[0] <= hi  OBVIOUS
<1> QED BY <1>1, <1>2, NeighborsTyped, RelaxBetween

(* ... and so the relaxed centre is a coefficient.                         *)
LEMMA RelaxTyped ==
  ASSUME NEW g, \A j \in 0 .. 6 : g[j] \in Coef
  PROVE  Relax(g[0], Neighbors(g)) \in Coef
<1>1. \A j \in 0 .. 6 : -364 <= g[j] /\ g[j] <= 364  BY Ranges
<1> QED BY <1>1, RelaxPorts

(* TRECON writes coefficients, whatever the derivative                     *)
(* (grad_recon.v:126-153).                                                 *)
LEMMA ReconTyped ==
  ASSUME NEW div \in Int, NEW curl \in Int, NEW k \in Dir
  PROVE  Recon(div, curl)[k] \in Coef
<1>1. 0 \in Coef /\ Low6(div) \in Coef /\ Low6(curl) \in Coef  BY Low6Fits, Ranges
<1> QED BY <1>1 DEF Recon

(* ... at every port.                                                      *)
LEMMA ReconWordsTyped ==
  ASSUME NEW g, \A j \in 0 .. 6 : g[j] \in Coef
  PROVE  \A j \in 0 .. 6 : ReconWords(g)[j] \in Coef
<1>1. DivOf(g) \in Int /\ CurlOf(g) \in Int
  BY NeighborsTyped, TgradLossless, Ranges DEF DivOf, CurlOf
<1>2. 0 \in Coef  BY Ranges
<1>3. \A j \in 0 .. 6 : j # 0 => j - 1 \in Dir  BY DEF Dir
<1> QED BY <1>1, <1>2, <1>3, ReconTyped DEF ReconWords

(* A nonempty set of ports has a last one.                                 *)
LEMMA LastPort ==
  ASSUME NEW S \in SUBSET (0 .. 6), S # {}
  PROVE  \E j \in S : \A i \in S : i <= j
<1> SUFFICES ASSUME \A j \in S : \E i \in S : ~(i <= j) PROVE FALSE  OBVIOUS
<1>1. \A j \in S : j \in {0, 1, 2, 3, 4, 5, 6}  OBVIOUS
<1>6. 6 \notin S  BY <1>1
<1>5. 5 \notin S  BY <1>1, <1>6
<1>4. 4 \notin S  BY <1>1, <1>6, <1>5
<1>3. 3 \notin S  BY <1>1, <1>6, <1>5, <1>4
<1>2. 2 \notin S  BY <1>1, <1>6, <1>5, <1>4, <1>3
<1>7. 1 \notin S  BY <1>1, <1>6, <1>5, <1>4, <1>3, <1>2
<1>8. 0 \notin S  BY <1>1, <1>6, <1>5, <1>4, <1>3, <1>2, <1>7
<1> QED BY <1>1, <1>2, <1>3, <1>4, <1>5, <1>6, <1>7, <1>8

(* Writing coefficients through some of the ports leaves words in the      *)
(* cells.                                                                  *)
LEMMA ScatterTyped ==
  ASSUME cells \in [CellIdx -> Word], NEW w, DOMAIN w \subseteq 0 .. 6,
         \A j \in DOMAIN w : w[j] \in Coef, NEW aliased
  PROVE  Scatter(w, aliased) \in [CellIdx -> Word]
<1>2. ASSUME NEW c \in CellIdx
      PROVE  Scatter(w, aliased)[c] \in Word
  <2> DEFINE ports == {j \in DOMAIN w : Lands(j, c, aliased)}
  <2>1. CASE ports = {}  BY <2>1 DEF Scatter
  <2>2. CASE ports # {}
    <3>1. ports \in SUBSET (0 .. 6)  OBVIOUS
    <3>2. \E j \in ports : \A i \in ports : i <= j  BY LastPort, <2>2, <3>1
    <3>3. (CHOOSE j \in ports : \A i \in ports : i <= j) \in DOMAIN w  BY <3>2
    <3> QED BY <2>2, <3>3, CoefInWord DEF Scatter
  <2> QED BY <2>1, <2>2
<1> QED BY <1>2 DEF Scatter

(* Every register of the accelerator reads as a word.                      *)
LEMMA RegisterTyped ==
  ASSUME cells \in [CellIdx -> Word], NEW g \in Gathers, NEW off \in 0 .. 283
  PROVE  FieldRegister(off, g) \in Word
<1>1. \A j \in 0 .. 6 : g[j] \in Coef  BY GatherTyped
<1>2. DivOf(g) \in Word /\ CurlOf(g) \in Word
  BY <1>1, NeighborsTyped, TgradLossless, CoefInWord DEF DivOf, CurlOf
<1>3. Relax(g[0], Neighbors(g)) \in Word  BY <1>1, RelaxTyped, CoefInWord
<1>4. 0 \in Word /\ 1 \in Word  BY Ranges
<1>5. off < 256 => cells[off \div 4] \in Word
  <2>1. off < 256 => off \div 4 \in CellIdx  BY DEF CellIdx
  <2> QED BY <2>1
<1> QED BY <1>2, <1>3, <1>4, <1>5 DEF FieldRegister

(* An edge of the accelerator (hex_field_accel.v:92-131) keeps its types.  *)
LEMMA FieldTyped ==
  ASSUME BusOK, FieldEdge,
         cells \in [CellIdx -> Word], field_center \in Flat, field_rdata \in Word
  PROVE  /\ cells' \in [CellIdx -> Word]
         /\ field_center' \in Flat /\ field_ready' \in BOOLEAN /\ field_rdata' \in Word
<1>1. field_ready' \in BOOLEAN  BY DEF FieldEdge, FieldHit
<1>2. FieldHit => FieldOff \in 0 .. 283
  BY DEF FieldHit, FieldOff, FieldBase, BusOK, WellFormed
<1>3. CASE StoreCell
  <2>1. FieldOff \div 4 \in CellIdx  BY <1>2, <1>3 DEF StoreCell, IsCell, CellIdx
  <2>2. mem_wdata \in Word
    BY <1>3 DEF StoreCell, FieldHit, IsCell, FieldOff, FieldBase, BusOK, WellFormed
  <2> QED BY <1>1, <1>3, <2>1, <2>2 DEF StoreCell
<1>4. CASE StoreCenter
  <2>1. mem_wdata \in Flat
    BY <1>4 DEF StoreCenter, FieldOff, FieldBase, BusOK, WellFormed
  <2> QED BY <1>1, <1>4, <2>1 DEF StoreCenter
<1>5. CASE StoreRecon
  <2>1. PICK g \in Gathers, aliased \in BOOLEAN : cells' = Scatter(ReconWords(g), aliased)
    BY <1>5 DEF StoreRecon
  <2>2. \A j \in 0 .. 6 : ReconWords(g)[j] \in Coef  BY GatherTyped, ReconWordsTyped
  <2>3. DOMAIN ReconWords(g) = 0 .. 6  BY DEF ReconWords
  <2>4. cells' \in [CellIdx -> Word]  BY <2>1, <2>2, <2>3, ScatterTyped
  <2> QED BY <1>1, <1>5, <2>4 DEF StoreRecon
<1>6. CASE StoreRelax
  <2>1. PICK g \in Gathers, aliased \in BOOLEAN :
          cells' = Scatter([j \in {0} |-> Relax(g[0], Neighbors(g))], aliased)
    BY <1>6 DEF StoreRelax
  <2> DEFINE w == [j \in {0} |-> Relax(g[0], Neighbors(g))]
  <2>2. DOMAIN w \subseteq 0 .. 6 /\ \A j \in DOMAIN w : w[j] \in Coef
    BY GatherTyped, RelaxTyped
  <2>3. cells' = Scatter(w, aliased)  BY <2>1
  <2> HIDE DEF w
  <2>4. cells' \in [CellIdx -> Word]  BY <2>2, <2>3, ScatterTyped
  <2> QED BY <1>1, <1>6, <2>4 DEF StoreRelax
<1>7. CASE FieldStoreNowhere  BY <1>1, <1>7 DEF FieldStoreNowhere
<1>8. CASE FieldLoad
  <2>1. field_rdata' \in Word  BY <1>2, <1>8, RegisterTyped DEF FieldLoad
  <2> QED BY <1>1, <1>8, <2>1 DEF FieldLoad
<1>9. CASE FieldQuiet  BY <1>1, <1>9 DEF FieldQuiet
<1> QED BY <1>3, <1>4, <1>5, <1>6, <1>7, <1>8, <1>9 DEF FieldEdge

-----------------------------------------------------------------------------
(* The handshake.  The strengthening says, of every single ready line,     *)
(* when it is up: one edge after its device was addressed and acted.       *)

ReadyLines ==
  /\ ram_ready   <=> performed = 1 /\ mem_addr < 4 * RamWords
  /\ mmu_ready   <=> performed = 1 /\ MmuHit
  /\ field_ready <=> performed = 1 /\ FieldHit
  /\ link_ready  <=> performed = 1 /\ LinkHit
  /\ performed = 1 => mem_addr < 4 * RamWords \/ MmuHit \/ FieldHit \/ LinkHit

Counted ==
  /\ performed \in 0 .. 2
  /\ mem_valid => performed \in {0, 1}

HandInv == Counted /\ (resetn /\ mem_valid => ReadyLines)

(* The four windows do not overlap.                                        *)
LEMMA Windows ==
  ASSUME BusOK
  PROVE  /\ mem_addr < 4 * RamWords => mem_addr < 4096
         /\ MmuHit   => 4096 <= mem_addr /\ mem_addr < 8192
         /\ FieldHit => 8192 <= mem_addr /\ mem_addr < 12288
         /\ LinkHit  => 12288 <= mem_addr
         /\ mem_addr \in Nat
BY RamAssumption
   DEF BusOK, WellFormed, MmuHit, FieldHit, LinkHit, MmuBase, FieldBase, LinkBase

(* The multiplexer (tau_soc.v:92-94) passes on the one line that is up.    *)
LEMMA ReadyIffPerformed ==
  ASSUME BusOK, ReadyLines
  PROVE  mem_ready <=> performed = 1
BY Windows DEF ReadyLines, mem_ready

(* The inductive invariant: TypeOK is inductive with the windows alone,    *)
(* the handshake needs to know of each line separately.                    *)
IInv == TypeOK /\ HandInv

(* What reset writes is typed.                                             *)
LEMMA Zeros == 0 \in Flat /\ 0 \in Word /\ 0 \in LinkWord
<1>1. 0 \in Flat
  <2>1. Side * Side \in Nat /\ Side * Side >= 1  BY FoldFacts
  <2> QED BY <2>1 DEF Flat
<1>2. 0 \in LinkWord
  <2> DEFINE n == 4 ^ LinkTrits
  <2>1. n \in Nat \ {0}  BY LinkPowerAssumption
  <2> HIDE DEF n
  <2>2. 0 \in 0 .. n - 1  BY <2>1
  <2> QED BY <2>2 DEF LinkWord, n
<1> QED BY <1>1, <1>2, Ranges

(* The invariant holds at power-on,                                        *)
LEMMA InitIInv == Init => IInv
<1> SUFFICES ASSUME Init PROVE IInv  OBVIOUS
<1>1. 0 \in Flat /\ 0 \in Word /\ 0 \in LinkWord  BY Zeros
<1>2. TypeOK
  <2>1. cells \in [CellIdx -> Word]  BY <1>1 DEF Init
  <2>2. performed \in 0 .. 2 /\ link_rdata \in Nat  BY DEF Init
  <2> QED BY <1>1, <2>1, <2>2, Zenon DEF Init, TypeOK
<1>3. HandInv  BY DEF Init, HandInv, Counted
<1> QED BY <1>2, <1>3 DEF IInv

(* every clock edge and every change of reset keeps it,                    *)
LEMMA NextIInv == IInv /\ [Next]_vars => IInv'
<1> SUFFICES ASSUME IInv, [Next]_vars PROVE IInv'  OBVIOUS
<1>0. TypeOK /\ HandInv /\ BusOK  BY BusTyped DEF IInv, TypeOK
<1>1. CASE Clock
  <2>1. /\ resetn /\ resetn' = resetn
        /\ CoreEdge /\ RamEdge /\ MmuEdge /\ FieldEdge /\ LinkEdge /\ Count
    BY <1>1 DEF Clock
  <2>2. HandInv'
    <3>1. CASE CoreRequest
      <4>1. ~mem_valid /\ performed' = 0  BY <2>1, <3>1 DEF CoreRequest, Count
      <4>2. ~ram_ready' /\ ~mmu_ready' /\ ~field_ready' /\ ~link_ready'
        BY <2>1, <4>1 DEF RamEdge, RamAccess, RamIdle, RamHit, MmuEdge, MmuHit,
                          FieldEdge, FieldHit, LinkEdge, LinkHit
      <4> QED BY <4>1, <4>2 DEF HandInv, Counted, ReadyLines
    <3>2. CASE CoreThink
      <4>1. ~mem_valid /\ ~mem_valid' /\ performed' = performed
        BY <2>1, <3>2 DEF CoreThink, coreVars, Count
      <4> QED BY <1>0, <4>1 DEF HandInv, Counted
    <3>3. CASE CoreWait
      <4>1. mem_valid /\ ~mem_ready /\ UNCHANGED <<mem_valid, mem_addr, mem_wdata, mem_wstrb>>
        BY <3>3 DEF CoreWait, coreVars, busVars
      <4>2. performed = 0
        BY <1>0, <2>1, <4>1, ReadyIffPerformed DEF HandInv, Counted
      <4>3. performed' = IF Performs THEN 1 ELSE 0  BY <2>1, <4>1, <4>2 DEF Count
      <4>4. /\ ram_ready' <=> mem_addr < 4 * RamWords
            /\ mmu_ready' <=> MmuHit
            /\ field_ready' <=> FieldHit
            /\ link_ready' <=> LinkHit
        BY <2>1, <4>1 DEF RamEdge, RamAccess, RamIdle, RamHit, MmuEdge, FieldEdge, LinkEdge
      <4>5. Performs <=> mem_addr < 4 * RamWords \/ MmuHit \/ FieldHit \/ LinkHit
        BY <4>1 DEF Performs, RamHit
      <4>6. (MmuHit' <=> MmuHit) /\ (FieldHit' <=> FieldHit) /\ (LinkHit' <=> LinkHit)
        BY <4>1 DEF MmuHit, FieldHit, LinkHit
      <4>7. ReadyLines'  BY <4>1, <4>3, <4>4, <4>5, <4>6 DEF ReadyLines
      <4> QED BY <4>3, <4>7 DEF HandInv, Counted
    <3>4. CASE CoreComplete
      <4>1. mem_valid /\ ~mem_valid'  BY <3>4 DEF CoreComplete
      <4>2. performed' \in 0 .. 2  BY <1>0, <2>1, <4>1 DEF HandInv, Counted, Count
      <4> QED BY <4>1, <4>2 DEF HandInv, Counted
    <3> QED BY <2>1, <3>1, <3>2, <3>3, <3>4 DEF CoreEdge
  <2>3. TypeOK'
    <3>1. mem_valid' \in BOOLEAN
      /\ \E r \in Requests : mem_addr' = r.addr /\ mem_wdata' = r.wdata /\ mem_wstrb' = r.wstrb
      BY <1>0, <2>1 DEF TypeOK, CoreEdge, CoreRequest, CoreThink, CoreWait, CoreComplete,
                        coreVars, busVars
    <3>2. performed' \in 0 .. 2  BY <2>2 DEF HandInv, Counted
    <3> QED BY <1>0, <2>1, <3>1, <3>2, RamTyped, MmuTyped, FieldTyped, LinkTyped DEF TypeOK
  <2> QED BY <2>2, <2>3 DEF IInv
<1>2. CASE AssertReset
  <2>1. 0 \in Flat /\ 0 \in Word /\ 0 \in LinkWord  BY Zeros
  <2>2. TypeOK'
    BY <1>0, <1>2, <2>1
    DEF TypeOK, AssertReset, MmuReset, FieldReset, LinkReset, coreVars, busVars, ramVars
  <2>3. HandInv'
    BY <1>0, <1>2 DEF HandInv, Counted, AssertReset, coreVars, busVars
  <2> QED BY <2>2, <2>3 DEF IInv
<1>3. CASE ClockInReset
  <2>1. TypeOK'
    BY <1>0, <1>3, RamTyped DEF TypeOK, ClockInReset, busVars, mmuVars, fieldVars, linkVars
  <2>2. HandInv'
    BY <1>0, <1>3 DEF HandInv, Counted, ClockInReset
  <2> QED BY <2>1, <2>2 DEF IInv
<1>4. CASE ReleaseReset
  <2>1. TypeOK'
    BY <1>0, <1>4
    DEF TypeOK, ReleaseReset, coreVars, busVars, ramVars, mmuVars, fieldVars, linkVars
  <2>2. HandInv'
    BY <1>0, <1>4 DEF HandInv, Counted, ReleaseReset, coreVars, busVars
  <2> QED BY <2>1, <2>2 DEF IInv
<1>5. CASE UNCHANGED vars
  <2>1. TypeOK'
    BY <1>0, <1>5 DEF TypeOK, vars, coreVars, busVars, ramVars, mmuVars, fieldVars, linkVars
  <2>2. HandInv'
    BY <1>0, <1>5 DEF HandInv, Counted, ReadyLines, MmuHit, FieldHit, LinkHit,
                      vars, coreVars, busVars, ramVars, mmuVars, fieldVars, linkVars
  <2> QED BY <2>1, <2>2 DEF IInv
<1> QED BY <1>1, <1>2, <1>3, <1>4, <1>5 DEF Next

(* so it holds always.                                                     *)
LEMMA Invariance == Spec => []IInv
BY InitIInv, NextIInv, PTL DEF Spec

(* Every register keeps to its width in every behaviour.                   *)
THEOREM TypeCorrect == Spec => []TypeOK
<1>1. IInv => TypeOK  BY DEF IInv
<1> QED BY <1>1, Invariance, PTL

(* A stale ready line never answers a request, and no device is late.      *)
THEOREM HandshakeCorrect == Spec => []Handshake
<1>1. IInv => Handshake
  <2> SUFFICES ASSUME IInv, resetn, mem_valid
               PROVE  (mem_ready <=> performed = 1) /\ performed \in {0, 1}
    BY DEF Handshake
  <2>1. BusOK /\ ReadyLines  BY BusTyped DEF IInv, TypeOK, HandInv
  <2> QED BY <2>1, ReadyIffPerformed DEF IInv, HandInv, Counted
<1> QED BY <1>1, Invariance, PTL

(* One device answers, and the multiplexer shows its answer.               *)
THEOREM OneAnswerCorrect == Spec => []OneAnswer
<1>1. IInv => OneAnswer
  <2> SUFFICES ASSUME IInv, resetn, mem_valid PROVE OneAnswer  BY DEF OneAnswer
  <2>1. BusOK /\ ReadyLines  BY BusTyped DEF IInv, TypeOK, HandInv
  <2> DEFINE lines == <<ram_ready, mmu_ready, field_ready, link_ready>>
             up    == {i \in DOMAIN lines : lines[i]}
  <2>2. ASSUME NEW i \in up, NEW j \in up PROVE i = j /\ mem_ready
    <3>1. i \in {1, 2, 3, 4} /\ j \in {1, 2, 3, 4} /\ lines[i] /\ lines[j]  OBVIOUS
    <3>2. performed = 1  BY <2>1, <3>1 DEF ReadyLines
    <3>3. i = j  BY <2>1, <3>1, Windows DEF ReadyLines
    <3> QED BY <2>1, <3>2, <3>3, ReadyIffPerformed
  <2> QED BY <2>2 DEF OneAnswer
<1> QED BY <1>1, Invariance, PTL

-----------------------------------------------------------------------------
(* What the two field stores do to a pod.                                  *)

(* Which action a store to the TRECON or TRELAX register is.               *)
LEMMA FieldStoreAction ==
  ASSUME Clock, FieldHit, IsStore
  PROVE  /\ FieldOff = 276 => StoreRecon
         /\ FieldOff = 280 => StoreRelax
BY DEF Clock, FieldEdge, StoreCell, StoreCenter, StoreRecon, StoreRelax, FieldStoreNowhere,
       FieldLoad, FieldQuiet, IsCell, IsStore, IsLoad

(* Inside the store a gather is what the cells hold.                       *)
LEMMA GatherInStore ==
  ASSUME InStore, NEW g \in Gathers
  PROVE  g = [j \in 0 .. 6 |-> Low6(cells[Pod[j]])]
<1>1. {j \in 0 .. 6 : Pod[j] \notin CellIdx} = {}  BY DEF InStore
<1> QED BY <1>1 DEF Gathers

(* ... and each port writes its own cell.                                  *)
LEMMA ScatterInStore ==
  ASSUME field_center \in Flat, InStore, NEW w, DOMAIN w \subseteq 0 .. 6,
         NEW j \in DOMAIN w, NEW aliased \in BOOLEAN
  PROVE  Scatter(w, aliased)[Pod[j]] = w[j]
<1>1. \A i \in 0 .. 6 : Pod[i] \in CellIdx /\ Pod[i] % 64 = Pod[i]
  BY DEF InStore, CellIdx
<1>2. \A i \in 0 .. 6 : Pod[i] = Pod[j] => i = j  BY PodDistinct DEF Pod
<1> DEFINE ports == {i \in DOMAIN w : Lands(i, Pod[j], aliased)}
<1>3. ports = {j}  BY <1>1, <1>2 DEF Lands
<1>4. (CHOOSE i \in ports : \A k \in ports : k <= i) = j
  <2>1. j \in Int  OBVIOUS
  <2> HIDE DEF ports
  <2> QED BY <1>3, <2>1
<1> QED BY <1>1, <1>3, <1>4 DEF Scatter

(* What a TRECON store leaves in the neighbours is the reconstruction of   *)
(* the derivative they had.                                                *)
LEMMA ReconWordsInStore ==
  ASSUME field_center \in Flat, InStore, NEW g \in Gathers, NEW aliased \in BOOLEAN,
         cells' = Scatter(ReconWords(g), aliased), cells \in [CellIdx -> Word]
  PROVE  HeldBy(cells') = Recon(Div(HeldBy(cells)), Curl(HeldBy(cells)))
<1> DEFINE J == Recon(DivOf(g), CurlOf(g))
<1>1. Neighbors(g) = HeldBy(cells)
  <2>1. \A k \in Dir : k + 1 \in 0 .. 6  BY DEF Dir
  <2> QED BY <2>1, GatherInStore DEF Neighbors, HeldBy
<1>2. J = Recon(Div(HeldBy(cells)), Curl(HeldBy(cells)))  BY <1>1 DEF DivOf, CurlOf
<1>3. DivOf(g) \in Int /\ CurlOf(g) \in Int
  BY GatherTyped, NeighborsTyped, TgradLossless, Ranges DEF DivOf, CurlOf
<1>4. ASSUME NEW k \in Dir PROVE Low6(cells'[Pod[k + 1]]) = J[k]
  <2>1. k + 1 \in 0 .. 6 /\ k + 1 # 0 /\ (k + 1) - 1 = k  BY DEF Dir
  <2>2. DOMAIN ReconWords(g) = 0 .. 6 /\ ReconWords(g)[k + 1] = J[k]
    BY <2>1 DEF ReconWords
  <2>3. cells'[Pod[k + 1]] = J[k]  BY <2>1, <2>2, ScatterInStore
  <2>4. J[k] \in Coef /\ J[k] \in Int  BY <1>3, ReconTyped, Ranges
  <2> QED BY <2>3, <2>4, Low6Fits
<1>5. J = [k \in Dir |-> J[k]]  BY DEF Recon
<1> HIDE DEF J
<1> QED BY <1>2, <1>4, <1>5 DEF HeldBy

(* TRECON keeps the derivative of its pod exactly when the flag, read      *)
(* before the store, was low.                                              *)
THEOREM ReconFlagCorrect == Spec => ReconFlag
<1>1. IInv /\ [Next]_vars => [ReconKeeps]_vars
  <2> SUFFICES ASSUME IInv, Next, Edge, FieldHit, IsStore, FieldOff = 276, InStore
               PROVE  ReconKeeps
    BY DEF ReconKeeps
  <2>1. Clock  BY DEF Next, Edge, AssertReset, ClockInReset, ReleaseReset
  <2>2. PICK g \in Gathers, aliased \in BOOLEAN : cells' = Scatter(ReconWords(g), aliased)
    BY <2>1, FieldStoreAction DEF StoreRecon
  <2> DEFINE before == HeldBy(cells)
             after  == HeldBy(cells')
  <2>3. after = Recon(Div(before), Curl(before))
    BY <2>2, ReconWordsInStore DEF IInv, TypeOK
  <2>4. Div(before) \in Int /\ Curl(before) \in Int
    <3>1. \A k \in Dir : k + 1 \in 0 .. 6  BY DEF Dir
    <3>2. \A k \in Dir : cells[Pod[k + 1]] \in Int
      BY <3>1, Ranges DEF IInv, TypeOK, InStore
    <3>3. \A k \in Dir : before[k] \in Coef  BY <3>2, Low6Fits DEF HeldBy
    <3> QED BY <3>3, TgradLossless, Ranges
  <2> HIDE DEF before, after
  <2>5. /\ Div(after) = Div(before) /\ Curl(after) = Curl(before)
             <=> ~Ofit(Div(before), Curl(before))
        /\ ~Ofit(Div(after), Curl(after))
    BY <2>3, <2>4, ReconSection
  <2> QED BY <2>5 DEF ReconKeeps, before, after
<1> QED BY <1>1, Invariance, PTL DEF Spec, ReconFlag

(* TRELAX obeys the maximum principle at every centre in the store.        *)
THEOREM RelaxMaxCorrect == Spec => RelaxMaxPrinciple
<1>1. IInv /\ [Next]_vars => [RelaxBounded]_vars
  <2> SUFFICES ASSUME IInv, Next, Edge, FieldHit, IsStore, FieldOff = 280,
                      field_center \in CellIdx
               PROVE  RelaxBounded
    BY DEF RelaxBounded
  <2> DEFINE u == cells'[field_center]
  <2>0. cells \in [CellIdx -> Word]  BY DEF IInv, TypeOK
  <2>1. Clock  BY DEF Next, Edge, AssertReset, ClockInReset, ReleaseReset
  <2>2. PICK g \in Gathers, aliased \in BOOLEAN :
          cells' = Scatter([j \in {0} |-> Relax(g[0], Neighbors(g))], aliased)
    BY <2>1, FieldStoreAction DEF StoreRelax
  <2>3. u = Relax(g[0], Neighbors(g))
    <3> DEFINE w == [j \in {0} |-> Relax(g[0], Neighbors(g))]
    <3>1. Pod[0] = field_center  BY DEF Pod, HexPod
    <3>2. field_center % 64 = field_center  BY DEF CellIdx
    <3>3. {j \in DOMAIN w : Lands(j, field_center, aliased)} = {0}
      BY <3>1, <3>2 DEF Lands
    <3>4. (CHOOSE j \in {0} : \A i \in {0} : i <= j) = 0  OBVIOUS
    <3>5. Scatter(w, aliased)[field_center] = w[0]  BY <3>3, <3>4 DEF Scatter
    <3> QED BY <2>2, <3>5
  <2>4. \A j \in 0 .. 6 : g[j] \in Coef /\ g[j] \in Int
    BY <2>0, GatherTyped, Ranges
  <2>5. \A j \in 0 .. 6 : g[j] \in Seen
    <3> DEFINE missing == {j \in 0 .. 6 : Pod[j] \notin CellIdx}
    <3>1. PICK x \in [missing -> Unknown] :
            g = [j \in 0 .. 6 |-> IF j \in missing THEN x[j] ELSE Low6(cells[Pod[j]])]
      BY DEF Gathers
    <3>2. ASSUME NEW j \in 0 .. 6 PROVE g[j] \in Seen
      <4>1. CASE j \in missing
        <5>1. ~InStore  BY <4>1 DEF InStore
        <5>2. x[j] \in Unknown /\ g[j] = x[j]  BY <3>1, <4>1
        <5> QED BY <5>1, <5>2 DEF Seen
      <4>2. CASE j \notin missing
        <5>1. g[j] = Low6(cells[Pod[j]]) /\ Pod[j] \in CellIdx  BY <3>1, <4>2
        <5> QED BY <5>1 DEF Seen
      <4> QED BY <4>1, <4>2
    <3> QED BY <3>2
  <2> HIDE DEF u
  <2>6. u \in Int  BY <2>3, <2>4, RelaxTyped, Ranges
  <2>7. \E v \in Seen : v <= u
    <3> SUFFICES ASSUME \A v \in Seen : ~(v <= u) PROVE FALSE  OBVIOUS
    <3>1. \A j \in 0 .. 6 : u + 1 <= g[j] /\ g[j] <= 364  BY <2>4, <2>5, <2>6, Ranges
    <3>2. u + 1 <= Relax(g[0], Neighbors(g))
      BY <2>4, <2>6, <3>1, RelaxPorts
    <3> QED BY <2>3, <2>6, <3>2
  <2>8. \E v \in Seen : u <= v
    <3> SUFFICES ASSUME \A v \in Seen : ~(u <= v) PROVE FALSE  OBVIOUS
    <3>1. \A j \in 0 .. 6 : -364 <= g[j] /\ g[j] <= u - 1  BY <2>4, <2>5, <2>6, Ranges
    <3>2. Relax(g[0], Neighbors(g)) <= u - 1
      BY <2>4, <2>6, <3>1, RelaxPorts
    <3> QED BY <2>3, <2>6, <3>2
  <2> QED BY <2>7, <2>8 DEF RelaxBounded, u
<1> QED BY <1>1, Invariance, PTL DEF Spec, RelaxMaxPrinciple

-----------------------------------------------------------------------------
(* The refinement of SocSpec, for every program that keeps the pod of the  *)
(* field centre in the store and does not use TRELAX.                      *)
(*                                                                         *)
(* The core holds a request one edge longer than the device needs, so the  *)
(* device acts on it twice, and the effect SocSpec shows is that of the    *)
(* first edge.  The invariant of the refinement says that from then on the *)
(* registers already hold what the request stores, which makes the second  *)
(* edge a stutter.                                                         *)
(*                                                                         *)
(* First the byte lanes of the RAM, which divide.                          *)

(* Quotient and remainder.                                                 *)
LEMMA DivMod ==
  ASSUME NEW n \in Nat, NEW B \in Nat, B > 0
  PROVE  n \div B \in Nat /\ n % B \in 0 .. B - 1 /\ n = B * (n \div B) + (n % B)
OBVIOUS

(* There is only one of each.                                              *)
LEMMA DivUnique ==
  ASSUME NEW n \in Nat, NEW B \in Nat, B > 0,
         NEW q \in Nat, NEW r \in 0 .. B - 1, n = B * q + r
  PROVE  n \div B = q
<1> DEFINE p == n \div B
           s == n % B
<1>2. p \in Nat /\ s \in 0 .. B - 1 /\ n = B * p + s BY DivMod
<1> HIDE DEF p, s
<1>1. p = q
  <2>1. CASE p < q
    <3>1. B * (q - p) >= B
      <4>1. q - p \in Nat /\ q - p >= 1  BY <1>2, <2>1
      <4>2. q - p - 1 \in Nat BY <4>1
      <4>3. B * (q - p - 1) \in Nat BY <4>2
      <4>4. B * (q - p) = B * (q - p - 1) + B BY <4>2, <1>2
      <4> QED BY <4>3, <4>4
    <3>2. B * (q - p) = B * q - B * p BY <1>2
    <3> QED BY <3>1, <3>2, <1>2
  <2>2. CASE q < p
    <3>1. B * (p - q) >= B
      <4>1. p - q \in Nat /\ p - q >= 1  BY <1>2, <2>2
      <4>2. p - q - 1 \in Nat BY <4>1
      <4>3. B * (p - q - 1) \in Nat BY <4>2
      <4>4. B * (p - q) = B * (p - q - 1) + B BY <4>2, <1>2
      <4> QED BY <4>3, <4>4
    <3>2. B * (p - q) = B * p - B * q BY <1>2
    <3> QED BY <3>1, <3>2, <1>2
  <2> QED BY <2>1, <2>2, <1>2
<1> QED BY <1>1 DEF p

(* Dividing twice is dividing by the product.                              *)
LEMMA DivDiv ==
  ASSUME NEW n \in Nat, NEW B \in Nat, B > 0, NEW C \in Nat, C > 0
  PROVE  n \div (B * C) = (n \div B) \div C
<1> DEFINE q == n \div B
           r == n % B
           p == q \div C
           s == q % C
<1>1. q \in Nat /\ r \in 0 .. B - 1 /\ n = B * q + r  BY DivMod
<1>2. p \in Nat /\ s \in 0 .. C - 1 /\ q = C * p + s  BY <1>1, DivMod
<1> HIDE DEF q, r, p, s
<1>3. r + B * s \in 0 .. B * C - 1  BY <1>1, <1>2, Horner
<1>4. n = (B * C) * p + (r + B * s)
  <2>1. B * q = B * (C * p) + B * s  BY <1>2
  <2>2. B * (C * p) = (B * C) * p /\ B * s \in Int BY <1>2
  <2>3. (B * C) * p \in Int BY <1>2
  <2> QED BY <1>1, <2>1, <2>2, <2>3
<1>5. B * C \in Nat /\ B * C > 0 OBVIOUS
<1> QED BY <1>2, <1>3, <1>4, <1>5, DivUnique DEF p, q

(* A number of B C values has a quotient of C values.                      *)
LEMMA DivBelow ==
  ASSUME NEW B \in Nat, B > 0, NEW C \in Nat, NEW n \in 0 .. B * C - 1
  PROVE  n \div B \in 0 .. C - 1
<1> DEFINE q == n \div B
<1>0. B * C \in Nat  OBVIOUS
<1>1. n \in Nat /\ n < B * C  BY <1>0
<1>2. q \in Nat /\ B * q <= n
  <2>1. q \in Nat /\ n % B \in 0 .. B - 1 /\ n = B * q + (n % B)  BY <1>1, DivMod
  <2> HIDE DEF q
  <2>2. B * q \in Nat  BY <2>1
  <2> QED BY <2>1, <2>2
<1> HIDE DEF q
<1>3. CASE q >= C
  <2>1. B * (q - C) \in Nat
    <3>1. q - C \in Nat  BY <1>2, <1>3
    <3> QED BY <3>1
  <2>2. B * (q - C) = B * q - B * C /\ B * q \in Int  BY <1>2
  <2> QED BY <1>0, <1>1, <1>2, <2>1, <2>2
<1> QED BY <1>2, <1>3 DEF q

(* A store to no byte lane, which is what a load does to the RAM           *)
(* (tau_soc.v:57-61), leaves the word as it is.                            *)
LEMMA MergeNone ==
  ASSUME NEW old \in RamWord, NEW new
  PROVE  Merge(old, new, {}) = old
<1> DEFINE B == ByteSize
           q == old \div B
           p == q \div B
           m == p \div B
<1>1. /\ B \in Nat /\ B > 0 /\ B * B \in Nat /\ B * B > 0
      /\ B * (B * B) \in Nat /\ B * (B * B) > 0
  <2>1. B \in Nat /\ B > 0  BY RamAssumption
  <2>2. B * B \in Nat /\ B * B > 0  BY <2>1
  <2> QED BY <2>1, <2>2
<1>2. old \in Nat /\ old \in 0 .. B * (B * (B * B)) - 1
  <2>1. B * (B * (B * B)) \in Nat  BY <1>1
  <2> QED BY <2>1 DEF RamWord
<1>3. q \in 0 .. B * (B * B) - 1 /\ q \in Nat  BY <1>1, <1>2, DivBelow
<1>4. p \in 0 .. B * B - 1 /\ p \in Nat  BY <1>1, <1>3, DivBelow
<1>5. m \in 0 .. B - 1 /\ m \in Nat  BY <1>1, <1>4, DivBelow
<1>6. old \div (B * B) = p /\ old \div (B * (B * B)) = m
  <2>1. old \div (B * (B * B)) = q \div (B * B)  BY <1>1, <1>2, DivDiv
  <2>2. q \div (B * B) = m  BY <1>1, <1>3, DivDiv
  <2>3. old \div (B * B) = p  BY <1>1, <1>2, DivDiv
  <2> QED BY <2>1, <2>2, <2>3
<1> DEFINE b(l) == ByteAt(old, l)
<1>7. b(0) = old % B /\ b(1) = q % B /\ b(2) = p % B /\ b(3) = m
  <2>1. m % B = m
    <3> HIDE DEF m
    <3> QED BY <1>5, <1>1
  <2> QED BY <1>6, <2>1 DEF ByteAt, Shift
<1>8. Merge(old, new, {}) = b(0) + B * (b(1) + B * (b(2) + B * b(3)))
  BY DEF Merge
<1>9. /\ B * m + (p % B) = p /\ p % B \in Nat /\ B * m \in Nat
      /\ B * p + (q % B) = q /\ q % B \in Nat /\ B * p \in Nat
      /\ B * q + (old % B) = old /\ old % B \in Nat /\ B * q \in Nat
  <2>1. \A x \in Nat : B * (x \div B) + (x % B) = x /\ x % B \in Nat /\ x \div B \in Nat
    BY <1>1, DivMod
  <2>2. \A x \in Nat : B * x \in Nat  BY <1>1
  <2> HIDE DEF B
  <2>3. B * m + (p % B) = p /\ p % B \in Nat /\ B * m \in Nat  BY <1>4, <1>5, <2>1, <2>2
  <2>4. B * p + (q % B) = q /\ q % B \in Nat /\ B * p \in Nat  BY <1>3, <1>4, <2>1, <2>2
  <2>5. B * q + (old % B) = old /\ old % B \in Nat /\ B * q \in Nat  BY <1>2, <1>3, <2>1, <2>2
  <2> QED BY <2>3, <2>4, <2>5
<1> HIDE DEF b, p, q, m, B
<1>10. b(2) + B * b(3) = p  BY <1>7, <1>9
<1>11. b(1) + B * p = q  BY <1>7, <1>9
<1>12. b(0) + B * q = old  BY <1>7, <1>9
<1> QED BY <1>8, <1>10, <1>11, <1>12

-----------------------------------------------------------------------------
(* The abstract devices in terms of the registers.                         *)

(* SocSpec takes the address unit, the field calculus and the byte lanes   *)
(* from the same modules: its instance of them is the RTL's.               *)
LEMMA SameUnits ==
  /\ \A c : Promise!HexPod(c) = HexPod(c)
  /\ \A F : Promise!Div(F) = Div(F) /\ Promise!Curl(F) = Curl(F)
  /\ \A x : Promise!Low6(x) = Low6(x)
  /\ \A u, F : Promise!Relax(u, F) = Relax(u, F)
  /\ Promise!Coef = Coef /\ Promise!Dir = Dir
  /\ \A o, n, s : Promise!Merge(o, n, s) = Merge(o, n, s)
  /\ Promise!RamIdx = RamIdx /\ Promise!RamWord = RamWord
<1>1. \A c : Promise!HexPod(c) = HexPod(c)
  <2>1. \A x, y : Promise!SzudzikPair(x, y) = SzudzikPair(x, y)
    BY DEF Promise!SzudzikPair, SzudzikPair
  <2>2. \A n : Promise!SzudzikUnpair(n) = SzudzikUnpair(n)
    BY DEF Promise!SzudzikUnpair, SzudzikUnpair
  <2>3. \A z : Promise!SignFold(z) = SignFold(z)
    BY DEF Promise!SignFold, SignFold, Promise!Abs, Abs, Promise!Side, Side
  <2>4. \A n : Promise!SignUnfold(n) = SignUnfold(n)
    BY DEF Promise!SignUnfold, SignUnfold
  <2>5. \A z : Promise!Wrap(z) = Wrap(z)
    BY DEF Promise!Wrap, Wrap, Promise!Side, Side
  <2>6. \A n : Promise!HexDecode(n) = HexDecode(n)
    BY <2>2, <2>4 DEF Promise!HexDecode, HexDecode
  <2>7. \A x, y : Promise!HexEncode(x, y) = HexEncode(x, y)
    BY <2>1, <2>3 DEF Promise!HexEncode, HexEncode
  <2>8. Promise!Offset = Offset
    BY DEF Promise!Offset, Offset
  <2>9. \A n, k : Promise!HexNeighbor(n, k) = HexNeighbor(n, k)
    BY <2>5, <2>6, <2>7, <2>8 DEF Promise!HexNeighbor, HexNeighbor
  <2> QED BY <2>9 DEF Promise!HexPod, HexPod
<1>2. \A F : Promise!Div(F) = Div(F) /\ Promise!Curl(F) = Curl(F)
  BY DEF Promise!Div, Div, Promise!Curl, Curl
<1>3. \A x : Promise!Low6(x) = Low6(x)
  BY DEF Promise!Low6, Low6
<1>4. \A u, F : Promise!Relax(u, F) = Relax(u, F)
  BY <1>3
     DEF Promise!Relax, Relax, Promise!DropTrit, DropTrit, Promise!DropTrits, DropTrits,
         Promise!NbSum, NbSum
<1>5. Promise!Coef = Coef /\ Promise!Dir = Dir
  BY DEF Promise!Coef, Coef, Promise!Dir, Dir, Promise!Max6, Max6
<1>6. \A o, n, s : Promise!Merge(o, n, s) = Merge(o, n, s)
  BY DEF Promise!Merge, Merge, Promise!ByteAt, ByteAt, Promise!Shift, Shift
<1>7. Promise!RamIdx = RamIdx /\ Promise!RamWord = RamWord
  BY DEF Promise!RamIdx, RamIdx, Promise!RamWord, RamWord
<1> QED BY <1>1, <1>2, <1>3, <1>4, <1>5, <1>6, <1>7

(* The abstract reconstruction, of any pod and contents.                   *)
Rebuilt(seven, store, div, curl) ==
  [c \in CellIdx |-> CASE c = seven[1] -> Low6(div)
                       [] c = seven[2] -> Low6(curl)
                       [] c \in {seven[j] : j \in {0, 3, 4, 5, 6}} -> 0
                       [] OTHER -> store[c]]

(* ... port by port, because the seven addresses of a pod differ.          *)
LEMMA RebuiltAt ==
  ASSUME NEW seven, \A i, j \in 0 .. 6 : seven[i] = seven[j] => i = j,
         NEW store, NEW div, NEW curl, NEW c \in CellIdx
  PROVE  LET r == Rebuilt(seven, store, div, curl)
         IN  /\ c = seven[1] => r[c] = Low6(div)
             /\ c = seven[2] => r[c] = Low6(curl)
             /\ \A j \in {0, 3, 4, 5, 6} : c = seven[j] => r[c] = 0
             /\ (\A j \in 0 .. 6 : c # seven[j]) => r[c] = store[c]
<1> DEFINE rest == {seven[j] : j \in {0, 3, 4, 5, 6}}
<1>1. seven[1] # seven[2] /\ seven[1] \notin rest /\ seven[2] \notin rest
  OBVIOUS
<1>2. (\A j \in {0, 3, 4, 5, 6} : c = seven[j] => c \in rest)
      /\ ((\A j \in 0 .. 6 : c # seven[j]) => c # seven[1] /\ c # seven[2] /\ c \notin rest)
  OBVIOUS
<1>3. Rebuilt(seven, store, div, curl)[c] = CASE c = seven[1] -> Low6(div)
                                            [] c = seven[2] -> Low6(curl)
                                            [] c \in rest -> 0
                                            [] OTHER -> store[c]
  BY DEF Rebuilt
<1> HIDE DEF rest
<1> QED BY <1>1, <1>2, <1>3

(* What SocSpec calls the pod, the derivative and the reconstruction, in   *)
(* terms of the registers, now and after a step.                           *)
LEMMA PromiseRebuilds ==
  /\ Promise!Pod = Pod /\ Promise!Nb = HeldBy(cells)
  /\ Promise!Div0 = Div(HeldBy(cells)) /\ Promise!Curl0 = Curl(HeldBy(cells))
  /\ Promise!Cell = CellIdx
  /\ Promise!Reconstructed = Rebuilt(Pod, cells, Div(HeldBy(cells)), Curl(HeldBy(cells)))
  /\ (Promise!Reconstructed)' =
       Rebuilt(Pod', cells', Div(HeldBy(cells)'), Curl(HeldBy(cells)'))
<1>1. Promise!Pod = Pod /\ Promise!Pod' = Pod'  BY SameUnits DEF Promise!Pod, Pod
<1>2. Promise!Nb = HeldBy(cells) /\ Promise!Nb' = HeldBy(cells)'
  BY <1>1, SameUnits DEF Promise!Nb, HeldBy
<1>3. Promise!Cell = CellIdx  BY DEF Promise!Cell, CellIdx
<1>4. /\ Promise!Div0 = Div(HeldBy(cells)) /\ Promise!Curl0 = Curl(HeldBy(cells))
      /\ Promise!Div0' = Div(HeldBy(cells)') /\ Promise!Curl0' = Curl(HeldBy(cells)')
  BY <1>2, SameUnits DEF Promise!Div0, Promise!Curl0
<1> QED BY <1>1, <1>2, <1>3, <1>4, SameUnits DEF Promise!Reconstructed, Rebuilt

(* Inside the store, TRECON is the abstract reconstruction.                *)
LEMMA ReconIsAbstract ==
  ASSUME field_center \in Flat, InStore, NEW g \in Gathers, NEW aliased \in BOOLEAN
  PROVE  Scatter(ReconWords(g), aliased) = Promise!Reconstructed
<1> DEFINE w == ReconWords(g)
           D == Div(HeldBy(cells))
           C == Curl(HeldBy(cells))
<1>1. Neighbors(g) = HeldBy(cells)
  <2>1. \A k \in Dir : k + 1 \in 0 .. 6  BY DEF Dir
  <2> QED BY <2>1, GatherInStore DEF Neighbors, HeldBy
<1>2. DOMAIN w = 0 .. 6
  BY DEF ReconWords
<1>3. w[0] = 0 /\ w[1] = Low6(D) /\ w[2] = Low6(C) /\ \A j \in {3, 4, 5, 6} : w[j] = 0
  <2>1. DivOf(g) = D /\ CurlOf(g) = C  BY <1>1 DEF DivOf, CurlOf
  <2> HIDE DEF D, C
  <2> QED BY <2>1 DEF ReconWords, Recon, Dir
<1>4. Promise!Reconstructed = Rebuilt(Pod, cells, D, C)  BY PromiseRebuilds
<1> HIDE DEF D, C
<1>5. \A i, j \in 0 .. 6 : Pod[i] = Pod[j] => i = j  BY PodDistinct DEF Pod
<1> HIDE DEF w
<1>6. ASSUME NEW c \in CellIdx PROVE Scatter(w, aliased)[c] = Promise!Reconstructed[c]
  <2>1. CASE \E j \in 0 .. 6 : c = Pod[j]
    <3>1. PICK j \in 0 .. 6 : c = Pod[j]  BY <2>1
    <3>2. Scatter(w, aliased)[c] = w[j]  BY <1>2, <3>1, ScatterInStore
    <3>3. CASE j = 1  BY <1>3, <1>4, <1>5, <3>1, <3>2, <3>3, RebuiltAt
    <3>4. CASE j = 2  BY <1>3, <1>4, <1>5, <3>1, <3>2, <3>4, RebuiltAt
    <3>5. CASE j \in {0, 3, 4, 5, 6}  BY <1>3, <1>4, <1>5, <3>1, <3>2, <3>5, RebuiltAt
    <3> QED BY <3>3, <3>4, <3>5
  <2>2. CASE \A j \in 0 .. 6 : c # Pod[j]
    <3>1. \A j \in 0 .. 6 : Pod[j] \in CellIdx /\ Pod[j] % 64 = Pod[j]
      BY DEF InStore, CellIdx
    <3>2. {j \in DOMAIN w : Lands(j, c, aliased)} = {}  BY <1>2, <2>2, <3>1 DEF Lands
    <3>3. Scatter(w, aliased)[c] = cells[c]  BY <3>2 DEF Scatter
    <3> QED BY <1>4, <1>5, <2>2, <3>3, RebuiltAt
  <2> QED BY <2>1, <2>2
<1>7. Scatter(w, aliased) = [c \in CellIdx |-> Scatter(w, aliased)[c]]  BY DEF Scatter
<1>8. Promise!Reconstructed = [c \in CellIdx |-> Promise!Reconstructed[c]]  BY <1>4 DEF Rebuilt
<1> QED BY <1>6, <1>7, <1>8 DEF w

-----------------------------------------------------------------------------
(* An access that reset cuts off is answered by the RAM all the same.      *)
RamLine == mem_valid /\ performed = 1 /\ mem_addr < 4 * RamWords => ram_ready

(* Once a device has acted, its register already holds the store.          *)
StoreDone ==
  resetn /\ mem_valid /\ performed = 1 /\ IsStore =>
    /\ mem_addr = MmuBase => mmu_center = mem_wdata
    /\ mem_addr = LinkBase => link_word = mem_wdata
    /\ mem_addr = FieldBase + 256 => field_center = mem_wdata
    /\ mem_addr \in FieldBase .. FieldBase + 255 => cells[FieldOff \div 4] = mem_wdata
    /\ mem_addr = FieldBase + 276 => cells = Promise!Reconstructed

AtomicInv == IInv /\ InStore /\ RamLine /\ StoreDone

(* The request on the bus is one the abstract devices are about.           *)
BusAtomic == AtomicProgram({[addr |-> mem_addr, wdata |-> mem_wdata, wstrb |-> mem_wstrb]})

(* It is, because the bus shows one of the program's requests.             *)
LEMMA BusGentle ==
  ASSUME AtomicProgram(Requests),
         \E r \in Requests : mem_addr = r.addr /\ mem_wdata = r.wdata /\ mem_wstrb = r.wstrb
  PROVE  BusAtomic
BY DEF AtomicProgram, BusAtomic

(* The pod of cell 0, the centre after reset, is in the store.            *)
LEMMA ZeroInStore == \A j \in 0 .. 6 : HexPod(0)[j] \in CellIdx
<1>1. Isqrt(0) = 0
  <2>1. 0 \in Flat  BY Zeros
  <2>2. Isqrt(0) \in Nat /\ Isqrt(0) * Isqrt(0) <= 0
    BY <2>1, IsqrtAssumption, HalfSideAssumption DEF Fold, Side
  <2> QED BY <2>2
<1>2. HexDecode(0) = <<0, 0>>
  BY <1>1 DEF HexDecode, SzudzikUnpair, SignUnfold
<1>3. \A d \in {-1, 0, 1} : Wrap(d) = d
  BY HalfSideAssumption DEF Wrap, Side
<1>4. \A d \in {-1, 0, 1} : SignFold(d) \in {0, 1, 2}
  BY HalfSideAssumption DEF SignFold, Side, Abs
<1>5. \A x, y \in {0, 1, 2} : SzudzikPair(x, y) \in CellIdx
  BY DEF SzudzikPair, CellIdx
<1>6. \A k \in 0 .. 5 : HexNeighbor(0, k) \in CellIdx
  <2> SUFFICES ASSUME NEW k \in 0 .. 5 PROVE HexNeighbor(0, k) \in CellIdx  OBVIOUS
  <2>1. Offset[k][1] \in {-1, 0, 1} /\ Offset[k][2] \in {-1, 0, 1}
    BY DEF Offset
  <2>2. HexNeighbor(0, k) = HexEncode(Wrap(0 + Offset[k][1]), Wrap(0 + Offset[k][2]))
    BY <1>2 DEF HexNeighbor
  <2>3. HexNeighbor(0, k) = HexEncode(Offset[k][1], Offset[k][2])
    BY <1>3, <2>1, <2>2
  <2> QED BY <1>4, <1>5, <2>1, <2>3 DEF HexEncode
<1>7. 0 \in CellIdx  BY DEF CellIdx
<1> QED BY <1>6, <1>7 DEF HexPod

(* TRECON a second time changes nothing: what it reconstructed is fixed.   *)
LEMMA ReconTwice ==
  ASSUME field_center \in Flat, InStore, cells \in [CellIdx -> Word], NEW g \in Gathers,
         NEW aliased \in BOOLEAN, cells' = Scatter(ReconWords(g), aliased),
         UNCHANGED field_center
  PROVE  cells' = (Promise!Reconstructed)'
<1>1. cells' = Promise!Reconstructed  BY ReconIsAbstract
<1>2. HeldBy(cells)' = HeldBy(cells')
  BY DEF HeldBy, Pod
<1>3. HeldBy(cells') = Recon(Div(HeldBy(cells)), Curl(HeldBy(cells)))
  BY ReconWordsInStore
<1>4. Div(HeldBy(cells)) \in Int /\ Curl(HeldBy(cells)) \in Int
  <2>1. \A k \in Dir : k + 1 \in 0 .. 6  BY DEF Dir
  <2>2. \A k \in Dir : cells[Pod[k + 1]] \in Int
    BY <2>1, Ranges DEF InStore
  <2>3. \A k \in Dir : HeldBy(cells)[k] \in Coef  BY <2>2, Low6Fits DEF HeldBy
  <2> QED BY <2>3, TgradLossless, Ranges
<1> DEFINE D == Div(HeldBy(cells))
           C == Curl(HeldBy(cells))
<1>5. Low6(Low6(D)) = Low6(D) /\ Low6(Low6(C)) = Low6(C)
  BY <1>4, Low6Fits, Ranges
<1>6. Div(HeldBy(cells)') = Low6(D) /\ Curl(HeldBy(cells)') = Low6(C)
  BY <1>2, <1>3, <1>4, ReconSection
<1>7. /\ (Promise!Reconstructed)' = Rebuilt(Pod, cells', Low6(D), Low6(C))
      /\ cells' = Rebuilt(Pod, cells, D, C)
  <2>1. Pod' = Pod  BY DEF Pod
  <2> QED BY <1>1, <1>6, <2>1, PromiseRebuilds
<1> HIDE DEF D, C
<1>8. \A i, j \in 0 .. 6 : Pod[i] = Pod[j] => i = j  BY PodDistinct DEF Pod
<1>9. ASSUME NEW c \in CellIdx PROVE cells'[c] = Rebuilt(Pod, cells', Low6(D), Low6(C))[c]
  <2>1. CASE c = Pod[1]  BY <1>5, <1>7, <1>8, <2>1, RebuiltAt
  <2>2. CASE c = Pod[2]  BY <1>5, <1>7, <1>8, <2>2, RebuiltAt
  <2>3. CASE \E j \in {0, 3, 4, 5, 6} : c = Pod[j]  BY <1>7, <1>8, <2>3, RebuiltAt
  <2>4. CASE \A j \in 0 .. 6 : c # Pod[j]  BY <1>8, <2>4, RebuiltAt
  <2> QED BY <2>1, <2>2, <2>3, <2>4
<1>10. /\ cells' = [c \in CellIdx |-> cells'[c]]
       /\ \A p, s, x, y : Rebuilt(p, s, x, y) = [c \in CellIdx |-> Rebuilt(p, s, x, y)[c]]
  BY <1>7 DEF Rebuilt
<1> QED BY <1>7, <1>9, <1>10

-----------------------------------------------------------------------------

(* The invariant of the refinement holds at power-on.                      *)
LEMMA InitAtomic == Init => AtomicInv
<1> SUFFICES ASSUME Init PROVE AtomicInv  OBVIOUS
<1>1. InStore  BY ZeroInStore DEF Init, InStore, Pod
<1> QED BY <1>1, InitIInv DEF Init, AtomicInv, RamLine, StoreDone

(* The edge after the one at which the device acted: the core takes the    *)
(* answer, and the device, which still sees the request, stores what its   *)
(* registers already hold.                                                 *)
LEMMA SecondEdge ==
  ASSUME AtomicInv, BusAtomic, Clock, mem_valid, performed = 1
  PROVE  /\ CoreComplete
         /\ UNCHANGED <<memory, mmu_center, cells, field_center, link_word>>
<1>1. TypeOK /\ BusOK /\ ReadyLines /\ InStore /\ StoreDone /\ resetn
  BY BusTyped DEF AtomicInv, IInv, TypeOK, HandInv, Clock
<1>2. mem_ready  BY <1>1, ReadyIffPerformed
<1>3. CoreComplete
  BY <1>2 DEF Clock, CoreEdge, CoreRequest, CoreThink, CoreWait
<1>4. memory' = memory
  BY <1>2 DEF Clock, RamEdge, RamAccess, RamIdle, RamHit
<1>5. mmu_center' = mmu_center
  BY <1>1 DEF Clock, MmuEdge, MmuStoreCenter, MmuStoreNowhere, MmuLoad, MmuQuiet, MmuOff,
              MmuHit, BusOK, WellFormed, MmuBase, StoreDone
<1>6. link_word' = link_word
  BY <1>1 DEF Clock, LinkEdge, LinkTransmit, LinkStoreNowhere, LinkLoad, LinkQuiet, LinkOff,
              LinkHit, BusOK, WellFormed, LinkBase, StoreDone
<1>7. cells' = cells /\ field_center' = field_center
  <2>0. FieldEdge /\ mem_addr \in Nat  BY <1>1, Windows DEF Clock
  <2>1. CASE StoreCell
    <3>1. mem_addr \in FieldBase .. FieldBase + 255
      BY <2>0, <2>1 DEF StoreCell, FieldHit, IsCell, FieldOff, FieldBase
    <3>2. cells[FieldOff \div 4] = mem_wdata
      BY <1>1, <2>1, <3>1 DEF StoreDone, StoreCell
    <3> QED BY <1>1, <2>1, <3>2 DEF StoreCell, TypeOK
  <2>2. CASE StoreCenter
    BY <1>1, <2>0, <2>2 DEF StoreCenter, StoreDone, FieldOff, FieldBase
  <2>3. CASE StoreRecon
    <3>1. PICK g \in Gathers, aliased \in BOOLEAN : cells' = Scatter(ReconWords(g), aliased)
      BY <2>3 DEF StoreRecon
    <3>2. cells' = Promise!Reconstructed  BY <1>1, <3>1, ReconIsAbstract DEF TypeOK
    <3>3. cells = Promise!Reconstructed
      BY <1>1, <2>0, <2>3 DEF StoreRecon, StoreDone, FieldOff, FieldBase
    <3> QED BY <2>3, <3>2, <3>3 DEF StoreRecon
  <2>4. CASE StoreRelax
    BY <2>0, <2>4 DEF StoreRelax, BusAtomic, AtomicProgram, IsStore, FieldOff, FieldBase
  <2>5. CASE FieldStoreNowhere  BY <2>5 DEF FieldStoreNowhere
  <2>6. CASE FieldLoad  BY <2>6 DEF FieldLoad
  <2>7. CASE FieldQuiet  BY <2>7 DEF FieldQuiet
  <2> QED BY <2>0, <2>1, <2>2, <2>3, <2>4, <2>5, <2>6, <2>7 DEF FieldEdge
<1> QED BY <1>3, <1>4, <1>5, <1>6, <1>7

-----------------------------------------------------------------------------
(* The first edge of an access.                                            *)

(* The first edge of an access: the core waits, and the device the address *)
(* selects, if there is one, acts.                                         *)
LEMMA FirstEdge ==
  ASSUME AtomicInv, Clock, mem_valid, performed = 0
  PROVE  /\ CoreWait /\ ~mem_ready /\ resetn /\ resetn' = resetn
         /\ performed' = IF Performs THEN 1 ELSE 0
         /\ Performs <=> Promise!Answers(mem_addr)
         /\ RamHit <=> mem_addr < 4 * RamWords
<1>1. TypeOK /\ BusOK /\ ReadyLines /\ resetn /\ resetn' = resetn
  BY BusTyped DEF AtomicInv, IInv, TypeOK, HandInv, Clock
<1>2. ~mem_ready  BY <1>1, ReadyIffPerformed
<1>3. CoreWait  BY <1>2 DEF Clock, CoreEdge, CoreRequest, CoreThink, CoreComplete
<1>4. RamHit <=> mem_addr < 4 * RamWords  BY <1>2 DEF RamHit
<1>5. performed' = IF Performs THEN 1 ELSE 0  BY DEF Clock, Count
<1>6. Performs <=> Promise!Answers(mem_addr)
  BY <1>1, <1>4, Windows
     DEF Performs, MmuHit, FieldHit, LinkHit, MmuBase, FieldBase, LinkBase,
         Promise!Answers, Promise!IsRam, Promise!IsMmu, Promise!IsField, Promise!IsLink
<1> QED BY <1>1, <1>2, <1>3, <1>4, <1>5, <1>6

(* A store, at its first edge, does to the registers what SocSpec says.    *)
LEMMA FirstStore ==
  ASSUME AtomicInv, BusAtomic, Clock, mem_valid, performed = 0, IsStore
  PROVE  Promise!StoreRam(mem_addr) /\ Promise!StorePeripherals(mem_addr)
<1>1. TypeOK /\ BusOK /\ InStore /\ mem_addr \in Nat
  BY BusTyped, Windows DEF AtomicInv, IInv, TypeOK
<1>2. RamHit <=> mem_addr < 4 * RamWords  BY FirstEdge
<1>3. Promise!StoreRam(mem_addr)
  BY <1>2, SameUnits DEF Promise!StoreRam, Promise!IsRam, Clock, RamEdge, RamAccess, RamIdle
<1>4. mmu_center' = IF mem_addr = 4096 THEN mem_wdata ELSE mmu_center
  BY <1>1 DEF Clock, MmuEdge, MmuStoreCenter, MmuStoreNowhere, MmuLoad, MmuQuiet, MmuOff,
              MmuHit, MmuBase, IsStore, IsLoad
<1>5. link_word' = IF mem_addr = 12288 THEN mem_wdata ELSE link_word
  BY <1>1 DEF Clock, LinkEdge, LinkTransmit, LinkStoreNowhere, LinkLoad, LinkQuiet, LinkOff,
              LinkHit, LinkBase, IsStore, IsLoad
<1>6. /\ field_center' = IF mem_addr = 8448 THEN mem_wdata ELSE field_center
      /\ cells' = CASE mem_addr \in 8192 .. 8447 ->
                         [cells EXCEPT ![(mem_addr - 8192) \div 4] = mem_wdata]
                    [] mem_addr = 8468 -> Promise!Reconstructed
                    [] mem_addr = 8472 -> [cells EXCEPT ![Promise!Pod[0]] = Promise!Relaxed]
                    [] OTHER -> cells
  <2>0. FieldEdge /\ (FieldHit <=> mem_addr \in 8192 .. 8475) /\ FieldOff = mem_addr - 8192
        /\ mem_addr # 8472
    BY <1>1 DEF Clock, FieldHit, FieldBase, FieldOff, BusAtomic, AtomicProgram, IsStore
  <2>1. CASE StoreCell
    <3>1. mem_addr \in 8192 .. 8447 /\ mem_addr # 8448
      BY <1>1, <2>0, <2>1 DEF StoreCell, IsCell
    <3> QED BY <2>0, <2>1, <3>1 DEF StoreCell
  <2>2. CASE StoreCenter
    <3>1. mem_addr = 8448 /\ mem_addr \notin 8192 .. 8447 /\ mem_addr # 8468
      BY <1>1, <2>0, <2>2 DEF StoreCenter
    <3> QED BY <2>0, <2>2, <3>1 DEF StoreCenter
  <2>3. CASE StoreRecon
    <3>1. PICK g \in Gathers, aliased \in BOOLEAN : cells' = Scatter(ReconWords(g), aliased)
      BY <2>3 DEF StoreRecon
    <3>2. cells' = Promise!Reconstructed  BY <1>1, <3>1, ReconIsAbstract DEF TypeOK
    <3>3. mem_addr = 8468 /\ mem_addr \notin 8192 .. 8447 /\ mem_addr # 8448
      BY <1>1, <2>0, <2>3 DEF StoreRecon
    <3> QED BY <2>0, <2>3, <3>2, <3>3 DEF StoreRecon
  <2>4. CASE StoreRelax  BY <1>1, <2>0, <2>4 DEF StoreRelax
  <2>5. CASE FieldStoreNowhere
    <3>1. mem_addr \notin 8192 .. 8447 /\ mem_addr # 8448 /\ mem_addr # 8468
      BY <1>1, <2>0, <2>5 DEF FieldStoreNowhere, IsCell
    <3> QED BY <2>0, <2>5, <3>1 DEF FieldStoreNowhere
  <2>6. CASE FieldLoad  BY <2>6 DEF FieldLoad, IsStore, IsLoad
  <2>7. CASE FieldQuiet
    <3>1. mem_addr \notin 8192 .. 8447 /\ mem_addr # 8448 /\ mem_addr # 8468
      BY <1>1, <2>0, <2>7 DEF FieldQuiet
    <3> QED BY <2>0, <2>7, <3>1 DEF FieldQuiet
  <2> QED BY <2>0, <2>1, <2>2, <2>3, <2>4, <2>5, <2>6, <2>7 DEF FieldEdge
<1> QED BY <1>3, <1>4, <1>5, <1>6 DEF Promise!StorePeripherals

(* A load changes no register,                                             *)
LEMMA FirstLoad ==
  ASSUME AtomicInv, Clock, mem_valid, performed = 0, IsLoad
  PROVE  UNCHANGED <<memory, mmu_center, cells, field_center, link_word>>
<1>1. TypeOK /\ BusOK /\ mem_addr \in Nat
  BY BusTyped, Windows DEF AtomicInv, IInv, TypeOK
<1>2. memory' = memory
  <2>1. CASE RamAccess
    <3>1. mem_addr \div 4 \in RamIdx
      BY <1>1, <2>1, RamAssumption DEF RamAccess, RamHit, RamIdx
    <3>2. Merge(memory[mem_addr \div 4], mem_wdata, {}) = memory[mem_addr \div 4]
      BY <1>1, <3>1, MergeNone DEF TypeOK
    <3> QED BY <1>1, <2>1, <3>1, <3>2 DEF RamAccess, IsLoad, TypeOK
  <2>2. CASE RamIdle  BY <2>2 DEF RamIdle
  <2> QED BY <2>1, <2>2 DEF Clock, RamEdge
<1>3. mmu_center' = mmu_center
  BY DEF Clock, MmuEdge, MmuStoreCenter, MmuStoreNowhere, MmuLoad, MmuQuiet, IsStore, IsLoad
<1>4. link_word' = link_word
  BY DEF Clock, LinkEdge, LinkTransmit, LinkStoreNowhere, LinkLoad, LinkQuiet, IsStore, IsLoad
<1>5. cells' = cells /\ field_center' = field_center
  BY DEF Clock, FieldEdge, StoreCell, StoreCenter, StoreRecon, StoreRelax,
         FieldStoreNowhere, FieldLoad, FieldQuiet, IsStore, IsLoad
<1> QED BY <1>2, <1>3, <1>4, <1>5

(* ... and what the multiplexer shows after it is the register's value.    *)
LEMMA FirstAnswer ==
  ASSUME AtomicInv, Clock, mem_valid, performed = 0, IsLoad, Performs
  PROVE  mem_rdata' = Promise!Value(mem_addr)
<1>1. /\ TypeOK /\ BusOK /\ InStore
      /\ mem_addr \in Nat /\ mem_addr % 4 = 0 /\ mem_addr' = mem_addr
  <2>1. TypeOK /\ BusOK /\ InStore /\ mem_addr \in Nat
    BY BusTyped, Windows DEF AtomicInv, IInv, TypeOK
  <2>2. mem_addr % 4 = 0  BY <2>1 DEF BusOK, WellFormed
  <2>3. mem_addr' = mem_addr  BY FirstEdge DEF CoreWait, coreVars, busVars
  <2> QED BY <2>1, <2>2, <2>3
<1>2. mem_rdata' = IF mem_addr >= 12288 THEN link_rdata'
                   ELSE IF mem_addr >= 8192 THEN field_rdata'
                   ELSE IF mem_addr >= 4096 THEN mmu_rdata' ELSE ram_rdata'
  BY <1>1 DEF mem_rdata
<1>3. CASE RamHit
  <2>1. ram_rdata' = memory[mem_addr \div 4]
    BY <1>3 DEF Clock, RamEdge, RamAccess, RamIdle
  <2>2. mem_addr < 4 * RamWords /\ mem_addr < 4096
    BY <1>1, <1>3, Windows DEF RamHit
  <2>3. Promise!Value(mem_addr) = memory[mem_addr \div 4]
    BY <1>1, <2>2
       DEF Promise!Value, Promise!IsRam, Promise!IsMmu, Promise!IsField, Promise!IsLink
  <2> QED BY <1>1, <1>2, <2>1, <2>2, <2>3
<1>4. CASE MmuHit
  <2>1. mmu_rdata' = HexPod(mmu_center)[MmuOff \div 4]
    BY <1>4 DEF Clock, MmuEdge, MmuStoreCenter, MmuStoreNowhere, MmuLoad, MmuQuiet,
                IsStore, IsLoad
  <2>2. mem_addr \in 4096 .. 4123 /\ ~(mem_addr < 4 * RamWords)
    BY <1>1, <1>4, RamAssumption DEF MmuHit, MmuBase
  <2>3. Promise!Value(mem_addr) = Promise!HexPod(mmu_center)[(mem_addr - 4096) \div 4]
    BY <1>1, <2>2
       DEF Promise!Value, Promise!IsRam, Promise!IsMmu, Promise!IsField, Promise!IsLink
  <2> QED BY <1>1, <1>2, <2>1, <2>2, <2>3, SameUnits DEF MmuOff, MmuBase
<1>5. CASE FieldHit
  <2>1. PICK g \in Gathers : field_rdata' = FieldRegister(FieldOff, g)
    BY <1>5 DEF Clock, FieldEdge, StoreCell, StoreCenter, StoreRecon, StoreRelax,
                FieldStoreNowhere, FieldLoad, FieldQuiet, IsStore, IsLoad
  <2>2. mem_addr \in 8192 .. 8475 /\ ~(mem_addr < 4 * RamWords) /\ mem_addr \notin 4096 .. 4123
        /\ FieldOff = mem_addr - 8192
    BY <1>1, <1>5, RamAssumption DEF FieldHit, FieldBase, FieldOff
  <2>3. Neighbors(g) = HeldBy(cells) /\ g[0] = Low6(cells[Pod[0]])
    <3>1. \A k \in Dir : k + 1 \in 0 .. 6  BY DEF Dir
    <3> QED BY <1>1, <3>1, GatherInStore DEF Neighbors, HeldBy
  <2>4. FieldRegister(FieldOff, g) = Promise!FieldValue(FieldOff)
    <3>1. /\ Promise!Div0 = DivOf(g) /\ Promise!Curl0 = CurlOf(g)
          /\ Promise!Relaxed = Relax(g[0], Neighbors(g))
      BY <2>3, PromiseRebuilds, SameUnits DEF DivOf, CurlOf, Promise!Relaxed
    <3>2. Ofit(DivOf(g), CurlOf(g))
            <=> ~(Promise!Div0 \in Promise!Coef /\ Promise!Curl0 \in Promise!Coef)
      BY <3>1, SameUnits DEF Ofit
    <3>3. \A off \in Int : FieldRegister(off, g) = Promise!FieldValue(off)
      <4> SUFFICES ASSUME NEW off \in Int PROVE FieldRegister(off, g) = Promise!FieldValue(off)
        OBVIOUS
      <4>1. (IF Ofit(DivOf(g), CurlOf(g)) THEN 1 ELSE 0)
              = IF Promise!Div0 \in Promise!Coef /\ Promise!Curl0 \in Promise!Coef
                THEN 0 ELSE 1
        BY <3>2
      <4> QED BY <3>1, <4>1 DEF FieldRegister, Promise!FieldValue
    <3> QED BY <1>1, <2>2, <3>3
  <2>5. Promise!Value(mem_addr) = Promise!FieldValue(mem_addr - 8192)
    BY <1>1, <2>2
       DEF Promise!Value, Promise!IsRam, Promise!IsMmu, Promise!IsField, Promise!IsLink
  <2> QED BY <1>1, <1>2, <2>1, <2>2, <2>4, <2>5
<1>6. CASE LinkHit
  <2>1. link_rdata' = LinkRegister(LinkOff)
    BY <1>6 DEF Clock, LinkEdge, LinkTransmit, LinkStoreNowhere, LinkLoad, LinkQuiet,
                IsStore, IsLoad
  <2>2. /\ mem_addr \in 12288 .. 12307 /\ ~(mem_addr < 4 * RamWords)
        /\ mem_addr \notin 4096 .. 4123 /\ mem_addr \notin 8192 .. 8475
        /\ LinkOff = mem_addr - 12288 /\ LinkOff \in {0, 4, 8, 12, 16}
    <3>1. mem_addr \in 12288 .. 12307 /\ LinkOff = mem_addr - 12288
      BY <1>1, <1>6 DEF LinkHit, LinkBase, LinkOff
    <3>2. ~(mem_addr < 4 * RamWords)  BY <3>1, RamAssumption
    <3>3. LinkOff \in {0, 4, 8, 12, 16}  BY <1>1, <3>1
    <3> QED BY <3>1, <3>2, <3>3
  <2>3. LinkRegister(LinkOff) = Promise!LinkValue(LinkOff)
    <3>1. Promise!NullTrits = NullCount(link_word)
      <4>1. \A S : Promise!Cardinality(S) = Cardinality(S)
        BY DEF Promise!Cardinality, Cardinality, Promise!IsFiniteSet, IsFiniteSet
      <4> QED BY <4>1 DEF Promise!NullTrits, Promise!LinkTrit, NullCount, TritAt, TritPos, NullCode
    <3>2. Flag(link_word) <=> ~(\A i \in 0 .. LinkTrits - 1 : Promise!LinkTrit(i) # 3)
      BY DEF Flag, Promise!LinkTrit, TritAt, TritPos, NeverCode
    <3>3. NullCount(link_word) \in Nat  BY NullsType
    <3>4. /\ Active(link_word) = LinkTrits - Promise!NullTrits
          /\ Energy(link_word) = 120 * LinkTrits - 115 * Promise!NullTrits
      BY <3>1, <3>3, LinkTritsAssumption DEF Active, Energy
    <3> HIDE DEF LinkOff
    <3> QED BY <2>2, <3>1, <3>2, <3>4 DEF LinkRegister, Promise!LinkValue
  <2> QED BY <1>1, <1>2, <2>1, <2>2, <2>3
          DEF Promise!Value, Promise!IsRam, Promise!IsMmu, Promise!IsField, Promise!IsLink
<1> QED BY <1>3, <1>4, <1>5, <1>6 DEF Performs

-----------------------------------------------------------------------------
(* The invariant of the refinement is inductive.                           *)

(* The pod of the centre stays in the store: the only centres set are      *)
(* those the program's stores name, and that of reset.                     *)
LEMMA NextInStore ==
  ASSUME AtomicInv, AtomicProgram(Requests), [Next]_vars
  PROVE  InStore'
<1>1. TypeOK /\ BusOK /\ BusAtomic /\ InStore
  BY BusTyped, BusGentle DEF AtomicInv, IInv, TypeOK
<1>2. CASE field_center' = field_center  BY <1>1, <1>2 DEF InStore, Pod
<1>3. CASE field_center' = 0  BY <1>3, ZeroInStore DEF InStore, Pod
<1>4. CASE FieldHit /\ StoreCenter
  <2>1. mem_addr = FieldBase + 256 /\ mem_wstrb # {} /\ field_center' = mem_wdata
    <3>1. mem_addr \in Nat  BY <1>1, Windows
    <3> QED BY <1>4, <3>1 DEF StoreCenter, FieldOff, FieldBase, IsStore
  <2>2. \A j \in 0 .. 6 : HexPod(mem_wdata)[j] \in CellIdx
    BY <1>1, <2>1 DEF BusAtomic, AtomicProgram
  <2> QED BY <2>1, <2>2 DEF InStore, Pod
<1>5. CASE Clock
  BY <1>2, <1>4, <1>5 DEF Clock, FieldEdge, StoreCell, StoreCenter, StoreRecon, StoreRelax,
     FieldStoreNowhere, FieldLoad, FieldQuiet
<1>6. CASE AssertReset  BY <1>3, <1>6 DEF AssertReset, FieldReset
<1>7. CASE ClockInReset  BY <1>2, <1>7 DEF ClockInReset, fieldVars
<1>8. CASE ReleaseReset  BY <1>2, <1>8 DEF ReleaseReset, fieldVars
<1>9. CASE UNCHANGED vars  BY <1>2, <1>9 DEF vars, fieldVars
<1> QED BY <1>5, <1>6, <1>7, <1>8, <1>9 DEF Next

(* Once a store is in, the registers agree with it.                        *)
LEMMA NextStoreDone ==
  ASSUME AtomicInv, BusAtomic, Clock, IInv', InStore'
  PROVE  StoreDone'
<1> SUFFICES ASSUME mem_valid', performed' = 1, IsStore' PROVE StoreDone'
  BY DEF StoreDone
<1>1. TypeOK /\ BusOK /\ InStore /\ StoreDone /\ resetn /\ mem_addr \in Nat
      /\ performed \in {0, 1, 2} /\ (mem_valid => performed \in {0, 1})
  BY BusTyped, Windows DEF AtomicInv, IInv, TypeOK, HandInv, Counted, Clock
<1>2. mem_valid
  <2> SUFFICES ASSUME ~mem_valid PROVE FALSE  OBVIOUS
  <2>1. performed' = 0  BY DEF Clock, Count
  <2> QED BY <2>1
<1>3. CASE performed = 1
  BY <1>2, <1>3, SecondEdge DEF CoreComplete
<1>4. CASE performed = 0
  <2>1. UNCHANGED <<mem_addr, mem_wdata, mem_wstrb>>
    BY <1>2, <1>4, FirstEdge DEF CoreWait, coreVars, busVars
  <2>2. IsStore  BY <2>1 DEF IsStore
  <2>3. Promise!StorePeripherals(mem_addr)  BY <1>2, <1>4, <2>2, FirstStore
  <2>4. /\ mem_addr = MmuBase => mmu_center' = mem_wdata
        /\ mem_addr = LinkBase => link_word' = mem_wdata
        /\ mem_addr = FieldBase + 256 => field_center' = mem_wdata
    BY <2>3 DEF Promise!StorePeripherals, MmuBase, LinkBase, FieldBase
  <2>5. ASSUME mem_addr \in FieldBase .. FieldBase + 255
        PROVE  cells'[FieldOff \div 4] = mem_wdata
    <3>1. cells' = [cells EXCEPT ![(mem_addr - 8192) \div 4] = mem_wdata]
      BY <2>3, <2>5 DEF Promise!StorePeripherals, FieldBase
    <3>2. (mem_addr - 8192) \div 4 \in CellIdx
      BY <1>1, <2>5 DEF FieldBase, CellIdx
    <3> QED BY <1>1, <3>1, <3>2 DEF TypeOK, FieldOff, FieldBase
  <2>6. ASSUME mem_addr = FieldBase + 276
        PROVE  cells' = (Promise!Reconstructed)'
    <3>1. FieldHit /\ FieldOff = 276
      BY <1>2, <2>6 DEF FieldHit, FieldOff, FieldBase
    <3>2. StoreRecon  BY <2>2, <3>1, FieldStoreAction
    <3>3. PICK g \in Gathers, aliased \in BOOLEAN : cells' = Scatter(ReconWords(g), aliased)
      BY <3>2 DEF StoreRecon
    <3>4. UNCHANGED field_center  BY <3>2 DEF StoreRecon
    <3> QED BY <1>1, <3>3, <3>4, ReconTwice DEF TypeOK
  <2>7. FieldOff' = FieldOff  BY <2>1 DEF FieldOff
  <2> QED BY <2>1, <2>4, <2>5, <2>6, <2>7 DEF StoreDone
<1> QED BY <1>1, <1>2, <1>3, <1>4

(* Every step keeps the invariant of the refinement.                       *)
LEMMA NextAtomic == AtomicProgram(Requests) => (AtomicInv /\ [Next]_vars => AtomicInv')
<1> SUFFICES ASSUME AtomicProgram(Requests), AtomicInv, [Next]_vars PROVE AtomicInv'
  OBVIOUS
<1>1. IInv'  BY NextIInv DEF AtomicInv
<1>2. InStore'  BY NextInStore
<1>3. TypeOK /\ BusOK /\ BusAtomic /\ HandInv /\ RamLine /\ StoreDone
  BY BusTyped, BusGentle DEF AtomicInv, IInv, TypeOK
<1>4. RamLine'
  <2>1. CASE Clock
    <3>1. resetn'  BY <2>1 DEF Clock
    <3> QED BY <1>1, <3>1 DEF RamLine, IInv, HandInv, ReadyLines
  <2>2. CASE AssertReset
    BY <1>3, <2>2 DEF AssertReset, RamLine, coreVars, busVars, ramVars
  <2>3. CASE ClockInReset  BY <2>3 DEF ClockInReset, RamLine
  <2>4. CASE ReleaseReset  BY <2>4 DEF ReleaseReset, RamLine, coreVars
  <2>5. CASE UNCHANGED vars
    BY <1>3, <2>5 DEF vars, RamLine, coreVars, busVars, ramVars
  <2> QED BY <2>1, <2>2, <2>3, <2>4, <2>5 DEF Next
<1>5. StoreDone'
  <2>1. CASE Clock  BY <1>1, <1>2, <1>3, <2>1, NextStoreDone
  <2>2. CASE AssertReset  BY <2>2 DEF AssertReset, StoreDone
  <2>3. CASE ClockInReset  BY <2>3 DEF ClockInReset, StoreDone
  <2>4. CASE ReleaseReset  BY <2>4 DEF ReleaseReset, StoreDone, coreVars
  <2>5. CASE UNCHANGED vars
    <3>1. UNCHANGED <<mem_addr, mem_wdata, mem_wstrb, mmu_center, link_word, field_center,
                      cells, resetn, mem_valid, performed>>
      BY <2>5 DEF vars, coreVars, busVars, mmuVars, fieldVars, linkVars
    <3>2. (Promise!Reconstructed)' = Promise!Reconstructed
      <4>1. Pod' = Pod /\ HeldBy(cells)' = HeldBy(cells)  BY <3>1 DEF Pod, HeldBy
      <4> QED BY <3>1, <4>1, PromiseRebuilds
    <3>3. FieldOff' = FieldOff /\ IsStore' = IsStore  BY <3>1 DEF FieldOff, IsStore
    <3> QED BY <1>3, <3>1, <3>2, <3>3 DEF StoreDone
  <2> QED BY <2>1, <2>2, <2>3, <2>4, <2>5 DEF Next
<1> QED BY <1>1, <1>2, <1>4, <1>5 DEF AtomicInv

-----------------------------------------------------------------------------
(* The step mapping.                                                       *)

(* An edge no device takes part in changes no register.                    *)
LEMMA QuietEdge ==
  ASSUME Clock, ~Performs
  PROVE  UNCHANGED <<memory, mmu_center, cells, field_center, link_word>>
<1>1. ~RamHit /\ ~MmuHit /\ ~FieldHit /\ ~LinkHit  BY DEF Performs
<1>2. memory' = memory  BY <1>1 DEF Clock, RamEdge, RamAccess, RamIdle
<1>3. mmu_center' = mmu_center
  BY <1>1 DEF Clock, MmuEdge, MmuStoreCenter, MmuStoreNowhere, MmuLoad, MmuQuiet
<1>4. link_word' = link_word
  BY <1>1 DEF Clock, LinkEdge, LinkTransmit, LinkStoreNowhere, LinkLoad, LinkQuiet
<1>5. cells' = cells /\ field_center' = field_center
  BY <1>1 DEF Clock, FieldEdge, StoreCell, StoreCenter, StoreRecon, StoreRelax,
              FieldStoreNowhere, FieldLoad, FieldQuiet
<1> QED BY <1>2, <1>3, <1>4, <1>5

(* The request and the answer as the program sees them.                    *)
BusRequest == [addr |-> mem_addr, wdata |-> mem_wdata, wstrb |-> mem_wstrb]
Shown   == IF resetn /\ Phase = "done" /\ mem_wstrb = {} THEN mem_rdata ELSE NoAnswer

(* The three phases of an access, before and after a step.                 *)
LEMMA Phases ==
  /\ ~mem_valid => Phase = "idle"
  /\ mem_valid /\ performed = 0 => Phase = "pending"
  /\ mem_valid /\ performed = 1 => Phase = "done"
  /\ ~mem_valid' => Phase' = "idle"
  /\ mem_valid' /\ performed' = 0 => Phase' = "pending"
  /\ mem_valid' /\ performed' = 1 => Phase' = "done"
BY DEF Phase

(* Init is an initial state of the abstract devices,                       *)
LEMMA InitRefines == Init => Promise!SocInit
<1> SUFFICES ASSUME Init PROVE Promise!SocInit  OBVIOUS
<1>1. Phase = "idle"  BY Phases DEF Init
<1>2. BusRequest \in Requests  BY RequestsAssumption DEF Init, BusRequest
<1>3. Promise!RamIdx = RamIdx /\ Promise!RamWord = RamWord /\ Promise!Cell = CellIdx
  BY SameUnits, PromiseRebuilds
<1> QED BY <1>1, <1>2, <1>3 DEF Init, Promise!SocInit, BusRequest

(* a clock edge is one of their steps, or none,                            *)
LEMMA ClockRefines ==
  ASSUME AtomicInv, BusAtomic, Clock
  PROVE  Promise!SocNext \/ UNCHANGED Promise!svars
<1> USE DEF BusRequest, Shown
<1> DEFINE devices == <<memory, mmu_center, cells, field_center, link_word>>
<1>0. /\ resetn /\ resetn' /\ resetn' = resetn
      /\ mem_valid \in BOOLEAN /\ (mem_valid => performed \in {0, 1})
  BY DEF AtomicInv, IInv, TypeOK, HandInv, Counted, Clock
<1>1. CASE ~mem_valid
  <2>1. UNCHANGED devices  BY <1>1, QuietEdge DEF Performs, RamHit, MmuHit, FieldHit, LinkHit
  <2>2. Phase = "idle" /\ Shown = NoAnswer  BY <1>1, Phases
  <2>3. CASE CoreRequest
    <3>1. mem_valid' /\ performed' = 0 /\ Phase' = "pending" /\ Shown' = NoAnswer
      BY <1>1, <2>3, Phases DEF CoreRequest, Clock, Count
    <3>2. BusRequest' \in Requests  BY <2>3, RequestsAssumption DEF CoreRequest
    <3>3. Promise!Issue  BY <1>0, <2>1, <2>2, <3>1, <3>2 DEF Promise!Issue, Promise!devices
    <3> QED BY <3>3 DEF Promise!SocNext
  <2>4. CASE CoreThink
    <3>1. ~mem_valid' /\ BusRequest' = BusRequest  BY <2>4 DEF CoreThink, coreVars, busVars
    <3>2. Phase' = "idle" /\ Shown' = NoAnswer  BY <3>1, Phases
    <3> QED BY <1>0, <2>1, <2>2, <3>1, <3>2 DEF Promise!svars, Promise!devices
  <2> QED BY <1>1, <2>3, <2>4 DEF Clock, CoreEdge, CoreWait, CoreComplete
<1>2. CASE mem_valid /\ performed = 0
  <2>1. mem_valid' /\ BusRequest' = BusRequest /\ mem_wstrb' = mem_wstrb
    BY <1>2, FirstEdge DEF CoreWait, coreVars, busVars
  <2>2. Phase = "pending" /\ Shown = NoAnswer  BY <1>2, Phases
  <2>3. CASE ~Performs
    <3>1. Phase' = "pending" /\ Shown' = NoAnswer  BY <1>2, <2>1, <2>3, FirstEdge, Phases
    <3>2. UNCHANGED devices  BY <2>3, QuietEdge
    <3> QED BY <1>0, <2>1, <2>2, <3>1, <3>2 DEF Promise!svars, Promise!devices
  <2>4. CASE Performs
    <3>1. Phase' = "done" /\ Promise!Answers(mem_addr)  BY <1>2, <2>1, <2>4, FirstEdge, Phases
    <3>2. CASE IsStore
      <4>1. Promise!StoreRam(mem_addr) /\ Promise!StorePeripherals(mem_addr)
        BY <1>2, <3>2, FirstStore
      <4>2. Shown' = NoAnswer  BY <2>1, <3>2 DEF IsStore
      <4>3. Promise!Perform
        BY <1>0, <2>1, <2>2, <3>1, <3>2, <4>1, <4>2 DEF Promise!Perform, IsStore
      <4> QED BY <4>3 DEF Promise!SocNext
    <3>3. CASE IsLoad
      <4>1. UNCHANGED devices  BY <1>2, <3>3, FirstLoad
      <4>2. Shown' = Promise!Value(mem_addr)
        BY <1>0, <1>2, <2>1, <2>4, <3>1, <3>3, FirstAnswer DEF IsLoad
      <4>3. Promise!Perform
        BY <1>0, <2>1, <2>2, <3>1, <3>3, <4>1, <4>2
           DEF Promise!Perform, Promise!devices, IsLoad
      <4> QED BY <4>3 DEF Promise!SocNext
    <3> QED BY <3>2, <3>3 DEF IsStore, IsLoad
  <2> QED BY <2>3, <2>4
<1>3. CASE mem_valid /\ performed = 1
  <2>1. CoreComplete /\ UNCHANGED devices  BY <1>3, SecondEdge
  <2>2. ~mem_valid' /\ BusRequest' = BusRequest  BY <2>1 DEF CoreComplete, busVars
  <2>3. Phase = "done" /\ Phase' = "idle" /\ Shown' = NoAnswer  BY <1>3, <2>2, Phases
  <2>4. Promise!Complete  BY <1>0, <2>1, <2>2, <2>3 DEF Promise!Complete, Promise!devices
  <2> QED BY <2>4 DEF Promise!SocNext
<1> QED BY <1>0, <1>1, <1>2, <1>3

(* and so is a change of reset, or an edge under it.                       *)
LEMMA ResetRefines ==
  ASSUME AtomicInv, AssertReset \/ ClockInReset \/ ReleaseReset
  PROVE  Promise!SocNext \/ UNCHANGED Promise!svars
<1> USE DEF BusRequest, Shown
<1>0. TypeOK /\ BusOK /\ mem_valid \in BOOLEAN /\ (mem_valid => performed \in {0, 1})
  BY BusTyped DEF AtomicInv, IInv, TypeOK, HandInv, Counted
<1>1. CASE AssertReset
  <2>1. Phase' = Phase /\ BusRequest' = BusRequest
    BY <1>1 DEF AssertReset, coreVars, busVars, Phase
  <2>2. resetn' = FALSE /\ Shown' = NoAnswer  BY <1>1 DEF AssertReset
  <2>3. Promise!Reset
    BY <1>1, <2>1, <2>2, PromiseRebuilds
       DEF AssertReset, MmuReset, FieldReset, LinkReset, ramVars, Promise!Reset
  <2> QED BY <2>3 DEF Promise!SocNext
<1>2. CASE ClockInReset
  <2>1. /\ ~resetn /\ resetn' = resetn /\ ~mem_valid'
        /\ Phase' = "idle" /\ BusRequest' = BusRequest
        /\ Shown = NoAnswer /\ Shown' = NoAnswer
        /\ UNCHANGED <<mmu_center, cells, field_center, link_word>>
    BY <1>2, Phases DEF ClockInReset, busVars, mmuVars, fieldVars, linkVars
  <2>2. CASE mem_valid
    <3>1. Phase # "idle"  BY <1>0, <2>2, Phases
    <3>2. UNCHANGED memory \/ (Phase = "pending" /\ Promise!StoreRam(mem_addr))
      <4>1. CASE RamIdle  BY <4>1 DEF RamIdle
      <4>2. CASE RamAccess
        <5>1. mem_addr < 4096 /\ mem_addr \in Nat
          BY <1>0, <4>2, Windows DEF RamAccess, RamHit
        <5>2. ~ram_ready  BY <4>2, <5>1 DEF RamAccess, RamHit, mem_ready
        <5>3. performed = 0
          BY <1>0, <2>2, <4>2, <5>2 DEF AtomicInv, RamLine, RamAccess, RamHit
        <5>4. Phase = "pending"  BY <2>2, <5>3, Phases
        <5>5. Promise!StoreRam(mem_addr)
          BY <4>2, SameUnits DEF RamAccess, RamHit, Promise!StoreRam, Promise!IsRam
        <5> QED BY <5>4, <5>5
      <4> QED BY <1>2, <4>1, <4>2 DEF ClockInReset, RamEdge
    <3>3. Promise!Abandon  BY <2>1, <3>1, <3>2 DEF Promise!Abandon
    <3> QED BY <3>3 DEF Promise!SocNext
  <2>3. CASE ~mem_valid
    <3>1. memory' = memory
      BY <1>2, <2>3 DEF ClockInReset, RamEdge, RamAccess, RamIdle, RamHit
    <3>2. Phase = "idle"  BY <2>3, Phases
    <3> QED BY <2>1, <3>1, <3>2 DEF Promise!svars, Promise!devices
  <2> QED BY <2>2, <2>3
<1>3. CASE ReleaseReset
  <2>1. Phase = "idle" /\ Phase' = "idle" /\ Shown = NoAnswer /\ Shown' = NoAnswer
        /\ BusRequest' = BusRequest
    BY <1>3, Phases DEF ReleaseReset, coreVars, busVars
  <2>2. Promise!Restart
    BY <1>3, <2>1
       DEF ReleaseReset, coreVars, busVars, ramVars, mmuVars, fieldVars, linkVars,
           Promise!Restart, Promise!devices
  <2> QED BY <2>2 DEF Promise!SocNext
<1> QED BY <1>1, <1>2, <1>3

(* Every step of the SoC is a step of the abstract devices, or none.       *)
LEMMA NextRefines ==
  AtomicProgram(Requests) =>
    (AtomicInv /\ [Next]_vars => [Promise!SocNext]_(Promise!svars))
<1> SUFFICES ASSUME AtomicProgram(Requests), AtomicInv, [Next]_vars
             PROVE  Promise!SocNext \/ UNCHANGED Promise!svars
  OBVIOUS
<1>1. BusAtomic  BY BusGentle DEF AtomicInv, IInv, TypeOK
<1>2. CASE UNCHANGED vars
  <2>1. UNCHANGED <<resetn, mem_valid, mem_addr, mem_wdata, mem_wstrb, memory, ram_rdata,
                    mmu_center, mmu_rdata, cells, field_center, field_rdata, link_word,
                    link_rdata, performed>>
    BY <1>2 DEF vars, coreVars, busVars, ramVars, mmuVars, fieldVars, linkVars
  <2>2. Phase' = Phase /\ mem_rdata' = mem_rdata  BY <2>1 DEF Phase, mem_rdata
  <2> QED BY <2>1, <2>2 DEF Promise!svars, Promise!devices
<1> QED BY <1>1, <1>2, ClockRefines, ResetRefines DEF Next

(* The SoC implements the atomic devices: for every program that keeps the *)
(* pod of the centre in the store and does not use TRELAX, each access     *)
(* takes effect once, as a whole, at its first edge, a load returns its    *)
(* register's value at that edge, and reset cuts an access off before or   *)
(* after it, never within (tau_soc.v:48-97, hex_mmu_periph.v:37-59,        *)
(* hex_field_accel.v:92-131, ternary_link_periph.v:32-62).                 *)
THEOREM AtomicCorrect ==
  ASSUME AtomicProgram(Requests)
  PROVE  Spec => AtomicDevices
<1>1. Init => AtomicInv  BY InitAtomic
<1>2. AtomicInv /\ [Next]_vars => AtomicInv'  BY NextAtomic
<1>3. AtomicInv /\ [Next]_vars => [Promise!SocNext]_(Promise!svars)  BY NextRefines
<1>4. Init => Promise!SocInit  BY InitRefines
<1> QED BY <1>1, <1>2, <1>3, <1>4, PTL DEF Spec, AtomicDevices, Promise!SocSafety

(* For the same programs, the edge at which the core takes the answer      *)
(* changes no register, although the device sees the request a second      *)
(* time.                                                                   *)
THEOREM SecondEdgeCorrect ==
  ASSUME AtomicProgram(Requests)
  PROVE  Spec => SecondEdgeHarmless
<1>1. Init => AtomicInv  BY InitAtomic
<1>2. AtomicInv /\ [Next]_vars => AtomicInv'  BY NextAtomic
<1>3. AtomicInv /\ [Next]_vars =>
        [Edge /\ mem_valid /\ performed = 1 =>
           UNCHANGED <<memory, mmu_center, cells, field_center, link_word>>]_vars
  <2> SUFFICES ASSUME AtomicInv, Next, Edge, mem_valid, performed = 1
               PROVE  UNCHANGED <<memory, mmu_center, cells, field_center, link_word>>
    OBVIOUS
  <2>1. Clock  BY DEF Next, Edge, AssertReset, ClockInReset, ReleaseReset
  <2>2. BusAtomic  BY BusGentle DEF AtomicInv, IInv, TypeOK
  <2> QED BY <2>1, <2>2, SecondEdge
<1> QED BY <1>1, <1>2, <1>3, PTL DEF Spec, SecondEdgeHarmless
=============================================================================
