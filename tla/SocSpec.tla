------------------------------- MODULE SocSpec -----------------------------
(***************************************************************************)
(* What the memory-mapped devices of the SoC promise the program: every    *)
(* load or store takes effect once, at one instant between the moment it   *)
(* is issued and the moment it completes, a store changes what its         *)
(* register names and nothing else, and a load returns the register's      *)
(* value at that instant.  Nothing here knows of clock edges, ready lines  *)
(* or multiplexers; rtl/tau_soc.v is shown to implement it.                *)
(*                                                                         *)
(* The programs considered keep the pod of the field centre inside the     *)
(* 64-cell store.                                                          *)
(***************************************************************************)
EXTENDS HexAddr, HexField, Ram, FiniteSets

CONSTANTS LinkTrits, Requests,
          NoAnswer    \* the answer register when no load has been answered

VARIABLES
  on,                 \* out of reset
  phase,              \* "idle", "pending" (not performed yet) or "done"
  req,                \* the current access
  answer,             \* what a performed load returned
  memory, mmuCenter, cells, fieldCenter, linkWord

devices == <<memory, mmuCenter, cells, fieldCenter, linkWord>>
svars   == <<on, phase, req, answer, devices>>

Cell    == 0 .. 63
Pod     == HexPod(fieldCenter)
Nb      == [k \in Dir |-> Low6(cells[Pod[k + 1]])]
Div0    == Div(Nb)
Curl0   == Curl(Nb)
Relaxed == Relax(Low6(cells[Pod[0]]), Nb)

(* TRECON leaves div on the w^0 neighbour, curl on the w^1 neighbour and   *)
(* zero on the rest of the pod.                                            *)
Reconstructed ==
  [c \in Cell |-> CASE c = Pod[1] -> Low6(Div0)
                    [] c = Pod[2] -> Low6(Curl0)
                    [] c \in {Pod[j] : j \in {0, 3, 4, 5, 6}} -> 0
                    [] OTHER -> cells[c]]

LinkTrit(i) == (linkWord \div 4 ^ i) % 4
NullTrits   == Cardinality({i \in 0 .. LinkTrits - 1 : LinkTrit(i) = 0})

(* Which registers exist, by the address map of the three peripherals.     *)
IsRam(a)   == a < 4 * RamWords
IsMmu(a)   == a \in 4096 .. 4123
IsField(a) == a \in 8192 .. 8475
IsLink(a)  == a \in 12288 .. 12307
Answers(a) == IsRam(a) \/ IsMmu(a) \/ IsField(a) \/ IsLink(a)

FieldValue(off) ==
  CASE off < 256 -> cells[off \div 4]
    [] off = 260 -> Div0
    [] off = 264 -> Curl0
    [] off = 268 -> IF Div0 \in Coef /\ Curl0 \in Coef THEN 0 ELSE 1
    [] off = 272 -> Relaxed
    [] OTHER     -> 0

LinkValue(off) ==
  CASE off = 0  -> linkWord
    [] off = 4  -> NullTrits
    [] off = 8  -> LinkTrits - NullTrits
    [] off = 12 -> IF \A i \in 0 .. LinkTrits - 1 : LinkTrit(i) # 3 THEN 0 ELSE 1
    [] off = 16 -> 120 * LinkTrits - 115 * NullTrits

Value(a) ==
  CASE IsRam(a)   -> memory[a \div 4]
    [] IsMmu(a)   -> HexPod(mmuCenter)[(a - 4096) \div 4]
    [] IsField(a) -> FieldValue(a - 8192)
    [] IsLink(a)  -> LinkValue(a - 12288)

StoreRam(a) ==
  memory' = IF IsRam(a)
            THEN [memory EXCEPT ![a \div 4] = Merge(@, req.wdata, req.wstrb)]
            ELSE memory

StorePeripherals(a) ==
  /\ mmuCenter'   = IF a = 4096 THEN req.wdata ELSE mmuCenter
  /\ fieldCenter' = IF a = 8448 THEN req.wdata ELSE fieldCenter
  /\ linkWord'    = IF a = 12288 THEN req.wdata ELSE linkWord
  /\ cells'       = CASE a \in 8192 .. 8447 ->
                           [cells EXCEPT ![(a - 8192) \div 4] = req.wdata]
                      [] a = 8468 -> Reconstructed
                      [] a = 8472 -> [cells EXCEPT ![Pod[0]] = Relaxed]
                      [] OTHER -> cells

-----------------------------------------------------------------------------
Issue ==
  /\ on /\ phase = "idle"
  /\ req' \in Requests
  /\ phase' = "pending"
  /\ answer' = NoAnswer
  /\ UNCHANGED <<on, devices>>

Perform ==
  /\ on /\ phase = "pending" /\ Answers(req.addr)
  /\ phase' = "done"
  /\ IF req.wstrb = {}
     THEN answer' = Value(req.addr) /\ UNCHANGED devices
     ELSE answer' = NoAnswer /\ StoreRam(req.addr) /\ StorePeripherals(req.addr)
  /\ UNCHANGED <<on, req>>

Complete ==
  /\ on /\ phase = "done"
  /\ phase' = "idle"
  /\ answer' = NoAnswer
  /\ UNCHANGED <<on, req, devices>>

(* Reset clears the peripherals; the RAM keeps its words.                  *)
Reset ==
  /\ on /\ on' = FALSE
  /\ mmuCenter' = 0 /\ fieldCenter' = 0
  /\ cells' = [c \in Cell |-> 0]
  /\ linkWord' = 0
  /\ answer' = NoAnswer
  /\ UNCHANGED <<phase, req, memory>>

(* The access that reset caught is abandoned; a pending store to the RAM   *)
(* may still be performed as a whole, and no other store is.               *)
Abandon ==
  /\ ~on /\ phase # "idle"
  /\ phase' = "idle"
  /\ \/ UNCHANGED memory
     \/ phase = "pending" /\ StoreRam(req.addr)
  /\ UNCHANGED <<on, req, answer, mmuCenter, cells, fieldCenter, linkWord>>

Restart == ~on /\ phase = "idle" /\ on' = TRUE /\ UNCHANGED <<phase, req, answer, devices>>

SocInit ==
  /\ on = FALSE /\ phase = "idle" /\ answer = NoAnswer
  /\ req \in Requests
  /\ memory \in [RamIdx -> RamWord]
  /\ mmuCenter = 0 /\ fieldCenter = 0
  /\ cells = [c \in Cell |-> 0]
  /\ linkWord = 0

SocNext == Issue \/ Perform \/ Complete \/ Reset \/ Abandon \/ Restart

SocSafety == SocInit /\ [][SocNext]_svars

(* An access to a mapped register is performed unless reset intervenes,    *)
(* and then completed.                                                     *)
SocFair == SocSafety /\ WF_svars(Perform) /\ WF_svars(Complete)
=============================================================================
