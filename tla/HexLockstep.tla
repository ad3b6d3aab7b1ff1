----------------------------- MODULE HexLockstep ----------------------------
(***************************************************************************)
(* The same walk made twice: through the pod lookup of the RTL (HexWalk)   *)
(* and through hex_memory.py.  The Python side has no width, so the two    *)
(* part where the RTL wraps; the walks considered step out of the box of   *)
(* coordinates by at most one cell, and may come back.                     *)
(***************************************************************************)
EXTENDS HexWalk, HexMemory

VARIABLE addr       \* the address the Python program holds

lockVars == <<wvars, addr>>

in_u32_box(c) == c \in Coord \X Coord

PyHop(k) == addr' = pod(addr)[k + 2]

LockInit == WalkInit /\ addr = 0

LockNext ==
  \E k \in 0 .. 5 :
    /\ Hop(k) /\ PyHop(k)
    /\ in_u32_box(eisenstein_of_nat(addr)) \/ in_u32_box(eisenstein_of_nat(addr'))

LockSpec == LockInit /\ [][LockNext]_lockVars

-----------------------------------------------------------------------------
(* Inside the box the two sides hold the same address (hex_memory.py:3-8). *)
(* Outside, the Python address is too wide for the register of the RTL,    *)
(* and what the RTL holds names the cell at the opposite edge.             *)
SameAddress ==
  LET c == eisenstein_of_nat(addr)
  IN  /\ eisenstein_to_nat(c) = addr
      /\ pos = <<Wrap(c[1]), Wrap(c[2])>>
      /\ IF in_u32_box(c) THEN addr = flat ELSE addr \notin Flat

(* The two numberings of the neighbours (hexaddr.py:27, hex_memory.py:22)  *)
(* describe the same ring, and a number means the same neighbour in both   *)
(* for the directions 0 and 5 only.                                        *)
SameRing ==
  LET c == eisenstein_of_nat(addr)
      At(k) == eisenstein_of_nat(neighbor_addr(addr, k))
  IN  /\ {neighbor(c, k) : k \in 0 .. 5} = {At(k) : k \in 0 .. 5}
      /\ {k \in 0 .. 5 : neighbor(c, k) = At(k)} = {0, 5}

(* So hex_memory.py and the RTL name the same cells and, by the same       *)
(* numbers, the same neighbours; the numbers of hexaddr.py are its own.    *)
ScriptsAgree == SameAddress /\ SameRing

(* Addresses count cells and words take four bytes (hex_memory.py:54-57):  *)
(* a word kept at a cell survives the write of a word at a neighbour       *)
(* exactly when their addresses are four or more apart, and is read back   *)
(* in any case when it is written last.                                    *)
First  == <<1, 2, 3, 4>>
Second == <<5, 6, 7, 8>>

Distance(m, n) == IF m < n THEN n - m ELSE m - n

WordsClash ==
  LET c == eisenstein_of_nat(addr)
      alone == write_hex_word([a \in {} |-> 0], c, First)
  IN  /\ read_hex_word(alone, c) = First
      /\ \A k \in 0 .. 5 :
           LET d    == neighbor(c, k)
               both == write_hex_word(alone, d, Second)
           IN  /\ read_hex_word(both, d) = Second
               /\ read_hex_word(both, c) = First
                    <=> Distance(addr, eisenstein_to_nat(d)) >= 4
=============================================================================
