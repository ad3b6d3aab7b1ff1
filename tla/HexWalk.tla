------------------------------- MODULE HexWalk -----------------------------
(***************************************************************************)
(* A program walking the hex lattice by address: it looks up the pod of    *)
(* the cell it stands on (hex_pod_addr) and moves to one of the six        *)
(* addresses it reads there, as software does through the pod-lookup       *)
(* peripheral.  The position is a history variable: the cell the program   *)
(* believes it stands on, kept by adding unit vectors on the torus that    *)
(* 16-bit coordinates form.                                                *)
(***************************************************************************)
EXTENDS HexAddr

VARIABLES
  flat,     \* the address the program holds
  pos       \* the cell that address is meant to name

wvars == <<flat, pos>>

(* The reference: the next coordinate in either sense, around the torus.   *)
Up(z)   == IF z = HalfSide - 1 THEN -HalfSide ELSE z + 1
Down(z) == IF z = -HalfSide THEN HalfSide - 1 ELSE z - 1

Beside(p, k) ==
  CASE k = 0 -> <<Up(p[1]), p[2]>>
    [] k = 1 -> <<p[1], Up(p[2])>>
    [] k = 2 -> <<Down(p[1]), Up(p[2])>>
    [] k = 3 -> <<Down(p[1]), p[2]>>
    [] k = 4 -> <<p[1], Down(p[2])>>
    [] k = 5 -> <<Up(p[1]), Down(p[2])>>

Hop(k) == flat' = HexPod(flat)[k + 1] /\ pos' = Beside(pos, k)

WalkInit == flat = 0 /\ pos = <<0, 0>>
WalkNext == \E k \in 0 .. 5 : Hop(k)
WalkSpec == WalkInit /\ [][WalkNext]_wvars

-----------------------------------------------------------------------------
(* However long the walk and wherever it wraps, the address names the cell *)
(* the program believes it stands on, and no other address does.           *)
NamesPosition ==
  /\ pos \in Coord \X Coord /\ flat \in Flat
  /\ HexDecode(flat) = pos
  /\ HexEncode(pos[1], pos[2]) = flat

(* The ring of a pod closes: the w^k and the w^(k+1) neighbour are each    *)
(* other's neighbours, and opposite hops cancel, at every cell reached.    *)
RingCloses ==
  \A k \in 0 .. 5 :
    LET n == HexNeighbor(flat, k)
    IN  /\ HexNeighbor(n, (k + 2) % 6) = HexNeighbor(flat, (k + 1) % 6)
        /\ HexNeighbor(n, (k + 3) % 6) = flat

(* The centres a program may give the field accelerator: the 64-cell store *)
(* is the box -4 .. 3 of both coordinates, and a pod lies inside it        *)
(* exactly when its centre lies inside -3 .. 2 (hex_field_accel.v:51-65).  *)
StoreBox ==
  /\ flat < 64 <=> pos[1] \in -4 .. 3 /\ pos[2] \in -4 .. 3
  /\ (\A j \in 0 .. 6 : HexPod(flat)[j] < 64) <=> pos[1] \in -3 .. 2 /\ pos[2] \in -3 .. 2
=============================================================================
