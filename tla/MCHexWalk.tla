------------------------------ MODULE MCHexWalk ----------------------------
(***************************************************************************)
(* HexLockstep with the restoring square root of the RTL.                  *)
(***************************************************************************)
EXTENDS HexLockstep, HexIsqrt
=============================================================================
