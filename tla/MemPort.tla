------------------------------- MODULE MemPort -----------------------------
(***************************************************************************)
(* The PicoRV32-style memory port every device of rtl/tau_soc.v hangs on:  *)
(* the lines the core drives.  Each device answers with a ready line and a *)
(* data register of its own.                                               *)
(*                                                                         *)
(* A word on the bus is represented in the domain of the device it is      *)
(* addressed to: four bytes for the RAM, a flat address for a centre, the  *)
(* value of 12 trits for a cell, the bits of 12 trit codes for the link.   *)
(***************************************************************************)
EXTENDS Integers

VARIABLES
  mem_valid,      \* an access is up
  mem_addr,
  mem_wdata,
  mem_wstrb       \* byte lanes to store; none for a load

Lane == 0 .. 3

IsStore == mem_wstrb # {}
IsLoad  == mem_wstrb = {}
=============================================================================
