------------------------------ MODULE MCTauSoc -----------------------------
(***************************************************************************)
(* Small programs for the SoC: the sets of accesses a program may make, in *)
(* any order and number.                                                   *)
(***************************************************************************)
EXTENDS TauSoc, HexIsqrt

Access(addrs, data, strobes) == [addr : addrs, wdata : data, wstrb : strobes]

Load(addrs)        == Access(addrs, {0}, {{}})
Store(addrs, data) == Access(addrs, data, {Lane})

(* RAM, pod lookup, link, and an address in no device's window (0x1100)    *)
(* that nobody answers.                                                    *)
BusRequests ==
  Store({0}, {0}) \cup Store({4096}, {6}) \cup Load({4104})
    \cup Store({12288}, {27}) \cup Load({12304})
    \cup Load({4352})

(* Byte-lane stores to the RAM, next to the field accelerator on the pod   *)
(* of cell 6 = (1, 0), which holds cells 20 (w^0) and 8 (w^1), and, after a *)
(* reset, on the pod of cell 0, which shares four cells with it.  243 is a *)
(* third of the 729 values of six trits: 243 + 243 does not fit them, and  *)
(* the sums of 243s are few.                                               *)
DeviceRequests ==
  Access({0}, {6}, {{0, 2}}) \cup Load({0})
    \cup Store({FieldBase + 4 * 20}, {243}) \cup Store({FieldBase + 4 * 2}, {-243})
    \cup Store({FieldBase + 256}, {6})
    \cup Store({FieldBase + 276}, {0})
    \cup Load({FieldBase + 4 * 67})

(* Both are programs that SocSpec, and the proof that TauSoc implements it, *)
(* are about.                                                              *)
ASSUME AtomicPrograms == AtomicProgram(BusRequests) /\ AtomicProgram(DeviceRequests)

(* TRELAX on the same two pods and on the corner cell 63 = (-4, -4), whose *)
(* w^2 .. w^5 neighbours are not in the store; one value whose ninth is    *)
(* not exact and the extreme one.                                          *)
RelaxRequests ==
  Store({FieldBase + 4 * 20}, {-364}) \cup Store({FieldBase + 4 * 6}, {5})
    \cup Store({FieldBase + 256}, {6, 63})
    \cup Store({FieldBase + 280}, {0})
    \cup Load({FieldBase + 272})
=============================================================================
