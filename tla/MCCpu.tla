-------------------------------- MODULE MCCpu -------------------------------
(***************************************************************************)
(* Programs for the CPU: the two of the repository, and a family that puts *)
(* every opcode on two points of its choice, twice.                        *)
(***************************************************************************)
EXTENDS Cpu

Decode(word) == [op |-> word \div 4096, rd |-> (word \div 512) % 8, low |-> word % 512]

Image(words) ==
  [j \in PC |-> Decode(IF j < Len(words) THEN words[j + 1] ELSE \HF000)]

(* rtl/program.hex and rtl/program_ga.hex.                                 *)
Program   == Image(<<\H4001, \H0200, \H2458, \H2648, \H0250, \H18D0, \H4A02, \H4C01,
                     \H3F70, \H3D68, \H2DA8, \H2FD0, \H0DB8, \H5DB8, \H2FE0>>)
ProgramGA == Image(<<\H4002, \H4203, \H2248, \H0008, \H4201, \H45FE, \H2488, \H0250,
                     \H6600, \H7808, \H8A08, \H9C08, \H8E40, \H66C0, \H9C40>>)

RepositoryPrograms == {Program, ProgramGA}

(* r4 = (p, q) and r6 = (s, p), then r7 = op(r4, r6) and r1 = op(r7, r4);   *)
(* the third field of the instruction is also the k of a rotation.         *)
Ldi(rd, v)          == 16384 + 512 * rd + (IF v < 0 THEN v + 512 ELSE v)
Op(op, rd, ra, rb)  == 4096 * op + 512 * rd + 64 * ra + 8 * rb
TestOp(op, k, p, q, s) ==
  LET Do(rd, ra, rb) == Op(op, rd, ra, IF op = 2 THEN k ELSE rb)
  IN  Image(<<Ldi(1, p), Ldi(2, q), Op(2, 3, 2, 1), Op(0, 4, 1, 3),
              Ldi(5, s), Op(2, 6, 1, 1), Op(0, 6, 6, 5),
              Do(7, 4, 6), Do(1, 7, 4)>>)

(* 255 + 255 leaves six trits, 13 is all ones, -256 needs the top digit.   *)
Values == {13, 255, -256}

(* A program without a HLT, which pc runs round and round.                 *)
Endless == [j \in PC |-> Decode(IF j = 0 THEN Ldi(0, 5) ELSE Op(0, 1, 1, 0))]

TestPrograms ==
  {TestOp(op, 0, p, q, s) : op \in (0 .. 14) \ {2, 4}, p \in Values, q \in Values, s \in Values}
    \cup {TestOp(2, k, p, q, 1) : k \in 0 .. 7, p \in Values, q \in Values}
    \cup {Endless}

AllPrograms == TestPrograms \cup RepositoryPrograms
=============================================================================
