# Tau6 in TLA+

Tau6 is a balanced-ternary processor built around the hexagonal (Eisenstein)
lattice: a trit is a pair of rails (00 = null, 01 = +1, 10 = -1, 11 = never),
a word is an Eisenstein integer `a + b.w`, memory is addressed by lattice cell,
and three memory-mapped devices put the lattice operations on the bus of a
binary RISC-V core. This directory models the RTL under `src/rtl` -- the
system on chip around those devices, the ternary CPU down to its trits, the
co-processor port -- and the Python programs beside it: the emulator of the
co-processor, the hex memory, and the scripts that search, count and check.

The models follow the Verilog and the Python, not the prose of `docs/`; where a
comment of the repository and the code disagree, a run shows it or the list of
disagreements names it (see "Findings").

## The system

| Part | Sources | State | Operations |
|---|---|---|---|
| SoC port | `rtl/tau_soc.v` | RAM words, `ram_ready`, `ram_rdata`, `resetn` | request, wait, complete, reset |
| Field accelerator | `rtl/hex_field_accel.v`, `grad_recon.v`, `trelax.v` | 64 `cells`, `center`, port registers | store cell, store centre, TGRAD/TRECON/TRELAX |
| Pod lookup | `rtl/hex_mmu_periph.v`, `hex_pod_addr.v`, `hex_encode.v`, `hex_decode.v` | `center`, port registers | store centre, load the seven addresses of its pod |
| Transport link | `rtl/ternary_link_periph.v`, `ternary_link.v` | `word`, port registers | transmit, load null/active counts, canary, energy |
| Ternary CPU | `rtl/cpu.v`, `ternary_gates.v`, `tmul_opt.v`, `ga_ops.v`, `ternary_mem.v` | `pc`, `rf`, `hlt`, `ovf` | sixteen opcodes, one per clock |
| Co-processor port | `rtl/xlattice_cfu.v`, `picorv32_pcpi_xlattice.v`, `neorv32_cfu_xlattice.v` | none (combinational) | decode custom-0, always ready |
| Cells | `rtl/converters.v`, `ternary_ff.v`, `junction_cell.v`, `binary_tgrad.v` | flip-flops | conversions, price of a junction |
| Emulator | `scripts/xlattice.py`, `ternary_ops.py` | cells by coordinates, `xlattice_ovf`, bits moved | the handler of custom-0, thirteen instructions |
| Hex memory | `scripts/hex_memory.py`, `hexaddr.py` | byte memory, the address held | read and write a word, address of a neighbour, pod |
| Circuit memo | `scripts/circuit_memo.py` | three counters, signature cache, edges | count trees, store in the causal lattice or fall back |
| Energy search | `scripts/tau_energy_search.py` | netlists kept and new, bound, depth, gate | branch and bound by levels, print, run the multiplexer |
| Crossover | `scripts/address_crossover.py`, `plot_address_curves.py` | cells walked, first and permanent crossover | tile a range, scan, closed form |
| Polar adder | `circuit/gen_polar_full_adder.py`, `check_polar_full_adder.py` | rows checked, verdict | write the netlist, compare what ngspice logged |
| Bench sweeps | `circuit/make_ternary_sweep.py`, `analyze_sweep.py`, `run_lowswing_sweep.sh`, `analyze_lowswing.py` | a log, the rows of a report | write instances, split the log, report |

**Interaction.** The core holds `mem_valid` with an address, data and byte
strobes until it samples `mem_ready`. Each device compares the address with
its window at every clock edge, acts, and raises its own ready line one edge
later; `tau_soc.v` selects one ready line and one read word by the address
alone. Nothing else connects the devices: all interaction is through the
order of the accesses of the program, reset, and edges at which core and
devices move together. The co-processor port has no state: the core shows an
instruction and two registers and has the result at once. The emulator does the
same instructions, and more, in Python, on a cell store that a host program may
write. The scripts talk to outside programs through files: ngspice reads a
netlist and leaves a log, the causal lattice is a program started per lookup
that may be missing, fail or hang.

**What is hard.** A device's hit line does not look at its own ready line
(the RAM's does), so each peripheral acts at *two* edges per access: whatever
a store does must be idempotent. Ready lines outlive the access they
answered by one edge. Reset is asynchronous for the peripherals, synchronous
for the core, and does not reach the RAM. The accelerator's TRECON replaces
the very cells from which its fit flag is computed, and cuts eight trits to
six; its store has 64 cells while addresses have 32 bits, so pods at its rim
contain cells that do not exist. The address unit folds, pairs and wraps
coordinates at a fixed width. The CPU has no concurrency but many widths: half
sums, wide sums and products of 2, 6, 7, 12, 13 and 14 trits, each the
narrowest that is claimed to suffice, and a result cut back to six with one
flag to tell. Its adders are gates: an upset rail makes the code 11, and the
next addition may turn it back into a valid, wrong trit. The emulator must do
with unbounded integers and one latch what the cells do with widths and a flag
per instruction. The search prunes with a bound that moves while it searches,
in an order the pool dictates. The scripts' outside programs fail one
measurement or one run at a time, and the reports go on with the rest.

**What makes each part correct.**

- SoC: an access is answered once, by the device it names, never by a stale
  line; the devices behave as if each access happened at one instant; every
  mapped address is answered.
- Accelerator: the fit flag tells exactly what TRECON loses; the heat step
  obeys the maximum principle despite two roundings.
- Address unit: encode and decode are inverse at every width, neighbours are
  symmetric across the wrap, pods are seven distinct cells.
- CPU: no register holds the code 11 unless a rail was upset; what the ALU
  stores is the Eisenstein result reduced to six trits with `ovf` telling
  whether it was; an upset that makes the code 11 is contained or flagged.
- Co-processor port and emulator: the same trits and flags for the same
  instruction, except where the code is known to part from the RTL (below); every
  instruction answered; a pod keeps what the RTL's pod keeps, where that fits.
- Hex memory: the address functions name the cells the RTL names.
- Search: what is returned is a netlist of the target at the cost stated, and
  pruning does not change that cost.
- Memo, crossover, polar adder, sweeps: signatures neither merge nor split,
  the crossover printed is the crossover, a circuit that passes the check is
  right, a report that is printed is true of the log.

The hazards, each at its line with the properties that cover it, are listed in
`PROJECT.json`.

## Modules

```
MemPort                     the request the core shows to every device
  Ram                       byte-lane merge of a RAM word
  HexAddr                   sign fold, Szudzik pairing, neighbours, pod
    HexIsqrt                the restoring square root, given to HexAddr by the cfgs
    HexWalk                 walking the lattice by hops
  HexField                  TGRAD, TRECON, TRELAX on coefficients
  HexMmuPeriph, HexFieldAccel, TernaryLinkPeriph      the three peripherals
TauSoc                      all of them at one clock edge; reset
  SocSpec                   the abstract devices TauSoc implements
Trits                       rail codes, the full adder, ripple words
  EisenCells                multipliers, norm, geometric-algebra units
    CellSweep               every unit against the integers
    Cpu                     sixteen opcodes, register file, canary, upsets
      XlatticeCfu           the co-processor and its two ports
        Xlattice            the emulator of the same instructions (+ TernaryOps)
    PolarAdder              the full adder of the circuit files
      PolarCheck            its generator's rows and its checker
HexMemory                   the address functions and words of the scripts
  HexLockstep               the walk of HexWalk made by both sides at once
TernaryGates                the gate library and the energies of the search
  LevelSearch               an exact search by levels, the abstraction
  EnergySearch              branch and bound, twice; LevelSearch as refinement;
                            the multiplexer
    EnergyOptimum           netlists rebuilt from rails, the price per use
CircuitMemo, Crossover, SweepBench, LowSwing
  Scripts                   these and PolarCheck, one of them started
MCTauSoc, MCHexWalk, MCCellSweep, MCCpu,
MCXlattice, MCEnergySearch, MCScripts       small instances
HexWalkProofs, TauSocProofs, TritsProofs, CellSweepProofs,
CpuProofs, EnergyProofs, XlatticeProofs, ScriptsProofs          proofs
```

**MemPort** declares the four lines of the port (`mem_valid`, `mem_addr`,
`mem_wdata`, `mem_wstrb`), `IsLoad` and `IsStore`.

**HexMmuPeriph, HexFieldAccel, TernaryLinkPeriph.** One action per branch of
the device's `always` block: reset, each kind of store, a store elsewhere in
the window, a load, and an edge without a hit; `...Edge` is their disjunction.
Read registers are computed by the same operators the stores use
(`FieldRegister`, `LinkRegister`, `HexPod`).

**TauSoc.** All registers change together at an edge, so `Clock` is the
*conjunction* of what the core, the RAM and the three devices do at that edge,
each a disjunction of its own cases. `AssertReset` falls between edges and
clears the peripherals; `ClockInReset` is an edge under reset, at which the
core drops its request while the RAM still answers; `ReleaseReset` needs one
such edge. The core (PicoRV32, not in the repository) is external: it raises a
request out of `Requests`, waits, completes, and lowers `mem_valid` for at
least an edge while the address lines keep their value. `performed` is a
history variable: the edges at which a device acted on the current request.
Registers that no reset reaches (the RAM, its port, the core's address lines)
start with any value of their width.

**HexAddr, HexIsqrt, HexField.** The combinational cells. Coordinates have
`2 * HalfSide` values (`HalfSide = 2^15` in the RTL) and every intermediate
is cut where the Verilog cuts it. The square root is a constant with its
defining property as an assumption, and the RTL's loop (`RestoringIsqrt`) is
what every cfg supplies, so the assumption is evaluated for it at every run.
Words of the field are integers in the range of their trits; a cut to the low
trits (`Low6`) and a drop of low trits (`DropTrit`) are modelled by their
values; the code 11 inside a cell is modelled in the CPU, not here. A cell that is not
in the store reads as any value of the constant set `Unknown` (an
out-of-range read of a memory is X in the Verilog) and a write to it is lost.

**HexWalk** walks the flat address of a pod centre from hop to hop
(`Hop`: write the centre, read a pod register) next to the plane position on
the torus, so that a wrong fold, pairing or wrap shows up as an address that
does not name the cell walked to.

**SocSpec** is the abstraction: a request is pending, performed at one
instant, and completed; a store changes what its register names and nothing
else; a load returns the value at that instant. It knows no edges, ready
lines or multiplexer. `TauSoc!Promise` is the refinement mapping.

**Trits, EisenCells** model the cells on their rails: a trit is one of four
codes, `Push` and `Pull` are its wires, and the full adder `tadd1` is its own
sum of products, whatever the input codes. A word is a sequence, least
significant trit first; `Ripple` is the carry chain. What a word is worth
(`Val`), what a cut leaves of an integer (`Residue`) and the lattice arithmetic
(`EisenA`, `NormOf`, `DotOf`, ...) are defined without the cells. `CellSweep`
is the sweep of the two test benches: four operands change one at a time; it
also holds the polar adder, chained, against the ripple adder.

**Cpu.** `Execute` is the clock edge with any instruction but HLT: decode,
both register reads, the unit, the write, the flag, the program counter.
`Halt` is HLT, which still reads and watches its register fields.
`AssertReset` and `ReleaseReset` are the asynchronous reset. Widths are the
RTL's: six trits a coefficient, eight registers, sixteen instructions. `Upset`
flips one rail of one trit of one register at any moment between edges. Four
history variables follow the upsets since reset: how many (`upsets`), whether
one made a valid trit rather than an 11 (`silent`), whether a canary has fired
(`caught`), and the register file of the undisturbed run (`golden`).

**XlatticeCfu, Xlattice.** `Cfu` is the unit, `Pcpi` and `NeorvCfu` its two
ports. `Xlattice` has an action per branch of the emulator's handler (`R2`, `R1`,
`LDI`, `PodRead`, `PodWrite`, `RaiseCanary`, `Unimplemented`) on registers of sixteen trits; the base
instructions, which can leave any bits in a register, and the host program,
which can write cells, are external actions. An exception or an unknown
instruction ends the run, in the order the handler meets them. What an
instruction reads at cell level is computed on integers of `TernaryOps` and
encoded back; the cells of `XlatticeCfu` are used in the properties only. What the
RTL does of an instruction (`ByCells`) is that unit, and for the operations it
leaves to others the lines of `cpu.v`, the case of TROT with its zeros and its flag
included (`Turn6`).

**HexMemory, HexLockstep.** The Python functions on integers of any size, next
to `HexWalk`: one step hops on both sides. The two part where the RTL wraps,
so the walk stays in the box of coordinates or one cell outside it.

**TernaryGates, LevelSearch, EnergySearch, EnergyOptimum.** One step of
`EnergySearch` is one turn of an outer loop: a gate, one function of the pool
(cheapest first, ties in a fixed order) and the whole loop over the second operand
(`UnaryStep`, `BinaryStep`, `NextGate`, `EndLevel`), then `Return`,
which starts the second run. `LevelSearch` takes one step per level, all gates
at once, and knows no order; `ExactByLevel` says that the unpruned run implements
it. `EnergyOptimum` rebuilds netlists with the rails
of `Trits`, so that the gate library of the search is held against the RTL.

**Scripts** starts one of the five scripts; the variables of the others stay as
their Init left them. In `CircuitMemo` a step is one tree, and then the
lookup, with its outcomes of the outside program; in `Crossover` one pair of
counts, then one cell of the walk in the order of `sorted`, each held against the end
of the one before it (`verify_coverage`), then one N of the scan; in `PolarCheck` one row of a log that ngspice made of a circuit with at
most one stuck gate; in `SweepBench` and `LowSwing` one run of ngspice, one
section or one part of the report. The analogue values are external: any
outcome of the thresholds can be logged, and any measurement can be missing: in
`SweepBench` those of an instance and the three of the idle driver, for which
`Default` is what `vals.get` makes of a missing one.

## Runs

| Run | Properties | Shows |
|---|---|---|
| `soc_devices` | `TypeOK`, `Handshake`, `OneAnswer`, `AtomicDevices`, `SecondEdgeHarmless`, `ReconFlag` | byte-lane RAM accesses next to the accelerator on two overlapping pods, TRECON repeated, resets anywhere: the devices are atomic although they act twice |
| `soc_bus` | `AtomicAndLive`, `Answered` | liveness of every window; one load of an unmapped address is in the program and is not answered |
| `soc_relax` | `RelaxMaxPrinciple` | TRELAX on an interior pod and on the corner of the store, where a read gives any value |
| `hex_walk` | `NamesPosition`, `RingCloses`, `StoreBox`, `ScriptsAgree`, `WordsClash` | all 1024 addresses of a 32 x 32 torus, the scripts walking along; which words of the hex memory overwrite each other |
| `cells` | `KaratsubaExact`, `EisenExact`, `NormExact`, `GaExact`, `PolarExact` | every unit exact, alternative units equal, flags exact, the polar adder equal to the RTL's |
| `cpu` | `TypeOK`, `NeverBoth`, `Contained`, `AluExact` | every opcode on two points and on its result, resets anywhere; the repository's two programs with one upset rail anywhere between resets |
| `emulator` | `MirrorsCells`, `PortAnswers`, `PodKeeps`, `HeatRange` | sequences of instructions, known, unknown and with a field of code 11: where the emulator and the ports do what the RTL does, and exactly where not |
| `energy_search` | `NetsSound`, `SameOptimum`, `PricedPerUse`, `MuxSelects`, `ExactByLevel` | targets of one and two inputs searched with and without pruning, and the refinement of `LevelSearch` |
| `scripts` | `MemoExact`, `CountersAgree`, `CrossoverExact`, `CheckerFinds`, `SweepWindows`, `SweepStands`, `SectionsMatch`, `SummaryStands` | the five scripts to their ends, with failed measurements, failed runs and stuck gates |
| `soc_relax_once` | `TrelaxOneStep` (violated) | a TRELAX store steps the centre twice |
| `karatsuba_odd` | `KaratsubaExact` (violated) | at nine trits the Karatsuba product is wrong |
| `cpu_ovf_latches` | `OvfLatches` (violated) | the next instruction overwrites the overflow flag |

**Bounds.** `HalfSide = 8` gives the field runs the whole 64-cell store and
its rim (the store is the box from -4 to 3); `HalfSide = 16` in `hex_walk`
additionally puts the wrap well outside the store. `RamWords = 1` and
`ByteSize` of one or two bits: the lanes are what matters, not their content.
`LinkTrits = 3` reaches every count of null trits and the code 11. The
`Requests` of `MCTauSoc` are chosen for overlap: two pods that share four
cells, values whose sums leave six trits (243 + 243), a value whose ninth is
inexact and the extreme one (-364), a centre on the corner whose four far
neighbours are missing. Any number of accesses in any order, and resets at
any moment, are explored: nothing is bounded but the set of accesses.
The device windows and offsets are the RTL's own numbers.

`cells` drives every word of two trits (`Widths` has 2) and, at the CPU's six,
the boundary words: null, one, the extremes, and each half at its extreme, with
both signs; these are the words whose sums carry farthest. The programs of
`MCCpu` load three values each out of 13 (all ones), 255 and -256 (the ends of
LDI), so that sums, products and rotations both fit and do not; a rotation is
taken with all eight values of its field; one program has no HLT and wraps the
program counter. `MaxUpsets = 1`: one upset between two resets, at any trit and
any moment, in the two programs of the repository (`Disturbed`); the family of
programs whose subject is the arithmetic is not disturbed.

`emulator` makes three steps (`MaxSteps`) out of every operation on registers 0
(which reads as zero), 1, 2 and 7: one step prepares a register or a pod, one
acts on it, one reads it back or repeats. The words are the extremes of six
trits with both signs, a code 11 in the point, and one that only TRECON sees; the
pods are level at -1 and at the least value, the field of `demo.py`, and one whose
difference eight trits do not hold.

`energy_search` searches one-input targets three gates deep -- three of them with
a netlist two gates deep that one of three gates beats, so that the bound moves
between levels -- and the targets of the script's own demonstration two deep, with
and without `tsum` and constants. The energies are the script's 1.2 and 0.05 pJ, with
a static energy of 0.1 pJ (its default is none), in units of 0.05 pJ: whole numbers,
where the script adds floats.

`scripts` counts trees of at most five nodes (the script's default is six),
walks a box of 30 bits (`BOX`; the script's 32 are beyond TLC's integers) and scans to 1000 (2^20); the powers
of two and three below 1000 have every order the longer scan has. The sweep has
all 96 instances with the measurements of one of each diode varied, every single
measurement of these and of the idle driver lost in turn; the low-swing sweep has three rails and one (the
script's are 17 and 12), and at each any outcome: the rows of a mode are compared
with each other, and three tell the first, the best and the lowest apart. The stuck gates are all of them, high and low.

The `AtomicDevices` runs make no TRELAX store and keep the pod inside the
store: with TRELAX the accelerator is *not* atomic (that is the finding), and
at the rim the abstract device has no value to promise.

**Fairness.** `FairSpec` assumes only that the clock keeps running, in reset
(`WF(ClockInReset)`) and out of it (`WF(Clock)`). Nothing obliges reset to be
asserted or released; at an edge every register moves, so no device needs a
fairness of its own. Since the core may think for ever, `Answered` speaks of
requests that were made. An access may also end by reset, which the
properties say. The CPU is checked for safety only: it does one instruction per
edge, never waits, and need not halt. The Python programs are sequential and
checked for safety; they stop at their end, or at an exception, which is why
their cfgs have CHECK_DEADLOCK FALSE.

## Proofs

Every theorem holds for every value of the constants within the named
assumptions; what else it assumes stands in its statement and below.

`HexWalkProofs`: the fold, the pairing and their inverses for every width;
`EncodeDecode`, `DecodeEncode`; the seven cells of a pod are distinct; the
restoring loop is the integer square root at every width (`RestoringExact`), so
that it has the property the address unit assumes of its root
(`RestoringMeetsAssumption`); and the five properties of `hex_walk` for every side of the
lattice (`StoreBox` when `HalfSide >= 8`, which a smaller lattice violates:
its 64 cells are not a box). Of the square root of the scripts, `ScriptsAgree`
needs only that it is asked for roots that exist.

`TauSocProofs`: `TypeOK`, `Handshake`, `OneAnswer`, `ReconFlag` and
`RelaxMaxPrinciple` for every program, memory size, byte width, link length,
set `Unknown` and side of the lattice; and, for every program without a TRELAX
store and with its pods in the store (`AtomicProgram`), `SecondEdgeHarmless` and the
refinement `AtomicDevices`. The lemmas on the field stand first: a balanced digit
cut moves a value by at most the digit (`DropTrit`); `TgradLossless`;
`RelaxBetween`, the maximum principle of the doubly rounded heat step.

`TritsProofs`: the ripple adder and the shift-add multiplier keep their widths,
give no 11 that they were not given, and are exact at every width (`RippleExact`,
`ValMul`).

`CellSweepProofs`: the Eisenstein products and the geometric-algebra unit are
exact at every width, the Karatsuba product and the norm at every even width.
`EvenWidths` is not a convenience: at odd widths the Karatsuba product is wrong,
which run `karatsuba_odd` shows. The polar adder adds as the cell of the RTL
does (`PolarIsExact`).

`CpuProofs`: every unit and opcode keeps its width and gives no 11 (`AluSound`),
hence `TypeOK`, `NeverBoth` and `Contained`; and `AluExact`, what every opcode
means on integers and when it raises the flag; for every set of programs and
number of upsets.

`EnergyProofs`: the branch-and-bound search returns a netlist of least cost
(`ReturnsLeast`), so that pruning does not change the optimum (`SameOptimum`); the
unpruned loops implement `LevelSearch` (`ExactByLevel`); for every target, number of
inputs, set of gates, depth and energies; every netlist kept or returned is what
it is kept for, rebuilt from the cells of the RTL, at the cost noted, and the
pruned run looks at no more placements (`NetsSound`). `MuxSelects` on all 81 rows.

`XlatticeProofs`: the four properties of `emulator` for every set of registers,
instructions, words and host writes and any number of steps: what the emulator shares
with the RTL, and each case in which they differ.

`ScriptsProofs`: the crossover script raises nothing, so that its cells neither
overlap nor leave a gap, and it finds the crossover, in a box of any number of bits from two on (`CrossoverIsExact`); the
low-swing analyser makes one section of each run that began (`SectionsAreRuns`),
for any rails, any number of points and any runs that die; the memo gives two
fragments the same signature exactly when one is a free renaming of the other
(`MemoIsExact`), and its counters agree (`CountersDoAgree`), for trees of any size;
the windows of the lever sweep and the report on it are right whichever cells are
varied and whichever measurement fails, one of the idle driver included, as far as
`SweepStands` says (`WindowsAreWide`, `ReportStands`), and so is
the summary of the low-swing sweep (`SummaryIsTrue`).

*Argument, SoC.* `Handshake` is not inductive: it says nothing of ready lines
while no request is up, and those are the ones that could answer the next
request. `IInv` adds `Counted` (`performed` is 0 or 1 during a request and a
request of no device has 0) and `ReadyLines`: during a request a device's line
is up exactly when that device is the one selected and `performed = 1`, and
between requests every line that could still be up is down by the time
`mem_valid` rises, because `mem_valid` is low for at least one edge and no
device hits then. `IInv` is preserved by each disjunct of `Next`; the two
action properties on the field follow from `TypeOK` and the lemmas on it.

*Argument, atomic devices.* A device acts on a store at two edges, and the
refinement takes the first for the instant of the access. The second must then be
a stutter, so the invariant has to remember what the first one did. `AtomicInv`
adds to `IInv`: `StoreDone` -- once `performed = 1`, the register a store names
already holds what the store would put there; `RamLine` -- the RAM, which has acted,
shows its ready line, reset or not, and so does not act again; and `InStore` -- the
centre written last has its pod in the store. The mapped step is proved device by device,
and `SecondEdgeHarmless` falls out of `StoreDone`. TRELAX is excluded because its
second edge does act (a finding), and centres on the rim because the abstract device
has no value to promise where a read is X.

*Argument, hex memory.* `LockInv` ties the walk of the RTL to that of the scripts:
`NamesPosition` on the one side, an address that decodes to a cell and encodes back
on the other, and that cell, wrapped to the torus, is the position. In the box
nothing wraps, and the two foldings and pairings are the same function there.

*Argument, exactness.* `Val` is a sum of weights; the model's `^` is opaque to
the provers, so the weights are `Pow3`, a recursive function with its two laws.
`Worth` says that a word stands for an integer up to a multiple of 3^n, which is
what survives a dropped carry; words of one width worth the same integer are equal
(`WorthSame`), which gives both the exactness of a unit and the equality of its
alternatives, and a word whose integer is within range has it as its value
(`WorthExact`). What remains for a unit is a bound: that its sums fit the trits it
has. For Karatsuba the bound is tight (`SumHalves`), and the half-width is where it
fails at odd widths. `AluIsExact` puts the units behind the opcodes: `Owes` says a
unit's word is its integer cut to six trits and its flag is up exactly when the
cut loses something.

*Argument, square root.* After `k` stages of the loop the root is that of the
operand without its low `2 * (RootBits - k)` bits, and the remainder is what the
operand has above its square (`StageKeeps`); the trial then never leaves the width.

*Argument, polar adder.* A netlist is a recursive function on its gates
(`Settled`). `SettledIs`: a node is what the one gate that drives it makes of the
settled nodes, since each gate stands after those that drive it (`InOrder`); so each
of the 34 gates is an equation (`AllGated`) on the six input rails, and the two
outputs are compared with `tadd1` over the three trits (`PolarIsAdder`). The chain is
the ripple carry of `TritsProofs`.

*Argument, CPU.* `NeverBoth` and `Contained` are inductive next to `TypeOK`. For
`NeverBoth` the step is `AluSound` over the three codes other than 11, and a
canary that looks at points without an 11. For `Contained`, an instruction that
reads a register the upset changed reads an 11, since that is the invariant, so
the canary of that port fires; any other instruction computes what the
undisturbed file computes; and an upset leaves its 11 where it strikes, which
needs every register to have its twelve trits. The cells are recursive
functions: `Recursion` shows, by induction over a set of indices (`Climb`), that
each exists, and `Climb` bounds it step by step.

*Argument, search.* What can be built is not a state of the search. `Derived(j,
k, f, c)` says that function `f` is realised at cost `c` within `k` levels, as
membership in every set of triples closed under leaves, extra levels and gates;
`DerivedInversion` takes a derivation of `k + 1` levels apart. `SameOptimum` is far
from inductive; `SearchInv` adds, next to the types: what is kept and new exists
(`KeptExist`, `NewExist`); below the bound everything that exists in the finished
levels has one kept that is no dearer (`ExactBelow`); the bound is the cost of
something kept (`BoundKnown`); whatever the gates and operands already done could make
below the bound is kept or new (`NewCovers`); and what was returned is optimal
(`FoundOptimal`). The heart is `CutCovers` -- a node costs at least the cheapest
node, so once the first operand is too dear, so are all that follow in the order
of the pool -- and `LevelCovers`, the induction step from `ExactBelow` at one depth to
the next. Two runs that both return the least cost return the same one.
For `ExactByLevel` the bound is out of the way and the invariant is an equality: what
is kept at the end of a level is what one round of `LevelSearch` makes of the level
before (`NewPlaced`: nothing in `new` but what some gate makes, at its price;
`NewCovers`: nothing left out), whatever the order the loops went in. `MuxSelects`
follows from `MuxInv`, an equation per gate run so far.

*Argument, netlists.* A netlist is nested records, and the prover has no induction
over those. But the search builds them in levels, so `NetInv` says that there is a
`Tower`: a set of netlists for each level, growing, in which each is a leaf or a gate
of the job on two of the level below at the price of that gate; what is kept lies in
the level done, what is new is one gate on top of it (`Standing`). When a level ends the
tower is raised from there on (`LevelTower`): a netlist that a cheaper one replaces
stays in it, since others were built on it. Rebuilding goes down the tower
(`UsedStage`) and comes up with the table and the cost of each (`MadeStage`); that the
rails compute the gates is `CellIs`. For the counts, `Work` is the set of all
placements there are below the depth; a run has looked at a subset of those its loops
have passed, and without the cuts at exactly those (`CountInv`), because then what is
kept is all that can be realised (`KeptReach`). No sum over the loops is needed: each
row adds a set that is disjoint from the rest and as large as what it counts
(`RowCounts`).

*Argument, emulator.* `EmuType` is inductive: registers hold sixteen codes and the
store only cells at lattice points that hold eight trits. `EncodeExact` is the
bridge: `encode_field` gives n trits worth the integer it is given, whatever the
integer, and a cell of the RTL worth the same integer has the same trits; so each
point instruction has a `Mirrors` lemma and needs no case split over words. A
rotation is split by its field (`RotMirrors`): six angles are those of `cpu.v`, and
for 6 and 7 the emulator's result is the zero of `cpu.v` only if the point is
(`NothingEncoded`). `MirrorFollows` takes the latch along, `CanaryEnds` the runs that
an 11 stops. `ReconCut` compares a pod of eight trits with its low six, which are
the same exactly when the fit flag of `grad_recon.v` is down. `PodKeeps` rests on the bound 1456 of both parts of the derivative, which eight
trits (3280) hold, and on the pod being seven cells (`FiniteSetTheorems`). In
`HeatRange` the two roundings are bounded apart; -365 is the one value out of range
a pod of six-trit values can reach, it wraps to 364, and the canary is latched.

*Argument, crossover.* `Takes(base, n, e)`: `e` symbols of the base name `n` things
and `e - 1` do not. Powers rise, so `e` is unique (`TakesOnce`), and `trits`,
`bits` and `ilog3` are it (`Counts`; `trits` counts the powers below `n`, which is
a cardinality). `CellsInv`: the cells made so far are those of the pairs of counts
the two loops have passed, as far as they are not empty; none of them loses,
because no power of two reaches the power of three of the same exponent; and
`total = prev_end`, and `left` holds exactly the cells that lie wholly beyond
`prev_end`. Each N lies in the cell of its own two counts (`CellOf`), so the first of
what is left starts where the walk stands, and no assertion fails. That no cell is
skipped is the model's own step: it takes every one of `wins` and `ties`, and one that
began anywhere else would raise.

*Argument, low-swing sections.* The split is a recursion on the lines of the log,
which come in pairs (`Paired`): `Halfway(k)` says outright what it has after `k`
lines, `HalfwayOn` is its step, and `SplitGives` the result; a run appends its two
lines whole, whatever of its measurements it has.

*Argument, lever sweep.* `LowerIs` shows that lower case keeps a name's levers
apart, so the name of an instance leads back to one cell of the grid (`Named`) and
`decode` to its settings. A window's pulses then depend on the width alone, of which
there are four (`WindowsAreRight`). `SweepInv` says for each part of the report what
it took: every instance with a push energy had a rail, and what was called cheapest
is the cheapest over its threshold and had all that is printed of it (`Reports`,
`Shares`, `Gridded`), with what stands for the idle driver (`IdleTaken`) and which
parts have averaged its energy (`Averaged`). A report that stopped with nothing lost
but of the idle driver had no instance to name, since none asserts its rail
(`NoRail`). The order of the energies and the losses that pass in silence -- a push
energy, what is not used, and the idle driver -- follow at the end. `Varied` is any set of cells of the grid and `Usual` any two
integers.

*Argument, low-swing summary.* `SwingInv` adds to the sections that the rails of
the banners are naturals (`Railed`), that the rows are good ones (`GoodRow`: the
receiver is the sense amplifier exactly when both its classes are OK) and that each
summary is `SummaryOf` its mode. `OfModeIs` shows that the places of the sort are
taken by one row each, by the cardinalities of what lies before; `PyMinGives`
follows the scan of `min`: the first row stays exactly when its energy is missing.
The floors and the point below need a lowest and a highest of a set of rows
(`FirstOf`), the rest is `SummaryTrue`.

*Argument, memo.* `RowsAre`: the matrices `canonical` compares are the renamings of
the table, written out. A renaming of a renaming is a renaming and each has an inverse,
so the tables of an orbit have the same renamings, and the least key among them
(`LeastKey`; a finite set of numbers has one) is the signature of all
(`CanonicalSame`). `MemoExact` speaks only of the start of a size, and of
tables the caches hold; `MemoInv` says of every moment that what was counted has a table, that
a table is a table of nine results, and that a cached signature is what `canonical`
gives. It is inductive because the trees come in the order of `_enumerate_trees`: the parts of
a tree are smaller (`BySizeIs`), so they have been counted when it is. The two
orbits of the script, of the sum and of the three-input fragment, are worked out
(`VariantsOne`, `FragOrbit`).

*Assumptions.* The named ASSUMEs of the modules: widths are positive, the
square root has its defining property (which the loop of the RTL is proved to have),
the crossover's box has two bits or more and its scan stays inside
(`CrossoverAssumption`), `Unknown` is a non-empty set of
coefficients, requests are word-aligned and store words of the selected
device, programs consist of instructions, energies are not negative and a null
is the cheapest output (`EnergyAssumption`), the jobs of the search are well-formed and the
powers of three that index rows are naturals (`JobsAssumption`, `MuxAssumption`), the
cells varied are of the grid (`SweepAssumption`), the rails are naturals
(`SwingAssumption`), the emulator's instructions and words have their fields, register 0 among them
(`XlatticeAssumption`). TLC evaluates each of them in the runs. Two theorems of
`TauSocProofs` assume `AtomicProgram(Requests)` and two of `CellSweepProofs`
`EvenWidths`; that the programs of the atomicity and liveness runs meet the former is
an ASSUME of `MCTauSoc`, and the widths of the run `cells`, 2 and 6, are even.

*Only model-checked:* liveness (`AtomicAndLive`, `Answered`), which is out of the
prover's reach. `PricedPerUse`: what a listing without repetitions costs is a sum over a
sequence that a fold makes, an induction over data. Its last
part, that the two costs agree only when nothing is shared, also wants every gate to
cost something, as it does in the run (`E_STATIC` is 2): the sharing of a free gate costs
nothing to drop. `CheckerFinds`, a statement about the one netlist and its 34
gates stuck high or low, is checked on all of them, which is all there are.
`SummaryStands` and the two of the lever sweep are proved for every sweep; that the
measurements an ngspice run can give are the six of `OUTCOMES`, and that at most one
measurement of the decks fails, is the model's, and its proofs stand on it.

## Findings

- **A TRELAX store steps the centre twice.** `hex_field_accel.v:89` tests no
  ready line, and the core holds the store over two edges; line 26 promises
  one step. Every other store of the three peripherals is idempotent, which is
  what `SecondEdgeHarmless` checks. Run `soc_relax_once`.
- **The Karatsuba multiplier is inexact at odd widths.** `tmul_opt.v:132` takes
  the sums of the halves in `K + 1` trits; when the width is odd the high half
  already has `K + 1`. Line 115 promises the exact product, and
  `tmul_opt_tb.v:7` lists width 9 as proved. The CPU builds its norm at width
  six without Karatsuba and is not affected. Run `karatsuba_odd`.
- **`ovf` does not latch.** Every instruction, HLT included, assigns it
  (`cpu.v:239`), while `cpu.v:59` and `docs/compute/CPU_INTEGRATION.md:38` say it
  latches; `cpu_tb.v:413` looks at it only after HLT has cleared it. Run
  `cpu_ovf_latches`.

Disagreements between the code and what is said of it that no run of their own
shows; the models follow the code:

- Opcodes A to E store zero in `rd` (the write enable, `cpu.v:253`, excludes HLT
  only), where `cpu.v:223` says they write nothing (`AluExact` states the zero).
- A rotation raises `ovf` whenever `a + b` does not fit, also for the turns that
  do not use `a + b`, and the turns 6 and 7 give zero (`AluExact`).
- A byte or half-word store to a peripheral writes the whole register from all
  lanes of `mem_wdata` (`hex_field_accel.v:103`).
- `xlattice_cfu.v:21-22` has the canary latched into the overflow flag; the unit has
  no canary. The ports acknowledge every custom-0 instruction with a zero, known or
  not (`picorv32_pcpi_xlattice.v:42-43`; `PortAnswers`).
- `xlattice_encoding.md:88-89` (1.2) has the emulator mirror the datapath bit for bit. It
  does not for TROT: `erot` takes the angle modulo 6, so that 6 and 7 turn by 0 and 1,
  where `cpu.v:192` gives zero; and `cpu.v:193` flags an `a + b` that does not fit at
  every angle, the emulator only where `a + b` is in the result, not at 0, 3 and 6
  (`MirrorsCells` states both, and that nothing else differs).
- On a field of code 11 the emulator raises `ValueError` (`xlattice.py:34`; status
  "canary") and the run ends with the latch as it was, where `xlattice.py:82` calls
  it the "latched overflow / 11=NEVER canary" and `cpu.v:239` flags the 11 and goes on;
  TROT is stopped also by the register it only names its angle by (`MirrorsCells`).
- TRECON stores all eight trits of `div` and `curl`, always with status 0 and without
  a flag (`xlattice.py:184`: "ofit not yet modeled"), where `xlattice_encoding.md:266-268`
  (3.4) and `grad_recon.v:142-151` store the low six and report in `ofit`, or status 1,
  that they were wider. The pods are the same exactly when `ofit` is down (`PodKeeps`).
- A TGRAD of such cells can lose the derivative, without a flag (`PodKeeps`).
- The emulator's heat step rounds both quotients down, `trelax.v` to nearest
  (`xlattice.py:174-175`): a level pod sinks by one. `HeatRange` bounds the difference.
- `hex_memory.py:57` uses a cell index as the byte address of a four-byte word: the
  words of near cells overwrite each other (`WordsClash`).
- `hexaddr.py:27` numbers the six neighbours by opposite pairs, `hex_memory.py:22` and
  the RTL by angle, though `hexaddr.py:98` too has the k-th as `z + w^k`: the ring is
  the same, the numbers but for 0 and 5 are not (`ScriptsAgree`).
- `analyze_sweep.py` says nothing of a measurement that failed: a push energy drops its
  instance (`:47`), an idle energy makes every average NaN (`:44`, `:66`), an idle rail
  is printed as zero volts, as a quiet one is (`:45`) (`SweepStands` lists them).
- The lattice lookup is called best-effort (`circuit_memo.py:370`), but its
  timeout is raised outside the `try` (`:417`) and ends the program before the
  verdict.
- `circuit_memo.py` describes the three-input orbit as six tables; the fragment it
  takes has three (`MemoExact` states the count).
- `gen_polar_full_adder.py:263-266` says the checker has the full table of 27
  rows; it has 13, and two gates that are stuck low are not seen (`CheckerFinds`).
- `analyze_lowswing.py:149` prints that a point below the floor needs the
  preamplifier, also for a point the preamplifier does not resolve.
- `make_ternary_sweep.py:12` speaks of a flat top of 60%; the pulse it writes is
  flat for 71% of its width.
- `tau_energy_search.py:23` has the cost as the sum over the gates; a gate used twice is
  paid for twice, also in the netlist printed (`PricedPerUse`).
- `tau_energy_search.py:452` compares two float sums for equality; the model has whole
  numbers, where `SameOptimum` is exact. A negative `--static` makes the bound wrong.

## Not modelled, and why

- The converters, `junction_cell.v`, `binary_tgrad.v` and the packing cells: pure
  functions around the cells that are modelled; next in the plan.
- Of `ternary_mem.v`, the one-port register file, the flip-flop cells and the
  packers, which the CPU does not use.
- `transport.py` and `op_cost_curve.py` print tables of constants; of
  `plot_address_curves.py` only its counting function is modelled;
  `analyze_2d.py` reads a log of the same form as `analyze_sweep.py`.
- Voltages, energies and delays of the circuits: ngspice is external, and any
  outcome of a threshold is considered.
- The Lean development under `proofs/` is already machine-checked, about
  unbounded integers; the modules here state the width of the RTL.
- `verify_tadd1.sv`, `gate_area_cells.v`, `word_fairfight_cells.v` are
  harnesses and synthesis probes around cells modelled elsewhere.
- The program generator, demos and plots drive the components above.
- The analog circuits, surveys and papers are not programs.
- PicoRV32, NEORV32, tinyrv and the causal lattice are not in the repository.

## Plan

1. Port, RAM, peripherals, SoC, abstract devices (done); proofs of type
   correctness, handshake, flag and maximum principle (done).
2. `Trits`, `EisenCells`, `Cpu` (done): exact results with an exact flag,
   no 11 without an upset, containment of an upset (proved).
3. The co-processor port and the emulator; the Python hex memory in step with
   the RTL (done, proved).
4. The energy search: optimality, the refinement of its abstraction, the
   multiplexer (done, proved); memo, crossover, polar adder, bench sweeps (done,
   proved but for `CheckerFinds`).
5. The converters, the junction cell and packing; `analyze_2d.py`.
6. Proofs: the atomic devices, the square root, the polar adder, the crossover,
   the sections of the low-swing log, the signatures and the counters of the memo,
   the reports of the two bench sweeps, and the netlists of the energy search
   (done). Left: what a listing without repetitions costs (`PricedPerUse`).
