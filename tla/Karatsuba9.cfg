SPECIFICATION SweepSpec
CONSTANTS
  Widths = {9}
  Operands <- SweepOperands
INVARIANTS KaratsubaExact
