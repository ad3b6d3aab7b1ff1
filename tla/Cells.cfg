SPECIFICATION SweepSpec
CONSTANTS
  Widths = {2, 6}
  Operands <- SweepOperands
INVARIANTS KaratsubaExact EisenExact NormExact GaExact PolarExact
