SPECIFICATION Spec
CONSTANTS
  E_PLUSMINUS = 24
  E_NULL = 1
  E_STATIC = 2
  Jobs <- TestJobs
INVARIANTS NetsSound SameOptimum PricedPerUse MuxSelects
PROPERTIES ExactByLevel
CHECK_DEADLOCK FALSE
