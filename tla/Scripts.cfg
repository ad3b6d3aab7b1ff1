SPECIFICATION Spec
CONSTANTS
  MAX_SIZE = 5
  BOX = 30
  limit = 1000
  Varied <- OneOfEach
  Usual <- Silent
  FAIR <- Rails3
  VTENG <- Rails1
INVARIANTS MemoExact CountersAgree CrossoverExact CheckerFinds SweepWindows SweepStands SectionsMatch SummaryStands
CHECK_DEADLOCK FALSE
