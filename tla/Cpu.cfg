SPECIFICATION Spec
CONSTANTS
  Programs <- AllPrograms
  Disturbed <- RepositoryPrograms
  MaxUpsets = 1
INVARIANTS TypeOK NeverBoth Contained
PROPERTIES AluExact
