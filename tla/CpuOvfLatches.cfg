SPECIFICATION Spec
CONSTANTS
  Programs <- TestPrograms
  Disturbed = {}
  MaxUpsets = 0
PROPERTIES OvfLatches
