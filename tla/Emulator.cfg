SPECIFICATION Spec
CONSTANTS
  Reg = {0, 1, 2, 7}
  Instrs <- TestInstrs
  RawWords <- TestWords
  HostWrites <- TestFields
  MaxSteps = 3
PROPERTIES  PortAnswers PodKeeps HeatRange
CHECK_DEADLOCK FALSE
