SPECIFICATION Spec
CONSTANTS
  HalfSide = 8
  RootBits = 4
  Isqrt <- RestoringIsqrt
  Unknown = {0}
  LinkTrits = 3
  RamWords = 1
  ByteSize = 1
  NoAnswer = NoAnswer
  Requests <- RelaxRequests
PROPERTIES TrelaxOneStep
