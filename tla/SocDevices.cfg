SPECIFICATION Spec
CONSTANTS
  HalfSide = 8
  RootBits = 4
  Isqrt <- RestoringIsqrt
  Unknown = {0}
  LinkTrits = 3
  RamWords = 1
  ByteSize = 2
  NoAnswer = NoAnswer
  Requests <- DeviceRequests
INVARIANTS TypeOK Handshake OneAnswer
PROPERTIES AtomicDevices SecondEdgeHarmless ReconFlag
