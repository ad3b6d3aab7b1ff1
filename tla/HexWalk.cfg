SPECIFICATION LockSpec
CONSTANTS
  HalfSide = 16
  RootBits = 5
  Isqrt <- RestoringIsqrt
INVARIANTS NamesPosition RingCloses StoreBox ScriptsAgree WordsClash
