SPECIFICATION RxSpec
CONSTANTS
  MaxLen = 3
  Contents <- ShortAndLong
  MaxFrames = 4
  MaxFaults = 2
INVARIANTS WholeAndInOrder CommandOfItsPayload DamageIsBounded
CHECK_DEADLOCK FALSE
