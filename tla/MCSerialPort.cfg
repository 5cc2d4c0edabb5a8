SPECIFICATION FairSpec
CONSTANTS
  ReadSize = 3
  FrameSize = 4
  MaxAvail = 3
  MaxRoom = 3
INVARIANTS LocksAreGivenBack StopIsNoError DescriptorClosed
PROPERTIES ImplementsPort LossIsFlagged SendReturns StopEnds
CHECK_DEADLOCK FALSE
