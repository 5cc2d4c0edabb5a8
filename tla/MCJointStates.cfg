SPECIFICATION Spec
CONSTANTS
  NMotors = 2
  Index = 2
  UseCurrent = TRUE
  Positions <- TwoPlaces
  Amplitude = 2
  Hold = 0
  StaleAfter = 1
  Depth = 1
  Period = 4
  MaxLosses = 1
INVARIANTS PublishedIsMeasured HoldsMeasured
