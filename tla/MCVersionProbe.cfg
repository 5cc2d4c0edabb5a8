SPECIFICATION Spec
CONSTANTS
  NPorts = 2
  NMotors = 2
  PortOf <- OneEach
  BoardVersions <- Generations
  Firmwares <- ThreeFirmwares
  MaxDelay = 2
  VersionTurns = 2
  PositionTurns = 2
INVARIANTS SilentIsReported FitsFirmware
CHECK_DEADLOCK FALSE
