SPECIFICATION Spec
CONSTANTS
  Orders <- TwoMotors
  Untyped = {1}
  Words = 15
  Controls <- AllControls
  Limit = 32700
  NoCommand <- Mark
  IntMax = 100000
  NaN = NaN
  Values <- Told
  MaxCmds = 4
INVARIANT OneCommandPerSlot
PROPERTY ImplementsMail
