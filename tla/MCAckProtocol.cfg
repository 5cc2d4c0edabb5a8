SPECIFICATION Spec
CONSTANTS
  m1 = m1
  m2 = m2
  Motors <- MCMotors
  MaxTries = 2
  MaxOps = 2
  MaxTicks = 1
SYMMETRY MotorSymmetry
INVARIANTS
  SaveAfterReset
  SavedIsNotInvented
