SPECIFICATION Spec
CONSTANTS
  m1 = m1
  m2 = m2
  Motors <- MCMotors
  MaxTries = 2
  MaxOps = 1
  MaxTicks = 0
INVARIANTS
  SavedMeansSaved
