SPECIFICATION FairSpec
CONSTANTS
  NPorts = 3
  Refused <- LastPort
  Wide <- LastPort
  OldBoards = TRUE
  MaxCmds = 2
  MaxFaults = 2
INVARIANTS TypeOK LatchSilences StopReaches StopHolds NoReplay
PROPERTY LimitLatches
