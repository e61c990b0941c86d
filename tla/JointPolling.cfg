SPECIFICATION FairSpec
CONSTANTS
  Caller = {a1}
  Cap = 2
  Warmup = 1
  HoldCycles = 2
  MoveTime = 2
  MaxPeriod = 1
  MaxCoast = 1
  MaxCmds = 0
  MaxMoves = 1
  MaxStarts = 1
PROPERTIES PollingEnds
CHECK_DEADLOCK FALSE
