SPECIFICATION Spec
CONSTANTS
  Caller = {a1, a2}
  Cap = 2
  Warmup = 1
  HoldCycles = 2
  MoveTime = 2
  MaxPeriod = 1
  MaxCoast = 1
  MaxCmds = 2
  MaxMoves = 2
  MaxStarts = 1
INVARIANTS RequestIsVisible
CHECK_DEADLOCK FALSE
