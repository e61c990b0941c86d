SPECIFICATION FairSpec
CONSTANTS
  Caller = {a1, a2}
  Cap = 2
  Warmup = 1
  HoldCycles = 2
  MoveTime = 2
  MaxPeriod = 2
  MaxCoast = 1
  MaxCmds = 1
  MaxMoves = 2
  MaxStarts = 1
INVARIANTS HiddenMoveWasCancelled NoCommandOlderThanMove
PROPERTIES ImplementsStreamOrMove StopReturns QueuedMoveBegins MovingEnds
CHECK_DEADLOCK FALSE
