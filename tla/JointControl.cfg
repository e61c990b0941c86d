SPECIFICATION FairSpec
CONSTANTS
  Caller = {a1, a2}
  Cap = 2
  Warmup = 1
  HoldCycles = 2
  MoveTime = 2
  MaxPeriod = 1
  MaxCoast = 1
  MaxCmds = 1
  MaxMoves = 2
  MaxStarts = 2
INVARIANTS TypeOK LoopImpliesRunning HiddenMoveWasCancelled NoCommandOlderThanMove RTNeverBlocks
PROPERTIES ImplementsStreamOrMove StopReturns EstopEndsLoop PendingIsPickedUp MovingEnds
CHECK_DEADLOCK FALSE
