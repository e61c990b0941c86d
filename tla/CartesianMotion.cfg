SPECIFICATION FairSpec
CONSTANTS
  x = x
  r = r
  Axis <- MCAxis
  Kp = 1
  Kd = 4
  Gain = 8
  MaxVel = 3
  MaxAcc = 1
  MaxJerk = 1
  QuietVel = 2
  QuietAcc = 1
  Start <- MCStart
  Target <- MCTarget
  Period = {1, 2}
  MinInterval = 1
  DefaultInterval = 1
  MaxInterval = 2
  MaxCmdVel = 5
  Duration = {0, 4}
  StartVel = 1
  StartAcc = 0
  PeakVel = 3
  MinDuration = 4
  MaxDuration = 16
  HoldCycles = 2
INVARIANTS TypeOK
PROPERTIES StreamSpeedBounded AccelerationBounded AdoptedStepBounded AutoMoveSpeedBounded MoveStartsFromRest StopHoldsPose StopComesToRest BrakingEnds
CHECK_DEADLOCK FALSE
