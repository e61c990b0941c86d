SPECIFICATION FairSpec
CONSTANTS
  j1 = j1
  Joint <- MCJoint
  QMin <- MCQMin
  QMax <- MCQMax
  VelStep <- MCVelStep
  Kp = 4
  Kd = 8
  Gain = 16
  MaxVel = 4
  MaxAcc = 2
  MaxJerk = 1
  QuietVel = 2
  QuietAcc = 1
  Start <- MCStart
  Target <- MCTarget
  Period = {1, 2}
  JumpLimit = {5, 20}
  Duration = {0, 4}
  MinDuration = 4
  MaxDuration = 12
  VelBudget = 3
  HoldCycles = 2
INVARIANTS TypeOK PoseInLimits OtgInSync AutoMoveIsSafe
PROPERTIES RateBounded AccelerationBounded StopHoldsPose StopComesToRest
CHECK_DEADLOCK FALSE
