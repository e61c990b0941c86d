SPECIFICATION FairSpec
CONSTANTS
  Controller = {k1, k2}
  Thread = {p1, p2}
  Word = {w1, w2}
  MaxPicture = 1
INVARIANTS TypeOK LoopHasItsObjects
PROPERTIES ImplementsRegister EndingCallsReturn
CHECK_DEADLOCK FALSE
