SPECIFICATION Spec
CONSTANTS
  Controller = {k1}
  Thread = {p1, p2}
  Word = {w1, w2}
  MaxPicture = 1
INVARIANTS StateIsOfRobot
CHECK_DEADLOCK FALSE
