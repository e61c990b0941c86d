SPECIFICATION Spec
CONSTANTS
  N = 2
  Word = {w1, w2}
  Value = {a, b}
  MaxSeq = 4
INVARIANTS TypeOK NoSlotRace
PROPERTY ImplementsQueue
