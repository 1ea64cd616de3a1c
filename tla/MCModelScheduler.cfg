SPECIFICATION FairSpec
CONSTANTS
  a1 = a1
  a2 = a2
  b1 = b1
  c1 = c1
  Request = {a1, a2, b1, c1}
  Project <- MCProject
  ProjectOf <- MCProjectOf
  Repairs = {a1, b1}
  MAX_ACTIVE = 2
INVARIANTS NoMissedPump ReceiptsReported
PROPERTIES TurnsInOrder StopIsFinal EveryRequestEnds
