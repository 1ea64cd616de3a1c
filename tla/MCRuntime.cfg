SPECIFICATION Spec
CONSTANTS
  a = a
  b = b
  Call = {a, b}
  Limited = {}
  Repairs = {a, b}
  NoCall = "none"
  SLOTS = 2
  EVENTS = 1
  Capacities = {1, 2}
  LIVES = 2
  COALESCED = FALSE
  LINGERS = FALSE
SYMMETRY MCSymmetry
CHECK_DEADLOCK FALSE
INVARIANTS SlotsAreCounted  CancelIsHeard
