SPECIFICATION FairSpec
CONSTANTS
  a = a
  b = b
  Call = {a, b}
  Limited = {a}
  Repairs = {a}
  NoCall = "none"
  SLOTS = 1
  EVENTS = 1
  Capacities = {1}
  LIVES = 1
  COALESCED = FALSE
  LINGERS = TRUE
CHECK_DEADLOCK FALSE
PROPERTIES CallsEnd
