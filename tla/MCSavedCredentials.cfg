SPECIFICATION Spec
CONSTANTS
  a = a
  b = b
  c = c
  Process = {a, b, c}
  SearchKey = {"exa"}
  Account = "account"
  Left <- MCLeft
  Before = Before
  NoValue = NoValue
  NoProcess = NoProcess
SYMMETRY MCSymmetry
CHECK_DEADLOCK FALSE
INVARIANTS AccountIsItsOwn StaysReadable
PROPERTIES SavesMerge GoneForGood
