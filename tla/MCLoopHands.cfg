SPECIFICATION HandsSpec
CONSTANTS
  MAX_RUNS = 2
  MAX_TESTS_PER_CLAIM = 1
  Commands <- Everyone
  CanSearch = TRUE
  Kinds = {"need"}
  TestKinds = {"desk", "experiment"}
  Asks = TRUE
  MaxQuestions = 1
  MaxSplit = 1
  MaxVariants = 1
  Plans <- Nothing
  MaxCrashes = 1
CHECK_DEADLOCK FALSE
CONSTRAINT AsScened
INVARIANTS PassIsEarned LogIsFollowed
