SPECIFICATION FairSpec
CONSTANTS
  MAX_RUNS = 2
  MAX_TESTS_PER_CLAIM = 2
  Commands <- TrustingOnly
  CanSearch = TRUE
  Kinds = {"need"}
  TestKinds = {"desk", "experiment"}
  Asks = FALSE
  MaxQuestions = 1
  MaxSplit = 1
  MaxVariants = 1
  Plans <- Nothing
  MaxCrashes = 0
CHECK_DEADLOCK FALSE
PROPERTY PassFinishes
