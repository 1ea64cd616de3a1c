SPECIFICATION FairSpec
CONSTANTS
  Option = {1, 2, 3}
  Eligible = {1, 2}
  Saved <- MCSaved
  Target = 2
  BatchSize = 1
  MaxRaw = 2
  MaxRounds = 2
  Calls = 4
  Searches = 1
  PerReview = 2
  Chunks = 1
  Offers <- MCOffers
  MaxLaunches = 2
  MaxEvents = 1
CHECK_DEADLOCK FALSE
INVARIANTS PaidOnceInTurn Grouped
PROPERTY ExplorationEnds
