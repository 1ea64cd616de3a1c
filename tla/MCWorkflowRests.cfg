SPECIFICATION FairSpec
CONSTANTS
  Contracts <- Kinds
  Problems = {0, 1}
  Stages = 1
  Asks = 1
  Side = 2
  Rounds = 0
  MaxCalls = 2
  MaxAsking = 1
  MaxSessions = 1
  MaxTasks = 3
  MaxRuns = 2
  MaxCrashes = 1
CHECK_DEADLOCK FALSE
PROPERTY EverySessionRests
