SPECIFICATION Spec
CONSTANTS
  Contracts <- Projects
  Problems = {1}
  Stages = 1
  Asks = 2
  Side = 2
  Rounds = 1
  MaxCalls = 2
  MaxAsking = 1
  MaxSessions = 2
  MaxTasks = 4
  MaxRuns = 2
  MaxCrashes = 1
CHECK_DEADLOCK FALSE
CONSTRAINT LaunchedAlike AskedOnceSideBySide
INVARIANTS AskedAgainOnlyIfTold StateTellsWork OneAtATime
PROPERTY LifecycleSpec
