SPECIFICATION FairSpec
CONSTANTS
  Findings <- OneFinding
  Allowance = 2
  MaxSessions = 2
  MaxItems = 2
  MaxShots = 3
  MaxExtensions = 1
  MaxCrashes = 1
CONSTRAINT InOneProcess
CHECK_DEADLOCK FALSE
INVARIANT   OneAtATime ReviewedOnce
PROPERTY LifecycleSteps 
