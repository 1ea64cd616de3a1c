SPECIFICATION FairSpec
CONSTANTS
  Frame <- TwoAreas
  AreaCalls <- CallsMade
  Root = "root"
  Reserved <- OneAttempt
  Limit <- TwoAttempts
  Target = 1
  Slots = 1
  Restarts = 1
  MaxTroubles = 2
  MaxCrashes = 1
CHECK_DEADLOCK FALSE
INVARIANT AskedOnce CallsAccounted 
PROPERTY RunEnds
