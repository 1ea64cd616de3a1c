SPECIFICATION LedgerSpec
CONSTANTS
  p = p
  q = q
  Process = {p, q}
  Name <- MCName
  SpeakerKey <- MCSpeakerKey
  NoKey = "none"
  Sentence = {"s1", "s2"}
  Fetches <- MCFetches
  Speakers = {"@Ada", "bob", "-"}
  Authors = {"ada"}
  Reviewers = {"@Ada", "bob"}
  ClaimKinds = {"gap"}
  QuoteKinds = {"firsthand", "vendor"}
  NoteKinds = {"finding", "question"}
  TestKinds = {"desk", "experiment"}
  MaxRows <- MCMaxRows
  MaxCited = 2
  MaxClock = 20
  MaxRestarts = 1
  Watched <- MCClaims
CHECK_DEADLOCK FALSE
SYMMETRY Writers
CONSTRAINT FewRows
INVARIANTS
  SupportIsEarned CitationsHold SettledByIndependentReview RacesSettleOnce StampsTellThePast
PROPERTY LifecycleSteps
