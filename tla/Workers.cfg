CONSTANTS
  w1 = w1
  w2 = w2
  s1 = s1
  s2 = s2
  Deliveries = {1, 2, 3}
  Keys <- TheKeys
  Repos <- TheRepos
  KeyRepo <- TheKeyRepo
  Event <- StagedEvent
  Workers <- TheWorkers
  InitialScope = {"r1"}
  ScopeChanges = FALSE
  MaxTicks = 3
  RerunsWhileRunning = FALSE
  ListedFiles = 3
  ReviewedFiles = 2
  ScanCalls <- TheScanCalls
  Requests <- TheRequests
  Clocks <- TheClocks
  Lifetimes <- TheLifetimes
  Unset = Unset
  Shortfalls <- TheShortfalls
  FailOnSeverity = "high"
  TrialDiff <- FixtureDiff
  ScannerRuns <- TheScannerRuns
  PageOfKeys = 5
SPECIFICATION WorkersSpec
CHECK_DEADLOCK FALSE
SYMMETRY WorkersSymmetry
INVARIANTS
  StagingTypeOK
  
  SerialScanKeepsItsSandbox
  SnapshotIsBacked
  NothingOutlivesItsCall
  GreenMeansTheDiffWasRead
  ClockInBoundsGetsAToken
  TeamUseRestsOnARun
  ForeignRecordsAreKept
  CleanSmokeEvidenceIsTrue
