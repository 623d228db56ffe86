CONSTANTS
  w1 = w1
  w2 = w2
  Deliveries = {1, 2, 3, 4, 5}
  Keys <- TheKeys
  Repos <- TheRepos
  KeyRepo <- TheKeyRepo
  Event <- BoardEvent
  Workers <- TheWorkers
  InitialScope = {"r1"}
  ScopeChanges = TRUE
  RerunsWhileRunning = FALSE
SPECIFICATION FairSpec
CHECK_DEADLOCK FALSE
INVARIANTS
  ReportIdsAreUnique
PROPERTIES
  KeepsTheBoard
