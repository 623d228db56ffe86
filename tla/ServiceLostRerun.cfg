CONSTANTS
  w1 = w1
  w2 = w2
  Deliveries = {1, 2}
  Keys <- TheKeys
  Repos <- TheRepos
  KeyRepo <- TheKeyRepo
  Event <- RerunEvent
  Workers <- TheWorkers
  InitialScope = {"r1"}
  ScopeChanges = FALSE
  RerunsWhileRunning = TRUE
SPECIFICATION Spec
CHECK_DEADLOCK FALSE
PROPERTIES
  QueuedJobIsTakenUp
