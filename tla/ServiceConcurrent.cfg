CONSTANTS
  w1 = w1
  w2 = w2
  Deliveries = {1, 2, 3, 4, 5, 6, 7}
  Keys <- TheKeys
  Repos <- TheRepos
  KeyRepo <- TheKeyRepo
  Event <- BusyEvent
  Workers <- TheWorkers
  InitialScope = {"r1"}
  ScopeChanges = TRUE
  RerunsWhileRunning = TRUE
SPECIFICATION Spec
CHECK_DEADLOCK FALSE
SYMMETRY WorkerSymmetry
INVARIANTS
  TypeOK
  AttemptClaimedOnce
  RunningJobHasAWorker
  CompletedJobIsPublished
  CheckRunsWereAskedFor
