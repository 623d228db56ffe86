CONSTANTS
  Deliveries = {1, 2, 3}
  ScanKeys <- TheKeys
  Repos <- TheRepos
  Installations <- TheInstallations
  KeyRepo <- TheKeyRepo
  RepoInstallation <- TheRepoInstallation
  Event <- OverlapEvent
  Copies <- OneCopyOfThree
  PageSize = 1
  MaxLost = 0
  OperatorPauses = FALSE
  CheckRunsConfigured = TRUE
  SerialRedelivery = TRUE
SPECIFICATION Spec
CHECK_DEADLOCK FALSE
INVARIANTS
  AnsweredCleanupLeavesNothingBehind
