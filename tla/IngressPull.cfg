CONSTANTS
  Deliveries = {1, 2, 3, 4, 5}
  ScanKeys <- TheKeys
  Repos <- TheRepos
  Installations <- TheInstallations
  KeyRepo <- TheKeyRepo
  RepoInstallation <- TheRepoInstallation
  Event <- PullEvent
  Copies <- PullCopies
  PageSize = 1
  MaxLost = 1
  OperatorPauses = TRUE
  CheckRunsConfigured = TRUE
  SerialRedelivery = TRUE
SPECIFICATION Spec
CHECK_DEADLOCK FALSE
INVARIANTS
  TypeOK
  CompletedScanWasPublished
  InProgressScanHasARunner
