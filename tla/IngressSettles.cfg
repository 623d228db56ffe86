CONSTANTS
  Deliveries = {1, 2}
  ScanKeys <- TheKeys
  Repos <- TheRepos
  Installations <- TheInstallations
  KeyRepo <- TheKeyRepo
  RepoInstallation <- TheRepoInstallation
  Event <- RemovalEvent
  Copies <- RemovalCopies
  PageSize = 1
  MaxLost = 0
  OperatorPauses = FALSE
  CheckRunsConfigured = TRUE
  SerialRedelivery = TRUE
SPECIFICATION FairSpec
CHECK_DEADLOCK FALSE
INVARIANTS
  ReplayOnlyAfterErasure
PROPERTIES
  ScanSettles
  CleanupEnds
