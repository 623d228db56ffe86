CONSTANTS
  Deliveries = {1, 2, 3, 4}
  ScanKeys <- TheKeys
  Repos <- TheRepos
  Installations <- TheInstallations
  KeyRepo <- TheKeyRepo
  RepoInstallation <- TheRepoInstallation
  Event <- UninstallEvent
  Copies <- OneCopyOfFour
  PageSize = 1
  MaxLost = 0
  OperatorPauses = FALSE
  CheckRunsConfigured = TRUE
  SerialRedelivery = TRUE
SPECIFICATION Spec
CHECK_DEADLOCK FALSE
INVARIANTS
  RepeatedAnswersAreBacked
  CleanupLeavesNothingBehind
PROPERTIES
  CleanupStaysInScope
