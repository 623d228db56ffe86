CONSTANTS
  Deliveries = {1}
  ScanKeys <- TheKeys
  Repos <- TheRepos
  Installations <- TheInstallations
  KeyRepo <- TheKeyRepo
  RepoInstallation <- TheRepoInstallation
  Event <- TwiceEvent
  Copies <- TwoCopies
  PageSize = 1
  MaxLost = 0
  OperatorPauses = FALSE
  CheckRunsConfigured = TRUE
  SerialRedelivery = FALSE
SPECIFICATION Spec
CHECK_DEADLOCK FALSE
INVARIANTS
  OneCheckRunPerDelivery
