CONSTANTS
  r1 = r1
  r2 = r2
  r3 = r3
  r4 = r4
  Requests <- FourRequests
  MaxEvents = 2
  Window = 2
  Horizon = 3
  MaxDamage = 1
  i1 = i1
  i2 = i2
  p1 = p1
  p2 = p2
  n1 = n1
  j1 = j1
  c1 = c1
  Installations = {i1, i2}
  Repositories = {p1, p2}
  ReportIds = {n1}
  Jobs = {j1}
  Checkouts = {c1}
  Of <- Identity
  RetentionDays = 2
  TeamDays <- NoDaysOrMore
  CleanupRequests <- FiveCleanups
  LastDay = 2
  Unset = Unset
  Unreadable = Unreadable
  Requirements <- ThreeRequirements
  RowKinds <- FourRows
  Rehearsals <- FourRehearsals
  RequiredReasons <- TimeoutProbe
  DeploymentInputs <- FourDeployments
  MaxAge = 1
  LastGateDay = 2
  MaxRows = 3
  Undated = Undated
  NoRow = NoRow
  NoBundle = NoBundle
SPECIFICATION PoliciesSpec
CHECK_DEADLOCK FALSE
INVARIANTS
  PromotionHasProviders
