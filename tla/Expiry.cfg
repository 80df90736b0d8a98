CONSTANTS
  None = None
  Bad = Bad
  NaN = NaN
  Malformed = Malformed
  Namespaces = {"n1"}
  Deployments = {}
  StatefulSets = {s1}
  NamespaceOf <- AllInN1
  MaxReplicas = 1
  UserActs = {}
  Second = 1
  ttlDeleteGracePeriod = 1
  enforcementPollInterval = 3
  ttlRequeueCap = 60
  deletePollInterval = 1
  defaultEnforcementCooldown = 12
  defaultCostBudgetQueryInterval = 360
  BNs = {b1}
  Specs <- SpecsExpiry
  Usages <- MCUsages
  Spends = {0}
  Clients = {TRUE}
  Resyncs = FALSE
  TrackZeroed = FALSE
  Budget <- FailCrashTouch
  MaxClock = 2
  MaxBackoff = 0
  ReadSkew = 0
SPECIFICATION FairSpec
INVARIANTS TypeOK WakeupScheduled
PROPERTIES ExpiredIsDeleted PassesAreWorkloadScale
