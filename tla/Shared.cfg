CONSTANTS
  None = None
  Bad = Bad
  NaN = NaN
  Malformed = Malformed
  Namespaces = {"n1"}
  Deployments = {d1}
  StatefulSets = {}
  NamespaceOf <- AllInN1
  MaxReplicas = 1
  UserActs = {}
  Second = 1
  ttlDeleteGracePeriod = 1
  enforcementPollInterval = 3
  ttlRequeueCap = 60
  deletePollInterval = 1
  defaultEnforcementCooldown = 12
  defaultCostBudgetQueryInterval = 360
  BNs = {b1, b2}
  Specs <- SpecsShared
  Usages <- MCUsages
  Spends = {3}
  Clients = {TRUE}
  Resyncs = FALSE
  TrackZeroed = FALSE
  Budget <- Usage1
  MaxClock = 0
  MaxBackoff = 0
  ReadSkew = 0
SPECIFICATION FairSpec
PROPERTIES BreachIsEnforced RecoveryIsRestored
