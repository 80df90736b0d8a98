CONSTANTS
  None = None
  Bad = Bad
  NaN = NaN
  Malformed = Malformed
  Namespaces = {"n1"}
  Deployments = {d1}
  StatefulSets = {}
  NamespaceOf <- AllInN1
  MaxReplicas = 1
  UserActs = {}
  Second = 1
  ttlDeleteGracePeriod = 1
  enforcementPollInterval = 3
  ttlRequeueCap = 60
  deletePollInterval = 1
  defaultEnforcementCooldown = 12
  defaultCostBudgetQueryInterval = 360
  BNs = {b1}
  Specs <- SpecsShortLived
  Usages <- MCUsages
  Spends = {0}
  Clients = {FALSE}
  Resyncs = FALSE
  TrackZeroed = FALSE
  Budget <- NoBudget
  MaxClock = 4
  MaxBackoff = 0
  ReadSkew = 1
SPECIFICATION Spec
INVARIANTS WakeupScheduled
