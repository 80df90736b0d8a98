CONSTANTS
  None = None
  Bad = Bad
  NaN = NaN
  Malformed = Malformed
  Namespaces = {"n1"}
  Deployments = {d1}
  StatefulSets = {}
  NamespaceOf <- AllInN1
  MaxReplicas = 1
  UserActs = {"scale", "delete"}
  Second = 1
  ttlDeleteGracePeriod = 1
  enforcementPollInterval = 3
  ttlRequeueCap = 60
  deletePollInterval = 1
  defaultEnforcementCooldown = 12
  defaultCostBudgetQueryInterval = 360
  BNs = {b1}
  Specs <- SpecsCost
  Usages <- MCUsages
  Spends = {0, 3}
  Clients = {TRUE}
  Resyncs = FALSE
  TrackZeroed = FALSE
  Budget <- Bill1
  MaxClock = 2
  MaxBackoff = 0
  ReadSkew = 0
SPECIFICATION FairSpec
PROPERTIES RecoveryIsRestored BreachIsEnforced RecordedCooldown RecordedQueryInterval
PROPERTIES LogIsKept RestoreIsDue CalmIsLeftAlone
