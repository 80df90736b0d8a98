CONSTANTS
  None = None
  Bad = Bad
  NaN = NaN
  Malformed = Malformed
  Namespaces = {"n1"}
  Deployments = {}
  StatefulSets = {}
  NamespaceOf <- AllInN1
  MaxReplicas = 1
  UserActs = {}
  Second = 1
  ttlDeleteGracePeriod = 1
  enforcementPollInterval = 3
  ttlRequeueCap = 60
  deletePollInterval = 1
  defaultEnforcementCooldown = 12
  defaultCostBudgetQueryInterval = 360
  BNs = {b1}
  Specs <- SpecsGuards
  Usages <- MCUsages
  Spends = {0}
  Clients = {FALSE}
  Resyncs = TRUE
  TrackZeroed = FALSE
  Budget <- NamespaceEditTamper
  MaxClock = 0
  MaxBackoff = 0
  ReadSkew = 0
SPECIFICATION FairSpec
PROPERTIES NamespaceIsGuarded
