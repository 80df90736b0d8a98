CONSTANTS
  None = None
  Bad = Bad
  NaN = NaN
  Malformed = Malformed
  Namespaces = {"n1", "n2"}
  Deployments = {}
  StatefulSets = {}
  NamespaceOf <- AllInN1
  MaxReplicas = 1
  UserActs = {}
  Second = 2
  ttlDeleteGracePeriod = 1
  enforcementPollInterval = 3
  ttlRequeueCap = 60
  deletePollInterval = 1
  defaultEnforcementCooldown = 12
  defaultCostBudgetQueryInterval = 360
  BNs = {b1}
  Specs <- SpecsEdits
  Usages <- MCUsages
  Spends = {0}
  Clients = {FALSE}
  Resyncs = FALSE
  TrackZeroed = FALSE
  Budget <- EditRecreate
  MaxClock = 2
  MaxBackoff = 0
  ReadSkew = 0
SPECIFICATION Spec
INVARIANTS StatusMatchesSpec WakeupScheduled
PROPERTY DeletionIsDue
