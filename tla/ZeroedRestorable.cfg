CONSTANTS
  Namespaces = {"n1"}
  NamespaceOf <- AllInN1
  Deployments = {d1}
  StatefulSets = {}
  MaxReplicas = 2
  UserActs = {"scale"}
  None = None
  Malformed = Malformed
SPECIFICATION WSSpec
PROPERTIES ZeroedIsRestorable
