CONSTANTS
  Namespaces = {"n1"}
  NamespaceOf <- AllInN1
  Deployments = {d1}
  StatefulSets = {}
  MaxReplicas = 2
  UserActs = {"scale", "annotate", "label", "create", "delete"}
  None = None
  Malformed = Malformed
SPECIFICATION WSSpec
INVARIANTS WSTypeOK CountPreserved
PROPERTIES LedgerIsKept
