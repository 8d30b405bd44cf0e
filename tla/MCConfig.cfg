SPECIFICATION Spec
CONSTANTS
  n1 = n1
  n2 = n2
  n3 = n3
  d1 = d1
  d2 = d2
  v1 = v1
  v2 = v2
  g1 = g1
  sn1 = sn1
  None = None
  NoObject = NoObject
  Node = {n1, n2, n3}
  Domain = {d1, d2}
  Vnid = {v1, v2}
  Gateway = {g1}
  Subnet = {sn1}
  Traffic = {0}
  Object <- MCObject
  Scenarios <- MCScenarios
CHECK_DEADLOCK FALSE
INVARIANTS TenantConsistent 
PROPERTIES SyncSettles
