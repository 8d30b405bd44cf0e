CONSTANTS
  east = east
  west = west
  Gateways <- MCGateways
  Macs <- MCMacs
  Scenarios <- MCScenarios
  MaxLists = 2
  MAX_IFIPV4_ADDRESS = 6
  MAX_EXTIPV4_ADDRESS = 3
  MAX_FWDRULE = 2
  MAX_DVMAP = 2
  MAX_VLANS = 2
  MAX_VNID_SUBNETS = 2
  MAX_EXT_VNIDS = 2
  MAX_DOMIANS = 2
  MAX_IF_MACS = 2
  MAX_NEXTHOPS = 2
SPECIFICATION Spec
CHECK_DEADLOCK FALSE
INVARIANTS HostFollowsTable RegistrationsFollowTable  MastersSound
PROPERTY LoadRestores
