SPECIFICATION FairSpec
CONSTANTS
  vnids1 = vnids1  vnids2 = vnids2  subnet = subnet  tunnel = tunnel
  vm1 = vm1  vm2 = vm2  vm3 = vm3  mcrecv = mcrecv  mcsend = mcsend
  Object = {subnet, tunnel, vm1}
  NoObject = NoObject
  Stage <- MCStage
  Key <- MCKey
  Rank <- MCRank
  Held = {vm1}
  unacked_max <- Window1
  MAX_RETRIES_PER_OBJECT = 1
  SendMayFail = TRUE
  MaxRev = 2
CHECK_DEADLOCK FALSE
INVARIANTS WindowRespected
PROPERTIES TransferEnds
