SPECIFICATION Spec
CONSTANTS
  vnids1 = vnids1  vnids2 = vnids2  subnet = subnet  tunnel = tunnel
  vm1 = vm1  vm2 = vm2  vm3 = vm3  mcrecv = mcrecv  mcsend = mcsend
  Object = {vnids1, subnet, tunnel, mcrecv, mcsend}
  NoObject = NoObject
  Stage <- MCStage
  Key <- MCKey
  Rank <- MCRank
  Held = {vnids1, tunnel, mcrecv, mcsend}
  unacked_max <- Window2
  MAX_RETRIES_PER_OBJECT = 1
  SendMayFail = TRUE
  MaxRev = 2
CHECK_DEADLOCK FALSE
INVARIANTS NothingBehindStage DeltaDelivered
PROPERTIES ClosedStaysClosed
