SPECIFICATION Spec
CONSTANTS
  v1 = v1
  v2 = v2
  m1 = m1
  m2 = m2
  a1 = a1
  a2 = a2
  b1 = b1
  b2 = b2
  b3 = b3
  b4 = b4
  Zero = Zero
  Garbage = Garbage
  Vnid = {v1, v2}
  Mac <- MCMac
  Ip4 = {a1}
  Ip6 <- MCIp6
  Sender <- MCSender
  ClientLoc <- MCClientLoc
  MaxTunnels = 2
  MaxRules = 1
  Qid = 7
  MaxItems = 5
INVARIANTS CodecsAgree AckedAndStopped GivenUpLikeAnswer
