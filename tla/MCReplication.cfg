CONSTANTS
  n1 = n1
  n2 = n2
  n3 = n3
  Node = {n1, n2}
  Local = n1
  Request = {r1, r2}
  Nobody = Nobody
  Views <- PairViews
  MaxQueryID = 5
SPECIFICATION Spec
INVARIANTS TypeOK SuccessIsStored SharedSuccess AtMostOneReply AnsweredWithinThreeTicks
