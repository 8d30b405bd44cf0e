CONSTANTS
  n1 = n1
  n2 = n2
  n3 = n3
  Node = {n1, n2, n3}
  Local = n1
  Request = {r1}
  Nobody = Nobody
  Views <- TripleViews
  MaxQueryID = 5
SPECIFICATION FairSpec
PROPERTY EventuallyAnswered
