SPECIFICATION FairSpec
CONSTANTS
    p1 = p1
    p2 = p2
    p3 = p3
    Pkt <- MCPkt
    hash <- MCHash
    Buckets = 2
    MaxRetransmit = 1
    Null = Null
CHECK_DEADLOCK FALSE
INVARIANTS CursorInList
  
