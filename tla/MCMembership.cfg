CONSTANTS
    Node = {1, 2}
    CanHost = {1}
    HintTicks = 2
    DownTicks = 1
    PartitionTicks = 1
    ElectionTicks = 1
    MaxRoles = 2
    MaxCuts = 1
    MaxExchanges = 0
SPECIFICATION LiveSpec
CHECK_DEADLOCK FALSE
PROPERTIES LeaderReplaced RejoinIsChecked 
