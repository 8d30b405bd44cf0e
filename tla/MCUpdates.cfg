CONSTANTS
    c = c
    d = d
    Client = {c, d}
    MaxVer = 2
    MaxId = 12
    max_retransmit = 1
    max_queue_len = 1
    failure_count_max = 1
    Max_Pending_Queue_Size = 1
    heartbeat_frequency = 1
    heartbeat_no_contact = 2
    Scenarios <- MCScenarios
SPECIFICATION UpdatesSpec
CHECK_DEADLOCK FALSE
INVARIANTS ContextsSound SettledIsCurrent
  
