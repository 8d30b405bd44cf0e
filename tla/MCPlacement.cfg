CONSTANTS
    a = a
    b = b
    c = c
    Node = {a, b, c}
    Leader = a
    NoNode = none
    Factor = 2
    TombCount = 0
    MaxFixes = 2
    MaxFaults = 1
    MaxNet = 2
SPECIFICATION MCSpec
CHECK_DEADLOCK FALSE
 
PROPERTIES   PlacementSettles
