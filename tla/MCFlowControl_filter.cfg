SPECIFICATION FairSpec
CONSTANTS
    Tokens = 3
    Depth = 2
    Width = 8
    Restarts = 1
CHECK_DEADLOCK FALSE
PROPERTY AvailableIsServed
