SPECIFICATION Spec
CONSTANTS
    MaxQueues = 2
    QueueDepth = 2
    Threshold = 100
    Modes <- DefaultMode
    Lengths = {2, 3}
    SlotBytes = {2}
    SlotDests = {"any", "rx"}
    Tokens = 3
    MaxPackets = 2
    MaxSlot = 4
CHECK_DEADLOCK FALSE
INVARIANT AllFragmentsReceived
