SPECIFICATION Spec
CONSTANTS
    MaxQueues = 2
    QueueDepth = 2
    Threshold = 100
    Modes <- SomeModes
    Lengths = {1, 3}
    SlotBytes = {2}
    SlotDests = {"any", "rx"}
    Tokens = 3
    MaxPackets = 3
    MaxSlot = 4
CHECK_DEADLOCK FALSE
INVARIANTS TypeOK BytesAreExact TokensAreConserved NoMixing CompleteUnlessCut InOrder
