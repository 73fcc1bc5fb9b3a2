CONSTANTS
    MaxPolls = 1
    MaxLen = 3
    MaxResponses = 2
    MaxKeepalives = 2
    MaxFaults = 2
SPECIFICATION FairSpec
CHECK_DEADLOCK FALSE
INVARIANTS
    TypeOK
    OneFramePerFault
    AcceptedInOrder
PROPERTY
    SendEnds
