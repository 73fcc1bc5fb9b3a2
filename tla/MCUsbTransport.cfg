CONSTANTS
    Max_Blks = 4
    REMINE = 2
    RESTART = 2
    MaxCount = 5
    Ep1Packets = {"touch", "wink"}
    Ep0Packets = {"touch", "cancel"}
    MaxResets = 1
    MaxHaltClears = 1
    MaxLoops = 1
SPECIFICATION FairSpec
INVARIANTS
    TypeOK
    RingConsistent
PROPERTIES
    ImplementsFifo
    FlowControlReleases
    WaitEnds
