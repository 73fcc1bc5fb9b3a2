CONSTANTS
    Max_Blks = 4
    REMINE = 2
    RESTART = 2
    MaxCount = 5
    Ep1Packets = {"touch", "cancel"}
    Ep0Packets = {}
    MaxResets = 0
    MaxHaltClears = 0
    MaxLoops = 2
SPECIFICATION FairSpec
PROPERTY
    CancelServiced
