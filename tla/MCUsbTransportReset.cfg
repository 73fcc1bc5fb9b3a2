CONSTANTS
    Max_Blks = 4
    REMINE = 2
    RESTART = 2
    MaxCount = 5
    Ep1Packets = {"quick"}
    Ep0Packets = {}
    MaxResets = 1
    MaxHaltClears = 0
    MaxLoops = 1
SPECIFICATION Spec
INVARIANT
    DispatchesReports
