CONSTANTS
    a = a  b = b  chA = chA  chB = chB
    Clients = {a, b}
    InitChannel <- OwnChannels
    AllocatedCid = AllocatedCid
    Broadcast = Broadcast
    BufChunks = 3
    MaxLen = 4
    Oversize = {b}
    MaxMessages = 2
    Faulty = {a}
    MaxFaults = 1
    None = None
SPECIFICATION Spec
INVARIANTS
    TypeOK
    DispatchesWholeMessages
