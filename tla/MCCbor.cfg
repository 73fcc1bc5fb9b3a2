CONSTANTS
    RespBuf = 1024
    CoseRoom = 77
    Requests <- MCRequests
    Maps <- MCMaps
    Keys <- MCKeys
    OptionsKey = 7
    IdLens = {0, 64}
    NameLens = {0, 23, 24, 32}
    RpLens = {0, 32}
    Counts = {0, 1, 5}
    Integers32 <- MCIntegers
SPECIFICATION Spec
INVARIANTS
    TypeOK
    LookupCorrect
    ResponseWhole
    SignatureDer
