CONSTANTS
    UEP0_SIZE = 3
    DescrLen <- Descriptors
    Registers = {"DevConfig", "HidIdle", "Halt2", "Report"}
    Addresses = {1, 2}
    Lengths = {0, 2, 6, 9}
    MaxLost = 2
    Unknown = Unknown
SPECIFICATION Spec
VIEW View
INVARIANTS
    TypeOK
    ReadsAnswered
    AddressAgrees
    EveryStageAnswered
