CONSTANTS
    p1 = p1  p2 = p2  pinA = pinA  pinB = pinB
    Platforms = {p1, p2}
    Protocol <- OneOfEach
    Pins = {pinA, pinB}
    ShortPin = ShortPin
    MaxRetries = 2
    MaxKeys = 3
    MaxTokens = 2
    None = None
SPECIFICATION Spec
INVARIANTS
    TypeOK
    MissesAccounted
    UvByLatestSession
    UvByPinOwner
PROPERTIES
    OwnerRegainsRetries
    ImplementsPinSession
