CONSTANTS
    r1 = r1  r2 = r2  u1 = u1  u2 = u2  c1 = c1  c2 = c2  c3 = c3  h1 = h1
    NumSlots = 2
    Rps = {r1, r2}
    Users = {u1, u2}
    LongUsers = {u2}
    OversizeUsers = {}
    Creds = {c1, c2, c3}
    PinHashes = {h1}
    MaxRetries = 2
    MaxPowerLosses = 2
    None = None
SPECIFICATION Spec
INVARIANTS
    InterruptsOnWhenIdle
