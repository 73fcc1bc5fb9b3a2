CONSTANTS
    Hosts = {h1}
    Rps = {r1, r2}
    Users = {u1, u2}
    NumSlots = 3
    Uptimes = {0, 80, 81}
    TouchWaits = {15}
    MaxIndex = 2
    None = None
SPECIFICATION Spec
SYMMETRY Symmetry
VIEW View
INVARIANTS
    TypeOK
    WalkShowsEachOnce
    EnumeratesRpsOnce
    EnumeratesCredentialsOnce
PROPERTIES
    SignsOneRequest
    AccountsProtected
