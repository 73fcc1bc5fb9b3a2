CONSTANTS
    Hosts = {h1}
    Rps = {r1}
    Users = {u1}
    NumSlots = 1
    Uptimes = {0, 10, 60, 80, 81}
    TouchWaits = {0, 15}
    MaxIndex = 1
    None = None
SPECIFICATION Spec
PROPERTY ResetReceivedInWindow
