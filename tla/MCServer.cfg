CONSTANTS
    MigrationCount = 4
    Repeatable = {1, 4}
    Malformed = {3}
    MaxExits = 2
    MaxKeys = 3
    Cids = {x, y}
    PinRequests = {r1, r2}
    MaxPinFailures = 1

SPECIFICATION Spec

INVARIANTS
    TypeOK
    ServesPrepared
    OneIdentity
    PinsKept

PROPERTIES
    ComesBack
