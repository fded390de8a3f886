CONSTANTS
    ann = ann
    bob = bob
    a1 = a1
    a2 = a2
    b1 = b1
    x = x
    y = y
    none = none
    noid = noid
    Users = {ann, bob}
    UserLow = ann
    UserHigh = bob
    Sessions = {a1, a2, b1}
    UserOf <- MCUserOf
    ClientIds = {x, y}
    NoSession = none
    NoClientId = noid
    DefaultLimit = 1
    MaxLimit = 2
    FallbackLimit = 2
    MaxSeq = 2

SPECIFICATION Spec

SYMMETRY Symmetries

INVARIANTS
    TypeOK
    OneConversation
    SeqsAndIdsUnique
    ToldIsStored
    PeerAckOnce
    PendingNeverSkipped

PROPERTIES
    ImplementsLog
