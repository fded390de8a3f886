CONSTANTS
    ann = ann
    a1 = a1
    a2 = a2
    x = x
    y = y
    reader = reader
    admin = admin
    loop = loop
    none = none
    noid = noid
    Users = {ann}
    Sessions = {a1, a2}
    UserOf <- MCUserOf
    ClientIds = {x, y}
    Readers = {reader}
    Admins = {admin}
    CleanupLoop = loop
    NoSession = none
    NoClientId = noid
    AutoDeleteTimes = {0, 1}
    SlowMode = 1
    DefaultSyncLimit = 1
    MaxSyncLimit = 2
    CleanupLimit = 1
    MaxClock = 2

SPECIFICATION FairSpec

INVARIANTS
    TypeOK
    SeqsAndIdsUnique
    CountExact
    AckedIsStored
    SyncNeverSkips

PROPERTIES
    ImplementsLog
    ExpiredIsDeleted
    EveryMessageIsSynced
