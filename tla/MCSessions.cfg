CONSTANTS
    Peers = {p, q}
    Streams = {s1, s2}
    Requests = {r}
    Nonces = {n1, n2}
    NoPeer = nopeer
    NoNonce = nononce
    TTL = 0
    MaxTime = 1
    MaxSeq = 2

SPECIFICATION Spec
SYMMETRY Symmetry

INVARIANTS
    TypeOK
    NonceUsedOnce
    OneUserPerPeer
    ToldIsRegistered
    RegistryIsClean
    CursorIsHighestAck
