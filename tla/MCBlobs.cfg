CONSTANTS
    Contents = {a, b}
    Uploads = {u1, u2}
    Senders = {s1, s2}
    NoSender = none
    MaxMedia = 2
    MaxMessages = 1

SPECIFICATION Spec
SYMMETRY Symmetry

INVARIANTS
    TypeOK
    RowHasFile
    WholeAtRest
    RefCountExact
