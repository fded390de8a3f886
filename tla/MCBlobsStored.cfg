CONSTANTS
    Contents = {a}
    Uploads = {u1, u2}
    Senders = {}
    NoSender = none
    MaxMedia = 1
    MaxMessages = 0

SPECIFICATION Spec

INVARIANTS
    MediaIsStored
