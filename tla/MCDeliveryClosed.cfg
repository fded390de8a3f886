CONSTANTS
    Streams = {c1}
    Sockets = {w1}
    StreamSenders = {p1}
    HttpSenders = {h1}
    NoSocket = none
    BufferSize = 1
    MaxSeq = 2

SPECIFICATION Spec

INVARIANT
    NoSendOnClosed
