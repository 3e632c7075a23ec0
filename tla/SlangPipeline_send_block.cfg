\* (list 12 (list 3 4)) with a 4-byte reply buffer, on a socket whose send
\* may report EAGAIN (a client that reads slowly).
CONSTANTS
    Inputs <- BlockingStream
    BufSize = 3
    OutSize = 4
    Faults = {"wouldblock"}
    MaxReplies = 3
SPECIFICATION Spec
INVARIANT ReplyStreamIntact
