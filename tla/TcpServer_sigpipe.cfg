\* A polite client and one that may close before reading its reply, on two
\* workers: the second client's reset reaches a handler that still answers.
CONSTANTS
    NumWorkers = 2
    Clients = {c1, c2}
    Abrupt = {c1}
    Stallers = {}
    Requests = 1
    ReplyFlushes = 2
    SockBuf = 1
    Fds = {3, 4, 5}
    SetupOutcomes = {"listening"}
SPECIFICATION Spec
CHECK_DEADLOCK FALSE
PROPERTY
    ConnectionsServed
