\* Two workers, three polite clients with one request each, and two
\* descriptors for connections: the third accept fails with EMFILE until a
\* connection closes, and a closed descriptor is reused at once.  A reply
\* takes two sends and the client's buffers hold one, so every reply's
\* second send blocks until the client reads.
CONSTANTS
    NumWorkers = 2
    Clients = {c1, c2, c3}
    Abrupt = {}
    Stallers = {}
    Requests = 1
    ReplyFlushes = 2
    SockBuf = 1
    Fds = {3, 4, 5}
    SetupOutcomes = {"listening", "failed"}
SPECIFICATION Spec
\* The accept task waits for connections forever once every client is done.
CHECK_DEADLOCK FALSE
INVARIANTS
    TypeOK
    WaitersRegistered
PROPERTIES
    ConnectionsServed
