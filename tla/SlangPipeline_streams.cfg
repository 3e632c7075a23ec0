\* Eleven request streams cut by recv into chunks of 1 to 3 bytes in every
\* possible way; at most 6 replies per connection (Resync needs 4).
CONSTANTS
    Inputs <- RequestStreams
    BufSize = 3
    OutSize = 4
    Faults = {"reset"}
    MaxReplies = 6
SPECIFICATION Spec
INVARIANTS
    TypeOK
    TermTextIntact
    ExecuteIsTreeEval
    ReplyStreamIntact
PROPERTIES
    ConnectionDrains
