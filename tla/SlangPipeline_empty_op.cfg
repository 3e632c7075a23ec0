\* The request (list 1 () 2): an operation with no name inside a call,
\* which the lexer and compiler accept (tests: EmptyParentheses, Nil).
CONSTANTS
    Inputs <- EmptyOpStream
    BufSize = 3
    OutSize = 4
    Faults = {}
    MaxReplies = 3
SPECIFICATION Spec
INVARIANT
    BarrierNeverSerialized
