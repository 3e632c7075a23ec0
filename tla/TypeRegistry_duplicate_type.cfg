\* Two connections on different workers define the same name at once.
CONSTANTS
    NumWorkers = 2
    c1 = c1
    c2 = c2
    Conns = {c1, c2}
    Home <- HomeSplit
    Names = {X, Y}
    BasicNames = {i32}
    NoField = NoField
    MaxCalls = 2
SPECIFICATION Spec
INVARIANT NoDuplicateTypes
