\* Two connections create objects of two different types at once.
CONSTANTS
    NumWorkers = 2
    c1 = c1
    c2 = c2
    Conns = {c1, c2}
    Home <- HomeSplit
    Names = {X, Y}
    BasicNames = {i32}
    NoField = NoField
    MaxCalls = 2
SPECIFICATION Spec
INVARIANT UniqueGuids
