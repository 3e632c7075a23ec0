\* Two workers, two connections each holding its own worker's vault, two
\* client types and one basic type; each connection makes two host calls.
CONSTANTS
    NumWorkers = 2
    c1 = c1
    c2 = c2
    Conns = {c1, c2}
    Home <- HomeSplit
    Names = {X, Y}
    BasicNames = {i32}
    NoField = NoField
    MaxCalls = 2
SPECIFICATION Spec
INVARIANTS
    TypeOK
    SchemaAgreement
    LookupSeesPublished
PROPERTIES
    CallsReturn
