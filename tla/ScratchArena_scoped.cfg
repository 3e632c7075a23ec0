\* A 4-byte reserve, max_align_t scaled to 4, AllocAligned with 4 and 8
\* (8 is stricter than the head arena's alignment), requests of 3 and 6
\* bytes (6 is larger than the reserve), four allocations, Scoped nested
\* twice.
CONSTANTS
    ReserveSize = 4
    MaxAlign = 4
    Aligns = {4, 8}
    Sizes = {3, 6}
    MaxAllocs = 4
    MaxDepth = 2
SPECIFICATION Spec
INVARIANTS
    TypeOK
    LiveBlocksDisjoint
    BlocksAligned
