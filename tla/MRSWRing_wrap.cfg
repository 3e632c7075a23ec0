\* Four slots and 3-bit counters: the counters wrap every eight operations,
\* and the capacity divides 2^Width as 1024 divides 2^32 in the code.
CONSTANTS
    Capacity = 4
    Width = 3
    Values = {v1, v2}
    NoValue = NoValue
SPECIFICATION Spec
INVARIANT TypeOK
PROPERTY RingIsBoundedFIFO
