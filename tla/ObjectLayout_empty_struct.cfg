\* Two struct names and fields of int8, int32 or either struct, up to three
\* per struct, three calls, one value; addresses of 16 bits, an object at 128.
CONSTANTS
    Names = {"E", "S"}
    FieldTypes = {"int8", "int32", "E", "S"}
    MaxFields = 3
    MaxCalls = 3
    Width = 16
    ObjBase = 128
    IntArgs = {1}
    StrBits = 4096
SPECIFICATION Spec
CHECK_DEADLOCK FALSE
INVARIANT
    ObjectIsSpecLayout
