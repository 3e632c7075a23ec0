\* Fields of int8, uint8 or double in one struct, two calls: a defstruct and
\* a create writing -1, 300 or a string, whose StrSpan pointer is 0x7f10.
CONSTANTS
    Names = {"S"}
    FieldTypes = {"int8", "uint8", "double"}
    MaxFields = 2
    MaxCalls = 2
    Width = 16
    ObjBase = 128
    IntArgs <- MCIntArgs
    StrBits = 32528
SPECIFICATION Spec
CHECK_DEADLOCK FALSE
INVARIANT
    ReplyHoldsArgument
