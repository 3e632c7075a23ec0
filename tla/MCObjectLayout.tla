--------------------------- MODULE MCObjectLayout ---------------------------
(* ObjectLayout with negative literals among create's field values, which *)
(* a .cfg cannot write.                                                    *)
EXTENDS ObjectLayout, Integers

\* -1 (all bits set in two's complement) and 300 (past an 8-bit field).
MCIntArgs == {-1, 300}
====
