--------------------------- MODULE MCTypeRegistry ---------------------------
(* Instances of TypeRegistry for TLC: two connections that started on     *)
(* different workers.                                                      *)
EXTENDS TypeRegistry

CONSTANTS c1, c2

(* Each worker serves one of the connections.                              *)
HomeSplit == [c \in {c1, c2} |-> IF c = c1 THEN 0 ELSE 1]
=============================================================================
