---------------------------- MODULE BoundedFIFO ----------------------------
(***************************************************************************)
(* What a worker's task ring promises its callers: a FIFO of at most       *)
(* Capacity elements whose push reports failure exactly when it is full   *)
(* and whose pop reports failure exactly when it is empty.                 *)
(***************************************************************************)
EXTENDS Naturals, Sequences

CONSTANTS Capacity, Values, NoValue

VARIABLES
    items,    \* the elements in the ring, oldest first
    lastPush, \* result of the last push: "ok", "full" or "none"
    lastPop   \* value returned by the last pop, or NoValue if it failed

Results == {"ok", "full", "none"}

Init ==
    /\ items = <<>>
    /\ lastPush = "none"
    /\ lastPop = NoValue

PushOk(v) ==
    /\ Len(items) < Capacity
    /\ items' = Append(items, v)
    /\ lastPush' = "ok"
    /\ UNCHANGED lastPop

PushFull ==
    /\ Len(items) = Capacity
    /\ lastPush' = "full"
    /\ UNCHANGED <<items, lastPop>>

PopOk ==
    /\ items # <<>>
    /\ lastPop' = Head(items)
    /\ items' = Tail(items)
    /\ UNCHANGED lastPush

PopEmpty ==
    /\ items = <<>>
    /\ lastPop' = NoValue
    /\ UNCHANGED <<items, lastPush>>

Next == (\E v \in Values : PushOk(v)) \/ PushFull \/ PopOk \/ PopEmpty

Spec == Init /\ [][Next]_<<items, lastPush, lastPop>>

=============================================================================
