----------------------------- MODULE MRSWRing ------------------------------
(***************************************************************************)
(* containers/MRSWRing.h: the bounded ring every worker uses as its local *)
(* task queue.  A vector of Capacity slots and two unsigned counters r_   *)
(* and w_ that only grow, wrapping at 2^Width (32 bits in the code); a    *)
(* slot is addressed by counter % Capacity.  Push and Pop each hold the   *)
(* ring's mutex for their whole body, so each is one atomic step and the  *)
(* threads calling them need not be modelled apart.                       *)
(***************************************************************************)
EXTENDS Naturals

CONSTANTS
    Capacity,  \* data_.size(), the max_size given to the constructor
    Width,     \* bits of unsigned (32 in the code)
    Values,    \* elements pushed (TaskTuples in the code)
    NoValue    \* what a failed Pop leaves in its output

ASSUME Capacity \in Nat \ {0} /\ Width \in Nat \ {0} /\ NoValue \notin Values

Mod == 2 ^ Width

VARIABLES
    data,      \* data_
    r,         \* r_
    w,         \* w_
    lastPush,  \* value Push returned last ("ok" / "full"), "none" before any
    lastPop    \* element the last Pop moved out, NoValue if it returned false

vars == <<data, r, w, lastPush, lastPop>>

(* MRSWRing(max_size): data_.resize(max_size), r_ = w_ = 0.  A slot never *)
(* written holds a default-constructed element, modelled as NoValue.      *)
Init ==
    /\ data = [i \in 0 .. Capacity - 1 |-> NoValue]
    /\ r = 0
    /\ w = 0
    /\ lastPush = "none"
    /\ lastPop = NoValue

IsEmpty == r = w

(* Mutation: IsFull without its !IsEmpty conjunct.                        *)
IsFullNoEmptyCheck == (r % Capacity) = (w % Capacity)

IsFull == (r % Capacity) = (w % Capacity) /\ ~IsEmpty

(* Mutation: counters of a signed type that grows past 2^Width instead   *)
(* of wrapping.                                                            *)
PushNoWrap(v) ==
    /\ IF IsFull
         THEN /\ lastPush' = "full"
              /\ UNCHANGED <<data, w>>
         ELSE /\ data' = [data EXCEPT ![w % Capacity] = v]
              /\ w' = w + 1
              /\ lastPush' = "ok"
    /\ UNCHANGED <<r, lastPop>>

(* Push: refuse when full, else store at w_ % size and increment w_, an   *)
(* unsigned that wraps.                                                    *)
Push(v) ==
    /\ IF IsFull
         THEN /\ lastPush' = "full"
              /\ UNCHANGED <<data, w>>
         ELSE /\ data' = [data EXCEPT ![w % Capacity] = v]
              /\ w' = (w + 1) % Mod
              /\ lastPush' = "ok"
    /\ UNCHANGED <<r, lastPop>>

(* Pop: refuse when empty, else move out the slot at r_ % size and        *)
(* increment r_.  The moved-from slot keeps its (stale) value.             *)
Pop ==
    /\ IF IsEmpty
         THEN /\ lastPop' = NoValue
              /\ UNCHANGED r
         ELSE /\ lastPop' = data[r % Capacity]
              /\ r' = (r + 1) % Mod
    /\ UNCHANGED <<data, w, lastPush>>

Next == (\E v \in Values : Push(v)) \/ Pop

Spec == Init /\ [][Next]_vars

-----------------------------------------------------------------------------
TypeOK ==
    /\ data \in [0 .. Capacity - 1 -> Values \cup {NoValue}]
    /\ r \in 0 .. Mod - 1 /\ w \in 0 .. Mod - 1
    /\ lastPush \in {"ok", "full", "none"}
    /\ lastPop \in Values \cup {NoValue}

(* The ring's contents, oldest first, as the counters delimit them.       *)
Size == (w + Mod - r) % Mod
Contents == [i \in 1 .. Size |-> data[(r + i - 1) % Capacity]]

FIFO == INSTANCE BoundedFIFO WITH items <- Contents

(* The ring, with its counters wrapping, behaves as a bounded FIFO: Push  *)
(* fails exactly when Capacity elements are queued, Pop returns the       *)
(* oldest element and fails exactly when none is queued.                  *)
RingIsBoundedFIFO == FIFO!Spec

=============================================================================
