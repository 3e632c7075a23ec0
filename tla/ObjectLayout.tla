---------------------------- MODULE ObjectLayout ----------------------------
(***************************************************************************)
(* Struct layout and field stores: the defstruct handler's layout loop     *)
(* (main/slang_env.cc), which gives a schema its size and alignment, and   *)
(* create's field writes through ObjectWriter (storage/object_writer.cc),  *)
(* whose FindDataStore walks the fields again to find where a field lives  *)
(* in the object's buffer.  One connection makes the calls in sequence;    *)
(* the cache and lock of the registry, and calls racing each other, are    *)
(* TypeRegistry's.  create's reply is the object serialized by            *)
(* JsonSerializer::WriteObject, a third walk over the fields.              *)
(*                                                                         *)
(* A struct's fields are named by their position; a create names one      *)
(* field to write.  Addresses are uintptr_t values modulo 2^Width: the     *)
(* arithmetic that goes wrong, AlignPtr's mask ~(alignment - 1), is the    *)
(* same at any width.                                                      *)
(***************************************************************************)
EXTENDS Naturals, Sequences, SequencesExt, Bitwise

CONSTANTS
    Names,       \* the type names defstruct is called with
    FieldTypes,  \* the type names a field is declared with
    MaxFields,   \* bound on the fields of one defstruct
    MaxCalls,    \* bound on the calls made
    Width,       \* bits of an address
    ObjBase,     \* the address of an Object's buf (alignas(128))
    IntArgs,     \* the integer literals create is given as field values
    StrBits      \* the u64 bits of a string argument: its StrSpan's pointer

None == "none"

\* Outcomes of a field write: stored at an address, or one of WriteTyped's
\* two errors.
Stored(a) == [error |-> None, at |-> a]
Missing == [error |-> "Field does not exist", at |-> 0]
Unsupported == [error |-> "Unsupported type", at |-> 0]

\* create's arguments, as the slang VM's typed stack slots hold them: an
\* int64 literal, a string (the names below), or a :field naming a field by
\* its position.
Str(n) == [type |-> "StrSpan", v |-> n]
Values == {[type |-> "int64", v |-> i] : i \in IntArgs} \cup {Str(n) : n \in Names}
FieldArgs == {[type |-> "Field", v |-> j] : j \in 1..MaxFields}
Arg == Values \cup FieldArgs

\* CallArgs::Iterator::Get<StrSpan> and Get<Field>: a Maybe, the argument
\* if its slot holds that type, or nothing.
Get(a, t) == IF a.type = t THEN {a.v} ELSE {}

\* No write attempted, no object answered since the last call.
NoWrite == [type |-> None, field |-> 0, got |-> Missing, arg |-> Str(None), bits |-> 0]
NoReply == [type |-> None, walk |-> <<>>, answered |-> 0, error |-> None]

Word == 2^Width

\* The values fit TLC's integers: below 2^30 in magnitude, and never negative
\* where a 32- or 64-bit unsigned field would read them back.
ValuesInRange ==
    /\ \A x \in IntArgs \cup {StrBits} : -2^30 < x /\ x < 2^30
    /\ {"uint32", "uint64"} \cap FieldTypes # {} => \A x \in IntArgs : x >= 0
ASSUME ValuesInRange

VARIABLES
    schemas,  \* the published user types: name -> [fields, size, alignment]
    wrote,    \* the last field write create attempted, or NoWrite
    reply,    \* the object create answered, the walk over it and the written field read back; or an error
    calls     \* calls made so far

vars == <<schemas, wrote, reply, calls>>

-----------------------------------------------------------------------------
(* Types.                                                                  *)

\* The basic schemas TypeManager starts with (main.cc): alignof and sizeof
\* of each C++ type on x86-64.
BasicTypes ==
    [t \in {"int8", "uint8"} |-> [alignment |-> 1, size |-> 1]] @@
    [t \in {"int16", "uint16"} |-> [alignment |-> 2, size |-> 2]] @@
    [t \in {"int32", "uint32", "float"} |-> [alignment |-> 4, size |-> 4]] @@
    [t \in {"int64", "uint64", "double"} |-> [alignment |-> 8, size |-> 8]]

IsBasic(t) == t \in DOMAIN BasicTypes

\* FindSchema on a fresh cache: the type is basic or published.
Known(t) == IsBasic(t) \/ t \in DOMAIN schemas

IsUnsigned(t) == t \in {"uint8", "uint16", "uint32", "uint64"}
IsFloating(t) == t \in {"float", "double"}

AlignOf(t) == IF IsBasic(t) THEN BasicTypes[t].alignment ELSE schemas[t].alignment
SizeOf(t) == IF IsBasic(t) THEN BasicTypes[t].size ELSE schemas[t].size

\* TypeSchema::IsAligned: the address has no bits of alignment - 1 set.
IsAligned(p, a) == (p & ((a - 1) % Word)) = 0

\* TypeSchema::AlignPtr: (p + alignment - 1) & ~(alignment - 1) on
\* uintptr_t.
AlignPtr(p, a) == ((p + a - 1) % Word) & (Word - 1 - ((a - 1) % Word))

-----------------------------------------------------------------------------
(* The code.                                                               *)

\* defstruct's handler: align the running size to each field's alignment
\* and add its size, keep the largest alignment, then pad the size to it.
RECURSIVE Accumulate(_, _, _)
Accumulate(fs, total, align) ==
    IF fs = <<>> THEN [size |-> AlignPtr(total, align), alignment |-> align]
    ELSE LET t == Head(fs)
         IN Accumulate(Tail(fs), (AlignPtr(total, AlignOf(t)) + SizeOf(t)) % Word,
                       IF AlignOf(t) > align THEN AlignOf(t) ELSE align)

\* defstruct name fields: refused if the name exists or a field's type is
\* unknown; otherwise the schema is published with the handler's layout.
Defstruct(n, fs) ==
    /\ calls < MaxCalls
    /\ calls' = calls + 1
    /\ wrote' = NoWrite
    /\ reply' = NoReply
    /\ IF n \notin DOMAIN schemas /\ \A j \in DOMAIN fs : Known(fs[j])
       THEN LET l == Accumulate(fs, 0, 0)
            IN schemas' = schemas @@ (n :> [fields |-> fs, size |-> l.size,
                                            alignment |-> l.alignment])
       ELSE UNCHANGED schemas

\* ObjectWriter::FindDataStore: from the object's data, align to each
\* field's alignment; the j-th field's address, or 0 (nullptr) if there is
\* none.
RECURSIVE FindDataStore(_, _, _)
FindDataStore(fs, j, cur) ==
    IF fs = <<>> THEN [ptr |-> 0, type |-> None]
    ELSE LET p == AlignPtr(cur, AlignOf(Head(fs)))
         IN IF j = 1 THEN [ptr |-> p, type |-> Head(fs)]
            ELSE FindDataStore(Tail(fs), j - 1, (p + SizeOf(Head(fs))) % Word)

\* ValueToUInt64 and ValueToDouble: an integer argument's bits (its i64 in
\* two's complement) or its value; for a string or a :field the Value
\* union holds a StrSpan, whose first word is the pointer.  Literals are small enough
\* that the double conversion is exact.
ValueToUInt64(a) == IF a.type \in {"StrSpan", "Field"} THEN StrBits ELSE a.v
ValueToDouble(a) == IF a.type \in {"StrSpan", "Field"} THEN StrBits ELSE a.v

\* Bits are kept as the two's complement integer they spell: x cut to its
\* low b bits.  TLC's integers have 32 bits; for b >= 32 the values this
\* model writes are in range already (ValuesInRange), so the cut keeps them.
Wrap(x, b) == IF b >= 32 THEN x ELSE ((x + 2^(b - 1)) % 2^b) - 2^(b - 1)

\* WriteBasicValue: a floating field takes the double; an integral one the
\* u64 cast to its size.
WriteBasicValue(a, t) ==
    IF IsFloating(t) THEN ValueToDouble(a) ELSE Wrap(ValueToUInt64(a), 8 * SizeOf(t))

\* JsonSerializer::WriteBasicValue(type, data): the field's bytes read back
\* as a double, sign-extended, or as unsigned, by the field's type.
ReadBasicValue(t, x) ==
    IF IsUnsigned(t) /\ x < 0 THEN x + 2^(8 * SizeOf(t)) ELSE x

\* ObjectWriter::WriteTyped: a null store is a missing field, a struct
\* field is unsupported, a basic one is written at the store.
WriteTyped(fs, j) ==
    LET s == FindDataStore(fs, j, ObjBase)
    IN IF s.ptr = 0 THEN Missing
       ELSE IF ~IsBasic(s.type) THEN Unsupported
       ELSE Stored(s.ptr)

\* JsonSerializer::WriteObject on the object of type t at p: the assertion
\* that p is aligned for t, then each field at AlignPtr of the running
\* address, a basic one read there and a struct one written recursively,
\* the address stepping over the field's size.
RECURSIVE WriteObject(_, _), WriteFields(_, _)
WriteObject(t, p) ==
    <<[read |-> FALSE, at |-> p, ok |-> IsAligned(p, AlignOf(t))]>>
        \o WriteFields(schemas[t].fields, p)
WriteFields(fs, p) ==
    IF fs = <<>> THEN <<>>
    ELSE LET q == AlignPtr(p, AlignOf(Head(fs)))
         IN (IF IsBasic(Head(fs)) THEN <<[read |-> TRUE, at |-> q, ok |-> TRUE]>>
             ELSE WriteObject(Head(fs), q))
            \o WriteFields(Tail(fs), (q + SizeOf(Head(fs))) % Word)

\* create's loop over the <field, value> pairs after the type name: each
\* name must be a :field with a value after it, and the value is written
\* through WriteTyped; the first failure ends the call.  The result holds
\* the error, if any, and the last write tried.
RECURSIVE WritePairs(_, _, _)
WritePairs(n, rest, last) ==
    IF rest = <<>> THEN [error |-> None, last |-> last]
    ELSE IF Get(rest[1], "Field") = {} THEN [error |-> "Expected field name", last |-> last]
    ELSE IF Len(rest) = 1 THEN [error |-> "Expected value for field", last |-> last]
    ELSE LET fs == schemas[n].fields
             got == WriteTyped(fs, rest[1].v)
             w == [type |-> n, field |-> rest[1].v, got |-> got, arg |-> rest[2],
                   bits |-> IF got.error = None THEN WriteBasicValue(rest[2], fs[rest[1].v])
                            ELSE 0]
         IN IF got.error # None THEN [error |-> got.error, last |-> w]
            ELSE WritePairs(n, Tail(Tail(rest)), w)

\* create name [:field value ...]: no arguments, a first argument that is
\* not a string, or a name with no vault (EnsureVaultWithType finds no
\* user type) answer an error; otherwise the object is created in its
\* type's vault, the pairs are written, and the object is the reply, read
\* back by the serializer.
Create(args) ==
    /\ calls < MaxCalls
    /\ calls' = calls + 1
    /\ IF args = <<>> \/ Get(args[1], "StrSpan") = {} \/ args[1].v \notin DOMAIN schemas
       THEN /\ wrote' = NoWrite
            /\ reply' = [NoReply EXCEPT !.error = "create"]
       ELSE LET n == args[1].v
                r == WritePairs(n, Tail(args), NoWrite)
            IN /\ wrote' = r.last
               /\ reply' = IF r.error # None THEN [NoReply EXCEPT !.error = r.error]
                           ELSE [type |-> n, walk |-> WriteObject(n, ObjBase), error |-> None,
                                 answered |-> IF r.last = NoWrite THEN 0
                                             ELSE ReadBasicValue(schemas[n].fields[r.last.field],
                                                                 r.last.bits)]
    /\ UNCHANGED schemas

Init ==
    /\ schemas = <<>>
    /\ wrote = NoWrite
    /\ reply = NoReply
    /\ calls = 0

Next ==
    \/ \E n \in Names, k \in 0..MaxFields, fs \in [1..MaxFields -> FieldTypes] :
          Defstruct(n, SubSeq(fs, 1, k))
    \/ \E k \in 0..3, args \in [1..3 -> Arg] : Create(SubSeq(args, 1, k))

Spec == Init /\ [][Next]_vars

-----------------------------------------------------------------------------
(* Reference: spec 4.O's layout, "max alignment of members, sum of padded  *)
(* sizes, tail pad"; padding to an alignment of 0 (a struct with no        *)
(* fields) adds nothing.                                                   *)

Pad(x, a) == IF a <= 1 THEN x ELSE ((x + a - 1) \div a) * a

RECURSIVE RefAlign(_), RefSize(_), RefEnd(_)
RefAlign(t) ==
    IF IsBasic(t) THEN BasicTypes[t].alignment
    ELSE LET fs == schemas[t].fields
         IN IF fs = <<>> THEN 0 ELSE Max({RefAlign(fs[k]) : k \in DOMAIN fs})
RefSize(t) ==
    IF IsBasic(t) THEN BasicTypes[t].size
    ELSE Pad(RefEnd(schemas[t].fields), RefAlign(t))
\* The offset just past the last of fields fs laid out from 0.
RefEnd(fs) ==
    IF fs = <<>> THEN 0
    ELSE Pad(RefEnd(Front(fs)), RefAlign(Last(fs))) + RefSize(Last(fs))

\* The addresses of the basic values inside an object of type t at p.
RECURSIVE RefLeaves(_, _)
RefLeaves(t, p) ==
    LET fs == schemas[t].fields
        At(k) == p + Pad(RefEnd(SubSeq(fs, 1, k - 1)), RefAlign(fs[k]))
        Leaves(k) == IF IsBasic(fs[k]) THEN <<At(k)>> ELSE RefLeaves(fs[k], At(k))
    IN FlattenSeq([k \in DOMAIN fs |-> Leaves(k)])

RefStore(fs, j) ==
    IF j > Len(fs) THEN Missing
    ELSE IF ~IsBasic(fs[j]) THEN Unsupported
    ELSE Stored(ObjBase + Pad(RefEnd(SubSeq(fs, 1, j - 1)), RefAlign(fs[j])))

-----------------------------------------------------------------------------
(* Properties.                                                             *)

TypeOK ==
    /\ DOMAIN schemas \subseteq Names
    /\ \A n \in DOMAIN schemas : Len(schemas[n].fields) <= MaxFields
    /\ calls \in 0..MaxCalls

\* The store: every basic field create writes is stored where spec 4.O's
\* layout puts it, and is never reported missing.
StoreIsSpecLayout ==
    LET fs == IF wrote = NoWrite THEN <<>> ELSE schemas[wrote.type].fields
    IN  wrote.field \in 1..Len(fs) /\ IsBasic(fs[wrote.field]) =>
            wrote.got = RefStore(fs, wrote.field)

\* The reply: the serializer reads every basic field of the object, nested
\* ones included, where the layout puts it, and its alignment assertions
\* hold.
ReplyIsSpecLayout ==
    LET reads == SelectSeq(reply.walk, LAMBDA e : e.read)
    IN  reply.type # None =>
            /\ \A k \in DOMAIN reply.walk : reply.walk[k].ok
            /\ [k \in DOMAIN reads |-> reads[k].at] = RefLeaves(reply.type, ObjBase)

\* create's store and its reply agree with spec 4.O's padded layout:
\* defstruct's layout loop, FindDataStore's walk and WriteObject's walk,
\* over structs nested in structs, put every field where the layout does.
ObjectIsSpecLayout == StoreIsSpecLayout /\ ReplyIsSpecLayout

\* create answers, in the field it named, the value it was given: a value
\* the field cannot hold (a string, or an integer out of the field's range)
\* is a type mismatch, which spec 7 has reported as an error, never stored.
\* WriteTyped takes any argument type and WriteBasicValue casts it.
ReplyHoldsArgument ==
    reply.type # None /\ wrote # NoWrite =>
        wrote.arg.type = "int64" /\ reply.answered = wrote.arg.v
====
