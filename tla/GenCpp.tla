------------------------------- MODULE GenCpp -------------------------------
(* gencpp: the C++ type of a field, the constructors, the trait of a fixed *)
(* size and the serializer of a message.                                   *)
EXTENDS Wire

Sum(s) == FoldLeft(LAMBDA sum, n: sum + n, 0, s)

MSG_TYPE_TO_CPP ==
    [byte |-> "int8_t", char |-> "uint8_t", bool |-> "uint8_t", uint8 |-> "uint8_t",
     int8 |-> "int8_t", uint16 |-> "uint16_t", int16 |-> "int16_t", uint32 |-> "uint32_t",
     int32 |-> "int32_t", uint64 |-> "uint64_t", int64 |-> "int64_t", float32 |-> "float",
     float64 |-> "double", string |-> "string", time |-> "Time", duration |-> "Duration"]

(* A container, its element and its size.                                  *)
msg_type_to_cpp(type) ==
    LET cpp == IF is_builtin(type.parts) THEN [name |-> MSG_TYPE_TO_CPP[Base(type)], message |-> <<>>]
               ELSE [name |-> "message", message |-> type.parts]
    IN  [container |-> IF ~IsArray(type) THEN "none"
                       ELSE IF IsFixedArray(type) THEN "array" ELSE "vector",
         element |-> cpp, size |-> IF IsFixedArray(type) THEN type.dims[1] ELSE -1]

-----------------------------------------------------------------------------
(* The trait IsFixedSize, and serializationLength, which multiplies the    *)
(* length of the first element where the trait holds.                      *)

RECURSIVE is_fixed_length(_, _)
is_fixed_length(ctx, fields) ==
    \A i \in DOMAIN fields:
        LET t == fields[i].type
        IN  /\ IsArray(t) => IsFixedArray(t)
            /\ Base(t) # "string"
            /\ is_builtin(t.parts) \/ is_fixed_length(ctx, FieldsOf(ctx, t))

IsFixedSize(ctx, type) ==
    IF is_builtin(type.parts) THEN Base(type) # "string"
    ELSE is_fixed_length(ctx, FieldsOf(ctx, type))

RECURSIVE serializationLength(_, _, _)
serializationLength(ctx, type, v) ==
    IF IsArray(type)
    THEN (IF IsFixedArray(type) THEN 0 ELSE 4)
         + (IF v = <<>> THEN 0
            ELSE IF IsFixedSize(ctx, Element(type))
            THEN serializationLength(ctx, Element(type), v[1]) * Len(v)
            ELSE Sum([i \in DOMAIN v |-> serializationLength(ctx, Element(type), v[i])]))
    ELSE IF IsMessage(type)
    THEN Sum([i \in DOMAIN v |-> serializationLength(ctx, FieldsOf(ctx, type)[i].type, v[i])])
    ELSE IF Base(type) = "string" THEN 4 + Len(Encode(v))
    ELSE Width(Base(type))

(* serializeMessage: the buffer has the computed length and four bytes for *)
(* it; allInOne gives the fields to the stream one after the other, which  *)
(* throws at the end of the buffer.                                        *)
write_serialization(ctx, fields, v) ==
    FlattenSeq([i \in DOMAIN fields |-> Write(ctx, fields[i].type, v[i])])
serializeMessage(ctx, type, v) ==
    LET n == serializationLength(ctx, type, v)
        bytes == write_serialization(ctx, FieldsOf(ctx, type), v)
    IN  [ok |-> Len(bytes) <= n, bytes |-> uint32(n) \o bytes]

-----------------------------------------------------------------------------
(* The constructors, without and with an allocator. A member is left to    *)
(* itself (none), given a value, or constructed with the allocator.        *)

default_value(base) ==
    CASE base \in DOMAIN IntegerBits -> "0"
      [] base \in {"float32", "float64"} -> "0.0"
      [] base = "bool" -> "false"
      [] OTHER -> ""
takes_allocator(type) ==
    ~(is_builtin(type.parts) /\ Base(type) # "string")

generate_initializer_list(type, alloc) ==
    IF IsArray(type)
    THEN IF ~IsFixedArray(type) /\ alloc THEN "alloc" ELSE "()"
    ELSE IF alloc /\ takes_allocator(type) THEN "alloc"
    ELSE default_value(Base(type))

generate_fixed_length_assigns(type, alloc) ==
    IF ~IsFixedArray(type) THEN "none"
    ELSE IF alloc /\ takes_allocator(type) THEN "alloc"
    ELSE IF default_value(Base(type)) # "" THEN default_value(Base(type))
    ELSE "none"

escape_string(val) ==
    LET backslashes == FlattenSeq([i \in DOMAIN val |->
                           IF val[i] = "bs" THEN <<"bs", "bs">> ELSE <<val[i]>>])
    IN  FlattenSeq([i \in DOMAIN backslashes |->
            IF backslashes[i] = "dq" THEN <<"bs", "dq">> ELSE <<backslashes[i]>>])

(* The definition, one literal over many lines: each ends with \n in the   *)
(* literal and is continued behind a backslash. splitlines gives no line   *)
(* after a newline at the end.                                             *)
escape_message_definition(definition) ==
    LET lines == IF definition # <<>> /\ Last(definition) = "nl" THEN definition
                 ELSE Append(definition, "nl")
    IN  FlattenSeq([i \in DOMAIN lines |->
            IF lines[i] = "nl" THEN <<"bs", "n", "bs", "nl">> ELSE escape_string(<<lines[i]>>)])
=============================================================================
