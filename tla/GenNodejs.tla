------------------------------ MODULE GenNodejs ------------------------------
(* gennodejs: what the class generated for a message does. The serializers *)
(* of the builtin types are those of the library ros_msg_utils, which is   *)
(* not part of the repository: numbers in little-endian order, strings in  *)
(* UTF-8 with their length in bytes, arrays with their length where the    *)
(* generated code passes null for it.                                      *)
EXTENDS Wire

CONSTANT Undefined   \* a property that an object does not have

Bytes(ok, bytes) == [ok |-> ok, bytes |-> bytes]
Concat(parts) == Bytes(\A i \in DOMAIN parts: parts[i].ok,
                       FlattenSeq([i \in DOMAIN parts |-> parts[i].bytes]))
HasLength(type) == IsFixedArray(type) /\ type.dims[1] # 0   \* "if f.array_len"
Sum(s) == FoldLeft(LAMBDA sum, n: sum + n, 0, s)

(* The library.                                                            *)
_serializer(type, v) ==
    CASE Base(type) = "string" -> uint32(Len(Encode(v))) \o Encode(v)
      [] Base(type) = "bool" -> <<IF v THEN 1 ELSE 0>>
      [] Base(type) \in {"time", "duration"} -> v[1].bytes \o v[2].bytes
      [] OTHER -> v.bytes
_arraySerializer(type, v) ==
    (IF IsFixedArray(type) THEN <<>> ELSE uint32(Len(v)))
    \o FlattenSeq([i \in DOMAIN v |-> _serializer(Element(type), v[i])])

-----------------------------------------------------------------------------
(* serialize(obj, buffer, bufferOffset).                                   *)

write_serialize_length_check(type, v) == ~IsFixedArray(type) \/ Len(v) = type.dims[1]
write_serialize_builtin(type, v) ==
    IF IsArray(type) THEN _arraySerializer(type, v) ELSE _serializer(type, v)
write_serialize_length(v) == Bytes(TRUE, uint32(Len(v)))

RECURSIVE write_serialize(_, _, _), write_serialize_complex(_, _, _)
write_serialize_complex(ctx, type, v) ==
    IF ~IsArray(type) THEN write_serialize(ctx, FieldsOf(ctx, type), v)
    ELSE LET items == Concat([i \in DOMAIN v |-> write_serialize(ctx, FieldsOf(ctx, type), v[i])])
         IN  IF IsFixedArray(type) THEN items ELSE Concat(<<write_serialize_length(v), items>>)

write_serialize_field(ctx, type, v) ==
    IF IsArray(type) /\ ~write_serialize_length_check(type, v) THEN Bytes(FALSE, <<>>)
    ELSE IF is_builtin(type.parts) THEN Bytes(TRUE, write_serialize_builtin(type, v))
    ELSE write_serialize_complex(ctx, type, v)

write_serialize(ctx, fields, v) ==
    Concat([i \in DOMAIN fields |-> write_serialize_field(ctx, fields[i].type, v[i])])

serialize(ctx, type, v) == write_serialize(ctx, FieldsOf(ctx, type), v)

-----------------------------------------------------------------------------
(* deserialize(buffer, bufferOffset).                                      *)

_deserializer(type, bytes) ==
    LET n == ReadCount(bytes)
        chars == Advance(n.rest, n.val)
        pair == Advance(bytes, 8)
        signed == Base(type) = "duration"
        word(w) == Number(signed /\ Last(w) >= 128, w)
    IN  CASE Base(type) = "string" ->
               IF ~n.ok THEN n
               ELSE IF chars.ok /\ Decode(chars.val).ok
               THEN Done(Decode(chars.val).val, chars.rest) ELSE Refused(bytes)
          [] Base(type) = "bool" -> ReadBool(bytes)
          [] Base(type) \in {"time", "duration"} ->
               Map(pair, LAMBDA b: <<word(SubSeq(b, 1, 4)), word(SubSeq(b, 5, 8))>>)
          [] OTHER -> ReadNumber(Base(type), bytes)

write_deserialize_length(type, bytes) ==
    IF IsFixedArray(type) THEN Done(type.dims[1], bytes) ELSE ReadCount(bytes)

write_deserialize_builtin(type, bytes) ==
    LET n == write_deserialize_length(type, bytes)
    IN  IF ~IsArray(type) THEN _deserializer(type, bytes)
        ELSE IF ~n.ok THEN n
        ELSE ReadAll(n.val, LAMBDA i, b: _deserializer(Element(type), b), n.rest)

RECURSIVE write_deserialize(_, _, _), write_deserialize_complex(_, _, _)
write_deserialize_complex(ctx, type, bytes) ==
    LET n == write_deserialize_length(type, bytes)
    IN  IF ~IsArray(type) THEN write_deserialize(ctx, FieldsOf(ctx, type), bytes)
        ELSE IF ~n.ok THEN n
        ELSE ReadAll(n.val, LAMBDA i, b: write_deserialize(ctx, FieldsOf(ctx, type), b), n.rest)

write_deserialize_field(ctx, type, bytes) ==
    IF is_builtin(type.parts) THEN write_deserialize_builtin(type, bytes)
    ELSE write_deserialize_complex(ctx, type, bytes)

write_deserialize(ctx, fields, bytes) ==
    ReadAll(Len(fields), LAMBDA i, b: write_deserialize_field(ctx, fields[i].type, b), bytes)

deserialize(ctx, type, bytes) == write_deserialize(ctx, FieldsOf(ctx, type), bytes)

-----------------------------------------------------------------------------
(* getMessageSize(object): None is -1.                                     *)

get_type_size(base) ==
    CASE base \in {"int8", "uint8", "byte", "bool", "char"} -> 1
      [] base \in {"int16", "uint16"} -> 2
      [] base \in {"int32", "uint32", "float32"} -> 4
      [] base \in {"int64", "uint64", "float64", "time", "duration"} -> 8
      [] OTHER -> -1

RECURSIVE is_message_fixed_size(_, _)
is_message_fixed_size(ctx, fields) ==
    \A i \in DOMAIN fields:
        LET t == fields[i].type
        IN  /\ Base(t) # "string"
            /\ IsArray(t) => HasLength(t)
            /\ is_builtin(t.parts) \/ is_message_fixed_size(ctx, FieldsOf(ctx, t))

(* An array of messages counts like one message.                           *)
RECURSIVE get_message_fixed_size(_, _)
get_message_fixed_size(ctx, fields) ==
    IF ~is_message_fixed_size(ctx, fields) THEN -1
    ELSE Sum([i \in DOMAIN fields |->
                LET t == fields[i].type
                IN  IF ~is_builtin(t.parts) THEN get_message_fixed_size(ctx, FieldsOf(ctx, t))
                    ELSE (IF IsArray(t) THEN t.dims[1] ELSE 1) * get_type_size(Base(t))])

(* A mutant: the four bytes of the length of an array are forgotten.       *)
RECURSIVE SizeWithoutCounts(_, _, _)
SizeWithoutCounts(ctx, fields, v) ==
    IF is_message_fixed_size(ctx, fields) THEN get_message_fixed_size(ctx, fields)
    ELSE Sum([i \in DOMAIN fields |->
                LET t == fields[i].type
                    fixed == IF is_builtin(t.parts) THEN get_type_size(Base(t))
                             ELSE get_message_fixed_size(ctx, FieldsOf(ctx, t))
                    one(w) == IF is_builtin(t.parts) THEN 4 + Len(w)
                              ELSE SizeWithoutCounts(ctx, FieldsOf(ctx, t), w)
                IN  IF ~IsArray(t) THEN IF fixed # -1 THEN fixed ELSE one(v[i])
                    ELSE IF fixed # -1 THEN fixed * Len(v[i])
                    ELSE Sum([j \in DOMAIN v[i] |-> one(v[i][j])])])

(* The length of a string is its length in characters. An array of length  *)
(* 0 counts like one without a length.                                     *)
RECURSIVE write_get_message_size(_, _, _)
write_get_message_size(ctx, fields, v) ==
    IF is_message_fixed_size(ctx, fields) THEN get_message_fixed_size(ctx, fields)
    ELSE Sum([i \in DOMAIN fields |->
                LET t == fields[i].type
                    fixed == IF is_builtin(t.parts) THEN get_type_size(Base(t))
                             ELSE get_message_fixed_size(ctx, FieldsOf(ctx, t))
                    one(w) == IF is_builtin(t.parts) THEN 4 + Len(w)
                              ELSE write_get_message_size(ctx, FieldsOf(ctx, t), w)
                IN  IF ~IsArray(t) THEN IF fixed # -1 THEN fixed ELSE one(v[i])
                    ELSE IF HasLength(t) /\ fixed # -1 THEN fixed * t.dims[1]
                    ELSE (IF HasLength(t) THEN 0 ELSE 4)
                         + (IF fixed # -1 THEN fixed * Len(v[i])
                            ELSE Sum([j \in DOMAIN v[i] |-> one(v[i][j])]))])

getMessageSize(ctx, type, v) == write_get_message_size(ctx, FieldsOf(ctx, type), v)

-----------------------------------------------------------------------------
(* The constructor and Resolve.                                            *)

(* What a builtin field starts with: the copy of an array field made for   *)
(* its elements keeps the type with the brackets, which is neither string  *)
(* nor time nor bool, and the elements start as 0. wrong stands for a 0 in *)
(* the place of a string or a time; an array of a 0 is one of false.       *)
RECURSIVE get_default_value(_, _, _)
get_default_value(ctx, type, wrong) ==
    LET zero == Number(FALSE, [i \in 1..Width(Base(type)) |-> 0])
    IN  IF IsArray(type)
        THEN IF ~HasLength(type) THEN <<>>
             ELSE [i \in 1..type.dims[1] |->
                     IF Base(type) \in {"string", "time", "duration"} THEN wrong
                     ELSE get_default_value(ctx, Element(type), wrong)]
        ELSE IF Base(type) = "string" THEN <<>>
        ELSE IF Base(type) = "bool" THEN FALSE
        ELSE IF is_builtin(type.parts) /\ ~IsMessage(type) THEN zero
        ELSE [i \in DOMAIN FieldsOf(ctx, type) |->
                get_default_value(ctx, FieldsOf(ctx, type)[i].type, wrong)]

RECURSIVE write_resolve(_, _, _)
write_resolve(ctx, fields, msg) ==
    [i \in DOMAIN fields |->
        LET t == fields[i].type
            one(w) == write_resolve(ctx, FieldsOf(ctx, t), w)
            n == IF IsFixedArray(t) THEN t.dims[1] ELSE Len(msg[i])
        IN  IF msg[i] = Undefined THEN get_default_value(ctx, t, Undefined)
            ELSE IF is_builtin(t.parts) THEN msg[i]
            ELSE IF IsArray(t)
            THEN [j \in 1..n |-> IF j \in DOMAIN msg[i] THEN one(msg[i][j])
                                 ELSE get_default_value(ctx, Element(t), Undefined)]
            ELSE one(msg[i])]

-----------------------------------------------------------------------------
(* require: the messages of the own package one by one, other packages as  *)
(* a whole. The second half of a service leaves out what the first has.    *)

find_requires(fields, package) ==
    LET used == {fields[i].type.parts: i \in {j \in DOMAIN fields: ~is_builtin(fields[j].type.parts)}}
    IN  [packages |-> {p[1]: p \in used} \ {package},
         locals |-> {p[2]: p \in {q \in used: q[1] = package}}]

write_requires(fields, package, previous) ==
    LET found == find_requires(fields, package)
    IN  [packages |-> found.packages \ previous.packages, locals |-> found.locals \ previous.locals]

Nothing == [packages |-> {}, locals |-> {}]
get_message_path_from_field(type, package) ==
    IF type.parts[1] = package THEN [local |-> TRUE, name |-> type.parts[2]]
    ELSE [local |-> FALSE, name |-> type.parts[1]]
(* A string constant is written between single quotes as it is.            *)
write_constants(val) == val

(* The definition is written between backquotes as it is, every line on a  *)
(* line of its own with the indentation of the code, as is the closing     *)
(* backquote. A literal in backquotes is its own text unless a backslash,  *)
(* a backquote or the beginning of a substitution is in it.                *)
write_message_definition(text) ==
    LET line_start == <<"nl", "indent">>
    IN  line_start \o FlattenSeq([i \in DOMAIN text |->
            IF text[i] = "nl" THEN line_start ELSE <<text[i]>>]) \o line_start
Interpreted(body) ==
    \/ {"bs", "bq"} \cap ToSet(body) # {}
    \/ \E i \in 1..(Len(body) - 1): body[i] = "dollar" /\ body[i + 1] = "brace"
=============================================================================
