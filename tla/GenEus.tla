------------------------------- MODULE GenEus -------------------------------
(* geneus: the methods generated for a message in EusLisp. A string of     *)
(* EusLisp is a string of bytes. sys::peek, which is not part of the       *)
(* repository, does not look at the end of the buffer: only whole messages *)
(* are read here. It takes one byte without a sign, more bytes with one.   *)
EXTENDS Wire

HasLength(type) == IsFixedArray(type) /\ type.dims[1] # 0   \* "if f.array_len"
Sum(s) == FoldLeft(LAMBDA sum, n: sum + n, 0, s)
Each(v, f(_)) == FlattenSeq([i \in DOMAIN v |-> f(v[i])])

is_signed_int(base) == base \in {"byte", "int8", "int16", "int32", "int64"}

-----------------------------------------------------------------------------
(* :serialize.                                                             *)

write_serialize_length(n) == uint32(n)

(* true is written as -1, a byte with all bits set.                        *)
write_serialize_builtin(type, v) ==
    CASE Base(type) = "string" -> write_serialize_length(Len(Encode(v))) \o Encode(v)
      [] Base(type) = "bool" -> <<IF v THEN 255 ELSE 0>>
      [] Base(type) \in {"time", "duration"} -> v[1].bytes \o v[2].bytes
      [] OTHER -> v.bytes

RECURSIVE write_serialize(_, _, _)

(* An array of strings is written with its length even when that is fixed. *)
write_serialize_field(ctx, type, v) ==
    LET item(w) == IF is_builtin(type.parts) THEN write_serialize_builtin(type, w)
                   ELSE write_serialize(ctx, FieldsOf(ctx, type), w)
        counted == ~HasLength(type) \/ Base(type) = "string"
    IN  IF ~IsArray(type) THEN item(v)
        ELSE (IF counted THEN write_serialize_length(Len(v)) ELSE <<>>) \o Each(v, item)

write_serialize(ctx, fields, v) ==
    FlattenSeq([i \in DOMAIN fields |-> write_serialize_field(ctx, fields[i].type, v[i])])

serialize(ctx, type, v) == write_serialize(ctx, FieldsOf(ctx, type), v)

-----------------------------------------------------------------------------
(* :serialization-length, with which the stream is made and with which     *)
(* :deserialize goes on after an embedded message. That of an array of     *)
(* strings with a fixed length is an error: + is applied to a number.      *)

write_builtin_length(type, v) ==
    CASE Base(type) \in {"int8", "uint8", "bool", "byte", "char"} -> 1
      [] Base(type) \in {"int16", "uint16"} -> 2
      [] Base(type) \in {"int32", "uint32", "float32"} -> 4
      [] Base(type) = "string" -> 4 + Len(Encode(v))
      [] OTHER -> 8

RECURSIVE write_serialization_length(_, _, _)
write_serialization_length(ctx, fields, v) ==
    Sum([i \in DOMAIN fields |->
        LET t == fields[i].type
            item(w) == IF is_builtin(t.parts) THEN write_builtin_length(t, w)
                       ELSE write_serialization_length(ctx, FieldsOf(ctx, t), w)
        IN  IF ~IsArray(t) THEN item(v[i])
            ELSE IF HasLength(t) /\ is_builtin(t.parts)
            THEN write_builtin_length(t, <<>>) * t.dims[1]
            ELSE (IF HasLength(t) THEN 0 ELSE 4) + Sum([j \in DOMAIN v[i] |-> item(v[i][j])])])

-----------------------------------------------------------------------------
(* :deserialize into a new object, whose arrays of fixed length have it.   *)

(* A signed byte is converted to -128..127.                                *)
write_deserialize_bits(base, bytes) ==
    Map(Advance(bytes, Width(base)),
        LAMBDA b: Number(Last(b) >= 128 /\ (Len(b) > 1 \/ is_signed_int(base)), b))

write_deserialize_length(bytes) == ReadCount(bytes)

write_deserialize_builtin(type, bytes) ==
    LET base == Base(type)
        n == write_deserialize_length(bytes)
    IN  CASE base = "string" -> IF ~n.ok THEN n
                                ELSE Map(Advance(n.rest, n.val), LAMBDA b: Decode(b).val)
          [] base = "bool" -> ReadBool(bytes)
          [] base \in {"time", "duration"} ->
               ReadAll(2, LAMBDA i, b: write_deserialize_bits("int32", b), bytes)
          [] base \in {"float32", "float64"} ->
               Map(Advance(bytes, Width(base)), LAMBDA b: Number(FALSE, b))
          [] OTHER -> write_deserialize_bits(base, bytes)

(* After an embedded message the pointer moves on by its length.           *)
RECURSIVE write_deserialize(_, _, _)
Embedded(ctx, type, bytes) ==
    LET r == write_deserialize(ctx, FieldsOf(ctx, type), bytes)
    IN  IF ~r.ok THEN r
        ELSE LET n == write_serialization_length(ctx, FieldsOf(ctx, type), r.val)
             IN  Done(r.val, SubSeq(bytes, n + 1, Len(bytes)))

write_deserialize_field(ctx, type, bytes) ==
    LET item(b) == IF is_builtin(type.parts) THEN write_deserialize_builtin(type, b)
                   ELSE Embedded(ctx, Element(type), b)
        n == IF HasLength(type) THEN Done(type.dims[1], bytes) ELSE write_deserialize_length(bytes)
    IN  IF ~IsArray(type) THEN item(bytes)
        ELSE IF ~n.ok THEN n
        ELSE ReadAll(n.val, LAMBDA i, b: item(b), n.rest)

write_deserialize(ctx, fields, bytes) ==
    ReadAll(Len(fields), LAMBDA i, b: write_deserialize_field(ctx, fields[i].type, b), bytes)

deserialize(ctx, type, bytes) == write_deserialize(ctx, FieldsOf(ctx, type), bytes)

-----------------------------------------------------------------------------
(* :init.                                                                  *)

lisp_initvalue(base) ==
    CASE base = "bool" -> FALSE
      [] base = "string" -> <<>>
      [] base \in {"time", "duration"} -> <<Number(FALSE, <<0, 0, 0, 0>>), Number(FALSE, <<0, 0, 0, 0>>)>>
      [] OTHER -> Number(FALSE, [i \in 1..Width(base) |-> 0])

Copies(type, one) == [i \in 1..(IF HasLength(type) THEN type.dims[1] ELSE 0) |-> one]
field_initvalue(type) ==
    IF IsArray(type) THEN Copies(type, lisp_initvalue(Base(type))) ELSE lisp_initvalue(Base(type))

RECURSIVE write_slot_argument(_, _)
NewMessage(ctx, type) ==
    [i \in DOMAIN FieldsOf(ctx, type) |-> write_slot_argument(ctx, FieldsOf(ctx, type)[i].type)]

(* A mutant: an array of messages starts empty.                            *)
NoLength(ctx, type) ==
    IF is_builtin(type.parts) THEN field_initvalue(type)
    ELSE IF IsArray(type) THEN <<>> ELSE NewMessage(ctx, type)

write_slot_argument(ctx, type) ==
    IF is_builtin(type.parts) THEN field_initvalue(type)
    ELSE IF IsArray(type) THEN Copies(type, NewMessage(ctx, type)) ELSE NewMessage(ctx, type)

-----------------------------------------------------------------------------
(* The definition, with backslashes and double quotes escaped and every    *)
(* line ended, and the value of a string constant, where only the quotes   *)
(* are escaped.                                                            *)
write_message_definition(text) ==
    FlattenSeq([i \in DOMAIN text |-> IF text[i] \in {"bs", "dq"} THEN <<"bs", text[i]>> ELSE <<text[i]>>])
    \o <<"nl">>

write_constants(val) ==
    FlattenSeq([i \in DOMAIN val |-> IF val[i] = "dq" THEN <<"bs", "dq">> ELSE <<val[i]>>])
=============================================================================
