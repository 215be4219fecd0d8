------------------------------ MODULE GenLisp ------------------------------
(* genlisp: the methods generated for a message in Common Lisp. Reading    *)
(* goes into a new object. A time is a real number of seconds in Lisp.     *)
EXTENDS Wire

Rounded == -1   \* a byte that depends on the rounding of a time

HasLength(type) == IsFixedArray(type) /\ type.dims[1] # 0   \* "if f.array_len"
Sum(s) == FoldLeft(LAMBDA sum, n: sum + n, 0, s)
Each(v, f(_)) == FlattenSeq([i \in DOMAIN v |-> f(v[i])])

is_signed_int(base) == base \in {"int8", "int16", "int32", "int64"}
NUM_BYTES == [int8 |-> 1, int16 |-> 2, int32 |-> 4, int64 |-> 8,
              uint8 |-> 1, uint16 |-> 2, uint32 |-> 4, uint64 |-> 8]

(* The real number made of seconds and nanoseconds, the double sec plus    *)
(* the single nsec/1e9. Whole seconds are exact. All that is known of any  *)
(* other sum is that it is near: 1e9 is a single float, so nsec/1e9 keeps  *)
(* 24 bits, and nanoseconds beyond 10^9 become seconds.                    *)
Fraction == [whole |-> FALSE, secs |-> Number(FALSE, <<>>)]
Seconds(secs, nsecs) ==
    IF nsecs.bytes = <<0, 0, 0, 0>> THEN [whole |-> TRUE, secs |-> secs] ELSE Fraction

-----------------------------------------------------------------------------
(* serialize. ldb takes the low bits of a negative number as they are in   *)
(* two's complement: with and without the addition of 2^bits the bytes are *)
(* the same.                                                               *)

write_serialize_length(n) == uint32(n)
write_serialize_bits(v, n) == SubSeq(v.bytes, 1, n)
write_serialize_bits_signed(v, n) == write_serialize_bits(v, n)

(* floor(v), and round(1e9 * (v - floor(v))): of a fraction neither is the *)
(* pair it came from, the second may be 10^9.                              *)
write_serialize_time(v) ==
    IF v.whole THEN write_serialize_bits(v.secs, 4) \o <<0, 0, 0, 0>> ELSE [i \in 1..8 |-> Rounded]

(* A string is written one byte for a character, its character code.       *)
write_serialize_builtin(type, v) ==
    LET base == Base(type)
    IN  CASE base = "string" ->
               write_serialize_length(Len(v)) \o [i \in DOMAIN v |-> CharCode(v[i])]
          [] base = "float32" -> write_serialize_bits(v, 4)
          [] base = "float64" -> write_serialize_bits(v, 8)
          [] base = "bool" -> <<IF v THEN 1 ELSE 0>>
          [] base \in {"byte", "char"} -> write_serialize_bits(v, 1)
          [] base \in {"time", "duration"} -> write_serialize_time(v)
          [] is_signed_int(base) -> write_serialize_bits_signed(v, NUM_BYTES[base])
          [] OTHER -> write_serialize_bits(v, NUM_BYTES[base])

RECURSIVE write_serialize(_, _, _)
write_serialize_field(ctx, type, v) ==
    LET item(w) == IF is_builtin(type.parts) THEN write_serialize_builtin(type, w)
                   ELSE write_serialize(ctx, FieldsOf(ctx, type), w)
    IN  IF ~IsArray(type) THEN item(v)
        ELSE (IF HasLength(type) THEN <<>> ELSE write_serialize_length(Len(v))) \o Each(v, item)

write_serialize(ctx, fields, v) ==
    FlattenSeq([i \in DOMAIN fields |-> write_serialize_field(ctx, fields[i].type, v[i])])

serialize(ctx, type, v) == write_serialize(ctx, FieldsOf(ctx, type), v)

-----------------------------------------------------------------------------
(* deserialize. The end of the stream is an error of read-byte.            *)

write_deserialize_length(bytes) == ReadCount(bytes)
write_deserialize_bits(n, bytes) == Map(Advance(bytes, n), LAMBDA b: Number(FALSE, b))
write_deserialize_bits_signed(n, bytes) ==
    Map(Advance(bytes, n), LAMBDA b: Number(Last(b) >= 128, b))

Char(code) == IF code = 97 THEN "a" ELSE IF code = 233 THEN "eacute" ELSE "other"

(* byte is read like char, and the two halves of a duration like those of  *)
(* a time: without a sign.                                                 *)
write_deserialize_builtin(type, bytes) ==
    LET base == Base(type)
        n == write_deserialize_length(bytes)
    IN  CASE base = "string" ->
               IF ~n.ok THEN n
               ELSE Map(Advance(n.rest, n.val), LAMBDA b: [i \in DOMAIN b |-> Char(b[i])])
          [] base = "float32" -> write_deserialize_bits(4, bytes)
          [] base = "float64" -> write_deserialize_bits(8, bytes)
          [] base = "bool" -> ReadBool(bytes)
          [] base \in {"byte", "char"} -> write_deserialize_bits(1, bytes)
          [] base \in {"time", "duration"} ->
               Map(ReadAll(2, LAMBDA i, b: write_deserialize_bits(4, b), bytes),
                   LAMBDA p: Seconds(p[1], p[2]))
          [] is_signed_int(base) -> write_deserialize_bits_signed(NUM_BYTES[base], bytes)
          [] OTHER -> write_deserialize_bits(NUM_BYTES[base], bytes)

RECURSIVE write_deserialize(_, _, _)
write_deserialize_field(ctx, type, bytes) ==
    LET item(b) == IF is_builtin(type.parts) THEN write_deserialize_builtin(type, b)
                   ELSE write_deserialize(ctx, FieldsOf(ctx, type), b)
        n == IF HasLength(type) THEN Done(type.dims[1], bytes) ELSE write_deserialize_length(bytes)
    IN  IF ~IsArray(type) THEN item(bytes)
        ELSE IF ~n.ok THEN n
        ELSE ReadAll(n.val, LAMBDA i, b: item(b), n.rest)

write_deserialize(ctx, fields, bytes) ==
    ReadAll(Len(fields), LAMBDA i, b: write_deserialize_field(ctx, fields[i].type, b), bytes)

deserialize(ctx, type, bytes) == write_deserialize(ctx, FieldsOf(ctx, type), bytes)

-----------------------------------------------------------------------------
(* serialization-length.                                                   *)

write_builtin_length(type, v) ==
    CASE Base(type) \in {"int8", "uint8", "bool", "byte", "char"} -> 1
      [] Base(type) \in {"int16", "uint16"} -> 2
      [] Base(type) \in {"int32", "uint32", "float32"} -> 4
      [] Base(type) = "string" -> 4 + Len(v)
      [] OTHER -> 8

RECURSIVE write_serialization_length(_, _, _)
write_serialization_length(ctx, fields, v) ==
    Sum([i \in DOMAIN fields |->
        LET t == fields[i].type
            item(w) == IF is_builtin(t.parts) THEN write_builtin_length(t, w)
                       ELSE write_serialization_length(ctx, FieldsOf(ctx, t), w)
        IN  IF IsArray(t)
            THEN (IF HasLength(t) THEN 0 ELSE 4) + Sum([j \in DOMAIN v[i] |-> item(v[i][j])])
            ELSE item(v[i])])

-----------------------------------------------------------------------------
(* Initial values, and the systems a package's system depends on.          *)

lisp_initform(base) ==
    CASE base = "bool" -> FALSE
      [] base = "string" -> <<>>
      [] base \in {"time", "duration"} ->
           Seconds(Number(FALSE, <<0, 0, 0, 0>>), Number(FALSE, <<0, 0, 0, 0>>))
      [] OTHER -> Number(FALSE, [i \in 1..Width(base) |-> 0])

RECURSIVE field_initform(_, _)
field_initform(ctx, type) ==
    LET one == IF is_builtin(type.parts) THEN lisp_initform(Base(type))
               ELSE [i \in DOMAIN FieldsOf(ctx, type) |->
                       field_initform(ctx, FieldsOf(ctx, type)[i].type)]
    IN  IF ~IsArray(type) THEN one
        ELSE [i \in 1..(IF HasLength(type) THEN type.dims[1] ELSE 0) |-> one]

(* The packages of the message types of all the messages of the package,   *)
(* which generate_msg_from_spec has loaded, without the package itself.    *)
parse_msg_type(type) == type.parts[1]

(* The definition is the control string of a call of format, a directive   *)
(* for the end of every line, the last one too, and one more at the end.   *)
write_message_definition(text) ==
    LET line_end == <<"tilde", "percent">>
    IN  FlattenSeq([i \in DOMAIN text |->
            CASE text[i] \in {"bs", "dq"} -> <<"bs", text[i]>>
              [] text[i] = "tilde" -> <<"tilde", "tilde">>
              [] text[i] = "nl" -> line_end
              [] OTHER -> <<text[i]>>]) \o line_end \o line_end

(* What the Lisp reader, and then format, make of it.                      *)
RECURSIVE ReadString(_), Format(_)
ReadString(body) ==
    IF body = <<>> THEN <<>>
    ELSE IF body[1] = "dq" THEN <<"end">>
    ELSE IF body[1] = "bs" THEN <<body[2]>> \o ReadString(SubSeq(body, 3, Len(body)))
    ELSE <<body[1]>> \o ReadString(Tail(body))
Format(control) ==
    IF control = <<>> THEN <<>>
    ELSE IF control[1] # "tilde" THEN <<control[1]>> \o Format(Tail(control))
    ELSE IF IsPrefix(<<"tilde", "tilde">>, control)
    THEN <<"tilde">> \o Format(SubSeq(control, 3, Len(control)))
    ELSE IF IsPrefix(<<"tilde", "percent">>, control)
    THEN <<"nl">> \o Format(SubSeq(control, 3, Len(control)))
    ELSE <<"directive">>

write_asd(ctx, package, msgs) ==
    UNION {{parse_msg_type(f.type): f \in {g \in ToSet(ctx.reg[m].fields): ~is_builtin(g.type.parts)}}:
             m \in msgs} \ {package}
=============================================================================
