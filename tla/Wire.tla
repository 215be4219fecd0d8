-------------------------------- MODULE Wire --------------------------------
(* The form of messages on the wire, as roscpp_serialization writes and    *)
(* reads it: what the generated code of every language has to agree with.  *)
(*                                                                         *)
(* A number is its sign and its bytes, least significant first, a string   *)
(* the sequence of its characters, an array the sequence of its elements,  *)
(* and a message the sequence of the values of its fields; time and        *)
(* duration are messages of two fields. A reader returns whether it        *)
(* succeeded, what it read and what is left.                               *)
EXTENDS MsgSpec

Number(neg, bytes) == [neg |-> neg, bytes |-> bytes]
SignedTypes == {"int8", "int16", "int32", "int64", "byte"}
FloatBytes == [float32 |-> 4, float64 |-> 8]
Width(base) == IF base = "bool" THEN 1
               ELSE IF base \in DOMAIN FloatBytes THEN FloatBytes[base]
               ELSE IntegerBits[base] \div 8

Base(type) == type.parts[1]
Element(type) == Type(type.parts, <<>>)
IsArray(type) == type.dims # <<>>
IsFixedArray(type) == IsArray(type) /\ type.dims[1] # -1
IsMessage(type) == ~is_builtin(type.parts) \/ Base(type) \in {"time", "duration"}
FieldsOf(ctx, type) == ctx.reg[type.parts].fields

uint32(n) == <<n % 256, (n \div 256) % 256, (n \div 65536) % 256, n \div 16777216>>

(* The two characters of the samples, in UTF-8 and as character codes.     *)
Utf8(char) == IF char = "a" THEN <<97>> ELSE <<195, 169>>
CharCode(char) == IF char = "a" THEN 97 ELSE 233
Encode(string) == FlattenSeq([i \in DOMAIN string |-> Utf8(string[i])])

RECURSIVE Decode(_)
Decode(bytes) ==
    IF bytes = <<>> THEN [ok |-> TRUE, val |-> <<>>]
    ELSE LET one == IsPrefix(<<97>>, bytes)
             two == IsPrefix(<<195, 169>>, bytes)
             rest == Decode(SubSeq(bytes, IF one THEN 2 ELSE 3, Len(bytes)))
         IN  IF ~one /\ ~two THEN [ok |-> FALSE, val |-> <<>>]
             ELSE [ok |-> rest.ok, val |-> <<IF one THEN "a" ELSE "eacute">> \o rest.val]

-----------------------------------------------------------------------------
(* Readers.                                                                *)

Refused(bytes) == [ok |-> FALSE, val |-> <<>>, rest |-> bytes]
Done(val, bytes) == [ok |-> TRUE, val |-> val, rest |-> bytes]

(* Stream::advance refuses to go past the end of the buffer.               *)
Advance(bytes, n) ==
    IF Len(bytes) < n THEN Refused(bytes)
    ELSE Done(SubSeq(bytes, 1, n), SubSeq(bytes, n + 1, Len(bytes)))

Unsigned32(b) == IF b[4] > 63 THEN 2^30 ELSE b[1] + 256 * b[2] + 65536 * b[3] + 16777216 * b[4]
ReadCount(bytes) ==
    LET r == Advance(bytes, 4)
    IN  IF r.ok THEN Done(Unsigned32(r.val), r.rest) ELSE r

Map(r, f(_)) == IF r.ok THEN Done(f(r.val), r.rest) ELSE r
ReadNumber(base, bytes) ==
    Map(Advance(bytes, Width(base)),
        LAMBDA b: Number(base \in SignedTypes /\ Last(b) >= 128, b))
ReadBool(bytes) == Map(Advance(bytes, 1), LAMBDA b: b[1] # 0)

(* Items read one after the other, the i-th with reader(i, bytes).         *)
ReadAll(n, reader(_, _), bytes) ==
    LET upTo[i \in 0..n] ==
            IF i = 0 THEN Done(<<>>, bytes)
            ELSE LET r == upTo[i - 1]
                     item == reader(i, r.rest)
                 IN  IF ~r.ok THEN r
                     ELSE IF ~item.ok THEN item
                     ELSE Done(Append(r.val, item.val), item.rest)
    IN  upTo[n]

-----------------------------------------------------------------------------
(* roscpp: Serializer, VectorSerializer and ArraySerializer; the messages  *)
(* give their fields to the stream in the order of the definition.         *)

RECURSIVE Write(_, _, _)
Write(ctx, type, v) ==
    IF IsArray(type)
    THEN (IF IsFixedArray(type) THEN <<>> ELSE uint32(Len(v)))
         \o FlattenSeq([i \in DOMAIN v |-> Write(ctx, Element(type), v[i])])
    ELSE IF IsMessage(type)
    THEN LET fields == FieldsOf(ctx, type)
         IN  FlattenSeq([i \in DOMAIN fields |-> Write(ctx, fields[i].type, v[i])])
    ELSE IF Base(type) = "string" THEN uint32(Len(Encode(v))) \o Encode(v)
    ELSE IF Base(type) = "bool" THEN <<IF v THEN 1 ELSE 0>>
    ELSE v.bytes

RECURSIVE Read(_, _, _)
Read(ctx, type, bytes) ==
    IF IsArray(type)
    THEN LET n == IF IsFixedArray(type) THEN Done(type.dims[1], bytes) ELSE ReadCount(bytes)
         IN  IF ~n.ok THEN n
             ELSE ReadAll(n.val, LAMBDA i, b: Read(ctx, Element(type), b), n.rest)
    ELSE IF IsMessage(type)
    THEN LET fields == FieldsOf(ctx, type)
         IN  ReadAll(Len(fields), LAMBDA i, b: Read(ctx, fields[i].type, b), bytes)
    ELSE IF Base(type) = "string"
    THEN LET n == ReadCount(bytes)
             chars == Advance(n.rest, n.val)
         IN  IF ~n.ok THEN n
             ELSE IF chars.ok /\ Decode(chars.val).ok
             THEN Done(Decode(chars.val).val, chars.rest) ELSE Refused(bytes)
    ELSE IF Base(type) = "bool" THEN ReadBool(bytes)
    ELSE ReadNumber(Base(type), bytes)

-----------------------------------------------------------------------------
(* Samples: the k-th value of a type; a plain one has ASCII characters and *)
(* no negative numbers.                                                    *)

NumberSample(base, k, plain) ==
    LET w == Width(base)
        bytes == CASE k % 4 = 0 -> [i \in 1..w |-> 0]
                   [] k % 4 = 1 -> [i \in 1..w |-> IF i = 1 THEN 1 ELSE 0]
                   [] k % 4 = 2 -> [i \in 1..w |-> IF plain /\ i = w THEN 127 ELSE 255]
                   [] OTHER -> [i \in 1..w |-> IF i = w /\ ~plain THEN 128 ELSE 7]
    IN  Number(base \in SignedTypes /\ Last(bytes) >= 128, bytes)

StringSample(k, plain) ==
    CASE k % 3 = 0 -> <<>>
      [] k % 3 = 1 -> <<"a">>
      [] OTHER -> <<"a", IF plain THEN "a" ELSE "eacute", "a">>

RECURSIVE Sample(_, _, _, _)
Sample(ctx, type, k, plain) ==
    IF IsArray(type)
    THEN [i \in 1..(IF IsFixedArray(type) THEN type.dims[1] ELSE k % 3) |->
            Sample(ctx, Element(type), k + i, plain)]
    ELSE IF IsMessage(type)
    THEN LET fields == FieldsOf(ctx, type)
         IN  [i \in DOMAIN fields |-> Sample(ctx, fields[i].type, k + i, plain)]
    ELSE IF Base(type) = "string" THEN StringSample(k, plain)
    ELSE IF Base(type) = "bool" THEN k % 2 = 1
    ELSE NumberSample(Base(type), k, plain)

(* The types a message is built from, with what it embeds.                 *)
RECURSIVE TypesIn(_, _)
TypesIn(ctx, type) ==
    {type} \cup (IF IsMessage(type)
                 THEN UNION {TypesIn(ctx, FieldsOf(ctx, type)[i].type):
                               i \in DOMAIN FieldsOf(ctx, type)}
                 ELSE {})
=============================================================================
