------------------------------- MODULE GenPy -------------------------------
(* genpy: what the Python class generated for a message does. The          *)
(* generator writes the code of serialize and deserialize as a list of     *)
(* steps; an operator stands here for the steps written for one kind of    *)
(* field and gives what they put into the buffer or take from it.          *)
EXTENDS Wire

CONSTANTS _max_chunk,   \* fields packed by one call of struct (255 in the code)
          ReservedNames \* keyword.kwlist and self

(* base.py, and what the struct module knows of the letters.               *)
SIMPLE_TYPES_DICT ==
    [int8 |-> "b", uint8 |-> "B", bool |-> "B", int16 |-> "h", uint16 |-> "H",
     int32 |-> "i", uint32 |-> "I", int64 |-> "q", uint64 |-> "Q",
     float32 |-> "f", float64 |-> "d", char |-> "B", byte |-> "b"]
is_simple(type) == type.dims = <<>> /\ Len(type.parts) = 1
                   /\ type.parts[1] \in DOMAIN SIMPLE_TYPES_DICT
StructSize == [b |-> 1, B |-> 1, h |-> 2, H |-> 2, i |-> 4, I |-> 4,
               q |-> 8, Q |-> 8, f |-> 4, d |-> 8]

Bytes(ok, bytes) == [ok |-> ok, bytes |-> bytes]
Concat(parts) == Bytes(\A i \in DOMAIN parts: parts[i].ok,
                       FlattenSeq([i \in DOMAIN parts |-> parts[i].bytes]))

-----------------------------------------------------------------------------
(* generate_struct.py: patterns as sequences of characters.                *)

RECURSIVE Decimal(_)
Decimal(n) == IF n < 10 THEN <<ToString(n)>> ELSE Decimal(n \div 10) \o <<ToString(n % 10)>>

compute_struct_pattern(types) == [i \in DOMAIN types |-> SIMPLE_TYPES_DICT[Base(types[i])]]

(* Equal letters that follow each other become a count and the letter.     *)
(* range(0, 9) leaves out the digit 9, which is counted like a letter.     *)
nums == {"0", "1", "2", "3", "4", "5", "6", "7", "8"}
RunOf(acc) == (IF acc.count > 1 THEN Decimal(acc.count) ELSE <<>>) \o <<acc.prev>>

(* A mutant: digits are counted like letters.                              *)
CountsDigits(pattern) ==
    LET step(acc, c) == IF c = acc.prev THEN [acc EXCEPT !.count = @ + 1]
                        ELSE [prev |-> c, count |-> 1, out |-> acc.out \o RunOf(acc)]
        last == FoldLeft(step, [prev |-> Head(pattern), count |-> 1, out |-> <<>>], Tail(pattern))
    IN  IF Len(pattern) < 2 THEN pattern ELSE last.out \o RunOf(last)

reduce_pattern(pattern) ==
    LET step(acc, c) == IF c = acc.prev /\ c \notin nums THEN [acc EXCEPT !.count = @ + 1]
                        ELSE [prev |-> c, count |-> 1, out |-> acc.out \o RunOf(acc)]
        last == FoldLeft(step, [prev |-> Head(pattern), count |-> 1, out |-> <<>>], Tail(pattern))
    IN  IF Len(pattern) < 2 THEN pattern ELSE last.out \o RunOf(last)

(* The items that the struct module makes of a pattern: a letter and a     *)
(* size; with "s" the count is the size of one item.                       *)
DigitValue == [c \in {"0", "1", "2", "3", "4", "5", "6", "7", "8", "9"} |->
                 CHOOSE n \in 0..9: ToString(n) = c]
Items(pattern) ==
    LET step(acc, c) ==
            IF c \in DOMAIN DigitValue
            THEN [acc EXCEPT !.n = (IF @ = -1 THEN 0 ELSE 10 * @) + DigitValue[c]]
            ELSE LET n == IF acc.n = -1 THEN 1 ELSE acc.n
                 IN  [n |-> -1,
                      out |-> acc.out \o (IF c = "s" THEN <<[letter |-> c, size |-> n]>>
                                          ELSE [i \in 1..n |-> [letter |-> c,
                                                                size |-> StructSize[c]]])]
    IN  FoldLeft(step, [n |-> -1, out |-> <<>>], pattern).out

SizeOf(items) == FoldLeft(LAMBDA sum, item: sum + item.size, 0, items)
calcsize(pattern) == SizeOf(Items(pattern))

(* struct refuses a wrong number of values and values out of range; an "s" *)
(* item is cut or filled with zeros.                                       *)
PackItem(item, v) ==
    IF item.letter = "s"
    THEN Bytes(TRUE, [i \in 1..item.size |-> IF i \in DOMAIN v THEN v[i].bytes[1] ELSE 0])
    ELSE LET signed == item.letter \in {"b", "h", "i", "q"}
             fits == item.letter \in {"f", "d"} \/ v.neg = (signed /\ Last(v.bytes) >= 128)
         IN  Bytes(fits, v.bytes)
PackItems(items, vals) ==
    IF Len(items) # Len(vals) THEN Bytes(FALSE, <<>>)
    ELSE Concat([i \in DOMAIN items |-> PackItem(items[i], vals[i])])
StructPack(pattern, vals) == PackItems(Items(pattern), vals)
UnpackItem(item, bytes) ==
    IF item.letter = "s" THEN [i \in DOMAIN bytes |-> Number(FALSE, <<bytes[i]>>)]
    ELSE Number(item.letter \in {"b", "h", "i", "q"} /\ Last(bytes) >= 128, bytes)
UnpackItems(items, slice) ==
    LET start(i) == SizeOf(SubSeq(items, 1, i - 1))
    IN  IF Len(slice) # SizeOf(items) THEN Refused(slice)
        ELSE Done([i \in DOMAIN items |->
                     UnpackItem(items[i], SubSeq(slice, start(i) + 1, start(i) + items[i].size))],
                  <<>>)
StructUnpack(pattern, slice) == UnpackItems(Items(pattern), slice)

pack(pattern, vals) == StructPack(reduce_pattern(pattern), vals)
pack2(pattern, vals) == StructPack(pattern, vals)

(* str[start:end]: what there is, when there is less.                      *)
Slice(bytes, n) == SubSeq(bytes, 1, IF n < Len(bytes) THEN n ELSE Len(bytes))
After(bytes, n) == SubSeq(bytes, n + 1, Len(bytes))

unpack(pattern, size, bytes) ==
    [StructUnpack(reduce_pattern(pattern), Slice(bytes, size)) EXCEPT !.rest = After(bytes, size)]
unpack2(pattern, bytes) ==
    LET size == calcsize(pattern)
    IN  [StructUnpack(pattern, Slice(bytes, size)) EXCEPT !.rest = After(bytes, size)]

-----------------------------------------------------------------------------
(* Names. A flattened field has the path to it, by position and by name.   *)

Leaf(path, names, type) == [path |-> path, names |-> names, type |-> type]
Unflattened(fields) == [i \in DOMAIN fields |-> Leaf(<<i>>, <<fields[i].name>>, fields[i].type)]

RECURSIVE flatten(_, _)
flatten(ctx, fields) ==
    FlattenSeq([i \in DOMAIN fields |->
        LET f == fields[i]
            inner == flatten(ctx, FieldsOf(ctx, f.type))
        IN  IF ~parse_type(f.type).is_array /\ is_registered(ctx, f.type.parts)
            THEN [j \in DOMAIN inner |->
                    Leaf(<<i>> \o inner[j].path, <<f.name>> \o inner[j].names, inner[j].type)]
            ELSE <<Leaf(<<i>>, <<f.name>>, f.type)>>])

Safe(name) == IF name \in ReservedNames THEN name \o "_" ELSE name

(* Of a dotted name only the last part is remapped.                        *)
_remap_reserved(names) == SubSeq(names, 1, Len(names) - 1) \o <<Safe(Last(names))>>

(* msg_generator makes the names of the message itself safe first, the     *)
(* serializers then flatten it and make the dotted names safe.             *)
make_python_safe(fields) ==
    [i \in DOMAIN fields |-> [fields[i] EXCEPT !.name = _remap_reserved(<<@>>)[1]]]
SerializedNames(ctx, fields) ==
    LET flat == flatten(ctx, make_python_safe(fields))
    IN  [i \in DOMAIN flat |-> _remap_reserved(flat[i].names)]

(* The types on the way to a field, and the slots their classes have.      *)
Slots(fields) == {make_python_safe(fields)[i].name: i \in DOMAIN fields}
RECURSIVE Resolves(_, _, _)
Resolves(ctx, fields, names) ==
    /\ names[1] \in Slots(fields)
    /\ Len(names) = 1
       \/ LET f == CHOOSE f \in ToSet(fields): Safe(f.name) = names[1]
          IN  Resolves(ctx, FieldsOf(ctx, f.type), Tail(names))

-----------------------------------------------------------------------------
(* serialize().                                                            *)

At(v, path) == FoldLeft(LAMBDA w, i: w[i], v, path)
AsNumber(type, v) == IF Base(type) = "bool" THEN Number(FALSE, <<IF v THEN 1 ELSE 0>>) ELSE v
FromNumber(type, v) == IF Base(type) = "bool" THEN v.bytes # <<0>> ELSE v

len_serializer(n) == Bytes(TRUE, uint32(n))

(* Strings, and arrays of uint8 and char, which are strings of bytes.      *)
string_serializer(type, v) ==
    IF Base(type) \in {"uint8", "char"}
    THEN IF IsFixedArray(type) THEN pack(Decimal(type.dims[1]) \o <<"s">>, <<v>>)
         ELSE Concat(<<len_serializer(Len(v)), pack2(Decimal(Len(v)) \o <<"s">>, <<v>>)>>)
    ELSE Concat(<<len_serializer(Len(Encode(v))), Bytes(TRUE, Encode(v))>>)

simple_serializer(fs, v) ==
    pack(compute_struct_pattern([i \in DOMAIN fs |-> fs[i].type]),
         [i \in DOMAIN fs |-> AsNumber(fs[i].type, At(v, fs[i].path))])

(* serializer_generator: simple fields next to each other, up to           *)
(* _max_chunk of them, are packed together.                                *)
RECURSIVE Chunks(_)
Chunks(fs) ==
    IF fs = <<>> THEN <<>>
    ELSE LET together == {k \in 1.._max_chunk: k <= Len(fs)
                                               /\ \A i \in 1..k: is_simple(fs[i].type)}
             n == IF together = {} THEN 1 ELSE Max(together)
         IN  <<SubSeq(fs, 1, n)>> \o Chunks(SubSeq(fs, n + 1, Len(fs)))

RECURSIVE serializer_generator(_, _, _), array_serializer(_, _, _)
array_serializer(ctx, type, v) ==
    LET element == Element(type)
        pattern == Decimal(IF IsFixedArray(type) THEN type.dims[1] ELSE Len(v))
                   \o compute_struct_pattern(<<element>>)
        vals == [i \in DOMAIN v |-> AsNumber(element, v[i])]
        items == IF is_simple(element)
                 THEN IF IsFixedArray(type) THEN pack(pattern, vals) ELSE pack2(pattern, vals)
                 ELSE Concat([i \in DOMAIN v |->
                        IF Base(type) = "string" THEN string_serializer(element, v[i])
                        ELSE serializer_generator(ctx, Unflattened(FieldsOf(ctx, element)), v[i])])
    IN  IF Base(type) \in {"char", "uint8"} THEN string_serializer(type, v)
        ELSE IF IsFixedArray(type) THEN items
        ELSE Concat(<<len_serializer(Len(v)), items>>)

complex_serializer(ctx, f, v) ==
    IF IsArray(f.type) THEN array_serializer(ctx, f.type, At(v, f.path))
    ELSE IF Base(f.type) = "string" THEN string_serializer(f.type, At(v, f.path))
    ELSE serializer_generator(ctx, Unflattened(FieldsOf(ctx, f.type)), At(v, f.path))

serializer_generator(ctx, fs, v) ==
    LET chunks == Chunks(fs)
    IN  Concat([i \in DOMAIN chunks |->
                  IF is_simple(chunks[i][1].type) THEN simple_serializer(chunks[i], v)
                  ELSE complex_serializer(ctx, chunks[i][1], v)])

serialize(ctx, type, v) == serializer_generator(ctx, flatten(ctx, FieldsOf(ctx, type)), v)

-----------------------------------------------------------------------------
(* deserialize(): the values of the flattened fields, in their order.      *)

len_deserializer(bytes) == Map(unpack2(<<"I">>, bytes), LAMBDA n: Unsigned32(n[1].bytes))

(* The slice is taken without a look at its length.                        *)
Count(type, bytes) ==
    IF IsFixedArray(type) THEN Done(type.dims[1], bytes) ELSE len_deserializer(bytes)
Characters(type, n, slice) ==
    IF ~n.ok THEN n
    ELSE IF Base(type) \in {"uint8", "char"}
    THEN Done([i \in DOMAIN slice |-> Number(FALSE, <<slice[i]>>)], After(n.rest, n.val))
    ELSE IF Decode(slice).ok THEN Done(Decode(slice).val, After(n.rest, n.val))
    ELSE Refused(slice)
SliceOf(type, n) == Characters(type, n, Slice(n.rest, n.val))
string_deserializer(type, bytes) == SliceOf(type, Count(type, bytes))

simple_deserializer(fs, bytes) ==
    LET pattern == compute_struct_pattern([i \in DOMAIN fs |-> fs[i].type])
    IN  Map(unpack(pattern, calcsize(reduce_pattern(pattern)), bytes),
            LAMBDA vals: [i \in DOMAIN fs |-> FromNumber(fs[i].type, vals[i])])

RECURSIVE deserializer_generator(_, _, _)
(* The elements of an array of bool are what map(bool, ...) yields.        *)
Elements(ctx, type, n) ==
    LET element == Element(type)
        pattern == Decimal(n.val) \o compute_struct_pattern(<<element>>)
        vals == IF IsFixedArray(type) THEN unpack(pattern, calcsize(pattern), n.rest)
                ELSE unpack2(pattern, n.rest)
        read(i, b) == IF Base(type) = "string" THEN string_deserializer(element, b)
                      ELSE deserializer_generator(ctx, Unflattened(FieldsOf(ctx, element)), b)
    IN  IF ~n.ok THEN n
        ELSE IF is_simple(element)
        THEN Map(vals, LAMBDA vs: [i \in DOMAIN vs |-> FromNumber(element, vs[i])])
        ELSE ReadAll(n.val, read, n.rest)
array_deserializer(ctx, type, bytes) ==
    IF Base(type) \in {"char", "uint8"} THEN string_deserializer(type, bytes)
    ELSE Elements(ctx, type, Count(type, bytes))

complex_deserializer(ctx, f, bytes) ==
    IF IsArray(f.type) THEN array_deserializer(ctx, f.type, bytes)
    ELSE IF Base(f.type) = "string" THEN string_deserializer(f.type, bytes)
    ELSE deserializer_generator(ctx, Unflattened(FieldsOf(ctx, f.type)), bytes)

deserializer_generator(ctx, fs, bytes) ==
    LET chunks == Chunks(fs)
        one(i, b) == IF is_simple(chunks[i][1].type) THEN simple_deserializer(chunks[i], b)
                     ELSE Map(complex_deserializer(ctx, chunks[i][1], b), LAMBDA v: <<v>>)
    IN  Map(ReadAll(Len(chunks), one, bytes), LAMBDA parts: FlattenSeq(parts))

(* The code after the deserialization makes the time or duration that a    *)
(* field of the message itself has canonical, and leaves those inside      *)
(* embedded messages and arrays as they came: nanoseconds from 10^9 on     *)
(* (the bytes 0, 202, 154, 59), and negative ones, are carried over.       *)
Below(a, b) == \E i \in DOMAIN a: a[i] < b[i] /\ \A j \in DOMAIN a: j > i => a[j] = b[j]
Canonical(nsecs) == ~nsecs.neg /\ Below(nsecs.bytes, <<0, 202, 154, 59>>)
Canon(secs, nsecs, part) ==
    IF Canonical(nsecs) THEN <<secs, nsecs>>[part]
    ELSE [secs |-> secs, nsecs |-> nsecs, part |-> part]

is_special(type) == type.parts = HEADER \/ Base(type) \in {"time", "duration"}
compute_post_deserialize(type) ==
    IF is_special(type) /\ ~IsArray(type) /\ type.parts # HEADER THEN "canon" ELSE "none"

PostDeserialized(fields, flat, vals) ==
    [i \in DOMAIN flat |->
        LET p == flat[i].path
        IN  IF compute_post_deserialize(fields[p[1]].type) = "none" THEN vals[i]
            ELSE IF p[2] = 1 THEN Canon(vals[i], vals[i + 1], 1) ELSE Canon(vals[i - 1], vals[i], 2)]

deserialize(ctx, type, bytes) ==
    LET fields == FieldsOf(ctx, type)
        flat == flatten(ctx, fields)
    IN  Map(deserializer_generator(ctx, flat, bytes),
            LAMBDA vals: PostDeserialized(fields, flat, vals))

-----------------------------------------------------------------------------
(* The constructor.                                                        *)

RECURSIVE default_value(_, _)
default_value(ctx, type) ==
    IF IsArray(type)
    THEN [i \in 1..(IF IsFixedArray(type) THEN type.dims[1] ELSE 0) |->
            default_value(ctx, Element(type))]
    ELSE IF Base(type) = "string" THEN <<>>
    ELSE IF Base(type) = "bool" THEN FALSE
    ELSE IF is_simple(type) THEN Number(FALSE, [i \in 1..Width(Base(type)) |-> 0])
    ELSE [i \in DOMAIN FieldsOf(ctx, type) |-> default_value(ctx, FieldsOf(ctx, type)[i].type)]

(* The packages whose msg module the generated code imports and names.     *)
compute_pkg_type(package, parts) == IF Len(parts) = 1 THEN <<package>> \o parts ELSE parts

RECURSIVE compute_import(_, _, _)
compute_import(ctx, package, type) ==
    LET full == compute_pkg_type(package, type.parts)
    IN  IF is_builtin(type.parts)
        THEN IF Base(type) \in {"time", "duration"} THEN {"genpy"} ELSE {}
        ELSE IF ~is_registered(ctx, full) THEN {}
        ELSE {full[1]} \cup UNION {compute_import(ctx, package, ctx.reg[full].fields[i].type):
                                     i \in DOMAIN ctx.reg[full].fields}

compute_constructor(package, type) == compute_pkg_type(package, type.parts)[1]

(* msg_generator imports for every field; the code names the class of a    *)
(* field in the constructor, and the classes of array elements, however    *)
(* deep, in deserialize().                                                 *)
Imports(ctx, package, fields) ==
    UNION {compute_import(ctx, package, fields[i].type): i \in DOMAIN fields}
RECURSIVE ElementClasses(_, _)
ElementClasses(ctx, fields) ==
    UNION {LET t == fields[i].type
               inner == ElementClasses(ctx, FieldsOf(ctx, t))
           IN  IF is_builtin(t.parts) THEN {}
               ELSE IF IsArray(t) THEN {Element(t)} \cup inner ELSE inner: i \in DOMAIN fields}
NamedClasses(ctx, package, fields) ==
    {compute_pkg_type(package, t.parts):
       t \in {Element(fields[i].type): i \in {j \in DOMAIN fields:
                                                ~is_builtin(fields[j].type.parts)}}
             \cup ElementClasses(ctx, fields)}
Named(ctx, package, fields) == {c[1]: c \in NamedClasses(ctx, package, fields)}

-----------------------------------------------------------------------------
(* Pseudo-constants: the literal that is written for a string, and what    *)
(* Python reads in it. The characters are x, the two quotes and the        *)
(* backslash. In a raw literal nothing is interpreted, and the last        *)
(* character cannot be a backslash; in a plain one a backslash before x is *)
(* taken for an escape.                                                    *)
Escaped(val) == FlattenSeq([i \in DOMAIN val |-> IF val[i] \in {"bs", "dq"} THEN <<"bs", val[i]>>
                                                 ELSE <<val[i]>>])

string_literal(val) ==
    LET has == ToSet(val)
    IN  IF {"dq", "sq"} \subseteq has THEN [raw |-> FALSE, quote |-> "dq", body |-> Escaped(val)]
        ELSE IF "dq" \in has THEN [raw |-> TRUE, quote |-> "sq", body |-> val]
        ELSE IF "sq" \in has THEN [raw |-> TRUE, quote |-> "dq", body |-> val]
        ELSE [raw |-> FALSE, quote |-> "sq", body |-> val]

(* The full text, which is written between triple double quotes: every     *)
(* triple inside it is escaped, and then a last double quote that is not.  *)
DQ3 == <<"dq", "dq", "dq">>
RECURSIVE EscapeTriples(_)
EscapeTriples(text) ==
    IF text = <<>> THEN <<>>
    ELSE IF IsPrefix(DQ3, text)
    THEN <<"bs", "dq", "bs", "dq", "bs", "dq">> \o EscapeTriples(SubSeq(text, 4, Len(text)))
    ELSE <<text[1]>> \o EscapeTriples(Tail(text))

(* A mutant: the last double quote is left as it is.                       *)
EscapeOnlyTriples(text) == EscapeTriples(text)

compute_full_text_escaped(text) ==
    LET full == EscapeTriples(text)
    IN  IF IsSuffix(<<"dq">>, full) /\ ~IsSuffix(<<"bs", "dq">>, full)
        THEN SubSeq(full, 1, Len(full) - 1) \o <<"bs", "dq">> ELSE full

RECURSIVE Literal(_, _)
Literal(quote, body) ==
    IF body = <<>> THEN [ok |-> TRUE, val |-> <<>>]
    ELSE LET escape == body[1] = "bs"
             used == IF escape THEN 2 ELSE 1
             rest == Literal(quote, SubSeq(body, used + 1, Len(body)))
             multiline == quote = "none"
         IN  IF \/ body[1] = quote \/ (body[1] = "nl" /\ ~multiline)
                \/ escape /\ (Len(body) = 1 \/ body[2] = "x")
             THEN [ok |-> FALSE, val |-> <<>>]
             ELSE [ok |-> rest.ok,
                   val |-> <<IF escape /\ body[2] = "n" THEN "nl" ELSE body[used]>> \o rest.val]
TripleQuoted(body) ==
    LET plain(i) == body[i] = "dq" /\ (i = 1 \/ body[i - 1] # "bs")
        ends == \/ body # <<>> /\ plain(Len(body))
                \/ \E i \in 1..(Len(body) - 2): \A j \in i..(i + 2): plain(j)
    IN  IF ends THEN [ok |-> FALSE, val |-> <<>>] ELSE Literal("none", body)
LiteralValue(lit) ==
    IF lit.raw THEN [ok |-> lit.quote \notin ToSet(lit.body)
                            /\ (lit.body = <<>> \/ Last(lit.body) # "bs"), val |-> lit.body]
    ELSE Literal(lit.quote, lit.body)
=============================================================================
