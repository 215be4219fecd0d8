----------------------------- MODULE Generators -----------------------------
(* The code that genpy, gennodejs, genlisp, geneus and gencpp generate for *)
(* a library of messages, next to each other: nodes in any of these        *)
(* languages exchange the messages, so what one writes every other reads.  *)
(*                                                                         *)
(* A case picks a message and one of its values, two messages, the text of *)
(* a string constant, an integer constant or a struct pattern.             *)
EXTENDS Wire

CONSTANTS Library,       \* the .msg files: from <<directory, base>> to text
          Samples,       \* which values are tried of every type
          Halves2,       \* pairs of types taken for the halves of services
          Lines,         \* lines of .msg files, right and wrong
          Texts,         \* string constants, as sequences of characters
          Patterns,      \* struct patterns
          Numbers,       \* integer constants
          Pairs,         \* seconds and nanoseconds of times
          Nodes,         \* nodes as they are started: environment, arguments, anonymous
          GraphNames,    \* names that nodes use
          _max_chunk, ReservedNames, Undefined, RosDepends, Second, NoTime

VARIABLE input

Py == INSTANCE PyDynamic
PT == INSTANCE PyTime
Node == INSTANCE GenNodejs
Lisp == INSTANCE GenLisp
Eus == INSTANCE GenEus
Cpp == INSTANCE GenCpp
Ros == INSTANCE RosbuildCpp
Nm == INSTANCE RosNames

-----------------------------------------------------------------------------
(* The library, loaded: every package has one directory of its name.       *)
LibEnv == [path |-> [p \in {f[1]: f \in DOMAIN Library} |-> <<p>>], fs |-> Library]
Load(full) ==
    LET loaded == load_msg_by_type(create_default, LibEnv, full)
    IN  load_depends(loaded.ctx, LibEnv, loaded.spec).ctx
Loaded ==
    [reg |-> [f \in DOMAIN Library |-> Load(f).reg[f]] @@ create_default.reg,
     dep |-> [f \in DOMAIN Library |-> Load(f).dep[f]],
     file |-> [f \in DOMAIN Library |-> f]]
Messages == {Type(f, <<>>): f \in DOMAIN Library}

NoCase == [kind |-> "none"]
Cases ==
    [kind: {"value"}, ctx: {Loaded}, type: Messages, k: Samples, plain: BOOLEAN]
    \cup [kind: {"service"}, ctx: {Loaded}, halves: Halves2, others: Halves2]
    \cup [kind: {"srv"}, ctx: {Loaded}, halves: Halves2]
    \cup [kind: {"line"}, line: Lines]
    \cup [kind: {"text"}, text: Texts]
    \cup [kind: {"pattern"}, pattern: Patterns]
    \cup [kind: {"time"}, pair: Pairs]
    \cup [kind: {"node"}, start: Nodes]
    \cup [kind: {"name"}, name: GraphNames]
    \cup [kind: {"number"}, type: DOMAIN IntegerBits, val: Numbers]

CaseInit == input = NoCase
PickCase == input = NoCase /\ input' \in Cases
CaseSpec == CaseInit /\ [][PickCase]_input

IsCase(kind) == input.kind = kind
Ctx == input.ctx
Fields == FieldsOf(Ctx, input.type)
Value == Sample(Ctx, input.type, input.k, input.plain)
OnWire == Write(Ctx, input.type, Value)

(* A constant of a .msg file is on one line.                               *)
OneLine(text) == "nl" \notin ToSet(text)

(* What the languages are known to handle differently.                     *)
Uses(P(_)) == \E t \in TypesIn(Ctx, input.type): P(t)
EmptyFixedArray(t) == IsArray(t) /\ t.dims[1] = 0
FixedStrings(t) == IsFixedArray(t) /\ Base(t) = "string"
FixedTimes(t) == IsFixedArray(t) /\ Base(t) \in {"time", "duration"}
FixedMessages(t) == IsFixedArray(t) /\ ~is_builtin(t.parts)
Signless(t) == Base(t) \in {"string", "byte", "duration"}
Wide(t) == Base(t) \in {"uint16", "uint32", "uint64", "char", "time"}

-----------------------------------------------------------------------------
(* Python writes what C++ writes and reads it back, field by field of the  *)
(* flattened message: packing neighbours together, chunk by chunk, changes *)
(* no byte; only the times of the message itself are made canonical.       *)
PyWire ==
    IsCase("value") =>
        LET flat == Py!flatten(Ctx, Fields)
            written == Py!serialize(Ctx, input.type, Value)
        IN  /\ written = Py!Bytes(TRUE, OnWire)
            /\ Py!deserialize(Ctx, input.type, OnWire)
                 = Done(Py!PostDeserialized(Fields, flat,
                            [i \in DOMAIN flat |-> Py!At(Value, flat[i].path)]), <<>>)

(* A message that was cut short is noticed (struct.error), unless it ends  *)
(* in the characters of a string or the bytes of a uint8 or char array,    *)
(* whose slice may be shorter than its length says.                        *)
RECURSIVE EndsInCharacters(_)
EndsInCharacters(type) ==
    \/ Base(type) = "string"
    \/ IsArray(type) /\ Base(type) \in {"uint8", "char"}
    \/ /\ ~is_builtin(type.parts) /\ FieldsOf(Ctx, type) # <<>>
       /\ EndsInCharacters(Last(FieldsOf(Ctx, type)).type)
PyTruncationNoticed ==
    IsCase("value") /\ ~EndsInCharacters(input.type) =>
        \A n \in 0..(Len(OnWire) - 1):
            ~Py!deserialize(Ctx, input.type, SubSeq(OnWire, 1, n)).ok

(* The compressed form of a struct pattern packs the same items: an        *)
(* optimisation, as the comment of reduce_pattern says. It is not where    *)
(* two nines meet in a count: nums ends at 8, and 99i becomes 29i.         *)
Nines(p) == \E i \in 1..(Len(p) - 1): p[i] = "9" /\ p[i + 1] = "9"
ReducePatternSound ==
    IsCase("pattern") /\ ~Nines(input.pattern) =>
        Py!Items(Py!reduce_pattern(input.pattern)) = Py!Items(input.pattern)

(* The attributes that serialize() reads exist in the classes on the way,  *)
(* whatever keywords are among the names: unless a keyword names a message *)
(* inside a message, where only the last part of the path is remapped.     *)
KeywordInside(names) == \E i \in 2..(Len(names) - 1): names[i] \in ReservedNames
PyAttributesExist ==
    IsCase("value") =>
        LET paths == Py!SerializedNames(Ctx, Fields)
        IN  \A i \in DOMAIN paths:
                KeywordInside(paths[i]) \/ Py!Resolves(Ctx, Fields, paths[i])

(* A message as the constructor of Python makes it is a message: it is     *)
(* written, and C++ reads all of it.                                       *)
PyDefaultSerializes ==
    IsCase("value") =>
        LET fresh == Py!default_value(Ctx, input.type)
            written == Py!serialize(Ctx, input.type, fresh)
        IN  written.ok /\ Read(Ctx, input.type, written.bytes) = Done(fresh, <<>>)

(* A message filled from the arguments of a command line, by position or   *)
(* by name at every level, is the value that was meant; and arguments with *)
(* arrays that are longer than the type allows are refused, however deep   *)
(* they are, or fill a message that is written and that C++ reads.         *)
RECURSIVE Args(_, _, _)
Args(type, v, byName) ==
    LET fields == Py!make_python_safe(FieldsOf(Ctx, type))
        arg(i) == Args(fields[i].type, v[i], byName)
        index(name) == CHOOSE i \in DOMAIN fields: fields[i].name = name
    IN  IF IsArray(type) /\ Base(type) \notin PRIMITIVE_TYPES
        THEN Py!List([i \in DOMAIN v |-> Args(Element(type), v[i], byName)])
        ELSE IF IsArray(type) /\ ~Py!IsBytes(type) THEN Py!List(v)
        ELSE IF IsArray(type) \/ ~IsMessage(type) THEN Py!Scalar(v)
        ELSE IF byName THEN Py!Dict([name \in ToSet(Names(fields)) |-> arg(index(name))])
        ELSE Py!List([i \in DOMAIN fields |-> arg(i)])
RECURSIVE Longer(_, _)
Longer(type, v) ==
    IF IsFixedArray(type) /\ v # <<>> THEN Append(v, v[1])
    ELSE IF IsArray(type) THEN [i \in DOMAIN v |-> Longer(Element(type), v[i])]
    ELSE IF IsMessage(type)
    THEN [i \in DOMAIN v |-> Longer(FieldsOf(Ctx, type)[i].type, v[i])]
    ELSE v
PyFillsMessage ==
    IsCase("value") =>
        \A byName \in BOOLEAN, v \in {Value, Longer(input.type, Value)}:
            LET args == Args(input.type, v, byName)
                filled == Py!fill_message_args(Ctx, input.type, Py!default_value(Ctx, input.type),
                                               IF byName THEN <<args>> ELSE args.val)
                written == Py!serialize(Ctx, input.type, filled.val)
            IN  /\ v = Value => filled = Py!Filled(Value)
                /\ filled.ok /\ ~Uses(Py!IsBytes) =>
                      written.ok /\ Read(Ctx, input.type, written.bytes) = Done(filled.val, <<>>)

(* The constructor takes all the fields by position or any of them by      *)
(* name, and what it makes of right values is written and read by C++: no  *)
(* field is left at None.                                                  *)
PyConstructed ==
    IsCase("value") =>
        LET fields == Py!make_python_safe(Fields)
            some == {i \in DOMAIN fields: (i + input.k) % 2 = 0}
            index(name) == CHOOSE i \in DOMAIN fields: fields[i].name = name
            named == Py!Dict([name \in {fields[i].name: i \in some} |-> Value[index(name)]])
            sound(arg) ==
                LET made == Py!Construct(Ctx, input.type, arg)
                    written == Py!serialize(Ctx, input.type, made.val)
                IN  /\ made.ok /\ written.ok
                    /\ Read(Ctx, input.type, written.bytes) = Done(made.val, <<>>)
        IN  sound(Py!List(Value)) /\ sound(named)

(* The check of the fields that explains a failed serialize() refuses what *)
(* serialize() refuses and nothing else, with a number out of range put    *)
(* anywhere into the message: outside times, and apart from what it refuses*)
(* wrongly, the least number of a type, characters beyond ASCII and arrays *)
(* of bytes.                                                               *)
RECURSIVE Spoilt(_, _)
Spoilt(type, v) ==
    IF IsArray(type)
    THEN UNION {{[v EXCEPT ![i] = w]: w \in Spoilt(Element(type), v[i])}: i \in DOMAIN v}
    ELSE IF ~is_builtin(type.parts)
    THEN UNION {{[v EXCEPT ![i] = w]: w \in Spoilt(FieldsOf(Ctx, type)[i].type, v[i])}: i \in DOMAIN v}
    ELSE IF Base(type) \in DOMAIN IntegerBits THEN {[v EXCEPT !.neg = ~@]}
    ELSE {}
RECURSIVE HasLeast(_, _)
HasLeast(type, v) ==
    IF IsArray(type) THEN \E i \in DOMAIN v: HasLeast(Element(type), v[i])
    ELSE IF ~is_builtin(type.parts)
    THEN \E i \in DOMAIN v: HasLeast(FieldsOf(Ctx, type)[i].type, v[i])
    ELSE Base(type) \in DOMAIN IntegerBits /\ Py!Least(v)
PyCheckAgrees ==
    IsCase("value") /\ ~Uses(Py!IsBytes) /\ (input.plain \/ ~Uses(Signless)) =>
        \A v \in {Value} \cup Spoilt(input.type, Value):
            ~HasLeast(input.type, v) =>
                Py!_check_types(Ctx, input.type, v) = Py!serialize(Ctx, input.type, v).ok

(* From the definition that travels with a connection alone, Python makes  *)
(* the classes of the message and of all it embeds, with the digests they  *)
(* have where the files are; the code names no class and imports no        *)
(* package from outside. It also does from a definition with the Header of *)
(* roslib, and a definition that lacks a part is refused.                  *)
Legacy(text) ==
    [i \in DOMAIN text |-> IF text[i].msg = HEADER_FULL_NAME
                           THEN [text[i] EXCEPT !.msg = Py!LegacyHeader] ELSE text[i]]
PyDynamicComplete ==
    IsCase("value") /\ input.k = 0 =>
        LET core == input.type.parts
            text == compute_full_text(Ctx, Ctx.reg[core])
            types == {text[i].msg: i \in DOMAIN text}
            own == {<<Py!_gen_dyn_name(t)>>: t \in types}
        IN  /\ \A made \in {Py!generate_dynamic(core, text), Py!generate_dynamic(core, Legacy(text))}:
                  /\ made.err = "none" /\ DOMAIN made.messages = types
                  /\ \A t \in types:
                        /\ made.messages[t].md5 = compute_md5(Ctx, Ctx.reg[t])
                        /\ made.messages[t].names \subseteq own
                        /\ made.messages[t].imports \subseteq {"genpy"}
            /\ \A i \in 2..Len(text): Py!generate_dynamic(core, RemoveAt(text, i)).err # "none"

(* The arithmetic of times is that of nanoseconds: every result is         *)
(* canonical and exact, also around zero and for negative durations, and a *)
(* time before the epoch is refused.                                       *)
Exactly(result, nsecs) == result.nsecs \in 0..(Second - 1) /\ PT!to_nsec(result) = nsecs
TimeOrRefused(result, nsecs) == IF nsecs < 0 THEN result = NoTime ELSE Exactly(result, nsecs)
Magnitude(n) == IF n < 0 THEN -n ELSE n
PyTimeArithmetic ==
    IsCase("time") =>
        LET d == PT!Duration(input.pair[1], input.pair[2])
            n == PT!to_nsec(d)
        IN  /\ Exactly(d, input.pair[1] * Second + input.pair[2])
            /\ Exactly(PT!neg(d), -n) /\ Exactly(PT!abs(d), Magnitude(n))
            /\ \A m \in -2..2: Exactly(PT!mul(d, m), m * n)
            /\ \A q \in Pairs:
                  LET e == PT!Duration(q[1], q[2])
                      t == PT!Time(q[1], q[2])
                      m == PT!to_nsec(e)
                  IN  /\ Exactly(PT!add(d, e), n + m) /\ Exactly(PT!sub(d, e), n - m)
                      /\ TimeOrRefused(t, m)
                      /\ t = NoTime \/ (/\ TimeOrRefused(PT!time_add(t, d), m + n)
                                        /\ TimeOrRefused(PT!time_sub_duration(t, d), m - n)
                                        /\ d.secs < 0 \/ Exactly(PT!time_sub_time(t, d), m - n))

(* Comparison, equality and hash of times agree with each other: of two    *)
(* canonical ones exactly one is less, or they are equal in all three.     *)
PyTimeOrder ==
    IsCase("time") =>
        \A q \in Pairs:
            LET a == PT!Duration(input.pair[1], input.pair[2])
                b == PT!Duration(q[1], q[2])
            IN  /\ PT!eq(a, b) <=> (PT!le(a, b) /\ PT!le(b, a))
                /\ PT!lt(a, b) <=> ~PT!le(b, a)
                /\ PT!lt(a, b) <=> PT!to_nsec(PT!sub(b, a)) > 0
                /\ PT!eq(a, b) => PT!hash(a) = PT!hash(b)
                /\ PT!is_zero(PT!sub(a, b)) <=> PT!eq(a, b)

(* Every package whose classes the generated Python module names is        *)
(* imported, also for messages deep inside arrays of messages.             *)
PyImportsSuffice ==
    IsCase("value") =>
        LET package == input.type.parts[1]
        IN  Py!Named(Ctx, package, Fields) \subseteq Py!Imports(Ctx, package, Fields)

(* A string constant has the value in Python that the .msg file gives it,  *)
(* whichever quotes are in it: a backslash is safe only in a literal that  *)
(* is raw or escaped.                                                      *)
PyStringConstants ==
    IsCase("text") /\ OneLine(input.text) =>
        LET t == input.text
        IN  "bs" \notin ToSet(t) \/ {"sq", "dq"} \subseteq ToSet(t)
            => Py!LiteralValue(Py!string_literal(t)) = [ok |-> TRUE, val |-> t]

-----------------------------------------------------------------------------
(* JavaScript agrees with C++ in both directions, and the buffer that is   *)
(* allocated with getMessageSize fits exactly: for strings of ASCII        *)
(* characters, and messages whose size is not computed from a fixed array  *)
(* of messages or an array of length 0.                                    *)
NodeAgrees ==
    IsCase("value") =>
        /\ Node!serialize(Ctx, input.type, Value) = Node!Bytes(TRUE, OnWire)
        /\ Node!deserialize(Ctx, input.type, OnWire) = Done(Value, <<>>)
        /\ input.plain /\ ~Uses(EmptyFixedArray) /\ ~Uses(FixedMessages)
           => Node!getMessageSize(Ctx, input.type, Value) = Len(OnWire)

(* An object with missing properties and with too short arrays of messages *)
(* is completed by Resolve to one that is written and that C++ reads: an   *)
(* array of strings or times with a fixed length excepted, whose elements  *)
(* start as 0.                                                             *)
RECURSIVE Partial(_, _, _)
Partial(type, v, k) ==
    LET fields == FieldsOf(Ctx, type)
    IN  [i \in DOMAIN fields |->
            LET t == fields[i].type
            IN  IF (k + i) % 2 = 0 THEN Undefined
                ELSE IF is_builtin(t.parts) THEN v[i]
                ELSE IF IsArray(t)
                THEN [j \in 1..(Len(v[i]) \div 2) |-> Partial(Element(t), v[i][j], k)]
                ELSE Partial(t, v[i], k)]
NodeResolved ==
    IsCase("value") /\ ~Uses(FixedStrings) /\ ~Uses(FixedTimes) =>
        LET whole == Node!write_resolve(Ctx, Fields, Partial(input.type, Value, input.k))
            written == Node!serialize(Ctx, input.type, whole)
        IN  written.ok /\ Read(Ctx, input.type, written.bytes) = Done(whole, <<>>)

(* The module of a service declares every class and package its halves     *)
(* name, none of them twice (a second let of a name is a syntax error).    *)
NodeRequiredOnce ==
    IsCase("srv") =>
        LET request == FieldsOf(Ctx, input.halves[1])
            response == FieldsOf(Ctx, input.halves[2])
            package == input.halves[1].parts[1]
            first == Node!write_requires(request, package, Node!Nothing)
            second == Node!write_requires(response, package, first)
            named == {Node!get_message_path_from_field(f.type, package):
                        f \in {g \in ToSet(request \o response): ~is_builtin(g.type.parts)}}
        IN  /\ first.packages \cap second.packages = {} /\ first.locals \cap second.locals = {}
            /\ \A p \in named:
                  p.name \in (IF p.local THEN first.locals \cup second.locals
                              ELSE first.packages \cup second.packages)

-----------------------------------------------------------------------------
(* Lisp agrees with C++ in both directions and knows the length of what it *)
(* writes: where no sign and no character beyond ASCII meets a type that   *)
(* is read without one, and without arrays of length 0. A time or a        *)
(* duration agrees when it is a whole number of seconds. With a fraction   *)
(* it is a real number near what was sent, and the bytes that are written  *)
(* of it are not said to be those of C++; their number is, and everything  *)
(* around them is in its place.                                            *)
RECURSIVE InLisp(_, _)
InLisp(type, v) ==
    IF IsArray(type) THEN [i \in DOMAIN v |-> InLisp(Element(type), v[i])]
    ELSE IF Base(type) \in {"time", "duration"} THEN Lisp!Seconds(v[1], v[2])
    ELSE IF is_builtin(type.parts) THEN v
    ELSE [i \in DOMAIN v |-> InLisp(FieldsOf(Ctx, type)[i].type, v[i])]
LispAgrees ==
    IsCase("value") /\ ~Uses(EmptyFixedArray) /\ (input.plain \/ ~Uses(Signless)) =>
        LET held == InLisp(input.type, Value)
            written == Lisp!serialize(Ctx, input.type, held)
            wire == OnWire
        IN  /\ Len(written) = Len(wire)
            /\ \A i \in DOMAIN written: written[i] \in {wire[i], Lisp!Rounded}
            /\ Lisp!deserialize(Ctx, input.type, wire) = Done(held, <<>>)
            /\ Lisp!write_serialization_length(Ctx, Fields, held) = Len(wire)

(* The system definition of a package depends on every package whose       *)
(* messages some message of the package has a field of.                    *)
LispSystemComplete ==
    IsCase("value") =>
        LET package == input.type.parts[1]
            msgs == {t.parts: t \in {u \in Messages: u.parts[1] = package}}
        IN  \A f \in ToSet(Fields):
                is_builtin(f.type.parts) \/ f.type.parts[1] = package
                \/ f.type.parts[1] \in Lisp!write_asd(Ctx, package, msgs)

(* EusLisp reads what C++ writes, going on after an embedded message by    *)
(* its computed length, and C++ reads what EusLisp writes, true included:  *)
(* without fixed arrays of strings and arrays of length 0, and with        *)
(* numbers that are positive where a type has no sign.                     *)
EusAgrees ==
    IsCase("value") /\ ~Uses(EmptyFixedArray) /\ ~Uses(FixedStrings)
    /\ (input.plain \/ ~Uses(Wide)) =>
        LET written == Eus!serialize(Ctx, input.type, Value)
        IN  /\ Eus!deserialize(Ctx, input.type, OnWire) = Done(Value, <<>>)
            /\ Read(Ctx, input.type, written) = Done(Value, <<>>)
            /\ Eus!write_serialization_length(Ctx, Fields, Value) = Len(written)

-----------------------------------------------------------------------------
(* C++: the buffer of serializeMessage has exactly the length of what is   *)
(* written into it, though arrays of messages with the trait IsFixedSize   *)
(* are measured by their first element.                                    *)
CppLengthExact ==
    IsCase("value") =>
        /\ Cpp!serializeMessage(Ctx, input.type, Value) = [ok |-> TRUE, bytes |-> uint32(Len(OnWire)) \o OnWire]
        /\ Read(Ctx, input.type, OnWire) = Done(Value, <<>>)

(* Neither constructor, with or without an allocator, leaves a number or   *)
(* the elements of an array of numbers uninitialised.                      *)
CppMembersInitialised ==
    IsCase("value") =>
        \A f \in ToSet(Fields), alloc \in BOOLEAN:
            f.type.parts[1] \in DOMAIN IntegerBits \cup {"float32", "float64", "bool"} =>
                IF IsFixedArray(f.type)
                THEN Cpp!generate_fixed_length_assigns(f.type, alloc) = Cpp!default_value(Base(f.type))
                ELSE Cpp!generate_initializer_list(f.type, alloc) # ""

(* A string constant has its value in C++ too.                             *)
CppStringsSurvive ==
    IsCase("text") /\ OneLine(input.text) =>
        Py!Literal("dq", Cpp!escape_string(input.text)) = [ok |-> TRUE, val |-> input.text]

-----------------------------------------------------------------------------
(* The text of a message, sent to whoever connects and kept in every bag,  *)
(* is a literal in the generated code of each of the six generators and is *)
(* read back with all its lines, whatever quotes are in it and wherever    *)
(* they are. It is the same text in Python, if it has no backslash; the    *)
(* others end its last line, Lisp with an empty line more, gencpp only if  *)
(* the text does not; and in JavaScript it is indented, begins with a new  *)
(* line, and is right only if nothing in it means something in backquotes. *)
LineEnd == <<"nl">>
Spliced(body) ==   \* a backslash at the end of a line of C++ joins it with the next
    LET joins(i) == i \in 1..(Len(body) - 1) /\ body[i] = "bs" /\ body[i + 1] = "nl"
    IN  FlattenSeq([i \in DOMAIN body |-> IF joins(i) \/ joins(i - 1) THEN <<>> ELSE <<body[i]>>])
InCpp(body, text) == Py!Literal("dq", Spliced(body)) = [ok |-> TRUE, val |-> text]
Unindented(text) == SelectSeq(text, LAMBDA c: c # "indent")
DefinitionInNode(t) ==
    LET body == Node!write_message_definition(t)
    IN  ~Node!Interpreted(body) /\ Unindented(body) = LineEnd \o t \o LineEnd
DefinitionSurvives ==
    IsCase("text") =>
        LET t == input.text
            ended == IF t # <<>> /\ Last(t) = "nl" THEN t ELSE t \o LineEnd
        IN  /\ "bs" \in ToSet(t)
               \/ Py!TripleQuoted(Py!compute_full_text_escaped(t)) = [ok |-> TRUE, val |-> t]
            /\ Lisp!Format(Lisp!ReadString(Lisp!write_message_definition(t))) = t \o LineEnd \o LineEnd
            /\ Lisp!ReadString(Eus!write_message_definition(t)) = t \o LineEnd
            /\ InCpp(Cpp!escape_message_definition(t), ended)
            /\ InCpp(Ros!compute_full_text_escaped(t), t \o LineEnd)
            /\ Node!Interpreted(t) \/ DefinitionInNode(t)

(* A string constant has its value in EusLisp and in JavaScript: without   *)
(* backslashes, and in JavaScript without single quotes.                   *)
StringConstantsSurvive ==
    IsCase("text") /\ OneLine(input.text) /\ "bs" \notin ToSet(input.text) =>
        /\ Lisp!ReadString(Eus!write_constants(input.text)) = input.text
        /\ "sq" \in ToSet(input.text)
           \/ Py!Literal("sq", Node!write_constants(input.text)) = [ok |-> TRUE, val |-> input.text]

(* A new message is the same in Python, Lisp, EusLisp and JavaScript, with *)
(* arrays of fixed length at their length down to the last embedded        *)
(* message; strings and times in such arrays are 0 in JavaScript.          *)
FreshAgrees ==
    IsCase("value") =>
        LET fresh == Py!default_value(Ctx, input.type)
        IN  /\ Lisp!field_initform(Ctx, input.type) = InLisp(input.type, fresh)
            /\ Eus!write_slot_argument(Ctx, input.type) = fresh
            /\ Uses(FixedStrings) \/ Uses(FixedTimes)
               \/ Node!get_default_value(Ctx, input.type, Undefined) = fresh

-----------------------------------------------------------------------------
(* A package built with rosbuild and one built with catkin give a message  *)
(* the same C++ struct, the same traits and above all the same MD5 sum and *)
(* definition, with which nodes of the two recognise each other; and every *)
(* constant that is declared has its value.                                *)
RosbuildAgrees ==
    IsCase("value") =>
        LET spec == Ctx.reg[input.type.parts]
            header == Ros!generate_messages(Library, <<input.type.parts>>)
        IN  /\ header.err = "none"
            /\ header.struct.members = [i \in DOMAIN Fields |->
                  [name |-> Fields[i].name, type |-> Cpp!msg_type_to_cpp(Fields[i].type)]]
            /\ header.serialized = Names(Fields)
            /\ header.traits.md5 = compute_md5(Ctx, spec)
            /\ header.traits.definition = compute_full_text(Ctx, spec)
            /\ header.traits.HasHeader = spec.header
            /\ header.traits.IsFixedSize = Cpp!is_fixed_length(Ctx, Fields)
            /\ \A c \in ToSet(header.struct.constants): c[1] = "enum" <=> c[2] = "none"

(* The header of every member's type is included.                          *)
RosbuildIncludes ==
    IsCase("value") =>
        LET header == Ros!generate_messages(Library, <<input.type.parts>>)
        IN  {m.type.element.message: m \in ToSet(header.struct.members)} \ {<<>>} = header.includes

(* What is generated for a file does not depend on the file that the same  *)
(* process generated before, though both use one table of messages.        *)
RosbuildOrderIndependent ==
    IsCase("srv") =>
        LET a == input.halves[1].parts
            b == input.halves[2].parts
        IN  Ros!generate_messages(Library, <<a, b>>) = Ros!generate_messages(Library, <<b>>)

(* A service has one MD5 sum in a rosbuild and in a catkin package, or the *)
(* handshake between them fails; and its halves are the same structs, with *)
(* the same sums and definitions of their own.                             *)
ServiceText(halves) == Library[halves[1].parts] \o <<Delimiter>> \o Library[halves[2].parts]
RosbuildServices ==
    IsCase("srv") =>
        LET text == ServiceText(input.halves)
            loaded == load_srv_from_string(create_default, text, "p", "Svc")
            ctx == load_srv_depends(loaded.ctx, LibEnv, loaded.spec).ctx
            header == Ros!generate_service((<<"p", "Svc">> :> text) @@ Library, <<"p", "Svc">>)
            same(half, spec) ==
                /\ half.traits.md5 = compute_md5(ctx, spec)
                /\ half.traits.definition = compute_full_text(ctx, spec)
                /\ half.serialized = Names(spec.fields)
                /\ half.struct.members = [i \in DOMAIN spec.fields |->
                     [name |-> spec.fields[i].name, type |-> Cpp!msg_type_to_cpp(spec.fields[i].type)]]
        IN  /\ header.err = "none"
            /\ header.service_traits.service = compute_srv_md5(ctx, loaded.spec)
            /\ same(header.request, loaded.spec.request)
            /\ same(header.response, loaded.spec.response)

(* roslib and genmsg accept the same lines and read the same fields in     *)
(* them; only an array of headers is one of std_msgs in roslib and one of  *)
(* the package in genmsg.                                                  *)
ReadersAgree ==
    /\ IsCase("line") =>
          LET genmsg == load_msg_from_string(create_default, <<input.line>>, <<"p", "M">>)
              roslib == Ros!load_from_string(<<input.line>>, "p", <<"p", "M">>)
              resolved(spec) == [i \in DOMAIN spec.fields |->
                                   Ros!ros_resolve_type(spec.fields[i].type, "p")]
              headers == input.line.k = "field" /\ input.line.type.parts = HEADER
                         /\ IsArray(input.line.type)
          IN  /\ (genmsg.err = "none") <=> (roslib.err = "none")
              /\ genmsg.err = "none" /\ ~headers =>
                    /\ resolved(genmsg.spec) = resolved(roslib.spec)
                    /\ genmsg.spec.constants = roslib.spec.constants
                    /\ genmsg.spec.header = roslib.spec.header
    /\ IsCase("number") =>
          (convert_constant_value(input.type, input.val) = "none") = Ros!_convert_val(input.type, input.val)

-----------------------------------------------------------------------------
(* Two services with one MD5 sum have the same wire form: what a client of *)
(* one writes, a server of the other reads. Where a half is empty, or an   *)
(* embedded type is an array, the sum does not tell.                       *)
Service(halves) == [request |-> Ctx.reg[halves[1].parts], response |-> Ctx.reg[halves[2].parts]]
Hidden(t) == IsArray(t) /\ ~is_builtin(t.parts)
DigestSeparates ==
    IsCase("service") =>
        LET a == input.halves
            b == input.others
            told == \A t \in {a[1], a[2], b[1], b[2]}:
                        /\ FieldsOf(Ctx, t) # <<>>
                        /\ \A u \in TypesIn(Ctx, t): ~Hidden(u)
        IN  told /\ compute_srv_md5(Ctx, Service(a)) = compute_srv_md5(Ctx, Service(b)) =>
            \A h \in 1..2: \A k \in Samples:
                LET v == Sample(Ctx, a[h], k, FALSE)
                IN  Read(Ctx, b[h], Write(Ctx, a[h], v)) = Done(v, <<>>)

(* An integer constant that is accepted fits into the type of the          *)
(* constant, in the generated code of every language: in the types of up   *)
(* to 32 bits, where the bounds are exact.                                 *)
FitsIn(type, v) ==
    LET b == IntegerBits[type]
        signed == type \in SignedTypes
    IN  IF v.neg THEN signed /\ ~Above(v, b - 1, 0)
        ELSE ~Above(v, IF signed THEN b - 1 ELSE b, -1)
ConstantFits ==
    IsCase("number") /\ IntegerBits[input.type] <= 32
    /\ convert_constant_value(input.type, input.val) = "none" => FitsIn(input.type, input.val)

-----------------------------------------------------------------------------
(* A node as it is started: the mappings of its arguments, and what        *)
(* this_node makes of it.                                                  *)
Mappings == Nm!load_mappings(input.start.argv)
GivenName == Nm!OrGiven(Mappings, Nm!NameKey, <<"n">>)
Started == Nm!ThisNode(<<"n">>, Mappings, input.start.env, input.start.anonymous)
StartedNodes == {started.node: started \in {s \in {Started}: s.err = "none"}}
Only(node, name) == Nm!resolve_only(node, node.ns, name).name
Slashed(ns) == IF ns = Nm!GLOBALNS THEN ns ELSE Append(ns, Nm!SEP)
Moved(node) == Nm!namespace(node.name) # Slashed(node.ns)

(* A name means the same to the Python tools as to the node: what is legal *)
(* for both resolves to one global name in canonical form, which stays     *)
(* what it is when it is resolved again. Except: the empty name and "/"    *)
(* (Python keeps a separator at the end, C++ makes nothing of "/"), and a  *)
(* node whose own name was remapped into another namespace.                *)
NamesAgree ==
    IsCase("node") =>
        \A node \in StartedNodes: \A name \in GraphNames:
            LET cpp == Nm!resolve(node, node.ns, name)
                only == Only(node, name)
            IN  /\ (cpp.err = "none" /\ ~Nm!DoubleSep(name)) <=> Nm!is_legal_name(name)
                /\ cpp.err = "none" /\ Nm!canonicalize_name(name) \notin {<<>>, Nm!GLOBALNS} =>
                      /\ Moved(node) \/ cpp.name = Nm!resolve_name(name, node.name, node.remappings)
                      /\ Nm!is_global(only) /\ Nm!canonicalize_name(only) = only
                      /\ Only(node, only) = only
                      /\ \A n \in {only, Append(only, Nm!SEP)}:
                            Slashed(Nm!parentNamespace(n).name) = Nm!namespace(n)

(* A remapping holds for every spelling of the name it is given for,       *)
(* relative, global or private, and is applied once: except for the node's *)
(* own name as it was given, and for private names on either side when the *)
(* node is anonymous or was renamed, as its name changes after they were   *)
(* resolved.                                                               *)
RemappingsHonoured ==
    IsCase("node") =>
        \A node \in StartedNodes: \A left \in DOMAIN Mappings \ {GivenName}: \A name \in GraphNames:
            LET right == Mappings[left]
                settled == ~input.start.anonymous /\ ~Moved(node)
                private == Nm!is_private(left) \/ Nm!is_private(right)
            IN  /\ left[1] # "_" /\ (private => settled)
                /\ Nm!validate(name) /\ name # <<>> /\ Only(node, name) = Only(node, left)
                => Nm!resolve(node, node.ns, name).name = Only(node, right)

(* The namespace and the name that the tools compute for a node are its    *)
(* own, and a namespace that the tools refuse starts no node.              *)
CallerIdAgrees ==
    IsCase("node") /\ ~Nm!DoubleSep(input.start.env) =>
        LET ns == Nm!get_ros_namespace(input.start.env, input.start.argv)
            id == Nm!make_caller_id(input.start.env, input.start.argv, GivenName)
        IN  \A node \in StartedNodes:
                /\ ns.err = "none" /\ ns.name = Slashed(node.ns)
                /\ input.start.anonymous \/ node.remappings # <<>> \/ id.name = Slashed(node.name)

(* The name of a type is put together and taken apart again, and the name  *)
(* made for an anonymous node is legal whatever the machine is called.     *)
ResourceNames ==
    IsCase("name") /\ Nm!is_legal_base_name(input.name) =>
        \A p \in {m \in GraphNames: Nm!is_legal_base_name(m)}:
            LET n == input.name
                full == Nm!resource_name(p, n, <<>>)
            IN  /\ Nm!is_legal_resource_name(full)
                /\ Nm!split_resource_name(full) = [err |-> "none", package |-> p, name |-> n]
                /\ Nm!resource_name_package(full) = p /\ Nm!resource_name_base(full) = n
                /\ Nm!resource_name(p, n, p) = n
                /\ Nm!is_legal_base_name(Nm!anonymous_name(n, p \o <<".", "-", ":", "1">>))

-----------------------------------------------------------------------------
(* What the run checks of the cases.                                       *)

\* Python's generated code writes and reads the wire format, with patterns that
\* are joined and counted, and notices buffers that end too early.
PythonAgrees == PyWire /\ PyTruncationNoticed /\ ReducePatternSound

\* A Python message that is constructed, filled or checked can be sent: names,
\* imports, defaults, values and times are those of the definition.
PythonMessages ==
    /\ PyDefaultSerializes /\ PyConstructed /\ PyFillsMessage /\ PyCheckAgrees
    /\ PyAttributesExist /\ PyImportsSuffice /\ PyDynamicComplete
    /\ PyTimeArithmetic /\ PyTimeOrder

\* JavaScript, Lisp, EusLisp and C++ write and read what Python does, but for
\* what the properties except: in Lisp, times with a fraction of a second.
LanguagesAgree ==
    /\ NodeAgrees /\ NodeRequiredOnce /\ LispAgrees /\ LispSystemComplete
    /\ EusAgrees /\ CppLengthExact

\* A message as its constructor makes it is the same in every language.
FreshMessagesAgree == FreshAgrees /\ NodeResolved /\ CppMembersInitialised

\* Constants and definitions become literals of the languages and come back,
\* definitions with the line ends that a generator adds.
LiteralsSurvive ==
    /\ PyStringConstants /\ CppStringsSurvive /\ DefinitionSurvives
    /\ StringConstantsSurvive /\ ConstantFits

\* roslib's readers and rosbuild's generators do what genmsg and gencpp do, in
\* whatever order a process meets the files.
RosbuildSound ==
    /\ RosbuildAgrees /\ RosbuildIncludes /\ RosbuildOrderIndependent
    /\ RosbuildServices /\ ReadersAgree

\* Names of the graph mean the same to a node and to the tools.
NamesSound == NamesAgree /\ RemappingsHonoured /\ CallerIdAgrees /\ ResourceNames
=============================================================================
