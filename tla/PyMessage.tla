------------------------------ MODULE PyMessage ------------------------------
(* genpy.message: how a message is filled from the arguments of a command  *)
(* line (rostopic pub, rosservice call), its constructor, and the check of *)
(* its fields after an error.                                              *)
(*                                                                         *)
(* An argument is what YAML has in it: a scalar, a list or a dictionary.   *)
(* A list stands for an array or for all the fields of a message, a        *)
(* dictionary for some of the fields. Numbers given for a time, and keys   *)
(* such as "now", are left out.                                            *)
EXTENDS GenPy

Scalar(v) == [kind |-> "scalar", val |-> v]
List(vals) == [kind |-> "list", val |-> vals]
Dict(vals) == [kind |-> "dict", val |-> vals]

Raises == [ok |-> FALSE, val |-> <<>>]
Filled(v) == [ok |-> TRUE, val |-> v]
AllFilled(parts) ==
    IF \A i \in DOMAIN parts: parts[i].ok THEN Filled([i \in DOMAIN parts |-> parts[i].val])
    ELSE Raises

IsBytes(type) == IsArray(type) /\ Base(type) \in {"uint8", "char"}

RECURSIVE _fill_message_args(_, _, _, _)

(* A mutant: the length of an array of messages is not looked at.          *)
FillAnyLength(ctx, type, def, arg) ==
    LET v == arg.val
        element == Element(type)
    IN  IF IsMessage(type) /\ ~IsArray(type) THEN _fill_message_args(ctx, type, def, arg)
        ELSE IF ~IsArray(type) \/ IsBytes(type) THEN Filled(v)
        ELSE IF arg.kind # "list" THEN Raises
        ELSE IF Base(type) \in PRIMITIVE_TYPES
        THEN IF IsFixedArray(type) /\ Len(v) # type.dims[1] THEN Raises ELSE Filled(v)
        ELSE AllFilled([j \in DOMAIN v |->
                _fill_message_args(ctx, element, default_value(ctx, element), v[j])])

(* An array of uint8 or char starts as bytes, not as a list: it takes any  *)
(* value, like a field that is no array. def is the value the field has.   *)
_fill_val(ctx, type, def, arg) ==
    LET v == arg.val
        element == Element(type)
    IN  IF IsMessage(type) /\ ~IsArray(type) THEN _fill_message_args(ctx, type, def, arg)
        ELSE IF ~IsArray(type) \/ IsBytes(type) THEN Filled(v)
        ELSE IF arg.kind # "list" \/ (IsFixedArray(type) /\ Len(v) # type.dims[1]) THEN Raises
        ELSE IF Base(type) \in PRIMITIVE_TYPES THEN Filled(v)
        ELSE AllFilled([j \in DOMAIN v |->
                _fill_message_args(ctx, element, default_value(ctx, element), v[j])])

_fill_message_args(ctx, type, msg, arg) ==
    LET fields == make_python_safe(FieldsOf(ctx, type))
        given(i) == IF arg.kind = "list" THEN TRUE ELSE fields[i].name \in DOMAIN arg.val
        value(i) == IF arg.kind = "list" THEN arg.val[i] ELSE arg.val[fields[i].name]
    IN  IF \/ arg.kind = "scalar"
           \/ arg.kind = "list" /\ Len(arg.val) # Len(fields)
           \/ arg.kind = "dict" /\ ~(DOMAIN arg.val \subseteq ToSet(Names(fields)))
        THEN Raises
        ELSE AllFilled([i \in DOMAIN fields |->
                IF given(i) THEN _fill_val(ctx, fields[i].type, msg[i], value(i))
                ELSE Filled(msg[i])])

(* A command line with one argument, a dictionary, gives the fields of the *)
(* message itself, also where the message has one field only.              *)
fill_message_args(ctx, type, msg, args) ==
    IF Len(args) = 1 /\ args[1].kind = "dict" THEN _fill_message_args(ctx, type, msg, args[1])
    ELSE _fill_message_args(ctx, type, msg, List(args))

(* Message.__init__, and what the generated constructor puts where nothing *)
(* was given: all the fields by position, or some of them by name.         *)
Construct(ctx, type, arg) ==
    LET fields == make_python_safe(FieldsOf(ctx, type))
    IN  IF arg.kind = "list"
        THEN IF Len(arg.val) # Len(fields) THEN Raises ELSE Filled(arg.val)
        ELSE IF ~(DOMAIN arg.val \subseteq ToSet(Names(fields))) THEN Raises
        ELSE Filled([i \in DOMAIN fields |->
                IF fields[i].name \in DOMAIN arg.val THEN arg.val[fields[i].name]
                ELSE default_value(ctx, fields[i].type)])

-----------------------------------------------------------------------------
(* check_type: whether a value passes. A number out of the range of its    *)
(* type has a sign that its bytes do not show. The least value of a signed *)
(* type is refused, a string beyond ASCII too, and in Python 3 the bytes   *)
(* that deserialize() makes of an array of uint8 or char.                  *)

InRange(type, v) == v.neg = (Base(type) \in SignedTypes /\ Last(v.bytes) >= 128)
Least(v) == v.neg /\ v.bytes = [i \in DOMAIN v.bytes |-> IF i = Len(v.bytes) THEN 128 ELSE 0]
NonAscii(v) == "eacute" \in ToSet(v)

RECURSIVE check_type(_, _, _)
check_type(ctx, type, v) ==
    IF is_simple(type)
    THEN CASE Base(type) \in SignedTypes -> InRange(type, v) /\ ~Least(v)
           [] Base(type) \in DOMAIN IntegerBits -> InRange(type, v)
           [] OTHER -> TRUE
    ELSE IF IsBytes(type) THEN FALSE
    ELSE IF IsArray(type) THEN \A i \in DOMAIN v: check_type(ctx, Element(type), v[i])
    ELSE IF Base(type) = "string" THEN ~NonAscii(v)
    ELSE IF Base(type) \in {"time", "duration"} THEN TRUE
    ELSE \A i \in DOMAIN v: check_type(ctx, FieldsOf(ctx, type)[i].type, v[i])

_check_types(ctx, type, v) ==
    \A i \in DOMAIN v: check_type(ctx, FieldsOf(ctx, type)[i].type, v[i])
=============================================================================
