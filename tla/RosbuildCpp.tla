---------------------------- MODULE RosbuildCpp ----------------------------
(* The older way to C++: roslib.msgs and roslib.gentools load the messages *)
(* and msg_gen.py and gensrv_cpp.py write the headers of a rosbuild        *)
(* package. What genmsg keeps in a context is here a table of the process, *)
(* which every file that is generated finds as the files before left it.   *)
EXTENDS Wire

CONSTANT RosDepends   \* what rospack knows: the packages a package depends on

G == INSTANCE GenCpp

ROSLIB_HEADER == <<"roslib", "Header">>
is_header_type(parts) == parts \in {HEADER, HEADER_FULL_NAME, ROSLIB_HEADER}
base_msg_type(type) == type.parts

(* A builtin type and Header keep their names, whatever the context is.    *)
RewrittenType(type, context) ==
    IF context # "" /\ Len(type.parts) = 1 /\ ~is_builtin(type.parts) /\ type.parts # HEADER
    THEN Type(<<context>> \o type.parts, type.dims) ELSE type

(* The type of a field that names a Header is std_msgs/Header: an array of *)
(* headers loses its brackets where a type is resolved.                    *)
ros_resolve_type(type, package_context) ==
    IF is_builtin(base_msg_type(type)) THEN type
    ELSE IF base_msg_type(type) = HEADER THEN Type(HEADER_FULL_NAME, <<>>)
    ELSE IF Len(type.parts) > 1 THEN type
    ELSE Type(<<package_context>> \o type.parts, type.dims)

(* What a line and a whole file are refused for. A constant is of a        *)
(* primitive type, within the bounds that floating point gives; any number *)
(* of dimensions is a valid type, and more than one is refused when the    *)
(* fields of the MsgSpec are parsed.                                       *)
ros_is_valid_msg_type(type) == \A i \in DOMAIN type.parts: type.parts[i] \notin IllegalNames
ros_is_valid_constant_type(type) == type \in PRIMITIVE_TYPES
ros_is_valid_msg_field_name(name) == name \notin IllegalNames

_convert_val(type, v) ==
    LET signed == type \in SignedTypes
        power == IntegerBits[type] - (IF signed THEN 1 ELSE 0)
        upper == IF power > 53 THEN 0 ELSE -1
    IN  IF v.neg THEN signed /\ ~Above(v, power, upper + 1) ELSE ~Above(v, power, upper)

LineAccepted(l) ==
    CASE l.k = "blank" -> TRUE
      [] l.k = "const" -> /\ ros_is_valid_constant_type(l.type)
                          /\ l.type \in DOMAIN IntegerBits => _convert_val(l.type, l.val)
      [] l.k = "field" -> ros_is_valid_msg_type(l.type) /\ ros_is_valid_msg_field_name(l.name)
      [] OTHER -> FALSE

ros_parse_type(type) == [ok |-> Len(type.dims) <= 1, base_type |-> type.parts]
SpecAccepted(fields) ==
    IsInjective(Names(fields)) /\ \A i \in DOMAIN fields: ros_parse_type(fields[i].type).ok
header_present(fields) ==
    fields # <<>> /\ is_header_type(fields[1].type.parts) /\ ~IsArray(fields[1].type)
    /\ fields[1].name = "header"

load_from_string(text, context, full) ==
    LET lines == Of(text, "field")
        fields == [i \in DOMAIN lines |-> [type |-> RewrittenType(lines[i].type, context),
                                           name |-> lines[i].name]]
    IN  [err |-> IF (\A i \in DOMAIN text: LineAccepted(text[i])) /\ SpecAccepted(fields)
                 THEN "none" ELSE "MsgSpecException",
         spec |-> [fields |-> fields, constants |-> Of(text, "const"), text |-> text,
                   full_name |-> full, package |-> context, header |-> header_present(fields)]]

load_from_file(fs, file, context) ==
    load_from_string(fs[file], context,
                     IF context = "" THEN <<file[2]>> ELSE <<context, file[2]>>)

(* A relative name is one of the package that is given.                    *)
load_by_type(fs, parts, context) ==
    LET names == package_resource_name(parts)
        package == IF names.package = "" THEN context ELSE names.package
    IN  IF <<package, names.base>> \notin DOMAIN fs THEN [err |-> "MsgSpecException"]
        ELSE load_from_file(fs, <<package, names.base>>, package)

register(reg, key, spec) == (key :> spec) @@ reg
_init(fs) ==
    LET header == load_from_file(fs, HEADER_FULL_NAME, "").spec
        time == load_from_string(TIME_MSG, "", <<"time">>).spec
        duration == load_from_string(DURATION_MSG, "", <<"duration">>).spec
    IN  IF HEADER_FULL_NAME \notin DOMAIN fs THEN <<>>
        ELSE (HEADER :> header) @@ (HEADER_FULL_NAME :> header) @@ (ROSLIB_HEADER :> header)
             @@ (<<"time">> :> time) @@ (<<"duration">> :> duration)
Started(fs, reg) == IF reg = <<>> THEN _init(fs) ELSE reg

(* A mutant: a type of the own package hides one of the same base name.    *)
BaseFirst(reg, parts, default_package) ==
    IF <<default_package, Last(parts)>> \in DOMAIN reg THEN reg[<<default_package, Last(parts)>>]
    ELSE reg[parts]

get_registered(reg, parts, default_package) ==
    IF parts \in DOMAIN reg THEN reg[parts] ELSE reg[<<default_package>> \o parts]

-----------------------------------------------------------------------------
(* gentools.py. Every field is followed, again when its type is met again. *)

_get_valid_packages(package) ==
    {"", package} \cup (IF package \in DOMAIN RosDepends THEN RosDepends[package] ELSE {})

Registering(reg, key, loaded) ==
    IF loaded.err # "none" THEN [err |-> loaded.err, reg |-> reg]
    ELSE [err |-> "none", reg |-> register(reg, key, loaded.spec), spec |-> loaded.spec]
LookedUp(fs, reg, t, key, context) ==
    IF t \in DOMAIN reg THEN [err |-> "none", reg |-> reg, spec |-> reg[t]]
    ELSE IF package_resource_name(t).package \notin _get_valid_packages(context)
    THEN [err |-> "MsgSpecException", reg |-> reg]
    ELSE Registering(reg, key, load_by_type(fs, t, context))

(* deps are the types found so far, with repetitions; left are the levels  *)
(* that the interpreter leaves.                                            *)
RECURSIVE _add_msgs_depends(_, _, _, _, _, _)
_add_msgs_depends(fs, reg, spec, deps, context, left) ==
    LET descend(found, with) ==
            IF found.err # "none" THEN [err |-> found.err, reg |-> found.reg, deps |-> with]
            ELSE _add_msgs_depends(fs, found.reg, found.spec, with, context, left - 1)
        add(acc, t) ==
            LET key == IF t = HEADER THEN HEADER_FULL_NAME
                       ELSE IF Len(t) = 1 THEN <<context>> \o t ELSE t
            IN  IF acc.err # "none" \/ is_builtin(t) THEN acc
                ELSE descend(LookedUp(fs, acc.reg, t, key, context), Append(acc.deps, key))
        types == [i \in DOMAIN spec.fields |-> base_msg_type(spec.fields[i].type)]
    IN  IF left = 0 THEN [err |-> "RecursionError", reg |-> reg, deps |-> deps]
        ELSE FoldLeft(add, [err |-> "none", reg |-> reg, deps |-> deps], types)

WithUnique(all, spec, package) ==
    [err |-> all.err, reg |-> all.reg, deps |-> all.deps, spec |-> spec,
     package |-> package, uniquedeps |-> _unique_deps(all.deps)]
get_dependencies(fs, reg, spec, package) ==
    WithUnique(_add_msgs_depends(fs, reg, spec, <<>>, package, RecursionLimit), spec, package)

(* The hashed text, with the same tokens as that of genmsg.                *)
RECURSIVE roslib_md5_text(_, _, _)
roslib_md5_text(reg, spec, package) ==
    [i \in DOMAIN spec.constants |->
        <<"const", spec.constants[i].type, spec.constants[i].name, spec.constants[i].val>>]
    \o [i \in DOMAIN spec.fields |->
        LET f == spec.fields[i]
            base == IF f.type.parts = HEADER THEN HEADER_FULL_NAME ELSE f.type.parts
            inner == package_resource_name(base).package
        IN  IF is_builtin(base) THEN <<"builtin", f.type, f.name>>
            ELSE <<"message",
                   roslib_md5_text(reg, get_registered(reg, base, package),
                                   IF inner = "" THEN package ELSE inner),
                   f.name>>]

roslib_full_text(d, reg) ==
    <<[msg |-> d.spec.full_name, text |-> d.spec.text]>>
    \o [i \in DOMAIN d.uniquedeps |->
          [msg |-> d.uniquedeps[i], text |-> get_registered(reg, d.uniquedeps[i], "").text]]

-----------------------------------------------------------------------------
(* msg_gen.py. Constructors and default values are those of gencpp, word   *)
(* for word.                                                               *)

write_includes(spec) ==
    {IF is_header_type(f.type.parts) THEN HEADER_FULL_NAME
     ELSE IF Len(f.type.parts) = 1 THEN <<spec.package>> \o f.type.parts
     ELSE f.type.parts:
       f \in {g \in ToSet(spec.fields): ~is_builtin(g.type.parts)}}

(* A relative name is one of the namespace of the package.                 *)
rosbuild_type_to_cpp(type) ==
    IF type.parts = HEADER THEN G!msg_type_to_cpp(Type(HEADER_FULL_NAME, type.dims))
    ELSE G!msg_type_to_cpp(type)

write_members(spec) ==
    [i \in DOMAIN spec.fields |->
        [name |-> spec.fields[i].name, type |-> rosbuild_type_to_cpp(spec.fields[i].type)]]

write_initializer_list(spec, alloc) ==
    [i \in DOMAIN spec.fields |-> G!generate_initializer_list(spec.fields[i].type, alloc)]
write_fixed_length_assigns(spec, alloc) ==
    [i \in DOMAIN spec.fields |-> G!generate_fixed_length_assigns(spec.fields[i].type, alloc)]
write_constructors(spec) ==
    [alloc \in BOOLEAN |-> [init |-> write_initializer_list(spec, alloc),
                            assign |-> write_fixed_length_assigns(spec, alloc)]]

(* Integral constants are enumerators, the others static members with a    *)
(* definition, which for a string is quoted.                               *)
write_constant_declaration(c) == IF c.type \in DOMAIN IntegerBits THEN "enum" ELSE "static"
write_constant_definition(c) ==
    IF c.type \in DOMAIN IntegerBits THEN "none"
    ELSE IF c.type = "string" THEN "quoted" ELSE "value"
write_constants(spec) ==
    [i \in DOMAIN spec.constants |->
        <<write_constant_declaration(spec.constants[i]), write_constant_definition(spec.constants[i])>>]

(* Embedded types are read from their files again.                         *)
RECURSIVE rosbuild_is_fixed_length(_, _)
rosbuild_is_fixed_length(fs, spec) ==
    /\ \A f \in ToSet(spec.fields): (IsArray(f.type) => IsFixedArray(f.type)) /\ Base(f.type) # "string"
    /\ \A f \in {g \in ToSet(spec.fields): ~is_builtin(g.type.parts)}:
          rosbuild_is_fixed_length(
              fs, load_by_type(fs, ros_resolve_type(bare_msg_type(f.type), spec.package).parts,
                               spec.package).spec)

(* The literal of a string constant, and that of the definition, in which  *)
(* every line ends with \n and is continued on the next.                   *)
escape_string(str) ==
    FlattenSeq([i \in DOMAIN str |-> IF str[i] \in {"bs", "dq"} THEN <<"bs", str[i]>> ELSE <<str[i]>>])
compute_full_text_escaped(definition) ==
    LET line_end == <<"bs", "n", "bs", "nl">>
    IN  FlattenSeq([i \in DOMAIN definition |->
            IF definition[i] = "nl" THEN line_end ELSE escape_string(<<definition[i]>>)]) \o line_end

write_struct(spec) ==
    [constructors |-> write_constructors(spec), members |-> write_members(spec),
     constants |-> write_constants(spec)]

write_serialization(spec) == Names(spec.fields)

write_traits(fs, reg, spec, d) ==
    [md5 |-> roslib_md5_text(reg, spec, spec.package),
     definition |-> roslib_full_text(d, reg),
     HasHeader |-> spec.header,
     IsFixedSize |-> rosbuild_is_fixed_length(fs, spec)]

NoHeaderFile == [err |-> "failed"]

(* What the header of a message has, and what each half of a service has.  *)
Written(fs, reg, spec, d) ==
    [err |-> "none", includes |-> write_includes(spec), struct |-> write_struct(spec),
     serialized |-> write_serialization(spec), traits |-> write_traits(fs, reg, spec, d)]

(* generate: nothing is opened before the whole text is there.             *)
WrittenOr(fs, d) ==
    [reg |-> d.reg, out |-> IF d.err # "none" THEN NoHeaderFile ELSE Written(fs, d.reg, d.spec, d)]
generate(fs, reg, file) ==
    LET loaded == load_from_file(fs, file, file[1])
    IN  IF loaded.err # "none" THEN [reg |-> reg, out |-> NoHeaderFile]
        ELSE WrittenOr(fs, get_dependencies(fs, Started(fs, reg), loaded.spec, file[1]))

(* generate_messages: the files of the command line, one after the other;  *)
(* an exception ends the process. What is given is the last header.        *)
generate_messages(fs, files) ==
    LET next(acc, file) == IF acc.out = NoHeaderFile THEN acc ELSE generate(fs, acc.reg, file)
    IN  FoldLeft(next, [reg |-> <<>>, out |-> <<>>], files).out

-----------------------------------------------------------------------------
(* Services: srvs.py and gensrv_cpp.py. Every delimiter after the first is *)
(* dropped, and a comment is cut off before the halves are parsed.         *)

srv_load_from_string(text, package, name) ==
    LET at == SelectInSeq(text, LAMBDA l: l = Delimiter)
        cut(lines) == [i \in DOMAIN lines |-> Cut(lines[i])]
        text_in == IF at = 0 THEN text ELSE SubSeq(text, 1, at - 1)
        text_out == IF at = 0 THEN <<>>
                    ELSE SelectSeq(SubSeq(text, at, Len(text)), LAMBDA l: l # Delimiter)
        msg_in == load_from_string(cut(text_in), package, <<package, name \o "Request">>)
        msg_out == load_from_string(cut(text_out), package, <<package, name \o "Response">>)
    IN  [err |-> IF msg_in.err # "none" THEN msg_in.err ELSE msg_out.err,
         spec |-> [request |-> msg_in.spec, response |-> msg_out.spec]]

srv_load_from_file(fs, file) ==
    IF file[2] \in IllegalNames THEN [err |-> "SrvSpecException"]
    ELSE srv_load_from_string(fs[file], file[1], file[2])

(* The dependencies of a service are those of its request and then those   *)
(* of its response, found with what the request registered.                *)
AndResponse(fs, request, spec, package) ==
    IF request.err # "none" THEN request
    ELSE get_dependencies(fs, request.reg, spec.response, package)
srv_get_dependencies(fs, reg, spec, package) ==
    AndResponse(fs, get_dependencies(fs, reg, spec.request, package), spec, package)

_compute_hash(reg, spec, package) ==
    Joined(roslib_md5_text(reg, spec.request, package)) \o Joined(roslib_md5_text(reg, spec.response, package))

(* The traits of a service give its sum to the service and to both halves. *)
srv_write_traits(reg, spec, package) ==
    LET md5sum == _compute_hash(reg, spec, package)
    IN  [service |-> md5sum, request |-> md5sum, response |-> md5sum]

WrittenService(fs, package, spec, d) ==
    LET half(msg) == Written(fs, d.reg, msg, get_dependencies(fs, d.reg, msg, package))
    IN  IF d.err # "none" THEN NoHeaderFile
        ELSE [err |-> "none", request |-> half(spec.request), response |-> half(spec.response),
              service_traits |-> srv_write_traits(d.reg, spec, package)]
ServiceOf(fs, package, loaded) ==
    IF loaded.err # "none" THEN NoHeaderFile
    ELSE WrittenService(fs, package, loaded.spec,
                        srv_get_dependencies(fs, Started(fs, <<>>), loaded.spec, package))
generate_service(fs, file) == ServiceOf(fs, file[1], srv_load_from_file(fs, file))
=============================================================================
