------------------------------ MODULE MsgSpec ------------------------------
(* genmsg: .msg and .srv files, the context they are loaded into, the      *)
(* dependencies of a message, its digest and its full text.                *)
(*                                                                         *)
(* A file is a sequence of lines. A line is blank, malformed, a field or a *)
(* constant. A type is the sequence of the parts of its name (package and  *)
(* base, or the base alone) with the sequence of its array dimensions,     *)
(* where -1 is "[]". An operation that may raise returns a record with the *)
(* name of the exception in err.                                           *)
EXTENDS Integers, Sequences, SequencesExt, TLC

CONSTANTS IllegalNames,    \* names the regular expressions of names.py refuse
          RecursionLimit,  \* how deep Python lets a function call itself
          LoadSteps        \* bound on the fields and returns of one loading

ASSUME RecursionLimitAssumption == RecursionLimit \in Nat \ {0}
ASSUME LoadStepsAssumption == LoadSteps \in Nat

(* msgs.py: the builtin types.                                             *)
IntegerBits == [int8 |-> 8, uint8 |-> 8, int16 |-> 16, uint16 |-> 16,
                int32 |-> 32, uint32 |-> 32, int64 |-> 64, uint64 |-> 64,
                byte |-> 8, char |-> 8]
PRIMITIVE_TYPES == DOMAIN IntegerBits \cup {"float32", "float64", "string", "bool"}
BUILTIN_TYPES == PRIMITIVE_TYPES \cup {"time", "duration"}

HEADER == <<"Header">>
HEADER_FULL_NAME == <<"std_msgs", "Header">>

is_builtin(parts) == Len(parts) = 1 /\ parts[1] \in BUILTIN_TYPES

Type(parts, dims) == [parts |-> parts, dims |-> dims]
bare_msg_type(type) == Type(type.parts, <<>>)

resolve_type(type, package) ==
    IF is_builtin(type.parts) THEN type
    ELSE IF type.parts = HEADER THEN Type(HEADER_FULL_NAME, <<>>)
    ELSE IF Len(type.parts) > 1 THEN type
    ELSE Type(<<package>> \o type.parts, type.dims)

(* is_valid_msg_type accepts any number of dimensions; parse_type, called  *)
(* for every field of a MsgSpec, refuses more than one.                    *)
is_legal_resource_base_name(name) == name \notin IllegalNames
is_legal_resource_name(parts) == \A i \in DOMAIN parts: is_legal_resource_base_name(parts[i])
is_valid_msg_type(type) == is_legal_resource_name(type.parts)
is_valid_msg_field_name(name) == is_legal_resource_base_name(name)
is_valid_constant_type(type) == type \in PRIMITIVE_TYPES
parse_type(type) ==
    [err |-> IF Len(type.dims) > 1 THEN "ValueError" ELSE "none",
     base_type |-> type.parts,
     is_array |-> type.dims # <<>>,
     array_len |-> IF type.dims = <<>> THEN -1 ELSE type.dims[1]]

(* The package and the base name of a name: a name of three parts raises.  *)
NoPackage == ""
package_resource_name(parts) ==
    [err |-> IF Len(parts) > 2 THEN "ValueError" ELSE "none",
     package |-> IF Len(parts) = 2 THEN parts[1] ELSE NoPackage,
     base |-> Last(parts)]

-----------------------------------------------------------------------------
(* Lines. The value of an integer constant is given by its place next to a *)
(* power of two: minus or plus 2^pow + off; the one of a string constant   *)
(* by what comes before and after its first #.                             *)

Blank == [k |-> "blank"]
Malformed == [k |-> "malformed"]
Delimiter == [k |-> "delimiter"]
Field(parts, dims, name) == [k |-> "field", type |-> Type(parts, dims), name |-> name]
Const(type, name, val) == [k |-> "const", type |-> type, name |-> name, val |-> val]

Int2(neg, pow, off) == [neg |-> neg, pow |-> pow, off |-> off]
Above(v, pow, off) == v.pow > pow \/ (v.pow = pow /\ v.off > off)

(* math.pow computes in floating point: from 54 bits on, 2^b - 1 is        *)
(* rounded to 2^b, and the bounds of the 64-bit types are one too wide.    *)
convert_constant_value(type, v) ==
    IF type \notin DOMAIN IntegerBits THEN "none"
    ELSE LET b == IntegerBits[type]
             unsigned == type \in {"uint8", "uint16", "uint32", "uint64", "char"}
             p == IF unsigned THEN b ELSE b - 1
             upper == IF p > 53 THEN 0 ELSE -1
             outOfBounds == IF v.neg THEN unsigned \/ Above(v, p, upper + 1)
                                     ELSE Above(v, p, upper)
         IN  IF outOfBounds THEN "InvalidMsgSpec" ELSE "none"

_load_constant_line(l) ==
    IF ~is_valid_constant_type(l.type) THEN "InvalidMsgSpec"
    ELSE convert_constant_value(l.type, l.val)

_load_field_line(l, package) ==
    [err |-> IF is_valid_msg_field_name(l.name) /\ is_valid_msg_type(l.type)
             THEN "none" ELSE "InvalidMsgSpec",
     type |-> IF l.type = Type(HEADER, <<>>) THEN Type(HEADER_FULL_NAME, <<>>)
              ELSE IF package # NoPackage /\ Len(l.type.parts) = 1 /\ ~is_builtin(l.type.parts)
              THEN Type(<<package>> \o l.type.parts, l.type.dims)
              ELSE l.type,
     name |-> l.name]

LineError(l) ==
    CASE l.k = "blank" -> "none"
      [] l.k = "const" -> _load_constant_line(l)
      [] l.k = "field" -> _load_field_line(l, NoPackage).err
      [] OTHER -> "InvalidMsgSpec"

(* The lines at some places and the lines of a kind, in their order.       *)
LinesAt(text, places) ==
    LET lines[i \in 0..Len(text)] ==
            IF i = 0 THEN <<>>
            ELSE IF i \in places THEN Append(lines[i - 1], text[i]) ELSE lines[i - 1]
    IN  lines[Len(text)]
Of(text, kind) == LinesAt(text, {i \in DOMAIN text: text[i].k = kind})
Names(fields) == [i \in DOMAIN fields |-> fields[i].name]

MsgSpecError(fields) ==
    IF IsInjective(Names(fields))
       /\ \A i \in DOMAIN fields: parse_type(fields[i].type).err = "none"
    THEN "none" ELSE "InvalidMsgSpec"

(* What a context holds: specifications by name, direct dependencies by    *)
(* name, files by name.                                                    *)
Put(table, name, value) ==
    [n \in DOMAIN table \cup {name} |-> IF n = name THEN value ELSE table[n]]
Register(ctx, name, spec) == [ctx EXCEPT !.reg = Put(@, name, spec)]
SetDepends(ctx, name, deps) == [ctx EXCEPT !.dep = Put(@, name, deps)]
SetFile(ctx, name, file) == [ctx EXCEPT !.file = Put(@, name, file)]
is_registered(ctx, parts) == parts \in DOMAIN ctx.reg

MsgSpecOf(text, full, package, fields) ==
    [fields |-> fields, constants |-> Of(text, "const"), text |-> text,
     full_name |-> full, package |-> package,
     header |-> fields # <<>> /\ fields[1].type = Type(HEADER_FULL_NAME, <<>>)
                /\ fields[1].name = "header"]
Registered(ctx, spec, err) ==
    IF err # "none" THEN [err |-> err, ctx |-> ctx]
    ELSE [err |-> "none", ctx |-> Register(ctx, spec.full_name, spec), spec |-> spec]
load_msg_from_string(ctx, text, full) ==
    LET names == package_resource_name(full)
        lines == Of(text, "field")
        fields == [i \in DOMAIN lines |-> _load_field_line(lines[i], names.package)]
    IN  Registered(ctx, MsgSpecOf(text, full, names.package, fields),
                   IF names.err # "none" THEN names.err
                   ELSE IF \E i \in DOMAIN text: LineError(text[i]) # "none" THEN "InvalidMsgSpec"
                   ELSE MsgSpecError(fields))

TIME_MSG == <<Field(<<"uint32">>, <<>>, "secs"), Field(<<"uint32">>, <<>>, "nsecs")>>
DURATION_MSG == <<Field(<<"int32">>, <<>>, "secs"), Field(<<"int32">>, <<>>, "nsecs")>>
create_default ==
    LET empty == [reg |-> <<>>, dep |-> <<>>, file |-> <<>>]
    IN  load_msg_from_string(load_msg_from_string(empty, TIME_MSG, <<"time">>).ctx,
                             DURATION_MSG, <<"duration">>).ctx

-----------------------------------------------------------------------------
(* Files: env.path gives a package its directories in order, env.fs the    *)
(* text of the file of a directory and a base name.                        *)

get_msg_file(env, package, base) ==
    LET dirs == IF package \in DOMAIN env.path THEN env.path[package] ELSE <<>>
        holding == {i \in DOMAIN dirs: <<dirs[i], base>> \in DOMAIN env.fs}
    IN  IF holding = {} THEN [err |-> "MsgNotFound"]
        ELSE [err |-> "none", file |-> <<dirs[Min(holding)], base>>]

load_msg_from_file(ctx, env, file, full) == load_msg_from_string(ctx, env.fs[file], full)

(* The file is noted only when it could be loaded.                         *)
LoadedFrom(loaded, full, file) ==
    IF loaded.err # "none" THEN loaded ELSE [loaded EXCEPT !.ctx = SetFile(@, full, file)]
LoadFound(ctx, env, full, at) ==
    IF at.err # "none" THEN [err |-> at.err, ctx |-> ctx]
    ELSE LoadedFrom(load_msg_from_file(ctx, env, at.file, full), full, at.file)
load_msg_by_type(ctx, env, type) ==
    LET full == IF type = HEADER THEN HEADER_FULL_NAME ELSE type
        names == package_resource_name(full)
    IN  IF names.err # "none" THEN [err |-> names.err, ctx |-> ctx]
        ELSE LoadFound(ctx, env, full, get_msg_file(env, names.package, names.base))

(* load_msg_depends goes through the fields: it loads what is not          *)
(* registered, calls itself for what has no dependencies yet and sets the  *)
(* dependencies of spec after the last field: a type that contains itself  *)
(* has none when it is met again, and the descent ends at the              *)
(* interpreter's limit. A loading is the exception, the context and the    *)
(* calls that have not returned, the innermost last: of each the           *)
(* specification, the number of the next field and the dependencies so far.*)
Call(spec) == [spec |-> spec, at |-> 1, deps |-> <<>>]
FieldType(call) ==
    resolve_type(bare_msg_type(call.spec.fields[call.at].type), call.spec.package).parts
NextField(call, deps) == [spec |-> call.spec, at |-> call.at + 1, deps |-> deps]

LoadUnlessRegistered(ctx, env, t) ==
    IF Len(t) > 2 THEN [err |-> "ValueError", ctx |-> ctx]
    ELSE IF is_registered(ctx, t) THEN [err |-> "none", ctx |-> ctx]
    ELSE load_msg_by_type(ctx, env, t)

Descends(ctx, calls, t) ==
    [err |-> IF Len(calls) = RecursionLimit THEN "RecursionError" ELSE "none",
     ctx |-> ctx, calls |-> Append(calls, Call(ctx.reg[t]))]
Depending(calls, loaded, t) ==
    IF loaded.err = "none" /\ t \notin DOMAIN loaded.ctx.dep THEN Descends(loaded.ctx, calls, t)
    ELSE [err |-> loaded.err, ctx |-> loaded.ctx, calls |-> calls]

LoadStep(loading, env) ==
    LET call == Last(loading.calls)
        outer == Front(loading.calls)
        t == FieldType(call)
    IN  IF loading.err # "none" \/ loading.calls = <<>> THEN loading
        ELSE IF call.at \notin DOMAIN call.spec.fields
        THEN [err |-> "none", ctx |-> SetDepends(loading.ctx, call.spec.full_name, call.deps),
              calls |-> outer]
        ELSE IF is_builtin(t)
        THEN [loading EXCEPT !.calls = Append(outer, NextField(call, call.deps))]
        ELSE Depending(Append(outer, NextField(call, Append(call.deps, t))),
                       LoadUnlessRegistered(loading.ctx, env, t), t)
Loading(ctx, env, spec) ==
    LET loading[n \in 0..LoadSteps] ==
            IF n = 0 THEN [err |-> "none", ctx |-> ctx, calls |-> <<Call(spec)>>]
            ELSE LoadStep(loading[n - 1], env)
    IN  loading

Returned(loading) ==
    [err |-> IF loading.err = "none" /\ loading.calls # <<>> THEN "Unfinished" ELSE loading.err,
     ctx |-> loading.ctx]
load_msg_depends(ctx, env, spec) == Returned(Loading(ctx, env, spec)[LoadSteps])

load_depends(ctx, env, spec) == load_msg_depends(ctx, env, spec)

get_all_depends(ctx, name) ==
    LET all[n \in DOMAIN ctx.dep] ==
            FlattenSeq([i \in DOMAIN ctx.dep[n] |-> <<ctx.dep[n][i]>> \o all[ctx.dep[n][i]]])
    IN  all[name]

_unique_deps(deps) ==
    LET unique[i \in 0..Len(deps)] ==
            IF i = 0 THEN <<>>
            ELSE LET before == unique[i - 1]
                 IN  IF Contains(before, deps[i]) THEN before ELSE Append(before, deps[i])
    IN  unique[Len(deps)]

(* The digest stands for the hash of the text that is hashed. An embedded  *)
(* type counts with its digest, without the brackets of an array of it.    *)
md5_lines(spec, text) ==
    [i \in DOMAIN spec.constants |->
        <<"const", spec.constants[i].type, spec.constants[i].name, spec.constants[i].val>>]
    \o [i \in DOMAIN spec.fields |->
        LET f == spec.fields[i]
        IN  IF is_builtin(f.type.parts) THEN <<"builtin", f.type, f.name>>
            ELSE <<"message", text[f.type.parts], f.name>>]
compute_md5_text(ctx, spec) ==
    LET text[n \in DOMAIN ctx.reg] == md5_lines(ctx.reg[n], text)
    IN  md5_lines(spec, text)
compute_md5(ctx, spec) == compute_md5_text(ctx, spec)

(* The two halves of a service are hashed one after the other with nothing *)
(* between them: lines are separated within a half only.                   *)
Joined(lines) == IF lines = <<>> THEN <<>>
                 ELSE Tail(FlattenSeq([i \in DOMAIN lines |-> <<<<"newline">>, lines[i]>>]))
(* A mutant: the response is left out of the hash.                         *)
RequestDigest(ctx, srv) == Joined(compute_md5_text(ctx, srv.request))

compute_srv_md5(ctx, srv) ==
    Joined(compute_md5_text(ctx, srv.request)) \o Joined(compute_md5_text(ctx, srv.response))

(* The text of the message and of every type it embeds, each once.         *)
compute_full_text(ctx, spec) ==
    LET deps == _unique_deps(get_all_depends(ctx, spec.full_name))
    IN  <<[msg |-> spec.full_name, text |-> spec.text]>>
        \o [i \in DOMAIN deps |-> [msg |-> deps[i], text |-> ctx.reg[deps[i]].text]]

(* A service: what comes before the first delimiter and what comes after,  *)
(* every line cut at its first #, the value of a string constant too.      *)
NoComment == ""
Cut(l) ==
    IF l.k = "const" /\ l.type = "string" THEN [l EXCEPT !.val = <<@[1], NoComment>>] ELSE l
CutLines(text, places) ==
    LET lines == LinesAt(text, places) IN [i \in DOMAIN lines |-> Cut(lines[i])]
SrvSpec(request, response) ==
    IF response.err # "none" THEN response
    ELSE [err |-> "none", ctx |-> response.ctx,
          spec |-> [request |-> request.spec, response |-> response.spec]]
WithResponse(request, text, full) ==
    IF request.err # "none" THEN request
    ELSE SrvSpec(request, load_msg_from_string(request.ctx, text, full))
load_srv_from_string(ctx, text, package, name) ==
    LET delimiters == {i \in DOMAIN text: text[i] = Delimiter}
        first == {i \in DOMAIN text: \A d \in delimiters: i < d}
        second == {i \in DOMAIN text \ delimiters: \E d \in delimiters: d < i}
    IN  WithResponse(load_msg_from_string(ctx, CutLines(text, first), <<package, name \o "Request">>),
                     CutLines(text, second), <<package, name \o "Response">>)

SrvFrom(loaded, file, package, name) ==
    IF loaded.err # "none" THEN loaded
    ELSE [loaded EXCEPT !.ctx = SetFile(SetFile(@, <<package, name \o "Request">>, file),
                                        <<package, name \o "Response">>, file)]
load_srv_from_file(ctx, env, file, package, name) ==
    SrvFrom(load_srv_from_string(ctx, env.fs[file], package, name), file, package, name)

SrvDepends(request, env, srv) ==
    IF request.err # "none" THEN request ELSE load_depends(request.ctx, env, srv.response)
load_srv_depends(ctx, env, srv) == SrvDepends(load_depends(ctx, env, srv.request), env, srv)
=============================================================================
