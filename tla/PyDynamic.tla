----------------------------- MODULE PyDynamic ------------------------------
(* genpy's generate_dynamic: Python classes made from the definition that  *)
(* comes with a connection or a bag, without any file. The definition is   *)
(* the text of compute_full_text, taken apart at its separators: parts     *)
(* with the type in the line after the separator. A separator is no legal  *)
(* line of a definition, so none is inside a part. All classes go into one *)
(* module, where a class q.msg.T is called _q__T.                          *)
EXTENDS PyMessage

LegacyHeader == <<"roslib", "Header">>

(* The text's roslib/Header becomes std_msgs/Header.                       *)
CurrentHeader(parts) == IF parts = LegacyHeader THEN HEADER_FULL_NAME ELSE parts
Rep100(part) ==
    [msg |-> CurrentHeader(part.msg),
     text |-> [i \in DOMAIN part.text |->
                 IF part.text[i].k = "field"
                 THEN [part.text[i] EXCEPT !.type.parts = CurrentHeader(@)] ELSE part.text[i]]]

(* One part; msg is <<>> when its first line names no type.                *)
_generate_dynamic_specs(acc, part) ==
    LET loaded == load_msg_from_string(create_default, part.text, part.msg)
        err == IF part.msg = <<>> THEN "MsgGenerationException" ELSE loaded.err
    IN  IF acc.err # "none" THEN acc
        ELSE IF err # "none" THEN [acc EXCEPT !.err = err]
        ELSE [acc EXCEPT !.specs = (part.msg :> loaded.spec) @@ @]

_gen_dyn_name(type) == "_" \o type[1] \o "__" \o type[2]

(* A reference to a class of the definition becomes one to a class of the  *)
(* module, and the packages of the definition are not imported.            *)
_gen_dyn_modify_references(classes, types) ==
    {IF c \in types THEN <<_gen_dyn_name(c)>> ELSE c: c \in classes}
KeptImports(imports, types) == imports \ {t[1]: t \in types}

DynamicClass(ctx, spec, types) ==
    [spec |-> spec,
     md5 |-> compute_md5(ctx, spec),
     imports |-> KeptImports(Imports(ctx, spec.package, spec.fields), types),
     names |-> _gen_dyn_modify_references(NamedClasses(ctx, spec.package, spec.fields), types)]

(* There are no search paths: a type that has no part is not found.        *)
NoFiles == [path |-> <<>>, fs |-> <<>>]
Classes(ctx, specs, types) ==
    LET errs == {load_depends(ctx, NoFiles, specs[t]).err: t \in types} \ {"none"}
        module == [name \in {_gen_dyn_name(t): t \in types} |->
                     DynamicClass(ctx, specs[CHOOSE t \in types: _gen_dyn_name(t) = name], types)]
    IN  IF errs # {} THEN [err |-> CHOOSE e \in errs: TRUE]
        ELSE [err |-> "none", messages |-> [t \in types |-> module[_gen_dyn_name(t)]]]

generate_dynamic(core_type, msg_cat) ==
    LET parts == [i \in DOMAIN msg_cat |->
                    [Rep100(msg_cat[i]) EXCEPT !.msg = IF i = 1 THEN core_type ELSE @]]
        made(read) ==
            IF read.err # "none" THEN [err |-> read.err]
            ELSE Classes([create_default EXCEPT !.reg = read.specs @@ @], read.specs,
                         DOMAIN read.specs)
    IN  made(FoldLeft(_generate_dynamic_specs, [err |-> "none", specs |-> <<>>], parts))
=============================================================================
