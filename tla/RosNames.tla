------------------------------ MODULE RosNames ------------------------------
(* Names of nodes, topics and parameters: roslib.names in Python, and      *)
(* names.cpp and this_node.cpp, with which the nodes themselves resolve.   *)
(*                                                                         *)
(* A name is a sequence of characters: "/" and "~", letters and what else  *)
(* a name may have in it. An argument of a command line is the sequence of *)
(* what is between its ":=", each a name.                                  *)
EXTENDS Integers, Sequences, SequencesExt, FiniteSets, TLC

SEP == "/"
PRIV_NAME == "~"
GLOBALNS == <<SEP>>
isalpha(c) == c \in {"a", "b", "n", "s"}
isalnum(c) == isalpha(c) \/ c = "1"

NsKey == <<"_", "_", "n", "s">>     \* __ns
NameKey == <<"_", "_", "n">>        \* __name

(* An operation that may raise returns a record with the exception in err. *)
Named(name) == [err |-> "none", name |-> name]
Refuses(err) == [err |-> err, name |-> <<>>]

StartsWith(name, c) == name # <<>> /\ name[1] = c
EndsWith(name, c) == name # <<>> /\ Last(name) = c
DoubleSep(name) == \E i \in 1..(Len(name) - 1): name[i] = SEP /\ name[i + 1] = SEP
Positions(name, c) == {0} \cup {i \in DOMAIN name: name[i] = c}
OrGiven(mappings, key, default) == IF key \in DOMAIN mappings THEN mappings[key] ELSE default
LastSep(name) == CHOOSE i \in Positions(name, SEP): \A j \in Positions(name, SEP): j <= i

-----------------------------------------------------------------------------
(* roslib/names.py.                                                        *)

is_global(name) == StartsWith(name, SEP)
is_private(name) == StartsWith(name, PRIV_NAME)

make_global_ns(name) ==
    LET global == IF is_global(name) THEN name ELSE <<SEP>> \o name
    IN  IF is_private(name) THEN Refuses("ValueError")
        ELSE Named(IF EndsWith(global, SEP) THEN global ELSE Append(global, SEP))

(* The first argument __ns:=... counts, and before the environment.        *)
get_ros_namespace(env, argv) ==
    LET given == SelectSeq(argv, LAMBDA a: Len(a) > 1 /\ a[1] = NsKey)
    IN  make_global_ns(IF given # <<>> THEN given[1][2] ELSE env)

namespace(name) ==
    LET stripped == IF EndsWith(name, SEP) THEN Front(name) ELSE name
        parent == SubSeq(stripped, 1, LastSep(stripped))
    IN  IF parent = <<>> THEN <<SEP>> ELSE parent

ns_join(ns, name) ==
    IF is_private(name) \/ is_global(name) THEN name
    ELSE IF ns = <<PRIV_NAME>> THEN <<PRIV_NAME>> \o name
    ELSE IF ns = <<>> THEN name
    ELSE IF EndsWith(ns, SEP) THEN ns \o name
    ELSE ns \o <<SEP>> \o name

make_caller_id(env, argv, name) ==
    LET ns == get_ros_namespace(env, argv)
    IN  IF ns.err # "none" THEN ns ELSE make_global_ns(ns_join(ns.name, name))

(* Arguments with one ":=" and something on both sides of it, except the   *)
(* assignments of parameters, _x:=...; the last one for a name counts.     *)
IsMapping(a) ==
    /\ Len(a) = 2 /\ a[1] # <<>> /\ a[2] # <<>>
    /\ ~(Len(a[1]) > 1 /\ a[1][1] = "_" /\ a[1][2] # "_")
load_mappings(argv) ==
    FoldLeft(LAMBDA m, a: IF IsMapping(a) THEN (a[1] :> a[2]) @@ m ELSE m, <<>>, argv)

Split(name) ==
    FoldLeft(LAMBDA parts, c: IF c = SEP THEN Append(parts, <<>>)
                              ELSE [parts EXCEPT ![Len(parts)] = Append(@, c)], <<<<>>>>, name)
Join(parts) ==
    IF parts = <<>> THEN <<>>
    ELSE Tail(FlattenSeq([i \in DOMAIN parts |-> <<SEP>> \o parts[i]]))

canonicalize_name(name) ==
    IF name \in {<<>>, GLOBALNS} THEN name
    ELSE (IF is_global(name) THEN <<SEP>> ELSE <<>>)
         \o Join(SelectSeq(Split(name), LAMBDA p: p # <<>>))

Remapped(resolved, remappings) == OrGiven(remappings, resolved, resolved)
ResolvedIn(name, node) ==
    IF is_global(name) THEN name
    ELSE IF is_private(name) THEN canonicalize_name(node \o <<SEP>> \o Tail(name))
    ELSE namespace(node) \o name

(* A mutant: the rest of a private name is joined with ns_join.            *)
JoinsPrivate(name, node, remappings) ==
    IF is_private(name) THEN Remapped(ns_join(node, Tail(name)), remappings)
    ELSE Remapped(ResolvedIn(canonicalize_name(name), node), remappings)

(* node is the name of the node. An empty name is the namespace of the     *)
(* node, with its separator, and is not remapped.                          *)
resolve_name(name, node, remappings) ==
    IF name = <<>> THEN namespace(node)
    ELSE Remapped(ResolvedIn(canonicalize_name(name), node), remappings)

(* The regular expressions.                                                *)
AllWord(chars, more) == \A i \in DOMAIN chars: isalnum(chars[i]) \/ chars[i] \in {"_"} \cup more
is_legal_resource_name(name) ==
    name # <<>> /\ isalpha(name[1]) /\ AllWord(Tail(name), {SEP}) /\ ~DoubleSep(name)
is_legal_name(name) ==
    name = <<>> \/ /\ isalpha(name[1]) \/ name[1] \in {SEP, PRIV_NAME}
                   /\ AllWord(Tail(name), {SEP}) /\ ~DoubleSep(name)
is_legal_base_name(name) == name # <<>> /\ isalpha(name[1]) /\ AllWord(Tail(name), {})
is_legal_resource_base_name(name) == is_legal_base_name(name)

(* Resources: a type is in a package. None is <<>>. split_resource_name is *)
(* package_resource_name.                                                  *)
resource_name(res_pkg_name, name, my_pkg) ==
    IF res_pkg_name # my_pkg THEN res_pkg_name \o <<SEP>> \o name ELSE name
resource_name_base(name) == SubSeq(name, LastSep(name) + 1, Len(name))
resource_name_package(name) == IF Contains(name, SEP) THEN Split(name)[1] ELSE <<>>
split_resource_name(name) ==
    LET parts == Split(name)
    IN  IF Len(parts) > 2 THEN Refuses("ValueError")
        ELSE [err |-> "none", package |-> IF Len(parts) = 2 THEN parts[1] ELSE <<>>,
              name |-> Last(parts)]

(* host stands for the name of the machine with what follows it.           *)
anonymous_name(id, host) ==
    LET name == id \o <<"_">> \o host
    IN  [i \in DOMAIN name |-> IF name[i] \in {".", "-", ":"} THEN "_" ELSE name[i]]

-----------------------------------------------------------------------------
(* names.cpp. A node is a record: its name, its namespace and its          *)
(* remappings from resolved to resolved names.                             *)

validate(name) ==
    name = <<>> \/ /\ isalpha(name[1]) \/ name[1] \in {SEP, PRIV_NAME}
                   /\ AllWord(Tail(name), {SEP})

(* The last character of an empty name is read too; the byte in front of   *)
(* an empty std::string is 0.                                              *)
WithoutLastSep(name) == IF EndsWith(name, SEP) THEN Front(name) ELSE name
clean(name) ==
    WithoutLastSep(FoldLeft(LAMBDA s, c: IF c = SEP /\ EndsWith(s, SEP) THEN s ELSE Append(s, c),
                            <<>>, name))
append(left, right) == clean(left \o <<SEP>> \o right)

Private(node, name) ==
    IF is_private(name) THEN append(node.name, Tail(name)) ELSE name
Absolute(ns, name) == IF is_global(name) THEN name ELSE append(<<SEP>>, append(ns, name))

(* resolve(ns, name, false): no remapping.                                 *)
resolve_only(node, ns, name) ==
    IF ~validate(name) THEN Refuses("InvalidNameException")
    ELSE IF name # <<>> THEN Named(clean(Absolute(ns, Private(node, name))))
    ELSE Named(IF ns = <<>> THEN <<SEP>> ELSE IF is_global(ns) THEN ns ELSE append(<<SEP>>, ns))

(* What is looked up is resolved once more: for "/", which clean leaves    *)
(* empty, that is the namespace of the node.                               *)
remap(node, name) ==
    OrGiven(node.remappings, resolve_only(node, node.ns, name).name, name)

ThenRemapped(node, only) == IF only.err # "none" THEN only ELSE Named(remap(node, only.name))
resolve(node, ns, name) ==
    IF name = <<>> THEN resolve_only(node, ns, name)
    ELSE ThenRemapped(node, resolve_only(node, ns, name))

(* init: names with a leading underscore are for the library, and the      *)
(* node's own name, as it was given, is no name to remap. Of two that are  *)
(* the same name when resolved one counts.                                 *)
RemappingsFrom(pairs) ==
    IF \E p \in pairs: p[1].err # "none" \/ p[2].err # "none"
    THEN [err |-> "InvalidNameException"]
    ELSE [err |-> "none",
          remappings |-> [n \in {p[1].name: p \in pairs} |->
                            (CHOOSE p \in pairs: p[1].name = n)[2].name]]
init(node, mappings) ==
    RemappingsFrom({<<resolve_only(node, node.ns, l), resolve_only(node, node.ns, mappings[l])>>:
                    l \in {l \in DOMAIN mappings: l # <<>> /\ l[1] # "_" /\ l # node.name}})

parentNamespace(name) ==
    LET stripped == IF EndsWith(name, SEP) THEN SubSeq(name, 1, Len(name) - 2) ELSE name
        at == LastSep(stripped)
    IN  IF ~validate(name) THEN Refuses("InvalidNameException")
        ELSE IF name \in {<<>>, <<SEP>>} THEN Named(name)
        ELSE Named(IF at = 0 THEN <<>> ELSE IF at = 1 THEN <<SEP>> ELSE SubSeq(stripped, 1, at - 1))

(* this_node.cpp. The remappings are resolved with the name and the        *)
(* namespace, the name is resolved and remapped itself, and the number of  *)
(* an anonymous node comes after all that.                                 *)
Rooted(ns) == IF is_global(ns) THEN ns ELSE <<SEP>> \o ns
NamespaceOf(given) == Rooted(clean(given))

Suffixed(name, anonymous) == IF anonymous THEN name \o <<"_", "1">> ELSE name
NamedAs(node, name, anonymous) ==
    IF name.err # "none" THEN [err |-> name.err]
    ELSE [err |-> "none", node |-> [node EXCEPT !.name = Suffixed(name.name, anonymous)]]
Remapping(node, init_, anonymous) ==
    IF init_.err # "none" THEN init_
    ELSE IF Contains(node.name, SEP) \/ Contains(node.name, PRIV_NAME)
    THEN [err |-> "InvalidNodeNameException"]
    ELSE LET full == [node EXCEPT !.remappings = init_.remappings]
         IN  NamedAs(full, resolve(full, node.ns, node.name), anonymous)
Initialised(node, mappings, anonymous) ==
    IF ~validate(node.ns) THEN [err |-> "InvalidNameException"]
    ELSE Remapping(node, init(node, mappings), anonymous)
ThisNode(name, mappings, env, anonymous) ==
    IF name = <<>> THEN [err |-> "InvalidNameException"]
    ELSE Initialised([name |-> OrGiven(mappings, NameKey, name),
                      ns |-> NamespaceOf(OrGiven(mappings, NsKey, env)),
                      remappings |-> <<>>],
                     mappings, anonymous /\ NameKey \notin DOMAIN mappings)
=============================================================================
