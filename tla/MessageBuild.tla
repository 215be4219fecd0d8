---------------------------- MODULE MessageBuild ----------------------------
(* The generation of message code in a catkin build: cmake computes the    *)
(* dependencies of every .msg and .srv file once (genmsg.deps), every make *)
(* first verifies them (genmsg_check_deps.py) and then runs one generator  *)
(* process for every file and language that is out of date, several at a   *)
(* time. Files are edited between builds.                                  *)
(*                                                                         *)
(* genmsg_py.py opens its output before it loads the dependencies;         *)
(* the nodejs generator collects its output in memory, then writes the     *)
(* file, the index of its directory and the index of the package; the      *)
(* templates of gencpp open the output when everything is loaded.          *)
EXTENDS MsgSpec, FiniteSets

CONSTANTS Targets,        \* the files of the package that are generated
          KindOf,         \* of a target: "msg" or "srv"
          Jobs,           \* the generators each is given to: pairs with a language
          Path,           \* the directories of each package, in order
          Variants,       \* the texts each file may have
          Initial,        \* the texts at the start
          Package,        \* the package that is built
          MaxJobs,        \* how many generators make runs at a time
          MaxEdits,       \* bound on the edits and kills of a behaviour
          DeletesOnError  \* whether make removes the output of a failed rule

ASSUME BuildAssumption ==
    /\ MaxJobs \in Nat \ {0} /\ MaxEdits \in Nat
    /\ Jobs \subseteq Targets \X {"py", "nodejs", "cpp"}
    /\ KindOf \in [Targets -> {"msg", "srv"}]
    /\ DeletesOnError \in BOOLEAN

VARIABLES fs,       \* the text of every file
          edits,    \* how many edits and kills there were
          rules,    \* what cmake configured for every target, <<>> before
          phase,    \* "idle", "checked", "succeeded" or "failed"
          job,      \* the step of every generator process
          out,      \* the generated files
          newer,    \* for every generated file, what was edited after it
          index,    \* the kinds whose directory has an index
          package,  \* what the index of the package names
          seen,     \* what each nodejs process saw before it writes that index
          overlap,  \* some nodejs processes have run at the same time
          killed    \* the build has been killed

vars == <<fs, edits, rules, phase, job, out, newer, index, package, seen, overlap, killed>>

Nothing == [whole |-> FALSE, digest |-> <<>>]
Env == [path |-> Path, fs |-> fs]
File(t) == <<Path[Package][1], t>>

(* Lines: the type of a field has a part, a constant has a type, a name    *)
(* and a value.                                                            *)
IsText(text) ==
    /\ text \in Seq(ToSet(text))
    /\ \A l \in ToSet(text):
         /\ l.k = "field" => l.type.parts \in Seq(ToSet(l.type.parts)) \ {<<>>}
         /\ l.k = "const" => l = Const(l.type, l.name, l.val)

(* add_message_files and add_service_files refuse a file that is not there,*)
(* and a package has a name.                                               *)
ASSUME SourcesAssumption ==
    /\ NoPackage \notin DOMAIN Path /\ Package \in DOMAIN Path
    /\ \A p \in DOMAIN Path: Path[p] \in Seq(ToSet(Path[p]))
    /\ \A t \in Targets: File(t) \in DOMAIN Initial
    /\ \A t \in Targets: t \o "Request" # t \o "Response"
    /\ \A f \in DOMAIN Initial: \A text \in Variants[f] \cup {Initial[f]}: IsText(text)

(* What is loaded for a target: its specification, its dependencies and    *)
(* the digest that is written into the output.                             *)
LoadSpec(t) ==
    IF KindOf[t] = "msg" THEN load_msg_from_file(create_default, Env, File(t), <<Package, t>>)
    ELSE load_srv_from_file(create_default, Env, File(t), Package, t)
DependsOf(t, loaded) ==
    IF KindOf[t] = "msg" THEN load_depends(loaded.ctx, Env, loaded.spec)
    ELSE load_srv_depends(loaded.ctx, Env, loaded.spec)
LoadDepends(t) == DependsOf(t, LoadSpec(t))
DigestOf(t, spec, all) ==
    IF KindOf[t] = "msg" THEN compute_md5(all.ctx, spec) ELSE compute_srv_md5(all.ctx, spec)
compute_digest(t) == DigestOf(t, LoadSpec(t).spec, LoadDepends(t))

SpecHalves(t, spec) == IF KindOf[t] = "msg" THEN {spec} ELSE {spec.request, spec.response}
Halves(t) == SpecHalves(t, LoadSpec(t).spec)
Found(loaded, all, types) ==
    IF loaded.err # "none" THEN [err |-> loaded.err]
    ELSE IF all.err # "none" THEN [err |-> all.err]
    ELSE [err |-> "none", types |-> types, files |-> {all.ctx.file[d]: d \in types}]

(* A mutant: the dependencies of the dependencies are not followed.        *)
DirectOf(halves, loaded, all) ==
    Found(loaded, all, UNION {ToSet(all.ctx.dep[s.full_name]): s \in halves})
DirectDependencies(t) == DirectOf(Halves(t), LoadSpec(t), LoadDepends(t))

(* find_msg_dependencies_with_type and find_srv_dependencies_with_type.    *)
AllOf(halves, loaded, all) ==
    Found(loaded, all, UNION {ToSet(get_all_depends(all.ctx, s.full_name)): s \in halves})
Dependencies(t) == AllOf(Halves(t), LoadSpec(t), LoadDepends(t))

Init ==
    /\ fs = Initial
    /\ edits = 0
    /\ rules = [t \in Targets |-> [types |-> {}, files |-> {}, configured |-> FALSE]]
    /\ phase = "idle"
    /\ job = [j \in Jobs |-> "none"]
    /\ out = [j \in Jobs |-> Nothing]
    /\ newer = [j \in Jobs |-> DOMAIN Initial]
    /\ index = {}
    /\ package = {}
    /\ seen = [j \in Jobs |-> {}]
    /\ overlap = FALSE
    /\ killed = FALSE

Resting == phase \in {"idle", "succeeded", "failed"}

(* The user saves a file: it is newer than everything generated so far.    *)
Edit ==
    /\ Resting /\ edits < MaxEdits
    /\ \E f \in DOMAIN fs: \E text \in Variants[f] \ {fs[f]}:
         /\ fs' = [fs EXCEPT ![f] = text]
         /\ newer' = [j \in Jobs |-> newer[j] \cup {f}]
    /\ edits' = edits + 1
    /\ phase' = "idle"
    /\ UNCHANGED <<rules, job, out, index, package, seen, overlap, killed>>

(* cmake: a dependency that is not found ends it, and the rules stay.      *)
RulesFor(found) ==
    /\ \A t \in Targets: found[t].err = "none"
    /\ rules' = [t \in Targets |-> [types |-> found[t].types, files |-> found[t].files,
                                    configured |-> TRUE]]
Configure ==
    /\ phase = "idle"
    /\ RulesFor([t \in Targets |-> Dependencies(t)])
    /\ UNCHANGED <<fs, edits, phase, job, out, newer, index, package, seen, overlap, killed>>

(* genmsg_check_deps.py looks at the types of the fields of the file       *)
(* itself, not at what these depend on.                                    *)
DepsUnchanged(t) ==
    LET loaded == LoadSpec(t)
        types(s) == {resolve_type(bare_msg_type(s.fields[i].type), Package).parts:
                       i \in DOMAIN s.fields}
        deps == UNION {types(s): s \in Halves(t)}
    IN  loaded.err = "none"
        /\ \A d \in deps: is_builtin(d) \/ d \in rules[t].types

Check ==
    /\ Resting
    /\ \A t \in Targets: rules[t].configured
    /\ phase' = IF \A t \in Targets: DepsUnchanged(t) THEN "checked" ELSE "failed"
    /\ job' = [j \in Jobs |-> "none"]
    /\ UNCHANGED <<fs, edits, rules, out, newer, index, package, seen, overlap, killed>>

Running == {j \in Jobs: job[j] \notin {"none", "done", "failed"}}
Failed == \E j \in Jobs: job[j] = "failed"
Made(j) == out[j] # Nothing
OutOfDate(j) == ~Made(j) \/ newer[j] \cap (rules[j[1]].files \cup {File(j[1])}) # {}

(* make starts a generator for an output that is out of date; after a      *)
(* failure it starts no more.                                              *)
Start(j) ==
    /\ phase = "checked" /\ ~Failed
    /\ job[j] = "none" /\ OutOfDate(j)
    /\ Cardinality(Running) < MaxJobs
    /\ job' = [job EXCEPT ![j] = "loading"]
    /\ overlap' = (overlap \/ (j[2] = "nodejs" /\ \E k \in Running: k[2] = "nodejs"))
    /\ UNCHANGED <<fs, edits, rules, phase, out, newer, index, package, seen, killed>>

Written(j) == out' = [out EXCEPT ![j] = [whole |-> TRUE, digest |-> compute_digest(j[1])]]
Fails(j) ==
    /\ job' = [job EXCEPT ![j] = "failed"]
    /\ UNCHANGED <<fs, edits, rules, phase, index, package, seen, overlap, killed>>

(* Generator.generate: the specification is loaded, the output is opened,  *)
(* and only then msg_generator loads the dependencies.                     *)
OpenOutput(j) ==
    /\ j[2] = "py" /\ job[j] = "loading" /\ LoadSpec(j[1]).err = "none"
    /\ job' = [job EXCEPT ![j] = "writing"]
    /\ out' = [out EXCEPT ![j] = [whole |-> FALSE, digest |-> <<"open">>]]
    /\ newer' = [newer EXCEPT ![j] = {}]
    /\ UNCHANGED <<fs, edits, rules, phase, index, package, seen, overlap, killed>>

WriteOutput(j) ==
    /\ j[2] = "py" /\ job[j] = "writing" /\ LoadDepends(j[1]).err = "none"
    /\ Written(j)
    /\ job' = [job EXCEPT ![j] = "done"]
    /\ UNCHANGED <<fs, edits, rules, phase, newer, index, package, seen, overlap, killed>>

GenerateMessagesFails(j) ==
    /\ j[2] = "py" /\ job[j] = "writing" /\ LoadDepends(j[1]).err # "none"
    /\ out' = [out EXCEPT ![j] = IF DeletesOnError THEN Nothing ELSE @]
    /\ Fails(j) /\ UNCHANGED newer

(* template_tools and gennodejs open nothing before everything is loaded.  *)
(* gennodejs also loads every other file of the kind in the package, for   *)
(* the index of the directory.                                             *)
SiblingsLoad(t) ==
    \A u \in Targets: KindOf[u] = KindOf[t] => LoadSpec(u).err = "none"
Loads(j) ==
    /\ LoadSpec(j[1]).err = "none" /\ LoadDepends(j[1]).err = "none"
    /\ j[2] = "nodejs" => SiblingsLoad(j[1])
Generates(j, next) ==
    /\ job[j] = "loading" /\ Loads(j)
    /\ Written(j)
    /\ newer' = [newer EXCEPT ![j] = {}]
    /\ job' = [job EXCEPT ![j] = next]
    /\ UNCHANGED <<fs, edits, rules, phase, index, package, seen, overlap, killed>>

generate_from_file(j) == j[2] = "cpp" /\ Generates(j, "done")
generate_msg_from_spec(j) ==
    j[2] = "nodejs" /\ KindOf[j[1]] = "msg" /\ Generates(j, "index")
generate_srv_from_spec(j) ==
    j[2] = "nodejs" /\ KindOf[j[1]] = "srv" /\ Generates(j, "index")

GenerateFails(j) ==
    /\ j[2] # "py" /\ job[j] = "loading" /\ ~Loads(j)
    /\ Fails(j) /\ UNCHANGED <<out, newer>>

(* gennodejs: the index of the directory, then the index of the package,   *)
(* which names the directories that have one when write_package_index      *)
(* looks.                                                                  *)
WritesIndex(j, kind) ==
    /\ job[j] = "index" /\ KindOf[j[1]] = kind
    /\ index' = index \cup {kind}
    /\ job' = [job EXCEPT ![j] = "look"]
    /\ UNCHANGED <<fs, edits, rules, phase, out, newer, package, seen, overlap, killed>>
write_msg_index(j) == WritesIndex(j, "msg")
write_srv_index(j) == WritesIndex(j, "srv")

LookForIndexes(j) ==
    /\ job[j] = "look"
    /\ seen' = [seen EXCEPT ![j] = index]
    /\ job' = [job EXCEPT ![j] = "package"]
    /\ UNCHANGED <<fs, edits, rules, phase, out, newer, index, package, overlap, killed>>

write_package_index(j) ==
    /\ job[j] = "package"
    /\ package' = seen[j]
    /\ seen' = [seen EXCEPT ![j] = {}]
    /\ job' = [job EXCEPT ![j] = "done"]
    /\ UNCHANGED <<fs, edits, rules, phase, out, newer, index, overlap, killed>>

(* make ends: with success when nothing is out of date any more.           *)
EndBuild ==
    /\ phase = "checked" /\ Running = {}
    /\ Failed \/ \A j \in Jobs: ~OutOfDate(j)
    /\ phase' = IF Failed THEN "failed" ELSE "succeeded"
    /\ job' = [j \in Jobs |-> "none"]
    /\ UNCHANGED <<fs, edits, rules, out, newer, index, package, seen, overlap, killed>>

(* The machine stops, or everything is killed at once.                     *)
Kill ==
    /\ phase = "checked" /\ Running # {} /\ edits < MaxEdits
    /\ edits' = edits + 1
    /\ killed' = TRUE
    /\ phase' = "failed"
    /\ job' = [j \in Jobs |-> "none"]
    /\ seen' = [j \in Jobs |-> {}]
    /\ UNCHANGED <<fs, rules, out, newer, index, package, overlap>>

Next ==
    \/ Edit \/ Configure \/ Check \/ EndBuild \/ Kill
    \/ \E j \in Jobs:
         \/ Start(j) \/ OpenOutput(j) \/ WriteOutput(j) \/ GenerateMessagesFails(j)
         \/ generate_from_file(j) \/ generate_msg_from_spec(j)
         \/ generate_srv_from_spec(j) \/ GenerateFails(j)
         \/ write_msg_index(j) \/ write_srv_index(j) \/ LookForIndexes(j) \/ write_package_index(j)

Spec == Init /\ [][Next]_vars
-----------------------------------------------------------------------------
Current(j) == out[j].whole /\ out[j].digest = compute_digest(j[1])
Covered(t, found) == found.err = "none" /\ found.files \subseteq rules[t].files
Tracked == \A t \in Targets: Covered(t, Dependencies(t))

(* After a build that succeeded, every generated file of every language    *)
(* carries the digest of the files as they are: provided the rules name    *)
(* all that the messages depend on, and no build was killed (a killed      *)
(* genmsg_py.py leaves an open file that is newer than its sources).       *)
BuildIsCurrent ==
    phase = "succeeded" /\ Tracked /\ ~killed => \A j \in Jobs: Current(j)

(* "verify that message/service dependencies have not changed since        *)
(* configure" (pkg-genmsg.cmake.em): a build that passes the verification  *)
(* and succeeds leaves no code of an older definition behind.              *)
VerifiedMeansCurrent ==
    phase = "succeeded" /\ ~killed => \A j \in Jobs: Current(j)

(* The index of the package never names a directory without an index, and  *)
(* when a build has succeeded it names them all: unless nodejs processes   *)
(* ran at the same time, when the one that writes last may have looked     *)
(* before the other's directory had its index.                             *)
PackageIndexComplete ==
    /\ package \subseteq index
    /\ phase = "succeeded" /\ ~killed /\ ~overlap => package = index

Sections(full) == [i \in DOMAIN full |-> full[i].msg]
OneForEachType(ctx, sections) ==
    /\ IsInjective(sections)
    /\ \A m \in ToSet(sections): \A i \in DOMAIN ctx.reg[m].fields:
         \/ is_builtin(ctx.reg[m].fields[i].type.parts)
         \/ ctx.reg[m].fields[i].type.parts \in ToSet(sections)
SelfContained(t, loaded, all) ==
    loaded.err = "none" /\ all.err = "none" =>
    \A s \in SpecHalves(t, loaded.spec):
        OneForEachType(all.ctx, Sections(compute_full_text(all.ctx, s)))

(* The full text of a message, which travels in connection headers, has a  *)
(* section for every type that some section uses, and only one.            *)
DefinitionSelfContained ==
    phase = "idle" => \A t \in Targets: SelfContained(t, LoadSpec(t), LoadDepends(t))

\* What a build that succeeds leaves is the code of the definitions as they are,
\* with its index, and a definition that is sent along can be read without any
\* file.
BuildSound == BuildIsCurrent /\ PackageIndexComplete /\ DefinitionSelfContained
=============================================================================
