--------------------------- MODULE CatkinIsolated ---------------------------
(***************************************************************************)
(* catkin_make_isolated: build_workspace_isolated of catkin/builder.py,    *)
(* over several invocations ("sessions") in one workspace.  What one       *)
(* session leaves on disk (the marks of the spaces, the cache of the       *)
(* inputs, the Makefiles, the products and the env.sh files) is what the   *)
(* next one decides on; any command may fail and any session may be        *)
(* killed between two steps or in the middle of a cmake run.               *)
(*                                                                         *)
(* A "place" is a prefix products go to: a package's own devel space       *)
(* (named by the package), "devel" (the devel space itself) or "install".  *)
(* make, ninja and nmake differ only in the names of the commands and of   *)
(* the Makefile, and are not told apart; quiet, colours and DESTDIR are    *)
(* left out.                                                               *)
(***************************************************************************)
EXTENDS Naturals, Sequences, FiniteSets, SequencesExt

CONSTANTS
    Packages,     \* the packages a source space may hold
    Order,        \* the list topological_order_packages makes of any set of them
    BuildType,    \* [Packages -> {"catkin", "cmake", "other"}]
    Depends,      \* build, buildtool and run dependencies of each package
    TestDepends,  \* test dependencies of each package
    Format2,      \* packages whose package.xml has format > 1
    NoInstall,    \* catkin packages without an install target
    NoLists,      \* catkin packages with neither CMakeLists.txt nor metapackage tag
    Options,      \* the command lines a session may be started with
    Workspaces,   \* the contents the source space may have
    MaxSessions   \* bound on the number of sessions

Places == Packages \cup {"devel", "install"}
Dirs == Packages \X {"all", "devel", "install"}

ASSUME CatkinAssumption ==
    /\ MaxSessions \in Nat
    /\ BuildType \in [Packages -> {"catkin", "cmake", "other"}]
    /\ Depends \in [Packages -> SUBSET Packages]
    /\ TestDepends \in [Packages -> SUBSET Packages]
    /\ Workspaces \subseteq SUBSET Packages
    /\ {"devel", "install", "none"} \cap Packages = {}
    /\ Options # {}
    /\ \A o \in Options : {o.install, o.merge, o.force, o.continue} \subseteq BOOLEAN

\* topological_order_packages ends its list with a None path when some
\* packages depend on one another.
Circular(pkgs) ==
    \E s \in (SUBSET pkgs) \ {{}} : \A p \in s : Depends[p] \cap s # {}

\* topological_order_packages (catkin_pkg) lists every package once, and its
\* dependencies before it.
ASSUME OrderAssumption ==
    /\ Order \in [SUBSET Packages -> Seq(Packages)]
    /\ \A s \in SUBSET Packages :
          /\ {Order[s][i] : i \in DOMAIN Order[s]} = s
          /\ \A i, j \in DOMAIN Order[s] : Order[s][i] = Order[s][j] => i = j
          /\ ~Circular(s) => \A i, j \in DOMAIN Order[s] :
                               Order[s][j] \in Depends[Order[s][i]] => j < i

VARIABLES
    source,    \* the packages now in the source space
    mark,      \* .built_by of the build and of the devel space
    cache,     \* catkin_make_isolated.cache: packages and arguments, or NoCache
    dir,       \* per build directory: Makefile, what cmake was last run with, and
               \* whether that run failed or was killed half-way
    products,  \* per place: the packages built or installed into it
    env,       \* per place: the places its env.sh puts on the path, or NoEnv
    top,       \* the package the env.sh of a non-merged devel space relays to
    session,   \* the running invocation
    sessions,  \* number of sessions started
    safe       \* history: no session so far defeated the cache (see Plan, End)

vars == <<source, mark, cache, dir, products, env, top, session, sessions, safe>>
disk == <<mark, cache, dir, products, env, top>>

NoCache == [packages |-> {}, args |-> "none"]
NoEnv == {"none"}
NoDir == [makefile |-> FALSE, args |-> "none", prefix |-> "devel",
          path |-> {}, half |-> "no"]
NoPackage == "none"

\* A session that is not running; "last" options are kept for the history.
Idle(o) == [pc |-> "idle", o |-> o, order |-> <<>>, at |-> 0, build |-> {},
            force |-> FALSE, lastEnv |-> "none", ok |-> FALSE]

Init ==
    /\ source \in Workspaces
    /\ mark = [s \in {"build", "devel"} |-> "none"]
    /\ cache = NoCache
    /\ dir = [d \in Dirs |-> NoDir]
    /\ products = [l \in Places |-> {}]
    /\ env = [l \in Places |-> NoEnv]
    /\ top = NoPackage
    /\ session = Idle(CHOOSE o \in Options : TRUE)
    /\ sessions = 0
    /\ safe = TRUE

-----------------------------------------------------------------------------
(* Pure parts *)

\* get_package_names_with_recursive_dependencies: the worklist loop, for
\* the packages pkgs of the workspace and the asked-for names.
WithRecursiveDependencies(pkgs, asked) ==
    LET deps(p) == Depends[p] \cup (IF p \in Format2 THEN TestDepends[p] ELSE {})
        loop[s \in [todo : SUBSET pkgs, found : SUBSET pkgs]] ==
            IF s.todo = {} THEN s.found
            ELSE LET p == CHOOSE q \in s.todo : TRUE
                     todo == s.todo \ {p}
                     found == s.found \cup {p}
                     more == {q \in deps(p) \cap pkgs : q \notin todo /\ q \notin found}
                 IN  loop[[todo |-> todo \cup more, found |-> found]]
    IN  loop[[todo |-> asked \cap pkgs, found |-> {}]]

\* Mutant: the packages in the reverse of their order.
UnsortedOrder(pkgs) == Reverse(Order[pkgs])

\* topological_order_packages (catkin_pkg): dependencies first.
TopologicalOrder(pkgs) == Order[pkgs]

UnknownType(pkgs) == {p \in pkgs : BuildType[p] = "other"}

\* Mutant: the arguments of cmake are not compared.
ForgetsArguments(now, before) == now.packages # before.packages

\* cmake_input_changed: the comparison with the stored input.
InputChanged(now, before) == now # before

-----------------------------------------------------------------------------
(* What a session knows *)

Package == session.order[session.at]

\* pkg_develspace of the loop of build_workspace_isolated.
PkgDevelspace == IF session.o.merge THEN "devel" ELSE Package

\* get_new_env: the place whose env.sh the next package is built with.
NewEnv == IF session.o.install THEN "install" ELSE PkgDevelspace

\* build_dir of build_catkin_package and build_cmake_package.
BuildDirOf(p, o) ==
    <<p, IF BuildType[p] = "catkin" THEN "all"
         ELSE IF o.install THEN "install" ELSE "devel">>
BuildDir == BuildDirOf(Package, session.o)

\* A command is prefixed with last_env: without that file it cannot start.
EnvUsable == session.lastEnv # "none" => env[session.lastEnv] # NoEnv

PathOf(l) == IF l = "none" THEN {} ELSE env[l]

InLoop == session.pc \in {"next", "cmake", "check", "make", "install", "envsh"}

-----------------------------------------------------------------------------
(* Start of a session *)

\* The user changes the source space between two sessions.
EditSources ==
    /\ session.pc = "idle"
    /\ sessions < MaxSessions
    /\ \E w \in Workspaces \ {source} : source' = w
    /\ UNCHANGED <<mark, cache, dir, products, env, top, session, sessions, safe>>

\* Another build tool (catkin_make) uses one of the spaces: it marks a space
\* that catkin_make_isolated has not marked.
OtherTool ==
    /\ session.pc = "idle"
    /\ sessions < MaxSessions
    /\ \E s \in {"build", "devel"} :
          mark[s] = "none" /\ mark' = [mark EXCEPT ![s] = "other"]
    /\ UNCHANGED <<source, cache, dir, products, env, top, session, sessions, safe>>

Begin(o) ==
    /\ session.pc = "idle"
    /\ sessions < MaxSessions
    /\ sessions' = sessions + 1
    /\ session' = [Idle(o) EXCEPT !.pc = "build space", !.build = o.build]
    /\ safe' = (safe /\ (sessions = 0 \/ (/\ o.install = session.o.install
                                          /\ o.merge = session.o.merge)))
    /\ UNCHANGED <<source, disk>>

\* sys.exit, an exception or a signal: the session is over.
End(ok) ==
    /\ session' = [session EXCEPT !.pc = "idle", !.ok = ok]
    /\ safe' = (safe /\ (ok \/ ~InLoop \/ ~session.force))
    /\ UNCHANGED <<source, sessions>>

\* Mutant: every space is taken.
NeverRefuses(s) == TRUE

\* A space another tool has built is refused unless the check is overridden.
Acceptable(s) == mark[s] # "other" \/ session.o.override

\* get_previous_tool_used_on_the_space and mark_space_as_built_by, first for
\* the build space and then for the devel space.
CheckSpace(s, pc, next) ==
    /\ session.pc = pc
    /\ \/ /\ ~Acceptable(s)
          /\ End(FALSE)
          /\ UNCHANGED disk
       \/ /\ Acceptable(s)
          /\ mark' = [mark EXCEPT ![s] = "isolated"]
          /\ session' = [session EXCEPT !.pc = next]
          /\ UNCHANGED <<source, cache, dir, products, env, top, sessions, safe>>

CheckBuildSpace == CheckSpace("build", "build space", "devel space")
CheckDevelSpace == CheckSpace("devel", "devel space", "plan")

\* The packages the session is about: all of the source space, or the
\* asked-for ones and what they depend on.
Considered ==
    IF session.o.only = {} THEN source
    ELSE {p \in source : p \in WithRecursiveDependencies(source, session.o.only)}

Refused ==
    \/ ~(session.o.only \subseteq source)
    \/ ~(session.o.build \subseteq Considered)
    \/ Circular(Considered)
    \/ UnknownType(Considered) # {}

Input == [packages |-> Considered, args |-> session.o.args]

\* Whitelist, checks of the packages, topological order, and the comparison
\* with the cache, which is not made (nor the cache written) under
\* --force-cmake.
Plan ==
    /\ session.pc = "plan"
    /\ \/ /\ Refused
          /\ End(FALSE)
          /\ UNCHANGED disk
       \/ /\ ~Refused
          /\ LET changed == ~session.o.force /\ InputChanged(Input, cache)
             IN  /\ session' = [session EXCEPT !.pc = "next",
                                   !.order = TopologicalOrder(Considered),
                                   !.at = 1,
                                   !.force = session.o.force \/ changed]
                 /\ safe' = (safe /\ ~session.o.force
                                  /\ ~(changed /\ session.o.build # {}))
          /\ cache' = IF session.o.force THEN cache ELSE Input
          /\ UNCHANGED <<source, mark, dir, products, env, top, sessions>>

-----------------------------------------------------------------------------
(* The loop over the packages *)

MorePackages == session.pc = "next" /\ session.at <= Len(session.order)
Wanted == session.build = {} \/ Package \in session.build

\* A package that is not asked for: only the chain of environments goes on,
\* with an env.sh that nobody looks for.
Skip ==
    /\ MorePackages
    /\ ~Wanted
    /\ session' = [session EXCEPT !.at = @ + 1, !.lastEnv = NewEnv]
    /\ UNCHANGED <<source, disk, sessions, safe>>

\* Whether build_catkin_package and build_cmake_package call cmake.
CallsCMake(makefile) == ~makefile \/ session.force

\* build_package up to the first command: --continue from this package on,
\* then cmake or the check of the build system.
Process ==
    /\ MorePackages
    /\ Wanted
    /\ \/ /\ CallsCMake(dir[BuildDir].makefile)
          /\ Package \in NoLists
          /\ End(FALSE)
       \/ /\ CallsCMake(dir[BuildDir].makefile) => Package \notin NoLists
          /\ session' = [session EXCEPT
                !.build = IF session.o.continue THEN {} ELSE @,
                !.pc = IF CallsCMake(dir[BuildDir].makefile) THEN "cmake" ELSE "check"]
          /\ UNCHANGED <<source, sessions, safe>>
    /\ UNCHANGED disk

\* run_command: the environment's env.sh is missing (OSError) or the command
\* returns an error (CalledProcessError); either ends the session.
CommandFails(pc) ==
    /\ session.pc = pc
    /\ End(FALSE)

\* What cmake leaves in the build directory.
Configured(p) ==
    [makefile |-> TRUE, args |-> session.o.args, prefix |-> p,
     path |-> PathOf(session.lastEnv), half |-> "no"]

\* cmake of a catkin package also writes the env.sh of its devel space.
WritesEnv ==
    /\ env' = [env EXCEPT ![PkgDevelspace] = {PkgDevelspace} \cup PathOf(session.lastEnv)]
    /\ top' = IF PkgDevelspace = "devel" THEN NoPackage ELSE top

CMakeCatkin ==
    /\ session.pc = "cmake"
    /\ BuildType[Package] = "catkin"
    /\ EnvUsable
    /\ dir' = [dir EXCEPT ![BuildDir] = Configured(PkgDevelspace)]
    /\ WritesEnv
    /\ session' = [session EXCEPT !.pc = "make"]
    /\ UNCHANGED <<source, mark, cache, products, sessions, safe>>

\* cmake of a plain package installs to the devel or the install space.
CMakePlain ==
    /\ session.pc = "cmake"
    /\ BuildType[Package] = "cmake"
    /\ EnvUsable
    /\ dir' = [dir EXCEPT ![BuildDir] = Configured(NewEnv)]
    /\ session' = [session EXCEPT !.pc = "make"]
    /\ UNCHANGED <<source, mark, cache, products, env, top, sessions, safe>>

\* A cmake that does not get to its end may have written the env.sh.
MayWriteEnv ==
    \/ UNCHANGED <<env, top>>
    \/ BuildType[Package] = "catkin" /\ WritesEnv

\* The arguments are kept in the directory even when the configuration fails.
\* A plain package's Makefile stays then.
KeepsMakefile(d) == [d EXCEPT !.half = "failed", !.args = session.o.args]

\* After a failed cmake the Makefile of a catkin package is removed so that
\* the next session calls cmake again.
AfterFailedCMake(d) ==
    [d EXCEPT !.makefile = FALSE, !.half = "failed", !.args = session.o.args]

CMakeFails ==
    /\ CommandFails("cmake")
    /\ \/ ~EnvUsable /\ UNCHANGED <<dir, env, top>>
       \/ /\ EnvUsable
          /\ dir' = [dir EXCEPT ![BuildDir] =
                        IF BuildType[Package] = "catkin" THEN AfterFailedCMake(@)
                        ELSE KeepsMakefile(@)]
          /\ MayWriteEnv
    /\ UNCHANGED <<mark, cache, products>>

\* make cmake_check_build_system: runs cmake again, with the arguments the
\* directory has, when a CMakeLists.txt has changed.
CheckBuildSystem ==
    /\ session.pc = "check"
    /\ EnvUsable
    /\ \/ UNCHANGED <<dir, env, top>>
       \/ LET again == [dir[BuildDir] EXCEPT !.path = PathOf(session.lastEnv),
                                             !.half = "no"]
          IN  /\ dir' = [dir EXCEPT ![BuildDir] = again]
              /\ IF BuildType[Package] = "catkin"
                 THEN /\ env' = [env EXCEPT ![again.prefix] =
                                    {again.prefix} \cup again.path]
                      /\ top' = IF again.prefix = "devel" THEN NoPackage ELSE top
                 ELSE UNCHANGED <<env, top>>
    /\ session' = [session EXCEPT !.pc = "make"]
    /\ UNCHANGED <<source, mark, cache, products, sessions, safe>>

\* When that cmake fails the next check runs it again.
CheckFails ==
    /\ CommandFails("check")
    /\ UNCHANGED disk

\* make: a catkin package's products go to the devel space it was configured
\* for, a plain one's stay in the build directory.
Make ==
    /\ session.pc = "make"
    /\ EnvUsable
    /\ products' = IF BuildType[Package] = "cmake" THEN products
                   ELSE [products EXCEPT ![dir[BuildDir].prefix] = @ \cup {Package}]
    /\ session' = [session EXCEPT !.pc =
                      IF BuildType[Package] = "cmake" \/ session.o.install
                      THEN "install" ELSE "envsh"]
    /\ UNCHANGED <<source, mark, cache, dir, env, top, sessions, safe>>

MakeFails ==
    /\ CommandFails("make")
    /\ UNCHANGED disk

\* make install; a catkin package without that target skips it.
Install ==
    /\ session.pc = "install"
    /\ session' = [session EXCEPT !.pc = "envsh"]
    /\ UNCHANGED <<source, mark, cache, dir, top, sessions, safe>>
    /\ \/ /\ Package \in NoInstall
          /\ BuildType[Package] = "catkin"
          /\ UNCHANGED <<products, env>>
       \/ /\ BuildType[Package] = "catkin" => Package \notin NoInstall
          /\ EnvUsable
          /\ LET to == IF BuildType[Package] = "catkin" THEN "install"
                       ELSE dir[BuildDir].prefix
             IN  /\ products' = [products EXCEPT ![to] = @ \cup {Package}]
                 /\ env' = IF BuildType[Package] = "catkin"
                           THEN [env EXCEPT !["install"] = {"install"} \cup dir[BuildDir].path]
                           ELSE env

InstallFails ==
    /\ CommandFails("install")
    /\ UNCHANGED disk

Done == session' = [session EXCEPT !.pc = "next", !.at = @ + 1, !.lastEnv = NewEnv]

\* The test of build_package for the env.sh a catkin package must have made.
EnvWasMade == env[NewEnv] # NoEnv

FinishCatkin ==
    /\ session.pc = "envsh"
    /\ BuildType[Package] = "catkin"
    /\ UNCHANGED disk
    /\ \/ EnvWasMade /\ Done /\ UNCHANGED <<source, sessions, safe>>
       \/ ~EnvWasMade /\ End(FALSE)

\* The env.sh and setup.sh build_cmake_package writes for a plain package:
\* not over the one an install space has, nor over the environment the
\* package itself was built in (--merge).
FinishPlain ==
    /\ session.pc = "envsh"
    /\ BuildType[Package] = "cmake"
    /\ LET kept == \/ session.o.install /\ env["install"] # NoEnv
                   \/ NewEnv = session.lastEnv
       IN  /\ env' = IF kept THEN env
                     ELSE [env EXCEPT ![NewEnv] = {NewEnv} \cup PathOf(session.lastEnv)]
           /\ top' = IF ~kept /\ NewEnv = "devel" THEN NoPackage ELSE top
    /\ Done
    /\ UNCHANGED <<source, mark, cache, dir, products, sessions, safe>>

-----------------------------------------------------------------------------
(* End of a session *)

\* The devel space gets a relay to the last package's devel space only when
\* no package was skipped to the end.
WritesRelay == session.build = {} /\ ~session.o.merge /\ session.order # <<>>

\* Without packages the devel space gets an environment of its own, made
\* from CMAKE_PREFIX_PATH.
WritesEmpty == session.build = {} /\ session.order = <<>>

Finish ==
    /\ session.pc = "next"
    /\ session.at > Len(session.order)
    /\ \/ /\ WritesRelay
          /\ top' = Last(session.order)
          /\ env' = [env EXCEPT !["devel"] = IF env[top'] = NoEnv THEN {top'} ELSE env[top']]
          /\ End(TRUE)
       \/ /\ WritesEmpty
          /\ \/ /\ top' = NoPackage
                /\ env' = [env EXCEPT !["devel"] = {"devel"}]
                /\ End(TRUE)
             \/ /\ UNCHANGED <<top, env>>   \* no CMAKE_PREFIX_PATH
                /\ End(FALSE)
       \/ /\ ~WritesRelay /\ ~WritesEmpty
          /\ UNCHANGED <<top, env>>
          /\ End(TRUE)
    /\ UNCHANGED <<mark, cache, dir, products>>

\* The process is killed between two steps,
Killed ==
    /\ session.pc # "idle"
    /\ End(FALSE)
    /\ UNCHANGED disk

\* or while cmake runs: only a CalledProcessError has the Makefile removed.  What is
\* left is the old Makefile with the new arguments in the cache, or a part of the new.
KilledInCMake ==
    /\ session.pc = "cmake" /\ EnvUsable
    /\ End(FALSE)
    /\ LET prefix == IF BuildType[Package] = "catkin" THEN PkgDevelspace ELSE NewEnv
       IN  \E d \in {[dir[BuildDir] EXCEPT !.args = session.o.args], Configured(prefix)} :
             dir' = [dir EXCEPT ![BuildDir] = [d EXCEPT !.half = "killed"]]
    /\ MayWriteEnv
    /\ UNCHANGED <<mark, cache, products>>

Next ==
    \/ EditSources \/ OtherTool
    \/ \E o \in Options : Begin(o)
    \/ CheckBuildSpace \/ CheckDevelSpace \/ Plan
    \/ Skip \/ Process
    \/ CMakeCatkin \/ CMakePlain \/ CMakeFails
    \/ CheckBuildSystem \/ CheckFails
    \/ Make \/ MakeFails \/ Install \/ InstallFails
    \/ FinishCatkin \/ FinishPlain \/ Finish \/ Killed \/ KilledInCMake

Spec == Init /\ [][Next]_vars

-----------------------------------------------------------------------------
(* Properties *)

\* Every variable stays in its type: the marks, the cache, the build
\* directories and the session are what build_workspace_isolated leaves.
TypeOK ==
    /\ source \in Workspaces
    /\ mark \in [{"build", "devel"} -> {"none", "isolated", "other"}]
    /\ cache.packages \subseteq Packages
    /\ \A d \in Dirs : /\ dir[d].prefix \in Places
                       /\ dir[d].path \subseteq Places
    /\ products \in [Places -> SUBSET Packages]
    /\ \A l \in Places : env[l] = NoEnv \/ env[l] \subseteq Places
    /\ top \in Packages \cup {NoPackage}
    /\ session.at \in 0 .. Len(session.order) + 1
    /\ sessions \in 0 .. MaxSessions

\* The environment session.at is built in, as the options ask for it.
PathAsked(i) ==
    IF i = 1 THEN {}
    ELSE IF session.o.install THEN {"install"}
    ELSE IF session.o.merge THEN {"devel"}
    ELSE {session.order[j] : j \in 1 .. i - 1}

\* A session that calls cmake for all packages (--force-cmake, or its input has
\* changed) leaves every one of them configured with its own arguments and, without
\* --install, on top of all packages before it, whatever earlier sessions left.  One
\* that relies on catkin_make_isolated.cache instead does as much when no session so far
\* has defeated that cache: by --force-cmake, by a changed input in a session that was
\* cut short or built only some packages, or by a change of --install or --merge.
\* In other sessions packages keep the arguments of a session long past.
ConfiguredAsAsked ==
    (session.pc = "idle" /\ session.ok /\ session.build = {})
    => \A i \in 1 .. Len(session.order) :
          LET d == dir[BuildDirOf(session.order[i], session.o)]
              forced == session.force /\ session.o.build = {}
          IN  /\ safe \/ forced => d.makefile /\ d.half = "no" /\ d.args = session.o.args
              /\ safe \/ (forced /\ ~session.o.install) => d.path = PathAsked(i)

\* Under the same condition no package is made before all its dependencies
\* of the workspace are on the path of the environment it is made in.
DependenciesVisible ==
    (session.pc = "make" /\ safe)
    => \A q \in Depends[Package] \cap ToSet(session.order) :
          \/ session.o.install /\ q \in NoInstall
          \/ \E l \in PathOf(session.lastEnv) : q \in products[l]

\* The relay a session without --install leaves in the devel space leads to
\* an env.sh that exists: the last package was built, not skipped, and the
\* env.sh of its devel space was looked for.
TopLevelUsable ==
    (session.pc = "idle" /\ session.ok /\ ~session.o.install /\ ~session.o.merge
     /\ session.order # <<>> /\ (session.o.continue \/ session.o.build = {}))
    => top = Last(session.order) /\ env[top] # NoEnv

\* A catkin package is never made from the Makefile of a cmake run that failed: the
\* failing session removes it, and the next one calls cmake.  (A plain package keeps its
\* Makefile, and so does every package whose cmake run is killed.)
NeverMadeHalfConfigured ==
    (session.pc = "make" /\ BuildType[Package] = "catkin")
    => dir[BuildDir].half # "failed"

\* A session that considers only some packages considers all that they
\* need: the worklist of get_package_names_with_recursive_dependencies
\* reaches every dependency, and nothing else of the source space.
WhitelistClosed ==
    (session.pc = "plan" /\ session.o.only \subseteq source)
    => LET needs(s) == {q \in source : \E p \in s :
                           q \in Depends[p] \cup (IF p \in Format2 THEN TestDepends[p] ELSE {})}
       IN  session.o.only # {} =>
              /\ session.o.only \subseteq Considered
              /\ needs(Considered) \subseteq Considered
              /\ \A s \in SUBSET source :
                    (session.o.only \subseteq s /\ needs(s) \subseteq s) => Considered \subseteq s

\* A space another tool has built is never taken over unless the check is
\* overridden, and until both spaces are this tool's nothing is configured,
\* made or installed: the two checks come before everything else.
ForeignSpaceUntouched ==
    [][/\ \A s \in {"build", "devel"} :
             mark[s] = "other" /\ mark'[s] # "other" => session.o.override
       /\ (dir' # dir \/ products' # products \/ env' # env)
             => mark = [s \in {"build", "devel"} |-> "isolated"]]_vars

\* A session that calls cmake for all packages configures them as asked, one that does
\* not may rely on the cache as long as it says what the build directories hold, and a
\* failed configuration is not used.
ConfigurationSound == TypeOK /\ ConfiguredAsAsked /\ NeverMadeHalfConfigured

\* A package sees the packages it depends on, and what a session leaves as the
\* environment of the workspace can be used.
EnvironmentSound == DependenciesVisible /\ TopLevelUsable /\ WhitelistClosed
=============================================================================
