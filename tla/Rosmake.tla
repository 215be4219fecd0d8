------------------------------ MODULE Rosmake -------------------------------
(***************************************************************************)
(* rosmake: the build queue shared by the compile threads                  *)
(* (parallel_build.py), the build of one package and the phases of main    *)
(* (engine.py), and the flags of packages (package_stats.py).  A session   *)
(* is one run of rosmake; the ROS_NOBUILD files outlive it.                *)
(*                                                                         *)
(* A step of a thread is what it does under the queue's condition, or      *)
(* between two takes of a lock; the make command itself takes a step in    *)
(* which the other threads run.                                            *)
(***************************************************************************)
EXTENDS Naturals, Sequences, FiniteSets, Functions, SequencesExt

CONSTANTS
  Package, Thread, NoPackage,
  Deps1,           \* direct dependencies of each package, as a sequence
  Reach,           \* all dependencies of each package: rospack.get_depends(p)
  Specified,       \* packages given on the command line, in that order
  Trees,           \* source trees to consider: packages absent from the search path, with
                   \* ROS_BUILD_BLACKLIST, without a Makefile
  Options,         \* command lines to consider
  HackLimit,       \* the 2 of _hack_end_counter > 2; the counter is kept up to one more
  MaxSession       \* bound: number of rosmake runs

Option == [mode : {"stop", "best", "everything"},  \* default, --robust, --build-everything
           preClean : BOOLEAN,
           build : BOOLEAN,                        \* FALSE: --test-only
           test : BOOLEAN, markInstalled : BOOLEAN,
           specifiedOnly : BOOLEAN, skipBlacklist : BOOLEAN]

ASSUME RosmakeAssumption ==
  /\ NoPackage \notin Package
  /\ Deps1 \in [Package -> Seq(Package)]
  /\ Reach \in [Package -> SUBSET Package]
  /\ \A p \in Package :
       Reach[p] = Range(Deps1[p]) \cup UNION {Reach[q] : q \in Range(Deps1[p])}
  /\ Specified \in Seq(Package)
  /\ Trees \subseteq [missing : SUBSET (Package \ Range(Specified)),
                      blacklist : SUBSET Package, noMakefile : SUBSET Package]
  /\ Options \subseteq Option
  /\ HackLimit \in Nat /\ MaxSession \in Nat

Phase == {"clean", "build", "test"}

VARIABLES
  tree, nobuild,                            \* the source tree; packages with a ROS_NOBUILD file
  opt,                                      \* options of this session
  phase,                                    \* where main is
  todo, stack, buildList,                   \* packages to list, calls of build_or_recurse, self.build_list
  result,                                   \* self.result: per phase and package "none", "true", "false"
  toBuild, built, failed, done, started, hack,  \* BuildQueue
  tpc, pkg, ok,                             \* per thread: where it is, its package, what build() returned
  passed,                                   \* per phase: what parallel_build_pkgs returned
  made,                                     \* history: packages whose make passed in this session, or when they were marked
  unmade,                                   \* history: packages that a --test-only session marked
  session

treeVars   == <<tree, nobuild>>
queueVars  == <<toBuild, built, failed, done, started, hack>>
threadVars == <<tpc, pkg, ok>>
listVars   == <<todo, stack, buildList>>
mainVars   == <<opt, phase, listVars, passed, session>>
history    == <<made, unmade>>
vars == <<treeVars, queueVars, threadVars, mainVars, result, history>>

-----------------------------------------------------------------------------
(* DependencyTracker                                                       *)
Valid == IF opt.specifiedOnly THEN Range(Specified) ELSE Package \ tree.missing

\* get_deps_1 and get_deps: a package that cannot be found ends the search of
\* rospack.get_depends, and get_deps then returns the empty list.
GetDeps1(p) == Range(Deps1[p]) \ tree.missing
AllDeps(p) == IF Reach[p] \cap tree.missing = {} THEN Reach[p] ELSE {}
GetDeps(p) == AllDeps(p) \cap Valid

\* The tracker of the phase's queue: none for clean, the specified packages
\* for test.
QueueDeps(p) ==
  CASE phase = "clean" -> {}
    [] phase = "test" -> AllDeps(p) \cap Range(Specified)
    [] OTHER -> GetDeps(p)

\* build_or_recurse(p) has to go through some dependencies of p first; the
\* next one, in the order of the manifest.
Unlisted(p) == {i \in DOMAIN Deps1[p] : Deps1[p][i] \in GetDeps1(p) \ Range(buildList)}
NextDep(p) == Deps1[p][Min(Unlisted(p))]

-----------------------------------------------------------------------------
(* PackageFlagTracker.can_build: <<buildable, state>>                      *)
Blacklisted(p) == ({p} \cup AllDeps(p)) \cap tree.blacklist # {}

CanBuild(p, failedPackages) ==
  LET depFailed == failedPackages \cap AllDeps(p) # {}
      listed == opt.skipBlacklist /\ Blacklisted(p)
      noNeed == p \in nobuild \/ p \in tree.noMakefile
  IN  [buildable |-> ~depFailed /\ ~listed /\ ~noNeed,
       state |-> ~depFailed \/ noNeed]

-----------------------------------------------------------------------------
(* BuildQueue                                                              *)
RobustQueue == phase # "build" \/ opt.mode # "stop"
Total == Len(IF phase = "test" THEN Specified ELSE buildList)
IsCompleted == Len(built) + Len(failed) = Total
IsDone == IsCompleted \/ done
Succeeded == Len(built) = Total

\* Mutant: a dependency that has been taken from the list counts as built.
DepsMetTaken(p) == \A d \in QueueDeps(p) : d \notin Range(toBuild)

DepsMet(p) == \A d \in QueueDeps(p) : d \in Range(built) \/ (RobustQueue /\ d \in Range(failed))

\* Mutant: gives up although other threads are building.
GiveUpAtAnyTime(h) == h > HackLimit

\* The scan of to_build ends at the first package that can be built, or at one
\* that has to wait when it is time to give up.
GiveUpAt(h) == started = {} /\ h > HackLimit
Hits(h) == {i \in DOMAIN toBuild : DepsMet(toBuild[i]) \/ GiveUpAt(h)}
Found(h) == toBuild[Min(Hits(h))]

\* get_valid_package from the head of its loop, with the counter at h.
Leave(t, h) ==
  /\ \/ IsDone \/ toBuild = <<>>
     \/ Hits(h) # {} /\ ~DepsMet(Found(h))
  /\ tpc' = [tpc EXCEPT ![t] = "end"]
  /\ hack' = h
  /\ UNCHANGED <<pkg, toBuild, started>>

Wait(t, h) ==
  /\ ~IsDone /\ toBuild # <<>> /\ Hits(h) = {}
  /\ tpc' = [tpc EXCEPT ![t] = "wait"]
  /\ hack' = h
  /\ UNCHANGED <<pkg, toBuild, started>>

Take(t, h) ==
  /\ ~IsDone /\ Hits(h) # {} /\ DepsMet(Found(h))
  /\ tpc' = [tpc EXCEPT ![t] = "build"]
  /\ pkg' = [pkg EXCEPT ![t] = Found(h)]
  /\ toBuild' = RemoveAt(toBuild, Min(Hits(h)))
  /\ started' = started \cup {Found(h)}
  /\ hack' = 0

Look(t, h) == Leave(t, h) \/ Wait(t, h) \/ Take(t, h)

\* CompileThread.run: the head of the loop, and the first look.
ThreadGet(t) ==
  /\ tpc[t] = "loop"
  /\ Look(t, hack)
  /\ UNCHANGED <<treeVars, built, failed, done, ok, mainVars, result, history>>

\* A wait ends, by a notify or after a second.
ThreadWake(t) ==
  /\ tpc[t] = "wait"
  /\ Look(t, IF hack > HackLimit THEN hack ELSE hack + 1)
  /\ UNCHANGED <<treeVars, built, failed, done, ok, mainVars, result, history>>

\* build(): can this package be built?  What has failed is read from the
\* results of the phase (tests do not look at it).
FailedPackages == IF phase = "test" THEN {} ELSE {p \in Package : result[phase][p] = "false"}

ThreadBuild(t) ==
  /\ tpc[t] = "build"
  /\ LET can == CanBuild(pkg[t], FailedPackages)
     IN  IF can.buildable \/ opt.mode = "everything"
           THEN tpc' = [tpc EXCEPT ![t] = "make"] /\ UNCHANGED <<result, ok>>
           ELSE /\ tpc' = [tpc EXCEPT ![t] = "return"]
                /\ ok' = [ok EXCEPT ![t] = can.state]
                /\ result' = [result EXCEPT ![phase][pkg[t]] =
                                IF can.state THEN "true" ELSE "false"]
  /\ UNCHANGED <<treeVars, queueVars, pkg, mainVars, history>>

\* _build_package: make ends.  An unknown target is a success, an interrupt of
\* make and a package that is no longer found are failures.
ThreadMake(t) ==
  /\ tpc[t] = "make"
  /\ \E good \in BOOLEAN :
       /\ ok' = [ok EXCEPT ![t] = good]
       /\ result' = [result EXCEPT ![phase][pkg[t]] = IF good THEN "true" ELSE "false"]
       /\ made' = IF good /\ phase = "build" THEN made \cup {pkg[t]} ELSE made
  /\ tpc' = [tpc EXCEPT ![t] = "return"]
  /\ UNCHANGED <<treeVars, queueVars, pkg, mainVars, unmade>>

\* Mutant: only packages that succeed are returned to the queue.
ThreadReturnSuccess(t) ==
  /\ tpc[t] = "return"
  /\ built' = IF ok[t] THEN Append(built, pkg[t]) ELSE built
  /\ started' = IF ok[t] THEN started \ {pkg[t]} ELSE started
  /\ done' = (done \/ Len(built') = Total)
  /\ tpc' = [tpc EXCEPT ![t] = IF ok[t] \/ RobustQueue THEN "loop" ELSE "stop"]
  /\ pkg' = [pkg EXCEPT ![t] = NoPackage]
  /\ UNCHANGED <<treeVars, toBuild, failed, hack, ok, mainVars, result, history>>

\* return_built
ThreadReturn(t) ==
  /\ tpc[t] = "return"
  /\ built' = IF ok[t] THEN Append(built, pkg[t]) ELSE built
  /\ failed' = IF ok[t] THEN failed ELSE Append(failed, pkg[t])
  /\ started' = started \ {pkg[t]}
  /\ done' = (done \/ Len(built') + Len(failed') = Total)
  /\ tpc' = [tpc EXCEPT ![t] = IF ok[t] \/ RobustQueue THEN "loop" ELSE "stop"]
  /\ pkg' = [pkg EXCEPT ![t] = NoPackage]
  /\ UNCHANGED <<treeVars, toBuild, hack, ok, mainVars, result, history>>

\* A failure halts a build that is not robust.
ThreadStop(t) ==
  /\ tpc[t] = "stop"
  /\ done' = TRUE
  /\ tpc' = [tpc EXCEPT ![t] = "end"]
  /\ UNCHANGED <<treeVars, toBuild, built, failed, started, hack, pkg, ok, mainVars, result, history>>

ThreadNext(t) ==
  \/ ThreadGet(t) \/ ThreadWake(t) \/ ThreadBuild(t)
  \/ ThreadMake(t) \/ ThreadReturn(t) \/ ThreadStop(t)

-----------------------------------------------------------------------------
(* RosMakeAll.main                                                         *)
NoOption == [mode |-> "stop", preClean |-> FALSE, build |-> TRUE, test |-> FALSE, markInstalled |-> FALSE,
             specifiedOnly |-> FALSE, skipBlacklist |-> FALSE]
NoResult == [p \in Package |-> "none"]

Init ==
  /\ tree \in Trees /\ nobuild = {}
  /\ toBuild = <<>> /\ built = <<>> /\ failed = <<>> /\ done = FALSE /\ started = {} /\ hack = 0
  /\ tpc = [t \in Thread |-> "end"] /\ pkg = [t \in Thread |-> NoPackage]
  /\ ok = [t \in Thread |-> FALSE]
  /\ opt = NoOption
  /\ phase = "off" /\ todo = {} /\ stack = <<>> /\ buildList = <<>>
  /\ result = [ph \in Phase |-> NoResult]
  /\ passed = [ph \in Phase |-> TRUE]
  /\ made = {} /\ unmade = {} /\ session = 0

\* BuildQueue.__init__ and the start of the threads
StartPhase(ph, packages) ==
  /\ phase' = ph
  /\ toBuild' = packages /\ built' = <<>> /\ failed' = <<>> /\ done' = FALSE
  /\ started' = {} /\ hack' = 0
  \* the tests run in one thread
  /\ tpc' = [t \in Thread |->
               IF ph = "test" /\ t # CHOOSE u \in Thread : TRUE THEN "end" ELSE "loop"]
  /\ UNCHANGED <<pkg, ok>>

\* --unmark-installed builds nothing.
UnmarkInstalled ==
  /\ phase = "off" /\ session < MaxSession
  /\ nobuild' = nobuild \ Range(Specified)
  /\ session' = session + 1
  /\ unmade' = unmade \cap nobuild'
  /\ UNCHANGED <<tree, queueVars, threadVars, opt, phase, listVars, passed, result, made>>

\* The options are read, and the packages to list are those asked for.
StartSession ==
  /\ phase = "off" /\ session < MaxSession
  /\ session' = session + 1
  /\ opt' \in Options
  /\ phase' = "listing"
  /\ todo' = Range(Specified)
  /\ UNCHANGED <<treeVars, queueVars, threadVars, stack, buildList, passed, result, history>>

\* The loop over the packages asked for, in no particular order (list(set(...))).
ListRequired ==
  /\ phase = "listing" /\ stack = <<>>
  /\ \E p \in todo :
       /\ todo' = todo \ {p}
       /\ stack' = IF p \in Range(buildList) THEN <<>> ELSE <<p>>
  /\ UNCHANGED <<treeVars, queueVars, threadVars, opt, phase, buildList, passed, session, result, history>>

\* build_or_recurse calls itself for a dependency, ...
ListDependency ==
  /\ phase = "listing" /\ stack # <<>>
  /\ Unlisted(Last(stack)) # {}
  /\ stack' = Append(stack, NextDep(Last(stack)))
  /\ UNCHANGED <<treeVars, queueVars, threadVars, opt, phase, todo, buildList, passed, session, result, history>>

\* ... and appends the package after the last one.
ListPackage ==
  /\ phase = "listing" /\ stack # <<>>
  /\ Unlisted(Last(stack)) = {}
  /\ buildList' = Append(buildList, Last(stack))
  /\ stack' = Front(stack)
  /\ UNCHANGED <<treeVars, queueVars, threadVars, opt, phase, todo, passed, session, result, history>>

\* --specified-only: the list without the packages that were not asked for.
\* The code copies the others to a new list; the model takes these out.
Extra == {i \in DOMAIN buildList : opt.specifiedOnly /\ buildList[i] \notin Range(Specified)}

DropExtra ==
  /\ phase = "listing" /\ stack = <<>> /\ todo = {}
  /\ Extra # {}
  /\ buildList' = RemoveAt(buildList, Min(Extra))
  /\ UNCHANGED <<treeVars, queueVars, threadVars, opt, phase, todo, stack, passed, session, result, history>>

EndListing ==
  /\ phase = "listing" /\ stack = <<>> /\ todo = {}
  /\ Extra = {}
  /\ phase' = "listed"
  /\ UNCHANGED <<treeVars, queueVars, threadVars, opt, listVars, passed, session, result, history>>

StartClean ==
  /\ phase = "listed" /\ opt.preClean
  /\ StartPhase("clean", buildList)
  /\ UNCHANGED <<treeVars, opt, listVars, passed, session, result, history>>

StartBuild ==
  /\ phase = "cleanDone" \/ (phase = "listed" /\ ~opt.preClean)
  /\ IF opt.build
       THEN StartPhase("build", buildList)
       ELSE phase' = "buildDone" /\ UNCHANGED <<queueVars, threadVars>>
  /\ UNCHANGED <<treeVars, opt, listVars, passed, session, result, history>>

StartTest ==
  /\ phase = "buildDone" /\ passed["build"] /\ opt.test
  /\ StartPhase("test", Specified)
  /\ UNCHANGED <<treeVars, opt, listVars, passed, session, result, history>>

\* parallel_build_pkgs after the last join
EndPhase ==
  /\ phase \in Phase
  /\ \A t \in Thread : tpc[t] = "end"
  /\ passed' = [passed EXCEPT ![phase] =
                  Succeeded /\ \A p \in Package : result[phase][p] # "false"]
  /\ phase' = CASE phase = "clean" -> "cleanDone" [] phase = "build" -> "buildDone"
                [] OTHER -> "testDone"
  /\ UNCHANGED <<treeVars, queueVars, threadVars, opt, listVars, session, result, history>>

\* A KeyboardInterrupt of the user reaches main in a join: the queue is stopped.
Interrupt ==
  /\ phase \in Phase /\ ~done
  /\ \E t \in Thread : tpc[t] # "end"
  /\ done' = TRUE
  /\ UNCHANGED <<treeVars, toBuild, built, failed, started, hack, threadVars, mainVars,
                 result, history>>

\* The end of main: mark the packages, write the summary.  The queue and the
\* results end with the program.
EndSession ==
  /\ \/ phase = "testDone"
     \/ phase = "buildDone" /\ ~(passed["build"] /\ opt.test)
  /\ nobuild' = IF opt.markInstalled /\ passed["build"] /\ passed["test"]
                  THEN nobuild \cup Range(Specified) ELSE nobuild
  /\ phase' = "off" /\ buildList' = <<>>
  /\ opt' = NoOption
  /\ toBuild' = <<>> /\ built' = <<>> /\ failed' = <<>> /\ done' = FALSE /\ hack' = 0
  /\ ok' = [t \in Thread |-> FALSE]
  /\ result' = [ph \in Phase |-> NoResult]
  /\ passed' = [ph \in Phase |-> TRUE]
  /\ made' = made \cap nobuild'
  /\ unmade' = IF opt.build THEN unmade ELSE unmade \cup (nobuild' \ nobuild)
  /\ UNCHANGED <<tree, todo, stack, session, started, tpc, pkg>>

MainNext ==
  \/ UnmarkInstalled \/ StartSession
  \/ ListRequired \/ ListDependency \/ ListPackage \/ DropExtra \/ EndListing
  \/ StartClean \/ StartBuild \/ StartTest
  \/ EndPhase \/ EndSession

\* generate_summary_output: the packages of buildfailures.txt
BuildFailures == {p \in Range(buildList) : result["build"][p] = "false"}

Next == MainNext \/ Interrupt \/ \E t \in Thread : ThreadNext(t)

\* Threads run, make ends, and main goes on; nobody has to start a session or
\* press Ctrl-C.
Fairness ==
  /\ \A t \in Thread : WF_vars(ThreadNext(t))
  /\ WF_vars(ListRequired \/ ListDependency \/ ListPackage \/ DropExtra \/ EndListing)
  /\ WF_vars(StartClean \/ StartBuild \/ StartTest \/ EndPhase \/ EndSession)

Spec == Init /\ [][Next]_vars /\ Fairness

-----------------------------------------------------------------------------
TypeOK ==
  /\ tree \in Trees /\ opt \in Option
  /\ nobuild \cup made \cup unmade \subseteq Package
  /\ phase \in Phase \cup {"off", "listing", "listed", "cleanDone", "buildDone", "testDone"}
  /\ todo \subseteq Package /\ stack \in Seq(Package) /\ buildList \in Seq(Package)
  /\ result \in [Phase -> [Package -> {"none", "true", "false"}]]
  /\ toBuild \in Seq(Package) /\ built \in Seq(Package) /\ failed \in Seq(Package)
  /\ started \subseteq Package
  /\ done \in BOOLEAN /\ hack \in 0 .. HackLimit + 1
  /\ tpc \in [Thread -> {"loop", "wait", "build", "make", "return", "stop", "end"}]
  /\ pkg \in [Thread -> Package \cup {NoPackage}]
  /\ ok \in [Thread -> BOOLEAN] /\ passed \in [Phase -> BOOLEAN]
  /\ session \in 0 .. MaxSession

\* The package make is running for.
Making(t, p) == tpc[t] = "make" /\ pkg[t] = p

\* The list the threads work from: every package asked for, each package once,
\* dependencies before dependents, and unless --specified-only is given no
\* dependency left out.
ListOrdered ==
  /\ IsInjective(buildList)
  /\ \A i, j \in DOMAIN buildList :
       buildList[j] \in GetDeps1(buildList[i]) \cup AllDeps(buildList[i]) => j < i
ListComplete ==
  phase \notin {"off", "listing"} =>
    /\ Range(Specified) \subseteq Range(buildList)
    /\ ~opt.specifiedOnly => \A p \in Range(buildList) : GetDeps1(p) \subseteq Range(buildList)

\* While make runs for a package of the build, no dependency of it is still to
\* be built or being built by another thread; a test runs after those of the
\* specified packages it needs.  (A package with a dependency that cannot be
\* found has no dependencies for get_deps.)
DependenciesFirst ==
  \A t \in Thread, p \in Package :
    Making(t, p) /\ Reach[p] \cap tree.missing = {} =>
      /\ phase = "build" => Reach[p] \cap (Range(toBuild) \cup started) = {}
      /\ phase = "test" => Reach[p] \cap Range(Specified) \subseteq Range(built) \cup Range(failed)

\* Without --build-everything nothing is made on top of a package that failed
\* in this session, whatever the order in which the threads reported.
NothingOnFailure ==
  \A t \in Thread, p \in Package :
    Making(t, p) /\ phase = "build" /\ opt.mode # "everything" /\ Reach[p] \cap tree.missing = {} =>
      Reach[p] \cap {d \in Package : result["build"][d] = "false"} = {}

\* A thread leaves the queue with work in it only after a stop, or when a
\* failure is about to stop the build: the counter that ends a hung build never
\* ends one that could go on.  The tests, which follow the order of the command
\* line, end early only when every test that is left waits for another.
NoPrematureEnd ==
  \A t \in Thread :
    phase \in Phase /\ tpc[t] = "end" /\ ~done =>
      \/ toBuild = <<>>
      \/ phase = "build" /\ \E u \in Thread : tpc[u] = "stop"
      \/ /\ phase = "test"
         /\ \/ \E u \in Thread : tpc[u] # "end"
            \/ \A i \in DOMAIN toBuild : ~DepsMet(toBuild[i])

\* A build that is reported as passed has dealt with every package of the
\* list, and no make of the session that failed is left out of the summary.
ReportIsTrue ==
  phase \in {"buildDone", "testDone"} =>
    /\ passed["build"] /\ opt.build => \A p \in Range(buildList) : result["build"][p] = "true"
    /\ phase = "buildDone" /\ opt.build => Range(failed) \subseteq BuildFailures

\* A package that rosmake marks as installed was made, or needed no make; a
\* later session will not build it and will build on it.  (Blacklisted
\* packages count as dealt with, and are marked without having been made; so
\* are all when --mark-installed comes with --test-only.)
InstalledWasMade ==
  nobuild \subseteq made \cup tree.noMakefile \cup unmade \cup {p \in Package : Blacklisted(p)}

\* Every session ends: no thread waits for ever for a package.
SessionEnds == (phase # "off") ~> (phase = "off")

\* The list is complete and in order, and threads that share a build queue make a
\* package only when all it needs has been made, and nothing on top of a failure.
BuildOrderSound == TypeOK /\ ListOrdered /\ ListComplete /\ DependenciesFirst /\ NothingOnFailure

\* What a session reports and what it marks as installed is what was made, and no
\* thread leaves while there is a package that could be made.
SessionReportSound == NoPrematureEnd /\ ReportIsTrue /\ InstalledWasMade
=============================================================================
