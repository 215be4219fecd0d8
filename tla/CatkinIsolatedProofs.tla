------------------------- MODULE CatkinIsolatedProofs -------------------------
(***************************************************************************)
(* Theorems about catkin_make_isolated, for any packages, dependencies,    *)
(* command lines and number of sessions.                                   *)
(*                                                                         *)
(* The invariant behind ConfigurationSound says what the cache stands for: *)
(* as long as no session has defeated it, every package of the cached      *)
(* input is configured with the cached arguments on top of the packages    *)
(* before it, is built, and has its environment (Good); a session that     *)
(* found its input changed has done as much for the packages it is past.   *)
(* A session that calls cmake for all packages needs no cache: ForcedInv   *)
(* says what it has made of the packages it is past, whatever it found.    *)
(***************************************************************************)
EXTENDS CatkinIsolated, FiniteSetTheorems, TLAPS

-----------------------------------------------------------------------------
(***************************************************************************)
(* What get_package_names_with_recursive_dependencies finds.               *)
(*                                                                         *)
(* Its loop takes a name off todo, adds it to found and adds to todo the   *)
(* dependencies that are in neither.  What is found in the end is Below:   *)
(* found and the least set with todo that has, with a package, those of    *)
(* its dependencies that were not found before.  Below solves the loop's   *)
(* recursion, so there is a solution (LoopSolved); every solution is Below *)
(* where todo and found are disjoint, as they are in the loop: of the      *)
(* pairs where it is not, take one with the most packages found; the next  *)
(* round gives one with more (LoopFinds).                                  *)
(***************************************************************************)
Needed(p) == Depends[p] \cup (IF p \in Format2 THEN TestDepends[p] ELSE {})

\* The pairs the loop works on, and what a round makes of one: p goes from
\* todo to found, and those of its dependencies that are in neither to todo.
Pairs(pkgs) == [todo : SUBSET pkgs, found : SUBSET pkgs]
Pair(todo, found) == [todo |-> todo, found |-> found]
Round(pkgs, s, p) ==
  LET todo == s.todo \ {p}
      found == s.found \cup {p}
  IN  Pair(todo \cup {q \in Needed(p) \cap pkgs : q \notin todo /\ q \notin found}, found)

\* s has todo, and the dependencies of its members that are not in found.
Covers(pkgs, todo, found, s) ==
  /\ todo \subseteq s
  /\ \A p \in s : \A q \in Needed(p) \cap pkgs : q \in found \/ q \in s

Least(pkgs, todo, found) ==
  {q \in pkgs : \A s \in SUBSET pkgs : Covers(pkgs, todo, found, s) => q \in s}
Below(pkgs, s) == s.found \cup Least(pkgs, s.todo, s.found)

\* The loop as a function of todo and found.
Taken(s) == CHOOSE p \in s.todo : TRUE
IsLoop(f, pkgs) ==
  f = [s \in Pairs(pkgs) |-> IF s.todo = {} THEN s.found ELSE f[Round(pkgs, s, Taken(s))]]

\* Every set of packages is finite: topological_order_packages lists it.
LEMMA PackagesFinite == ASSUME NEW S \in SUBSET Packages PROVE IsFiniteSet(S)
<1> DEFINE n == Len(Order[S])
<1>1. Order[S] \in Seq(Packages) /\ {Order[S][i] : i \in DOMAIN Order[S]} = S
  BY OrderAssumption
<1>2. n \in Nat /\ DOMAIN Order[S] = 1..n /\ Order[S] = [i \in 1..n |-> Order[S][i]]
  BY <1>1
<1>3. Order[S] \in Surjection(1..n, S)
  <2>1. Order[S] \in [1..n -> S]
    BY <1>1, <1>2
  <2>2. \A q \in S : \E i \in 1..n : Order[S][i] = q
    BY <1>1, <1>2
  <2> QED BY <2>1, <2>2 DEF Surjection
<1>4. 1 \in Int /\ n \in Int
  BY <1>2
<1>5. IsFiniteSet(1..n)
  BY <1>4, FS_Interval
<1> QED BY <1>3, <1>5, FS_Surjection

\* Least covers, when todo is of the packages.
LEMMA LeastCovers ==
  ASSUME NEW pkgs, NEW todo \in SUBSET pkgs, NEW found \in SUBSET pkgs
  PROVE  /\ Least(pkgs, todo, found) \in SUBSET pkgs
         /\ Covers(pkgs, todo, found, Least(pkgs, todo, found))
         /\ \A s \in SUBSET pkgs : Covers(pkgs, todo, found, s) => Least(pkgs, todo, found) \subseteq s
  BY DEF Least, Covers

\* Nothing is left to cover when todo is empty.
LEMMA NothingLeft ==
  ASSUME NEW pkgs, NEW s \in Pairs(pkgs), s.todo = {}
  PROVE  Below(pkgs, s) = s.found
<1>1. Covers(pkgs, s.todo, s.found, {}) /\ s.todo \in SUBSET pkgs /\ s.found \in SUBSET pkgs
  BY DEF Covers, Pairs
<1>2. Least(pkgs, s.todo, s.found) \subseteq {}
  BY <1>1, LeastCovers
<1> QED BY <1>2 DEF Below

\* A round of the loop keeps Below.
LEMMA RoundKeepsBelow ==
  ASSUME NEW pkgs, NEW s \in Pairs(pkgs), NEW p \in s.todo
  PROVE  /\ Round(pkgs, s, p) \in Pairs(pkgs)
         /\ Round(pkgs, s, p).found = s.found \cup {p}
         /\ s.todo \cap s.found = {} =>
               Round(pkgs, s, p).todo \cap Round(pkgs, s, p).found = {}
         /\ Below(pkgs, Round(pkgs, s, p)) = Below(pkgs, s)
<1> DEFINE todo == s.todo
           found == s.found
           todo2 == Round(pkgs, s, p).todo
           found2 == found \cup {p}
           A == Least(pkgs, todo, found)
           B == Least(pkgs, todo2, found2)
<1>1. todo \in SUBSET pkgs /\ found \in SUBSET pkgs /\ p \in todo
  BY DEF Pairs
<1>2. /\ Round(pkgs, s, p) = Pair(todo2, found2)
      /\ todo2 = (todo \ {p}) \cup
                   {q \in Needed(p) \cap pkgs : q \notin todo \ {p} /\ q \notin found2}
  BY DEF Round, Pair
<1> HIDE DEF todo, found, todo2
<1>3. todo2 \in SUBSET pkgs /\ found2 \in SUBSET pkgs
  BY <1>1, <1>2
<1>4. A \in SUBSET pkgs /\ todo \subseteq A
      /\ \A q \in A : \A r \in Needed(q) \cap pkgs : r \in found \/ r \in A
  BY <1>1, LeastCovers DEF Covers
<1>5. B \in SUBSET pkgs /\ todo2 \subseteq B
      /\ \A q \in B : \A r \in Needed(q) \cap pkgs : r \in found2 \/ r \in B
  BY <1>3, LeastCovers DEF Covers
<1>6. B \subseteq A
  <2>1. todo2 \subseteq A
    BY <1>1, <1>2, <1>4
  <2>2. Covers(pkgs, todo2, found2, A)
    BY <2>1, <1>4 DEF Covers
  <2> QED BY <2>2, <1>3, <1>4, LeastCovers
<1>7. A \subseteq B \cup {p}
  <2>1. B \cup {p} \in SUBSET pkgs
    BY <1>1, <1>5
  <2>2. todo \subseteq B \cup {p}
    BY <1>2, <1>5
  <2>3. ASSUME NEW q \in B \cup {p}, NEW r \in Needed(q) \cap pkgs, r \notin found
        PROVE  r \in B \cup {p}
    <3>1. CASE q \in B
      BY <3>1, <2>3, <1>5
    <3>2. CASE q = p
      <4>1. r = p \/ r \in todo2
        BY <3>2, <2>3, <1>2
      <4> QED BY <4>1, <1>5
    <3> QED BY <2>3, <3>1, <3>2
  <2>4. Covers(pkgs, todo, found, B \cup {p})
    BY <2>2, <2>3 DEF Covers
  <2> HIDE DEF A, B
  <2>5. \A t \in SUBSET pkgs : Covers(pkgs, todo, found, t) => A \subseteq t
    BY <1>1, LeastCovers DEF A
  <2> QED BY <2>1, <2>4, <2>5
<1>8. Below(pkgs, s) = found \cup A /\ Below(pkgs, Round(pkgs, s, p)) = found2 \cup B
  BY <1>2 DEF Below, Pair, todo, found
<1>9. found \cup A = found2 \cup B
  <2> HIDE DEF A, B
  <2> QED BY <1>1, <1>4, <1>6, <1>7
<1>10. todo \cap found = {} => todo2 \cap found2 = {}
  BY <1>2
<1>11. /\ Round(pkgs, s, p).found = found2 /\ Round(pkgs, s, p).todo = todo2
       /\ Round(pkgs, s, p) \in Pairs(pkgs)
  BY <1>2, <1>3 DEF Pairs, Pair
<1> QED BY <1>8, <1>9, <1>10, <1>11 DEF todo, found

\* The recursion of the loop has a solution.
LEMMA LoopSolved == ASSUME NEW pkgs PROVE \E f : IsLoop(f, pkgs)
<1> DEFINE f == [s \in Pairs(pkgs) |-> Below(pkgs, s)]
<1>1. ASSUME NEW s \in Pairs(pkgs)
      PROVE  Below(pkgs, s) = IF s.todo = {} THEN s.found ELSE f[Round(pkgs, s, Taken(s))]
  <2>1. CASE s.todo = {}
    BY <2>1, NothingLeft
  <2>2. CASE s.todo # {}
    <3>1. Taken(s) \in s.todo
      BY <2>2 DEF Taken
    <3>2. Round(pkgs, s, Taken(s)) \in Pairs(pkgs)
          /\ Below(pkgs, Round(pkgs, s, Taken(s))) = Below(pkgs, s)
      BY <3>1, RoundKeepsBelow
    <3> QED BY <2>2, <3>2
  <2> QED BY <2>1, <2>2
<1>2. IsLoop(f, pkgs)
  BY <1>1 DEF IsLoop
<1> QED BY <1>2

\* Every solution finds Below from disjoint sets of packages.
LEMMA LoopFinds ==
  ASSUME NEW pkgs \in SUBSET Packages, NEW f, IsLoop(f, pkgs),
         NEW asked \in SUBSET pkgs
  PROVE  f[Pair(asked, {})] = Below(pkgs, Pair(asked, {}))
<1> DEFINE Wrong == {s \in Pairs(pkgs) : s.todo \cap s.found = {} /\ f[s] # Below(pkgs, s)}
           Bad == {pkgs \ s.found : s \in Wrong}
           R == StrictSubsetOrdering(pkgs)
<1>1. \A s \in Pairs(pkgs) :
        f[s] = IF s.todo = {} THEN s.found ELSE f[Round(pkgs, s, Taken(s))]
  BY DEF IsLoop
<1>2. ASSUME Bad # {} PROVE FALSE
  <2>1. IsWellFoundedOn(R, FiniteSubsetsOf(pkgs))
    BY FS_StrictSubsetOrderingWellFounded
  <2>2. Bad \subseteq FiniteSubsetsOf(pkgs)
    <3>1. ASSUME NEW s \in SUBSET pkgs PROVE s \in FiniteSubsetsOf(pkgs)
      BY PackagesFinite DEF FiniteSubsetsOf
    <3> QED BY <3>1
  <2>3. PICK b \in Bad : \A c \in Bad : ~(<<c, b>> \in R)
    <3> HIDE DEF R, Bad
    <3> QED BY <1>2, <2>1, <2>2, WFMin
  <2>4. PICK s \in Wrong : b = pkgs \ s.found
    BY <2>3
  <2>5. s \in Pairs(pkgs) /\ s.todo \cap s.found = {} /\ f[s] # Below(pkgs, s)
    BY <2>4
  <2>6. s.todo # {}
    BY <2>5, <1>1, NothingLeft
  <2> DEFINE p == Taken(s)
             next == Round(pkgs, s, p)
  <2>7. p \in s.todo /\ p \in pkgs
    BY <2>5, <2>6 DEF Taken, Pairs
  <2>8. /\ next \in Pairs(pkgs) /\ next.found = s.found \cup {p}
        /\ next.todo \cap next.found = {}
        /\ Below(pkgs, next) = Below(pkgs, s)
    BY <2>5, <2>7, RoundKeepsBelow
  <2>9. f[next] = f[s]
    BY <1>1, <2>5, <2>6
  <2> HIDE DEF p, next
  <2>10. next \in Wrong
    BY <2>5, <2>8, <2>9
  <2>11. <<pkgs \ next.found, b>> \in R
    <3>1. p \notin s.found /\ s.found \in SUBSET pkgs
      BY <2>5, <2>7 DEF Pairs
    <3>2. /\ pkgs \ next.found \in SUBSET pkgs /\ b \in SUBSET pkgs
          /\ pkgs \ next.found \subseteq b /\ p \in b /\ p \notin pkgs \ next.found
      BY <2>4, <2>7, <2>8, <3>1
    <3>3. pkgs \ next.found # b
      BY <3>2
    <3> QED BY <3>2, <3>3 DEF R, StrictSubsetOrdering
  <2> QED BY <2>3, <2>10, <2>11
<1>3. Pair(asked, {}) \in Pairs(pkgs) /\ Pair(asked, {}).todo \cap Pair(asked, {}).found = {}
  BY DEF Pair, Pairs
<1> QED BY <1>2, <1>3

\* So the operator is the least set of the packages with the asked-for ones
\* and all that they need.
LEMMA WithRecursiveDependenciesIs ==
  ASSUME NEW pkgs \in SUBSET Packages, NEW asked
  PROVE  WithRecursiveDependencies(pkgs, asked) = Least(pkgs, asked \cap pkgs, {})
<1> DEFINE F == CHOOSE f : IsLoop(f, pkgs)
<1>1. IsLoop(F, pkgs)
  BY LoopSolved
<1>2. WithRecursiveDependencies(pkgs, asked) = F[Pair(asked \cap pkgs, {})]
  BY DEF WithRecursiveDependencies, IsLoop, Round, Pair, Pairs, Needed, Taken
<1> HIDE DEF F
<1>3. F[Pair(asked \cap pkgs, {})] = Below(pkgs, Pair(asked \cap pkgs, {}))
  BY <1>1, LoopFinds
<1> QED BY <1>2, <1>3 DEF Below, Pair

USE CatkinAssumption, OrderAssumption

-----------------------------------------------------------------------------
(* Types                                                                   *)

Args == {o.args : o \in Options} \cup {"none"}
Builds == {o.build : o \in Options} \cup {{}}

DirState == [makefile : BOOLEAN, args : Args, prefix : Places,
             path : SUBSET Places, half : {"no", "failed", "killed"}]

SessionState == [pc : {"idle", "build space", "devel space", "plan", "next", "cmake",
                       "check", "make", "install", "envsh"},
                 o : Options, order : Seq(Packages), at : Nat, build : Builds,
                 force : BOOLEAN, lastEnv : Places \cup {"none"}, ok : BOOLEAN]

\* The types; a session in its loop is at a package or past the last one.
TypeInv ==
  /\ source \in Workspaces /\ source \subseteq Packages
  /\ mark \in [{"build", "devel"} -> {"none", "isolated", "other"}]
  /\ cache \in [packages : SUBSET Packages, args : Args]
  /\ dir \in [Dirs -> DirState]
  /\ products \in [Places -> SUBSET Packages]
  /\ env \in [Places -> (SUBSET Places) \cup {NoEnv}]
  /\ top \in Packages \cup {NoPackage}
  /\ session \in SessionState
  /\ sessions \in 0 .. MaxSessions
  /\ safe \in BOOLEAN
  /\ session.at <= Len(session.order) + 1
  /\ InLoop => session.at >= 1
  /\ InLoop /\ session.pc # "next" => session.at <= Len(session.order)

-----------------------------------------------------------------------------
(* The marks                                                               *)

\* Past the checks both spaces carry this tool's mark.
MarkInv ==
  /\ session.pc = "devel space" => mark["build"] = "isolated"
  /\ session.pc = "plan" \/ InLoop => mark["build"] = "isolated" /\ mark["devel"] = "isolated"

-----------------------------------------------------------------------------
(* The session in its loop                                                 *)

\* What a session builds was accepted; the environment it builds in is that of
\* the package before.
LoopInv ==
  /\ session.pc \in {"build space", "devel space", "plan"} =>
       session.build = session.o.build /\ session.lastEnv = "none" /\ ~session.ok
  /\ InLoop => session.order = Order[Considered] /\ ~Refused
  /\ InLoop => session.lastEnv = IF session.at = 1 THEN "none"
                 ELSE IF session.o.install THEN "install"
                 ELSE IF session.o.merge THEN "devel" ELSE session.order[session.at - 1]
  /\ session.pc = "install" => BuildType[Package] = "cmake" \/ session.o.install
  /\ session.pc = "envsh" /\ BuildType[Package] = "cmake" => EnvUsable
  /\ InLoop => ~session.ok

\* A catkin package's Makefile is never that of a cmake run that failed.
HalfInv ==
  /\ \A p \in Packages : LET d == dir[<<p, "all">>] IN
       d.prefix # "install" /\ (d.makefile => d.half # "failed")
  /\ session.pc = "check" => dir[BuildDir].makefile
  /\ session.pc = "make" /\ BuildType[Package] = "catkin" => dir[BuildDir].half # "failed"

-----------------------------------------------------------------------------
(* What the cache stands for                                               *)

\* The place package p's products and environment go to, and the path that
\* package i of list q is built on.
PlaceOf(p, ins, mer) == IF ins THEN "install" ELSE IF mer THEN "devel" ELSE p
DevelOf(p, mer) == IF mer THEN "devel" ELSE p
PathAt(q, i, ins, mer) ==
  IF i = 1 THEN {} ELSE IF ins THEN {"install"} ELSE IF mer THEN {"devel"}
  ELSE {q[j] : j \in 1 .. i - 1}
DirOf(p, ins) == <<p, IF BuildType[p] = "catkin" THEN "all"
                      ELSE IF ins THEN "install" ELSE "devel">>

\* Package i of q is configured with arguments a,
ConfiguredGood(q, i, a, ins, mer, d) ==
  /\ d.makefile /\ d.half = "no" /\ d.args = a /\ d.path = PathAt(q, i, ins, mer)
  /\ d.prefix = IF BuildType[q[i]] = "catkin" THEN DevelOf(q[i], mer)
                ELSE PlaceOf(q[i], ins, mer)
\* is where the packages after it look for it,
BuiltGood(q, i, ins, mer, P) ==
  (ins /\ BuildType[q[i]] = "catkin" /\ q[i] \in NoInstall) \/ q[i] \in P[PlaceOf(q[i], ins, mer)]
\* and has an environment with it and all packages before it.
EnvGood(q, i, ins, mer, E) == E[PlaceOf(q[i], ins, mer)] = PathAt(q, i + 1, ins, mer)

Good(q, i, a, ins, mer, D, P, E) ==
  /\ ConfiguredGood(q, i, a, ins, mer, D[DirOf(q[i], ins)])
  /\ BuiltGood(q, i, ins, mer, P)
  /\ EnvGood(q, i, ins, mer, E)

CachedOrder == Order[cache.packages]

\* The packages that are good up to now.
GoodUpTo == IF InLoop /\ session.force THEN session.at - 1 ELSE Len(CachedOrder)

\* Nothing is on disk before the first session; the cache is of accepted input.
DiskInv ==
  /\ sessions = 0 => /\ cache = NoCache /\ env = [l \in Places |-> NoEnv]
                     /\ session.pc = "idle"
  /\ ~Circular(cache.packages) /\ UnknownType(cache.packages) = {}

\* The session works on the cached input.
SyncInv ==
  InLoop \/ (session.pc = "idle" /\ session.ok) =>
    session.order = CachedOrder /\ session.o.args = cache.args

GoodInv ==
  \A i \in 1 .. GoodUpTo : Good(CachedOrder, i, cache.args, session.o.install,
                                session.o.merge, dir, products, env)

\* A space all packages share has no other on its path.
SharedInv ==
  /\ session.o.install => env["install"] \in {NoEnv, {"install"}}
  /\ ~session.o.install /\ session.o.merge => env["devel"] \in {NoEnv, {"devel"}}

\* cmake is called when the input has changed, and then for all packages.
ForceInv ==
  /\ session.pc = "cmake" => session.force
  /\ session.pc = "check" => ~session.force
  /\ InLoop /\ session.force => session.build = {}

\* What is done of the package at hand.
HereInv ==
  /\ session.force /\ session.pc \in {"make", "install", "envsh"} =>
       /\ ConfiguredGood(session.order, session.at, session.o.args, session.o.install,
                         session.o.merge, dir[BuildDir])
       /\ BuildType[Package] = "catkin" /\ ~session.o.install =>
            EnvGood(session.order, session.at, session.o.install, session.o.merge, env)
  /\ session.force /\ session.pc = "envsh" =>
       BuiltGood(session.order, session.at, session.o.install, session.o.merge, products)

CacheInv == safe => SyncInv /\ GoodInv /\ SharedInv /\ ForceInv /\ HereInv

-----------------------------------------------------------------------------
(* The top-level environment                                               *)

\* A session that is to leave a relay has made the environment of the last
\* package it is past, from the first package it builds on.
RelayInv ==
  /\ InLoop /\ session.o.build = {} => session.build = {}
  /\ InLoop /\ session.o.continue => session.build \in {{}, session.o.build}
  /\ InLoop /\ session.o.continue /\ session.build # {} =>
       \A i \in 1 .. session.at - 1 : session.order[i] \notin session.o.build
  /\ InLoop /\ session.pc # "next" /\ session.o.continue => session.build = {}
  /\ InLoop /\ session.build = {} /\ session.at > 1 /\ ~session.o.install /\ ~session.o.merge
       /\ (session.o.continue \/ session.o.build = {}) =>
         env[session.order[session.at - 1]] # NoEnv \/ session.pc # "next"

Inv == /\ TypeInv /\ MarkInv /\ LoopInv /\ HalfInv /\ DiskInv
       /\ CacheInv /\ RelayInv /\ TopLevelUsable

-----------------------------------------------------------------------------
(* What the steps do                                                       *)

\* The order of no packages is empty.
LEMMA EmptyOrder == Len(Order[{}]) = 0
<1>1. Order[{}] \in Seq(Packages) /\ {Order[{}][i] : i \in DOMAIN Order[{}]} = {}
  OBVIOUS
<1>2. DOMAIN Order[{}] = 1 .. Len(Order[{}]) /\ Len(Order[{}]) \in Nat
  BY <1>1
<1>3. ASSUME Len(Order[{}]) # 0 PROVE FALSE
  <2>1. 1 \in DOMAIN Order[{}]
    BY <1>2, <1>3
  <2>2. Order[{}][1] \in {Order[{}][i] : i \in DOMAIN Order[{}]}
    BY <2>1
  <2> QED BY <1>1, <2>2
<1> QED BY <1>3

\* The fields of the session that a step of the loop leaves alone.
SameSession == session'.o = session.o /\ session'.order = session.order /\ session'.ok = session.ok

LEMMA BeginEffect ==
  ASSUME TypeInv, NEW o \in Options, Begin(o)
  PROVE  /\ session' \in SessionState /\ session'.pc = "build space" /\ session'.o = o
         /\ session'.order = <<>> /\ session'.at = 0 /\ session'.ok = FALSE
         /\ session'.build = o.build /\ session'.force = FALSE /\ session'.lastEnv = "none"
         /\ sessions' = sessions + 1 /\ sessions < MaxSessions /\ session.pc = "idle"
         /\ safe' = (safe /\ (sessions = 0 \/ (/\ o.install = session.o.install
                                               /\ o.merge = session.o.merge)))
         /\ UNCHANGED <<source, disk>>
<1> DEFINE s == [pc |-> "build space", o |-> o, order |-> <<>>, at |-> 0, build |-> o.build,
                 force |-> FALSE, lastEnv |-> "none", ok |-> FALSE]
<1>1. session' = s
  BY DEF Begin, Idle
<1>2. o.build \in Builds /\ <<>> \in Seq(Packages)
  BY DEF Builds
<1>3. s \in SessionState
  BY <1>2 DEF SessionState
<1>4. /\ session.pc = "idle" /\ sessions' = sessions + 1 /\ sessions < MaxSessions
      /\ safe' = (safe /\ (sessions = 0 \/ (/\ o.install = session.o.install
                                            /\ o.merge = session.o.merge)))
      /\ UNCHANGED <<source, disk>>
  BY DEF Begin
<1> QED BY <1>1, <1>3, <1>4

LEMMA EndEffect ==
  ASSUME TypeInv, NEW ok \in BOOLEAN, End(ok)
  PROVE  /\ session' \in SessionState /\ session'.pc = "idle" /\ session'.ok = ok
         /\ session'.o = session.o /\ session'.order = session.order
         /\ session'.at = session.at /\ session'.build = session.build
         /\ session'.force = session.force /\ session'.lastEnv = session.lastEnv
         /\ safe' = (safe /\ (ok \/ ~InLoop \/ ~session.force))
         /\ UNCHANGED <<source, sessions>>
BY DEF End, SessionState, TypeInv

LEMMA PlanEffect ==
  ASSUME TypeInv, Plan, ~Refused
  PROVE  /\ session.pc = "plan" /\ session' \in SessionState /\ session'.pc = "next"
         /\ session'.o = session.o /\ session'.order = Order[Considered] /\ session'.at = 1
         /\ session'.build = session.build /\ session'.ok = session.ok
         /\ session'.lastEnv = session.lastEnv
         /\ session'.force = (session.o.force \/ InputChanged(Input, cache))
         /\ safe' = (safe /\ ~session.o.force
                          /\ (InputChanged(Input, cache) => session.o.build = {}))
         /\ cache' = IF session.o.force THEN cache ELSE Input
         /\ UNCHANGED <<source, mark, dir, products, env, top, sessions>>
<1>1. Considered \subseteq Packages
  BY DEF Considered, TypeInv
<1>2. Order[Considered] \in Seq(Packages) /\ session.o.force \in BOOLEAN
  BY <1>1 DEF TypeInv, SessionState
<1>3. InputChanged(Input, cache) \in BOOLEAN
  BY DEF InputChanged
<1> DEFINE f == session.o.force \/ (~session.o.force /\ InputChanged(Input, cache))
<1>4. /\ session' = [session EXCEPT !.pc = "next", !.order = Order[Considered],
                                    !.at = 1, !.force = f]
      /\ f \in BOOLEAN /\ f = (session.o.force \/ InputChanged(Input, cache))
  BY <1>2, <1>3 DEF Plan, TopologicalOrder
<1> HIDE DEF f
<1>5. /\ session' \in SessionState /\ session'.pc = "next"
      /\ session'.o = session.o /\ session'.order = Order[Considered] /\ session'.at = 1
      /\ session'.build = session.build /\ session'.ok = session.ok
      /\ session'.lastEnv = session.lastEnv /\ session'.force = f
  BY <1>2, <1>4 DEF SessionState, TypeInv
<1>6. /\ session.pc = "plan"
      /\ safe' = (safe /\ ~session.o.force
                       /\ (InputChanged(Input, cache) => session.o.build = {}))
      /\ cache' = IF session.o.force THEN cache ELSE Input
      /\ UNCHANGED <<source, mark, dir, products, env, top, sessions>>
  BY <1>3 DEF Plan
<1> QED BY <1>4, <1>5, <1>6

\* A step of the loop that goes on to another pc.
LEMMA PcEffect ==
  ASSUME TypeInv, NEW c \in {"next", "cmake", "check", "make", "install", "envsh"},
         session' = [session EXCEPT !.pc = c]
  PROVE  /\ session' \in SessionState /\ session'.pc = c /\ SameSession
         /\ session'.at = session.at /\ session'.build = session.build
         /\ session'.force = session.force /\ session'.lastEnv = session.lastEnv
BY DEF SameSession, SessionState, TypeInv

\* The package at hand is one.
LEMMA PackageType ==
  ASSUME TypeInv, InLoop, session.at <= Len(session.order)
  PROVE  Package \in Packages /\ session.at \in 1 .. Len(session.order)
<1>1. session.order \in Seq(Packages) /\ session.at \in Nat /\ session.at >= 1
  BY DEF TypeInv, SessionState
<1> QED BY <1>1 DEF Package

\* A package is past.
LEMMA DoneEffect ==
  ASSUME TypeInv, InLoop, session.at <= Len(session.order),
         Done \/ (session.pc = "next" /\ session' = [session EXCEPT !.at = @ + 1, !.lastEnv = NewEnv])
  PROVE  /\ session' \in SessionState /\ session'.pc = "next" /\ SameSession
         /\ session'.at = session.at + 1 /\ session'.build = session.build
         /\ session'.force = session.force /\ session'.lastEnv = NewEnv
         /\ NewEnv = PlaceOf(Package, session.o.install, session.o.merge)
<1>1. Package \in Packages
  BY PackageType
<1>2. NewEnv \in Places /\ NewEnv = PlaceOf(Package, session.o.install, session.o.merge)
  BY <1>1 DEF NewEnv, PkgDevelspace, PlaceOf, Places
<1>a. session \in SessionState
  BY DEF TypeInv
<1>b. session.at \in Nat
  BY <1>a DEF SessionState
<1>3. session.at + 1 \in Nat /\ session \in SessionState
  BY <1>a, <1>b
<1> DEFINE n == session.at + 1
           e == NewEnv
<1>4. CASE session' = [session EXCEPT !.pc = "next", !.at = n, !.lastEnv = e]
  <2> HIDE DEF n, e
  <2>1. n \in Nat /\ e \in Places
    BY <1>2, <1>3 DEF n, e
  <2>2. /\ session' \in SessionState /\ session'.pc = "next" /\ SameSession
        /\ session'.at = n /\ session'.build = session.build
        /\ session'.force = session.force /\ session'.lastEnv = e
    BY <1>3, <1>4, <2>1 DEF SameSession, SessionState
  <2> QED BY <1>2, <2>2 DEF n, e
<1>5. CASE session.pc = "next" /\ session' = [session EXCEPT !.at = n, !.lastEnv = e]
  <2> HIDE DEF n, e
  <2>1. n \in Nat /\ e \in Places
    BY <1>2, <1>3 DEF n, e
  <2>2. /\ session' \in SessionState /\ session'.pc = "next" /\ SameSession
        /\ session'.at = n /\ session'.build = session.build
        /\ session'.force = session.force /\ session'.lastEnv = e
    BY <1>3, <1>5, <2>1 DEF SameSession, SessionState
  <2> QED BY <1>2, <2>2 DEF n, e
<1> QED BY <1>4, <1>5 DEF Done

-----------------------------------------------------------------------------
(* Steps outside the loop                                                  *)

LEMMA InitInv == Init => Inv
<1> SUFFICES ASSUME Init PROVE Inv
  OBVIOUS
<1> DEFINE o == CHOOSE x \in Options : TRUE
<1>1. o \in Options
  OBVIOUS
<1> HIDE DEF o
<1>2. session = [pc |-> "idle", o |-> o, order |-> <<>>, at |-> 0, build |-> {},
                 force |-> FALSE, lastEnv |-> "none", ok |-> FALSE]
  BY DEF Init, Idle, o
<1>3. <<>> \in Seq(Packages) /\ {} \in Builds /\ "none" \in Args
  BY DEF Builds, Args
<1>4. session \in SessionState
  BY <1>1, <1>2, <1>3 DEF SessionState
<1>5. session.pc = "idle" /\ ~session.ok /\ session.at = 0 /\ session.order = <<>> /\ ~InLoop
  BY <1>2 DEF InLoop
<1>6. NoDir \in DirState /\ NoEnv \in (SUBSET Places) \cup {NoEnv}
  BY <1>3 DEF NoDir, DirState, Places
<1>7. TypeInv
  <2>1. /\ mark \in [{"build", "devel"} -> {"none", "isolated", "other"}]
        /\ dir \in [Dirs -> DirState] /\ products \in [Places -> SUBSET Packages]
        /\ env \in [Places -> (SUBSET Places) \cup {NoEnv}]
    BY <1>6 DEF Init
  <2>2. cache \in [packages : SUBSET Packages, args : Args]
    BY <1>3 DEF Init, NoCache
  <2>3. source \in Workspaces /\ source \subseteq Packages /\ top \in Packages \cup {NoPackage}
        /\ sessions \in 0 .. MaxSessions /\ safe \in BOOLEAN
    BY DEF Init
  <2> QED BY <1>4, <1>5, <2>1, <2>2, <2>3 DEF TypeInv
<1>8. MarkInv /\ LoopInv /\ RelayInv /\ TopLevelUsable
  BY <1>5 DEF MarkInv, LoopInv, RelayInv, TopLevelUsable
<1>9. HalfInv
  <2>1. \A p \in Packages : dir[<<p, "all">>] = NoDir
    BY DEF Init, Dirs
  <2> QED BY <1>5, <2>1 DEF HalfInv, NoDir
<1>10. cache = NoCache /\ cache.packages = {}
  BY DEF Init, NoCache
<1>11. DiskInv
  <2>1. ~Circular({}) /\ UnknownType({}) = {}
    <3>1. \A s \in SUBSET {} : s = {}
      OBVIOUS
    <3> QED BY <3>1 DEF Circular, UnknownType
  <2> QED BY <1>5, <1>10, <2>1 DEF Init, DiskInv
<1>12. CacheInv
  <2>1. Len(CachedOrder) = 0
    BY <1>10, EmptyOrder DEF CachedOrder
  <2>2. SyncInv /\ ForceInv /\ HereInv
    BY <1>5 DEF SyncInv, ForceInv, HereInv
  <2>3. SharedInv
    BY DEF Init, SharedInv, Places
  <2>4. GoodInv
    BY <1>5, <2>1 DEF GoodInv, GoodUpTo
  <2> QED BY <2>2, <2>3, <2>4 DEF CacheInv
<1> QED BY <1>7, <1>8, <1>9, <1>11, <1>12 DEF Inv

\* Steps between two sessions that leave the session, the cache, the build
\* directories, the products and the environments alone.
LEMMA IdleKeeps ==
  ASSUME Inv, session.pc = "idle",
         UNCHANGED <<cache, dir, products, env, top, session, sessions, safe>>,
         source' \in Workspaces,
         mark' \in [{"build", "devel"} -> {"none", "isolated", "other"}]
  PROVE  Inv'
<1>0. /\ TypeInv /\ MarkInv /\ LoopInv /\ HalfInv /\ DiskInv
      /\ CacheInv /\ RelayInv /\ TopLevelUsable /\ ~InLoop /\ ~InLoop'
  BY DEF Inv, InLoop
<1>1. TypeInv'
  BY <1>0 DEF TypeInv
<1>2. MarkInv' /\ LoopInv' /\ RelayInv'
  BY <1>0 DEF MarkInv, LoopInv, RelayInv
<1>3. HalfInv' /\ DiskInv' /\ TopLevelUsable'
  BY <1>0 DEF HalfInv, DiskInv, TopLevelUsable
<1>4. CacheInv'
  <2>1. ASSUME safe PROVE SyncInv' /\ GoodInv' /\ SharedInv' /\ ForceInv' /\ HereInv'
    <3>1. SyncInv /\ GoodInv /\ SharedInv
      BY <1>0, <2>1 DEF CacheInv
    <3>2. SyncInv' /\ SharedInv' /\ ForceInv' /\ HereInv'
      BY <1>0, <3>1 DEF SyncInv, SharedInv, ForceInv, HereInv, CachedOrder
    <3>3. GoodInv'
      BY <1>0, <3>1 DEF GoodInv, GoodUpTo, CachedOrder
    <3> QED BY <3>2, <3>3
  <2> QED BY <2>1 DEF CacheInv
<1> QED BY <1>1, <1>2, <1>3, <1>4 DEF Inv

\* A session that ends without success, whatever the reason.
LEMMA EndKeeps ==
  ASSUME Inv, End(FALSE), UNCHANGED disk
  PROVE  Inv'
<1>0. /\ TypeInv /\ MarkInv /\ LoopInv /\ HalfInv /\ DiskInv
      /\ CacheInv /\ RelayInv /\ TopLevelUsable
  BY DEF Inv
<1>1. /\ session' \in SessionState /\ session'.pc = "idle" /\ ~session'.ok
      /\ session'.o = session.o /\ session'.order = session.order /\ session'.at = session.at
      /\ safe' = (safe /\ (~InLoop \/ ~session.force)) /\ UNCHANGED <<source, sessions>>
  BY <1>0, EndEffect
<1>2. ~InLoop'
  BY <1>1 DEF InLoop
<1>3. TypeInv'
  BY <1>0, <1>1, <1>2 DEF TypeInv, disk
<1>4. MarkInv' /\ LoopInv' /\ RelayInv' /\ TopLevelUsable'
  BY <1>1, <1>2 DEF MarkInv, LoopInv, RelayInv, TopLevelUsable
<1>5. HalfInv' /\ DiskInv'
  BY <1>0, <1>1 DEF HalfInv, DiskInv, disk
<1>6. CacheInv'
  <2>1. ASSUME safe' PROVE SyncInv' /\ GoodInv' /\ SharedInv' /\ ForceInv' /\ HereInv'
    <3>1. GoodInv /\ SharedInv
      BY <1>0, <1>1, <2>1 DEF CacheInv
    <3>2. SyncInv' /\ SharedInv' /\ ForceInv' /\ HereInv'
      BY <1>1, <1>2, <3>1 DEF SyncInv, SharedInv, ForceInv, HereInv, disk
    <3>3. GoodUpTo = Len(CachedOrder) /\ GoodUpTo' = Len(CachedOrder)
      BY <1>1, <1>2, <2>1 DEF GoodUpTo, CachedOrder, disk
    <3>4. GoodInv'
      BY <1>1, <3>1, <3>3 DEF GoodInv, CachedOrder, disk
    <3> QED BY <3>2, <3>4
  <2> QED BY <2>1 DEF CacheInv
<1> QED BY <1>3, <1>4, <1>5, <1>6 DEF Inv

LEMMA EditSourcesStep == Inv /\ EditSources => Inv'
BY IdleKeeps DEF EditSources, Inv, TypeInv

LEMMA OtherToolStep == Inv /\ OtherTool => Inv'
<1> SUFFICES ASSUME Inv, OtherTool PROVE Inv'
  OBVIOUS
<1>1. TypeInv
  BY DEF Inv
<1>2. mark' \in [{"build", "devel"} -> {"none", "isolated", "other"}]
  BY <1>1 DEF OtherTool, TypeInv
<1> QED BY <1>1, <1>2, IdleKeeps DEF OtherTool, TypeInv

LEMMA BeginStep == ASSUME Inv, NEW o \in Options, Begin(o) PROVE Inv'
<1>0. /\ TypeInv /\ MarkInv /\ LoopInv /\ HalfInv /\ DiskInv
      /\ CacheInv /\ RelayInv /\ TopLevelUsable
  BY DEF Inv
<1>1. /\ session' \in SessionState /\ session'.pc = "build space" /\ session'.o = o
      /\ session'.order = <<>> /\ session'.at = 0 /\ ~session'.ok
      /\ session'.build = o.build /\ session'.force = FALSE /\ session'.lastEnv = "none"
      /\ sessions' = sessions + 1 /\ sessions < MaxSessions /\ session.pc = "idle"
      /\ safe' = (safe /\ (sessions = 0 \/ (/\ o.install = session.o.install
                                            /\ o.merge = session.o.merge)))
      /\ UNCHANGED <<source, disk>>
  BY <1>0, BeginEffect
<1>a. sessions' = sessions + 1 /\ sessions < MaxSessions
  BY <1>1
<1>2. ~InLoop' /\ ~InLoop
  BY <1>1 DEF InLoop
<1>3. TypeInv'
  <2>1. sessions' \in 0 .. MaxSessions
    BY <1>0, <1>a DEF TypeInv
  <2>2. session'.at = 0 /\ session'.order = <<>>
    BY <1>1
  <2>3. session'.at <= Len(session'.order) + 1
    BY <2>2
  <2>4. safe' \in BOOLEAN
    BY <1>1
  <2> QED BY <1>0, <1>1, <1>2, <2>1, <2>3, <2>4 DEF TypeInv, disk
<1>4. MarkInv' /\ LoopInv' /\ RelayInv' /\ TopLevelUsable'
  BY <1>1, <1>2 DEF MarkInv, LoopInv, RelayInv, TopLevelUsable
<1>5. HalfInv'
  BY <1>0, <1>1 DEF HalfInv, disk
<1>6. DiskInv'
  <2>1. sessions' # 0
    BY <1>0, <1>a DEF TypeInv
  <2> QED BY <1>0, <1>1, <2>1 DEF DiskInv, disk
<1>7. CacheInv'
  <2>1. ASSUME safe' PROVE SyncInv' /\ GoodInv' /\ SharedInv' /\ ForceInv' /\ HereInv'
    <3>1. SyncInv' /\ ForceInv' /\ HereInv'
      BY <1>1, <1>2 DEF SyncInv, ForceInv, HereInv
    <3>2. GoodInv /\ SharedInv
      BY <1>0, <1>1, <2>1 DEF CacheInv
    <3>3. GoodUpTo = Len(CachedOrder) /\ GoodUpTo' = Len(CachedOrder)
      BY <1>1, <1>2 DEF GoodUpTo, CachedOrder, disk
    <3>4. CASE sessions = 0
      <4>1. cache.packages = {} /\ env = [l \in Places |-> NoEnv] /\ UNCHANGED <<cache, env>>
        <5>1. cache = NoCache /\ env = [l \in Places |-> NoEnv]
          BY <1>0, <3>4 DEF DiskInv
        <5>2. NoCache.packages = {}
          BY DEF NoCache
        <5>3. UNCHANGED <<cache, env>>
          BY <1>1 DEF disk
        <5> QED BY <5>1, <5>2, <5>3
      <4>2. Len(CachedOrder) = 0
        BY <4>1, EmptyOrder DEF CachedOrder
      <4>3. GoodInv'
        BY <3>3, <4>2 DEF GoodInv
      <4>4. SharedInv'
        BY <4>1 DEF SharedInv, Places
      <4> QED BY <3>1, <4>3, <4>4
    <3>5. CASE sessions # 0
      <4>1. o.install = session.o.install /\ o.merge = session.o.merge
        BY <1>1, <2>1, <3>5
      <4>2. GoodInv'
        BY <1>1, <3>2, <3>3, <4>1 DEF GoodInv, CachedOrder, disk
      <4>3. SharedInv'
        BY <1>1, <3>2, <4>1 DEF SharedInv, disk
      <4> QED BY <3>1, <4>2, <4>3
    <3> QED BY <3>4, <3>5
  <2> QED BY <2>1 DEF CacheInv
<1> QED BY <1>3, <1>4, <1>5, <1>6, <1>7 DEF Inv

\* One of the two checks of the spaces.
LEMMA CheckSpaceStep ==
  ASSUME Inv,
         \/ CheckSpace("build", "build space", "devel space")
         \/ CheckSpace("devel", "devel space", "plan")
  PROVE  Inv'
<1>0. /\ TypeInv /\ MarkInv /\ LoopInv /\ HalfInv /\ DiskInv
      /\ CacheInv /\ RelayInv /\ TopLevelUsable
  BY DEF Inv
<1>1. CASE End(FALSE) /\ UNCHANGED disk
  BY <1>1, EndKeeps
<1>2. ASSUME NEW s \in {"build", "devel"}, NEW next \in {"devel space", "plan"},
             session.pc = IF s = "build" THEN "build space" ELSE "devel space",
             next = IF s = "build" THEN "devel space" ELSE "plan",
             mark' = [mark EXCEPT ![s] = "isolated"],
             session' = [session EXCEPT !.pc = next],
             UNCHANGED <<source, cache, dir, products, env, top, sessions, safe>>
      PROVE  Inv'
  <2>1. /\ session' \in SessionState /\ session'.pc = next /\ session'.o = session.o
        /\ session'.order = session.order /\ session'.at = session.at
        /\ session'.build = session.build /\ session'.lastEnv = session.lastEnv
        /\ session'.ok = session.ok /\ session'.force = session.force
    BY <1>0, <1>2 DEF TypeInv, SessionState
  <2>2. ~InLoop' /\ ~InLoop /\ session'.pc # "idle"
    BY <1>2, <2>1 DEF InLoop
  <2>3. mark' \in [{"build", "devel"} -> {"none", "isolated", "other"}]
    BY <1>0, <1>2 DEF TypeInv
  <2>4. TypeInv'
    BY <1>0, <1>2, <2>1, <2>2, <2>3 DEF TypeInv
  <2>5. MarkInv'
    BY <1>0, <1>2, <2>1, <2>2 DEF MarkInv, TypeInv
  <2>6. LoopInv' /\ RelayInv' /\ TopLevelUsable'
    BY <1>0, <1>2, <2>1, <2>2 DEF LoopInv, RelayInv, TopLevelUsable
  <2>7. HalfInv' /\ DiskInv'
    BY <1>0, <1>2, <2>1 DEF HalfInv, DiskInv
  <2>8. CacheInv'
    <3>1. ASSUME safe PROVE SyncInv' /\ GoodInv' /\ SharedInv' /\ ForceInv' /\ HereInv'
      <4>1. GoodInv /\ SharedInv
        BY <1>0, <3>1 DEF CacheInv
      <4>2. SyncInv' /\ ForceInv' /\ HereInv'
        BY <1>2, <2>1, <2>2 DEF SyncInv, ForceInv, HereInv
      <4>3. SharedInv'
        BY <1>2, <2>1, <4>1 DEF SharedInv
      <4>4. GoodUpTo = Len(CachedOrder) /\ GoodUpTo' = Len(CachedOrder)
        BY <1>2, <2>2 DEF GoodUpTo, CachedOrder
      <4>5. UNCHANGED <<cache, dir, products, env>> /\ session'.o = session.o
        BY <1>2, <2>1
      <4>6. GoodInv'
        BY <4>1, <4>4, <4>5 DEF GoodInv, CachedOrder
      <4> QED BY <4>2, <4>3, <4>6
    <3> QED BY <1>2, <3>1 DEF CacheInv
  <2> QED BY <2>4, <2>5, <2>6, <2>7, <2>8 DEF Inv
<1>3. CASE CheckSpace("build", "build space", "devel space")
  BY <1>1, <1>2, <1>3 DEF CheckSpace
<1>4. CASE CheckSpace("devel", "devel space", "plan")
  BY <1>1, <1>2, <1>4 DEF CheckSpace
<1> QED BY <1>3, <1>4

LEMMA PlanStep == Inv /\ Plan => Inv'
<1> SUFFICES ASSUME Inv, Plan PROVE Inv'
  OBVIOUS
<1>0. /\ TypeInv /\ MarkInv /\ LoopInv /\ HalfInv /\ DiskInv
      /\ CacheInv /\ RelayInv /\ TopLevelUsable
  BY DEF Inv
<1>1. CASE Refused
  BY <1>1, EndKeeps DEF Plan
<1>2. CASE ~Refused
  <2>1. /\ session.pc = "plan" /\ session' \in SessionState /\ session'.pc = "next"
        /\ session'.o = session.o /\ session'.order = Order[Considered] /\ session'.at = 1
        /\ session'.build = session.build /\ session'.ok = session.ok
        /\ session'.lastEnv = session.lastEnv
        /\ session'.force = (session.o.force \/ InputChanged(Input, cache))
        /\ safe' = (safe /\ ~session.o.force
                         /\ (InputChanged(Input, cache) => session.o.build = {}))
        /\ cache' = IF session.o.force THEN cache ELSE Input
        /\ UNCHANGED <<source, mark, dir, products, env, top, sessions>>
    BY <1>0, <1>2, PlanEffect
  <2>2. InLoop' /\ ~InLoop
    BY <2>1 DEF InLoop
  <2>3. UNCHANGED Considered /\ UNCHANGED Refused /\ Considered \subseteq Packages
    BY <1>0, <2>1 DEF Considered, Refused, TypeInv
  <2>4. /\ Input.packages = Considered /\ Input.args = session.o.args
        /\ Input \in [packages : SUBSET Packages, args : Args]
    <3>1. session.o.args \in Args
      BY <1>0 DEF TypeInv, SessionState, Args
    <3> QED BY <2>3, <3>1 DEF Input
  <2>5. TypeInv'
    <3>1. Order[Considered] \in Seq(Packages)
      BY <2>3
    <3>2. session'.at <= Len(session'.order) + 1 /\ session'.at >= 1
      BY <2>1, <3>1
    <3>3. cache' \in [packages : SUBSET Packages, args : Args] /\ safe' \in BOOLEAN
      BY <1>0, <2>1, <2>4 DEF TypeInv
    <3> QED BY <1>0, <2>1, <3>2, <3>3 DEF TypeInv
  <2>6. MarkInv'
    BY <1>0, <2>1, <2>2 DEF MarkInv
  <2>7. LoopInv'
    BY <1>0, <1>2, <2>1, <2>2, <2>3 DEF LoopInv
  <2>8. RelayInv' /\ TopLevelUsable'
    BY <1>0, <2>1, <2>2 DEF LoopInv, RelayInv, TopLevelUsable
  <2>9. HalfInv' /\ DiskInv'
    <3>1. ~Circular(cache'.packages) /\ UnknownType(cache'.packages) = {}
      BY <1>0, <1>2, <2>1, <2>4 DEF Refused, DiskInv
    <3>2. sessions # 0
      BY <1>0, <2>1 DEF DiskInv
    <3> QED BY <1>0, <2>1, <3>1, <3>2 DEF HalfInv, DiskInv
  <2>10. CacheInv'
    <3>1. ASSUME safe' PROVE SyncInv' /\ GoodInv' /\ SharedInv' /\ ForceInv' /\ HereInv'
      <4>1. /\ safe /\ GoodInv /\ SharedInv /\ cache' = Input
            /\ session'.force = InputChanged(Input, cache)
            /\ InputChanged(Input, cache) => session.build = {}
        <5>1. safe /\ ~session.o.force /\ (InputChanged(Input, cache) => session.o.build = {})
          BY <2>1, <3>1
        <5>2. session'.force = (session.o.force \/ InputChanged(Input, cache))
          BY <2>1
        <5>3. session'.force = InputChanged(Input, cache)
          BY <5>1, <5>2 DEF InputChanged
        <5>4. cache' = Input /\ session.build = session.o.build
          BY <1>0, <2>1, <5>1 DEF LoopInv
        <5>5. GoodInv /\ SharedInv
          BY <1>0, <5>1 DEF CacheInv
        <5> QED BY <5>1, <5>3, <5>4, <5>5
      <4>2. SyncInv' /\ ForceInv' /\ HereInv' /\ SharedInv'
        BY <2>1, <2>4, <4>1 DEF SyncInv, ForceInv, HereInv, SharedInv, CachedOrder
      <4>3. CASE InputChanged(Input, cache)
        <5>1. session'.force = TRUE /\ session'.at = 1
          BY <2>1, <4>1, <4>3 DEF InputChanged
        <5>2. GoodUpTo' = 0
          BY <2>2, <5>1 DEF GoodUpTo
        <5> QED BY <4>2, <5>2 DEF GoodInv
      <4>4. CASE ~InputChanged(Input, cache)
        <5>1. cache' = cache /\ CachedOrder' = CachedOrder
          BY <4>1, <4>4 DEF InputChanged, CachedOrder
        <5>2. GoodUpTo = Len(CachedOrder) /\ GoodUpTo' = Len(CachedOrder)
          BY <2>2, <4>1, <4>4, <5>1 DEF GoodUpTo
        <5> QED BY <2>1, <4>1, <4>2, <5>1, <5>2 DEF GoodInv
      <4> QED BY <4>2, <4>3, <4>4
    <3> QED BY <3>1 DEF CacheInv
  <2> QED BY <2>5, <2>6, <2>7, <2>8, <2>9, <2>10 DEF Inv
<1> QED BY <1>1, <1>2

-----------------------------------------------------------------------------
(* Facts about the loop                                                    *)

LEMMA PathNext ==
  ASSUME NEW q, NEW i \in Nat \ {0}, NEW ins \in BOOLEAN, NEW mer \in BOOLEAN
  PROVE  {PlaceOf(q[i], ins, mer)} \cup PathAt(q, i, ins, mer) = PathAt(q, i + 1, ins, mer)
<1>1. CASE ins
  BY <1>1 DEF PlaceOf, PathAt
<1>2. CASE ~ins /\ mer
  BY <1>2 DEF PlaceOf, PathAt
<1>3. CASE ~ins /\ ~mer
  <2>1. PathAt(q, i, ins, mer) = {q[j] : j \in 1 .. i - 1}
    <3>1. CASE i = 1
      BY <1>3, <3>1 DEF PathAt
    <3>2. CASE i # 1
      BY <1>3, <3>2 DEF PathAt
    <3> QED BY <3>1, <3>2
  <2>2. PathAt(q, i + 1, ins, mer) = {q[j] : j \in 1 .. i}
    BY <1>3 DEF PathAt
  <2>3. PlaceOf(q[i], ins, mer) = q[i]
    BY <1>3 DEF PlaceOf
  <2> QED BY <2>1, <2>2, <2>3
<1> QED BY <1>1, <1>2, <1>3

\* The package at hand and where it goes.
LEMMA Here ==
  ASSUME Inv, InLoop, session.at <= Len(session.order)
  PROVE  /\ session.at \in 1 .. Len(session.order) /\ Len(session.order) \in Nat
         /\ Package = session.order[session.at] /\ Package \in Packages
         /\ BuildType[Package] \in {"catkin", "cmake"}
         /\ session.o.install \in BOOLEAN /\ session.o.merge \in BOOLEAN
         /\ BuildDir = DirOf(Package, session.o.install) /\ BuildDir \in Dirs
         /\ PkgDevelspace = DevelOf(Package, session.o.merge)
         /\ PkgDevelspace \in Places /\ PkgDevelspace # "install"
         /\ NewEnv = PlaceOf(Package, session.o.install, session.o.merge) /\ NewEnv \in Places
         /\ \A i \in 1 .. Len(session.order) :
              /\ session.order[i] \in Packages /\ session.order[i] \notin {"devel", "install", "none"}
              /\ i # session.at => session.order[i] # Package
<1>0. TypeInv /\ LoopInv
  BY DEF Inv
<1>1. Package \in Packages /\ session.at \in 1 .. Len(session.order)
  BY <1>0, PackageType
<1>2. session.order \in Seq(Packages) /\ session.o \in Options
  BY <1>0 DEF TypeInv, SessionState
<1>3. session.o.install \in BOOLEAN /\ session.o.merge \in BOOLEAN
  BY <1>2
<1>4. session.order = Order[Considered] /\ UnknownType(Considered) = {} /\ Considered \subseteq Packages
  BY <1>0 DEF LoopInv, Refused, Considered, TypeInv
<1>5. Package = session.order[session.at]
  BY DEF Package
<1>6. /\ DOMAIN session.order = 1 .. Len(session.order) /\ Len(session.order) \in Nat
      /\ \A i \in 1 .. Len(session.order) : session.order[i] \in Packages
  BY <1>2
<1>7. \A i, j \in 1 .. Len(session.order) : session.order[i] = session.order[j] => i = j
  BY <1>4, <1>6
<1>8. Package \in Considered
  <2>1. {session.order[i] : i \in DOMAIN session.order} = Considered
    BY <1>4
  <2> QED BY <1>1, <1>5, <1>6, <2>1
<1>9. BuildType[Package] \in {"catkin", "cmake"}
  BY <1>1, <1>4, <1>8 DEF UnknownType
<1>10. BuildDir = DirOf(Package, session.o.install) /\ BuildDir \in Dirs
  BY <1>1, <1>3 DEF BuildDir, BuildDirOf, DirOf, Dirs
<1>11. /\ PkgDevelspace = DevelOf(Package, session.o.merge)
       /\ PkgDevelspace \in Places /\ PkgDevelspace # "install"
  BY <1>1, <1>3 DEF PkgDevelspace, DevelOf, Places
<1>12. /\ NewEnv = PlaceOf(Package, session.o.install, session.o.merge) /\ NewEnv \in Places
  BY <1>1, <1>3, <1>11 DEF NewEnv, PlaceOf, PkgDevelspace, Places
<1>13. \A p \in Packages : p \notin {"devel", "install", "none"}
  OBVIOUS
<1>14. \A i \in 1 .. Len(session.order) : i # session.at => session.order[i] # Package
  BY <1>1, <1>5, <1>7
<1> QED BY <1>1, <1>3, <1>5, <1>6, <1>9, <1>10, <1>11, <1>12, <1>13, <1>14

\* Two packages have two build directories.
LEMMA OtherDir == \A p, q, x : p # q => DirOf(p, x) # DirOf(q, x)
BY DEF DirOf

LEMMA DirType == ASSUME NEW p \in Packages, NEW x \in BOOLEAN PROVE DirOf(p, x) \in Dirs
BY DEF DirOf, Dirs

\* What a session may rely on of the packages it is past.
LEMMA GoodBefore ==
  ASSUME Inv, safe, InLoop
  PROVE  /\ session.order = CachedOrder /\ session.o.args = cache.args
         /\ \A i \in 1 .. session.at - 1 :
              Good(session.order, i, session.o.args, session.o.install, session.o.merge,
                   dir, products, env)
         /\ ~session.force => \A i \in 1 .. Len(session.order) :
              Good(session.order, i, session.o.args, session.o.install, session.o.merge,
                   dir, products, env)
<1>1. TypeInv /\ SyncInv /\ GoodInv
  BY DEF Inv, CacheInv
<1>2. session.order = CachedOrder /\ session.o.args = cache.args
  BY <1>1 DEF SyncInv
<1>3. /\ session.at \in Nat /\ session.order \in Seq(Packages)
      /\ session.at <= Len(session.order) + 1
  BY <1>1 DEF TypeInv, SessionState
<1>4. CASE session.force
  <2>1. GoodUpTo = session.at - 1
    BY <1>4 DEF GoodUpTo
  <2> QED BY <1>1, <1>2, <1>4, <2>1 DEF GoodInv
<1>5. CASE ~session.force
  <2>1. GoodUpTo = Len(session.order)
    BY <1>2, <1>5 DEF GoodUpTo
  <2>2. \A i \in 1 .. Len(session.order) :
          Good(session.order, i, session.o.args, session.o.install, session.o.merge,
               dir, products, env)
    BY <1>1, <1>2, <2>1 DEF GoodInv
  <2>3. 1 .. session.at - 1 \subseteq 1 .. Len(session.order)
    BY <1>3
  <2> QED BY <1>2, <2>2, <2>3
<1> QED BY <1>4, <1>5

\* The path a package is built on is the one it should be.
LEMMA PathHere ==
  ASSUME Inv, safe, InLoop, session.at <= Len(session.order)
  PROVE  PathOf(session.lastEnv) = PathAt(session.order, session.at, session.o.install, session.o.merge)
<1>1. /\ session.at \in 1 .. Len(session.order) /\ Len(session.order) \in Nat
      /\ session.o.install \in BOOLEAN /\ session.o.merge \in BOOLEAN
      /\ \A i \in 1 .. Len(session.order) : session.order[i] # "none"
  BY Here
<1>2. session.lastEnv = IF session.at = 1 THEN "none"
        ELSE PlaceOf(session.order[session.at - 1], session.o.install, session.o.merge)
  BY DEF Inv, LoopInv, PlaceOf
<1>3. CASE session.at = 1
  BY <1>2, <1>3 DEF PathOf, PathAt
<1>4. CASE session.at # 1
  <2> DEFINE j == session.at - 1
  <2>1. j \in 1 .. session.at - 1 /\ j \in 1 .. Len(session.order) /\ j + 1 = session.at
    BY <1>1, <1>4
  <2>2. session.lastEnv = PlaceOf(session.order[j], session.o.install, session.o.merge)
    BY <1>2, <1>4
  <2>3. session.lastEnv # "none"
    BY <1>1, <2>1, <2>2 DEF PlaceOf
  <2>4. EnvGood(session.order, j, session.o.install, session.o.merge, env)
    BY <2>1, GoodBefore DEF Good
  <2> HIDE DEF j
  <2> QED BY <2>1, <2>2, <2>3, <2>4 DEF EnvGood, PathOf
<1> QED BY <1>3, <1>4

\* The types and all that does not depend on what the step of the package does.
LEMMA StayKeeps ==
  ASSUME Inv, InLoop, session.pc # "next", NEW c \in {"make", "install", "envsh"},
         session' = [session EXCEPT !.pc = c],
         c = "install" => BuildType[Package] = "cmake" \/ session.o.install,
         c = "envsh" /\ BuildType[Package] = "cmake" => EnvUsable',
         UNCHANGED <<source, mark, cache, sessions, safe>>,
         dir' \in [Dirs -> DirState], products' \in [Places -> SUBSET Packages],
         env' \in [Places -> (SUBSET Places) \cup {NoEnv}], top' \in Packages \cup {NoPackage}
  PROVE  /\ TypeInv' /\ MarkInv' /\ LoopInv' /\ DiskInv' /\ RelayInv' /\ TopLevelUsable'
         /\ safe => SyncInv' /\ ForceInv'
         /\ InLoop' /\ session'.pc = c /\ SameSession /\ session'.at = session.at
         /\ session'.force = session.force /\ UNCHANGED <<Package, BuildDir, CachedOrder>>
         /\ GoodUpTo' = GoodUpTo
<1>0. /\ TypeInv /\ MarkInv /\ LoopInv /\ DiskInv /\ RelayInv /\ CacheInv
  BY DEF Inv
<1>1. /\ session' \in SessionState /\ session'.pc = c /\ SameSession
      /\ session'.at = session.at /\ session'.build = session.build
      /\ session'.force = session.force /\ session'.lastEnv = session.lastEnv
  BY <1>0, PcEffect
<1>2. InLoop'
  BY <1>1 DEF InLoop
<1>3. UNCHANGED <<Considered, Refused, Package, BuildDir, CachedOrder>> /\ GoodUpTo' = GoodUpTo
  BY <1>1, <1>2 DEF SameSession, Considered, Refused, Package, BuildDir, BuildDirOf, CachedOrder, GoodUpTo
<1>4. TypeInv'
  BY <1>0, <1>1 DEF TypeInv, SameSession
<1>5. MarkInv'
  BY <1>0, <1>1 DEF MarkInv
<1>6. LoopInv'
  BY <1>0, <1>1, <1>2, <1>3 DEF LoopInv, SameSession
<1>7. DiskInv'
  <2>1. sessions # 0
    BY <1>0 DEF DiskInv, InLoop
  <2> QED BY <1>0, <2>1 DEF DiskInv
<1>8. RelayInv' /\ TopLevelUsable'
  BY <1>0, <1>1 DEF RelayInv, TopLevelUsable, SameSession
<1>9. ASSUME safe PROVE SyncInv' /\ ForceInv'
  <2>1. SyncInv /\ ForceInv
    BY <1>0, <1>9 DEF CacheInv
  <2> QED BY <1>1, <1>2, <1>3, <2>1 DEF SyncInv, ForceInv, SameSession
<1> QED BY <1>1, <1>2, <1>3, <1>4, <1>5, <1>6, <1>7, <1>8, <1>9

\* Writing the environment of the package at hand, with the path it should
\* have, does not disturb the environments of others.
LEMMA EnvWrite ==
  ASSUME Inv, InLoop, session.at <= Len(session.order), NEW E,
         E = [env EXCEPT ![NewEnv] = PathAt(session.order, session.at + 1,
                                            session.o.install, session.o.merge)]
  PROVE  /\ \A i \in 1 .. Len(session.order) :
              EnvGood(session.order, i, session.o.install, session.o.merge, env)
                => EnvGood(session.order, i, session.o.install, session.o.merge, E)
         /\ EnvGood(session.order, session.at, session.o.install, session.o.merge, E)
         /\ session.o.install => E["install"] = {"install"}
         /\ ~session.o.install /\ session.o.merge => E["devel"] = {"devel"}
<1> DEFINE q == session.order
           n == session.at
           ins == session.o.install
           mer == session.o.merge
           m == Len(session.order)
<1>1. /\ n \in 1 .. m /\ m \in Nat /\ ins \in BOOLEAN /\ mer \in BOOLEAN
      /\ NewEnv = PlaceOf(q[n], ins, mer) /\ NewEnv \in Places
      /\ \A i \in 1 .. m : q[i] \in Packages /\ (i # n => q[i] # q[n])
  BY Here
<1>2. env \in [Places -> (SUBSET Places) \cup {NoEnv}]
  BY DEF Inv, TypeInv
<1>3. E = [env EXCEPT ![NewEnv] = PathAt(q, n + 1, ins, mer)]
  OBVIOUS
<1> HIDE DEF q, n, ins, mer, m
<1>4. E[NewEnv] = PathAt(q, n + 1, ins, mer) /\ \A l \in Places : l # NewEnv => E[l] = env[l]
  BY <1>1, <1>2, <1>3
<1>5. EnvGood(q, n, ins, mer, E)
  BY <1>1, <1>4 DEF EnvGood
<1>6. ASSUME NEW i \in 1 .. m, EnvGood(q, i, ins, mer, env) PROVE EnvGood(q, i, ins, mer, E)
  <2>1. CASE i = n
    BY <1>5, <2>1
  <2>2. CASE i # n /\ ~ins /\ ~mer
    <3>1. PlaceOf(q[i], ins, mer) # NewEnv /\ PlaceOf(q[i], ins, mer) \in Places
      BY <1>1, <2>2 DEF PlaceOf, Places
    <3> QED BY <1>4, <1>6, <3>1 DEF EnvGood
  <2>3. CASE ins \/ mer
    <3>1. PlaceOf(q[i], ins, mer) = PlaceOf(q[n], ins, mer)
      BY <2>3 DEF PlaceOf
    <3>2. PathAt(q, i + 1, ins, mer) = PathAt(q, n + 1, ins, mer)
      BY <1>1, <2>3 DEF PathAt
    <3> QED BY <1>1, <1>4, <3>1, <3>2 DEF EnvGood
  <2> QED BY <2>1, <2>2, <2>3
<1>7. (ins => E["install"] = {"install"}) /\ (~ins /\ mer => E["devel"] = {"devel"})
  <2>1. n + 1 # 1
    BY <1>1
  <2>2. (ins => PathAt(q, n + 1, ins, mer) = {"install"})
        /\ (~ins /\ mer => PathAt(q, n + 1, ins, mer) = {"devel"})
    BY <2>1 DEF PathAt
  <2> QED BY <1>1, <1>4, <2>2 DEF PlaceOf
<1> QED BY <1>5, <1>6, <1>7 DEF q, n, ins, mer, m

\* The same for the environment a catkin package gets in its devel space.
LEMMA EnvDevel ==
  ASSUME Inv, InLoop, session.at <= Len(session.order), NEW E,
         E = [env EXCEPT ![PkgDevelspace] =
                {PkgDevelspace} \cup PathAt(session.order, session.at,
                                            session.o.install, session.o.merge)]
  PROVE  /\ \A i \in 1 .. Len(session.order) :
              EnvGood(session.order, i, session.o.install, session.o.merge, env)
                => EnvGood(session.order, i, session.o.install, session.o.merge, E)
         /\ ~session.o.install =>
              EnvGood(session.order, session.at, session.o.install, session.o.merge, E)
         /\ session.o.install => E["install"] = env["install"]
         /\ ~session.o.install /\ session.o.merge => E["devel"] = {"devel"}
<1>1. /\ session.at \in 1 .. Len(session.order) /\ Len(session.order) \in Nat
      /\ session.o.install \in BOOLEAN /\ session.o.merge \in BOOLEAN
      /\ Package = session.order[session.at]
      /\ NewEnv = PlaceOf(Package, session.o.install, session.o.merge)
      /\ PkgDevelspace = DevelOf(Package, session.o.merge)
      /\ PkgDevelspace \in Places /\ PkgDevelspace # "install"
  BY Here
<1>2. env \in [Places -> (SUBSET Places) \cup {NoEnv}]
  BY DEF Inv, TypeInv
<1>3. CASE session.o.install
  <2>1. \A l \in Places : l # PkgDevelspace => E[l] = env[l]
    BY <1>1, <1>2
  <2>2. E["install"] = env["install"]
    BY <1>1, <2>1 DEF Places
  <2>3. \A i \in 1 .. Len(session.order) :
          PlaceOf(session.order[i], session.o.install, session.o.merge) = "install"
    BY <1>3 DEF PlaceOf
  <2> QED BY <1>3, <2>2, <2>3 DEF EnvGood
<1>4. CASE ~session.o.install
  <2>1. NewEnv = PkgDevelspace
    BY <1>1, <1>4 DEF PlaceOf, DevelOf
  <2>2. session.at \in Nat \ {0}
    BY <1>1
  <2>3. {PkgDevelspace} \cup PathAt(session.order, session.at, session.o.install, session.o.merge)
          = PathAt(session.order, session.at + 1, session.o.install, session.o.merge)
    <3> DEFINE q == session.order
               n == session.at
               ins == session.o.install
               mer == session.o.merge
    <3>1. n \in Nat \ {0} /\ ins \in BOOLEAN /\ mer \in BOOLEAN
          /\ PkgDevelspace = PlaceOf(q[n], ins, mer)
      BY <1>1, <2>1, <2>2
    <3> HIDE DEF q, n, ins, mer
    <3>2. {PkgDevelspace} \cup PathAt(q, n, ins, mer) = PathAt(q, n + 1, ins, mer)
      BY <3>1, PathNext
    <3> QED BY <3>2 DEF q, n, ins, mer
  <2>4. E = [env EXCEPT ![NewEnv] = PathAt(session.order, session.at + 1,
                                           session.o.install, session.o.merge)]
    BY <2>1, <2>3
  <2> QED BY <1>4, <2>4, EnvWrite
<1> QED BY <1>1, <1>3, <1>4

LEMMA PathType ==
  ASSUME TypeInv, EnvUsable
  PROVE  PathOf(session.lastEnv) \in SUBSET Places
<1>1. session.lastEnv \in Places \cup {"none"} /\ env \in [Places -> (SUBSET Places) \cup {NoEnv}]
  BY DEF TypeInv, SessionState
<1> QED BY <1>1 DEF PathOf, EnvUsable

\* The packages that must be good.
Past == IF session.force THEN 1 .. session.at - 1 ELSE 1 .. Len(session.order)

\* GoodInv follows from what the step leaves of each of them.
LEMMA GoodAgain ==
  ASSUME Inv, safe, InLoop, UNCHANGED <<cache, CachedOrder, GoodUpTo>>, session'.o = session.o,
         \A i \in Past : Good(session.order, i, session.o.args, session.o.install,
                              session.o.merge, dir', products', env')
  PROVE  GoodInv'
<1>1. session.order = CachedOrder /\ session.o.args = cache.args
  BY GoodBefore
<1>2. 1 .. GoodUpTo = Past
  BY <1>1 DEF GoodUpTo, Past
<1> QED BY <1>1, <1>2 DEF GoodInv

LEMMA GoodPast ==
  ASSUME Inv, safe, InLoop
  PROVE  /\ \A i \in Past : Good(session.order, i, session.o.args, session.o.install,
                                 session.o.merge, dir, products, env)
         /\ Past \subseteq 1 .. Len(session.order)
         /\ session.force => session.at \notin Past
<1>1. session.at \in Nat /\ session.at <= Len(session.order) + 1 /\ session.order \in Seq(Packages)
  BY DEF Inv, TypeInv, SessionState
<1>2. \A i \in Past : Good(session.order, i, session.o.args, session.o.install,
                           session.o.merge, dir, products, env)
  BY GoodBefore DEF Past
<1>3. Past \subseteq 1 .. Len(session.order) /\ (session.force => session.at \notin Past)
  BY <1>1 DEF Past
<1> QED BY <1>2, <1>3

-----------------------------------------------------------------------------
(* Steps of the loop                                                       *)

\* A package is skipped.
LEMMA SkipStep == Inv /\ Skip => Inv'
<1> SUFFICES ASSUME Inv, Skip PROVE Inv'
  OBVIOUS
<1>0. /\ TypeInv /\ MarkInv /\ LoopInv /\ HalfInv /\ DiskInv
      /\ CacheInv /\ RelayInv /\ TopLevelUsable
  BY DEF Inv
<1>1. /\ session.pc = "next" /\ InLoop /\ session.at <= Len(session.order)
      /\ session.build # {} /\ Package \notin session.build
      /\ session' = [session EXCEPT !.at = @ + 1, !.lastEnv = NewEnv]
      /\ UNCHANGED <<source, disk, sessions, safe>>
  BY DEF Skip, MorePackages, Wanted, InLoop
<1>2. /\ session' \in SessionState /\ session'.pc = "next" /\ SameSession
      /\ session'.at = session.at + 1 /\ session'.build = session.build
      /\ session'.force = session.force /\ session'.lastEnv = NewEnv
      /\ NewEnv = PlaceOf(Package, session.o.install, session.o.merge)
  BY <1>0, <1>1, DoneEffect
<1>3. /\ session.at \in 1 .. Len(session.order) /\ Len(session.order) \in Nat
      /\ Package = session.order[session.at]
  BY <1>1, Here
<1>4. InLoop' /\ UNCHANGED <<Considered, Refused, CachedOrder>>
  BY <1>1, <1>2 DEF InLoop, SameSession, Considered, Refused, CachedOrder, disk
<1>5. TypeInv'
  <2>1. session'.at <= Len(session'.order) + 1 /\ session'.at >= 1
    BY <1>2, <1>3 DEF SameSession
  <2> QED BY <1>0, <1>1, <1>2, <2>1 DEF TypeInv, disk
<1>6. MarkInv'
  BY <1>0, <1>1, <1>2 DEF MarkInv, disk
<1>7. LoopInv'
  <2>1. session'.at # 1 /\ session'.at - 1 = session.at
    BY <1>2, <1>3
  <2>2. session'.lastEnv = PlaceOf(session.order[session'.at - 1], session.o.install, session.o.merge)
    BY <1>2, <1>3, <2>1
  <2>3. session'.lastEnv = IF session'.at = 1 THEN "none"
          ELSE IF session'.o.install THEN "install"
          ELSE IF session'.o.merge THEN "devel" ELSE session'.order[session'.at - 1]
    BY <1>2, <2>1, <2>2 DEF SameSession, PlaceOf
  <2>4. session'.order = Order[Considered]' /\ ~Refused' /\ ~session'.ok
    BY <1>0, <1>1, <1>2, <1>4 DEF LoopInv, SameSession
  <2> QED BY <1>2, <2>3, <2>4 DEF LoopInv
<1>8. RelayInv' /\ TopLevelUsable'
  <2>1. session'.at - 1 = session.at /\ 1 .. session.at = (1 .. session.at - 1) \cup {session.at}
    BY <1>2, <1>3
  <2>2. session.o.continue => \A i \in 1 .. session.at : session.order[i] \notin session.o.build
    BY <1>0, <1>1, <1>3, <2>1 DEF RelayInv
  <2> QED BY <1>0, <1>1, <1>2, <2>1, <2>2 DEF RelayInv, TopLevelUsable, SameSession
<1>9. HalfInv' /\ DiskInv'
  BY <1>0, <1>1, <1>2 DEF HalfInv, DiskInv, disk
<1>10. CacheInv'
  <2>1. ASSUME safe PROVE SyncInv' /\ GoodInv' /\ SharedInv' /\ ForceInv' /\ HereInv'
    <3>1. SyncInv /\ GoodInv /\ SharedInv /\ ForceInv
      BY <1>0, <2>1 DEF CacheInv
    <3>2. ~session.force
      BY <1>1, <3>1 DEF ForceInv
    <3>3. SyncInv' /\ SharedInv' /\ ForceInv' /\ HereInv'
      BY <1>1, <1>2, <1>4, <3>1, <3>2 DEF SyncInv, SharedInv, ForceInv, HereInv, SameSession, disk
    <3>4. GoodUpTo = Len(CachedOrder) /\ GoodUpTo' = Len(CachedOrder)
      BY <1>2, <1>4, <3>2 DEF GoodUpTo
    <3>5. UNCHANGED <<cache, dir, products, env>> /\ session'.o = session.o
      BY <1>1, <1>2 DEF disk, SameSession
    <3>6. GoodInv'
      BY <1>4, <3>1, <3>4, <3>5 DEF GoodInv
    <3> QED BY <3>3, <3>6
  <2> QED BY <1>1, <2>1 DEF CacheInv
<1> QED BY <1>5, <1>6, <1>7, <1>8, <1>9, <1>10 DEF Inv

\* build_package up to its first command.
LEMMA ProcessStep == Inv /\ Process => Inv'
<1> SUFFICES ASSUME Inv, Process PROVE Inv'
  OBVIOUS
<1>0. /\ TypeInv /\ MarkInv /\ LoopInv /\ HalfInv /\ DiskInv
      /\ CacheInv /\ RelayInv /\ TopLevelUsable
  BY DEF Inv
<1>1. CASE End(FALSE)
  BY <1>1, EndKeeps DEF Process
<1>2. CASE /\ session' = [session EXCEPT
                 !.build = IF session.o.continue THEN {} ELSE @,
                 !.pc = IF CallsCMake(dir[BuildDir].makefile) THEN "cmake" ELSE "check"]
           /\ UNCHANGED <<source, sessions, safe>>
  <2> DEFINE b == IF session.o.continue THEN {} ELSE session.build
             c == IF CallsCMake(dir[BuildDir].makefile) THEN "cmake" ELSE "check"
  <2>1. /\ session.pc = "next" /\ InLoop /\ session.at <= Len(session.order)
        /\ session.build = {} \/ Package \in session.build
        /\ UNCHANGED disk
    BY DEF Process, MorePackages, Wanted, InLoop
  <2>2. b \in Builds /\ c \in {"cmake", "check"}
    BY <1>0 DEF Builds, TypeInv, SessionState
  <2>3. session' = [session EXCEPT !.build = b, !.pc = c]
    BY <1>2
  <2>4. /\ c = "cmake" => ~dir[BuildDir].makefile \/ session.force
        /\ c = "check" => dir[BuildDir].makefile /\ ~session.force
    BY DEF CallsCMake
  <2>5. session.build = {} => b = {}
    OBVIOUS
  <2>6. session.o.continue => b = {}
    OBVIOUS
  <2>a. session.o.continue \/ b = session.build
    OBVIOUS
  <2> HIDE DEF b, c
  <2>7. /\ session' \in SessionState /\ session'.pc = c /\ SameSession
        /\ session'.at = session.at /\ session'.build = b
        /\ session'.force = session.force /\ session'.lastEnv = session.lastEnv
    BY <1>0, <2>2, <2>3 DEF SameSession, SessionState, TypeInv
  <2>8. InLoop' /\ UNCHANGED <<Considered, Refused, CachedOrder, Package, BuildDir>>
        /\ GoodUpTo' = GoodUpTo
    BY <1>2, <2>1, <2>2, <2>7 DEF InLoop, SameSession, Considered, Refused, CachedOrder, disk,
      Package, BuildDir, BuildDirOf, GoodUpTo
  <2>9. TypeInv'
    BY <1>0, <1>2, <2>1, <2>7 DEF TypeInv, SameSession, disk
  <2>10. MarkInv'
    BY <1>0, <2>1, <2>2, <2>7 DEF MarkInv, disk
  <2>11. LoopInv'
    BY <1>0, <2>1, <2>2, <2>7, <2>8 DEF LoopInv, SameSession
  <2>12. RelayInv' /\ TopLevelUsable'
    BY <1>0, <2>1, <2>2, <2>5, <2>6, <2>a, <2>7 DEF RelayInv, TopLevelUsable, SameSession
  <2>13. HalfInv' /\ DiskInv'
    <3>1. sessions # 0
      BY <1>0, <2>1 DEF DiskInv
    <3> QED BY <1>0, <1>2, <2>1, <2>2, <2>4, <2>7, <2>8, <3>1 DEF HalfInv, DiskInv, disk
  <2>14. CacheInv'
    <3>1. ASSUME safe PROVE SyncInv' /\ GoodInv' /\ SharedInv' /\ ForceInv' /\ HereInv'
      <4>1. SyncInv /\ GoodInv /\ SharedInv /\ ForceInv
        BY <1>0, <3>1 DEF CacheInv
      <4>2. SyncInv' /\ SharedInv' /\ HereInv'
        BY <2>1, <2>2, <2>7, <2>8, <4>1 DEF SyncInv, SharedInv, HereInv, SameSession, disk
      <4>3. UNCHANGED <<cache, dir, products, env>> /\ session'.o = session.o
        BY <2>1, <2>7 DEF disk, SameSession
      <4>4. GoodInv'
        BY <2>8, <4>1, <4>3 DEF GoodInv
      <4>5. c = "cmake" => session.force
        <5>1. ASSUME ~session.force PROVE dir[BuildDir].makefile
          <6>1. /\ session.at \in 1 .. Len(session.order)
                /\ BuildDir = DirOf(session.order[session.at], session.o.install)
            BY <2>1, Here
          <6>2. Good(session.order, session.at, session.o.args, session.o.install,
                     session.o.merge, dir, products, env)
            BY <2>1, <3>1, <5>1, <6>1, GoodBefore
          <6> QED BY <6>1, <6>2 DEF Good, ConfiguredGood
        <5> QED BY <2>4, <5>1
      <4>6. ForceInv'
        BY <2>1, <2>2, <2>4, <2>5, <2>7, <4>1, <4>5 DEF ForceInv
      <4> QED BY <4>2, <4>4, <4>6
    <3> QED BY <1>2, <3>1 DEF CacheInv
  <2> QED BY <2>9, <2>10, <2>11, <2>12, <2>13, <2>14 DEF Inv
<1> QED BY <1>1, <1>2 DEF Process

\* What cmake leaves in the build directory when it succeeds.
LEMMA ConfiguredType ==
  ASSUME Inv, EnvUsable, NEW l \in Places
  PROVE  /\ Configured(l) \in DirState /\ Configured(l).makefile /\ Configured(l).half = "no"
         /\ Configured(l).args = session.o.args /\ Configured(l).prefix = l
         /\ Configured(l).path = PathOf(session.lastEnv)
<1>1. session.o.args \in Args
  BY DEF Inv, TypeInv, SessionState, Args
<1>2. PathOf(session.lastEnv) \in SUBSET Places
  BY PathType DEF Inv
<1> QED BY <1>1, <1>2 DEF Configured, DirState

LEMMA CMakeCatkinStep == Inv /\ CMakeCatkin => Inv'
<1> SUFFICES ASSUME Inv, CMakeCatkin PROVE Inv'
  OBVIOUS
<1>0. TypeInv /\ HalfInv /\ CacheInv
  BY DEF Inv
<1>1. /\ session.pc = "cmake" /\ InLoop /\ session.at <= Len(session.order)
      /\ BuildType[Package] = "catkin" /\ EnvUsable
      /\ session' = [session EXCEPT !.pc = "make"]
      /\ UNCHANGED <<source, mark, cache, products, sessions, safe>>
  BY <1>0 DEF CMakeCatkin, InLoop, TypeInv
<1>2. /\ Package \in Packages /\ BuildDir = <<Package, "all">> /\ BuildDir \in Dirs
      /\ PkgDevelspace \in Places /\ PkgDevelspace # "install"
      /\ PkgDevelspace = DevelOf(Package, session.o.merge)
      /\ BuildDir = DirOf(Package, session.o.install) /\ Package = session.order[session.at]
      /\ \A i \in 1 .. Len(session.order) : i # session.at => session.order[i] # Package
  BY <1>1, Here DEF DirOf
<1> DEFINE d == Configured(PkgDevelspace)
           e == {PkgDevelspace} \cup PathOf(session.lastEnv)
<1>3. /\ d \in DirState /\ d.makefile /\ d.half = "no" /\ d.args = session.o.args
      /\ d.prefix = PkgDevelspace /\ d.path = PathOf(session.lastEnv) /\ e \in SUBSET Places
  BY <1>0, <1>1, <1>2, ConfiguredType, PathType
<1>4. dir' = [dir EXCEPT ![BuildDir] = d] /\ env' = [env EXCEPT ![PkgDevelspace] = e]
      /\ top' = IF PkgDevelspace = "devel" THEN NoPackage ELSE top
  BY DEF CMakeCatkin, WritesEnv
<1> HIDE DEF d, e
<1>5. /\ dir' \in [Dirs -> DirState] /\ dir'[BuildDir] = d
      /\ \A x \in Dirs : x # BuildDir => dir'[x] = dir[x]
      /\ env' \in [Places -> (SUBSET Places) \cup {NoEnv}]
      /\ products' \in [Places -> SUBSET Packages] /\ top' \in Packages \cup {NoPackage}
  BY <1>0, <1>1, <1>2, <1>3, <1>4 DEF TypeInv
<1>6. /\ TypeInv' /\ MarkInv' /\ LoopInv' /\ DiskInv' /\ RelayInv' /\ TopLevelUsable'
      /\ safe => SyncInv' /\ ForceInv'
      /\ InLoop' /\ session'.pc = "make" /\ SameSession /\ session'.at = session.at
      /\ session'.force = session.force /\ UNCHANGED <<Package, BuildDir, CachedOrder>>
      /\ GoodUpTo' = GoodUpTo
  BY <1>1, <1>5, StayKeeps
<1>7. HalfInv'
  <2>1. ASSUME NEW p \in Packages
        PROVE  LET x == dir'[<<p, "all">>] IN x.prefix # "install" /\ (x.makefile => x.half # "failed")
    <3>1. <<p, "all">> \in Dirs
      BY DEF Dirs
    <3> QED BY <1>0, <1>2, <1>3, <1>5, <3>1 DEF HalfInv
  <2> QED BY <1>3, <1>5, <1>6, <2>1 DEF HalfInv
<1>8. CacheInv'
  <2>1. ASSUME safe PROVE GoodInv' /\ SharedInv' /\ HereInv'
    <3>1. SharedInv /\ session.force
      BY <1>0, <1>1, <2>1 DEF CacheInv, ForceInv
    <3>2. PathOf(session.lastEnv) = PathAt(session.order, session.at, session.o.install, session.o.merge)
      BY <1>1, <2>1, PathHere
    <3>3. /\ \A i \in 1 .. Len(session.order) :
               EnvGood(session.order, i, session.o.install, session.o.merge, env)
                 => EnvGood(session.order, i, session.o.install, session.o.merge, env')
          /\ ~session.o.install =>
               EnvGood(session.order, session.at, session.o.install, session.o.merge, env')
          /\ session.o.install => env'["install"] = env["install"]
          /\ ~session.o.install /\ session.o.merge => env'["devel"] = {"devel"}
      BY <1>1, <1>4, <3>2, EnvDevel DEF e
    <3>4. SharedInv'
      BY <1>6, <3>1, <3>3 DEF SharedInv, SameSession
    <3>5. ConfiguredGood(session.order, session.at, session.o.args, session.o.install,
                         session.o.merge, dir'[BuildDir])
      BY <1>1, <1>2, <1>3, <1>5, <3>2 DEF ConfiguredGood
    <3>6. HereInv'
      BY <1>6, <3>3, <3>5 DEF HereInv, SameSession
    <3>7. GoodInv'
      <4>1. ASSUME NEW i \in Past
            PROVE  Good(session.order, i, session.o.args, session.o.install,
                        session.o.merge, dir', products', env')
        <5>1. /\ Good(session.order, i, session.o.args, session.o.install,
                      session.o.merge, dir, products, env)
              /\ i \in 1 .. Len(session.order) /\ i # session.at
          BY <1>1, <2>1, <3>1, GoodPast
        <5>2. /\ DirOf(session.order[i], session.o.install) # BuildDir
              /\ DirOf(session.order[i], session.o.install) \in Dirs
          BY <1>1, <1>2, <5>1, Here, OtherDir, DirType
        <5> QED BY <1>1, <1>5, <3>3, <5>1, <5>2 DEF Good
      <4> QED BY <1>1, <1>6, <2>1, <4>1, GoodAgain DEF SameSession
    <3> QED BY <3>4, <3>6, <3>7
  <2> QED BY <1>1, <1>6, <2>1 DEF CacheInv
<1> QED BY <1>6, <1>7, <1>8 DEF Inv

LEMMA CMakePlainStep == Inv /\ CMakePlain => Inv'
<1> SUFFICES ASSUME Inv, CMakePlain PROVE Inv'
  OBVIOUS
<1>0. TypeInv /\ HalfInv /\ CacheInv
  BY DEF Inv
<1>1. /\ session.pc = "cmake" /\ InLoop /\ session.at <= Len(session.order)
      /\ BuildType[Package] = "cmake" /\ EnvUsable
      /\ session' = [session EXCEPT !.pc = "make"]
      /\ UNCHANGED <<source, mark, cache, products, env, top, sessions, safe>>
  BY <1>0 DEF CMakePlain, InLoop, TypeInv
<1>2. /\ Package \in Packages /\ BuildDir \in Dirs /\ NewEnv \in Places
      /\ NewEnv = PlaceOf(Package, session.o.install, session.o.merge)
      /\ BuildDir = DirOf(Package, session.o.install) /\ Package = session.order[session.at]
      /\ \A i \in 1 .. Len(session.order) : i # session.at => session.order[i] # Package
  BY <1>1, Here
<1> DEFINE d == Configured(NewEnv)
<1>3. /\ d \in DirState /\ d.makefile /\ d.half = "no" /\ d.args = session.o.args
      /\ d.prefix = NewEnv /\ d.path = PathOf(session.lastEnv)
  BY <1>1, <1>2, ConfiguredType
<1>4. dir' = [dir EXCEPT ![BuildDir] = d]
  BY DEF CMakePlain
<1> HIDE DEF d
<1>5. /\ dir' \in [Dirs -> DirState] /\ dir'[BuildDir] = d
      /\ \A x \in Dirs : x # BuildDir => dir'[x] = dir[x]
      /\ env' \in [Places -> (SUBSET Places) \cup {NoEnv}]
      /\ products' \in [Places -> SUBSET Packages] /\ top' \in Packages \cup {NoPackage}
  BY <1>0, <1>1, <1>2, <1>3, <1>4 DEF TypeInv
<1>6. /\ TypeInv' /\ MarkInv' /\ LoopInv' /\ DiskInv' /\ RelayInv' /\ TopLevelUsable'
      /\ safe => SyncInv' /\ ForceInv'
      /\ InLoop' /\ session'.pc = "make" /\ SameSession /\ session'.at = session.at
      /\ session'.force = session.force /\ UNCHANGED <<Package, BuildDir, CachedOrder>>
      /\ GoodUpTo' = GoodUpTo
  BY <1>1, <1>5, StayKeeps
<1>7. HalfInv'
  <2>1. ASSUME NEW p \in Packages PROVE dir'[<<p, "all">>] = dir[<<p, "all">>]
    <3>1. <<p, "all">> \in Dirs /\ <<p, "all">> # BuildDir
      BY <1>1, <1>2 DEF Dirs, DirOf
    <3> QED BY <1>5, <3>1
  <2> QED BY <1>0, <1>1, <1>6, <2>1 DEF HalfInv
<1>8. CacheInv'
  <2>1. ASSUME safe PROVE GoodInv' /\ SharedInv' /\ HereInv'
    <3>1. SharedInv /\ session.force
      BY <1>0, <1>1, <2>1 DEF CacheInv, ForceInv
    <3>2. PathOf(session.lastEnv) = PathAt(session.order, session.at, session.o.install, session.o.merge)
      BY <1>1, <2>1, PathHere
    <3>4. SharedInv'
      BY <1>1, <1>6, <3>1 DEF SharedInv, SameSession
    <3>5. ConfiguredGood(session.order, session.at, session.o.args, session.o.install,
                         session.o.merge, dir'[BuildDir])
      BY <1>1, <1>2, <1>3, <1>5, <3>2 DEF ConfiguredGood
    <3>6. HereInv'
      BY <1>1, <1>6, <3>5 DEF HereInv, SameSession
    <3>7. GoodInv'
      <4>1. ASSUME NEW i \in Past
            PROVE  Good(session.order, i, session.o.args, session.o.install,
                        session.o.merge, dir', products', env')
        <5>1. /\ Good(session.order, i, session.o.args, session.o.install,
                      session.o.merge, dir, products, env)
              /\ i \in 1 .. Len(session.order) /\ i # session.at
          BY <1>1, <2>1, <3>1, GoodPast
        <5>2. /\ DirOf(session.order[i], session.o.install) # BuildDir
              /\ DirOf(session.order[i], session.o.install) \in Dirs
          BY <1>1, <1>2, <5>1, Here, OtherDir, DirType
        <5> QED BY <1>1, <1>5, <5>1, <5>2 DEF Good
      <4> QED BY <1>1, <1>6, <2>1, <4>1, GoodAgain DEF SameSession
    <3> QED BY <3>4, <3>6, <3>7
  <2> QED BY <1>1, <1>6, <2>1 DEF CacheInv
<1> QED BY <1>6, <1>7, <1>8 DEF Inv

\* A cmake that fails or is killed: what it leaves of a catkin package is no Makefile
\* or not that of a failed run, and the cache is defeated if the input had changed.
LEMMA CMakeCut ==
  ASSUME Inv, session.pc = "cmake", EnvUsable, End(FALSE), MayWriteEnv,
         UNCHANGED <<mark, cache, products>>, NEW d \in DirState,
         dir' = [dir EXCEPT ![BuildDir] = d],
         BuildType[Package] = "catkin" =>
           d.prefix # "install" /\ (d.makefile => d.half # "failed")
  PROVE  Inv'
<1>0. /\ TypeInv /\ MarkInv /\ LoopInv /\ HalfInv /\ DiskInv
      /\ CacheInv /\ RelayInv /\ TopLevelUsable
  BY DEF Inv
<1>1. InLoop /\ session.at <= Len(session.order)
  BY <1>0 DEF InLoop, TypeInv
<1>2. /\ Package \in Packages /\ BuildDir \in Dirs /\ PkgDevelspace \in Places
      /\ BuildDir = DirOf(Package, session.o.install)
  BY <1>1, Here
<1>3. /\ session' \in SessionState /\ session'.pc = "idle" /\ ~session'.ok
      /\ session'.o = session.o /\ session'.order = session.order /\ session'.at = session.at
      /\ safe' = (safe /\ (~InLoop \/ ~session.force)) /\ UNCHANGED <<source, sessions>>
  BY <1>0, EndEffect
<1>4. ~InLoop' /\ ~safe'
  BY <1>0, <1>1, <1>3 DEF InLoop, CacheInv, ForceInv
<1>5. /\ dir' \in [Dirs -> DirState] /\ dir'[BuildDir] = d
      /\ \A y \in Dirs : y # BuildDir => dir'[y] = dir[y]
  BY <1>0, <1>2 DEF TypeInv
<1>6. env' \in [Places -> (SUBSET Places) \cup {NoEnv}] /\ top' \in Packages \cup {NoPackage}
  <2>1. CASE UNCHANGED <<env, top>>
    BY <1>0, <2>1 DEF TypeInv
  <2>2. CASE WritesEnv
    <3> DEFINE e == {PkgDevelspace} \cup PathOf(session.lastEnv)
    <3>1. e \in SUBSET Places /\ env' = [env EXCEPT ![PkgDevelspace] = e]
      BY <1>0, <1>2, <2>2, PathType DEF WritesEnv
    <3>2. top' \in Packages \cup {NoPackage}
      BY <1>0, <2>2 DEF WritesEnv, TypeInv
    <3> HIDE DEF e
    <3> QED BY <1>0, <3>1, <3>2 DEF TypeInv
  <2> QED BY <2>1, <2>2 DEF MayWriteEnv
<1>7. TypeInv'
  BY <1>0, <1>3, <1>4, <1>5, <1>6 DEF TypeInv
<1>8. MarkInv' /\ LoopInv' /\ RelayInv' /\ TopLevelUsable' /\ CacheInv'
  BY <1>3, <1>4 DEF MarkInv, LoopInv, RelayInv, TopLevelUsable, CacheInv
<1>9. DiskInv'
  BY <1>0, <1>3 DEF DiskInv
<1>10. HalfInv'
  <2>1. ASSUME NEW p \in Packages
        PROVE  LET y == dir'[<<p, "all">>] IN y.prefix # "install" /\ (y.makefile => y.half # "failed")
    <3>1. <<p, "all">> \in Dirs
      BY DEF Dirs
    <3>2. CASE <<p, "all">> # BuildDir
      BY <1>0, <1>5, <3>1, <3>2 DEF HalfInv
    <3>3. CASE <<p, "all">> = BuildDir
      <4>1. BuildType[Package] = "catkin"
        BY <1>2, <3>3 DEF DirOf
      <4> QED BY <1>5, <3>3, <4>1
    <3> QED BY <3>2, <3>3
  <2> QED BY <1>3, <2>1 DEF HalfInv
<1> QED BY <1>7, <1>8, <1>9, <1>10 DEF Inv

\* What there is of the build directory before cmake is called.
LEMMA CMakeBefore ==
  ASSUME Inv, session.pc = "cmake"
  PROVE  /\ dir[BuildDir] \in DirState /\ session.o.args \in Args
         /\ NewEnv \in Places /\ PkgDevelspace \in Places /\ PkgDevelspace # "install"
         /\ BuildType[Package] = "catkin" =>
              /\ dir[BuildDir].prefix # "install"
              /\ dir[BuildDir].makefile => dir[BuildDir].half # "failed"
<1>1. TypeInv /\ HalfInv /\ InLoop /\ session.at <= Len(session.order)
  BY DEF Inv, InLoop, TypeInv
<1>2. /\ Package \in Packages /\ BuildDir \in Dirs /\ NewEnv \in Places
      /\ PkgDevelspace \in Places /\ PkgDevelspace # "install"
      /\ BuildDir = DirOf(Package, session.o.install)
  BY <1>1, Here
<1>3. dir[BuildDir] \in DirState /\ session.o.args \in Args
  BY <1>1, <1>2 DEF TypeInv, SessionState, Args
<1>4. BuildType[Package] = "catkin" => BuildDir = <<Package, "all">>
  BY <1>2 DEF DirOf
<1> QED BY <1>1, <1>2, <1>3, <1>4 DEF HalfInv

LEMMA CMakeFailsStep == Inv /\ CMakeFails => Inv'
<1> SUFFICES ASSUME Inv, CMakeFails PROVE Inv'
  OBVIOUS
<1>1. session.pc = "cmake" /\ End(FALSE) /\ UNCHANGED <<mark, cache, products>>
  BY DEF CMakeFails, CommandFails
<1>2. CASE UNCHANGED <<dir, env, top>>
  BY <1>1, <1>2, EndKeeps DEF disk
<1> DEFINE x == dir[BuildDir]
           d == IF BuildType[Package] = "catkin" THEN AfterFailedCMake(x) ELSE KeepsMakefile(x)
<1>3. CASE EnvUsable /\ dir' = [dir EXCEPT ![BuildDir] = d] /\ MayWriteEnv
  <2>1. x \in DirState /\ session.o.args \in Args
        /\ (BuildType[Package] = "catkin" => x.prefix # "install")
    BY <1>1, CMakeBefore
  <2> HIDE DEF x
  <2>2. d \in DirState /\ d.prefix = x.prefix /\ (BuildType[Package] = "catkin" => ~d.makefile)
    BY <2>1 DEF AfterFailedCMake, KeepsMakefile, DirState
  <2> HIDE DEF d
  <2> QED BY <1>1, <1>3, <2>1, <2>2, CMakeCut
<1> QED BY <1>2, <1>3 DEF CMakeFails

\* A kill leaves the Makefile there was or the one there was to be.
LEMMA KilledInCMakeStep == Inv /\ KilledInCMake => Inv'
<1> SUFFICES ASSUME Inv, KilledInCMake PROVE Inv'
  OBVIOUS
<1>1. /\ session.pc = "cmake" /\ EnvUsable /\ End(FALSE) /\ MayWriteEnv
      /\ UNCHANGED <<mark, cache, products>>
  BY DEF KilledInCMake
<1> DEFINE prefix == IF BuildType[Package] = "catkin" THEN PkgDevelspace ELSE NewEnv
           x == dir[BuildDir]
           old == [x EXCEPT !.args = session.o.args]
           new == Configured(prefix)
<1>2. PICK y \in {old, new} : dir' = [dir EXCEPT ![BuildDir] = [y EXCEPT !.half = "killed"]]
  BY DEF KilledInCMake
<1>3. /\ x \in DirState /\ session.o.args \in Args /\ prefix \in Places
      /\ BuildType[Package] = "catkin" => x.prefix # "install" /\ prefix # "install"
  BY <1>1, CMakeBefore
<1>4. new \in DirState /\ new.prefix = prefix
  BY <1>1, <1>3, ConfiguredType
<1> HIDE DEF prefix, x, new
<1>5. old \in DirState /\ old.prefix = x.prefix
  BY <1>3 DEF DirState
<1> HIDE DEF old
<1> DEFINE d == [y EXCEPT !.half = "killed"]
<1>6. d \in DirState /\ d.half = "killed" /\ (BuildType[Package] = "catkin" => d.prefix # "install")
  BY <1>2, <1>3, <1>4, <1>5 DEF DirState
<1>7. dir' = [dir EXCEPT ![BuildDir] = d]
  BY <1>2
<1> HIDE DEF d
<1>8. d.half # "failed"
  BY <1>6
<1> QED BY <1>1, <1>6, <1>7, <1>8, CMakeCut

\* The commands that fail without a trace.
LEMMA FailureSteps ==
  Inv /\ (CheckFails \/ MakeFails \/ InstallFails \/ Killed) => Inv'
BY EndKeeps DEF CheckFails, MakeFails, InstallFails, Killed, CommandFails

\* cmake_check_build_system, which may run cmake again.
LEMMA CheckBuildSystemStep == Inv /\ CheckBuildSystem => Inv'
<1> SUFFICES ASSUME Inv, CheckBuildSystem PROVE Inv'
  OBVIOUS
<1>0. TypeInv /\ HalfInv /\ CacheInv
  BY DEF Inv
<1>1. /\ session.pc = "check" /\ InLoop /\ session.at <= Len(session.order) /\ EnvUsable
      /\ session' = [session EXCEPT !.pc = "make"]
      /\ UNCHANGED <<source, mark, cache, products, sessions, safe>>
  BY <1>0 DEF CheckBuildSystem, InLoop, TypeInv
<1>2. /\ session.at \in 1 .. Len(session.order)
      /\ Package \in Packages /\ BuildDir \in Dirs
      /\ PkgDevelspace = DevelOf(Package, session.o.merge)
      /\ BuildDir = DirOf(Package, session.o.install) /\ Package = session.order[session.at]
      /\ \A i \in 1 .. Len(session.order) : i # session.at => session.order[i] # Package
  BY <1>1, Here
<1> DEFINE x == dir[BuildDir]
           l == PathOf(session.lastEnv)
           d == [x EXCEPT !.path = l, !.half = "no"]
<1>3. x \in DirState /\ l \in SUBSET Places
  BY <1>0, <1>1, <1>2, PathType DEF TypeInv
<1>4. BuildType[Package] = "catkin" => x.prefix # "install" /\ x.half # "failed"
  BY <1>0, <1>1, <1>2 DEF HalfInv, DirOf
<1>5. \/ UNCHANGED <<dir, env, top>>
      \/ /\ dir' = [dir EXCEPT ![BuildDir] = d]
         /\ IF BuildType[Package] = "catkin"
              THEN /\ env' = [env EXCEPT ![d.prefix] = {d.prefix} \cup d.path]
                   /\ top' = IF d.prefix = "devel" THEN NoPackage ELSE top
              ELSE UNCHANGED <<env, top>>
  BY DEF CheckBuildSystem
<1> HIDE DEF x, l
<1>6. /\ d \in DirState /\ d.makefile = x.makefile /\ d.args = x.args /\ d.prefix = x.prefix
      /\ d.path = l /\ d.half = "no" /\ d.prefix \in Places
  BY <1>3 DEF DirState
<1> HIDE DEF d
<1>7. /\ dir' \in [Dirs -> DirState] /\ top' \in Packages \cup {NoPackage}
      /\ dir'[BuildDir] \in {x, d} /\ \A y \in Dirs : y # BuildDir => dir'[y] = dir[y]
      /\ env' \in [Places -> (SUBSET Places) \cup {NoEnv}]
      /\ products' \in [Places -> SUBSET Packages]
  <2>1. CASE UNCHANGED <<dir, env, top>>
    BY <1>0, <1>1, <2>1 DEF TypeInv, x
  <2>2. CASE dir' = [dir EXCEPT ![BuildDir] = d] /\ UNCHANGED <<env, top>>
    BY <1>0, <1>1, <1>2, <1>6, <2>2 DEF TypeInv
  <2>3. CASE /\ dir' = [dir EXCEPT ![BuildDir] = d]
             /\ env' = [env EXCEPT ![d.prefix] = {d.prefix} \cup d.path]
             /\ top' = IF d.prefix = "devel" THEN NoPackage ELSE top
    <3>1. {d.prefix} \cup d.path \in SUBSET Places
      BY <1>3, <1>6
    <3> QED BY <1>0, <1>1, <1>2, <1>6, <2>3, <3>1 DEF TypeInv
  <2> QED BY <1>5, <2>1, <2>2, <2>3
<1>8. /\ TypeInv' /\ MarkInv' /\ LoopInv' /\ DiskInv' /\ RelayInv' /\ TopLevelUsable'
      /\ safe => SyncInv' /\ ForceInv'
      /\ InLoop' /\ session'.pc = "make" /\ SameSession /\ session'.at = session.at
      /\ session'.force = session.force /\ UNCHANGED <<Package, BuildDir, CachedOrder>>
      /\ GoodUpTo' = GoodUpTo
  BY <1>1, <1>7, StayKeeps
<1>9. HalfInv'
  <2>1. ASSUME NEW p \in Packages
        PROVE  LET y == dir'[<<p, "all">>] IN y.prefix # "install" /\ (y.makefile => y.half # "failed")
    <3>1. <<p, "all">> \in Dirs
      BY DEF Dirs
    <3>2. CASE <<p, "all">> # BuildDir
      BY <1>0, <1>7, <3>1, <3>2 DEF HalfInv
    <3>3. CASE <<p, "all">> = BuildDir
      <4>1. BuildType[Package] = "catkin"
        BY <1>2, <3>3 DEF DirOf
      <4> QED BY <1>4, <1>6, <1>7, <3>3, <4>1
    <3> QED BY <3>2, <3>3
  <2> QED BY <1>4, <1>6, <1>7, <1>8, <2>1 DEF HalfInv
<1>10. CacheInv'
  <2>1. ASSUME safe PROVE GoodInv' /\ SharedInv' /\ HereInv'
    <3>1. SharedInv /\ ~session.force
      BY <1>0, <1>1, <2>1 DEF CacheInv, ForceInv
    <3>2. l = PathAt(session.order, session.at, session.o.install, session.o.merge)
      BY <1>1, <2>1, PathHere DEF l
    <3>3. Past = 1 .. Len(session.order)
      BY <3>1 DEF Past
    <3>4. ConfiguredGood(session.order, session.at, session.o.args, session.o.install,
                         session.o.merge, x)
      <4>1. Good(session.order, session.at, session.o.args, session.o.install,
                 session.o.merge, dir, products, env)
        BY <1>1, <1>2, <2>1, <3>3, GoodPast
      <4> QED BY <1>2, <4>1 DEF Good, x
    <3>5. ConfiguredGood(session.order, session.at, session.o.args, session.o.install,
                         session.o.merge, dir'[BuildDir])
      BY <1>6, <1>7, <3>2, <3>4 DEF ConfiguredGood
    <3>6. /\ \A i \in 1 .. Len(session.order) :
               EnvGood(session.order, i, session.o.install, session.o.merge, env)
                 => EnvGood(session.order, i, session.o.install, session.o.merge, env')
          /\ session.o.install => env'["install"] = env["install"]
          /\ ~session.o.install /\ session.o.merge => env'["devel"] \in {env["devel"], {"devel"}}
      <4>1. CASE env' = env
        BY <4>1
      <4>2. CASE BuildType[Package] = "catkin"
                 /\ env' = [env EXCEPT ![d.prefix] = {d.prefix} \cup d.path]
        <5>1. d.prefix = PkgDevelspace /\ d.path = l
          BY <1>2, <1>6, <3>4, <4>2 DEF ConfiguredGood
        <5>2. env' = [env EXCEPT ![PkgDevelspace] =
                {PkgDevelspace} \cup PathAt(session.order, session.at,
                                            session.o.install, session.o.merge)]
          BY <3>2, <4>2, <5>1
        <5> QED BY <1>1, <5>2, EnvDevel
      <4> QED BY <1>5, <4>1, <4>2
    <3>7. SharedInv'
      BY <1>8, <3>1, <3>6 DEF SharedInv, SameSession
    <3>8. HereInv'
      BY <1>8, <3>1 DEF HereInv
    <3>9. GoodInv'
      <4>1. ASSUME NEW i \in Past
            PROVE  Good(session.order, i, session.o.args, session.o.install,
                        session.o.merge, dir', products', env')
        <5>1. /\ Good(session.order, i, session.o.args, session.o.install,
                      session.o.merge, dir, products, env)
              /\ i \in 1 .. Len(session.order)
          BY <1>1, <2>1, GoodPast
        <5>2. CASE i = session.at
          BY <1>1, <1>2, <3>5, <3>6, <5>1, <5>2 DEF Good
        <5>3. CASE i # session.at
          <6>1. /\ DirOf(session.order[i], session.o.install) # BuildDir
                /\ DirOf(session.order[i], session.o.install) \in Dirs
            BY <1>1, <1>2, <5>1, <5>3, Here, OtherDir, DirType
          <6> QED BY <1>1, <1>7, <3>6, <5>1, <6>1 DEF Good
        <5> QED BY <5>2, <5>3
      <4> QED BY <1>1, <1>8, <2>1, <4>1, GoodAgain DEF SameSession
    <3> QED BY <3>7, <3>8, <3>9
  <2> QED BY <1>1, <1>8, <2>1 DEF CacheInv
<1> QED BY <1>8, <1>9, <1>10 DEF Inv

\* The build directory of the package at hand is in order.
LEMMA ConfiguredHere ==
  ASSUME Inv, safe, session.pc \in {"make", "install", "envsh"}
  PROVE  ConfiguredGood(session.order, session.at, session.o.args, session.o.install,
                        session.o.merge, dir[BuildDir])
<1>1. InLoop /\ session.at <= Len(session.order) /\ HereInv
  BY DEF Inv, TypeInv, InLoop, CacheInv
<1>2. CASE session.force
  BY <1>1, <1>2 DEF HereInv
<1>3. CASE ~session.force
  <2>1. /\ session.at \in 1 .. Len(session.order)
        /\ BuildDir = DirOf(session.order[session.at], session.o.install)
    BY <1>1, Here
  <2>2. Good(session.order, session.at, session.o.args, session.o.install,
             session.o.merge, dir, products, env)
    BY <1>1, <1>3, <2>1, GoodBefore
  <2> QED BY <2>1, <2>2 DEF Good
<1> QED BY <1>2, <1>3

LEMMA MakeStep == Inv /\ Make => Inv'
<1> SUFFICES ASSUME Inv, Make PROVE Inv'
  OBVIOUS
<1>0. TypeInv /\ HalfInv /\ CacheInv
  BY DEF Inv
<1> DEFINE c == IF BuildType[Package] = "cmake" \/ session.o.install THEN "install" ELSE "envsh"
<1>1. /\ session.pc = "make" /\ InLoop /\ session.at <= Len(session.order)
      /\ session' = [session EXCEPT !.pc = c]
      /\ UNCHANGED <<source, mark, cache, dir, env, top, sessions, safe>>
  BY <1>0 DEF Make, InLoop, TypeInv
<1>2. /\ Package \in Packages /\ BuildDir \in Dirs /\ BuildType[Package] \in {"catkin", "cmake"}
      /\ Package = session.order[session.at]
      /\ session.o.install \in BOOLEAN /\ session.o.merge \in BOOLEAN
  BY <1>1, Here
<1>3. /\ c \in {"install", "envsh"}
      /\ c = "install" => BuildType[Package] = "cmake" \/ session.o.install
      /\ c = "envsh" => BuildType[Package] = "catkin" /\ ~session.o.install
  BY <1>2
<1> HIDE DEF c
<1> DEFINE x == dir[BuildDir].prefix
<1>4. x \in Places
  BY <1>0, <1>2 DEF TypeInv, DirState
<1>5. /\ products' \in [Places -> SUBSET Packages] /\ \A l \in Places : products[l] \subseteq products'[l]
      /\ BuildType[Package] = "catkin" => Package \in products'[x]
  <2>1. CASE BuildType[Package] = "cmake"
    BY <1>0, <2>1 DEF Make, TypeInv
  <2>2. CASE BuildType[Package] = "catkin"
    <3>1. products' = [products EXCEPT ![x] = products[x] \cup {Package}]
      BY <2>2 DEF Make
    <3> HIDE DEF x
    <3> QED BY <1>0, <1>2, <1>4, <3>1 DEF TypeInv
  <2> QED BY <1>2, <2>1, <2>2
<1>6. /\ TypeInv' /\ MarkInv' /\ LoopInv' /\ DiskInv' /\ RelayInv' /\ TopLevelUsable'
      /\ safe => SyncInv' /\ ForceInv'
      /\ InLoop' /\ session'.pc = c /\ SameSession /\ session'.at = session.at
      /\ session'.force = session.force /\ UNCHANGED <<Package, BuildDir, CachedOrder>>
      /\ GoodUpTo' = GoodUpTo
  <2>1. /\ dir' \in [Dirs -> DirState] /\ top' \in Packages \cup {NoPackage}
        /\ env' \in [Places -> (SUBSET Places) \cup {NoEnv}]
    BY <1>0, <1>1 DEF TypeInv
  <2> QED BY <1>1, <1>3, <1>5, <2>1, StayKeeps
<1>7. HalfInv'
  BY <1>0, <1>1, <1>3, <1>6 DEF HalfInv
<1>8. CacheInv'
  <2>1. ASSUME safe PROVE GoodInv' /\ SharedInv' /\ HereInv'
    <3>1. SharedInv /\ HereInv
      BY <1>0, <2>1 DEF CacheInv
    <3>2. SharedInv'
      BY <1>1, <1>6, <3>1 DEF SharedInv, SameSession
    <3>3. c = "envsh" => BuiltGood(session.order, session.at, session.o.install,
                                   session.o.merge, products')
      <4>1. ConfiguredGood(session.order, session.at, session.o.args, session.o.install,
                           session.o.merge, dir[BuildDir])
        BY <1>1, <2>1, ConfiguredHere
      <4>2. c = "envsh" => x = PlaceOf(Package, session.o.install, session.o.merge)
        BY <1>2, <1>3, <4>1 DEF ConfiguredGood, DevelOf, PlaceOf
      <4> QED BY <1>2, <1>3, <1>5, <4>2 DEF BuiltGood
    <3>4. HereInv'
      BY <1>1, <1>6, <3>1, <3>3 DEF HereInv, SameSession
    <3>5. GoodInv'
      <4>1. ASSUME NEW i \in Past
            PROVE  Good(session.order, i, session.o.args, session.o.install,
                        session.o.merge, dir', products', env')
        <5>1. /\ Good(session.order, i, session.o.args, session.o.install,
                      session.o.merge, dir, products, env)
              /\ i \in 1 .. Len(session.order)
          BY <1>1, <2>1, GoodPast
        <5>2. PlaceOf(session.order[i], session.o.install, session.o.merge) \in Places
          BY <1>1, <5>1, Here DEF PlaceOf, Places
        <5>3. BuiltGood(session.order, i, session.o.install, session.o.merge, products')
          BY <1>5, <5>1, <5>2 DEF Good, BuiltGood
        <5> QED BY <1>1, <5>1, <5>3 DEF Good
      <4> QED BY <1>1, <1>6, <2>1, <4>1, GoodAgain DEF SameSession
    <3> QED BY <3>2, <3>4, <3>5
  <2> QED BY <1>1, <1>6, <2>1 DEF CacheInv
<1> QED BY <1>6, <1>7, <1>8 DEF Inv

\* make install, which a catkin package without that target skips.
LEMMA InstallStep == Inv /\ Install => Inv'
<1> SUFFICES ASSUME Inv, Install PROVE Inv'
  OBVIOUS
<1>0. TypeInv /\ HalfInv /\ CacheInv /\ LoopInv
  BY DEF Inv
<1>1. /\ session.pc = "install" /\ InLoop /\ session.at <= Len(session.order)
      /\ session' = [session EXCEPT !.pc = "envsh"]
      /\ UNCHANGED <<source, mark, cache, dir, top, sessions, safe>>
  BY <1>0 DEF Install, InLoop, TypeInv
<1>2. /\ session.at \in 1 .. Len(session.order) /\ Package \in Packages /\ BuildDir \in Dirs
      /\ BuildType[Package] \in {"catkin", "cmake"} /\ Package = session.order[session.at]
      /\ session.o.install \in BOOLEAN /\ session.o.merge \in BOOLEAN
  BY <1>1, Here
<1>3. BuildType[Package] = "catkin" => session.o.install
  BY <1>0, <1>1 DEF LoopInv
<1> DEFINE d == dir[BuildDir]
           to == IF BuildType[Package] = "catkin" THEN "install" ELSE d.prefix
<1>4. d.prefix \in Places /\ d.path \in SUBSET Places /\ "install" \in Places
  BY <1>0, <1>2 DEF TypeInv, DirState, Places
<1>5. \/ /\ Package \in NoInstall /\ BuildType[Package] = "catkin" /\ UNCHANGED <<products, env>>
      \/ /\ products' = [products EXCEPT ![to] = products[to] \cup {Package}]
         /\ env' = IF BuildType[Package] = "catkin"
                     THEN [env EXCEPT !["install"] = {"install"} \cup d.path] ELSE env
  BY DEF Install
<1> HIDE DEF d
<1>6. to \in Places
  BY <1>4
<1> HIDE DEF to
<1>7. /\ products' \in [Places -> SUBSET Packages] /\ \A l \in Places : products[l] \subseteq products'[l]
      /\ (Package \in NoInstall /\ BuildType[Package] = "catkin") \/ Package \in products'[to]
  <2>1. CASE UNCHANGED products /\ Package \in NoInstall /\ BuildType[Package] = "catkin"
    BY <1>0, <2>1 DEF TypeInv
  <2>2. CASE products' = [products EXCEPT ![to] = products[to] \cup {Package}]
    BY <1>0, <1>2, <1>6, <2>2 DEF TypeInv
  <2> QED BY <1>5, <2>1, <2>2
<1>8. env' \in [Places -> (SUBSET Places) \cup {NoEnv}]
  <2>1. CASE env' = env
    BY <1>0, <2>1 DEF TypeInv
  <2>2. CASE env' = [env EXCEPT !["install"] = {"install"} \cup d.path]
    <3>1. {"install"} \cup d.path \in SUBSET Places
      BY <1>4
    <3> QED BY <1>0, <1>4, <2>2, <3>1 DEF TypeInv
  <2> QED BY <1>5, <2>1, <2>2
<1>9. /\ TypeInv' /\ MarkInv' /\ LoopInv' /\ DiskInv' /\ RelayInv' /\ TopLevelUsable'
      /\ safe => SyncInv' /\ ForceInv'
      /\ InLoop' /\ session'.pc = "envsh" /\ SameSession /\ session'.at = session.at
      /\ session'.force = session.force /\ UNCHANGED <<Package, BuildDir, CachedOrder>>
      /\ GoodUpTo' = GoodUpTo
  <2>1. dir' \in [Dirs -> DirState] /\ top' \in Packages \cup {NoPackage}
    BY <1>0, <1>1 DEF TypeInv
  <2>2. BuildType[Package] = "cmake" => EnvUsable'
    <3>1. BuildType[Package] = "cmake" => EnvUsable /\ env' = env
      BY DEF Install
    <3>2. session'.lastEnv = session.lastEnv
      BY <1>0, <1>1, PcEffect
    <3> QED BY <3>1, <3>2 DEF EnvUsable
  <2> QED BY <1>1, <1>7, <1>8, <2>1, <2>2, StayKeeps
<1>10. HalfInv'
  BY <1>0, <1>1, <1>9 DEF HalfInv
<1>11. CacheInv'
  <2>1. ASSUME safe PROVE GoodInv' /\ SharedInv' /\ HereInv'
    <3>1. SharedInv /\ HereInv
      BY <1>0, <2>1 DEF CacheInv
    <3>2. ConfiguredGood(session.order, session.at, session.o.args, session.o.install,
                         session.o.merge, d)
      BY <1>1, <2>1, ConfiguredHere DEF d
    <3>3. to = PlaceOf(Package, session.o.install, session.o.merge)
      BY <1>2, <1>3, <3>2 DEF ConfiguredGood, PlaceOf, to
    <3>4. BuiltGood(session.order, session.at, session.o.install, session.o.merge, products')
      BY <1>2, <1>3, <1>7, <3>3 DEF BuiltGood
    <3>5. /\ \A i \in 1 .. Len(session.order) :
               EnvGood(session.order, i, session.o.install, session.o.merge, env)
                 => EnvGood(session.order, i, session.o.install, session.o.merge, env')
          /\ session.o.install => env'["install"] \in {env["install"], {"install"}}
          /\ ~session.o.install => env' = env
      <4>1. CASE env' = env
        BY <4>1
      <4>2. CASE BuildType[Package] = "catkin"
                 /\ env' = [env EXCEPT !["install"] = {"install"} \cup d.path]
        <5>1. NewEnv = "install" /\ session.o.install
          BY <1>3, <4>2 DEF NewEnv
        <5>2. d.path = PathAt(session.order, session.at, session.o.install, session.o.merge)
          BY <3>2 DEF ConfiguredGood
        <5>3. {"install"} \cup d.path = PathAt(session.order, session.at + 1,
                                               session.o.install, session.o.merge)
          BY <1>2, <5>1, <5>2 DEF PathAt
        <5>4. env' = [env EXCEPT ![NewEnv] = PathAt(session.order, session.at + 1,
                                                    session.o.install, session.o.merge)]
          BY <4>2, <5>1, <5>3
        <5> QED BY <1>1, <5>1, <5>4, EnvWrite
      <4> QED BY <1>5, <4>1, <4>2
    <3>6. SharedInv'
      BY <1>9, <3>1, <3>5 DEF SharedInv, SameSession
    <3>7. HereInv'
      <4>1. session.force => ConfiguredGood(session.order, session.at, session.o.args,
                               session.o.install, session.o.merge, dir'[BuildDir])
        BY <1>1, <3>2 DEF d
      <4>2. ~(BuildType[Package] = "catkin" /\ ~session.o.install)
        BY <1>3
      <4> QED BY <1>9, <3>4, <4>1, <4>2 DEF HereInv, SameSession
    <3>8. GoodInv'
      <4>1. ASSUME NEW i \in Past
            PROVE  Good(session.order, i, session.o.args, session.o.install,
                        session.o.merge, dir', products', env')
        <5>1. /\ Good(session.order, i, session.o.args, session.o.install,
                      session.o.merge, dir, products, env)
              /\ i \in 1 .. Len(session.order)
          BY <1>1, <2>1, GoodPast
        <5>2. PlaceOf(session.order[i], session.o.install, session.o.merge) \in Places
          BY <1>1, <5>1, Here DEF PlaceOf, Places
        <5>3. BuiltGood(session.order, i, session.o.install, session.o.merge, products')
          BY <1>7, <5>1, <5>2 DEF Good, BuiltGood
        <5> QED BY <1>1, <3>5, <5>1, <5>3 DEF Good
      <4> QED BY <1>1, <1>9, <2>1, <4>1, GoodAgain DEF SameSession
    <3> QED BY <3>6, <3>7, <3>8
  <2> QED BY <1>1, <1>9, <2>1 DEF CacheInv
<1> QED BY <1>9, <1>10, <1>11 DEF Inv

\* A package is done: the step before left what the loop relies on.
LEMMA DoneKeeps ==
  ASSUME Inv, session.pc = "envsh", Done,
         UNCHANGED <<source, mark, cache, dir, products, sessions, safe>>,
         env' \in [Places -> (SUBSET Places) \cup {NoEnv}], top' \in Packages \cup {NoPackage},
         ~session.o.install /\ ~session.o.merge => env'[Package] # NoEnv,
         safe => /\ \A i \in 1 .. Len(session.order) :
                      EnvGood(session.order, i, session.o.install, session.o.merge, env)
                        => EnvGood(session.order, i, session.o.install, session.o.merge, env')
                 /\ EnvGood(session.order, session.at, session.o.install, session.o.merge, env')
                 /\ session.o.install => env'["install"] \in {env["install"], {"install"}}
                 /\ ~session.o.install /\ session.o.merge =>
                      env'["devel"] \in {env["devel"], {"devel"}}
  PROVE  Inv'
<1>0. /\ TypeInv /\ MarkInv /\ LoopInv /\ HalfInv /\ DiskInv
      /\ CacheInv /\ RelayInv /\ TopLevelUsable
  BY DEF Inv
<1>1. InLoop /\ session.at <= Len(session.order)
  BY <1>0 DEF InLoop, TypeInv
<1>2. /\ session' \in SessionState /\ session'.pc = "next" /\ SameSession
      /\ session'.at = session.at + 1 /\ session'.build = session.build
      /\ session'.force = session.force /\ session'.lastEnv = NewEnv
      /\ NewEnv = PlaceOf(Package, session.o.install, session.o.merge)
  BY <1>0, <1>1, DoneEffect
<1>3. /\ session.at \in 1 .. Len(session.order) /\ Len(session.order) \in Nat
      /\ Package = session.order[session.at] /\ BuildDir = DirOf(Package, session.o.install)
  BY <1>1, Here
<1>4. InLoop' /\ UNCHANGED <<Considered, Refused, CachedOrder>>
  BY <1>1, <1>2 DEF InLoop, SameSession, Considered, Refused, CachedOrder
<1>5. TypeInv'
  <2>1. session'.at <= Len(session'.order) + 1 /\ session'.at >= 1
    BY <1>2, <1>3 DEF SameSession
  <2> QED BY <1>0, <1>2, <2>1 DEF TypeInv
<1>6. MarkInv'
  BY <1>0, <1>1, <1>2 DEF MarkInv
<1>a. session'.at # 1 /\ session'.at - 1 = session.at /\ 1 .. session'.at - 1 = 1 .. session.at
  BY <1>2, <1>3
<1>7. LoopInv'
  <2>2. session'.lastEnv = PlaceOf(session.order[session'.at - 1], session.o.install, session.o.merge)
    BY <1>2, <1>3, <1>a
  <2>3. session'.lastEnv = IF session'.at = 1 THEN "none"
          ELSE IF session'.o.install THEN "install"
          ELSE IF session'.o.merge THEN "devel" ELSE session'.order[session'.at - 1]
    BY <1>2, <1>a, <2>2 DEF SameSession, PlaceOf
  <2>4. session'.order = Order[Considered]' /\ ~Refused' /\ ~session'.ok
    BY <1>0, <1>1, <1>2, <1>4 DEF LoopInv, SameSession
  <2> QED BY <1>2, <2>3, <2>4 DEF LoopInv
<1>8. RelayInv' /\ TopLevelUsable'
  <2>1. session'.order[session'.at - 1] = Package
    BY <1>2, <1>3, <1>a DEF SameSession
  <2>2. session.o.continue => session.build = {}
    BY <1>0, <1>1 DEF RelayInv
  <2> QED BY <1>0, <1>1, <1>2, <2>1, <2>2 DEF RelayInv, TopLevelUsable, SameSession
<1>9. HalfInv' /\ DiskInv'
  <2>1. sessions # 0
    BY <1>0 DEF DiskInv
  <2> QED BY <1>0, <1>2, <2>1 DEF HalfInv, DiskInv
<1>10. CacheInv'
  <2>1. ASSUME safe PROVE SyncInv' /\ GoodInv' /\ SharedInv' /\ ForceInv' /\ HereInv'
    <3>1. SyncInv /\ GoodInv /\ SharedInv /\ ForceInv /\ HereInv
      BY <1>0, <2>1 DEF CacheInv
    <3>2. SyncInv' /\ ForceInv' /\ HereInv'
      BY <1>1, <1>2, <1>4, <3>1 DEF SyncInv, ForceInv, HereInv, SameSession
    <3>3. SharedInv'
      BY <1>2, <2>1, <3>1 DEF SharedInv, SameSession
    <3>4. session.order = CachedOrder /\ session.o.args = cache.args
      BY <1>1, <2>1, GoodBefore
    <3>5. /\ 1 .. GoodUpTo' = IF session.force THEN 1 .. session.at ELSE 1 .. Len(session.order)
          /\ 1 .. GoodUpTo' \subseteq Past \cup {session.at}
      <4>1. CASE session.force
        <5>1. GoodUpTo' = session.at
          BY <1>2, <1>4, <1>a, <4>1 DEF GoodUpTo
        <5> QED BY <1>3, <4>1, <5>1 DEF Past
      <4>2. CASE ~session.force
        <5>1. GoodUpTo' = Len(session.order)
          BY <1>2, <1>4, <3>4, <4>2 DEF GoodUpTo
        <5> QED BY <4>2, <5>1 DEF Past
      <4> QED BY <4>1, <4>2
    <3>6. ASSUME NEW i \in Past \cup {session.at}
          PROVE  Good(session.order, i, session.o.args, session.o.install,
                      session.o.merge, dir, products, env')
      <4>1. CASE i \in Past
        <5>1. /\ Good(session.order, i, session.o.args, session.o.install,
                      session.o.merge, dir, products, env)
              /\ i \in 1 .. Len(session.order)
          BY <1>1, <2>1, <4>1, GoodPast
        <5> QED BY <2>1, <5>1 DEF Good
      <4>2. CASE i = session.at /\ i \notin Past
        <5>1. session.force
          BY <1>3, <4>2 DEF Past
        <5>2. /\ ConfiguredGood(session.order, session.at, session.o.args, session.o.install,
                                session.o.merge, dir[BuildDir])
              /\ BuiltGood(session.order, session.at, session.o.install, session.o.merge, products)
          BY <3>1, <5>1 DEF HereInv
        <5> QED BY <1>3, <2>1, <4>2, <5>2 DEF Good
      <4> QED BY <3>6, <4>1, <4>2
    <3>7. GoodInv'
      <4>1. /\ CachedOrder' = session.order /\ cache'.args = session.o.args
            /\ session'.o = session.o
        BY <1>2, <1>4, <3>4 DEF SameSession
      <4> QED BY <3>5, <3>6, <4>1 DEF GoodInv
    <3> QED BY <3>2, <3>3, <3>7
  <2> QED BY <2>1 DEF CacheInv
<1> QED BY <1>5, <1>6, <1>7, <1>8, <1>9, <1>10 DEF Inv

\* A catkin package's environment must be there.
LEMMA FinishCatkinStep == Inv /\ FinishCatkin => Inv'
<1> SUFFICES ASSUME Inv, FinishCatkin PROVE Inv'
  OBVIOUS
<1>0. TypeInv /\ CacheInv
  BY DEF Inv
<1>1. /\ session.pc = "envsh" /\ InLoop /\ session.at <= Len(session.order)
      /\ BuildType[Package] = "catkin" /\ UNCHANGED disk
  BY <1>0 DEF FinishCatkin, InLoop, TypeInv
<1>2. CASE ~EnvWasMade
  BY <1>1, <1>2, EndKeeps DEF FinishCatkin
<1>3. CASE EnvWasMade
  <2>1. Done /\ UNCHANGED <<source, sessions, safe>> /\ env[NewEnv] # NoEnv
    BY <1>3 DEF FinishCatkin, EnvWasMade
  <2>2. /\ session.at \in 1 .. Len(session.order) /\ Package = session.order[session.at]
        /\ session.o.install \in BOOLEAN /\ session.o.merge \in BOOLEAN
        /\ NewEnv = PlaceOf(Package, session.o.install, session.o.merge)
    BY <1>1, Here
  <2>3. UNCHANGED <<mark, cache, dir, products, env, top>>
    BY <1>1 DEF disk
  <2>4. ASSUME safe
        PROVE  EnvGood(session.order, session.at, session.o.install, session.o.merge, env)
    <3>1. CASE ~session.force
      BY <1>1, <2>2, <2>4, <3>1, GoodBefore DEF Good
    <3>2. CASE session.force /\ ~session.o.install
      BY <1>0, <1>1, <2>4, <3>2 DEF CacheInv, HereInv
    <3>3. CASE session.o.install
      <4>1. NewEnv = "install" /\ env["install"] = {"install"}
        BY <1>0, <2>1, <2>2, <2>4, <3>3 DEF CacheInv, SharedInv, PlaceOf
      <4>2. session.at + 1 # 1
        BY <2>2
      <4> QED BY <2>2, <3>3, <4>1, <4>2 DEF EnvGood, PathAt, PlaceOf
    <3> QED BY <3>1, <3>2, <3>3
  <2>5. ~session.o.install /\ ~session.o.merge => env[Package] # NoEnv
    BY <2>1, <2>2 DEF PlaceOf
  <2>6. env \in [Places -> (SUBSET Places) \cup {NoEnv}] /\ top \in Packages \cup {NoPackage}
    BY <1>0 DEF TypeInv
  <2> QED BY <1>1, <2>1, <2>3, <2>4, <2>5, <2>6, DoneKeeps
<1> QED BY <1>2, <1>3

\* A plain package's environment is written unless the space has one.
LEMMA FinishPlainStep == Inv /\ FinishPlain => Inv'
<1> SUFFICES ASSUME Inv, FinishPlain PROVE Inv'
  OBVIOUS
<1>0. TypeInv /\ CacheInv /\ LoopInv
  BY DEF Inv
<1>1. /\ session.pc = "envsh" /\ InLoop /\ session.at <= Len(session.order)
      /\ BuildType[Package] = "cmake" /\ Done
      /\ UNCHANGED <<source, mark, cache, dir, products, sessions, safe>>
  BY <1>0 DEF FinishPlain, InLoop, TypeInv
<1>2. /\ session.at \in 1 .. Len(session.order) /\ Package = session.order[session.at]
      /\ Package \in Packages /\ Len(session.order) \in Nat
      /\ session.o.install \in BOOLEAN /\ session.o.merge \in BOOLEAN
      /\ NewEnv = PlaceOf(Package, session.o.install, session.o.merge) /\ NewEnv \in Places
      /\ \A i \in 1 .. Len(session.order) : i # session.at => session.order[i] # Package
  BY <1>1, Here
<1> DEFINE path == PathOf(session.lastEnv)
           kept == \/ session.o.install /\ env["install"] # NoEnv
                   \/ NewEnv = session.lastEnv
<1>3. path \in SUBSET Places
  BY <1>0, <1>1, PathType DEF LoopInv
<1>4. /\ env' = IF kept THEN env ELSE [env EXCEPT ![NewEnv] = {NewEnv} \cup path]
      /\ top' = IF ~kept /\ NewEnv = "devel" THEN NoPackage ELSE top
  BY DEF FinishPlain
<1>5. NewEnv = session.lastEnv => session.at # 1 /\ (session.o.install \/ session.o.merge)
  <2>1. ASSUME NewEnv = session.lastEnv, session.at = 1 PROVE FALSE
    <3>1. session.lastEnv = "none"
      BY <1>0, <1>1, <2>1 DEF LoopInv
    <3> QED BY <1>2, <2>1, <3>1 DEF Places
  <2>2. ASSUME NewEnv = session.lastEnv, session.at # 1, ~session.o.install, ~session.o.merge
        PROVE  FALSE
    <3>1. session.lastEnv = session.order[session.at - 1] /\ NewEnv = Package
      BY <1>0, <1>1, <1>2, <2>2 DEF LoopInv, PlaceOf
    <3>2. session.at - 1 \in 1 .. Len(session.order) /\ session.at - 1 # session.at
      BY <1>2, <2>2
    <3> QED BY <1>2, <2>2, <3>1, <3>2
  <2> QED BY <2>1, <2>2
<1>6. /\ env' \in [Places -> (SUBSET Places) \cup {NoEnv}] /\ top' \in Packages \cup {NoPackage}
      /\ ~session.o.install /\ ~session.o.merge => env'[Package] # NoEnv
  <2>1. CASE kept
    BY <1>0, <1>4, <1>5, <2>1 DEF TypeInv
  <2>2. CASE ~kept
    <3>1. {NewEnv} \cup path \in SUBSET Places /\ {NewEnv} \cup path # NoEnv
      <4>1. NewEnv # "none"
        BY <1>2 DEF Places
      <4> QED BY <1>2, <1>3, <4>1 DEF NoEnv
    <3>2. env' = [env EXCEPT ![NewEnv] = {NewEnv} \cup path]
      BY <1>4, <2>2
    <3>3. env \in [Places -> (SUBSET Places) \cup {NoEnv}]
      BY <1>0 DEF TypeInv
    <3>4. top' \in Packages \cup {NoPackage}
      BY <1>0, <1>4 DEF TypeInv
    <3>5. ~session.o.install /\ ~session.o.merge => NewEnv = Package
      BY <1>2 DEF PlaceOf
    <3> HIDE DEF path, kept
    <3> QED BY <1>2, <3>1, <3>2, <3>3, <3>4, <3>5
  <2> QED BY <2>1, <2>2
<1>7. ASSUME safe
      PROVE  /\ \A i \in 1 .. Len(session.order) :
                  EnvGood(session.order, i, session.o.install, session.o.merge, env)
                    => EnvGood(session.order, i, session.o.install, session.o.merge, env')
             /\ EnvGood(session.order, session.at, session.o.install, session.o.merge, env')
             /\ session.o.install => env'["install"] \in {env["install"], {"install"}}
             /\ ~session.o.install /\ session.o.merge =>
                  env'["devel"] \in {env["devel"], {"devel"}}
  <2>1. path = PathAt(session.order, session.at, session.o.install, session.o.merge)
    BY <1>1, <1>7, PathHere
  <2>2. CASE session.o.install /\ env["install"] # NoEnv
    <3>1. env' = env /\ env["install"] = {"install"}
      BY <1>0, <1>4, <1>7, <2>2 DEF CacheInv, SharedInv
    <3>2. session.at + 1 # 1
      BY <1>2
    <3>3. EnvGood(session.order, session.at, session.o.install, session.o.merge, env)
      BY <2>2, <3>1, <3>2 DEF EnvGood, PlaceOf, PathAt
    <3> QED BY <3>1, <3>3
  <2>3. CASE NewEnv = session.lastEnv
    <3>1. env' = env /\ session.at # 1 /\ (session.o.install \/ session.o.merge)
      BY <1>4, <1>5, <2>3
    <3>2. session.at + 1 # 1
      BY <1>2
    <3>3. env[NewEnv] = path
      <4>1. NewEnv # "none"
        BY <1>2 DEF Places
      <4> QED BY <2>3, <4>1 DEF PathOf
    <3>4. PathAt(session.order, session.at, session.o.install, session.o.merge)
            = PathAt(session.order, session.at + 1, session.o.install, session.o.merge)
      BY <3>1, <3>2 DEF PathAt
    <3>5. EnvGood(session.order, session.at, session.o.install, session.o.merge, env)
      BY <1>2, <2>1, <3>3, <3>4 DEF EnvGood
    <3> QED BY <3>1, <3>5
  <2>4. CASE ~kept
    <3>1. {NewEnv} \cup path = PathAt(session.order, session.at + 1,
                                      session.o.install, session.o.merge)
      <4> DEFINE q == session.order
                 n == session.at
                 ins == session.o.install
                 mer == session.o.merge
      <4>1. n \in Nat \ {0} /\ ins \in BOOLEAN /\ mer \in BOOLEAN
            /\ NewEnv = PlaceOf(q[n], ins, mer) /\ path = PathAt(q, n, ins, mer)
        BY <1>2, <2>1
      <4> HIDE DEF q, n, ins, mer, path
      <4>2. {NewEnv} \cup path = PathAt(q, n + 1, ins, mer)
        BY <4>1, PathNext
      <4> QED BY <4>2 DEF q, n, ins, mer
    <3>2. env' = [env EXCEPT ![NewEnv] = PathAt(session.order, session.at + 1,
                                                session.o.install, session.o.merge)]
      BY <1>4, <2>4, <3>1
    <3> QED BY <1>1, <3>2, EnvWrite
  <2> QED BY <2>2, <2>3, <2>4
<1> QED BY <1>1, <1>6, <1>7, DoneKeeps

\* The end of a session that went through.
LEMMA FinishStep == Inv /\ Finish => Inv'
<1> SUFFICES ASSUME Inv, Finish PROVE Inv'
  OBVIOUS
<1>0. /\ TypeInv /\ MarkInv /\ LoopInv /\ HalfInv /\ DiskInv
      /\ CacheInv /\ RelayInv /\ TopLevelUsable
  BY DEF Inv
<1>1. CASE End(FALSE) /\ UNCHANGED <<top, env>>
  BY <1>1, EndKeeps DEF Finish, disk
<1>2. CASE /\ End(TRUE)
           /\ \/ /\ WritesRelay /\ top' = Last(session.order)
                 /\ env' = [env EXCEPT !["devel"] = IF env[top'] = NoEnv THEN {top'} ELSE env[top']]
              \/ WritesEmpty /\ top' = NoPackage /\ env' = [env EXCEPT !["devel"] = {"devel"}]
              \/ ~WritesRelay /\ ~WritesEmpty /\ UNCHANGED <<top, env>>
  <2>1. /\ session.pc = "next" /\ InLoop /\ session.at > Len(session.order)
        /\ UNCHANGED <<mark, cache, dir, products>>
    BY DEF Finish, InLoop
  <2>2. /\ session' \in SessionState /\ session'.pc = "idle" /\ session'.ok
        /\ session'.o = session.o /\ session'.order = session.order
        /\ session'.at = session.at /\ session'.build = session.build
        /\ safe' = safe /\ UNCHANGED <<source, sessions>>
    <3>1. TypeInv /\ End(TRUE)
      BY <1>0, <1>2
    <3>2. safe \in BOOLEAN
      BY <1>0 DEF TypeInv
    <3> QED BY <3>1, <3>2, EndEffect
  <2>3. /\ session.order \in Seq(Packages) /\ Len(session.order) \in Nat
        /\ session.at \in Nat /\ session.at = Len(session.order) + 1
    <3>1. session.order \in Seq(Packages) /\ session.at \in Nat /\ session.at <= Len(session.order) + 1
      BY <1>0 DEF TypeInv, SessionState
    <3> QED BY <2>1, <3>1
  <2>4. session.order # <<>> => /\ Len(session.order) > 0 /\ session.at > 1
                                /\ Last(session.order) = session.order[session.at - 1]
                                /\ Last(session.order) \in Packages
    BY <2>3 DEF Last
  <2>5. ~InLoop'
    BY <2>2 DEF InLoop
  <2>6. /\ env' \in [Places -> (SUBSET Places) \cup {NoEnv}] /\ top' \in Packages \cup {NoPackage}
        /\ \A l \in Places : l # "devel" => env'[l] = env[l]
        /\ session.o.merge => env'["devel"] \in {env["devel"], {"devel"}}
        /\ WritesRelay \/ session.order = <<>> \/ env' = env
    <3>0. /\ env \in [Places -> (SUBSET Places) \cup {NoEnv}] /\ top \in Packages \cup {NoPackage}
          /\ "devel" \in Places /\ Packages \subseteq Places
      BY <1>0 DEF TypeInv, Places
    <3>1. CASE /\ WritesRelay /\ top' = Last(session.order)
               /\ env' = [env EXCEPT !["devel"] = IF env[top'] = NoEnv THEN {top'} ELSE env[top']]
      <4> DEFINE e == IF env[top'] = NoEnv THEN {top'} ELSE env[top']
      <4>1. top' \in Packages /\ ~session.o.merge
        BY <2>4, <3>1 DEF WritesRelay
      <4>2. e \in (SUBSET Places) \cup {NoEnv} /\ env' = [env EXCEPT !["devel"] = e]
        BY <3>0, <3>1, <4>1
      <4> HIDE DEF e
      <4> QED BY <3>0, <3>1, <4>1, <4>2
    <3>2. CASE WritesEmpty /\ top' = NoPackage /\ env' = [env EXCEPT !["devel"] = {"devel"}]
      BY <3>0, <3>2 DEF WritesEmpty
    <3>3. CASE UNCHANGED <<top, env>>
      BY <3>0, <3>3
    <3> QED BY <1>2, <3>1, <3>2, <3>3
  <2>7. TypeInv'
    BY <1>0, <2>1, <2>2, <2>5, <2>6 DEF TypeInv
  <2>8. MarkInv' /\ LoopInv' /\ RelayInv'
    BY <2>2, <2>5 DEF MarkInv, LoopInv, RelayInv
  <2>9. HalfInv' /\ DiskInv'
    <3>1. sessions # 0
      BY <1>0, <2>1 DEF DiskInv
    <3> QED BY <1>0, <2>1, <2>2, <3>1 DEF HalfInv, DiskInv
  <2>10. CacheInv'
    <3>1. ASSUME safe PROVE SyncInv' /\ GoodInv' /\ SharedInv' /\ ForceInv' /\ HereInv'
      <4>1. SyncInv /\ SharedInv
        BY <1>0, <3>1 DEF CacheInv
      <4>2. SyncInv' /\ ForceInv' /\ HereInv'
        BY <2>1, <2>2, <2>5, <4>1 DEF SyncInv, ForceInv, HereInv, CachedOrder
      <4>3. SharedInv'
        BY <2>2, <2>6, <4>1 DEF SharedInv, Places
      <4>4. /\ session.order = CachedOrder /\ session.o.args = cache.args
            /\ \A i \in 1 .. Len(session.order) :
                 Good(session.order, i, session.o.args, session.o.install, session.o.merge,
                      dir, products, env)
        BY <2>1, <2>3, <3>1, GoodBefore
      <4>5. ASSUME NEW i \in 1 .. Len(session.order)
            PROVE  EnvGood(session.order, i, session.o.install, session.o.merge, env')
        <5>1. EnvGood(session.order, i, session.o.install, session.o.merge, env)
          BY <4>4, <4>5 DEF Good
        <5>2. CASE env' = env
          BY <5>1, <5>2
        <5>3. CASE WritesRelay
          <6>1. session.order[i] \in Packages /\ ~session.o.merge
            BY <2>3, <5>3 DEF WritesRelay
          <6>2. PlaceOf(session.order[i], session.o.install, session.o.merge) \in Places \ {"devel"}
            BY <6>1 DEF PlaceOf, Places
          <6> QED BY <2>6, <5>1, <6>2 DEF EnvGood
        <5>4. CASE session.order = <<>>
          BY <5>4
        <5> QED BY <2>6, <5>2, <5>3, <5>4
      <4>6. GoodUpTo' = Len(session.order) /\ CachedOrder' = session.order
            /\ cache'.args = session.o.args
        BY <2>1, <2>5, <4>4 DEF GoodUpTo, CachedOrder
      <4>7. GoodInv'
        BY <2>1, <2>2, <4>4, <4>5, <4>6 DEF GoodInv, Good
      <4> QED BY <4>2, <4>3, <4>7
    <3> QED BY <2>2, <3>1 DEF CacheInv
  <2>11. TopLevelUsable'
    <3>1. SUFFICES ASSUME ~session.o.install, ~session.o.merge, session.order # <<>>,
                          session.o.continue \/ session.o.build = {}
                   PROVE  top' = Last(session.order) /\ env'[top'] # NoEnv
      BY <2>2 DEF TopLevelUsable
    <3>2. session.build = {}
      <4>1. ASSUME session.build # {} PROVE FALSE
        <5>1. /\ session.o.continue /\ session.build = session.o.build
              /\ \A i \in 1 .. session.at - 1 : session.order[i] \notin session.o.build
          BY <1>0, <2>1, <3>1, <4>1 DEF RelayInv
        <5>2. session.order = Order[Considered] /\ session.o.build \subseteq Considered
              /\ Considered \subseteq Packages
          BY <1>0, <2>1 DEF LoopInv, Refused, Considered, TypeInv
        <5>3. PICK p \in Considered : p \in session.o.build
          BY <4>1, <5>1, <5>2
        <5>4. {session.order[i] : i \in DOMAIN session.order} = Considered
          BY <5>2
        <5>5. PICK i \in DOMAIN session.order : p = session.order[i]
          BY <5>3, <5>4
        <5>6. i \in 1 .. session.at - 1
          BY <2>3, <5>5
        <5> QED BY <5>1, <5>3, <5>5, <5>6
      <4> QED BY <4>1
    <3>3. WritesRelay /\ ~WritesEmpty
      BY <3>1, <3>2 DEF WritesRelay, WritesEmpty
    <3>4. top' = Last(session.order)
      BY <1>2, <3>3
    <3>5. env[session.order[session.at - 1]] # NoEnv
      BY <1>0, <2>1, <2>4, <3>1, <3>2 DEF RelayInv
    <3>6. Last(session.order) \in Places /\ Last(session.order) # "devel"
      BY <2>4, <3>1 DEF Places
    <3> QED BY <2>4, <2>6, <3>1, <3>4, <3>5, <3>6
  <2> QED BY <2>7, <2>8, <2>9, <2>10, <2>11 DEF Inv
<1> QED BY <1>1, <1>2 DEF Finish

-----------------------------------------------------------------------------
(* The invariant                                                           *)

LEMMA StutterStep == Inv /\ UNCHANGED vars => Inv'
<1> SUFFICES ASSUME Inv, UNCHANGED vars PROVE Inv'
  OBVIOUS
<1>0. /\ TypeInv /\ MarkInv /\ LoopInv /\ HalfInv /\ DiskInv
      /\ CacheInv /\ RelayInv /\ TopLevelUsable
  BY DEF Inv
<1>1. UNCHANGED <<InLoop, Package, BuildDir, CachedOrder, GoodUpTo, Considered, Refused, EnvUsable>>
  BY DEF vars, InLoop, Package, BuildDir, BuildDirOf, CachedOrder, GoodUpTo, Considered,
         Refused, EnvUsable
<1>a. TypeInv'
  BY <1>0, <1>1 DEF vars, TypeInv
<1>b. MarkInv'
  BY <1>0, <1>1 DEF vars, MarkInv
<1>c. LoopInv'
  BY <1>0, <1>1 DEF vars, LoopInv
<1>2. HalfInv'
  BY <1>0, <1>1 DEF vars, HalfInv
<1>3. DiskInv' /\ RelayInv' /\ TopLevelUsable'
  BY <1>0, <1>1 DEF vars, DiskInv, RelayInv, TopLevelUsable
<1>4. CacheInv'
  <2>1. ASSUME safe PROVE SyncInv' /\ GoodInv' /\ SharedInv' /\ ForceInv' /\ HereInv'
    <3>1. SyncInv /\ GoodInv /\ SharedInv /\ ForceInv /\ HereInv
      BY <1>0, <2>1 DEF CacheInv
    <3>2. SyncInv' /\ SharedInv' /\ ForceInv' /\ HereInv'
      BY <1>1, <3>1 DEF vars, SyncInv, SharedInv, ForceInv, HereInv
    <3>3. GoodInv'
      BY <1>1, <3>1 DEF vars, GoodInv
    <3> QED BY <3>2, <3>3
  <2> QED BY <2>1 DEF CacheInv, vars
<1> QED BY <1>a, <1>b, <1>c, <1>2, <1>3, <1>4 DEF Inv

LEMMA NextStep == Inv /\ [Next]_vars => Inv'
<1> SUFFICES ASSUME Inv, [Next]_vars PROVE Inv'
  OBVIOUS
<1>1. CASE UNCHANGED vars
  BY <1>1, StutterStep
<1>2. CASE EditSources \/ OtherTool \/ \E o \in Options : Begin(o)
  BY <1>2, EditSourcesStep, OtherToolStep, BeginStep
<1>3. CASE CheckBuildSpace \/ CheckDevelSpace \/ Plan
  BY <1>3, CheckSpaceStep, PlanStep DEF CheckBuildSpace, CheckDevelSpace
<1>4. CASE Skip \/ Process
  BY <1>4, SkipStep, ProcessStep
<1>5. CASE CMakeCatkin \/ CMakePlain \/ CMakeFails \/ CheckBuildSystem
  BY <1>5, CMakeCatkinStep, CMakePlainStep, CMakeFailsStep, CheckBuildSystemStep
<1>6. CASE CheckFails \/ MakeFails \/ InstallFails \/ Killed \/ KilledInCMake
  BY <1>6, FailureSteps, KilledInCMakeStep
<1>7. CASE Make \/ Install
  BY <1>7, MakeStep, InstallStep
<1>8. CASE FinishCatkin \/ FinishPlain \/ Finish
  BY <1>8, FinishCatkinStep, FinishPlainStep, FinishStep
<1> QED BY <1>1, <1>2, <1>3, <1>4, <1>5, <1>6, <1>7, <1>8 DEF Next

LEMMA Invariance == Spec => []Inv
<1> QED BY InitInv, NextStep, PTL DEF Spec

-----------------------------------------------------------------------------
(* A session that calls cmake for all packages, whatever the disk holds    *)

Forced == session.force /\ session.o.build = {}

\* The packages such a session has configured.
ForcedUpTo ==
  IF session.pc = "idle" THEN Len(session.order)
  ELSE IF session.pc \in {"make", "install", "envsh"} THEN session.at ELSE session.at - 1

AsAsked(q, i, o, d) ==
  /\ d.makefile /\ d.half = "no" /\ d.args = o.args
  /\ ~o.install => d.path = PathAt(q, i, o.install, o.merge)

\* They are configured as asked, and each has its environment when the next is built.
ForcedInv ==
  /\ session.pc = "check" => ~session.force
  /\ Forced /\ (InLoop \/ (session.pc = "idle" /\ session.ok)) =>
       \A i \in 1 .. ForcedUpTo :
         AsAsked(session.order, i, session.o, dir[DirOf(session.order[i], session.o.install)])
  /\ Forced /\ InLoop /\ ~session.o.install =>
       \A i \in 1 .. ForcedUpTo : i < session.at \/ BuildType[session.order[i]] = "catkin" =>
         EnvGood(session.order, i, session.o.install, session.o.merge, env)

\* The path of a package is made of what the packages before it left.
LEMMA ForcedPath ==
  ASSUME Inv, ForcedInv, Forced, InLoop, session.at <= Len(session.order), ~session.o.install
  PROVE  PathOf(session.lastEnv) = PathAt(session.order, session.at, session.o.install, session.o.merge)
<1>1. /\ session.at \in 1 .. Len(session.order) /\ Len(session.order) \in Nat
      /\ session.o.install \in BOOLEAN /\ session.o.merge \in BOOLEAN
      /\ \A i \in 1 .. Len(session.order) : session.order[i] # "none"
  BY Here
<1>2. session.lastEnv = IF session.at = 1 THEN "none"
        ELSE PlaceOf(session.order[session.at - 1], session.o.install, session.o.merge)
  BY DEF Inv, LoopInv, PlaceOf
<1>3. CASE session.at = 1
  BY <1>2, <1>3 DEF PathOf, PathAt
<1>4. CASE session.at # 1
  <2> DEFINE j == session.at - 1
  <2>1. j \in 1 .. session.at - 1 /\ j \in 1 .. Len(session.order) /\ j + 1 = session.at /\ j < session.at
    BY <1>1, <1>4
  <2>2. session.lastEnv = PlaceOf(session.order[j], session.o.install, session.o.merge)
    BY <1>2, <1>4
  <2>3. session.lastEnv # "none"
    BY <1>1, <2>1, <2>2 DEF PlaceOf
  <2>4. j \in 1 .. ForcedUpTo
    <3>1. ForcedUpTo \in {session.at, session.at - 1}
      BY DEF ForcedUpTo, InLoop
    <3> QED BY <1>1, <2>1, <3>1
  <2>5. EnvGood(session.order, j, session.o.install, session.o.merge, env)
    BY <2>1, <2>4 DEF ForcedInv
  <2> HIDE DEF j
  <2> QED BY <2>1, <2>2, <2>3, <2>5 DEF EnvGood, PathOf
<1> QED BY <1>3, <1>4

\* cmake of the package at hand went through.
LEMMA ForcedCMake ==
  ASSUME Inv, ForcedInv, Inv', session.pc = "cmake", EnvUsable, NEW l \in Places,
         session' = [session EXCEPT !.pc = "make"],
         dir' = [dir EXCEPT ![BuildDir] = Configured(l)],
         ~session.o.install =>
           /\ \A i \in 1 .. Len(session.order) :
                EnvGood(session.order, i, session.o.install, session.o.merge, env)
                  => EnvGood(session.order, i, session.o.install, session.o.merge, env')
           /\ Forced /\ BuildType[Package] = "catkin" =>
                EnvGood(session.order, session.at, session.o.install, session.o.merge, env')
  PROVE  ForcedInv'
<1>0. TypeInv
  BY DEF Inv
<1>1. InLoop /\ session.at <= Len(session.order)
  BY <1>0 DEF InLoop, TypeInv
<1>2. /\ session'.pc = "make" /\ SameSession /\ session'.at = session.at
      /\ session'.force = session.force
  BY <1>0, PcEffect
<1>3. /\ session.at \in 1 .. Len(session.order) /\ Len(session.order) \in Nat
      /\ Package = session.order[session.at] /\ BuildDir \in Dirs
      /\ BuildDir = DirOf(Package, session.o.install) /\ session.o.install \in BOOLEAN
      /\ \A i \in 1 .. Len(session.order) :
           session.order[i] \in Packages /\ (i # session.at => session.order[i] # Package)
  BY <1>1, Here
<1>4. ForcedUpTo = session.at - 1 /\ ForcedUpTo' = session.at
  BY <1>2 DEF ForcedUpTo
<1>5. SUFFICES ASSUME Forced
               PROVE  /\ \A i \in 1 .. session.at :
                           AsAsked(session.order, i, session.o,
                                   dir'[DirOf(session.order[i], session.o.install)])
                      /\ ~session.o.install => \A i \in 1 .. session.at :
                           i < session.at \/ BuildType[session.order[i]] = "catkin" =>
                             EnvGood(session.order, i, session.o.install, session.o.merge, env')
  BY <1>2, <1>4 DEF ForcedInv, Forced, SameSession
<1>6. /\ \A i \in 1 .. session.at - 1 :
           AsAsked(session.order, i, session.o, dir[DirOf(session.order[i], session.o.install)])
      /\ ~session.o.install => \A i \in 1 .. session.at - 1 :
           EnvGood(session.order, i, session.o.install, session.o.merge, env)
  <2>1. \A i \in 1 .. session.at - 1 : i < session.at
    BY <1>3
  <2> QED BY <1>1, <1>4, <1>5, <2>1 DEF ForcedInv
<1>7. dir \in [Dirs -> DirState]
  BY <1>0 DEF TypeInv
<1>8. ASSUME NEW i \in 1 .. session.at
      PROVE  AsAsked(session.order, i, session.o, dir'[DirOf(session.order[i], session.o.install)])
  <2>1. CASE i = session.at
    <3>1. dir'[BuildDir] = Configured(l)
      BY <1>3, <1>7
    <3>2. /\ Configured(l).makefile /\ Configured(l).half = "no"
          /\ Configured(l).args = session.o.args /\ Configured(l).path = PathOf(session.lastEnv)
      BY ConfiguredType
    <3>3. ~session.o.install =>
            PathOf(session.lastEnv) = PathAt(session.order, session.at, session.o.install, session.o.merge)
      BY <1>1, <1>5, ForcedPath
    <3> QED BY <1>3, <2>1, <3>1, <3>2, <3>3 DEF AsAsked
  <2>2. CASE i # session.at
    <3>1. i \in 1 .. session.at - 1 /\ i \in 1 .. Len(session.order)
      BY <1>3, <2>2
    <3>2. /\ DirOf(session.order[i], session.o.install) # BuildDir
          /\ DirOf(session.order[i], session.o.install) \in Dirs
      BY <1>3, <2>2, <3>1, OtherDir, DirType
    <3>3. dir'[DirOf(session.order[i], session.o.install)] = dir[DirOf(session.order[i], session.o.install)]
      BY <1>7, <3>2
    <3> QED BY <1>6, <3>1, <3>3
  <2> QED BY <2>1, <2>2
<1>9. ASSUME ~session.o.install, NEW i \in 1 .. session.at,
             i < session.at \/ BuildType[session.order[i]] = "catkin"
      PROVE  EnvGood(session.order, i, session.o.install, session.o.merge, env')
  <2>1. CASE i = session.at
    BY <1>3, <1>5, <1>9, <2>1
  <2>2. CASE i # session.at
    <3>1. i \in 1 .. session.at - 1 /\ i \in 1 .. Len(session.order)
      BY <1>3, <2>2
    <3> QED BY <1>6, <1>9, <3>1
  <2> QED BY <2>1, <2>2
<1> QED BY <1>8, <1>9

LEMMA ForcedCMakeCatkin == Inv /\ Inv' /\ ForcedInv /\ CMakeCatkin => ForcedInv'
<1> SUFFICES ASSUME Inv, Inv', ForcedInv, CMakeCatkin PROVE ForcedInv'
  OBVIOUS
<1>1. /\ session.pc = "cmake" /\ EnvUsable /\ BuildType[Package] = "catkin"
      /\ session' = [session EXCEPT !.pc = "make"]
      /\ dir' = [dir EXCEPT ![BuildDir] = Configured(PkgDevelspace)]
      /\ env' = [env EXCEPT ![PkgDevelspace] = {PkgDevelspace} \cup PathOf(session.lastEnv)]
  BY DEF CMakeCatkin, WritesEnv
<1>2. InLoop /\ session.at <= Len(session.order)
  BY <1>1 DEF InLoop, Inv, TypeInv
<1>3. PkgDevelspace \in Places
  BY <1>2, Here
<1>4. CASE ~Forced
  BY <1>1, <1>4, PcEffect DEF Inv, ForcedInv, Forced, SameSession
<1>5. CASE Forced
  <2>1. ASSUME ~session.o.install
        PROVE  /\ \A i \in 1 .. Len(session.order) :
                    EnvGood(session.order, i, session.o.install, session.o.merge, env)
                      => EnvGood(session.order, i, session.o.install, session.o.merge, env')
               /\ EnvGood(session.order, session.at, session.o.install, session.o.merge, env')
    <3>1. PathOf(session.lastEnv)
            = PathAt(session.order, session.at, session.o.install, session.o.merge)
      BY <1>2, <1>5, <2>1, ForcedPath
    <3>2. env' = [env EXCEPT ![PkgDevelspace] =
                    {PkgDevelspace} \cup PathAt(session.order, session.at,
                                                session.o.install, session.o.merge)]
      BY <1>1, <3>1
    <3> QED BY <1>2, <2>1, <3>2, EnvDevel
  <2> QED BY <1>1, <1>3, <2>1, ForcedCMake
<1> QED BY <1>4, <1>5

LEMMA ForcedCMakePlain == Inv /\ Inv' /\ ForcedInv /\ CMakePlain => ForcedInv'
<1> SUFFICES ASSUME Inv, Inv', ForcedInv, CMakePlain PROVE ForcedInv'
  OBVIOUS
<1>1. /\ session.pc = "cmake" /\ EnvUsable /\ BuildType[Package] = "cmake"
      /\ session' = [session EXCEPT !.pc = "make"]
      /\ dir' = [dir EXCEPT ![BuildDir] = Configured(NewEnv)] /\ env' = env
  BY DEF CMakePlain
<1>2. InLoop /\ session.at <= Len(session.order)
  BY <1>1 DEF InLoop, Inv, TypeInv
<1>3. NewEnv \in Places
  BY <1>2, Here
<1> QED BY <1>1, <1>3, ForcedCMake

\* make and make install leave the directories alone, and without --install the environments.
LEMMA ForcedStay ==
  ASSUME Inv, ForcedInv, session.pc \in {"make", "install"}, NEW c \in {"install", "envsh"},
         session' = [session EXCEPT !.pc = c], dir' = dir, ~session.o.install => env' = env
  PROVE  ForcedInv'
<1>1. /\ session'.pc = c /\ SameSession /\ session'.at = session.at
      /\ session'.force = session.force
  BY PcEffect DEF Inv
<1>2. InLoop /\ InLoop' /\ ForcedUpTo' = session.at /\ ForcedUpTo = session.at
  BY <1>1 DEF InLoop, ForcedUpTo
<1> QED BY <1>1, <1>2 DEF ForcedInv, Forced, SameSession

LEMMA ForcedMakeInstall == Inv /\ ForcedInv /\ (Make \/ Install) => ForcedInv'
<1> SUFFICES ASSUME Inv, ForcedInv, Make \/ Install PROVE ForcedInv'
  OBVIOUS
<1>1. CASE Make
  <2> DEFINE c == IF BuildType[Package] = "cmake" \/ session.o.install THEN "install" ELSE "envsh"
  <2>1. session.pc = "make" /\ session' = [session EXCEPT !.pc = c] /\ dir' = dir /\ env' = env
    BY <1>1 DEF Make
  <2>2. c \in {"install", "envsh"}
    OBVIOUS
  <2> HIDE DEF c
  <2> QED BY <2>1, <2>2, ForcedStay
<1>2. CASE Install
  <2>1. session.pc = "install" /\ session' = [session EXCEPT !.pc = "envsh"] /\ dir' = dir
    BY <1>2 DEF Install
  <2>2. InLoop /\ session.at <= Len(session.order) /\ LoopInv
    BY <2>1 DEF InLoop, Inv, TypeInv
  <2>3. ~session.o.install => BuildType[Package] # "catkin"
    BY <2>1, <2>2, Here DEF LoopInv
  <2>4. ~session.o.install => env' = env
    BY <1>2, <2>3 DEF Install
  <2> QED BY <2>1, <2>4, ForcedStay
<1> QED BY <1>1, <1>2

\* A package is done, with its environment in place.
LEMMA ForcedDone ==
  ASSUME Inv, ForcedInv, session.pc = "envsh", Done, dir' = dir,
         Forced /\ ~session.o.install =>
           /\ \A i \in 1 .. Len(session.order) :
                EnvGood(session.order, i, session.o.install, session.o.merge, env)
                  => EnvGood(session.order, i, session.o.install, session.o.merge, env')
           /\ EnvGood(session.order, session.at, session.o.install, session.o.merge, env')
  PROVE  ForcedInv'
<1>0. TypeInv /\ InLoop /\ session.at <= Len(session.order)
  BY DEF Inv, InLoop, TypeInv
<1>1. /\ session'.pc = "next" /\ SameSession /\ session'.at = session.at + 1
      /\ session'.force = session.force
  BY <1>0, DoneEffect
<1>2. session.at \in 1 .. Len(session.order) /\ Len(session.order) \in Nat
  BY <1>0, Here
<1>3. InLoop' /\ ForcedUpTo = session.at /\ ForcedUpTo' = session.at
  BY <1>1, <1>2 DEF InLoop, ForcedUpTo
<1>4. ASSUME Forced, ~session.o.install, NEW i \in 1 .. session.at
      PROVE  EnvGood(session.order, i, session.o.install, session.o.merge, env')
  <2>1. CASE i = session.at
    BY <1>4, <2>1
  <2>2. CASE i # session.at
    <3>1. i \in 1 .. ForcedUpTo /\ i < session.at /\ i \in 1 .. Len(session.order)
      BY <1>2, <1>3, <2>2
    <3>2. EnvGood(session.order, i, session.o.install, session.o.merge, env)
      BY <1>0, <1>4, <3>1 DEF ForcedInv
    <3> QED BY <1>4, <3>1, <3>2
  <2> QED BY <2>1, <2>2
<1>5. Forced => \A i \in 1 .. session.at :
        AsAsked(session.order, i, session.o, dir'[DirOf(session.order[i], session.o.install)])
  BY <1>0, <1>3 DEF ForcedInv
<1> QED BY <1>1, <1>3, <1>4, <1>5 DEF ForcedInv, Forced, SameSession

LEMMA ForcedFinishPackage == Inv /\ ForcedInv /\ (FinishCatkin \/ FinishPlain) => ForcedInv'
<1> SUFFICES ASSUME Inv, ForcedInv, FinishCatkin \/ FinishPlain PROVE ForcedInv'
  OBVIOUS
<1>0. session.pc = "envsh" /\ dir' = dir
  BY DEF FinishCatkin, FinishPlain, disk
<1>1. InLoop /\ session.at <= Len(session.order) /\ LoopInv
  BY <1>0 DEF InLoop, Inv, TypeInv
<1>2. /\ session.at \in 1 .. Len(session.order) /\ Package = session.order[session.at]
      /\ Len(session.order) \in Nat /\ Package \in Packages
      /\ session.o.install \in BOOLEAN /\ session.o.merge \in BOOLEAN
      /\ NewEnv = PlaceOf(Package, session.o.install, session.o.merge) /\ NewEnv \in Places
      /\ \A i \in 1 .. Len(session.order) : i # session.at => session.order[i] # Package
  BY <1>1, Here
<1>3. CASE FinishCatkin /\ End(FALSE)
  BY <1>3, EndEffect DEF Inv, ForcedInv, InLoop
<1>4. CASE FinishCatkin /\ Done
  <2>1. env' = env /\ BuildType[Package] = "catkin"
    BY <1>4 DEF FinishCatkin, disk
  <2>2. session.at \in 1 .. ForcedUpTo
    BY <1>0, <1>2 DEF ForcedUpTo
  <2>3. Forced /\ ~session.o.install =>
          EnvGood(session.order, session.at, session.o.install, session.o.merge, env)
    BY <1>1, <1>2, <2>1, <2>2 DEF ForcedInv
  <2> QED BY <1>0, <1>4, <2>1, <2>3, ForcedDone
<1>5. CASE FinishPlain
  <2> DEFINE path == PathOf(session.lastEnv)
  <2>1. /\ Done
        /\ ~session.o.install => env' = IF NewEnv = session.lastEnv THEN env
                                        ELSE [env EXCEPT ![NewEnv] = {NewEnv} \cup path]
    BY <1>5 DEF FinishPlain
  <2>2. ASSUME Forced, ~session.o.install
        PROVE  /\ \A i \in 1 .. Len(session.order) :
                    EnvGood(session.order, i, session.o.install, session.o.merge, env)
                      => EnvGood(session.order, i, session.o.install, session.o.merge, env')
               /\ EnvGood(session.order, session.at, session.o.install, session.o.merge, env')
    <3>1. path = PathAt(session.order, session.at, session.o.install, session.o.merge)
      BY <1>1, <2>2, ForcedPath
    <3>2. CASE NewEnv = session.lastEnv
      <4>1. session.at # 1 /\ session.o.merge
        <5>1. ASSUME session.at = 1 PROVE FALSE
          <6>1. session.lastEnv = "none"
            BY <1>1, <5>1 DEF LoopInv
          <6> QED BY <1>2, <3>2, <6>1 DEF Places
        <5>2. ASSUME session.at # 1, ~session.o.merge PROVE FALSE
          <6>1. session.lastEnv = session.order[session.at - 1] /\ NewEnv = Package
            BY <1>1, <1>2, <2>2, <5>2 DEF LoopInv, PlaceOf
          <6>2. session.at - 1 \in 1 .. Len(session.order) /\ session.at - 1 # session.at
            BY <1>2, <5>2
          <6> QED BY <1>2, <3>2, <6>1, <6>2
        <5> QED BY <1>2, <5>1, <5>2
      <4>2. env[NewEnv] = path
        <5>1. NewEnv # "none"
          BY <1>2 DEF Places
        <5> QED BY <3>2, <5>1 DEF PathOf
      <4>3. session.at + 1 # 1
        BY <1>2
      <4>4. PathAt(session.order, session.at, session.o.install, session.o.merge)
              = PathAt(session.order, session.at + 1, session.o.install, session.o.merge)
        BY <2>2, <4>1, <4>3 DEF PathAt
      <4>5. EnvGood(session.order, session.at, session.o.install, session.o.merge, env)
        BY <1>2, <3>1, <4>2, <4>4 DEF EnvGood
      <4> QED BY <2>1, <2>2, <3>2, <4>5
    <3>3. CASE NewEnv # session.lastEnv
      <4>1. {NewEnv} \cup path = PathAt(session.order, session.at + 1,
                                        session.o.install, session.o.merge)
        <5> DEFINE q == session.order
                   n == session.at
                   ins == session.o.install
                   mer == session.o.merge
        <5>1. n \in Nat \ {0} /\ ins \in BOOLEAN /\ mer \in BOOLEAN
              /\ NewEnv = PlaceOf(q[n], ins, mer) /\ path = PathAt(q, n, ins, mer)
          BY <1>2, <3>1
        <5> HIDE DEF q, n, ins, mer, path
        <5>2. {NewEnv} \cup path = PathAt(q, n + 1, ins, mer)
          BY <5>1, PathNext
        <5> QED BY <5>2 DEF q, n, ins, mer
      <4>2. env' = [env EXCEPT ![NewEnv] = PathAt(session.order, session.at + 1,
                                                  session.o.install, session.o.merge)]
        BY <2>1, <2>2, <3>3, <4>1
      <4> QED BY <1>1, <4>2, EnvWrite
    <3> QED BY <3>2, <3>3
  <2> QED BY <1>0, <2>1, <2>2, ForcedDone
<1> QED BY <1>3, <1>4, <1>5 DEF FinishCatkin

\* The last package is past.
LEMMA ForcedFinish == Inv /\ ForcedInv /\ Finish => ForcedInv'
<1> SUFFICES ASSUME Inv, ForcedInv, Finish PROVE ForcedInv'
  OBVIOUS
<1>1. session.pc = "next" /\ InLoop /\ session.at > Len(session.order) /\ dir' = dir
  BY DEF Finish, InLoop
<1>2. PICK ok \in BOOLEAN : End(ok)
  BY DEF Finish
<1>3. /\ session'.pc = "idle" /\ session'.ok = ok /\ session'.o = session.o
      /\ session'.order = session.order /\ session'.at = session.at
      /\ session'.force = session.force
  BY <1>2, EndEffect DEF Inv
<1>4. /\ session.at \in Nat /\ session.at <= Len(session.order) + 1
      /\ session.order \in Seq(Packages)
  BY DEF Inv, TypeInv, SessionState
<1>5. ForcedUpTo = Len(session.order) /\ ForcedUpTo' = Len(session.order) /\ ~InLoop'
  BY <1>1, <1>3, <1>4 DEF ForcedUpTo, InLoop
<1> QED BY <1>1, <1>3, <1>5 DEF ForcedInv, Forced

\* The steps that leave a session with nothing to say: before the loop, ended, or not forced.
LEMMA ForcedEnd == ASSUME Inv, End(FALSE) PROVE ForcedInv'
BY EndEffect DEF Inv, ForcedInv, InLoop

LEMMA ForcedOutside ==
  Inv /\ ForcedInv /\ (EditSources \/ OtherTool \/ (\E o \in Options : Begin(o))
                       \/ CheckBuildSpace \/ CheckDevelSpace \/ Plan) => ForcedInv'
<1> SUFFICES ASSUME Inv, ForcedInv,
                    EditSources \/ OtherTool \/ (\E o \in Options : Begin(o))
                      \/ CheckBuildSpace \/ CheckDevelSpace \/ Plan
             PROVE  ForcedInv'
  OBVIOUS
<1>0. TypeInv
  BY DEF Inv
<1>1. CASE EditSources \/ OtherTool
  <2>1. session.pc = "idle" /\ UNCHANGED <<session, dir, env>>
    BY <1>1 DEF EditSources, OtherTool
  <2> QED BY <2>1 DEF ForcedInv, Forced, ForcedUpTo, InLoop
<1>2. ASSUME NEW o \in Options, Begin(o) PROVE ForcedInv'
  BY <1>0, <1>2, BeginEffect DEF ForcedInv, InLoop
<1>3. ASSUME NEW x, NEW c, NEW n \in {"devel space", "plan"}, CheckSpace(x, c, n) PROVE ForcedInv'
  <2>1. CASE End(FALSE)
    BY <2>1, ForcedEnd
  <2>2. CASE session' = [session EXCEPT !.pc = n]
    <3>1. session'.pc = n
      BY <1>0, <2>2 DEF TypeInv, SessionState
    <3> QED BY <3>1 DEF ForcedInv, InLoop
  <2> QED BY <1>3, <2>1, <2>2 DEF CheckSpace
<1>4. CASE Plan
  <2>1. CASE End(FALSE)
    BY <2>1, ForcedEnd
  <2>2. CASE ~Refused
    <3>1. session'.pc = "next" /\ session'.at = 1
      BY <1>0, <1>4, <2>2, PlanEffect
    <3>2. ForcedUpTo' = 0
      BY <3>1 DEF ForcedUpTo
    <3> QED BY <3>1, <3>2 DEF ForcedInv
  <2> QED BY <1>4, <2>1, <2>2 DEF Plan
<1> QED BY <1>1, <1>2, <1>3, <1>4 DEF CheckBuildSpace, CheckDevelSpace

LEMMA ForcedSkip == Inv /\ ForcedInv /\ Skip => ForcedInv'
<1> SUFFICES ASSUME Inv, ForcedInv, Skip PROVE ForcedInv'
  OBVIOUS
<1>1. /\ session.pc = "next" /\ InLoop /\ session.at <= Len(session.order) /\ TypeInv
      /\ session.build # {} /\ session' = [session EXCEPT !.at = @ + 1, !.lastEnv = NewEnv]
  BY DEF Skip, MorePackages, Wanted, InLoop, Inv
<1>2. session'.pc = "next" /\ session'.o = session.o
  BY <1>1, DoneEffect DEF SameSession
<1>3. session.o.build # {}
  BY <1>1 DEF Inv, RelayInv
<1> QED BY <1>2, <1>3 DEF ForcedInv, Forced

LEMMA ForcedProcess == Inv /\ ForcedInv /\ Process => ForcedInv'
<1> SUFFICES ASSUME Inv, ForcedInv, Process PROVE ForcedInv'
  OBVIOUS
<1>1. CASE End(FALSE)
  BY <1>1, ForcedEnd
<1> DEFINE c == IF CallsCMake(dir[BuildDir].makefile) THEN "cmake" ELSE "check"
           b == IF session.o.continue THEN {} ELSE session.build
<1>2. CASE session' = [session EXCEPT !.build = b, !.pc = c]
  <2>1. session \in SessionState /\ session.pc = "next" /\ dir' = dir /\ env' = env
    BY DEF Process, MorePackages, Inv, TypeInv, disk
  <2> HIDE DEF b
  <2>2. /\ session'.pc = c /\ session'.o = session.o /\ session'.order = session.order
        /\ session'.at = session.at /\ session'.force = session.force
    BY <1>2, <2>1 DEF SessionState
  <2>3. c \in {"cmake", "check"} /\ (c = "check" => ~session.force)
    BY DEF CallsCMake
  <2> HIDE DEF c
  <2>4. InLoop /\ InLoop' /\ ForcedUpTo = session.at - 1 /\ ForcedUpTo' = session.at - 1
    BY <2>1, <2>2, <2>3 DEF InLoop, ForcedUpTo
  <2> QED BY <2>1, <2>2, <2>3, <2>4 DEF ForcedInv, Forced
<1> QED BY <1>1, <1>2 DEF Process

LEMMA ForcedCheck == Inv /\ ForcedInv /\ CheckBuildSystem => ForcedInv'
<1> SUFFICES ASSUME Inv, ForcedInv, CheckBuildSystem PROVE ForcedInv'
  OBVIOUS
<1>1. session.pc = "check" /\ session' = [session EXCEPT !.pc = "make"] /\ ~session.force
  BY DEF CheckBuildSystem, ForcedInv
<1>2. session'.pc = "make" /\ session'.force = session.force
  BY <1>1, PcEffect DEF Inv
<1> QED BY <1>1, <1>2 DEF ForcedInv, Forced

LEMMA ForcedStep == Inv /\ Inv' /\ ForcedInv /\ [Next]_vars => ForcedInv'
<1> SUFFICES ASSUME Inv, Inv', ForcedInv, [Next]_vars PROVE ForcedInv'
  OBVIOUS
<1>1. CASE UNCHANGED vars
  BY <1>1 DEF vars, ForcedInv, Forced, ForcedUpTo, InLoop
<1>2. CASE EditSources \/ OtherTool \/ (\E o \in Options : Begin(o))
           \/ CheckBuildSpace \/ CheckDevelSpace \/ Plan
  BY <1>2, ForcedOutside
<1>3. CASE Skip \/ Process \/ CMakeCatkin \/ CMakePlain \/ CheckBuildSystem
  BY <1>3, ForcedSkip, ForcedProcess, ForcedCMakeCatkin, ForcedCMakePlain, ForcedCheck
<1>4. CASE CMakeFails \/ CheckFails \/ MakeFails \/ InstallFails \/ Killed \/ KilledInCMake
  BY <1>4, ForcedEnd DEF CMakeFails, CheckFails, MakeFails, InstallFails, CommandFails,
                         Killed, KilledInCMake
<1>5. CASE Make \/ Install \/ FinishCatkin \/ FinishPlain \/ Finish
  BY <1>5, ForcedMakeInstall, ForcedFinishPackage, ForcedFinish
<1> QED BY <1>1, <1>2, <1>3, <1>4, <1>5 DEF Next

LEMMA ForcedInvariance == Spec => []ForcedInv
<1>1. Init => ForcedInv
  BY DEF Init, Idle, ForcedInv, InLoop
<1> QED BY <1>1, ForcedStep, Invariance, PTL DEF Spec

-----------------------------------------------------------------------------
(* The theorems                                                            *)

\* What the two invariants say of a session that has gone through.
LEMMA ConfiguredFromInv == Inv /\ ForcedInv => ConfiguredAsAsked
<1> SUFFICES ASSUME Inv, ForcedInv, session.pc = "idle", session.ok,
                    NEW i \in 1 .. Len(session.order)
             PROVE  LET d == dir[BuildDirOf(session.order[i], session.o)]
                    IN  /\ safe \/ Forced => d.makefile /\ d.half = "no" /\ d.args = session.o.args
                        /\ safe \/ (Forced /\ ~session.o.install) => d.path = PathAsked(i)
  BY DEF ConfiguredAsAsked, Forced
<1>1. BuildDirOf(session.order[i], session.o) = DirOf(session.order[i], session.o.install)
  BY DEF BuildDirOf, DirOf
<1>2. PathAsked(i) = PathAt(session.order, i, session.o.install, session.o.merge)
  BY DEF PathAsked, PathAt
<1> DEFINE d == dir[DirOf(session.order[i], session.o.install)]
<1>3. ASSUME safe
      PROVE  /\ d.makefile /\ d.half = "no" /\ d.args = session.o.args
             /\ d.path = PathAt(session.order, i, session.o.install, session.o.merge)
  <2>1. SyncInv /\ GoodInv /\ ~InLoop
    BY <1>3 DEF Inv, CacheInv, InLoop
  <2>2. session.order = CachedOrder /\ session.o.args = cache.args
    BY <2>1 DEF SyncInv
  <2>3. GoodUpTo = Len(session.order)
    BY <2>1, <2>2 DEF GoodUpTo
  <2>4. Good(session.order, i, session.o.args, session.o.install, session.o.merge,
             dir, products, env)
    BY <2>1, <2>2, <2>3 DEF GoodInv
  <2> QED BY <2>4 DEF Good, ConfiguredGood
<1>4. ASSUME Forced
      PROVE  /\ d.makefile /\ d.half = "no" /\ d.args = session.o.args
             /\ ~session.o.install =>
                  d.path = PathAt(session.order, i, session.o.install, session.o.merge)
  <2>1. AsAsked(session.order, i, session.o, d)
    BY <1>4 DEF ForcedInv, ForcedUpTo
  <2> QED BY <2>1 DEF AsAsked
<1> HIDE DEF d
<1> QED BY <1>1, <1>2, <1>3, <1>4 DEF d

LEMMA TypeFromInv == Inv => TypeOK
<1> SUFFICES ASSUME Inv PROVE TypeOK
  OBVIOUS
<1>1. TypeInv
  BY DEF Inv
<1>2. /\ \A d \in Dirs : dir[d].prefix \in Places /\ dir[d].path \subseteq Places
      /\ \A l \in Places : env[l] = NoEnv \/ env[l] \subseteq Places
      /\ cache.packages \subseteq Packages
  BY <1>1 DEF TypeInv, DirState
<1>3. session.at \in 0 .. Len(session.order) + 1
  <2>1. session.at \in Nat /\ session.order \in Seq(Packages)
        /\ session.at <= Len(session.order) + 1
    BY <1>1 DEF TypeInv, SessionState
  <2> QED BY <2>1
<1> QED BY <1>1, <1>2, <1>3 DEF TypeOK, TypeInv

\* For any packages, command lines and number of sessions, whatever failed or was killed,
\* in the middle of a cmake run too: a session of build_workspace_isolated that calls
\* cmake for all packages leaves every one configured with the arguments and, without
\* --install, on the path asked for; so does one that relies on the comparison made by
\* cmake_input_changed, as long as nothing has defeated that; and no catkin package is
\* made from what a failed cmake left.
THEOREM ConfigurationIsSound == Spec => []ConfigurationSound
<1>1. Inv => NeverMadeHalfConfigured
  BY DEF Inv, HalfInv, NeverMadeHalfConfigured
<1>2. Inv /\ ForcedInv => ConfigurationSound
  BY <1>1, ConfiguredFromInv, TypeFromInv DEF ConfigurationSound
<1> QED BY <1>2, Invariance, ForcedInvariance, PTL

\* A package's dependencies are before it in the list, are where the packages
\* after them look, and the path has that place.
LEMMA VisibleFromInv == Inv => DependenciesVisible
<1> SUFFICES ASSUME Inv, session.pc = "make", safe,
                    NEW q \in Depends[Package] \cap ToSet(session.order),
                    ~(session.o.install /\ q \in NoInstall)
             PROVE  \E l \in PathOf(session.lastEnv) : q \in products[l]
  BY DEF DependenciesVisible
<1>1. InLoop /\ session.at <= Len(session.order) /\ LoopInv /\ TypeInv
  BY DEF Inv, TypeInv, InLoop
<1>2. /\ session.at \in 1 .. Len(session.order) /\ Len(session.order) \in Nat
      /\ Package = session.order[session.at]
      /\ session.o.install \in BOOLEAN /\ session.o.merge \in BOOLEAN
  BY <1>1, Here
<1>a. session.order \in Seq(Packages)
  BY <1>1 DEF TypeInv, SessionState
<1>b. DOMAIN session.order = 1 .. Len(session.order)
  BY <1>a
<1>c. session.order = Order[Considered] /\ ~Circular(Considered)
  BY <1>1 DEF LoopInv, Refused
<1>d. Considered \in SUBSET Packages
  BY <1>1 DEF Considered, TypeInv
<1>3. /\ session.order = Order[Considered] /\ ~Circular(Considered)
      /\ Considered \in SUBSET Packages /\ DOMAIN session.order = 1 .. Len(session.order)
  BY <1>b, <1>c, <1>d
<1>4. PICK j \in 1 .. Len(session.order) : q = session.order[j]
  BY <1>3 DEF ToSet
<1>5. \A i, k \in DOMAIN Order[Considered] :
        Order[Considered][k] \in Depends[Order[Considered][i]] => k < i
  BY <1>3
<1>6. j < session.at
  BY <1>2, <1>3, <1>4, <1>5
<1>7. j \in 1 .. session.at - 1 /\ session.at # 1
  BY <1>2, <1>4, <1>6
<1>8. Good(session.order, j, session.o.args, session.o.install, session.o.merge,
           dir, products, env)
  BY <1>1, <1>7, GoodBefore
<1>9. q \in products[PlaceOf(q, session.o.install, session.o.merge)]
  BY <1>4, <1>8 DEF Good, BuiltGood
<1>10. PathOf(session.lastEnv) =
         PathAt(session.order, session.at, session.o.install, session.o.merge)
  BY <1>1, PathHere
<1>11. PlaceOf(q, session.o.install, session.o.merge) \in
         PathAt(session.order, session.at, session.o.install, session.o.merge)
  BY <1>2, <1>4, <1>7 DEF PlaceOf, PathAt
<1> QED BY <1>9, <1>10, <1>11

\* get_previous_tool_used_on_the_space comes before all else: no session takes
\* a space over that another tool has marked unless it is told to, and none
\* configures, makes or installs anything before both spaces are its own.
THEOREM ForeignSpaceIsUntouched == Spec => ForeignSpaceUntouched
<1> DEFINE A == /\ \A s \in {"build", "devel"} :
                      mark[s] = "other" /\ mark'[s] # "other" => session.o.override
                /\ (dir' # dir \/ products' # products \/ env' # env)
                      => mark = [s \in {"build", "devel"} |-> "isolated"]
<1>1. Inv /\ [Next]_vars => [A]_vars
  <2> SUFFICES ASSUME Inv, Next PROVE A
    OBVIOUS
  <2>1. mark \in [{"build", "devel"} -> {"none", "isolated", "other"}]
    BY DEF Inv, TypeInv
  <2>2. ASSUME mark' = mark, InLoop PROVE A
    <3>1. mark["build"] = "isolated" /\ mark["devel"] = "isolated"
      BY <2>2 DEF Inv, MarkInv
    <3>2. mark = [s \in {"build", "devel"} |-> "isolated"]
      BY <2>1, <3>1
    <3> QED BY <2>2, <3>2
  <2>3. ASSUME mark' = mark, UNCHANGED <<dir, products, env>> PROVE A
    BY <2>3
  <2>4. CASE EditSources \/ \E o \in Options : Begin(o)
    BY <2>3, <2>4 DEF EditSources, Begin, disk
  <2>5. CASE OtherTool
    <3>1. PICK t \in {"build", "devel"} : mark[t] = "none" /\ mark' = [mark EXCEPT ![t] = "other"]
      BY <2>5 DEF OtherTool
    <3>2. UNCHANGED <<dir, products, env>>
      BY <2>5 DEF OtherTool
    <3> QED BY <2>1, <3>1, <3>2
  <2>6. ASSUME NEW t \in {"build", "devel"}, NEW pc, NEW next, CheckSpace(t, pc, next) PROVE A
    <3>1. CASE UNCHANGED disk
      BY <2>3, <3>1 DEF disk
    <3>2. CASE Acceptable(t) /\ mark' = [mark EXCEPT ![t] = "isolated"]
               /\ UNCHANGED <<dir, products, env>>
      BY <2>1, <3>2 DEF Acceptable
    <3> QED BY <2>6, <3>1, <3>2 DEF CheckSpace
  <2>7. CASE CheckBuildSpace \/ CheckDevelSpace
    BY <2>6, <2>7 DEF CheckBuildSpace, CheckDevelSpace
  <2>8. CASE Plan \/ Skip \/ Process \/ CheckFails \/ MakeFails \/ InstallFails \/ Killed \/ FinishCatkin
    <3>1. mark' = mark /\ UNCHANGED <<dir, products, env>>
      BY <2>8 DEF Plan, Skip, Process, CheckFails, MakeFails, InstallFails, Killed, FinishCatkin, disk
    <3> QED BY <2>3, <3>1
  <2>9. CASE CMakeCatkin \/ CMakePlain \/ CMakeFails \/ KilledInCMake \/ CheckBuildSystem
             \/ Make \/ Install \/ FinishPlain \/ Finish
    <3>1. mark' = mark /\ InLoop
      BY <2>9 DEF CMakeCatkin, CMakePlain, CMakeFails, KilledInCMake, CommandFails,
                  CheckBuildSystem, Make, Install, FinishPlain, Finish, InLoop
    <3> QED BY <2>2, <3>1
  <2> QED BY <2>4, <2>5, <2>7, <2>8, <2>9 DEF Next
<1> QED BY <1>1, Invariance, PTL DEF Spec, ForeignSpaceUntouched

\* With --only-pkg-with-deps a session considers the asked-for packages, all
\* they need, and nothing else.
LEMMA WhitelistFromTypes == TypeInv => WhitelistClosed
<1> SUFFICES ASSUME TypeInv, session.pc = "plan", session.o.only \subseteq source,
                    session.o.only # {}
             PROVE  LET needs(s) == {q \in source : \E p \in s : q \in Needed(p)}
                    IN  /\ session.o.only \subseteq Considered
                        /\ needs(Considered) \subseteq Considered
                        /\ \A s \in SUBSET source :
                              (session.o.only \subseteq s /\ needs(s) \subseteq s) => Considered \subseteq s
  BY DEF WhitelistClosed, Needed
<1> DEFINE only == session.o.only
<1>1. source \in SUBSET Packages /\ only \cap source = only /\ {} \in SUBSET source
  BY DEF TypeInv
<1>2. Considered = Least(source, only, {})
  <2>1. WithRecursiveDependencies(source, only) = Least(source, only, {})
    BY <1>1, WithRecursiveDependenciesIs
  <2> QED BY <2>1 DEF Considered, Least
<1>3. /\ Considered \in SUBSET source
      /\ Covers(source, only, {}, Considered)
      /\ \A s \in SUBSET source : Covers(source, only, {}, s) => Considered \subseteq s
  BY <1>1, <1>2, LeastCovers
<1> HIDE DEF only
<1>4. \A s \in SUBSET source :
        (only \subseteq s /\ {q \in source : \E p \in s : q \in Needed(p)} \subseteq s)
        => Covers(source, only, {}, s)
  BY DEF Covers
<1>5. only \subseteq Considered
      /\ {q \in source : \E p \in Considered : q \in Needed(p)} \subseteq Considered
  BY <1>3 DEF Covers
<1> QED BY <1>3, <1>4, <1>5 DEF only

\* build_workspace_isolated makes a package only when all packages of the
\* workspace it depends on are in the environment it is made in (under the
\* same condition); the env.sh it leaves in a non-merged devel space leads to
\* one that is there; and the packages a session is restricted to are closed
\* under their dependencies, with nothing that none of them needs.
THEOREM EnvironmentIsSound == Spec => []EnvironmentSound
<1>1. Inv => DependenciesVisible /\ TopLevelUsable
  BY VisibleFromInv DEF Inv
<1>2. Inv => WhitelistClosed
  BY WhitelistFromTypes DEF Inv
<1>3. Inv => EnvironmentSound
  BY <1>1, <1>2 DEF EnvironmentSound
<1> QED BY <1>3, Invariance, PTL
=============================================================================
