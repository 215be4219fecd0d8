--------------------------- MODULE RosmakeProofs ----------------------------
(***************************************************************************)
(* For any packages, dependencies, command lines and number of threads and *)
(* sessions: the list rosmake works from is complete and in order, its     *)
(* threads make dependencies first and nothing on a failure, none of them  *)
(* leaves work behind, and what a session reports and marks was made.      *)
(*                                                                         *)
(* None of this is inductive.  ListInv says how far build_or_recurse is:   *)
(* what is on its stack is not listed, and each call on it was made for a  *)
(* dependency of the one below.  QueueInv says where a package of the list *)
(* can be, ThreadInv which packages the threads have, ResultInv how the    *)
(* queue and the results agree, and EndInv when a thread has left.         *)
(***************************************************************************)
EXTENDS Rosmake, FiniteSetTheorems, TLAPS

Busy == {"build", "make", "return"}

\* Every package on the list has its dependencies on it.
Closed ==
  \A p \in Range(buildList) : GetDeps1(p) \cup AllDeps(p) \subseteq Range(buildList)

ListInv ==
  /\ Range(buildList) \cup Range(stack) \cup todo \subseteq Package \ tree.missing
  /\ Range(stack) \cap Range(buildList) = {}
  /\ \A i \in DOMAIN stack : i + 1 \in DOMAIN stack => stack[i + 1] \in GetDeps1(stack[i])
  /\ phase = "off" => buildList = <<>>
  /\ phase # "listing" => stack = <<>> /\ todo = {}
  /\ phase # "off" => Range(Specified) \subseteq Range(buildList) \cup Range(stack) \cup todo
  /\ todo # {} \/ stack # <<>> \/ ~opt.specifiedOnly => Closed
  /\ phase \notin {"off", "listing"} /\ opt.specifiedOnly => Range(buildList) \subseteq Range(Specified)

QueueInv ==
  phase \in {"clean", "build"} =>
    /\ Range(buildList) = Range(toBuild) \cup started \cup Range(built) \cup Range(failed)
    /\ started \cap (Range(toBuild) \cup Range(built) \cup Range(failed)) = {}
    /\ Range(toBuild) \cap (Range(built) \cup Range(failed)) = {}
    /\ Range(built) \cap Range(failed) = {}
    /\ IsInjective(toBuild) /\ IsInjective(built)
    /\ \A i, j \in DOMAIN toBuild : toBuild[j] \in AllDeps(toBuild[i]) => j < i

ThreadInv ==
  /\ phase \notin Phase => \A t \in Thread : tpc[t] = "end"
  /\ phase = "test" => \A t, u \in Thread : tpc[t] # "end" /\ tpc[u] # "end" => t = u
  /\ started = {pkg[t] : t \in {u \in Thread : tpc[u] \in Busy}}
  /\ \A t \in Thread : tpc[t] \in Busy => pkg[t] \in Package
  /\ \A t, u \in Thread : tpc[t] \in Busy /\ tpc[u] \in Busy /\ pkg[t] = pkg[u] => t = u
  /\ \A t \in Thread : tpc[t] \in {"build", "make"} =>
       QueueDeps(pkg[t]) \subseteq Range(built) \cup Range(failed)
  /\ \A t \in Thread : tpc[t] = "stop" => phase = "build"

ResultInv ==
  /\ phase \in {"clean", "build"} =>
       /\ \A p \in Range(built) : result[phase][p] = "true"
       /\ \A p \in Range(failed) : result[phase][p] = "false"
  /\ \A t \in Thread : tpc[t] = "return" =>
       result[phase][pkg[t]] = IF ok[t] THEN "true" ELSE "false"
  /\ phase = "off" => \A p \in Package : result["build"][p] = "none"
  /\ \A p \in Package : result["build"][p] = "true" =>
       p \in made \cup nobuild \cup tree.noMakefile \/ Blacklisted(p)
  /\ phase \in {"buildDone", "test", "testDone"} /\ opt.build /\ passed["build"] =>
       \A p \in Range(buildList) : result["build"][p] = "true"

EndInv ==
  /\ phase \in Phase /\ IsCompleted => done \/ toBuild = <<>>
  /\ phase = "build" /\ opt.mode = "stop" /\ failed # <<>> =>
       done \/ \E t \in Thread : tpc[t] = "stop"
  /\ phase = "test" =>
       \A t \in Thread :
         /\ tpc[t] \in Busy \cup {"loop"} => hack = 0
         /\ tpc[t] = "wait" => \A i \in DOMAIN toBuild : ~DepsMet(toBuild[i])

RosmakeInv ==
  /\ TypeOK /\ ListInv /\ ListOrdered /\ QueueInv /\ ThreadInv /\ NothingOnFailure
  /\ ResultInv /\ ReportIsTrue /\ InstalledWasMade /\ EndInv /\ NoPrematureEnd
-----------------------------------------------------------------------------
(* Numbers and sequences                                                   *)

\* A set of numbers that is not empty has a smallest one: its initial segments
\* are well-founded by inclusion.
LEMMA LeastNumber ==
  ASSUME NEW T, T \subseteq Nat, T # {}
  PROVE  Min(T) \in T /\ \A y \in T : Min(T) <= y
<1> DEFINE W == {1..n : n \in T}
           R == StrictSubsetOrdering(Nat)
<1>1. IsWellFoundedOn(R, FiniteSubsetsOf(Nat))
  BY FS_StrictSubsetOrderingWellFounded
<1>2. W \subseteq FiniteSubsetsOf(Nat) /\ W # {}
  <2>1. ASSUME NEW n \in T PROVE 1..n \in FiniteSubsetsOf(Nat)
    <3>1. n \in Int /\ 1 \in Int /\ 1..n \in SUBSET Nat
      OBVIOUS
    <3>2. IsFiniteSet(1..n)
      BY <3>1, FS_Interval
    <3> QED BY <3>1, <3>2 DEF FiniteSubsetsOf
  <2> QED BY <2>1
<1> HIDE DEF W, R
<1>3. PICK w \in W : \A v \in W : ~ (<<v, w>> \in R)
  BY <1>1, <1>2, WFMin
<1>4. PICK x \in T : w = 1..x
  BY DEF W
<1>5. ASSUME NEW y \in T, ~(x <= y) PROVE FALSE
  <2>1. 1..y \in W /\ 1..y \subseteq 1..x /\ x \in 1..x /\ x \notin 1..y
    BY <1>5 DEF W
  <2>2. <<1..y, w>> \in R
    BY <2>1, <1>4, <1>5 DEF R, StrictSubsetOrdering
  <2> QED BY <2>1, <2>2, <1>3
<1> QED BY <1>5 DEF Min

\* What is left of a list when one entry is taken out of it.
LEMMA RemoveAtFacts ==
  ASSUME NEW S, NEW s \in Seq(S), NEW k \in DOMAIN s
  PROVE  /\ RemoveAt(s, k) \in Seq(S)
         /\ Len(RemoveAt(s, k)) = Len(s) - 1
         /\ \A j \in 1 .. Len(s) - 1 : RemoveAt(s, k)[j] = IF j < k THEN s[j] ELSE s[j + 1]
<1> DEFINE l == SubSeq(s, 1, k - 1)
           r == SubSeq(s, k + 1, Len(s))
<1>1. /\ l \in Seq(S) /\ Len(l) = k - 1
      /\ \A j \in 1 .. k - 1 : l[j] = s[j]
  OBVIOUS
<1>2. /\ r \in Seq(S) /\ Len(r) = Len(s) - k
      /\ \A j \in 1 .. Len(s) - k : r[j] = s[k + j]
  OBVIOUS
<1> HIDE DEF l, r
<1>3. /\ l \o r \in Seq(S) /\ Len(l \o r) = Len(s) - 1
      /\ \A j \in 1 .. Len(s) - 1 : (l \o r)[j] = IF j < k THEN s[j] ELSE s[j + 1]
  BY <1>1, <1>2
<1> QED BY <1>3 DEF RemoveAt, l, r

LEMMA RemoveAtRange ==
  ASSUME NEW S, NEW s \in Seq(S), NEW k \in DOMAIN s
  PROVE  /\ Range(RemoveAt(s, k)) \cup {s[k]} = Range(s)
         /\ IsInjective(s) => IsInjective(RemoveAt(s, k)) /\ s[k] \notin Range(RemoveAt(s, k))
<1> DEFINE r == RemoveAt(s, k)
<1>1. /\ r \in Seq(S) /\ Len(r) = Len(s) - 1
      /\ \A j \in 1 .. Len(s) - 1 : r[j] = IF j < k THEN s[j] ELSE s[j + 1]
  BY RemoveAtFacts
<1> HIDE DEF r
<1>2. DOMAIN r = 1 .. Len(s) - 1 /\ DOMAIN s = 1 .. Len(s) /\ Len(s) \in Nat
  BY <1>1
<1>3. ASSUME NEW i \in DOMAIN s, i # k PROVE \E j \in DOMAIN r : r[j] = s[i]
  <2>1. CASE i < k
    BY <1>1, <1>2, <2>1
  <2>2. CASE i > k
    <3>1. i - 1 \in DOMAIN r /\ r[i - 1] = s[i]
      BY <1>1, <1>2, <2>2
    <3> QED BY <3>1
  <2> QED BY <1>2, <1>3, <2>1, <2>2
<1>4. ASSUME NEW j \in DOMAIN r PROVE \E i \in DOMAIN s : i # k /\ r[j] = s[i]
  <2>1. CASE j < k
    BY <1>1, <1>2, <2>1
  <2>2. CASE ~(j < k)
    <3>1. j + 1 \in DOMAIN s /\ j + 1 # k /\ r[j] = s[j + 1]
      BY <1>1, <1>2, <2>2
    <3> QED BY <3>1
  <2> QED BY <2>1, <2>2
<1>5. Range(r) \cup {s[k]} = Range(s)
  BY <1>3, <1>4 DEF Range
<1>6. ASSUME IsInjective(s) PROVE IsInjective(r) /\ s[k] \notin Range(r)
  <2>1. s[k] \notin Range(r)
    BY <1>4, <1>6 DEF Range, IsInjective
  <2>2. ASSUME NEW i \in DOMAIN r, NEW j \in DOMAIN r, r[i] = r[j] PROVE i = j
    BY <1>1, <1>2, <1>6, <2>2 DEF IsInjective
  <2> QED BY <2>1, <2>2 DEF IsInjective
<1> QED BY <1>5, <1>6 DEF r

\* The entries that are left keep their order: where each of them was before.
Before(n, k) == IF n < k THEN n ELSE n + 1

LEMMA RemoveAtOrder ==
  ASSUME NEW S, NEW s \in Seq(S), NEW k \in DOMAIN s,
         NEW i \in DOMAIN RemoveAt(s, k), NEW j \in DOMAIN RemoveAt(s, k)
  PROVE  /\ Before(i, k) \in DOMAIN s /\ RemoveAt(s, k)[i] = s[Before(i, k)]
         /\ Before(j, k) \in DOMAIN s /\ RemoveAt(s, k)[j] = s[Before(j, k)]
         /\ Before(j, k) < Before(i, k) => j < i
<1> DEFINE r == RemoveAt(s, k)
<1>1. /\ r \in Seq(S) /\ Len(r) = Len(s) - 1
      /\ \A n \in 1 .. Len(s) - 1 : r[n] = IF n < k THEN s[n] ELSE s[n + 1]
  BY RemoveAtFacts
<1> HIDE DEF r
<1>2. DOMAIN r = 1 .. Len(s) - 1 /\ DOMAIN s = 1 .. Len(s) /\ Len(s) \in Nat
  BY <1>1
<1>3. i \in DOMAIN r /\ j \in DOMAIN r
  BY DEF r
<1>4. \A n \in DOMAIN r : Before(n, k) \in DOMAIN s /\ r[n] = s[Before(n, k)]
  BY <1>1, <1>2 DEF Before
<1>5. Before(j, k) < Before(i, k) => j < i
  BY <1>2, <1>3 DEF Before
<1> QED BY <1>3, <1>4, <1>5 DEF r

\* The last entry of a list, and what is before it.
LEMMA FrontFacts ==
  ASSUME NEW S, NEW s \in Seq(S), s # <<>>
  PROVE  /\ Len(s) \in DOMAIN s /\ Last(s) = s[Len(s)] /\ Last(s) \in S
         /\ Front(s) \in Seq(S) /\ Len(Front(s)) = Len(s) - 1
         /\ \A i \in 1 .. Len(s) - 1 : Front(s)[i] = s[i]
         /\ Range(s) = Range(Front(s)) \cup {Last(s)}
<1>1. Len(s) \in Nat /\ DOMAIN s = 1 .. Len(s) /\ Len(s) # 0
  OBVIOUS
<1>2. Len(s) \in DOMAIN s /\ Last(s) = s[Len(s)] /\ Last(s) \in S
  BY <1>1 DEF Last
<1> DEFINE f == SubSeq(s, 1, Len(s) - 1)
<1>3. f \in Seq(S) /\ Len(f) = Len(s) - 1 /\ \A i \in 1 .. Len(s) - 1 : f[i] = s[i]
  BY <1>1
<1>4. DOMAIN f = 1 .. Len(s) - 1
  BY <1>3
<1> HIDE DEF f
<1>5. DOMAIN s = DOMAIN f \cup {Len(s)}
  BY <1>1, <1>4
<1>6. Range(s) = Range(f) \cup {Last(s)}
  BY <1>2, <1>3, <1>4, <1>5 DEF Range
<1> QED BY <1>2, <1>3, <1>6 DEF f, Front

\* What a list has when one entry is added to it.
LEMMA AppendFacts ==
  ASSUME NEW S, NEW s \in Seq(S), NEW x \in S
  PROVE  /\ Append(s, x) \in Seq(S) /\ Len(Append(s, x)) = Len(s) + 1
         /\ \A i \in DOMAIN s : Append(s, x)[i] = s[i]
         /\ Append(s, x)[Len(s) + 1] = x
         /\ Range(Append(s, x)) = Range(s) \cup {x}
         /\ IsInjective(s) /\ x \notin Range(s) => IsInjective(Append(s, x))
<1> DEFINE a == Append(s, x)
<1>1. /\ a \in Seq(S) /\ Len(a) = Len(s) + 1 /\ a[Len(s) + 1] = x
      /\ \A i \in DOMAIN s : a[i] = s[i]
      /\ DOMAIN a = 1 .. Len(s) + 1 /\ DOMAIN s = 1 .. Len(s) /\ Len(s) \in Nat
  OBVIOUS
<1> HIDE DEF a
<1>2. DOMAIN a = DOMAIN s \cup {Len(s) + 1}
  BY <1>1
<1>3. Range(a) = Range(s) \cup {x}
  BY <1>1, <1>2 DEF Range
<1>4. IsInjective(s) /\ x \notin Range(s) => IsInjective(a)
  BY <1>1, <1>2 DEF Range, IsInjective
<1> QED BY <1>1, <1>3, <1>4 DEF a

\* A list without repetition has as many entries as packages.
LEMMA InjectiveCount ==
  ASSUME NEW S, NEW s \in Seq(S), IsInjective(s)
  PROVE  IsFiniteSet(Range(s)) /\ Cardinality(Range(s)) = Len(s)
<1>1. Len(s) \in Nat /\ DOMAIN s = 1 .. Len(s)
  OBVIOUS
<1>2. s \in Bijection(1 .. Len(s), Range(s))
  BY <1>1 DEF IsInjective, Range, Bijection, Injection, Surjection
<1>3. ExistsBijection(1 .. Len(s), Range(s))
  BY <1>2 DEF ExistsBijection
<1> QED BY <1>1, <1>3, FS_CountingElements, FS_NatBijection
-----------------------------------------------------------------------------
(* What a step of a thread leaves alone                                    *)

\* The dependencies of the phase's queue are the same as long as main stays
\* where it is.
LEMMA SameDeps ==
  ASSUME UNCHANGED <<tree, opt, phase>>
  PROVE  /\ \A p : GetDeps1(p)' = GetDeps1(p) /\ AllDeps(p)' = AllDeps(p)
         /\ \A p : QueueDeps(p)' = QueueDeps(p) /\ Blacklisted(p)' = Blacklisted(p)
         /\ RobustQueue' = RobustQueue
BY DEF GetDeps1, AllDeps, QueueDeps, GetDeps, Valid, Blacklisted, RobustQueue

\* A thread that has not ended works in a phase.
LEMMA InPhase ==
  ASSUME RosmakeInv, NEW t \in Thread, tpc[t] # "end"
  PROVE  phase \in Phase
BY DEF RosmakeInv, ThreadInv

\* A thread changes neither the list nor the marks.
LEMMA MainFrame ==
  ASSUME RosmakeInv, UNCHANGED <<treeVars, mainVars, unmade>>, phase \in Phase,
         made \subseteq made'
  PROVE  ListInv' /\ ListOrdered' /\ ReportIsTrue' /\ InstalledWasMade'
<1> USE DEF RosmakeInv, treeVars, mainVars, listVars
<1>1. ListInv'
  BY SameDeps DEF ListInv, Closed
<1>2. ListOrdered'
  BY SameDeps DEF ListOrdered
<1>3. ReportIsTrue'
  BY DEF ReportIsTrue, Phase
<1>4. InstalledWasMade'
  BY SameDeps DEF InstalledWasMade
<1> QED BY <1>1, <1>2, <1>3, <1>4

\* What the queue's phase needs is on the list, and the list is what it tracks.
LEMMA ListIsTracked ==
  ASSUME RosmakeInv, phase \in {"clean", "build"}
  PROVE  /\ Range(buildList) \subseteq Valid
         /\ \A p \in Range(buildList) : QueueDeps(p) \subseteq Range(buildList)
<1> USE DEF RosmakeInv
<1>1. CASE opt.specifiedOnly
  <2>1. Range(stack) = {} /\ todo = {}
    BY DEF ListInv, Range
  <2>2. Range(Specified) = Range(buildList) /\ Valid = Range(Specified)
    BY <1>1, <2>1 DEF ListInv, Valid
  <2> QED BY <2>2 DEF QueueDeps, GetDeps
<1>2. CASE ~opt.specifiedOnly
  BY <1>2 DEF ListInv, Closed, Valid, QueueDeps, GetDeps
<1> QED BY <1>1, <1>2

\* Where the scan of to_build ends.
LEMMA FirstHit ==
  ASSUME RosmakeInv, NEW h, Hits(h) # {}
  PROVE  /\ Min(Hits(h)) \in DOMAIN toBuild
         /\ Min(Hits(h)) \in Hits(h)
         /\ \A j \in Hits(h) : Min(Hits(h)) <= j
         /\ Found(h) \in Package
<1>1. toBuild \in Seq(Package)
  BY DEF RosmakeInv, TypeOK
<1>2. Hits(h) \subseteq DOMAIN toBuild /\ Hits(h) \subseteq Nat
  BY <1>1 DEF Hits
<1>3. Min(Hits(h)) \in Hits(h) /\ \A j \in Hits(h) : Min(Hits(h)) <= j
  BY <1>2, LeastNumber
<1> QED BY <1>1, <1>2, <1>3 DEF Found

\* The list is in order: a thread gives up in a build only when a package has
\* failed, and then that failure is about to stop the build.
LEMMA GiveUp ==
  ASSUME RosmakeInv, phase \in {"clean", "build"}, ~done,
         NEW h, Hits(h) # {}, ~DepsMet(Found(h))
  PROVE  phase = "build" /\ \E u \in Thread : tpc[u] = "stop"
<1> USE DEF RosmakeInv
<1> DEFINE p == Found(h)
<1>1. started = {} /\ Hits(h) = DOMAIN toBuild /\ toBuild \in Seq(Package)
  BY FirstHit DEF Hits, Found, GiveUpAt, TypeOK
<1>2. Min(Hits(h)) = 1
  <2>1. DOMAIN toBuild = 1 .. Len(toBuild) /\ Len(toBuild) \in Nat
    BY <1>1
  <2>2. Min(Hits(h)) \in 1 .. Len(toBuild)
    BY <2>1, FirstHit
  <2>3. 1 \in Hits(h)
    BY <1>1, <2>1, <2>2
  <2> QED BY <2>2, <2>3, FirstHit
<1>3. 1 \in DOMAIN toBuild /\ p = toBuild[1]
  BY <1>2, FirstHit DEF Found
<1>4. PICK d \in QueueDeps(p) : ~(d \in Range(built) \/ (RobustQueue /\ d \in Range(failed)))
  BY DEF DepsMet
<1>5. p \in Range(buildList)
  BY <1>3 DEF QueueInv, Range
<1>6. d \in Range(buildList) /\ d \in AllDeps(p)
  BY <1>4, <1>5, ListIsTracked DEF QueueDeps, GetDeps
<1>7. d \notin Range(toBuild)
  <2>1. ASSUME NEW j \in DOMAIN toBuild, d = toBuild[j] PROVE FALSE
    <3>1. j < 1
      BY <1>3, <1>6, <2>1 DEF QueueInv
    <3> QED BY <1>1, <3>1
  <2> QED BY <2>1 DEF Range
<1>8. d \in Range(failed) /\ ~RobustQueue
  BY <1>1, <1>4, <1>6, <1>7 DEF QueueInv
<1>9. failed # <<>> /\ phase = "build" /\ opt.mode = "stop"
  BY <1>8 DEF Range, RobustQueue
<1> QED BY <1>9 DEF EndInv

-----------------------------------------------------------------------------
(* The steps of a thread                                                   *)

\* A thread that leaves the queue.
LEMMA LeaveStep ==
  ASSUME RosmakeInv, NEW t \in Thread, tpc[t] \in {"loop", "wait"},
         NEW h \in 0 .. HackLimit + 1, h >= hack, tpc[t] = "loop" => h = hack,
         Leave(t, h),
         UNCHANGED <<treeVars, built, failed, done, ok, mainVars, result, history>>
  PROVE  RosmakeInv'
<1> USE DEF RosmakeInv, treeVars, mainVars, listVars, history
<1>0. phase \in Phase /\ HackLimit \in Nat
  BY InPhase, RosmakeAssumption
<1>1. ListInv' /\ ListOrdered' /\ ReportIsTrue' /\ InstalledWasMade'
  BY <1>0, MainFrame
<1>2. TypeOK'
  BY DEF TypeOK, Leave
<1>3. QueueInv'
  BY SameDeps DEF QueueInv, Leave
<1>4. ThreadInv'
  BY SameDeps DEF TypeOK, ThreadInv, Busy, Leave
<1>5. NothingOnFailure'
  BY DEF TypeOK, NothingOnFailure, Making, Leave
<1>6. ResultInv'
  BY SameDeps DEF TypeOK, ResultInv, Leave
<1>7. EndInv'
  <2>1. phase = "test" => \A u \in Thread : tpc'[u] = "end"
    BY DEF TypeOK, ThreadInv, Leave
  <2> QED BY <2>1, SameDeps DEF TypeOK, EndInv, IsCompleted, Total, Busy, Leave
<1>8. NoPrematureEnd'
  <2> SUFFICES ASSUME ~done, toBuild # <<>>
               PROVE  NoPrematureEnd'
    BY DEF NoPrematureEnd, Leave
  <2>1. Hits(h) # {} /\ ~DepsMet(Found(h))
    BY <1>0 DEF Leave, IsDone, EndInv
  <2>2. CASE phase \in {"clean", "build"}
    <3>1. phase = "build" /\ \E u \in Thread : tpc[u] = "stop"
      BY <2>1, <2>2, GiveUp
    <3> QED BY <3>1 DEF TypeOK, NoPrematureEnd, Leave
  <2>3. CASE phase = "test"
    <3>1. GiveUpAt(h)
      BY <2>1, FirstHit DEF Hits, Found
    <3>2. h # 0
      BY <1>0, <3>1 DEF GiveUpAt
    <3>3. tpc[t] = "wait"
      BY <2>3, <3>2 DEF EndInv
    <3>4. \A i \in DOMAIN toBuild : ~DepsMet(toBuild[i])
      BY <2>3, <3>3 DEF EndInv
    <3>5. \A i \in DOMAIN toBuild' : ~DepsMet(toBuild[i])'
      BY <3>4, SameDeps DEF Leave, DepsMet
    <3> QED BY <2>3, <3>5 DEF NoPrematureEnd
  <2> QED BY <1>0, <2>2, <2>3 DEF Phase
<1> QED BY <1>1, <1>2, <1>3, <1>4, <1>5, <1>6, <1>7, <1>8

\* A thread that finds nothing to build waits.
LEMMA WaitStep ==
  ASSUME RosmakeInv, NEW t \in Thread, tpc[t] \in {"loop", "wait"},
         NEW h \in 0 .. HackLimit + 1, h >= hack, tpc[t] = "loop" => h = hack,
         Wait(t, h),
         UNCHANGED <<treeVars, built, failed, done, ok, mainVars, result, history>>
  PROVE  RosmakeInv'
<1> USE DEF RosmakeInv, treeVars, mainVars, listVars, history
<1>0. phase \in Phase /\ HackLimit \in Nat
  BY InPhase, RosmakeAssumption
<1>1. ListInv' /\ ListOrdered' /\ ReportIsTrue' /\ InstalledWasMade'
  BY <1>0, MainFrame
<1>2. TypeOK'
  BY DEF TypeOK, Wait
<1>3. QueueInv'
  BY SameDeps DEF QueueInv, Wait
<1>4. ThreadInv'
  BY SameDeps, <1>0 DEF TypeOK, ThreadInv, Busy, Wait
<1>5. NothingOnFailure'
  BY DEF TypeOK, NothingOnFailure, Making, Wait
<1>6. ResultInv'
  BY SameDeps DEF TypeOK, ResultInv, Wait
<1>7. EndInv'
  <2>1. \A i \in DOMAIN toBuild : ~DepsMet(toBuild[i])
    BY DEF Wait, Hits
  <2>2. \A i \in DOMAIN toBuild' : ~DepsMet(toBuild[i])'
    BY <2>1, SameDeps DEF Wait, DepsMet
  <2>3. phase = "test" => \A u \in Thread : u # t => tpc'[u] = "end"
    BY DEF TypeOK, ThreadInv, Wait
  <2> QED BY <2>2, <2>3, SameDeps DEF TypeOK, EndInv, IsCompleted, Total, Busy, Wait
<1>8. NoPrematureEnd'
  BY SameDeps DEF TypeOK, NoPrematureEnd, Wait
<1> QED BY <1>1, <1>2, <1>3, <1>4, <1>5, <1>6, <1>7, <1>8

\* A thread that takes a package: all it depends on has been dealt with.
LEMMA TakeStep ==
  ASSUME RosmakeInv, NEW t \in Thread, tpc[t] \in {"loop", "wait"},
         NEW h \in 0 .. HackLimit + 1, h >= hack, tpc[t] = "loop" => h = hack,
         Take(t, h),
         UNCHANGED <<treeVars, built, failed, done, ok, mainVars, result, history>>
  PROVE  RosmakeInv'
<1> USE DEF RosmakeInv, treeVars, mainVars, listVars, history
<1>0. phase \in Phase /\ HackLimit \in Nat
  BY InPhase, RosmakeAssumption
<1>1. ListInv' /\ ListOrdered' /\ ReportIsTrue' /\ InstalledWasMade'
  BY <1>0, MainFrame
<1> DEFINE k == Min(Hits(h))
           p == Found(h)
<1>2. /\ k \in DOMAIN toBuild /\ p = toBuild[k] /\ p \in Package /\ p \in Range(toBuild)
      /\ toBuild \in Seq(Package)
  BY FirstHit DEF Take, Found, TypeOK, Range
<1>3. /\ toBuild' \in Seq(Package) /\ Len(toBuild') = Len(toBuild) - 1
      /\ Range(toBuild') \cup {p} = Range(toBuild)
      /\ IsInjective(toBuild) => IsInjective(toBuild') /\ p \notin Range(toBuild')
  BY <1>2, RemoveAtFacts, RemoveAtRange DEF Take
<1>4. QueueDeps(p) \subseteq Range(built) \cup Range(failed)
  BY DEF Take, DepsMet
<1>5. tpc' = [tpc EXCEPT ![t] = "build"] /\ pkg' = [pkg EXCEPT ![t] = p]
      /\ toBuild' = RemoveAt(toBuild, k) /\ started' = started \cup {p} /\ hack' = 0
  BY DEF Take
<1> HIDE DEF k, p
<1>6. TypeOK'
  BY <1>0, <1>2, <1>3, <1>5 DEF TypeOK
<1>7. QueueInv'
  <2>1. \A i, j \in DOMAIN toBuild :
          phase \in {"clean", "build"} /\ toBuild[j] \in AllDeps(toBuild[i]) => j < i
    BY DEF QueueInv
  <2>2. \A i, j \in DOMAIN toBuild' :
          phase \in {"clean", "build"} /\ toBuild'[j] \in AllDeps(toBuild'[i]) => j < i
    <3> SUFFICES ASSUME NEW i \in DOMAIN toBuild', NEW j \in DOMAIN toBuild',
                        phase \in {"clean", "build"}, toBuild'[j] \in AllDeps(toBuild'[i])
                 PROVE  j < i
      OBVIOUS
    <3>1. Before(j, k) < Before(i, k)
      BY <1>2, <1>5, <2>1, RemoveAtOrder
    <3> QED BY <1>2, <1>5, <3>1, RemoveAtOrder
  <2>3. \A i, j \in DOMAIN toBuild' :
          phase' \in {"clean", "build"} /\ toBuild'[j] \in AllDeps(toBuild[i])' => j < i
    BY <2>2 DEF AllDeps
  <2> QED BY <1>3, <1>5, <2>3 DEF QueueInv
<1>8. ThreadInv'
  <2>1. \A u \in Thread : tpc[u] \in Busy => pkg[u] # p
    <3>1. CASE phase \in {"clean", "build"}
      BY <1>2, <3>1 DEF QueueInv, ThreadInv
    <3>2. CASE phase = "test"
      BY <3>2 DEF ThreadInv, Busy
    <3> QED BY <1>0, <3>1, <3>2 DEF Phase
  <2>2. {u \in Thread : tpc'[u] \in Busy} = {u \in Thread : tpc[u] \in Busy} \cup {t}
        /\ tpc[t] \notin Busy
    BY <1>5 DEF TypeOK, Busy
  <2>3. started' = {pkg'[u] : u \in {v \in Thread : tpc'[v] \in Busy}}
    BY <1>5, <2>2 DEF TypeOK, ThreadInv
  <2>4. \A u \in Thread : tpc'[u] \in Busy => pkg'[u] \in Package
    BY <1>2, <1>5 DEF TypeOK, ThreadInv, Busy
  <2>5. \A u, v \in Thread : tpc'[u] \in Busy /\ tpc'[v] \in Busy /\ pkg'[u] = pkg'[v] => u = v
    BY <1>5, <2>1, <2>2 DEF TypeOK, ThreadInv
  <2>6. \A u \in Thread : tpc'[u] \in {"build", "make"} =>
          QueueDeps(pkg[u])' \subseteq Range(built') \cup Range(failed')
    BY <1>4, <1>5, SameDeps DEF TypeOK, ThreadInv
  <2> QED BY <1>0, <1>5, <2>3, <2>4, <2>5, <2>6 DEF TypeOK, ThreadInv
<1>9. NothingOnFailure'
  BY <1>5 DEF TypeOK, NothingOnFailure, Making
<1>10. ResultInv'
  BY <1>5, SameDeps DEF TypeOK, ResultInv
<1>11. EndInv'
  <2>1. phase = "test" => \A u \in Thread : u # t => tpc'[u] = "end"
    BY <1>5 DEF TypeOK, ThreadInv
  <2>2. ~IsDone
    BY DEF Take
  <2> QED BY <1>5, <2>1, <2>2 DEF TypeOK, EndInv, IsCompleted, IsDone, Total, Busy
<1>12. NoPrematureEnd'
  <2>1. toBuild = <<>> => FALSE
    BY <1>2
  <2> QED BY <1>5, <2>1 DEF TypeOK, NoPrematureEnd
<1> QED BY <1>1, <1>6, <1>7, <1>8, <1>9, <1>10, <1>11, <1>12

\* What a package of the build depends on is neither waiting nor being built.
LEMMA DependenciesDone ==
  ASSUME RosmakeInv, NEW t \in Thread, tpc[t] \in {"build", "make"}, phase = "build",
         Reach[pkg[t]] \cap tree.missing = {}
  PROVE  Reach[pkg[t]] \cap (Range(toBuild) \cup started) = {}
<1> USE DEF RosmakeInv
<1>1. Range(toBuild) \cup started \subseteq Valid
  BY ListIsTracked DEF QueueInv
<1>2. QueueDeps(pkg[t]) \subseteq Range(built) \cup Range(failed)
  BY DEF ThreadInv
<1>3. QueueDeps(pkg[t]) = Reach[pkg[t]] \cap Valid
  BY DEF QueueDeps, GetDeps, AllDeps
<1> QED BY <1>1, <1>2, <1>3 DEF QueueInv

\* A thread records the result of its package.
LEMMA RecordStep ==
  ASSUME RosmakeInv, NEW t \in Thread, tpc[t] \in {"build", "make"}, NEW good \in BOOLEAN,
         tpc' = [tpc EXCEPT ![t] = "return"], ok' = [ok EXCEPT ![t] = good],
         result' = [result EXCEPT ![phase][pkg[t]] = IF good THEN "true" ELSE "false"],
         UNCHANGED <<treeVars, queueVars, pkg, mainVars, unmade>>,
         made \subseteq made', made' \subseteq Package,
         good /\ phase = "build" =>
           pkg[t] \in made' \cup nobuild \cup tree.noMakefile \/ Blacklisted(pkg[t])
  PROVE  RosmakeInv'
<1> USE DEF RosmakeInv, treeVars, queueVars, mainVars, listVars
<1> DEFINE p == pkg[t]
<1>1. phase \in Phase /\ p \in Package /\ p \in started
  BY InPhase DEF ThreadInv, Busy
<1>2. ListInv' /\ ListOrdered' /\ ReportIsTrue' /\ InstalledWasMade'
  BY <1>1, MainFrame
<1>3. /\ result' \in [Phase -> [Package -> {"none", "true", "false"}]]
      /\ \A ph \in Phase, q \in Package :
           result'[ph][q] = IF ph = phase /\ q = p THEN IF good THEN "true" ELSE "false"
                            ELSE result[ph][q]
  BY <1>1 DEF TypeOK
<1>4. TypeOK'
  BY <1>3 DEF TypeOK
<1>5. QueueInv'
  BY SameDeps DEF QueueInv
<1>6. ThreadInv'
  <2>1. {u \in Thread : tpc'[u] \in Busy} = {u \in Thread : tpc[u] \in Busy}
    BY DEF TypeOK, Busy
  <2>2. \A u \in Thread : tpc'[u] \in Busy <=> tpc[u] \in Busy
    BY DEF TypeOK, Busy
  <2> QED BY <1>1, <2>1, <2>2, SameDeps DEF TypeOK, ThreadInv
<1>7. NothingOnFailure'
  <2> SUFFICES ASSUME NEW u \in Thread, Making(u, pkg[u])', phase = "build",
                      opt.mode # "everything", Reach[pkg[u]] \cap tree.missing = {},
                      NEW d \in Package, d \in Reach[pkg[u]], result'["build"][d] = "false"
               PROVE  FALSE
    BY DEF NothingOnFailure, Making, Phase
  <2>1. u # t /\ tpc[u] = "make" /\ pkg[u] \in Package
    BY DEF Making, TypeOK, ThreadInv, Busy
  <2>2. d # p
    BY <1>1, <2>1, DependenciesDone
  <2>3. result["build"][d] = "false"
    BY <1>3, <2>2 DEF Phase
  <2> QED BY <2>1, <2>3 DEF NothingOnFailure, Making
<1>8. ResultInv'
  <2>1. phase \in {"clean", "build"} =>
          p \notin Range(built) \cup Range(failed) /\ Range(built) \cup Range(failed) \subseteq Package
    BY <1>1 DEF QueueInv, ListInv
  <2>2. phase \in {"clean", "build"} =>
          /\ \A q \in Range(built) : result'[phase][q] = "true"
          /\ \A q \in Range(failed) : result'[phase][q] = "false"
    BY <1>1, <1>3, <2>1 DEF ResultInv
  <2>3. \A u \in Thread : tpc'[u] = "return" =>
          result'[phase][pkg[u]] = IF ok'[u] THEN "true" ELSE "false"
    <3> SUFFICES ASSUME NEW u \in Thread, tpc'[u] = "return"
                 PROVE  result'[phase][pkg[u]] = IF ok'[u] THEN "true" ELSE "false"
      OBVIOUS
    <3>1. CASE u = t
      BY <1>1, <1>3, <3>1 DEF TypeOK
    <3>2. CASE u # t
      <4>1. tpc[u] = "return" /\ pkg[u] # p /\ pkg[u] \in Package /\ ok'[u] = ok[u]
        BY <3>2 DEF TypeOK, ThreadInv, Busy
      <4> QED BY <1>1, <1>3, <4>1 DEF ResultInv
    <3> QED BY <3>1, <3>2
  <2>4. \A q \in Package : result'["build"][q] = "true" =>
          q \in made' \cup nobuild \cup tree.noMakefile \/ Blacklisted(q)
    BY <1>1, <1>3 DEF ResultInv, Phase
  <2>5. phase = "test" => \A q \in Package : result'["build"][q] = result["build"][q]
    BY <1>3 DEF Phase
  <2>6. phase \notin {"off", "buildDone", "testDone"} /\ Range(buildList) \subseteq Package
    BY <1>1 DEF Phase, ListInv
  <2> QED BY <2>2, <2>3, <2>4, <2>5, <2>6, SameDeps DEF ResultInv
<1>9. EndInv'
  BY SameDeps DEF TypeOK, EndInv, IsCompleted, Total, DepsMet, Busy
<1>10. NoPrematureEnd'
  BY SameDeps DEF TypeOK, NoPrematureEnd, DepsMet
<1> QED BY <1>2, <1>4, <1>5, <1>6, <1>7, <1>8, <1>9, <1>10

\* The decision to make a package, or not.
LEMMA BuildStep ==
  ASSUME RosmakeInv, NEW t \in Thread, ThreadBuild(t)
  PROVE  RosmakeInv'
<1> USE DEF RosmakeInv, treeVars, queueVars, mainVars, listVars, history
<1> DEFINE p == pkg[t]
           can == CanBuild(p, FailedPackages)
<1>0. phase \in Phase /\ p \in Package /\ p \in started /\ tpc[t] = "build"
  BY InPhase DEF ThreadBuild, ThreadInv, Busy
<1>1. UNCHANGED <<treeVars, queueVars, pkg, mainVars, history>>
  BY DEF ThreadBuild
<1>2. ListInv' /\ ListOrdered' /\ ReportIsTrue' /\ InstalledWasMade'
  BY <1>0, <1>1, MainFrame
<1>3. /\ can.state \in BOOLEAN
      /\ can.buildable /\ Reach[p] \cap tree.missing = {} => FailedPackages \cap Reach[p] = {}
      /\ can.state /\ ~can.buildable => p \in nobuild \cup tree.noMakefile \/ Blacklisted(p)
  BY DEF CanBuild, AllDeps
<1>4. CASE ~can.buildable /\ opt.mode # "everything"
  <2>1. /\ tpc' = [tpc EXCEPT ![t] = "return"]
        /\ ok' = [ok EXCEPT ![t] = can.state]
        /\ result' = [result EXCEPT ![phase][p] = IF can.state THEN "true" ELSE "false"]
    BY <1>4 DEF ThreadBuild
  <2>2. made' \subseteq Package
    BY <1>1 DEF TypeOK
  <2> HIDE DEF can
  <2> QED BY <1>0, <1>1, <1>3, <1>4, <2>1, <2>2, RecordStep
<1>5. CASE can.buildable \/ opt.mode = "everything"
  <2>1. tpc' = [tpc EXCEPT ![t] = "make"] /\ UNCHANGED <<result, ok>>
    BY <1>5 DEF ThreadBuild
  <2> HIDE DEF p, can
  <2>2. TypeOK'
    BY <1>1, <2>1 DEF TypeOK
  <2>3. QueueInv'
    BY <1>1, SameDeps DEF QueueInv
  <2>4. ThreadInv'
    <3>1. {u \in Thread : tpc'[u] \in Busy} = {u \in Thread : tpc[u] \in Busy}
      BY <1>0, <2>1 DEF TypeOK, Busy
    <3>2. \A u \in Thread : tpc'[u] \in Busy <=> tpc[u] \in Busy
      BY <1>0, <2>1 DEF TypeOK, Busy
    <3> QED BY <1>0, <1>1, <2>1, <3>1, <3>2, SameDeps DEF TypeOK, ThreadInv
  <2>5. NothingOnFailure'
    <3> SUFFICES ASSUME NEW u \in Thread, Making(u, pkg[u])', phase = "build",
                        opt.mode # "everything", Reach[pkg[u]] \cap tree.missing = {}
                 PROVE  Reach[pkg[u]] \cap {d \in Package : result["build"][d] = "false"} = {}
      BY <1>1, <2>1 DEF NothingOnFailure, Making
    <3>1. CASE u = t
      BY <1>3, <1>5, <3>1 DEF FailedPackages, p
    <3>2. CASE u # t
      <4>1. Making(u, pkg[u]) /\ pkg[u] \in Package
        BY <1>1, <2>1, <3>2 DEF Making, TypeOK, ThreadInv, Busy
      <4> QED BY <4>1 DEF NothingOnFailure
    <3> QED BY <3>1, <3>2
  <2>6. ResultInv'
    BY <1>0, <1>1, <2>1, SameDeps DEF TypeOK, ResultInv
  <2>7. EndInv'
    BY <1>0, <1>1, <2>1, SameDeps DEF TypeOK, EndInv, IsCompleted, Total, DepsMet, Busy
  <2>8. NoPrematureEnd'
    BY <1>0, <1>1, <2>1, SameDeps DEF TypeOK, NoPrematureEnd, DepsMet
  <2> QED BY <1>2, <2>2, <2>3, <2>4, <2>5, <2>6, <2>7, <2>8
<1> QED BY <1>4, <1>5

\* make ends.
LEMMA MakeStep ==
  ASSUME RosmakeInv, NEW t \in Thread, ThreadMake(t)
  PROVE  RosmakeInv'
<1> USE DEF RosmakeInv
<1>1. PICK good \in BOOLEAN :
        /\ ok' = [ok EXCEPT ![t] = good]
        /\ result' = [result EXCEPT ![phase][pkg[t]] = IF good THEN "true" ELSE "false"]
        /\ made' = IF good /\ phase = "build" THEN made \cup {pkg[t]} ELSE made
  BY DEF ThreadMake
<1>2. pkg[t] \in Package /\ made \subseteq Package
  BY DEF ThreadMake, ThreadInv, Busy, TypeOK
<1>3. /\ tpc[t] = "make" /\ tpc' = [tpc EXCEPT ![t] = "return"]
      /\ UNCHANGED <<treeVars, queueVars, pkg, mainVars, unmade>>
  BY DEF ThreadMake
<1> HIDE DEF RosmakeInv
<1> QED BY <1>1, <1>2, <1>3, RecordStep

\* A package is returned to the queue.
LEMMA ReturnStep ==
  ASSUME RosmakeInv, NEW t \in Thread, ThreadReturn(t)
  PROVE  RosmakeInv'
<1> USE DEF RosmakeInv, treeVars, mainVars, listVars, history
<1> DEFINE p == pkg[t]
<1>1. phase \in Phase /\ p \in Package /\ p \in started /\ tpc[t] = "return"
  BY InPhase DEF ThreadReturn, ThreadInv, Busy
<1>2. /\ UNCHANGED <<treeVars, toBuild, hack, ok, mainVars, result, history>>
      /\ started' = started \ {p} /\ pkg' = [pkg EXCEPT ![t] = NoPackage]
      /\ tpc' = [tpc EXCEPT ![t] = IF ok[t] \/ RobustQueue THEN "loop" ELSE "stop"]
      /\ done' = (done \/ Len(built') + Len(failed') = Total)
  BY DEF ThreadReturn
<1>3. ListInv' /\ ListOrdered' /\ ReportIsTrue' /\ InstalledWasMade'
  BY <1>1, <1>2, MainFrame
<1>4. built \in Seq(Package) /\ failed \in Seq(Package) /\ ok[t] \in BOOLEAN
  BY DEF TypeOK
<1>5. /\ built' \in Seq(Package) /\ failed' \in Seq(Package)
      /\ Range(built') = IF ok[t] THEN Range(built) \cup {p} ELSE Range(built)
      /\ Range(failed') = IF ok[t] THEN Range(failed) ELSE Range(failed) \cup {p}
      /\ IsInjective(built) /\ p \notin Range(built) => IsInjective(built')
      /\ ok[t] => failed' = failed
  <2>1. CASE ok[t]
    <3>1. built' = Append(built, p) /\ failed' = failed
      BY <2>1 DEF ThreadReturn
    <3> QED BY <1>1, <1>4, <2>1, <3>1, AppendFacts
  <2>2. CASE ~ok[t]
    <3>1. built' = built /\ failed' = Append(failed, p)
      BY <2>2 DEF ThreadReturn
    <3> QED BY <1>1, <1>4, <2>2, <3>1, AppendFacts
  <2> QED BY <2>1, <2>2
<1> HIDE DEF p
<1>6. TypeOK'
  BY <1>1, <1>2, <1>5 DEF TypeOK
<1>7. QueueInv'
  <2>1. \A i, j \in DOMAIN toBuild' :
          phase' \in {"clean", "build"} /\ toBuild'[j] \in AllDeps(toBuild[i])' => j < i
    BY <1>2, SameDeps DEF QueueInv
  <2> QED BY <1>1, <1>2, <1>4, <1>5, <2>1 DEF QueueInv
<1>8. ThreadInv'
  <2>1. {u \in Thread : tpc'[u] \in Busy} = {u \in Thread : tpc[u] \in Busy} \ {t}
        /\ tpc'[t] \notin Busy /\ tpc[t] \in Busy
    BY <1>1, <1>2 DEF TypeOK, Busy
  <2>2. \A u \in Thread : u # t => tpc'[u] = tpc[u] /\ pkg'[u] = pkg[u]
    BY <1>2 DEF TypeOK
  <2>3. started' = {pkg'[u] : u \in {v \in Thread : tpc'[v] \in Busy}}
    BY <1>2, <2>1, <2>2 DEF ThreadInv, p
  <2>4. \A u \in Thread : tpc'[u] \in Busy => pkg'[u] \in Package
    BY <2>1, <2>2 DEF ThreadInv
  <2>5. \A u, v \in Thread : tpc'[u] \in Busy /\ tpc'[v] \in Busy /\ pkg'[u] = pkg'[v] => u = v
    BY <2>1, <2>2 DEF ThreadInv
  <2>6. \A u \in Thread : tpc'[u] \in {"build", "make"} =>
          QueueDeps(pkg[u])' \subseteq Range(built') \cup Range(failed')
    BY <1>2, <1>5, <2>1, <2>2, SameDeps DEF ThreadInv, Busy
  <2>7. \A u \in Thread : tpc'[u] = "stop" => phase' = "build"
    BY <1>2, <2>2 DEF TypeOK, ThreadInv, RobustQueue
  <2>8. phase' = "test" => \A u, v \in Thread : tpc'[u] # "end" /\ tpc'[v] # "end" => u = v
    BY <1>1, <1>2, <2>2 DEF ThreadInv
  <2> QED BY <1>1, <1>2, <2>3, <2>4, <2>5, <2>6, <2>7, <2>8 DEF ThreadInv
<1>9. NothingOnFailure'
  BY <1>2 DEF TypeOK, NothingOnFailure, Making
<1>10. ResultInv'
  <2>1. phase \in {"clean", "build"} =>
          /\ \A q \in Range(built') : result[phase][q] = "true"
          /\ \A q \in Range(failed') : result[phase][q] = "false"
    BY <1>1, <1>4, <1>5 DEF ResultInv, p
  <2>2. \A u \in Thread : tpc'[u] = "return" =>
          result[phase][pkg'[u]] = IF ok[u] THEN "true" ELSE "false"
    BY <1>2 DEF TypeOK, ResultInv
  <2> QED BY <1>1, <1>2, <2>1, <2>2, SameDeps DEF ResultInv
<1>11. EndInv'
  <2>1. IsCompleted' => done'
    BY <1>2 DEF IsCompleted, Total
  <2>2. phase = "build" /\ opt.mode = "stop" /\ failed' # <<>> =>
          done' \/ \E u \in Thread : tpc'[u] = "stop"
    <3>1. CASE ok[t]
      BY <1>1, <1>2, <1>5, <3>1 DEF TypeOK, EndInv
    <3>2. CASE ~ok[t]
      BY <1>2, <3>2 DEF TypeOK, RobustQueue
    <3> QED BY <3>1, <3>2
  <2>3. phase = "test" => \A u \in Thread :
          /\ tpc'[u] \in Busy \cup {"loop"} => hack' = 0
          /\ tpc'[u] # "wait"
    BY <1>1, <1>2 DEF TypeOK, ThreadInv, EndInv, Busy
  <2> QED BY <1>2, <2>1, <2>2, <2>3 DEF EndInv
<1>12. NoPrematureEnd'
  BY <1>1, <1>2 DEF TypeOK, NoPrematureEnd
<1> QED BY <1>3, <1>6, <1>7, <1>8, <1>9, <1>10, <1>11, <1>12

\* The queue is stopped, by a failure or by the user.
LEMMA StopStep ==
  ASSUME RosmakeInv, (\E t \in Thread : ThreadStop(t)) \/ Interrupt
  PROVE  RosmakeInv'
<1> USE DEF RosmakeInv, treeVars, threadVars, mainVars, listVars, history
<1>1. /\ UNCHANGED <<treeVars, toBuild, built, failed, started, hack, pkg, ok, mainVars, result, history>>
      /\ done' = TRUE /\ phase \in Phase
      /\ tpc' \in [Thread -> {"loop", "wait", "build", "make", "return", "stop", "end"}]
      /\ \A u \in Thread : tpc'[u] = tpc[u] \/ (tpc[u] = "stop" /\ tpc'[u] = "end")
  BY InPhase DEF ThreadStop, Interrupt, TypeOK
<1>2. ListInv' /\ ListOrdered' /\ ReportIsTrue' /\ InstalledWasMade'
  BY <1>1, MainFrame
<1>3. TypeOK'
  BY <1>1 DEF TypeOK
<1>4. QueueInv'
  BY <1>1, SameDeps DEF QueueInv
<1>5. ThreadInv'
  <2>1. \A u \in Thread : tpc'[u] \in Busy <=> tpc[u] \in Busy
    BY <1>1 DEF Busy
  <2>2. {u \in Thread : tpc'[u] \in Busy} = {u \in Thread : tpc[u] \in Busy}
    BY <2>1
  <2> QED BY <1>1, <2>1, <2>2, SameDeps DEF ThreadInv
<1>6. NothingOnFailure'
  BY <1>1 DEF NothingOnFailure, Making
<1>7. ResultInv'
  BY <1>1, SameDeps DEF ResultInv
<1>8. EndInv'
  BY <1>1, SameDeps DEF EndInv, Busy, DepsMet
<1>9. NoPrematureEnd'
  BY <1>1 DEF NoPrematureEnd
<1> QED BY <1>2, <1>3, <1>4, <1>5, <1>6, <1>7, <1>8, <1>9

\* A thread's step, whatever it is.
LEMMA ThreadStep ==
  ASSUME RosmakeInv, NEW t \in Thread, ThreadNext(t)
  PROVE  RosmakeInv'
<1>1. hack \in 0 .. HackLimit + 1 /\ HackLimit \in Nat
  BY RosmakeAssumption DEF RosmakeInv, TypeOK
<1>2. CASE ThreadGet(t)
  <2>1. hack >= hack
    BY <1>1
  <2> QED BY <1>1, <1>2, <2>1, LeaveStep, WaitStep, TakeStep DEF ThreadGet, Look
<1>3. CASE ThreadWake(t)
  <2> DEFINE h == IF hack > HackLimit THEN hack ELSE hack + 1
  <2>1. h \in 0 .. HackLimit + 1 /\ h >= hack
    BY <1>1
  <2>2. /\ tpc[t] = "wait" /\ Look(t, h)
        /\ UNCHANGED <<treeVars, built, failed, done, ok, mainVars, result, history>>
    BY <1>3 DEF ThreadWake
  <2> HIDE DEF h
  <2> QED BY <2>1, <2>2, LeaveStep, WaitStep, TakeStep DEF Look
<1> QED BY <1>2, <1>3, BuildStep, MakeStep, ReturnStep, StopStep DEF ThreadNext

-----------------------------------------------------------------------------
(* The steps of main                                                       *)

\* Between the phases nothing but the list moves.
LEMMA NoPhase ==
  ASSUME RosmakeInv, phase \notin Phase, phase' \in {"listing", "listed"},
         UNCHANGED <<treeVars, queueVars, threadVars, passed, result, history>>
  PROVE  /\ QueueInv' /\ ThreadInv' /\ NothingOnFailure' /\ ResultInv'
         /\ ReportIsTrue' /\ InstalledWasMade' /\ EndInv' /\ NoPrematureEnd'
<1> USE DEF RosmakeInv, treeVars, queueVars, threadVars, history
<1>1. phase' \notin Phase \cup {"off", "buildDone", "testDone"}
  BY DEF Phase
<1>2. \A t \in Thread : tpc[t] = "end" /\ tpc[t] \notin Busy
  BY DEF ThreadInv, Busy
<1>3. \A p : Blacklisted(p)' = Blacklisted(p)
  BY DEF Blacklisted, AllDeps
<1>4. QueueInv' /\ NothingOnFailure' /\ ReportIsTrue' /\ NoPrematureEnd'
  BY <1>1 DEF Phase, QueueInv, NothingOnFailure, ReportIsTrue, NoPrematureEnd
<1>5. ThreadInv'
  BY <1>1, <1>2 DEF Phase, ThreadInv
<1>6. ResultInv'
  BY <1>1, <1>2, <1>3 DEF Phase, ResultInv
<1>7. InstalledWasMade'
  BY <1>3 DEF InstalledWasMade
<1>8. EndInv'
  BY <1>1 DEF Phase, EndInv
<1> QED BY <1>4, <1>5, <1>6, <1>7, <1>8

\* The packages asked for are the first to list.
LEMMA StartSessionStep ==
  ASSUME RosmakeInv, StartSession
  PROVE  RosmakeInv'
<1> USE DEF RosmakeInv
<1>1. QueueInv' /\ ThreadInv' /\ NothingOnFailure' /\ ResultInv'
      /\ ReportIsTrue' /\ InstalledWasMade' /\ EndInv' /\ NoPrematureEnd'
  BY NoPhase DEF StartSession, Phase
<1>2. buildList' = <<>> /\ stack' = <<>> /\ Range(buildList') = {} /\ Range(stack') = {}
  BY DEF StartSession, ListInv, Range
<1>3. tree' = tree /\ tree \in Trees /\ Range(Specified) \subseteq Package \ tree.missing
  BY RosmakeAssumption DEF StartSession, treeVars, TypeOK, Range
<1>4. TypeOK'
  BY <1>3, RosmakeAssumption DEF TypeOK, StartSession, treeVars, queueVars, threadVars, history
<1>5. ListInv'
  BY <1>2, <1>3 DEF ListInv, Closed, StartSession
<1>6. ListOrdered'
  BY <1>2 DEF ListOrdered, IsInjective
<1> QED BY <1>1, <1>4, <1>5, <1>6

\* The next package asked for.
LEMMA ListRequiredStep ==
  ASSUME RosmakeInv, ListRequired
  PROVE  RosmakeInv'
<1> USE DEF RosmakeInv
<1>1. QueueInv' /\ ThreadInv' /\ NothingOnFailure' /\ ResultInv'
      /\ ReportIsTrue' /\ InstalledWasMade' /\ EndInv' /\ NoPrematureEnd'
  BY NoPhase DEF ListRequired, Phase
<1>2. PICK p \in todo : todo' = todo \ {p} /\ stack' = IF p \in Range(buildList) THEN <<>> ELSE <<p>>
  BY DEF ListRequired
<1>3. UNCHANGED <<treeVars, queueVars, threadVars, opt, phase, buildList, passed, session, result, history>>
      /\ phase = "listing" /\ stack = <<>> /\ p \in Package
  BY DEF ListRequired, TypeOK
<1>4. stack' \in Seq(Package) /\ Range(stack') = {p} \ Range(buildList)
      /\ \A i \in DOMAIN stack' : i + 1 \notin DOMAIN stack'
  <2>1. CASE p \in Range(buildList)
    BY <1>2, <2>1 DEF Range
  <2>2. CASE p \notin Range(buildList)
    <3>1. stack' = <<p>> /\ DOMAIN <<p>> = {1} /\ <<p>>[1] = p /\ <<p>> \in Seq(Package)
      BY <1>2, <1>3, <2>2
    <3> QED BY <2>2, <3>1 DEF Range
  <2> QED BY <2>1, <2>2
<1>5. TypeOK'
  BY <1>2, <1>3, <1>4 DEF TypeOK, treeVars, queueVars, threadVars, history
<1>6. ListInv'
  <2>1. Closed' /\ Range(stack) = {}
    BY <1>2, <1>3, SameDeps DEF ListInv, Closed, treeVars, Range
  <2> QED BY <1>2, <1>3, <1>4, <2>1 DEF ListInv, treeVars
<1>7. ListOrdered'
  BY <1>3, SameDeps DEF ListOrdered, treeVars
<1> QED BY <1>1, <1>5, <1>6, <1>7

\* A dependency that is not listed yet comes first.
LEMMA ListDependencyStep ==
  ASSUME RosmakeInv, ListDependency
  PROVE  RosmakeInv'
<1> USE DEF RosmakeInv
<1>1. QueueInv' /\ ThreadInv' /\ NothingOnFailure' /\ ResultInv'
      /\ ReportIsTrue' /\ InstalledWasMade' /\ EndInv' /\ NoPrematureEnd'
  BY NoPhase DEF ListDependency, Phase
<1> DEFINE p == Last(stack)
           d == NextDep(p)
<1>2. stack \in Seq(Package) /\ stack # <<>>
  BY DEF ListDependency, TypeOK
<1>3. p \in Package /\ Len(stack) \in DOMAIN stack /\ p = stack[Len(stack)]
  BY <1>2, FrontFacts
<1>4. d \in GetDeps1(p) /\ d \notin Range(buildList) /\ d \in Package \ tree.missing
  <2>1. Deps1[p] \in Seq(Package)
    BY <1>3, RosmakeAssumption
  <2>2. Unlisted(p) \subseteq Nat /\ Unlisted(p) # {}
    BY <2>1 DEF Unlisted, ListDependency
  <2>3. Min(Unlisted(p)) \in Unlisted(p)
    BY <2>2, LeastNumber
  <2>4. d \in GetDeps1(p) \ Range(buildList)
    BY <2>3 DEF NextDep, Unlisted
  <2> QED BY <2>1, <2>4 DEF GetDeps1, Range
<1>5. UNCHANGED <<treeVars, queueVars, threadVars, opt, phase, todo, buildList, passed, session, result, history>>
      /\ phase = "listing" /\ stack' = Append(stack, d)
  BY DEF ListDependency
<1> HIDE DEF p, d
<1>6. /\ stack' \in Seq(Package) /\ Len(stack') = Len(stack) + 1
      /\ \A i \in DOMAIN stack : stack'[i] = stack[i]
      /\ stack'[Len(stack) + 1] = d /\ Range(stack') = Range(stack) \cup {d}
  BY <1>2, <1>4, <1>5, AppendFacts
<1>7. TypeOK'
  BY <1>5, <1>6 DEF TypeOK, treeVars, queueVars, threadVars, history
<1>8. ListInv'
  <2>1. Closed'
    BY <1>2, <1>5, SameDeps DEF ListInv, Closed, treeVars
  <2>2. \A i \in DOMAIN stack' : i + 1 \in DOMAIN stack' => stack'[i + 1] \in GetDeps1(stack'[i])
    <3> SUFFICES ASSUME NEW i \in DOMAIN stack', i + 1 \in DOMAIN stack'
                 PROVE  stack'[i + 1] \in GetDeps1(stack'[i])
      OBVIOUS
    <3>1. i \in DOMAIN stack /\ (i + 1 \in DOMAIN stack \/ i = Len(stack))
      BY <1>2, <1>6
    <3>2. CASE i + 1 \in DOMAIN stack
      BY <1>6, <3>1, <3>2 DEF ListInv
    <3>3. CASE i = Len(stack)
      BY <1>3, <1>4, <1>6, <3>1, <3>3
    <3> QED BY <3>1, <3>2, <3>3
  <2>3. \A i \in DOMAIN stack' : i + 1 \in DOMAIN stack' => stack'[i + 1] \in GetDeps1(stack[i])'
    BY <1>5, <2>2 DEF GetDeps1, treeVars
  <2> QED BY <1>4, <1>5, <1>6, <2>1, <2>3 DEF ListInv, treeVars
<1>9. ListOrdered'
  BY <1>5, SameDeps DEF ListOrdered, treeVars
<1> QED BY <1>1, <1>7, <1>8, <1>9

\* A package whose direct dependencies are listed has all of them listed.
LEMMA AllDepsListed ==
  ASSUME RosmakeInv, Closed, NEW p \in Package, GetDeps1(p) \subseteq Range(buildList)
  PROVE  AllDeps(p) \subseteq Range(buildList)
<1> SUFFICES ASSUME Reach[p] \cap tree.missing = {}, NEW d \in Reach[p]
             PROVE  d \in Range(buildList)
  BY DEF AllDeps
<1>1. Reach[p] = Range(Deps1[p]) \cup UNION {Reach[q] : q \in Range(Deps1[p])}
  BY RosmakeAssumption
<1>2. \A q \in Range(Deps1[p]) : q \in Range(buildList) /\ Reach[q] \cap tree.missing = {}
  BY <1>1 DEF GetDeps1
<1>3. CASE d \in Range(Deps1[p])
  BY <1>2, <1>3
<1>4. CASE \E q \in Range(Deps1[p]) : d \in Reach[q]
  BY <1>2, <1>4 DEF Closed, AllDeps
<1> QED BY <1>1, <1>3, <1>4

\* A package whose dependencies are listed is listed.
LEMMA ListPackageStep ==
  ASSUME RosmakeInv, ListPackage
  PROVE  RosmakeInv'
<1> USE DEF RosmakeInv
<1>1. QueueInv' /\ ThreadInv' /\ NothingOnFailure' /\ ResultInv'
      /\ ReportIsTrue' /\ InstalledWasMade' /\ EndInv' /\ NoPrematureEnd'
  BY NoPhase DEF ListPackage, Phase
<1> DEFINE p == Last(stack)
           n == Len(stack)
<1>2. stack \in Seq(Package) /\ stack # <<>> /\ buildList \in Seq(Package)
  BY DEF ListPackage, TypeOK
<1>3. /\ UNCHANGED <<treeVars, queueVars, threadVars, opt, phase, todo, passed, session, result, history>>
      /\ phase = "listing" /\ buildList' = Append(buildList, p) /\ stack' = Front(stack)
      /\ Unlisted(p) = {}
  BY DEF ListPackage
<1>4. /\ n \in DOMAIN stack /\ p = stack[n] /\ p \in Package /\ n \in Nat
      /\ DOMAIN stack = 1 .. n
      /\ stack' \in Seq(Package) /\ Len(stack') = n - 1
      /\ \A i \in 1 .. n - 1 : stack'[i] = stack[i]
      /\ Range(stack) = Range(stack') \cup {p}
  <2>1. n \in Nat /\ DOMAIN stack = 1 .. n
    BY <1>2
  <2> QED BY <1>2, <1>3, <2>1, FrontFacts
<1>5. DOMAIN stack' = 1 .. n - 1
  BY <1>4
<1> HIDE DEF p, n
<1>6. p \notin Range(buildList) /\ p \notin tree.missing
  BY <1>4 DEF ListInv
<1>7. /\ buildList' \in Seq(Package) /\ Len(buildList') = Len(buildList) + 1
      /\ \A i \in DOMAIN buildList : buildList'[i] = buildList[i]
      /\ buildList'[Len(buildList) + 1] = p
      /\ Range(buildList') = Range(buildList) \cup {p}
      /\ IsInjective(buildList) => IsInjective(buildList')
  BY <1>2, <1>3, <1>4, <1>6, AppendFacts
<1>8. Closed
  BY <1>2 DEF ListInv
<1>9. GetDeps1(p) \subseteq Range(buildList)
  <2>1. \A i \in DOMAIN Deps1[p] : Deps1[p][i] \notin GetDeps1(p) \ Range(buildList)
    BY <1>3 DEF Unlisted
  <2> QED BY <2>1 DEF GetDeps1, Range
<1>10. AllDeps(p) \subseteq Range(buildList)
  BY <1>4, <1>8, <1>9, AllDepsListed
<1>11. TypeOK'
  BY <1>3, <1>4, <1>7 DEF TypeOK, treeVars, queueVars, threadVars, history
<1>12. ListInv'
  <2>1. Closed'
    BY <1>3, <1>7, <1>8, <1>9, <1>10, SameDeps DEF Closed, treeVars
  <2>2. p \notin Range(stack')
    <3> SUFFICES ASSUME NEW i \in DOMAIN stack', stack'[i] = p PROVE FALSE
      BY DEF Range
    <3>1. i \in DOMAIN stack /\ i + 1 \in DOMAIN stack /\ stack[i] = p
      BY <1>4, <1>5
    <3>2. stack[i + 1] \in GetDeps1(p)
      BY <3>1 DEF ListInv
    <3>3. stack[i + 1] \in Range(stack) /\ stack[i + 1] \in Range(buildList)
      BY <1>9, <3>1, <3>2 DEF Range
    <3> QED BY <3>3 DEF ListInv
  <2>3. \A i \in DOMAIN stack' : i + 1 \in DOMAIN stack' => stack'[i + 1] \in GetDeps1(stack'[i])
    BY <1>4, <1>5 DEF ListInv
  <2>4. \A i \in DOMAIN stack' : i + 1 \in DOMAIN stack' => stack'[i + 1] \in GetDeps1(stack[i])'
    BY <1>3, <2>3 DEF GetDeps1, treeVars
  <2> QED BY <1>3, <1>4, <1>6, <1>7, <2>1, <2>2, <2>4 DEF ListInv, treeVars
<1>13. ListOrdered'
  <2> SUFFICES ASSUME NEW i \in DOMAIN buildList', NEW j \in DOMAIN buildList',
                      buildList'[j] \in GetDeps1(buildList'[i]) \cup AllDeps(buildList'[i])
               PROVE  j < i
    BY <1>3, <1>7 DEF ListOrdered, GetDeps1, AllDeps, treeVars
  <2>1. \A m \in DOMAIN buildList' : m \in DOMAIN buildList \/ m = Len(buildList) + 1
    BY <1>2, <1>7
  <2>2. buildList'[j] \in Range(buildList)
    <3>1. CASE i \in DOMAIN buildList
      BY <1>7, <1>8, <3>1 DEF Closed, Range
    <3>2. CASE i = Len(buildList) + 1
      BY <1>7, <1>9, <1>10, <3>2
    <3> QED BY <2>1, <3>1, <3>2
  <2>3. j \in DOMAIN buildList
    BY <1>6, <1>7, <2>1, <2>2
  <2>4. CASE i \in DOMAIN buildList
    BY <1>7, <2>3, <2>4 DEF ListOrdered
  <2>5. CASE i = Len(buildList) + 1
    BY <1>2, <2>3, <2>5
  <2> QED BY <2>1, <2>4, <2>5
<1> QED BY <1>1, <1>11, <1>12, <1>13

\* --specified-only takes the other packages out of the list.
LEMMA DropExtraStep ==
  ASSUME RosmakeInv, DropExtra
  PROVE  RosmakeInv'
<1> USE DEF RosmakeInv
<1>1. QueueInv' /\ ThreadInv' /\ NothingOnFailure' /\ ResultInv'
      /\ ReportIsTrue' /\ InstalledWasMade' /\ EndInv' /\ NoPrematureEnd'
  BY NoPhase DEF DropExtra, Phase
<1> DEFINE k == Min(Extra)
<1>2. buildList \in Seq(Package)
  BY DEF TypeOK
<1>3. k \in DOMAIN buildList /\ opt.specifiedOnly /\ buildList[k] \notin Range(Specified)
  <2>1. Extra \subseteq Nat /\ Extra # {}
    BY <1>2 DEF Extra, DropExtra
  <2>2. k \in Extra
    BY <2>1, LeastNumber
  <2> QED BY <2>2 DEF Extra
<1>4. /\ UNCHANGED <<treeVars, queueVars, threadVars, opt, phase, todo, stack, passed, session, result, history>>
      /\ phase = "listing" /\ stack = <<>> /\ todo = {}
      /\ buildList' = RemoveAt(buildList, k)
  BY DEF DropExtra
<1> HIDE DEF k
<1>5. /\ buildList' \in Seq(Package)
      /\ Range(buildList') \cup {buildList[k]} = Range(buildList)
      /\ IsInjective(buildList) => IsInjective(buildList')
  BY <1>2, <1>3, <1>4, RemoveAtFacts, RemoveAtRange
<1>6. TypeOK'
  BY <1>4, <1>5 DEF TypeOK, treeVars, queueVars, threadVars, history
<1>7. ListInv'
  BY <1>3, <1>4, <1>5 DEF ListInv, treeVars
<1>8. ListOrdered'
  <2> SUFFICES ASSUME NEW i \in DOMAIN buildList', NEW j \in DOMAIN buildList',
                      buildList'[j] \in GetDeps1(buildList'[i]) \cup AllDeps(buildList'[i])
               PROVE  j < i
    BY <1>4, <1>5 DEF ListOrdered, GetDeps1, AllDeps, treeVars
  <2>1. Before(j, k) < Before(i, k)
    BY <1>2, <1>3, <1>4, RemoveAtOrder DEF ListOrdered
  <2> QED BY <1>2, <1>3, <1>4, <2>1, RemoveAtOrder
<1> QED BY <1>1, <1>6, <1>7, <1>8

\* The list is ready.
LEMMA EndListingStep ==
  ASSUME RosmakeInv, EndListing
  PROVE  RosmakeInv'
<1> USE DEF RosmakeInv
<1>1. QueueInv' /\ ThreadInv' /\ NothingOnFailure' /\ ResultInv'
      /\ ReportIsTrue' /\ InstalledWasMade' /\ EndInv' /\ NoPrematureEnd'
  BY NoPhase DEF EndListing, Phase
<1>2. TypeOK'
  BY DEF TypeOK, EndListing, treeVars, queueVars, threadVars, listVars, history
<1>3. ListInv'
  <2>1. opt.specifiedOnly => Range(buildList) \subseteq Range(Specified)
    BY DEF EndListing, Extra, Range
  <2>2. \A p : GetDeps1(p)' = GetDeps1(p) /\ AllDeps(p)' = AllDeps(p)
    BY DEF EndListing, GetDeps1, AllDeps, treeVars
  <2> QED BY <2>1, <2>2 DEF ListInv, Closed, EndListing, treeVars, listVars
<1>4. ListOrdered'
  BY DEF ListOrdered, GetDeps1, AllDeps, EndListing, treeVars, listVars
<1> QED BY <1>1, <1>2, <1>3, <1>4

\* Marks may be taken away between sessions.
LEMMA UnmarkStep ==
  ASSUME RosmakeInv, UnmarkInstalled
  PROVE  RosmakeInv'
<1> USE DEF RosmakeInv
<1>1. /\ UNCHANGED <<tree, queueVars, threadVars, opt, phase, listVars, passed, result, made>>
      /\ phase = "off" /\ phase \notin Phase \cup {"buildDone", "testDone"}
      /\ nobuild' \subseteq nobuild /\ unmade' = unmade \cap nobuild'
      /\ session' \in 0 .. MaxSession
  BY RosmakeAssumption DEF UnmarkInstalled, TypeOK, Phase
<1>2. TypeOK'
  BY <1>1 DEF TypeOK, queueVars, threadVars, listVars
<1>3. ListInv' /\ ListOrdered'
  BY <1>1, SameDeps DEF ListInv, Closed, ListOrdered, listVars
<1>4. QueueInv' /\ NothingOnFailure' /\ ReportIsTrue' /\ NoPrematureEnd' /\ EndInv'
  BY <1>1 DEF QueueInv, NothingOnFailure, ReportIsTrue, NoPrematureEnd, EndInv, Phase
<1>5. ThreadInv'
  BY <1>1, SameDeps DEF ThreadInv, queueVars, threadVars
<1>6. ResultInv'
  BY <1>1 DEF ResultInv, ThreadInv, queueVars, threadVars, Phase
<1>7. InstalledWasMade'
  BY <1>1, SameDeps DEF InstalledWasMade
<1> QED BY <1>2, <1>3, <1>4, <1>5, <1>6, <1>7

\* A queue for the cleaning or the build starts with the whole list.
LEMMA StartQueueStep ==
  ASSUME RosmakeInv, phase \in {"listed", "cleanDone"}, NEW ph \in {"clean", "build"},
         StartPhase(ph, buildList),
         UNCHANGED <<treeVars, opt, listVars, passed, session, result, history>>
  PROVE  RosmakeInv'
<1> USE DEF RosmakeInv, treeVars, listVars, history
<1>1. /\ phase' = ph /\ toBuild' = buildList /\ built' = <<>> /\ failed' = <<>>
      /\ done' = FALSE /\ started' = {} /\ hack' = 0 /\ UNCHANGED <<pkg, ok>>
      /\ tpc' = [t \in Thread |-> "loop"]
  BY DEF StartPhase
<1>2. \A t \in Thread : tpc'[t] = "loop" /\ tpc'[t] \notin Busy
  BY <1>1 DEF Busy
<1>3. Range(built') = {} /\ Range(failed') = {}
  BY <1>1 DEF Range
<1>4. \A p : GetDeps1(p)' = GetDeps1(p) /\ AllDeps(p)' = AllDeps(p) /\ Blacklisted(p)' = Blacklisted(p)
  BY DEF GetDeps1, AllDeps, Blacklisted
<1>5. TypeOK'
  <2>1. <<>> \in Seq(Package) /\ 0 \in 0 .. HackLimit + 1
    BY RosmakeAssumption
  <2> QED BY <1>1, <2>1 DEF TypeOK, Phase
<1>6. ListInv' /\ ListOrdered'
  BY <1>1, <1>4 DEF ListInv, Closed, ListOrdered
<1>7. QueueInv'
  <2>1. IsInjective(built')
    BY <1>1 DEF IsInjective
  <2>2. \A i, j \in DOMAIN toBuild' : toBuild'[j] \in AllDeps(toBuild[i])' => j < i
    BY <1>1, <1>4 DEF ListOrdered
  <2> QED BY <1>1, <1>3, <2>1, <2>2 DEF QueueInv, ListOrdered
<1>8. ThreadInv'
  BY <1>1, <1>2 DEF ThreadInv, Phase
<1>9. NothingOnFailure'
  BY <1>2 DEF NothingOnFailure, Making
<1>10. ResultInv'
  BY <1>1, <1>2, <1>3, <1>4 DEF ResultInv
<1>11. ReportIsTrue' /\ NoPrematureEnd'
  BY <1>1, <1>2 DEF ReportIsTrue, NoPrematureEnd
<1>12. InstalledWasMade'
  BY <1>4 DEF InstalledWasMade
<1>13. EndInv'
  <2>1. IsCompleted' => toBuild' = <<>>
    <3>1. Total' = Len(buildList) /\ Len(built') = 0 /\ Len(failed') = 0
      BY <1>1 DEF Total
    <3>2. buildList \in Seq(Package)
      BY DEF TypeOK
    <3> QED BY <1>1, <3>1, <3>2 DEF IsCompleted
  <2> QED BY <1>1, <2>1 DEF EndInv
<1> QED BY <1>5, <1>6, <1>7, <1>8, <1>9, <1>10, <1>11, <1>12, <1>13

\* The cleaning, the build, or none when only tests are asked for.
LEMMA StartBuildStep ==
  ASSUME RosmakeInv, StartClean \/ StartBuild
  PROVE  RosmakeInv'
<1>1. CASE StartClean
  BY <1>1, StartQueueStep DEF StartClean
<1>2. CASE StartBuild /\ opt.build
  BY <1>2, StartQueueStep DEF StartBuild
<1>3. CASE StartBuild /\ ~opt.build
  <2> USE DEF RosmakeInv, treeVars, queueVars, threadVars, listVars, history
  <2>1. /\ UNCHANGED <<treeVars, queueVars, threadVars, opt, listVars, passed, session, result, history>>
        /\ phase' = "buildDone" /\ phase \in {"listed", "cleanDone"} /\ ~opt.build
    BY <1>3 DEF StartBuild
  <2>2. \A t \in Thread : tpc[t] = "end" /\ tpc[t] \notin Busy
    BY <2>1 DEF ThreadInv, Busy, Phase
  <2>3. \A p : GetDeps1(p)' = GetDeps1(p) /\ AllDeps(p)' = AllDeps(p) /\ Blacklisted(p)' = Blacklisted(p)
    BY <2>1 DEF GetDeps1, AllDeps, Blacklisted
  <2>4. TypeOK'
    BY <2>1 DEF TypeOK
  <2>5. ListInv' /\ ListOrdered'
    BY <2>1, <2>3 DEF ListInv, Closed, ListOrdered
  <2>6. QueueInv' /\ NothingOnFailure' /\ ReportIsTrue' /\ NoPrematureEnd' /\ EndInv'
    BY <2>1 DEF QueueInv, NothingOnFailure, ReportIsTrue, NoPrematureEnd, EndInv, Phase
  <2>7. ThreadInv'
    BY <2>1, <2>2 DEF ThreadInv, Phase
  <2>8. ResultInv'
    BY <2>1, <2>2, <2>3 DEF ResultInv
  <2>9. InstalledWasMade'
    BY <2>1, <2>3 DEF InstalledWasMade
  <2> QED BY <2>4, <2>5, <2>6, <2>7, <2>8, <2>9
<1> QED BY <1>1, <1>2, <1>3

\* The tests start, in one thread.
LEMMA StartTestStep ==
  ASSUME RosmakeInv, StartTest
  PROVE  RosmakeInv'
<1> USE DEF RosmakeInv, treeVars, listVars, history
<1>1. /\ phase' = "test" /\ toBuild' = Specified /\ built' = <<>> /\ failed' = <<>>
      /\ done' = FALSE /\ started' = {} /\ hack' = 0 /\ UNCHANGED <<pkg, ok>>
      /\ tpc' = [t \in Thread |-> IF t # CHOOSE u \in Thread : TRUE THEN "end" ELSE "loop"]
      /\ phase = "buildDone"
      /\ UNCHANGED <<treeVars, opt, listVars, passed, session, result, history>>
  BY DEF StartTest, StartPhase
<1>2. \A t \in Thread : /\ tpc'[t] \in {"loop", "end"} /\ tpc'[t] \notin Busy
                        /\ tpc'[t] # "end" => t = CHOOSE u \in Thread : TRUE
  BY <1>1 DEF Busy
<1>3. Specified \in Seq(Package)
  BY RosmakeAssumption
<1>4. \A p : GetDeps1(p)' = GetDeps1(p) /\ AllDeps(p)' = AllDeps(p) /\ Blacklisted(p)' = Blacklisted(p)
  BY <1>1 DEF GetDeps1, AllDeps, Blacklisted
<1>5. TypeOK'
  <2>1. <<>> \in Seq(Package) /\ 0 \in 0 .. HackLimit + 1
    BY RosmakeAssumption
  <2>2. tpc' \in [Thread -> {"loop", "wait", "build", "make", "return", "stop", "end"}]
    BY <1>1
  <2> QED BY <1>1, <1>3, <2>1, <2>2 DEF TypeOK, Phase
<1>6. ListInv' /\ ListOrdered'
  BY <1>1, <1>4 DEF ListInv, Closed, ListOrdered
<1>7. QueueInv' /\ NothingOnFailure'
  BY <1>1 DEF QueueInv, NothingOnFailure
<1>8. ThreadInv'
  BY <1>1, <1>2 DEF ThreadInv, Phase
<1>9. ResultInv'
  BY <1>1, <1>2, <1>4 DEF ResultInv
<1>10. ReportIsTrue'
  BY <1>1 DEF ReportIsTrue
<1>11. InstalledWasMade'
  BY <1>1, <1>4 DEF InstalledWasMade
<1>12. EndInv'
  <2>1. IsCompleted' => toBuild' = <<>>
    <3>1. Total' = Len(Specified) /\ Len(built') = 0 /\ Len(failed') = 0
      BY <1>1 DEF Total
    <3> QED BY <1>1, <1>3, <3>1 DEF IsCompleted
  <2> QED BY <1>1, <1>2, <2>1 DEF EndInv
<1>13. NoPrematureEnd'
  <2> SUFFICES ASSUME NEW t \in Thread
               PROVE  \E u \in Thread : tpc'[u] # "end"
    BY <1>1 DEF NoPrematureEnd
  <2>1. (CHOOSE u \in Thread : TRUE) \in Thread
    OBVIOUS
  <2> QED BY <1>1, <2>1
<1> QED BY <1>5, <1>6, <1>7, <1>8, <1>9, <1>10, <1>11, <1>12, <1>13

\* A queue that succeeded has built the whole list.
LEMMA SucceededIsAll ==
  ASSUME RosmakeInv, phase \in {"clean", "build"}, Succeeded
  PROVE  Range(built) = Range(buildList)
<1> USE DEF RosmakeInv
<1>1. /\ built \in Seq(Package) /\ IsInjective(built)
      /\ buildList \in Seq(Package) /\ IsInjective(buildList)
      /\ Range(built) \subseteq Range(buildList) /\ Len(built) = Len(buildList)
  BY DEF TypeOK, QueueInv, ListOrdered, Succeeded, Total
<1>2. /\ IsFiniteSet(Range(buildList))
      /\ Cardinality(Range(buildList)) = Cardinality(Range(built))
  BY <1>1, InjectiveCount
<1> QED BY <1>1, <1>2, FS_Subset

\* The threads have been joined.
LEMMA EndPhaseStep ==
  ASSUME RosmakeInv, EndPhase
  PROVE  RosmakeInv'
<1> USE DEF RosmakeInv, treeVars, queueVars, threadVars, listVars, history
<1>1. /\ UNCHANGED <<treeVars, queueVars, threadVars, opt, listVars, session, result, history>>
      /\ phase \in Phase /\ phase' \notin Phase \cup {"off", "listing", "listed"}
      /\ phase = "clean" => phase' = "cleanDone"
      /\ phase = "build" => phase' = "buildDone"
      /\ phase = "test" => phase' = "testDone"
      /\ passed' \in [Phase -> BOOLEAN]
      /\ phase # "build" => passed'["build"] = passed["build"]
      /\ phase = "build" /\ passed'["build"] => Succeeded
  BY DEF EndPhase, Phase, TypeOK
<1>2. \A t \in Thread : tpc[t] = "end" /\ tpc[t] \notin Busy
  BY DEF EndPhase, Busy
<1>3. \A p : GetDeps1(p)' = GetDeps1(p) /\ AllDeps(p)' = AllDeps(p) /\ Blacklisted(p)' = Blacklisted(p)
  BY <1>1 DEF GetDeps1, AllDeps, Blacklisted
<1>4. TypeOK'
  BY <1>1 DEF TypeOK, Phase
<1>5. ListInv' /\ ListOrdered'
  BY <1>1, <1>3 DEF ListInv, Closed, ListOrdered, Phase
<1>6. QueueInv' /\ NothingOnFailure' /\ NoPrematureEnd' /\ EndInv'
  BY <1>1 DEF QueueInv, NothingOnFailure, NoPrematureEnd, EndInv, Phase
<1>7. ThreadInv'
  BY <1>1, <1>2 DEF ThreadInv, Phase
<1>8. phase \in {"build", "test"} /\ opt.build /\ passed'["build"] =>
        \A p \in Range(buildList) : result["build"][p] = "true"
  <2>1. CASE phase = "build"
    BY <1>1, <2>1, SucceededIsAll DEF ResultInv
  <2>2. CASE phase = "test"
    BY <1>1, <2>2 DEF ResultInv
  <2> QED BY <2>1, <2>2
<1>9. ResultInv'
  BY <1>1, <1>2, <1>3, <1>8 DEF ResultInv, Phase
<1>10. ReportIsTrue'
  <2>1. phase = "build" => Range(failed) \subseteq BuildFailures
    BY DEF BuildFailures, QueueInv, ResultInv
  <2> QED BY <1>1, <1>8, <2>1 DEF ReportIsTrue, BuildFailures, Phase
<1>11. InstalledWasMade'
  BY <1>1, <1>3 DEF InstalledWasMade
<1> QED BY <1>4, <1>5, <1>6, <1>7, <1>9, <1>10, <1>11

\* A session ends: what it marks, it made or did not have to make.
LEMMA EndSessionStep ==
  ASSUME RosmakeInv, EndSession
  PROVE  RosmakeInv'
<1> USE DEF RosmakeInv
<1>1. /\ phase \in {"testDone", "buildDone"} /\ phase' = "off" /\ buildList' = <<>>
      /\ phase \notin Phase \cup {"listing", "off"} /\ phase' \notin Phase
      /\ opt' = NoOption /\ toBuild' = <<>> /\ built' = <<>> /\ failed' = <<>>
      /\ done' = FALSE /\ hack' = 0
      /\ ok' = [t \in Thread |-> FALSE]
      /\ result' = [ph \in Phase |-> NoResult]
      /\ passed' = [ph \in Phase |-> TRUE]
      /\ made' = made \cap nobuild'
      /\ unmade' = IF opt.build THEN unmade ELSE unmade \cup (nobuild' \ nobuild)
      /\ nobuild' \subseteq nobuild \cup Range(Specified)
      /\ opt.build /\ nobuild' # nobuild => passed["build"]
      /\ UNCHANGED <<tree, todo, stack, session, started, tpc, pkg>>
  BY DEF EndSession, Phase
<1>2. \A t \in Thread : tpc[t] = "end" /\ tpc[t] \notin Busy
  BY <1>1 DEF ThreadInv, Busy
<1>3. \A p : Blacklisted(p)' = Blacklisted(p)
  BY <1>1 DEF Blacklisted, AllDeps
<1>4. Range(Specified) \subseteq Range(buildList) /\ Range(buildList) \subseteq Package
  BY <1>1 DEF ListInv, Range
<1>5. TypeOK'
  <2>1. opt' \in Option
    BY <1>1 DEF Option, NoOption
  <2>2. result' \in [Phase -> [Package -> {"none", "true", "false"}]]
    BY <1>1 DEF NoResult
  <2>3. nobuild' \cup made' \cup unmade' \subseteq Package
    BY <1>1, <1>4 DEF TypeOK
  <2>4. <<>> \in Seq(Package) /\ 0 \in 0 .. HackLimit + 1
    BY RosmakeAssumption
  <2> QED BY <1>1, <2>1, <2>2, <2>3, <2>4 DEF TypeOK
<1>6. ListInv' /\ ListOrdered'
  BY <1>1 DEF ListInv, Closed, ListOrdered, IsInjective, Range
<1>7. QueueInv' /\ NothingOnFailure' /\ ReportIsTrue' /\ NoPrematureEnd' /\ EndInv'
  BY <1>1 DEF QueueInv, NothingOnFailure, ReportIsTrue, NoPrematureEnd, EndInv, Phase
<1>8. ThreadInv'
  BY <1>1, <1>2 DEF ThreadInv, Phase
<1>9. ResultInv'
  <2>1. \A p \in Package : result'["build"][p] = "none"
    BY <1>1 DEF NoResult, Phase
  <2> QED BY <1>1, <1>2, <2>1 DEF ResultInv
<1>10. InstalledWasMade'
  <2> SUFFICES ASSUME NEW p \in nobuild', p \notin tree.noMakefile, p \notin unmade', ~Blacklisted(p)
               PROVE  p \in made
    BY <1>1, <1>3, <1>5 DEF InstalledWasMade, TypeOK
  <2>1. CASE p \in nobuild
    BY <1>1, <2>1 DEF InstalledWasMade
  <2>2. CASE p \notin nobuild
    <3>1. opt.build /\ passed["build"] /\ p \in Range(buildList)
      BY <1>1, <1>4, <2>2
    <3>2. result["build"][p] = "true"
      BY <1>1, <3>1 DEF ResultInv
    <3> QED BY <1>4, <2>2, <3>1, <3>2 DEF ResultInv
  <2> QED BY <2>1, <2>2
<1> QED BY <1>5, <1>6, <1>7, <1>8, <1>9, <1>10

-----------------------------------------------------------------------------
(* The theorems                                                            *)

LEMMA InitInv == Init => RosmakeInv
<1> SUFFICES ASSUME Init PROVE RosmakeInv
  OBVIOUS
<1>1. phase = "off" /\ phase \notin Phase
  BY DEF Init, Phase
<1>2. \A t \in Thread : tpc[t] = "end" /\ tpc[t] \notin Busy
  BY DEF Init, Busy
<1>3. TypeOK
  <2>1. opt \in Option
    BY DEF Init, Option, NoOption
  <2>2. result \in [Phase -> [Package -> {"none", "true", "false"}]]
    BY DEF Init, NoResult
  <2>3. <<>> \in Seq(Package) /\ 0 \in 0 .. HackLimit + 1 /\ 0 \in 0 .. MaxSession
    BY RosmakeAssumption
  <2> QED BY <2>1, <2>2, <2>3 DEF Init, TypeOK
<1>4. ListInv /\ ListOrdered
  BY DEF Init, ListInv, Closed, ListOrdered, IsInjective, Range
<1>5. QueueInv /\ NothingOnFailure /\ ReportIsTrue /\ NoPrematureEnd /\ EndInv
  BY <1>1 DEF QueueInv, NothingOnFailure, ReportIsTrue, NoPrematureEnd, EndInv, Phase
<1>6. ThreadInv
  BY <1>1, <1>2 DEF Init, ThreadInv
<1>7. ResultInv
  <2>1. \A p \in Package : result["build"][p] = "none"
    BY DEF Init, NoResult, Phase
  <2> QED BY <1>1, <1>2, <2>1 DEF ResultInv
<1>8. InstalledWasMade
  BY DEF Init, InstalledWasMade
<1> QED BY <1>3, <1>4, <1>5, <1>6, <1>7, <1>8 DEF RosmakeInv

\* A step in which nothing changes.
LEMMA StutterStep ==
  ASSUME RosmakeInv, UNCHANGED vars
  PROVE  RosmakeInv'
<1> USE DEF RosmakeInv, vars, treeVars, queueVars, threadVars, mainVars, listVars, history
<1>1. TypeOK' /\ QueueInv' /\ ListInv' /\ ListOrdered'
  BY SameDeps DEF TypeOK, QueueInv, ListInv, ListOrdered, Closed
<1>2. ThreadInv' /\ NothingOnFailure' /\ ResultInv'
  BY SameDeps DEF ThreadInv, NothingOnFailure, Making, ResultInv
<1>3. ReportIsTrue' /\ InstalledWasMade'
  BY SameDeps DEF ReportIsTrue, BuildFailures, InstalledWasMade
<1>4. EndInv' /\ NoPrematureEnd'
  BY SameDeps DEF EndInv, NoPrematureEnd, IsCompleted, Total, DepsMet
<1> QED BY <1>1, <1>2, <1>3, <1>4

LEMMA NextStep == RosmakeInv /\ [Next]_vars => RosmakeInv'
BY ThreadStep, StopStep, UnmarkStep, StartSessionStep, ListRequiredStep, ListDependencyStep,
   ListPackageStep, DropExtraStep, EndListingStep, StartBuildStep, StartTestStep, EndPhaseStep,
   EndSessionStep, StutterStep DEF Next, MainNext

\* What the invariant says of a package that is being made.
LEMMA InvImpliesOrder == RosmakeInv => BuildOrderSound
<1> SUFFICES ASSUME RosmakeInv PROVE BuildOrderSound
  OBVIOUS
<1> USE DEF RosmakeInv
<1>1. ListComplete
  <2>1. phase \notin {"off", "listing"} => Range(stack) = {} /\ todo = {}
    BY DEF ListInv, Range
  <2> QED BY <2>1 DEF ListComplete, ListInv, Closed
<1>2. DependenciesFirst
  <2> SUFFICES ASSUME NEW t \in Thread, NEW p \in Package, Making(t, p),
                      Reach[p] \cap tree.missing = {}
               PROVE  /\ phase = "build" => Reach[p] \cap (Range(toBuild) \cup started) = {}
                      /\ phase = "test" =>
                           Reach[p] \cap Range(Specified) \subseteq Range(built) \cup Range(failed)
    BY DEF DependenciesFirst
  <2>1. tpc[t] = "make" /\ pkg[t] = p
    BY DEF Making
  <2>2. phase = "test" => QueueDeps(p) = Reach[p] \cap Range(Specified)
    BY DEF QueueDeps, AllDeps
  <2> QED BY <2>1, <2>2, DependenciesDone DEF ThreadInv
<1> QED BY <1>1, <1>2 DEF BuildOrderSound

\* build_or_recurse and the build queue: for any packages and dependencies, any
\* number of threads and any options, the list is complete and in order, and a
\* package is made only after what it needs and never on top of a failure.
THEOREM BuildOrderIsSound == Spec => []BuildOrderSound
<1>1. Spec => []RosmakeInv
  BY InitInv, NextStep, PTL DEF Spec
<1> QED BY <1>1, InvImpliesOrder, PTL

\* parallel_build_pkgs, CompileThread.run and the end of main: no thread leaves
\* work behind unless the build is being stopped, a build reported as passed made
\* or did not need every package of the list, failures are all in the summary,
\* and a package is marked as installed only if that is true of it.
THEOREM SessionReportIsSound == Spec => []SessionReportSound
<1>1. Spec => []RosmakeInv
  BY InitInv, NextStep, PTL DEF Spec
<1>2. RosmakeInv => SessionReportSound
  BY DEF RosmakeInv, SessionReportSound
<1> QED BY <1>1, <1>2, PTL

=============================================================================
