--------------------------- MODULE BareTestProofs ---------------------------
(***************************************************************************)
(* Theorems about rosunit's process monitor and test runner, for any       *)
(* processes, names, kinds, killer threads and attempts.                   *)
(*                                                                         *)
(* WatchedToTheEnd is not inductive: the final kill needs to know that     *)
(* what runs is in the queue, with a killer or among the core processes.   *)
(* SuccessIsEarned rests on the monitor too: the results that were read    *)
(* are those the verdict is about only because no process of the test runs *)
(* any more, and a second attempt is admitted only when the monitor has    *)
(* seen the first one dead, as both have one name.                         *)
(***************************************************************************)
EXTENDS BareTest, TLAPS

USE PmonAssumption, BareTestAssumption

-----------------------------------------------------------------------------
(* Types                                                                   *)

TypeMon ==
  /\ procs \subseteq Proc /\ coreProcs \in Seq(Proc) /\ deadList \subseteq Proc
  /\ isShutdown \in BOOLEAN /\ regComplete \in BOOLEAN /\ done \in BOOLEAN
  /\ plock \in {User, NoProc}

ProcState == [started : BOOLEAN, stopped : BOOLEAN, popen : BOOLEAN,
              os : {"none", "running", "exited"}, spawn : Nat]

TypeProc ==
  /\ proc \in [Proc -> ProcState]
  /\ kind \in Kinds
  /\ stopping \in [Thread -> Proc \cup {NoProc}]

MonPCs == {"off", "copy", "poll", "bury", "buryStop", "burySave", "respawn",
           "respawnStop", "respawnStart", "post", "kill", "core", "end"}
UserPCs == {"idle", "append", "start", "kill", "join", "setUp", "clean", "register",
            "startTest", "alive", "poll", "read", "timedOut", "tearDown", "joinTest", "exited"}

TypeRun ==
  /\ pc \in MonPCs
  /\ copy \subseteq Proc /\ dead \subseteq Proc /\ bury \subseteq Proc /\ respawn \subseteq Proc
  /\ queue \subseteq Proc /\ stray \subseteq Proc
  /\ cur \in Proc \cup {NoProc}
  /\ core \in Seq(Proc) /\ killing \in [Killer -> Proc \cup {NoProc}]
  /\ pc \in {"buryStop", "burySave", "respawnStop", "respawnStart"} => cur \in Proc

TypeUser ==
  /\ fresh \subseteq Proc /\ ucur \in Proc \cup {NoProc} /\ kills \in 0 .. MaxKills
  /\ upc \in UserPCs
  /\ upc \in {"append", "start", "kill"} => ucur \in Proc

TypeTest ==
  /\ file \in [what : {"none", "pass", "fail", "garbled"}, by : Proc \cup {NoProc}]
  /\ attempt \in DOMAIN Attempt /\ retry \in Nat /\ textMode \in BOOLEAN
  /\ attempt + retry <= Len(Attempt)
  /\ why \in {"none", "duplicate", "notStarted", "timeout", "noResults", "unbound", "attribute"}
  /\ results \in {"none", "fail", "ok"} /\ verdict \in {"none", "0", "1", "2"}

\* A process that runs and has not been given up has been started and not stopped since.
ProcInv ==
  \A p \in Proc : Attended(p) => proc[p].started /\ ~proc[p].stopped

TypesInv == TypeMon /\ TypeProc /\ TypeRun /\ TypeUser /\ TypeTest /\ ProcInv

-----------------------------------------------------------------------------
(* What the monitor watches                                                *)

\* Before setUp the monitor does not run.  In the final kill, what runs is still
\* queued, taken by a killer, or core.
KillInv ==
  /\ upc = "setUp" => pc = "off"
  /\ pc \in {"kill", "core", "end"} => isShutdown
  /\ pc = "kill" => \A p \in Proc \ stray :
       Attended(p) => p \in Range(core) \/ p \in queue \/ \E k \in Killer : killing[k] = p

WatchInv == RunningIsWatched /\ CoreKilledLast /\ KillInv

-----------------------------------------------------------------------------
(* What the verdict is about                                               *)

Tests == Range(Attempt)

\* The monitor has not had a reason to bury the process.
NotSeen(p) ==
  ~proc[p].started /\ p \notin bury /\ (pc \in {"poll", "buryStop"} => cur # p)

\* Who may start a process of the test: runTest, and nobody else.
StartersInv ==
  /\ \A p \in respawn : kind[p] = "respawn"
  /\ pc \in {"respawnStop", "respawnStart"} => kind[cur] = "respawn"
  /\ upc \in {"idle", "append", "start", "kill", "join"} => fresh \cap Tests = {}
  /\ upc \in {"append", "start"} => ucur \notin Tests

TestPCs == {"setUp", "clean", "register", "startTest", "alive", "poll", "read",
            "timedOut", "tearDown"}
LaunchPCs == {"idle", "append", "start", "kill", "join"}

\* Until tearDown the monitor of a test is not shut down, as it watches nothing but the
\* processes of the test; the other kind of program has none of them.  The final kill
\* comes after the shutdown.
ModeInv ==
  /\ upc \in TestPCs =>
       /\ ~isShutdown /\ ~regComplete
       /\ procs \subseteq Tests /\ copy \subseteq Tests /\ fresh \subseteq Tests
       /\ pc = "poll" => cur \in Tests \cup {NoProc}
  /\ upc \in LaunchPCs => procs \cap Tests = {}
  /\ upc = "kill" => ucur \notin Tests
  /\ pc = "post" => isShutdown
  /\ \A k \in Killer : killing[k] # NoProc => isShutdown

\* Before the shutdown a process of the test runs only while it is registered, and is
\* not given up: one the monitor buries does not run.
TestsInv ==
  /\ ~isShutdown => \A p \in Tests :
       /\ Running(p) => p \in procs /\ proc[p].popen
       /\ p \in bury \/ (pc = "buryStop" /\ cur = p) => ~Running(p)
  /\ \A p \in Tests \cap fresh : NotSeen(p)
  /\ pc \in {"off", "copy"} => cur = NoProc
  /\ upc = "startTest" => /\ NotSeen(Process) /\ Process \notin fresh
                          /\ isShutdown \/ Process \in procs

\* While an attempt is looked at no other one runs, and once it is read none does.
AttemptInv ==
  /\ upc \in {"startTest", "alive", "poll", "read", "timedOut"} =>
       \A p \in Tests : Running(p) => p = Process
  /\ upc = "read" => ~Running(Process)
  /\ upc = "timedOut" => retry > 0

\* The results that were read are those of the file, and nobody writes it any more.
VerdictInv ==
  /\ upc \in {"register", "startTest", "alive", "poll", "read", "timedOut", "tearDown",
              "joinTest", "exited"} => file.what = "none" \/ file.by \in Tests
  /\ upc \in {"tearDown", "joinTest", "exited"} /\ why = "none" /\ ~textMode =>
       /\ \A p \in Tests : ~Running(p)
       /\ file.what # "none" /\ results = ReadResults(file)
  /\ verdict # "none" => upc = "exited"
  /\ verdict = "0" /\ ~textMode => why = "none" /\ results # "fail"

-----------------------------------------------------------------------------
(* Steps                                                                   *)

\* A step is one of these.
LEMMA AllSteps ==
  ASSUME Next
  PROVE  \/ MonCopy /\ UNCHANGED testVars
         \/ MonBuryStop /\ UNCHANGED testVars
         \/ MonSave /\ UNCHANGED testVars
         \/ MonExitTest /\ UNCHANGED testVars
         \/ MonRespawnNext /\ UNCHANGED testVars
         \/ MonRespawnStop /\ UNCHANGED testVars
         \/ MonRespawnStart /\ UNCHANGED testVars
         \/ \E p \in Proc : MonPollCheck(p) /\ UNCHANGED testVars
         \/ \E p \in Proc : MonPoll(p) /\ UNCHANGED testVars
         \/ \E p \in Proc : MonUnregister(p) /\ UNCHANGED testVars
         \/ PostCollect /\ UNCHANGED testVars
         \/ PostJoin /\ UNCHANGED testVars
         \/ PostCore /\ UNCHANGED testVars
         \/ PostClear /\ UNCHANGED testVars
         \/ \E k \in Killer : KillerStop(k) /\ UNCHANGED testVars
         \/ \E k \in Killer : \E p \in Proc : KillerGet(k, p) /\ UNCHANGED testVars
         \/ \E p \in Proc : \E w \in {"start", "append"} :
               upc = "idle" /\ Register(p, w) /\ UNCHANGED testVars
         \/ AppendCore /\ UNCHANGED testVars
         \/ UserStart /\ UNCHANGED testVars
         \/ RegistrationsComplete /\ UNCHANGED testVars
         \/ KillStop /\ UNCHANGED testVars
         \/ \E p \in Proc : KillProcess(p) /\ UNCHANGED testVars
         \/ upc = "idle" /\ Shutdown("join") /\ UNCHANGED testVars
         \/ Join("join", "idle") /\ UNCHANGED testVars
         \/ SetUp
         \/ CleanResults
         \/ RegisterTest
         \/ StartTest
         \/ AliveTest
         \/ PollTest
         \/ Evaluate
         \/ TearDown
         \/ ExitMain
         \/ \E p \in Proc \ Range(Attempt) : ProcExit(p) /\ UNCHANGED testVars
         \/ \E p \in Range(Attempt) : upc # "exited" /\ TestExit(p)
BY DEF Next, MonitorStep, MonNext, KillerStep, KillerNext, LaunchStep, LaunchNext, TestNext

\* start(): nothing but this process changes, and if it runs it is watched or stray.
LEMMA StartEffect ==
  ASSUME TypeProc, ProcInv, NEW p \in Proc, NEW outcome \in StartOutcome(p), Start(p, outcome)
  PROVE  /\ TypeProc' /\ ProcInv' /\ UNCHANGED <<kind, stopping>>
         /\ \A q \in Proc : q # p => proc'[q] = proc[q]
         /\ proc'[p].started
         /\ stray \subseteq stray' /\ stray' \subseteq stray \cup {p}
         /\ p \in stray' \/ (p \in procs /\ ~isShutdown)
         /\ Running(p)' => proc'[p].popen \/ (Running(p) /\ ~proc[p].popen)
<1>1. outcome \in {"ok", "quick", "raise"}
  BY DEF StartOutcome
<1>2. /\ UNCHANGED <<kind, stopping>>
      /\ stray \subseteq stray' /\ stray' \subseteq stray \cup {p}
      /\ p \in stray' \/ (p \in procs /\ ~isShutdown)
  BY DEF Start
<1> DEFINE r == [started |-> TRUE, stopped |-> FALSE,
                 popen |-> proc[p].popen \/ outcome # "raise",
                 os |-> CASE outcome = "ok" -> "running" [] outcome = "quick" -> "exited"
                          [] OTHER -> proc[p].os,
                 spawn |-> proc[p].spawn + 1]
<1>3. proc' = [proc EXCEPT ![p] = r]
  BY DEF Start
<1>4. r \in ProcState /\ r.started /\ ~r.stopped
  BY <1>1 DEF TypeProc, ProcState
<1>5. r.os = "running" => r.popen \/ (Running(p) /\ ~proc[p].popen)
  BY <1>1 DEF Running, TypeProc, ProcState
<1> HIDE DEF r
<1>6. /\ proc' \in [Proc -> ProcState]
      /\ proc'[p] = r /\ \A q \in Proc : q # p => proc'[q] = proc[q]
  BY <1>3, <1>4 DEF TypeProc
<1>7. TypeProc'
  BY <1>2, <1>6 DEF TypeProc
<1>8. ProcInv'
  BY <1>4, <1>6 DEF ProcInv, Attended, Running
<1>9. Running(p)' => proc'[p].popen \/ (Running(p) /\ ~proc[p].popen)
  BY <1>5, <1>6 DEF Running
<1> QED BY <1>2, <1>4, <1>6, <1>7, <1>8, <1>9

\* stop() has returned: the process has exited or been given up.
LEMMA StopEffect ==
  ASSUME TypeProc, ProcInv, NEW t \in Thread, NEW p \in Proc, StopReturns(t, p)
  PROVE  /\ TypeProc' /\ ProcInv' /\ UNCHANGED kind
         /\ \A q \in Proc : q # p => proc'[q] = proc[q]
         /\ ~Attended(p)' /\ (Running(p)' => Running(p))
         /\ proc'[p].started = proc[p].started
<1>1. CASE StopAtOnce(t, p)
  <2>1. PICK kept \in {FALSE, proc[p].popen} :
          proc' = [proc EXCEPT ![p].popen = kept, ![p].stopped = TRUE]
    BY <1>1 DEF StopAtOnce
  <2>2. UNCHANGED <<kind, stopping>> /\ ~Attended(p)
    BY <1>1 DEF StopAtOnce
  <2>3. kept \in BOOLEAN
    BY DEF TypeProc, ProcState
  <2> DEFINE r0 == [proc[p] EXCEPT !.popen = kept]
             r == [r0 EXCEPT !.stopped = TRUE]
  <2>c. r0 \in ProcState
    <3> DEFINE x == proc[p]
    <3>1. x \in ProcState
      BY DEF TypeProc
    <3> HIDE DEF x
    <3>2. [x EXCEPT !.popen = kept] \in ProcState
      BY <2>3, <3>1 DEF ProcState
    <3> USE DEF x
    <3> QED BY <3>2
  <2>a. r \in ProcState
    <3> HIDE DEF r0
    <3> QED BY <2>c DEF ProcState
  <2>b. proc' = [proc EXCEPT ![p] = r]
    BY <2>1 DEF TypeProc, ProcState
  <2>4. proc' \in [Proc -> ProcState]
    BY <2>a, <2>b DEF TypeProc
  <2>5. /\ \A q \in Proc : q # p => proc'[q] = proc[q]
        /\ proc'[p].os = proc[p].os /\ proc'[p].started = proc[p].started
        /\ proc'[p].popen = kept
    BY <2>b DEF TypeProc, ProcState
  <2>6. ~Attended(p)' /\ (Running(p)' => Running(p))
    BY <2>2, <2>5 DEF Attended, Running
  <2>7. ProcInv'
    BY <2>5, <2>6 DEF ProcInv, Attended, Running
  <2> QED BY <2>2, <2>4, <2>5, <2>6, <2>7 DEF TypeProc
<1>2. CASE StopEnd(t, p)
  <2>1. PICK os \in {"exited", proc[p].os} :
          proc' = [proc EXCEPT ![p].popen = FALSE, ![p].stopped = TRUE, ![p].os = os]
    BY <1>2 DEF StopEnd
  <2>e. stopping' = [stopping EXCEPT ![t] = NoProc] /\ UNCHANGED kind
    BY <1>2 DEF StopEnd
  <2>f. os \in {"none", "running", "exited"}
    BY DEF TypeProc, ProcState
  <2> DEFINE r0 == [proc[p] EXCEPT !.popen = FALSE]
             r1 == [r0 EXCEPT !.stopped = TRUE]
             r == [r1 EXCEPT !.os = os]
  <2>c. r0 \in ProcState
    <3> DEFINE x == proc[p]
    <3>1. x \in ProcState
      BY DEF TypeProc
    <3> HIDE DEF x
    <3>2. [x EXCEPT !.popen = FALSE] \in ProcState
      BY <3>1 DEF ProcState
    <3> USE DEF x
    <3> QED BY <3>2
  <2>d. r1 \in ProcState
    <3> HIDE DEF r0
    <3> QED BY <2>c DEF ProcState
  <2>a. r \in ProcState
    <3> HIDE DEF r1
    <3> QED BY <2>d, <2>f DEF ProcState
  <2>b. proc' = [proc EXCEPT ![p] = r]
    BY <2>1 DEF TypeProc, ProcState
  <2>2. proc' \in [Proc -> ProcState]
    BY <2>a, <2>b DEF TypeProc
  <2>3. /\ \A q \in Proc : q # p => proc'[q] = proc[q]
        /\ proc'[p].os = os /\ proc'[p].started = proc[p].started /\ ~proc'[p].popen
    BY <2>b DEF TypeProc, ProcState
  <2>4. stopping' \in [Thread -> Proc \cup {NoProc}]
    BY <2>e DEF TypeProc
  <2>5. ~Attended(p)' /\ (Running(p)' => Running(p))
    BY <2>3 DEF Attended, Running
  <2>6. ProcInv'
    BY <2>3, <2>5 DEF ProcInv, Attended, Running
  <2> QED BY <2>2, <2>3, <2>4, <2>5, <2>6, <2>e DEF TypeProc
<1> QED BY <1>1, <1>2 DEF StopReturns

\* A process exits: nothing else changes.
LEMMA ExitEffect ==
  ASSUME TypeProc, ProcInv, NEW p \in Proc, ProcExit(p)
  PROVE  /\ TypeProc' /\ ProcInv' /\ UNCHANGED kind
         /\ \A q \in Proc : q # p => proc'[q] = proc[q]
         /\ proc'[p].os # "running" /\ proc'[p].started = proc[p].started
<1>1. proc' = [proc EXCEPT ![p].os = "exited"] /\ UNCHANGED <<kind, stopping>>
  BY DEF ProcExit
<1> DEFINE r == [proc[p] EXCEPT !.os = "exited"]
<1>a. r \in ProcState
  BY DEF TypeProc, ProcState
<1>b. proc' = [proc EXCEPT ![p] = r]
  BY <1>1 DEF TypeProc, ProcState
<1>2. /\ proc' \in [Proc -> ProcState]
      /\ \A q \in Proc : q # p => proc'[q] = proc[q]
      /\ proc'[p].os = "exited" /\ proc'[p].started = proc[p].started
  BY <1>a, <1>b DEF TypeProc, ProcState
<1>3. ProcInv'
  BY <1>2 DEF ProcInv, Attended, Running
<1> QED BY <1>1, <1>2, <1>3 DEF TypeProc

\* The fields of the monitor keep their type.
LEMMA MonTypes == TypesInv /\ [Next]_allVars => TypeMon'
<1> SUFFICES ASSUME TypesInv, [Next]_allVars PROVE TypeMon'
  OBVIOUS
<1>a. TypeMon /\ TypeRun /\ TypeUser
  BY DEF TypesInv
<1>0. CASE UNCHANGED allVars
  BY <1>0, <1>a DEF allVars, vars, monVars, TypeMon
<1>1. ASSUME MonCopy /\ UNCHANGED testVars PROVE TypeMon'
  BY <1>1, <1>a DEF MonCopy, monVars, TypeMon
<1>2. ASSUME MonBuryStop /\ UNCHANGED testVars PROVE TypeMon'
  BY <1>2, <1>a DEF MonBuryStop, monVars, TypeMon
<1>3. ASSUME MonSave /\ UNCHANGED testVars PROVE TypeMon'
  BY <1>3, <1>a DEF MonSave, TypeMon, TypeRun
<1>4. ASSUME MonExitTest /\ UNCHANGED testVars PROVE TypeMon'
  BY <1>4, <1>a DEF MonExitTest, TypeMon
<1>5. ASSUME MonRespawnNext /\ UNCHANGED testVars PROVE TypeMon'
  BY <1>5, <1>a DEF MonRespawnNext, monVars, TypeMon
<1>6. ASSUME MonRespawnStop /\ UNCHANGED testVars PROVE TypeMon'
  BY <1>6, <1>a DEF MonRespawnStop, monVars, TypeMon
<1>7. ASSUME MonRespawnStart /\ UNCHANGED testVars PROVE TypeMon'
  BY <1>7, <1>a DEF MonRespawnStart, monVars, TypeMon
<1>8. ASSUME NEW p \in Proc, MonPollCheck(p) /\ UNCHANGED testVars PROVE TypeMon'
  BY <1>8, <1>a DEF MonPollCheck, Polled, TypeMon
<1>9. ASSUME NEW p \in Proc, MonPoll(p) /\ UNCHANGED testVars PROVE TypeMon'
  BY <1>9, <1>a DEF MonPoll, Polled, TypeMon
<1>10. ASSUME NEW p \in Proc, MonUnregister(p) /\ UNCHANGED testVars PROVE TypeMon'
  BY <1>10, <1>a DEF MonUnregister, TypeMon
<1>11. ASSUME PostCollect /\ UNCHANGED testVars PROVE TypeMon'
  BY <1>11, <1>a DEF PostCollect, TypeMon
<1>12. ASSUME PostJoin /\ UNCHANGED testVars PROVE TypeMon'
  BY <1>12, <1>a DEF PostJoin, monVars, TypeMon
<1>13. ASSUME PostCore /\ UNCHANGED testVars PROVE TypeMon'
  BY <1>13, <1>a DEF PostCore, monVars, TypeMon
<1>14. ASSUME PostClear /\ UNCHANGED testVars PROVE TypeMon'
  BY <1>14, <1>a DEF PostClear, TypeMon
<1>15. ASSUME NEW k \in Killer, KillerStop(k) /\ UNCHANGED testVars PROVE TypeMon'
  BY <1>15, <1>a DEF KillerStop, monVars, TypeMon
<1>16. ASSUME NEW k \in Killer, NEW p \in Proc, KillerGet(k, p) /\ UNCHANGED testVars PROVE
    TypeMon'
  BY <1>16, <1>a DEF KillerGet, monVars, TypeMon
<1>17. ASSUME NEW p \in Proc, NEW w \in {"start", "append"}, upc = "idle" /\ Register(p, w) /\
    UNCHANGED testVars PROVE TypeMon'
  BY <1>17, <1>a DEF Register, TypeMon
<1>18. ASSUME AppendCore /\ UNCHANGED testVars PROVE TypeMon'
  BY <1>18, <1>a DEF AppendCore, TypeMon, TypeUser
<1>19. ASSUME UserStart /\ UNCHANGED testVars PROVE TypeMon'
  BY <1>19, <1>a DEF UserStart, monVars, TypeMon
<1>20. ASSUME RegistrationsComplete /\ UNCHANGED testVars PROVE TypeMon'
  BY <1>20, <1>a DEF RegistrationsComplete, TypeMon
<1>21. ASSUME KillStop /\ UNCHANGED testVars PROVE TypeMon'
  BY <1>21, <1>a DEF KillStop, TypeMon
<1>22. ASSUME NEW p \in Proc, KillProcess(p) /\ UNCHANGED testVars PROVE TypeMon'
  BY <1>22, <1>a DEF KillProcess, TypeMon, TypeUser
<1>23. ASSUME upc = "idle" /\ Shutdown("join") /\ UNCHANGED testVars PROVE TypeMon'
  BY <1>23, <1>a DEF Shutdown, TypeMon
<1>24. ASSUME Join("join", "idle") /\ UNCHANGED testVars PROVE TypeMon'
  BY <1>24, <1>a DEF Join, monVars, TypeMon
<1>25. ASSUME SetUp PROVE TypeMon'
  BY <1>25, <1>a DEF SetUp, monVars, TypeMon
<1>26. ASSUME CleanResults PROVE TypeMon'
  BY <1>26, <1>a DEF CleanResults, monVars, TypeMon
<1>27. ASSUME RegisterTest PROVE TypeMon'
  <2>1. Process \in Proc
    BY DEF TypesInv, TypeTest, Process
  <2> QED BY <1>27, <1>a, <2>1 DEF RegisterTest, Register, monVars, TypeMon
<1>28. ASSUME StartTest PROVE TypeMon'
  BY <1>28, <1>a DEF StartTest, monVars, TypeMon
<1>29. ASSUME AliveTest PROVE TypeMon'
  BY <1>29, <1>a DEF AliveTest, monVars, TypeMon
<1>30. ASSUME PollTest PROVE TypeMon'
  BY <1>30, <1>a DEF PollTest, monVars, TypeMon
<1>31. ASSUME Evaluate PROVE TypeMon'
  BY <1>31, <1>a DEF Evaluate, monVars, TypeMon
<1>32. ASSUME TearDown PROVE TypeMon'
  BY <1>32, <1>a DEF TearDown, Shutdown, TypeMon
<1>33. ASSUME ExitMain PROVE TypeMon'
  BY <1>33, <1>a DEF ExitMain, Join, monVars, TypeMon
<1>34. ASSUME NEW p \in Proc \ Range(Attempt), ProcExit(p) /\ UNCHANGED testVars PROVE TypeMon'
  BY <1>34, <1>a DEF ProcExit, monVars, TypeMon
<1>35. ASSUME NEW p \in Range(Attempt), upc # "exited" /\ TestExit(p) PROVE TypeMon'
  BY <1>35, <1>a DEF TestExit, ProcExit, monVars, TypeMon
<1> QED BY <1>0, <1>1, <1>2, <1>3, <1>4, <1>5, <1>6, <1>7, <1>8, <1>9, <1>10, <1>11, <1>12,
    <1>13, <1>14, <1>15, <1>16, <1>17, <1>18, <1>19, <1>20, <1>21, <1>22, <1>23, <1>24, <1>25,
    <1>26, <1>27, <1>28, <1>29, <1>30, <1>31, <1>32, <1>33, <1>34, <1>35, AllSteps

\* The last of a list is one of it.
LEMMA LastIsElement ==
  ASSUME NEW S, NEW q \in Seq(S), q # <<>>
  PROVE  /\ Last(q) \in S /\ Front(q) \in Seq(S)
         /\ \A x \in Range(q) : x = Last(q) \/ x \in Range(Front(q))
<1>1. Len(q) \in Nat \ {0} /\ DOMAIN q = 1..Len(q)
  OBVIOUS
<1>2. Last(q) = q[Len(q)] /\ Last(q) \in S
  BY <1>1 DEF Last
<1>3. /\ Front(q) \in Seq(S) /\ Len(Front(q)) = Len(q) - 1
      /\ \A i \in 1..(Len(q) - 1) : Front(q)[i] = q[i]
  BY <1>1 DEF Front
<1>4. ASSUME NEW i \in DOMAIN q PROVE q[i] = Last(q) \/ q[i] \in Range(Front(q))
  <2>1. CASE i = Len(q)
    BY <1>2, <2>1
  <2>2. CASE i # Len(q)
    <3>1. i \in 1..(Len(q) - 1) /\ i \in DOMAIN Front(q)
      BY <1>1, <1>3, <2>2
    <3> QED BY <1>3, <3>1 DEF Range
  <2> QED BY <2>1, <2>2
<1> QED BY <1>2, <1>3, <1>4 DEF Range

\* The processes of a test are processes, and plain ones.
LEMMA TestsAreProcs ==
  /\ Tests \subseteq Proc
  /\ \A p \in Tests, k \in Kinds : k[p] = "plain"
  /\ \A p, q \in Tests : NameOf[p] = NameOf[q]
  /\ \A i \in DOMAIN Attempt : Attempt[i] \in Tests
BY DEF Tests, Range

\* The processes keep their type; what runs has a popen.
LEMMA ProcTypes == TypesInv /\ [Next]_allVars => (TypeProc /\ ProcInv)'
<1> SUFFICES ASSUME TypesInv, [Next]_allVars PROVE (TypeProc /\ ProcInv)'
  OBVIOUS
<1>a. TypeProc /\ ProcInv /\ TypeRun /\ TypeUser /\ TypeTest
  BY DEF TypesInv
<1>0. CASE UNCHANGED allVars
  BY <1>0, <1>a DEF allVars, vars, procVars, TypeProc, ProcInv, Attended, Running
<1>1. ASSUME MonCopy /\ UNCHANGED testVars PROVE (TypeProc /\ ProcInv)'
  <2>1. UNCHANGED <<proc, kind, stopping>>
    BY <1>1 DEF MonCopy, procVars
  <2> QED BY <1>a, <2>1 DEF TypeProc, ProcInv, Attended, Running
<1>2. ASSUME MonBuryStop /\ UNCHANGED testVars PROVE (TypeProc /\ ProcInv)'
  <2>1. cur \in Proc /\ Mon \in Thread
    BY <1>2, <1>a DEF MonBuryStop, TypeRun, Thread
  <2>2. CASE StopReturns(Mon, cur)
    BY <1>a, <2>1, <2>2, StopEffect
  <2>3. CASE StopBegin(Mon, cur)
    BY <1>a, <2>1, <2>3 DEF StopBegin, TypeProc, ProcInv, Attended, Running
  <2> QED BY <1>2, <2>2, <2>3 DEF MonBuryStop
<1>3. ASSUME MonSave /\ UNCHANGED testVars PROVE (TypeProc /\ ProcInv)'
  <2>1. UNCHANGED <<proc, kind, stopping>>
    BY <1>3 DEF MonSave, procVars
  <2> QED BY <1>a, <2>1 DEF TypeProc, ProcInv, Attended, Running
<1>4. ASSUME MonExitTest /\ UNCHANGED testVars PROVE (TypeProc /\ ProcInv)'
  <2>1. UNCHANGED <<proc, kind, stopping>>
    BY <1>4 DEF MonExitTest, procVars
  <2> QED BY <1>a, <2>1 DEF TypeProc, ProcInv, Attended, Running
<1>5. ASSUME MonRespawnNext /\ UNCHANGED testVars PROVE (TypeProc /\ ProcInv)'
  <2>1. UNCHANGED <<proc, kind, stopping>>
    BY <1>5 DEF MonRespawnNext, procVars
  <2> QED BY <1>a, <2>1 DEF TypeProc, ProcInv, Attended, Running
<1>6. ASSUME MonRespawnStop /\ UNCHANGED testVars PROVE (TypeProc /\ ProcInv)'
  <2>1. cur \in Proc /\ Mon \in Thread
    BY <1>6, <1>a DEF MonRespawnStop, TypeRun, Thread
  <2>2. CASE StopReturns(Mon, cur)
    BY <1>a, <2>1, <2>2, StopEffect
  <2>3. CASE StopBegin(Mon, cur)
    BY <1>a, <2>1, <2>3 DEF StopBegin, TypeProc, ProcInv, Attended, Running
  <2> QED BY <1>6, <2>2, <2>3 DEF MonRespawnStop
<1>7. ASSUME MonRespawnStart /\ UNCHANGED testVars PROVE (TypeProc /\ ProcInv)'
  <2>1. cur \in Proc /\ \E outcome \in StartOutcome(cur) : Start(cur, outcome)
    BY <1>7, <1>a DEF MonRespawnStart, TypeRun
  <2> QED BY <1>a, <2>1, StartEffect
<1>8. ASSUME NEW p \in Proc, MonPollCheck(p) /\ UNCHANGED testVars PROVE (TypeProc /\ ProcInv)'
  <2>1. UNCHANGED <<proc, kind, stopping>>
    BY <1>8 DEF MonPollCheck, procVars
  <2> QED BY <1>a, <2>1 DEF TypeProc, ProcInv, Attended, Running
<1>9. ASSUME NEW p \in Proc, MonPoll(p) /\ UNCHANGED testVars PROVE (TypeProc /\ ProcInv)'
  <2>1. UNCHANGED <<proc, kind, stopping>>
    BY <1>9 DEF MonPoll, procVars
  <2> QED BY <1>a, <2>1 DEF TypeProc, ProcInv, Attended, Running
<1>10. ASSUME NEW p \in Proc, MonUnregister(p) /\ UNCHANGED testVars PROVE (TypeProc /\
    ProcInv)'
  <2>1. UNCHANGED <<proc, kind, stopping>>
    BY <1>10 DEF MonUnregister, procVars
  <2> QED BY <1>a, <2>1 DEF TypeProc, ProcInv, Attended, Running
<1>11. ASSUME PostCollect /\ UNCHANGED testVars PROVE (TypeProc /\ ProcInv)'
  <2>1. UNCHANGED <<proc, kind, stopping>>
    BY <1>11 DEF PostCollect, procVars
  <2> QED BY <1>a, <2>1 DEF TypeProc, ProcInv, Attended, Running
<1>12. ASSUME PostJoin /\ UNCHANGED testVars PROVE (TypeProc /\ ProcInv)'
  <2>1. UNCHANGED <<proc, kind, stopping>>
    BY <1>12 DEF PostJoin, procVars
  <2> QED BY <1>a, <2>1 DEF TypeProc, ProcInv, Attended, Running
<1>13. ASSUME PostCore /\ UNCHANGED testVars PROVE (TypeProc /\ ProcInv)'
  <2>1. Last(core) \in Proc /\ Mon \in Thread
    BY <1>13, <1>a, LastIsElement DEF PostCore, TypeRun, Thread
  <2>2. CASE StopReturns(Mon, Last(core))
    BY <1>a, <2>1, <2>2, StopEffect
  <2>3. CASE StopBegin(Mon, Last(core))
    BY <1>a, <2>1, <2>3 DEF StopBegin, TypeProc, ProcInv, Attended, Running
  <2> QED BY <1>13, <2>2, <2>3 DEF PostCore
<1>14. ASSUME PostClear /\ UNCHANGED testVars PROVE (TypeProc /\ ProcInv)'
  <2>1. UNCHANGED <<proc, kind, stopping>>
    BY <1>14 DEF PostClear, procVars
  <2> QED BY <1>a, <2>1 DEF TypeProc, ProcInv, Attended, Running
<1>15. ASSUME NEW k \in Killer, KillerStop(k) /\ UNCHANGED testVars PROVE (TypeProc /\
    ProcInv)'
  <2>1. killing[k] \in Proc /\ k \in Thread
    BY <1>15, <1>a DEF KillerStop, TypeRun, Thread
  <2>2. CASE StopReturns(k, killing[k])
    BY <1>a, <2>1, <2>2, StopEffect
  <2>3. CASE StopBegin(k, killing[k])
    BY <1>a, <2>1, <2>3 DEF StopBegin, TypeProc, ProcInv, Attended, Running
  <2> QED BY <1>15, <2>2, <2>3 DEF KillerStop
<1>16. ASSUME NEW k \in Killer, NEW p \in Proc, KillerGet(k, p) /\ UNCHANGED testVars PROVE
    (TypeProc /\ ProcInv)'
  <2>1. UNCHANGED <<proc, kind, stopping>>
    BY <1>16 DEF KillerGet, procVars
  <2> QED BY <1>a, <2>1 DEF TypeProc, ProcInv, Attended, Running
<1>17. ASSUME NEW p \in Proc, NEW w \in {"start", "append"}, upc = "idle" /\ Register(p, w) /\
    UNCHANGED testVars PROVE (TypeProc /\ ProcInv)'
  <2>1. UNCHANGED <<proc, kind, stopping>>
    BY <1>17 DEF Register, procVars
  <2> QED BY <1>a, <2>1 DEF TypeProc, ProcInv, Attended, Running
<1>18. ASSUME AppendCore /\ UNCHANGED testVars PROVE (TypeProc /\ ProcInv)'
  <2>1. UNCHANGED <<proc, kind, stopping>>
    BY <1>18 DEF AppendCore, procVars
  <2> QED BY <1>a, <2>1 DEF TypeProc, ProcInv, Attended, Running
<1>19. ASSUME UserStart /\ UNCHANGED testVars PROVE (TypeProc /\ ProcInv)'
  <2>1. ucur \in Proc /\ \E outcome \in StartOutcome(ucur) : Start(ucur, outcome)
    BY <1>19, <1>a DEF UserStart, TypeUser
  <2> QED BY <1>a, <2>1, StartEffect
<1>20. ASSUME RegistrationsComplete /\ UNCHANGED testVars PROVE (TypeProc /\ ProcInv)'
  <2>1. UNCHANGED <<proc, kind, stopping>>
    BY <1>20 DEF RegistrationsComplete, procVars
  <2> QED BY <1>a, <2>1 DEF TypeProc, ProcInv, Attended, Running
<1>21. ASSUME KillStop /\ UNCHANGED testVars PROVE (TypeProc /\ ProcInv)'
  <2>1. ucur \in Proc /\ User \in Thread
    BY <1>21, <1>a DEF KillStop, TypeUser, Thread
  <2>2. CASE StopReturns(User, ucur)
    BY <1>a, <2>1, <2>2, StopEffect
  <2>3. CASE StopBegin(User, ucur)
    BY <1>a, <2>1, <2>3 DEF StopBegin, TypeProc, ProcInv, Attended, Running
  <2> QED BY <1>21, <2>2, <2>3 DEF KillStop
<1>22. ASSUME NEW p \in Proc, KillProcess(p) /\ UNCHANGED testVars PROVE (TypeProc /\ ProcInv)'
  <2>1. UNCHANGED <<proc, kind, stopping>>
    BY <1>22 DEF KillProcess, procVars
  <2> QED BY <1>a, <2>1 DEF TypeProc, ProcInv, Attended, Running
<1>23. ASSUME upc = "idle" /\ Shutdown("join") /\ UNCHANGED testVars PROVE (TypeProc /\
    ProcInv)'
  <2>1. UNCHANGED <<proc, kind, stopping>>
    BY <1>23 DEF Shutdown, procVars
  <2> QED BY <1>a, <2>1 DEF TypeProc, ProcInv, Attended, Running
<1>24. ASSUME Join("join", "idle") /\ UNCHANGED testVars PROVE (TypeProc /\ ProcInv)'
  <2>1. UNCHANGED <<proc, kind, stopping>>
    BY <1>24 DEF Join, procVars
  <2> QED BY <1>a, <2>1 DEF TypeProc, ProcInv, Attended, Running
<1>25. ASSUME SetUp PROVE (TypeProc /\ ProcInv)'
  <2>1. UNCHANGED <<proc, kind, stopping>>
    BY <1>25 DEF SetUp, procVars
  <2> QED BY <1>a, <2>1 DEF TypeProc, ProcInv, Attended, Running
<1>26. ASSUME CleanResults PROVE (TypeProc /\ ProcInv)'
  <2>1. UNCHANGED <<proc, kind, stopping>>
    BY <1>26 DEF CleanResults, procVars
  <2> QED BY <1>a, <2>1 DEF TypeProc, ProcInv, Attended, Running
<1>27. ASSUME RegisterTest PROVE (TypeProc /\ ProcInv)'
  <2>1. UNCHANGED <<proc, kind, stopping>>
    BY <1>27 DEF RegisterTest, procVars, Register
  <2> QED BY <1>a, <2>1 DEF TypeProc, ProcInv, Attended, Running
<1>28. ASSUME StartTest PROVE (TypeProc /\ ProcInv)'
  <2>1. Process \in Proc /\ \E outcome \in StartOutcome(Process) : Start(Process, outcome)
    BY <1>28, <1>a DEF StartTest, TypeTest, Process
  <2> QED BY <1>a, <2>1, StartEffect
<1>29. ASSUME AliveTest PROVE (TypeProc /\ ProcInv)'
  <2>1. UNCHANGED <<proc, kind, stopping>>
    BY <1>29 DEF AliveTest, procVars
  <2> QED BY <1>a, <2>1 DEF TypeProc, ProcInv, Attended, Running
<1>30. ASSUME PollTest PROVE (TypeProc /\ ProcInv)'
  <2>1. UNCHANGED <<proc, kind, stopping>>
    BY <1>30 DEF PollTest, procVars
  <2> QED BY <1>a, <2>1 DEF TypeProc, ProcInv, Attended, Running
<1>31. ASSUME Evaluate PROVE (TypeProc /\ ProcInv)'
  <2>1. UNCHANGED <<proc, kind, stopping>>
    BY <1>31 DEF Evaluate, procVars
  <2> QED BY <1>a, <2>1 DEF TypeProc, ProcInv, Attended, Running
<1>32. ASSUME TearDown PROVE (TypeProc /\ ProcInv)'
  <2>1. UNCHANGED <<proc, kind, stopping>>
    BY <1>32 DEF TearDown, Shutdown, procVars
  <2> QED BY <1>a, <2>1 DEF TypeProc, ProcInv, Attended, Running
<1>33. ASSUME ExitMain PROVE (TypeProc /\ ProcInv)'
  <2>1. UNCHANGED <<proc, kind, stopping>>
    BY <1>33 DEF ExitMain, Join, procVars
  <2> QED BY <1>a, <2>1 DEF TypeProc, ProcInv, Attended, Running
<1>34. ASSUME NEW p \in Proc \ Range(Attempt), ProcExit(p) /\ UNCHANGED testVars PROVE
    (TypeProc /\ ProcInv)'
  BY <1>34, <1>a, ExitEffect
<1>35. ASSUME NEW p \in Range(Attempt), upc # "exited" /\ TestExit(p) PROVE (TypeProc /\
    ProcInv)'
  <2>1. p \in Proc /\ ProcExit(p)
    BY <1>35, TestsAreProcs DEF TestExit, Tests
  <2> QED BY <1>a, <2>1, ExitEffect
<1> QED BY <1>0, <1>1, <1>2, <1>3, <1>4, <1>5, <1>6, <1>7, <1>8, <1>9, <1>10, <1>11, <1>12,
    <1>13, <1>14, <1>15, <1>16, <1>17, <1>18, <1>19, <1>20, <1>21, <1>22, <1>23, <1>24, <1>25,
    <1>26, <1>27, <1>28, <1>29, <1>30, <1>31, <1>32, <1>33, <1>34, <1>35, AllSteps

\* The locals of the monitor's threads keep their type.
LEMMA RunTypes == TypesInv /\ [Next]_allVars => TypeRun'
<1> SUFFICES ASSUME TypesInv, [Next]_allVars PROVE TypeRun'
  OBVIOUS
<1>a. TypeMon /\ TypeProc /\ ProcInv /\ TypeRun /\ TypeUser /\ TypeTest
  BY DEF TypesInv
<1>0. CASE UNCHANGED allVars
  BY <1>0, <1>a DEF allVars, vars, runVars, postVars, TypeRun
<1>1. ASSUME MonCopy /\ UNCHANGED testVars PROVE TypeRun'
  BY <1>1, <1>a DEF MonCopy, postVars, TypeMon, TypeRun, MonPCs
<1>2. ASSUME MonBuryStop /\ UNCHANGED testVars PROVE TypeRun'
  BY <1>2, <1>a DEF MonBuryStop, postVars, TypeRun, MonPCs
<1>3. ASSUME MonSave /\ UNCHANGED testVars PROVE TypeRun'
  BY <1>3, <1>a DEF MonSave, postVars, TypeRun, MonPCs
<1>4. ASSUME MonExitTest /\ UNCHANGED testVars PROVE TypeRun'
  BY <1>4, <1>a DEF MonExitTest, postVars, TypeRun, MonPCs
<1>5. ASSUME MonRespawnNext /\ UNCHANGED testVars PROVE TypeRun'
  BY <1>5, <1>a DEF MonRespawnNext, postVars, TypeRun, MonPCs
<1>6. ASSUME MonRespawnStop /\ UNCHANGED testVars PROVE TypeRun'
  BY <1>6, <1>a DEF MonRespawnStop, postVars, TypeRun, MonPCs
<1>7. ASSUME MonRespawnStart /\ UNCHANGED testVars PROVE TypeRun'
  <2>1. cur \in Proc /\ \E outcome \in StartOutcome(cur) : Start(cur, outcome)
    BY <1>7, <1>a DEF MonRespawnStart, TypeRun
  <2>2. stray' \subseteq Proc
    BY <1>a, <2>1, StartEffect DEF TypeRun
  <2> QED BY <1>7, <1>a, <2>2 DEF MonRespawnStart, postVars, TypeRun, MonPCs
<1>8. ASSUME NEW p \in Proc, MonPollCheck(p) /\ UNCHANGED testVars PROVE TypeRun'
  <2>1. CASE cur' = p /\ UNCHANGED <<pc, copy, dead, bury, respawn>>
    BY <1>8, <1>a, <2>1 DEF MonPollCheck, postVars, TypeRun
  <2>2. CASE Polled(p, AliveCheck(p))
    <3>1. /\ pc' \in {"bury", "poll"} /\ cur' = NoProc /\ copy' \subseteq Proc
          /\ dead' \subseteq Proc /\ bury' \subseteq Proc /\ respawn' \subseteq Proc
      BY <1>8, <1>a, <2>2 DEF Polled, TypeRun
    <3> QED BY <1>8, <1>a, <3>1 DEF MonPollCheck, postVars, TypeRun, MonPCs
  <2> QED BY <1>8, <2>1, <2>2 DEF MonPollCheck
<1>9. ASSUME NEW p \in Proc, MonPoll(p) /\ UNCHANGED testVars PROVE TypeRun'
  BY <1>9, <1>a DEF MonPoll, Polled, postVars, TypeRun, MonPCs
<1>10. ASSUME NEW p \in Proc, MonUnregister(p) /\ UNCHANGED testVars PROVE TypeRun'
  BY <1>10, <1>a DEF MonUnregister, postVars, TypeRun, MonPCs
<1>11. ASSUME PostCollect /\ UNCHANGED testVars PROVE TypeRun'
  BY <1>11, <1>a DEF PostCollect, TypeMon, TypeRun, MonPCs
<1>12. ASSUME PostJoin /\ UNCHANGED testVars PROVE TypeRun'
  BY <1>12, <1>a DEF PostJoin, postVars, TypeRun, MonPCs
<1>13. ASSUME PostCore /\ UNCHANGED testVars PROVE TypeRun'
  BY <1>13, <1>a, LastIsElement DEF PostCore, runVars, TypeRun, MonPCs
<1>14. ASSUME PostClear /\ UNCHANGED testVars PROVE TypeRun'
  BY <1>14, <1>a DEF PostClear, postVars, TypeRun, MonPCs
<1>15. ASSUME NEW k \in Killer, KillerStop(k) /\ UNCHANGED testVars PROVE TypeRun'
  BY <1>15, <1>a DEF KillerStop, runVars, TypeRun, MonPCs
<1>16. ASSUME NEW k \in Killer, NEW p \in Proc, KillerGet(k, p) /\ UNCHANGED testVars PROVE
    TypeRun'
  BY <1>16, <1>a DEF KillerGet, runVars, TypeRun, MonPCs
<1>17. ASSUME NEW p \in Proc, NEW w \in {"start", "append"}, upc = "idle" /\ Register(p, w) /\
    UNCHANGED testVars PROVE TypeRun'
  BY <1>17, <1>a DEF Register, runVars, postVars, TypeRun, MonPCs
<1>18. ASSUME AppendCore /\ UNCHANGED testVars PROVE TypeRun'
  BY <1>18, <1>a DEF AppendCore, runVars, postVars, TypeRun, MonPCs
<1>19. ASSUME UserStart /\ UNCHANGED testVars PROVE TypeRun'
  <2>1. ucur \in Proc /\ \E outcome \in StartOutcome(ucur) : Start(ucur, outcome)
    BY <1>19, <1>a DEF UserStart, TypeUser
  <2>2. stray' \subseteq Proc
    BY <1>a, <2>1, StartEffect DEF TypeRun
  <2> QED BY <1>19, <1>a, <2>2 DEF UserStart, runVars, postVars, TypeRun
<1>20. ASSUME RegistrationsComplete /\ UNCHANGED testVars PROVE TypeRun'
  BY <1>20, <1>a DEF RegistrationsComplete, runVars, postVars, TypeRun, MonPCs
<1>21. ASSUME KillStop /\ UNCHANGED testVars PROVE TypeRun'
  BY <1>21, <1>a DEF KillStop, runVars, postVars, TypeRun, MonPCs
<1>22. ASSUME NEW p \in Proc, KillProcess(p) /\ UNCHANGED testVars PROVE TypeRun'
  BY <1>22, <1>a DEF KillProcess, runVars, postVars, TypeRun, MonPCs
<1>23. ASSUME upc = "idle" /\ Shutdown("join") /\ UNCHANGED testVars PROVE TypeRun'
  BY <1>23, <1>a DEF Shutdown, runVars, postVars, TypeRun, MonPCs
<1>24. ASSUME Join("join", "idle") /\ UNCHANGED testVars PROVE TypeRun'
  BY <1>24, <1>a DEF Join, runVars, postVars, TypeRun, MonPCs
<1>25. ASSUME SetUp PROVE TypeRun'
  BY <1>25, <1>a DEF SetUp, postVars, TypeRun, MonPCs
<1>26. ASSUME CleanResults PROVE TypeRun'
  BY <1>26, <1>a DEF CleanResults, runVars, postVars, TypeRun, MonPCs
<1>27. ASSUME RegisterTest PROVE TypeRun'
  BY <1>27, <1>a DEF RegisterTest, Register, runVars, postVars, TypeRun
<1>28. ASSUME StartTest PROVE TypeRun'
  <2>1. Process \in Proc /\ \E outcome \in StartOutcome(Process) : Start(Process, outcome)
    BY <1>28, <1>a DEF StartTest, TypeTest, Process
  <2>2. stray' \subseteq Proc
    BY <1>a, <2>1, StartEffect DEF TypeRun
  <2> QED BY <1>28, <1>a, <2>2 DEF StartTest, runVars, postVars, TypeRun
<1>29. ASSUME AliveTest PROVE TypeRun'
  BY <1>29, <1>a DEF AliveTest, runVars, postVars, TypeRun, MonPCs
<1>30. ASSUME PollTest PROVE TypeRun'
  BY <1>30, <1>a DEF PollTest, runVars, postVars, TypeRun, MonPCs
<1>31. ASSUME Evaluate PROVE TypeRun'
  BY <1>31, <1>a DEF Evaluate, runVars, postVars, TypeRun, MonPCs
<1>32. ASSUME TearDown PROVE TypeRun'
  BY <1>32, <1>a DEF TearDown, Shutdown, runVars, postVars, TypeRun
<1>33. ASSUME ExitMain PROVE TypeRun'
  BY <1>33, <1>a DEF ExitMain, Join, runVars, postVars, TypeRun
<1>34. ASSUME NEW p \in Proc \ Range(Attempt), ProcExit(p) /\ UNCHANGED testVars PROVE TypeRun'
  BY <1>34, <1>a DEF ProcExit, runVars, postVars, TypeRun, MonPCs
<1>35. ASSUME NEW p \in Range(Attempt), upc # "exited" /\ TestExit(p) PROVE TypeRun'
  BY <1>35, <1>a DEF TestExit, ProcExit, runVars, postVars, TypeRun
<1> QED BY <1>0, <1>1, <1>2, <1>3, <1>4, <1>5, <1>6, <1>7, <1>8, <1>9, <1>10, <1>11, <1>12,
    <1>13, <1>14, <1>15, <1>16, <1>17, <1>18, <1>19, <1>20, <1>21, <1>22, <1>23, <1>24, <1>25,
    <1>26, <1>27, <1>28, <1>29, <1>30, <1>31, <1>32, <1>33, <1>34, <1>35, AllSteps

\* The locals of the program's thread keep their type.
LEMMA UserTypes == TypesInv /\ [Next]_allVars => TypeUser'
<1> SUFFICES ASSUME TypesInv, [Next]_allVars PROVE TypeUser'
  OBVIOUS
<1>a. TypeUser /\ TypeTest
  BY DEF TypesInv
<1>0. CASE UNCHANGED allVars
  BY <1>0, <1>a DEF allVars, vars, userVars, TypeUser
<1>1. ASSUME MonCopy /\ UNCHANGED testVars PROVE TypeUser'
  BY <1>1, <1>a DEF MonCopy, userVars, TypeUser, UserPCs
<1>2. ASSUME MonBuryStop /\ UNCHANGED testVars PROVE TypeUser'
  BY <1>2, <1>a DEF MonBuryStop, userVars, TypeUser, UserPCs
<1>3. ASSUME MonSave /\ UNCHANGED testVars PROVE TypeUser'
  BY <1>3, <1>a DEF MonSave, userVars, TypeUser, UserPCs
<1>4. ASSUME MonExitTest /\ UNCHANGED testVars PROVE TypeUser'
  BY <1>4, <1>a DEF MonExitTest, userVars, TypeUser, UserPCs
<1>5. ASSUME MonRespawnNext /\ UNCHANGED testVars PROVE TypeUser'
  BY <1>5, <1>a DEF MonRespawnNext, userVars, TypeUser, UserPCs
<1>6. ASSUME MonRespawnStop /\ UNCHANGED testVars PROVE TypeUser'
  BY <1>6, <1>a DEF MonRespawnStop, userVars, TypeUser, UserPCs
<1>7. ASSUME MonRespawnStart /\ UNCHANGED testVars PROVE TypeUser'
  BY <1>7, <1>a DEF MonRespawnStart, userVars, TypeUser, UserPCs
<1>8. ASSUME NEW p \in Proc, MonPollCheck(p) /\ UNCHANGED testVars PROVE TypeUser'
  BY <1>8, <1>a DEF MonPollCheck, userVars, TypeUser, UserPCs
<1>9. ASSUME NEW p \in Proc, MonPoll(p) /\ UNCHANGED testVars PROVE TypeUser'
  BY <1>9, <1>a DEF MonPoll, userVars, TypeUser, UserPCs
<1>10. ASSUME NEW p \in Proc, MonUnregister(p) /\ UNCHANGED testVars PROVE TypeUser'
  BY <1>10, <1>a DEF MonUnregister, userVars, TypeUser, UserPCs
<1>11. ASSUME PostCollect /\ UNCHANGED testVars PROVE TypeUser'
  BY <1>11, <1>a DEF PostCollect, userVars, TypeUser, UserPCs
<1>12. ASSUME PostJoin /\ UNCHANGED testVars PROVE TypeUser'
  BY <1>12, <1>a DEF PostJoin, userVars, TypeUser, UserPCs
<1>13. ASSUME PostCore /\ UNCHANGED testVars PROVE TypeUser'
  BY <1>13, <1>a DEF PostCore, userVars, TypeUser, UserPCs
<1>14. ASSUME PostClear /\ UNCHANGED testVars PROVE TypeUser'
  BY <1>14, <1>a DEF PostClear, userVars, TypeUser, UserPCs
<1>15. ASSUME NEW k \in Killer, KillerStop(k) /\ UNCHANGED testVars PROVE TypeUser'
  BY <1>15, <1>a DEF KillerStop, userVars, TypeUser, UserPCs
<1>16. ASSUME NEW k \in Killer, NEW p \in Proc, KillerGet(k, p) /\ UNCHANGED testVars PROVE
    TypeUser'
  BY <1>16, <1>a DEF KillerGet, userVars, TypeUser, UserPCs
<1>17. ASSUME NEW p \in Proc, NEW w \in {"start", "append"}, upc = "idle" /\ Register(p, w) /\
    UNCHANGED testVars PROVE TypeUser'
  BY <1>17, <1>a DEF Register, TypeUser, UserPCs
<1>18. ASSUME AppendCore /\ UNCHANGED testVars PROVE TypeUser'
  BY <1>18, <1>a DEF AppendCore, TypeUser, UserPCs
<1>19. ASSUME UserStart /\ UNCHANGED testVars PROVE TypeUser'
  BY <1>19, <1>a DEF UserStart, TypeUser, UserPCs
<1>20. ASSUME RegistrationsComplete /\ UNCHANGED testVars PROVE TypeUser'
  BY <1>20, <1>a DEF RegistrationsComplete, userVars, TypeUser, UserPCs
<1>21. ASSUME KillStop /\ UNCHANGED testVars PROVE TypeUser'
  BY <1>21, <1>a DEF KillStop, TypeUser, UserPCs
<1>22. ASSUME NEW p \in Proc, KillProcess(p) /\ UNCHANGED testVars PROVE TypeUser'
  BY <1>22, <1>a DEF KillProcess, TypeUser, UserPCs
<1>23. ASSUME upc = "idle" /\ Shutdown("join") /\ UNCHANGED testVars PROVE TypeUser'
  BY <1>23, <1>a DEF Shutdown, TypeUser, UserPCs
<1>24. ASSUME Join("join", "idle") /\ UNCHANGED testVars PROVE TypeUser'
  BY <1>24, <1>a DEF Join, TypeUser, UserPCs
<1>25. ASSUME SetUp PROVE TypeUser'
  BY <1>25, <1>a DEF SetUp, TypeUser, UserPCs
<1>26. ASSUME CleanResults PROVE TypeUser'
  BY <1>26, <1>a DEF CleanResults, TypeUser, UserPCs
<1>27. ASSUME RegisterTest PROVE TypeUser'
  <2>1. Process \in Proc
    BY <1>a DEF TypeTest, Process
  <2> QED BY <1>27, <1>a, <2>1 DEF RegisterTest, Register, Raise, TypeUser, UserPCs
<1>28. ASSUME StartTest PROVE TypeUser'
  BY <1>28, <1>a DEF StartTest, Raise, TypeUser, UserPCs
<1>29. ASSUME AliveTest PROVE TypeUser'
  BY <1>29, <1>a DEF AliveTest, Answered, Raise, TypeUser, UserPCs
<1>30. ASSUME PollTest PROVE TypeUser'
  BY <1>30, <1>a DEF PollTest, Raise, Answered, TypeUser, UserPCs
<1>31. ASSUME Evaluate PROVE TypeUser'
  BY <1>31, <1>a DEF Evaluate, Raise, TypeUser, UserPCs
<1>32. ASSUME TearDown PROVE TypeUser'
  BY <1>32, <1>a DEF TearDown, Shutdown, TypeUser, UserPCs
<1>33. ASSUME ExitMain PROVE TypeUser'
  BY <1>33, <1>a DEF ExitMain, Join, TypeUser, UserPCs
<1>34. ASSUME NEW p \in Proc \ Range(Attempt), ProcExit(p) /\ UNCHANGED testVars PROVE
    TypeUser'
  BY <1>34, <1>a DEF ProcExit, userVars, TypeUser, UserPCs
<1>35. ASSUME NEW p \in Range(Attempt), upc # "exited" /\ TestExit(p) PROVE TypeUser'
  BY <1>35, <1>a DEF TestExit, ProcExit, userVars, TypeUser
<1> QED BY <1>0, <1>1, <1>2, <1>3, <1>4, <1>5, <1>6, <1>7, <1>8, <1>9, <1>10, <1>11, <1>12,
    <1>13, <1>14, <1>15, <1>16, <1>17, <1>18, <1>19, <1>20, <1>21, <1>22, <1>23, <1>24, <1>25,
    <1>26, <1>27, <1>28, <1>29, <1>30, <1>31, <1>32, <1>33, <1>34, <1>35, AllSteps

\* The locals of runTest and the file keep their type.
LEMMA TestTypes == TypesInv /\ [Next]_allVars => TypeTest'
<1> SUFFICES ASSUME TypesInv, [Next]_allVars PROVE TypeTest'
  OBVIOUS
<1>a. TypeTest
  BY DEF TypesInv
<1>0. CASE UNCHANGED allVars
  BY <1>0, <1>a DEF allVars, testVars, TypeTest
<1>1. ASSUME MonCopy /\ UNCHANGED testVars PROVE TypeTest'
  BY <1>1, <1>a DEF MonCopy, testVars, TypeTest
<1>2. ASSUME MonBuryStop /\ UNCHANGED testVars PROVE TypeTest'
  BY <1>2, <1>a DEF MonBuryStop, testVars, TypeTest
<1>3. ASSUME MonSave /\ UNCHANGED testVars PROVE TypeTest'
  BY <1>3, <1>a DEF MonSave, testVars, TypeTest
<1>4. ASSUME MonExitTest /\ UNCHANGED testVars PROVE TypeTest'
  BY <1>4, <1>a DEF MonExitTest, testVars, TypeTest
<1>5. ASSUME MonRespawnNext /\ UNCHANGED testVars PROVE TypeTest'
  BY <1>5, <1>a DEF MonRespawnNext, testVars, TypeTest
<1>6. ASSUME MonRespawnStop /\ UNCHANGED testVars PROVE TypeTest'
  BY <1>6, <1>a DEF MonRespawnStop, testVars, TypeTest
<1>7. ASSUME MonRespawnStart /\ UNCHANGED testVars PROVE TypeTest'
  BY <1>7, <1>a DEF MonRespawnStart, testVars, TypeTest
<1>8. ASSUME NEW p \in Proc, MonPollCheck(p) /\ UNCHANGED testVars PROVE TypeTest'
  BY <1>8, <1>a DEF MonPollCheck, testVars, TypeTest
<1>9. ASSUME NEW p \in Proc, MonPoll(p) /\ UNCHANGED testVars PROVE TypeTest'
  BY <1>9, <1>a DEF MonPoll, testVars, TypeTest
<1>10. ASSUME NEW p \in Proc, MonUnregister(p) /\ UNCHANGED testVars PROVE TypeTest'
  BY <1>10, <1>a DEF MonUnregister, testVars, TypeTest
<1>11. ASSUME PostCollect /\ UNCHANGED testVars PROVE TypeTest'
  BY <1>11, <1>a DEF PostCollect, testVars, TypeTest
<1>12. ASSUME PostJoin /\ UNCHANGED testVars PROVE TypeTest'
  BY <1>12, <1>a DEF PostJoin, testVars, TypeTest
<1>13. ASSUME PostCore /\ UNCHANGED testVars PROVE TypeTest'
  BY <1>13, <1>a DEF PostCore, testVars, TypeTest
<1>14. ASSUME PostClear /\ UNCHANGED testVars PROVE TypeTest'
  BY <1>14, <1>a DEF PostClear, testVars, TypeTest
<1>15. ASSUME NEW k \in Killer, KillerStop(k) /\ UNCHANGED testVars PROVE TypeTest'
  BY <1>15, <1>a DEF KillerStop, testVars, TypeTest
<1>16. ASSUME NEW k \in Killer, NEW p \in Proc, KillerGet(k, p) /\ UNCHANGED testVars PROVE
    TypeTest'
  BY <1>16, <1>a DEF KillerGet, testVars, TypeTest
<1>17. ASSUME NEW p \in Proc, NEW w \in {"start", "append"}, upc = "idle" /\ Register(p, w) /\
    UNCHANGED testVars PROVE TypeTest'
  BY <1>17, <1>a DEF Register, testVars, TypeTest
<1>18. ASSUME AppendCore /\ UNCHANGED testVars PROVE TypeTest'
  BY <1>18, <1>a DEF AppendCore, testVars, TypeTest
<1>19. ASSUME UserStart /\ UNCHANGED testVars PROVE TypeTest'
  BY <1>19, <1>a DEF UserStart, testVars, TypeTest
<1>20. ASSUME RegistrationsComplete /\ UNCHANGED testVars PROVE TypeTest'
  BY <1>20, <1>a DEF RegistrationsComplete, testVars, TypeTest
<1>21. ASSUME KillStop /\ UNCHANGED testVars PROVE TypeTest'
  BY <1>21, <1>a DEF KillStop, testVars, TypeTest
<1>22. ASSUME NEW p \in Proc, KillProcess(p) /\ UNCHANGED testVars PROVE TypeTest'
  BY <1>22, <1>a DEF KillProcess, testVars, TypeTest
<1>23. ASSUME upc = "idle" /\ Shutdown("join") /\ UNCHANGED testVars PROVE TypeTest'
  BY <1>23, <1>a DEF Shutdown, testVars, TypeTest
<1>24. ASSUME Join("join", "idle") /\ UNCHANGED testVars PROVE TypeTest'
  BY <1>24, <1>a DEF Join, testVars, TypeTest
<1>25. ASSUME SetUp PROVE TypeTest'
  BY <1>25, <1>a DEF SetUp, testVars, TypeTest
<1>26. ASSUME CleanResults PROVE TypeTest'
  BY <1>26, <1>a DEF CleanResults, testVars, TypeTest
<1>27. ASSUME RegisterTest PROVE TypeTest'
  BY <1>27, <1>a DEF RegisterTest, Raise, testVars, TypeTest
<1>28. ASSUME StartTest PROVE TypeTest'
  BY <1>28, <1>a DEF StartTest, Raise, testVars, TypeTest
<1>29. ASSUME AliveTest PROVE TypeTest'
  BY <1>29, <1>a DEF AliveTest, Answered, Raise, testVars, TypeTest
<1>30. ASSUME PollTest PROVE TypeTest'
  BY <1>30, <1>a DEF PollTest, Raise, Answered, testVars, TypeTest
<1>31. ASSUME Evaluate PROVE TypeTest'
  <2>1. Len(Attempt) \in Nat /\ DOMAIN Attempt = 1 .. Len(Attempt)
    OBVIOUS
  <2>2. /\ attempt' \in DOMAIN Attempt /\ retry' \in Nat
        /\ attempt' + retry' <= Len(Attempt)
    <3>1. CASE UNCHANGED <<attempt, retry>>
      BY <1>a, <3>1 DEF TypeTest
    <3>2. CASE retry > 0 /\ retry' = retry - 1 /\ attempt' = attempt + 1
      BY <1>a, <2>1, <3>2 DEF TypeTest
    <3> QED BY <1>31, <3>1, <3>2 DEF Evaluate
  <2>3. results' \in {"none", "fail", "ok"}
    BY <1>31, <1>a DEF Evaluate, ReadResults, TypeTest
  <2>4. why' \in {why, "noResults", "unbound"}
    BY <1>31 DEF Evaluate, Raise
  <2> QED BY <1>31, <1>a, <2>2, <2>3, <2>4 DEF Evaluate, TypeTest
<1>32. ASSUME TearDown PROVE TypeTest'
  BY <1>32, <1>a DEF TearDown, testVars, TypeTest
<1>33. ASSUME ExitMain PROVE TypeTest'
  BY <1>33, <1>a DEF ExitMain, testVars, TypeTest
<1>34. ASSUME NEW p \in Proc \ Range(Attempt), ProcExit(p) /\ UNCHANGED testVars PROVE
    TypeTest'
  BY <1>34, <1>a DEF ProcExit, testVars, TypeTest
<1>35. ASSUME NEW p \in Range(Attempt), upc # "exited" /\ TestExit(p) PROVE TypeTest'
  <2>1. p \in Proc
    BY <1>35, TestsAreProcs DEF Tests
  <2>2. file' \in [what : {"none", "pass", "fail", "garbled"}, by : Proc \cup {NoProc}]
    BY <1>35, <1>a, <2>1 DEF TestExit, TypeTest
  <2> QED BY <1>35, <1>a, <2>2 DEF TestExit, TypeTest
<1> QED BY <1>0, <1>1, <1>2, <1>3, <1>4, <1>5, <1>6, <1>7, <1>8, <1>9, <1>10, <1>11, <1>12,
    <1>13, <1>14, <1>15, <1>16, <1>17, <1>18, <1>19, <1>20, <1>21, <1>22, <1>23, <1>24, <1>25,
    <1>26, <1>27, <1>28, <1>29, <1>30, <1>31, <1>32, <1>33, <1>34, <1>35, AllSteps

\* Types hold, of all states.
LEMMA TypesStep == TypesInv /\ [Next]_allVars => TypesInv'
BY MonTypes, ProcTypes, RunTypes, UserTypes, TestTypes DEF TypesInv

LEMMA TypesInit == TestInit => TypesInv
<1> SUFFICES ASSUME TestInit PROVE TypesInv
  OBVIOUS
<1>1. TypeMon
  <2>1. coreProcs \in Seq(Proc)
    BY DEF TestInit, Init
  <2> QED BY <2>1 DEF TestInit, Init, TypeMon
<1>2. proc \in [Proc -> ProcState] /\ \A p \in Proc : ~Running(p)
  BY DEF TestInit, Init, ProcState, Running
<1>3. TypeProc /\ ProcInv
  BY <1>2 DEF TestInit, Init, TypeProc, ProcInv, Attended
<1>4. TypeRun
  BY DEF TestInit, Init, TypeRun, MonPCs
<1>5. TypeUser
  <2>1. Range(Attempt) \subseteq Proc
    BY TestsAreProcs DEF Tests
  <2> QED BY <2>1 DEF TestInit, Init, TypeUser, UserPCs
<1>6. TypeTest
  <2>1. Len(Attempt) \in Nat \ {0} /\ DOMAIN Attempt = 1 .. Len(Attempt)
    OBVIOUS
  <2>2. retry \in Nat /\ retry < Len(Attempt) /\ attempt = 1
    <3>1. retry = 0 \/ retry \in Retries
      BY DEF TestInit
    <3> QED BY <2>1, <3>1 DEF TestInit
  <2>3. /\ file \in [what : {"none", "pass", "fail", "garbled"}, by : Proc \cup {NoProc}]
        /\ textMode \in BOOLEAN
    <3>1. CASE file = [what |-> "none", by |-> NoProc] /\ textMode = FALSE
      BY <3>1
    <3>2. CASE /\ textMode \in BOOLEAN
               /\ file \in {[what |-> w, by |-> NoProc] : w \in {"none", "pass"}}
      BY <3>2
    <3> QED BY <3>1, <3>2 DEF TestInit
  <2> QED BY <2>1, <2>2, <2>3 DEF TestInit, TypeTest
<1> QED BY <1>1, <1>3, <1>4, <1>5, <1>6 DEF TypesInv

LEMMA TypesAreOK == TypesInv => TypeOK
BY DEF TypesInv, TypeMon, TypeProc, TypeRun, TypeUser, TypeTest, ProcState, MonPCs, UserPCs,
  TypeOK

-----------------------------------------------------------------------------
(* What the monitor watches                                                *)

\* What runs stays watched, and is killed in the order that was promised.
LEMMA WatchStep == TypesInv /\ WatchInv /\ [Next]_allVars => WatchInv'
<1> SUFFICES ASSUME TypesInv /\ WatchInv, [Next]_allVars PROVE WatchInv'
  OBVIOUS
<1>a. TypeMon /\ TypeProc /\ ProcInv /\ TypeRun /\ TypeUser /\ TypeTest
  BY DEF TypesInv
<1>b. WatchInv
  OBVIOUS
<1>0. CASE UNCHANGED allVars
  BY <1>0, <1>b DEF allVars, vars, monVars, procVars, runVars, postVars, userVars, WatchInv,
    RunningIsWatched, CoreKilledLast, KillInv, Attended, Running
<1>1. ASSUME MonCopy /\ UNCHANGED testVars PROVE WatchInv'
  BY <1>1, <1>a, <1>b DEF MonCopy, monVars, procVars, postVars, userVars, WatchInv,
      RunningIsWatched, CoreKilledLast, KillInv, Attended, Running
<1>2. ASSUME MonBuryStop /\ UNCHANGED testVars PROVE WatchInv'
  <2>1. cur \in Proc /\ Mon \in Thread
    BY <1>2, <1>a DEF MonBuryStop, TypeRun, Thread
  <2>2. CASE StopReturns(Mon, cur)
    <3>1. \A q \in Proc : Attended(q)' => q # cur /\ Attended(q)
      BY <1>a, <2>1, <2>2, StopEffect DEF Attended, Running
    <3> QED BY <1>2, <1>b, <3>1 DEF MonBuryStop, postVars, userVars, monVars, WatchInv,
      RunningIsWatched, CoreKilledLast, KillInv
  <2>3. CASE StopBegin(Mon, cur) /\ UNCHANGED pc
    <3>1. UNCHANGED <<proc, pc, cur, core, killing, upc>>
      BY <1>2, <2>3 DEF MonBuryStop, StopBegin, runVars, postVars, userVars
    <3> QED BY <1>2, <1>a, <1>b, <3>1 DEF MonBuryStop, monVars, runVars, postVars, WatchInv,
      RunningIsWatched, CoreKilledLast, KillInv, Attended, Running
  <2> QED BY <1>2, <2>2, <2>3 DEF MonBuryStop
<1>3. ASSUME MonSave /\ UNCHANGED testVars PROVE WatchInv'
  BY <1>3, <1>a, <1>b DEF MonSave, procVars, postVars, userVars, WatchInv, RunningIsWatched,
      CoreKilledLast, KillInv, Attended, Running
<1>4. ASSUME MonExitTest /\ UNCHANGED testVars PROVE WatchInv'
  BY <1>4, <1>a, <1>b DEF MonExitTest, procVars, postVars, userVars, WatchInv,
      RunningIsWatched, CoreKilledLast, KillInv, Attended, Running
<1>5. ASSUME MonRespawnNext /\ UNCHANGED testVars PROVE WatchInv'
  BY <1>5, <1>a, <1>b DEF MonRespawnNext, monVars, procVars, postVars, userVars, WatchInv,
      RunningIsWatched, CoreKilledLast, KillInv, Attended, Running
<1>6. ASSUME MonRespawnStop /\ UNCHANGED testVars PROVE WatchInv'
  <2>1. cur \in Proc /\ Mon \in Thread
    BY <1>6, <1>a DEF MonRespawnStop, TypeRun, Thread
  <2>2. CASE StopReturns(Mon, cur)
    <3>1. \A q \in Proc : Attended(q)' => q # cur /\ Attended(q)
      BY <1>a, <2>1, <2>2, StopEffect DEF Attended, Running
    <3> QED BY <1>6, <1>b, <3>1 DEF MonRespawnStop, postVars, userVars, monVars, WatchInv,
      RunningIsWatched, CoreKilledLast, KillInv
  <2>3. CASE StopBegin(Mon, cur) /\ UNCHANGED pc
    <3>1. UNCHANGED <<proc, pc, cur, core, killing, upc>>
      BY <1>6, <2>3 DEF MonRespawnStop, StopBegin, runVars, postVars, userVars
    <3> QED BY <1>6, <1>a, <1>b, <3>1 DEF MonRespawnStop, monVars, runVars, postVars,
      WatchInv, RunningIsWatched, CoreKilledLast, KillInv, Attended, Running
  <2> QED BY <1>6, <2>2, <2>3 DEF MonRespawnStop
<1>7. ASSUME MonRespawnStart /\ UNCHANGED testVars PROVE WatchInv'
  <2>1. cur \in Proc /\ \E outcome \in StartOutcome(cur) : Start(cur, outcome)
    BY <1>7, <1>a DEF MonRespawnStart, TypeRun
  <2>2. /\ \A q \in Proc : q # cur => (Attended(q)' <=> Attended(q))
        /\ stray \subseteq stray' /\ (cur \in stray' \/ (cur \in procs /\ ~isShutdown))
    BY <1>a, <2>1, StartEffect DEF Attended, Running
  <2>3. \A q \in Proc \ stray' : Attended(q)' =>
          (q \notin stray /\ Attended(q)) \/ (q \in procs /\ ~isShutdown)
    BY <2>2
  <2>4. UNCHANGED <<procs, isShutdown, core, queue, killing>>
    BY <1>7 DEF MonRespawnStart, monVars, postVars
  <2>5. UNCHANGED <<pc, cur, upc>> \/ (pc = "respawnStart" /\ pc' = "respawn" /\ UNCHANGED upc)
          \/ (UNCHANGED <<pc, cur>> /\ upc' # "setUp")
    BY <1>7 DEF MonRespawnStart, runVars, userVars, Raise
  <2> QED BY <1>b, <2>3, <2>4, <2>5 DEF WatchInv, RunningIsWatched, CoreKilledLast, KillInv
<1>8. ASSUME NEW p \in Proc, MonPollCheck(p) /\ UNCHANGED testVars PROVE WatchInv'
  BY <1>8, <1>a, <1>b DEF MonPollCheck, Polled, procVars, postVars, userVars, WatchInv,
      RunningIsWatched, CoreKilledLast, KillInv, Attended, Running
<1>9. ASSUME NEW p \in Proc, MonPoll(p) /\ UNCHANGED testVars PROVE WatchInv'
  BY <1>9, <1>a, <1>b DEF MonPoll, Polled, procVars, postVars, userVars, WatchInv,
      RunningIsWatched, CoreKilledLast, KillInv, Attended, Running
<1>10. ASSUME NEW p \in Proc, MonUnregister(p) /\ UNCHANGED testVars PROVE WatchInv'
  BY <1>10, <1>a, <1>b DEF MonUnregister, procVars, postVars, userVars, WatchInv,
      RunningIsWatched, CoreKilledLast, KillInv, Attended, Running
<1>11. ASSUME PostCollect /\ UNCHANGED testVars PROVE WatchInv'
  BY <1>11, <1>a, <1>b DEF PostCollect, procVars, userVars, WatchInv, RunningIsWatched,
      CoreKilledLast, KillInv, Attended, Running
<1>12. ASSUME PostJoin /\ UNCHANGED testVars PROVE WatchInv'
  BY <1>12, <1>a, <1>b DEF PostJoin, monVars, procVars, postVars, userVars, WatchInv,
      RunningIsWatched, CoreKilledLast, KillInv, Attended, Running
<1>13. ASSUME PostCore /\ UNCHANGED testVars PROVE WatchInv'
  <2>1. Last(core) \in Proc /\ Mon \in Thread
    BY <1>13, <1>a, LastIsElement DEF PostCore, TypeRun, Thread
  <2>2. CASE StopReturns(Mon, Last(core))
    <3>1. \A q \in Proc : Attended(q)' => q # Last(core) /\ Attended(q)
      BY <1>a, <2>1, <2>2, StopEffect DEF Attended, Running
    <3>2. UNCHANGED <<monVars, runVars, queue, killing, stray, upc>> /\ pc = "core"
      BY <1>13 DEF PostCore, userVars
    <3>3. core' = Front(core) \/ UNCHANGED core
      BY <1>13 DEF PostCore
    <3>4. \A q \in Range(core) : q = Last(core) \/ q \in Range(Front(core))
      BY <1>13, <1>a, LastIsElement DEF PostCore, TypeRun
    <3>5. \A q \in Proc : Attended(q)' /\ q \in Range(core) => q \in Range(core')
      BY <3>1, <3>3, <3>4
    <3> QED BY <1>b, <3>1, <3>2, <3>5 DEF monVars, runVars, WatchInv, RunningIsWatched,
      CoreKilledLast, KillInv
  <2>3. CASE StopBegin(Mon, Last(core)) /\ UNCHANGED core
    <3>1. UNCHANGED <<proc, pc, cur, core, killing, upc>>
      BY <1>13, <2>3 DEF PostCore, StopBegin, runVars, postVars, userVars
    <3> QED BY <1>13, <1>a, <1>b, <3>1 DEF PostCore, monVars, runVars, postVars, WatchInv,
      RunningIsWatched, CoreKilledLast, KillInv, Attended, Running
  <2> QED BY <1>13, <2>2, <2>3 DEF PostCore
<1>14. ASSUME PostClear /\ UNCHANGED testVars PROVE WatchInv'
  <2>1. pc = "core" /\ Range(core) = {}
    BY <1>14 DEF PostClear, Range
  <2>2. \A p \in Proc \ stray : ~Attended(p)
    BY <1>b, <2>1 DEF WatchInv, CoreKilledLast
  <2> QED BY <1>14, <1>b, <2>2 DEF PostClear, procVars, postVars, userVars, WatchInv,
    RunningIsWatched, CoreKilledLast, KillInv, Attended, Running
<1>15. ASSUME NEW k \in Killer, KillerStop(k) /\ UNCHANGED testVars PROVE WatchInv'
  <2>1. killing[k] \in Proc /\ k \in Thread
    BY <1>15, <1>a DEF KillerStop, TypeRun, Thread
  <2>2. CASE StopReturns(k, killing[k])
    <3>1. \A q \in Proc : Attended(q)' => q # killing[k] /\ Attended(q)
      BY <1>a, <2>1, <2>2, StopEffect DEF Attended, Running
    <3>2. /\ UNCHANGED <<monVars, runVars, core, queue, stray, upc>>
          /\ killing' = [killing EXCEPT ![k] = NoProc] \/ UNCHANGED killing
      BY <1>15 DEF KillerStop, userVars
    <3>3. \A q \in Proc, j \in Killer : Attended(q)' /\ killing[j] = q => killing'[j] = q
      BY <1>a, <3>1, <3>2 DEF TypeRun
    <3> QED BY <1>b, <3>1, <3>2, <3>3 DEF monVars, runVars, WatchInv, RunningIsWatched,
      CoreKilledLast, KillInv
  <2>3. CASE StopBegin(k, killing[k]) /\ UNCHANGED killing
    <3>1. UNCHANGED <<proc, pc, cur, core, killing, upc>>
      BY <1>15, <2>3 DEF KillerStop, StopBegin, runVars, postVars, userVars
    <3> QED BY <1>15, <1>a, <1>b, <3>1 DEF KillerStop, monVars, runVars, postVars, WatchInv,
      RunningIsWatched, CoreKilledLast, KillInv, Attended, Running
  <2> QED BY <1>15, <2>2, <2>3 DEF KillerStop
<1>16. ASSUME NEW k \in Killer, NEW p \in Proc, KillerGet(k, p) /\ UNCHANGED testVars PROVE
    WatchInv'
  <2>1. killing'[k] = p /\ \A j \in Killer : j # k => killing'[j] = killing[j]
    BY <1>16, <1>a DEF KillerGet, TypeRun
  <2>2. \A q \in Proc : q \in queue => q \in queue' \/ killing'[k] = q
    BY <1>16, <2>1 DEF KillerGet
  <2>3. \A q \in Proc, j \in Killer : killing[j] = q => killing'[j] = q
    BY <1>16, <2>1 DEF KillerGet
  <2> QED BY <1>16, <1>b, <2>2, <2>3 DEF KillerGet, monVars, procVars, runVars, userVars,
    WatchInv, RunningIsWatched, CoreKilledLast, KillInv, Attended, Running
<1>17. ASSUME NEW p \in Proc, NEW w \in {"start", "append"}, upc = "idle" /\ Register(p, w) /\
    UNCHANGED testVars PROVE WatchInv'
  BY <1>17, <1>a, <1>b DEF Register, procVars, runVars, postVars, WatchInv, RunningIsWatched,
      CoreKilledLast, KillInv, Attended, Running
<1>18. ASSUME AppendCore /\ UNCHANGED testVars PROVE WatchInv'
  BY <1>18, <1>a, <1>b DEF AppendCore, procVars, runVars, postVars, WatchInv, RunningIsWatched,
      CoreKilledLast, KillInv, Attended, Running
<1>19. ASSUME UserStart /\ UNCHANGED testVars PROVE WatchInv'
  <2>1. ucur \in Proc /\ \E outcome \in StartOutcome(ucur) : Start(ucur, outcome)
    BY <1>19, <1>a DEF UserStart, TypeUser
  <2>2. /\ \A q \in Proc : q # ucur => (Attended(q)' <=> Attended(q))
        /\ stray \subseteq stray' /\ (ucur \in stray' \/ (ucur \in procs /\ ~isShutdown))
    BY <1>a, <2>1, StartEffect DEF Attended, Running
  <2>3. \A q \in Proc \ stray' : Attended(q)' =>
          (q \notin stray /\ Attended(q)) \/ (q \in procs /\ ~isShutdown)
    BY <2>2
  <2>4. UNCHANGED <<procs, isShutdown, core, queue, killing>>
    BY <1>19 DEF UserStart, monVars, postVars
  <2>5. UNCHANGED <<pc, cur, upc>> \/ (pc = "respawnStart" /\ pc' = "respawn" /\ UNCHANGED upc)
          \/ (UNCHANGED <<pc, cur>> /\ upc' # "setUp")
    BY <1>19 DEF UserStart, runVars, userVars, Raise
  <2> QED BY <1>b, <2>3, <2>4, <2>5 DEF WatchInv, RunningIsWatched, CoreKilledLast, KillInv
<1>20. ASSUME RegistrationsComplete /\ UNCHANGED testVars PROVE WatchInv'
  BY <1>20, <1>a, <1>b DEF RegistrationsComplete, procVars, runVars, postVars, userVars,
      WatchInv, RunningIsWatched, CoreKilledLast, KillInv, Attended, Running
<1>21. ASSUME KillStop /\ UNCHANGED testVars PROVE WatchInv'
  <2>1. ucur \in Proc /\ User \in Thread
    BY <1>21, <1>a DEF KillStop, TypeUser, Thread
  <2>2. CASE StopReturns(User, ucur)
    <3>1. \A q \in Proc : Attended(q)' => q # ucur /\ Attended(q)
      BY <1>a, <2>1, <2>2, StopEffect DEF Attended, Running
    <3> QED BY <1>21, <1>b, <3>1 DEF KillStop, runVars, postVars, monVars, WatchInv,
      RunningIsWatched, CoreKilledLast, KillInv
  <2>3. CASE StopBegin(User, ucur) /\ UNCHANGED <<upc, ucur>>
    <3>1. UNCHANGED <<proc, pc, cur, core, killing, upc>>
      BY <1>21, <2>3 DEF KillStop, StopBegin, runVars, postVars, userVars
    <3> QED BY <1>21, <1>a, <1>b, <3>1 DEF KillStop, monVars, runVars, postVars, WatchInv,
      RunningIsWatched, CoreKilledLast, KillInv, Attended, Running
  <2> QED BY <1>21, <2>2, <2>3 DEF KillStop
<1>22. ASSUME NEW p \in Proc, KillProcess(p) /\ UNCHANGED testVars PROVE WatchInv'
  BY <1>22, <1>a, <1>b DEF KillProcess, procVars, runVars, postVars, WatchInv,
      RunningIsWatched, CoreKilledLast, KillInv, Attended, Running
<1>23. ASSUME upc = "idle" /\ Shutdown("join") /\ UNCHANGED testVars PROVE WatchInv'
  BY <1>23, <1>a, <1>b DEF Shutdown, procVars, runVars, postVars, WatchInv, RunningIsWatched,
      CoreKilledLast, KillInv, Attended, Running
<1>24. ASSUME Join("join", "idle") /\ UNCHANGED testVars PROVE WatchInv'
  BY <1>24, <1>a, <1>b DEF Join, monVars, procVars, runVars, postVars, WatchInv,
      RunningIsWatched, CoreKilledLast, KillInv, Attended, Running
<1>25. ASSUME SetUp PROVE WatchInv'
  BY <1>25, <1>a, <1>b DEF SetUp, monVars, procVars, postVars, WatchInv, RunningIsWatched,
      CoreKilledLast, KillInv, Attended, Running
<1>26. ASSUME CleanResults PROVE WatchInv'
  BY <1>26, <1>a, <1>b DEF CleanResults, monVars, procVars, runVars, postVars, WatchInv,
      RunningIsWatched, CoreKilledLast, KillInv, Attended, Running
<1>27. ASSUME RegisterTest PROVE WatchInv'
  BY <1>27, <1>a, <1>b DEF RegisterTest, Register, Raise, monVars, procVars, runVars, postVars,
      WatchInv, RunningIsWatched, CoreKilledLast, KillInv, Attended, Running
<1>28. ASSUME StartTest PROVE WatchInv'
  <2>1. Process \in Proc /\ \E outcome \in StartOutcome(Process) : Start(Process, outcome)
    BY <1>28, <1>a DEF StartTest, TypeTest, Process
  <2>2. /\ \A q \in Proc : q # Process => (Attended(q)' <=> Attended(q))
        /\ stray \subseteq stray' /\ (Process \in stray' \/ (Process \in procs /\ ~isShutdown))
    BY <1>a, <2>1, StartEffect DEF Attended, Running
  <2>3. \A q \in Proc \ stray' : Attended(q)' =>
          (q \notin stray /\ Attended(q)) \/ (q \in procs /\ ~isShutdown)
    BY <2>2
  <2>4. UNCHANGED <<procs, isShutdown, core, queue, killing>>
    BY <1>28 DEF StartTest, monVars, postVars
  <2>5. UNCHANGED <<pc, cur, upc>> \/ (pc = "respawnStart" /\ pc' = "respawn" /\ UNCHANGED upc)
          \/ (UNCHANGED <<pc, cur>> /\ upc' # "setUp")
    BY <1>28 DEF StartTest, runVars, userVars, Raise
  <2> QED BY <1>b, <2>3, <2>4, <2>5 DEF WatchInv, RunningIsWatched, CoreKilledLast, KillInv
<1>29. ASSUME AliveTest PROVE WatchInv'
  BY <1>29, <1>a, <1>b DEF AliveTest, Answered, Raise, monVars, procVars, runVars, postVars,
      WatchInv, RunningIsWatched, CoreKilledLast, KillInv, Attended, Running
<1>30. ASSUME PollTest PROVE WatchInv'
  BY <1>30, <1>a, <1>b DEF PollTest, Raise, Answered, monVars, procVars, runVars, postVars,
      WatchInv, RunningIsWatched, CoreKilledLast, KillInv, Attended, Running
<1>31. ASSUME Evaluate PROVE WatchInv'
  BY <1>31, <1>a, <1>b DEF Evaluate, Raise, monVars, procVars, runVars, postVars, WatchInv,
      RunningIsWatched, CoreKilledLast, KillInv, Attended, Running
<1>32. ASSUME TearDown PROVE WatchInv'
  BY <1>32, <1>a, <1>b DEF TearDown, Shutdown, procVars, runVars, postVars, WatchInv,
      RunningIsWatched, CoreKilledLast, KillInv, Attended, Running
<1>33. ASSUME ExitMain PROVE WatchInv'
  BY <1>33, <1>b DEF ExitMain, Join, monVars, procVars, runVars, postVars, WatchInv,
    RunningIsWatched, CoreKilledLast, KillInv, Attended, Running
<1>34. ASSUME NEW p \in Proc \ Range(Attempt), ProcExit(p) /\ UNCHANGED testVars PROVE
    WatchInv'
  <2>1. p \in Proc /\ ProcExit(p)
    BY <1>34, TestsAreProcs DEF TestExit, Tests
  <2>2. \A q \in Proc : Attended(q)' => Attended(q)
    BY <1>a, <2>1, ExitEffect DEF Attended, Running
  <2> QED BY <1>b, <2>1, <2>2 DEF ProcExit, monVars, runVars, postVars, userVars, WatchInv,
    RunningIsWatched, CoreKilledLast, KillInv
<1>35. ASSUME NEW p \in Range(Attempt), upc # "exited" /\ TestExit(p) PROVE WatchInv'
  <2>1. p \in Proc /\ ProcExit(p)
    BY <1>35, TestsAreProcs DEF TestExit, Tests
  <2>2. \A q \in Proc : Attended(q)' => Attended(q)
    BY <1>a, <2>1, ExitEffect DEF Attended, Running
  <2> QED BY <1>b, <2>1, <2>2 DEF ProcExit, monVars, runVars, postVars, userVars, WatchInv,
    RunningIsWatched, CoreKilledLast, KillInv
<1> QED BY <1>0, <1>1, <1>2, <1>3, <1>4, <1>5, <1>6, <1>7, <1>8, <1>9, <1>10, <1>11, <1>12,
    <1>13, <1>14, <1>15, <1>16, <1>17, <1>18, <1>19, <1>20, <1>21, <1>22, <1>23, <1>24, <1>25,
    <1>26, <1>27, <1>28, <1>29, <1>30, <1>31, <1>32, <1>33, <1>34, <1>35, AllSteps

LEMMA WatchInit == TestInit => WatchInv
BY DEF TestInit, Init, WatchInv, RunningIsWatched, CoreKilledLast, KillInv, Attended, Running

-----------------------------------------------------------------------------
(* What the verdict is about                                               *)

\* Nobody but runTest starts a process of the test, and before the shutdown nobody
\* gives up one that runs.
OnlyRunTestStarts ==
  /\ UNCHANGED kind
  /\ \A p \in Tests :
       \/ upc = "startTest" /\ upc' # "startTest" /\ p = Process
       \/ /\ (Running(p)' => Running(p)) /\ proc'[p].started = proc[p].started
          /\ isShutdown \/ (Running(p)' => proc'[p].popen = proc[p].popen)

\* No other step starts one.
LEMMA TestsRun ==
  TypesInv /\ KillInv /\ StartersInv /\ ModeInv /\ TestsInv /\ [Next]_allVars
    => OnlyRunTestStarts
<1> SUFFICES ASSUME TypesInv /\ KillInv /\ StartersInv /\ ModeInv /\ TestsInv, [Next]_allVars
             PROVE  OnlyRunTestStarts
  OBVIOUS
<1>a. TypeMon /\ TypeProc /\ ProcInv /\ TypeRun /\ TypeUser /\ TypeTest
  BY DEF TypesInv
<1>t. Tests \subseteq Proc
  BY TestsAreProcs
<1>0. CASE UNCHANGED allVars
  BY <1>0 DEF allVars, vars, procVars, OnlyRunTestStarts, Running
<1>1. ASSUME MonCopy /\ UNCHANGED testVars PROVE OnlyRunTestStarts
  <2>1. UNCHANGED <<kind, proc>>
    BY <1>1 DEF MonCopy, procVars
  <2> QED BY <2>1 DEF OnlyRunTestStarts, Running
<1>2. ASSUME MonBuryStop /\ UNCHANGED testVars PROVE OnlyRunTestStarts
  <2>1. cur \in Proc /\ Mon \in Thread
    BY <1>2, <1>a DEF MonBuryStop, TypeRun, Thread
  <2>0. isShutdown \/ cur \notin Tests \/ ~Running(cur)
    BY <1>2 DEF MonBuryStop, TestsInv
  <2>2. CASE StopReturns(Mon, cur)
    BY <1>a, <1>t, <2>0, <2>1, <2>2, StopEffect DEF OnlyRunTestStarts, Running
  <2>3. CASE StopBegin(Mon, cur)
    BY <2>3 DEF StopBegin, OnlyRunTestStarts, Running
  <2> QED BY <1>2, <2>2, <2>3 DEF MonBuryStop
<1>3. ASSUME MonSave /\ UNCHANGED testVars PROVE OnlyRunTestStarts
  <2>1. UNCHANGED <<kind, proc>>
    BY <1>3 DEF MonSave, procVars
  <2> QED BY <2>1 DEF OnlyRunTestStarts, Running
<1>4. ASSUME MonExitTest /\ UNCHANGED testVars PROVE OnlyRunTestStarts
  <2>1. UNCHANGED <<kind, proc>>
    BY <1>4 DEF MonExitTest, procVars
  <2> QED BY <2>1 DEF OnlyRunTestStarts, Running
<1>5. ASSUME MonRespawnNext /\ UNCHANGED testVars PROVE OnlyRunTestStarts
  <2>1. UNCHANGED <<kind, proc>>
    BY <1>5 DEF MonRespawnNext, procVars
  <2> QED BY <2>1 DEF OnlyRunTestStarts, Running
<1>6. ASSUME MonRespawnStop /\ UNCHANGED testVars PROVE OnlyRunTestStarts
  <2>1. cur \in Proc /\ Mon \in Thread
    BY <1>6, <1>a DEF MonRespawnStop, TypeRun, Thread
  <2>0. cur \notin Tests
    BY <1>6, <1>a, TestsAreProcs DEF MonRespawnStop, StartersInv, TypeProc
  <2>2. CASE StopReturns(Mon, cur)
    BY <1>a, <1>t, <2>0, <2>1, <2>2, StopEffect DEF OnlyRunTestStarts, Running
  <2>3. CASE StopBegin(Mon, cur)
    BY <2>3 DEF StopBegin, OnlyRunTestStarts, Running
  <2> QED BY <1>6, <2>2, <2>3 DEF MonRespawnStop
<1>7. ASSUME MonRespawnStart /\ UNCHANGED testVars PROVE OnlyRunTestStarts
  <2>1. cur \in Proc /\ \E outcome \in StartOutcome(cur) : Start(cur, outcome)
    BY <1>7, <1>a DEF MonRespawnStart, TypeRun
  <2>2. cur \notin Tests
    BY <1>7, <1>a, TestsAreProcs DEF MonRespawnStart, StartersInv, TypeProc
  <2> QED BY <1>a, <1>t, <2>1, <2>2, StartEffect DEF OnlyRunTestStarts, Running
<1>8. ASSUME NEW p \in Proc, MonPollCheck(p) /\ UNCHANGED testVars PROVE OnlyRunTestStarts
  <2>1. UNCHANGED <<kind, proc>>
    BY <1>8 DEF MonPollCheck, procVars
  <2> QED BY <2>1 DEF OnlyRunTestStarts, Running
<1>9. ASSUME NEW p \in Proc, MonPoll(p) /\ UNCHANGED testVars PROVE OnlyRunTestStarts
  <2>1. UNCHANGED <<kind, proc>>
    BY <1>9 DEF MonPoll, procVars
  <2> QED BY <2>1 DEF OnlyRunTestStarts, Running
<1>10. ASSUME NEW p \in Proc, MonUnregister(p) /\ UNCHANGED testVars PROVE OnlyRunTestStarts
  <2>1. UNCHANGED <<kind, proc>>
    BY <1>10 DEF MonUnregister, procVars
  <2> QED BY <2>1 DEF OnlyRunTestStarts, Running
<1>11. ASSUME PostCollect /\ UNCHANGED testVars PROVE OnlyRunTestStarts
  <2>1. UNCHANGED <<kind, proc>>
    BY <1>11 DEF PostCollect, procVars
  <2> QED BY <2>1 DEF OnlyRunTestStarts, Running
<1>12. ASSUME PostJoin /\ UNCHANGED testVars PROVE OnlyRunTestStarts
  <2>1. UNCHANGED <<kind, proc>>
    BY <1>12 DEF PostJoin, procVars
  <2> QED BY <2>1 DEF OnlyRunTestStarts, Running
<1>13. ASSUME PostCore /\ UNCHANGED testVars PROVE OnlyRunTestStarts
  <2>1. Last(core) \in Proc /\ Mon \in Thread
    BY <1>13, <1>a, LastIsElement DEF PostCore, TypeRun, Thread
  <2>0. isShutdown
    BY <1>13 DEF PostCore, KillInv
  <2>2. CASE StopReturns(Mon, Last(core))
    BY <1>a, <1>t, <2>0, <2>1, <2>2, StopEffect DEF OnlyRunTestStarts, Running
  <2>3. CASE StopBegin(Mon, Last(core))
    BY <2>3 DEF StopBegin, OnlyRunTestStarts, Running
  <2> QED BY <1>13, <2>2, <2>3 DEF PostCore
<1>14. ASSUME PostClear /\ UNCHANGED testVars PROVE OnlyRunTestStarts
  <2>1. UNCHANGED <<kind, proc>>
    BY <1>14 DEF PostClear, procVars
  <2> QED BY <2>1 DEF OnlyRunTestStarts, Running
<1>15. ASSUME NEW k \in Killer, KillerStop(k) /\ UNCHANGED testVars PROVE OnlyRunTestStarts
  <2>1. killing[k] \in Proc /\ k \in Thread
    BY <1>15, <1>a DEF KillerStop, TypeRun, Thread
  <2>0. isShutdown
    BY <1>15 DEF KillerStop, ModeInv
  <2>2. CASE StopReturns(k, killing[k])
    BY <1>a, <1>t, <2>0, <2>1, <2>2, StopEffect DEF OnlyRunTestStarts, Running
  <2>3. CASE StopBegin(k, killing[k])
    BY <2>3 DEF StopBegin, OnlyRunTestStarts, Running
  <2> QED BY <1>15, <2>2, <2>3 DEF KillerStop
<1>16. ASSUME NEW k \in Killer, NEW p \in Proc, KillerGet(k, p) /\ UNCHANGED testVars PROVE
    OnlyRunTestStarts
  <2>1. UNCHANGED <<kind, proc>>
    BY <1>16 DEF KillerGet, procVars
  <2> QED BY <2>1 DEF OnlyRunTestStarts, Running
<1>17. ASSUME NEW p \in Proc, NEW w \in {"start", "append"}, upc = "idle" /\ Register(p, w) /\
    UNCHANGED testVars PROVE OnlyRunTestStarts
  <2>1. UNCHANGED <<kind, proc>>
    BY <1>17 DEF Register, procVars
  <2> QED BY <2>1 DEF OnlyRunTestStarts, Running
<1>18. ASSUME AppendCore /\ UNCHANGED testVars PROVE OnlyRunTestStarts
  <2>1. UNCHANGED <<kind, proc>>
    BY <1>18 DEF AppendCore, procVars
  <2> QED BY <2>1 DEF OnlyRunTestStarts, Running
<1>19. ASSUME UserStart /\ UNCHANGED testVars PROVE OnlyRunTestStarts
  <2>1. ucur \in Proc /\ \E outcome \in StartOutcome(ucur) : Start(ucur, outcome)
    BY <1>19, <1>a DEF UserStart, TypeUser
  <2>2. ucur \notin Tests
    BY <1>19 DEF UserStart, StartersInv
  <2> QED BY <1>a, <1>t, <2>1, <2>2, StartEffect DEF OnlyRunTestStarts, Running
<1>20. ASSUME RegistrationsComplete /\ UNCHANGED testVars PROVE OnlyRunTestStarts
  <2>1. UNCHANGED <<kind, proc>>
    BY <1>20 DEF RegistrationsComplete, procVars
  <2> QED BY <2>1 DEF OnlyRunTestStarts, Running
<1>21. ASSUME KillStop /\ UNCHANGED testVars PROVE OnlyRunTestStarts
  <2>1. ucur \in Proc /\ User \in Thread
    BY <1>21, <1>a DEF KillStop, TypeUser, Thread
  <2>0. ucur \notin Tests
    BY <1>21 DEF KillStop, ModeInv
  <2>2. CASE StopReturns(User, ucur)
    BY <1>a, <1>t, <2>0, <2>1, <2>2, StopEffect DEF OnlyRunTestStarts, Running
  <2>3. CASE StopBegin(User, ucur)
    BY <2>3 DEF StopBegin, OnlyRunTestStarts, Running
  <2> QED BY <1>21, <2>2, <2>3 DEF KillStop
<1>22. ASSUME NEW p \in Proc, KillProcess(p) /\ UNCHANGED testVars PROVE OnlyRunTestStarts
  <2>1. UNCHANGED <<kind, proc>>
    BY <1>22 DEF KillProcess, procVars
  <2> QED BY <2>1 DEF OnlyRunTestStarts, Running
<1>23. ASSUME upc = "idle" /\ Shutdown("join") /\ UNCHANGED testVars PROVE OnlyRunTestStarts
  <2>1. UNCHANGED <<kind, proc>>
    BY <1>23 DEF Shutdown, procVars
  <2> QED BY <2>1 DEF OnlyRunTestStarts, Running
<1>24. ASSUME Join("join", "idle") /\ UNCHANGED testVars PROVE OnlyRunTestStarts
  <2>1. UNCHANGED <<kind, proc>>
    BY <1>24 DEF Join, procVars
  <2> QED BY <2>1 DEF OnlyRunTestStarts, Running
<1>25. ASSUME SetUp PROVE OnlyRunTestStarts
  <2>1. UNCHANGED <<kind, proc>>
    BY <1>25 DEF SetUp, procVars
  <2> QED BY <2>1 DEF OnlyRunTestStarts, Running
<1>26. ASSUME CleanResults PROVE OnlyRunTestStarts
  <2>1. UNCHANGED <<kind, proc>>
    BY <1>26 DEF CleanResults, procVars
  <2> QED BY <2>1 DEF OnlyRunTestStarts, Running
<1>27. ASSUME RegisterTest PROVE OnlyRunTestStarts
  <2>1. UNCHANGED <<kind, proc>>
    BY <1>27 DEF RegisterTest, procVars, Register
  <2> QED BY <2>1 DEF OnlyRunTestStarts, Running
<1>28. ASSUME StartTest PROVE OnlyRunTestStarts
  <2>1. Process \in Proc /\ \E outcome \in StartOutcome(Process) : Start(Process, outcome)
    BY <1>28, <1>a DEF StartTest, TypeTest, Process
  <2>2. upc = "startTest" /\ upc' # "startTest"
    BY <1>28 DEF StartTest, Raise
  <2> QED BY <1>a, <1>t, <2>1, <2>2, StartEffect DEF OnlyRunTestStarts, Running
<1>29. ASSUME AliveTest PROVE OnlyRunTestStarts
  <2>1. UNCHANGED <<kind, proc>>
    BY <1>29 DEF AliveTest, procVars
  <2> QED BY <2>1 DEF OnlyRunTestStarts, Running
<1>30. ASSUME PollTest PROVE OnlyRunTestStarts
  <2>1. UNCHANGED <<kind, proc>>
    BY <1>30 DEF PollTest, procVars
  <2> QED BY <2>1 DEF OnlyRunTestStarts, Running
<1>31. ASSUME Evaluate PROVE OnlyRunTestStarts
  <2>1. UNCHANGED <<kind, proc>>
    BY <1>31 DEF Evaluate, procVars
  <2> QED BY <2>1 DEF OnlyRunTestStarts, Running
<1>32. ASSUME TearDown PROVE OnlyRunTestStarts
  <2>1. UNCHANGED <<kind, proc>>
    BY <1>32 DEF TearDown, Shutdown, procVars
  <2> QED BY <2>1 DEF OnlyRunTestStarts, Running
<1>33. ASSUME ExitMain PROVE OnlyRunTestStarts
  <2>1. UNCHANGED <<kind, proc>>
    BY <1>33 DEF ExitMain, Join, procVars
  <2> QED BY <2>1 DEF OnlyRunTestStarts, Running
<1>34. ASSUME NEW p \in Proc \ Range(Attempt), ProcExit(p) /\ UNCHANGED testVars PROVE
    OnlyRunTestStarts
  <2>1. p \in Proc /\ ProcExit(p)
    BY <1>34, TestsAreProcs DEF TestExit, Tests
  <2> QED BY <1>a, <1>t, <2>1, ExitEffect DEF OnlyRunTestStarts, Running
<1>35. ASSUME NEW p \in Range(Attempt), upc # "exited" /\ TestExit(p) PROVE OnlyRunTestStarts
  <2>1. p \in Proc /\ ProcExit(p)
    BY <1>35, TestsAreProcs DEF TestExit, Tests
  <2> QED BY <1>a, <1>t, <2>1, ExitEffect DEF OnlyRunTestStarts, Running
<1> QED BY <1>0, <1>1, <1>2, <1>3, <1>4, <1>5, <1>6, <1>7, <1>8, <1>9, <1>10, <1>11, <1>12,
    <1>13, <1>14, <1>15, <1>16, <1>17, <1>18, <1>19, <1>20, <1>21, <1>22, <1>23, <1>24, <1>25,
    <1>26, <1>27, <1>28, <1>29, <1>30, <1>31, <1>32, <1>33, <1>34, <1>35, AllSteps

\* The monitor respawns only what is to be respawned.
LEMMA StartersStep ==
  TypesInv /\ KillInv /\ StartersInv /\ ModeInv /\ TestsInv /\ [Next]_allVars => StartersInv'
<1> SUFFICES ASSUME TypesInv /\ KillInv /\ StartersInv /\ ModeInv /\ TestsInv, [Next]_allVars
             PROVE  StartersInv'
  OBVIOUS
<1>a. TypeMon /\ TypeProc /\ ProcInv /\ TypeRun /\ TypeUser /\ TypeTest
  BY DEF TypesInv
<1>r. OnlyRunTestStarts
  BY TestsRun
<1>b. StartersInv /\ UNCHANGED kind
  BY <1>r DEF OnlyRunTestStarts
<1>0. CASE UNCHANGED allVars
  BY <1>0, <1>b DEF allVars, vars, runVars, userVars, StartersInv
<1>1. ASSUME MonCopy /\ UNCHANGED testVars PROVE StartersInv'
  BY <1>1, <1>b DEF MonCopy, userVars, StartersInv
<1>2. ASSUME MonBuryStop /\ UNCHANGED testVars PROVE StartersInv'
  BY <1>2, <1>b DEF MonBuryStop, userVars, StartersInv
<1>3. ASSUME MonSave /\ UNCHANGED testVars PROVE StartersInv'
  BY <1>3, <1>b DEF MonSave, userVars, StartersInv
<1>4. ASSUME MonExitTest /\ UNCHANGED testVars PROVE StartersInv'
  BY <1>4, <1>b DEF MonExitTest, userVars, StartersInv
<1>5. ASSUME MonRespawnNext /\ UNCHANGED testVars PROVE StartersInv'
  BY <1>5, <1>b DEF MonRespawnNext, userVars, StartersInv
<1>6. ASSUME MonRespawnStop /\ UNCHANGED testVars PROVE StartersInv'
  BY <1>6, <1>b DEF MonRespawnStop, userVars, StartersInv
<1>7. ASSUME MonRespawnStart /\ UNCHANGED testVars PROVE StartersInv'
  BY <1>7, <1>b DEF MonRespawnStart, userVars, StartersInv
<1>8. ASSUME NEW p \in Proc, MonPollCheck(p) /\ UNCHANGED testVars PROVE StartersInv'
  <2>1. pc = "poll" /\ UNCHANGED <<upc, fresh, ucur>>
    BY <1>8 DEF MonPollCheck, userVars
  <2>2. CASE UNCHANGED <<pc, respawn>>
    BY <1>b, <2>1, <2>2 DEF StartersInv
  <2>3. CASE Polled(p, AliveCheck(p))
    <3>1. pc' \in {"bury", "poll"} /\ \A q \in respawn' : q \in respawn \/ kind[q] = "respawn"
      BY <2>3 DEF Polled
    <3> QED BY <1>b, <2>1, <3>1 DEF StartersInv
  <2> QED BY <1>8, <2>2, <2>3 DEF MonPollCheck
<1>9. ASSUME NEW p \in Proc, MonPoll(p) /\ UNCHANGED testVars PROVE StartersInv'
  BY <1>9, <1>b DEF MonPoll, Polled, userVars, StartersInv
<1>10. ASSUME NEW p \in Proc, MonUnregister(p) /\ UNCHANGED testVars PROVE StartersInv'
  BY <1>10, <1>b DEF MonUnregister, userVars, StartersInv
<1>11. ASSUME PostCollect /\ UNCHANGED testVars PROVE StartersInv'
  BY <1>11, <1>b DEF PostCollect, userVars, StartersInv
<1>12. ASSUME PostJoin /\ UNCHANGED testVars PROVE StartersInv'
  BY <1>12, <1>b DEF PostJoin, userVars, StartersInv
<1>13. ASSUME PostCore /\ UNCHANGED testVars PROVE StartersInv'
  BY <1>13, <1>b DEF PostCore, runVars, userVars, StartersInv
<1>14. ASSUME PostClear /\ UNCHANGED testVars PROVE StartersInv'
  BY <1>14, <1>b DEF PostClear, userVars, StartersInv
<1>15. ASSUME NEW k \in Killer, KillerStop(k) /\ UNCHANGED testVars PROVE StartersInv'
  BY <1>15, <1>b DEF KillerStop, runVars, userVars, StartersInv
<1>16. ASSUME NEW k \in Killer, NEW p \in Proc, KillerGet(k, p) /\ UNCHANGED testVars PROVE
    StartersInv'
  BY <1>16, <1>b DEF KillerGet, runVars, userVars, StartersInv
<1>17. ASSUME NEW p \in Proc, NEW w \in {"start", "append"}, upc = "idle" /\ Register(p, w) /\
    UNCHANGED testVars PROVE StartersInv'
  BY <1>17, <1>b DEF Register, runVars, StartersInv
<1>18. ASSUME AppendCore /\ UNCHANGED testVars PROVE StartersInv'
  BY <1>18, <1>b DEF AppendCore, runVars, StartersInv
<1>19. ASSUME UserStart /\ UNCHANGED testVars PROVE StartersInv'
  BY <1>19, <1>b DEF UserStart, runVars, StartersInv
<1>20. ASSUME RegistrationsComplete /\ UNCHANGED testVars PROVE StartersInv'
  BY <1>20, <1>b DEF RegistrationsComplete, runVars, userVars, StartersInv
<1>21. ASSUME KillStop /\ UNCHANGED testVars PROVE StartersInv'
  BY <1>21, <1>b DEF KillStop, runVars, StartersInv
<1>22. ASSUME NEW p \in Proc, KillProcess(p) /\ UNCHANGED testVars PROVE StartersInv'
  BY <1>22, <1>b DEF KillProcess, runVars, StartersInv
<1>23. ASSUME upc = "idle" /\ Shutdown("join") /\ UNCHANGED testVars PROVE StartersInv'
  BY <1>23, <1>b DEF Shutdown, runVars, StartersInv
<1>24. ASSUME Join("join", "idle") /\ UNCHANGED testVars PROVE StartersInv'
  BY <1>24, <1>b DEF Join, runVars, StartersInv
<1>25. ASSUME SetUp PROVE StartersInv'
  BY <1>25, <1>b DEF SetUp, StartersInv
<1>26. ASSUME CleanResults PROVE StartersInv'
  BY <1>26, <1>b DEF CleanResults, runVars, StartersInv
<1>27. ASSUME RegisterTest PROVE StartersInv'
  BY <1>27, <1>b DEF RegisterTest, Register, Raise, runVars, StartersInv
<1>28. ASSUME StartTest PROVE StartersInv'
  BY <1>28, <1>b DEF StartTest, Raise, runVars, StartersInv
<1>29. ASSUME AliveTest PROVE StartersInv'
  BY <1>29, <1>b DEF AliveTest, Answered, Raise, runVars, StartersInv
<1>30. ASSUME PollTest PROVE StartersInv'
  BY <1>30, <1>b DEF PollTest, Raise, Answered, runVars, StartersInv
<1>31. ASSUME Evaluate PROVE StartersInv'
  BY <1>31, <1>b DEF Evaluate, Raise, runVars, StartersInv
<1>32. ASSUME TearDown PROVE StartersInv'
  BY <1>32, <1>b DEF TearDown, Shutdown, runVars, StartersInv
<1>33. ASSUME ExitMain PROVE StartersInv'
  BY <1>33, <1>b DEF ExitMain, Join, runVars, StartersInv
<1>34. ASSUME NEW p \in Proc \ Range(Attempt), ProcExit(p) /\ UNCHANGED testVars PROVE
    StartersInv'
  BY <1>34, <1>b DEF ProcExit, runVars, userVars, StartersInv
<1>35. ASSUME NEW p \in Range(Attempt), upc # "exited" /\ TestExit(p) PROVE StartersInv'
  BY <1>35, <1>b DEF TestExit, ProcExit, runVars, userVars, StartersInv
<1> QED BY <1>0, <1>1, <1>2, <1>3, <1>4, <1>5, <1>6, <1>7, <1>8, <1>9, <1>10, <1>11, <1>12,
    <1>13, <1>14, <1>15, <1>16, <1>17, <1>18, <1>19, <1>20, <1>21, <1>22, <1>23, <1>24, <1>25,
    <1>26, <1>27, <1>28, <1>29, <1>30, <1>31, <1>32, <1>33, <1>34, <1>35, AllSteps

\* Until tearDown only the processes of the test are watched, and nothing shuts the
\* monitor down: they are not required, and registrations_complete is never called.
LEMMA ModeStep ==
  TypesInv /\ KillInv /\ StartersInv /\ ModeInv /\ TestsInv /\ [Next]_allVars => ModeInv'
<1> SUFFICES ASSUME TypesInv /\ KillInv /\ StartersInv /\ ModeInv /\ TestsInv, [Next]_allVars
             PROVE  ModeInv'
  OBVIOUS
<1>a. TypeMon /\ TypeProc /\ TypeRun /\ TypeUser /\ TypeTest
  BY DEF TypesInv
<1>b. KillInv /\ StartersInv /\ ModeInv
  OBVIOUS
<1>c. \A p \in Tests : kind[p] = "plain"
  BY <1>a, TestsAreProcs DEF TypeProc
<1>q. Process \in Tests
  BY <1>a, TestsAreProcs DEF TypeTest, Process
<1> USE DEF TestPCs, LaunchPCs
<1>0. CASE UNCHANGED allVars
  BY <1>0, <1>b DEF allVars, vars, monVars, runVars, postVars, userVars, testVars, ModeInv
<1>1. ASSUME MonCopy /\ UNCHANGED testVars PROVE ModeInv'
  <2>1. pc = "copy" => cur = NoProc
    BY DEF TestsInv
  <2> QED BY <1>1, <1>b, <2>1 DEF MonCopy, monVars, postVars, userVars, testVars, ModeInv
<1>2. ASSUME MonBuryStop /\ UNCHANGED testVars PROVE ModeInv'
  BY <1>2, <1>a, <1>b, <1>c, <1>q DEF MonBuryStop, monVars, runVars, postVars,
      userVars, testVars, ModeInv, KillInv, StartersInv
<1>3. ASSUME MonSave /\ UNCHANGED testVars PROVE ModeInv'
  BY <1>3, <1>a, <1>b, <1>c, <1>q DEF MonSave, monVars, runVars, postVars,
      userVars, testVars, ModeInv, KillInv, StartersInv
<1>4. ASSUME MonExitTest /\ UNCHANGED testVars PROVE ModeInv'
  BY <1>4, <1>a, <1>b, <1>c, <1>q DEF MonExitTest, monVars, runVars, postVars,
      userVars, testVars, ModeInv, KillInv, StartersInv
<1>5. ASSUME MonRespawnNext /\ UNCHANGED testVars PROVE ModeInv'
  BY <1>5, <1>a, <1>b, <1>c, <1>q DEF MonRespawnNext, monVars, runVars, postVars,
      userVars, testVars, ModeInv, KillInv, StartersInv
<1>6. ASSUME MonRespawnStop /\ UNCHANGED testVars PROVE ModeInv'
  BY <1>6, <1>a, <1>b, <1>c, <1>q DEF MonRespawnStop, monVars, runVars, postVars,
      userVars, testVars, ModeInv, KillInv, StartersInv
<1>7. ASSUME MonRespawnStart /\ UNCHANGED testVars PROVE ModeInv'
  BY <1>7, <1>a, <1>b, <1>c, <1>q DEF MonRespawnStart, monVars, runVars, postVars,
      userVars, testVars, ModeInv, KillInv, StartersInv
<1>8. ASSUME NEW p \in Proc, MonPollCheck(p) /\ UNCHANGED testVars PROVE ModeInv'
  <2>1. /\ pc = "poll" /\ p \in copy
        /\ UNCHANGED <<procs, regComplete, upc, fresh, ucur, killing>>
    BY <1>8 DEF MonPollCheck, postVars, userVars
  <2>2. CASE cur' = p /\ UNCHANGED <<isShutdown, pc, copy>>
    BY <1>b, <2>1, <2>2 DEF ModeInv
  <2>3. CASE Polled(p, AliveCheck(p))
    <3>1. /\ copy' = copy \ {p} /\ cur' = NoProc /\ pc' \in {"bury", "poll"}
          /\ isShutdown' = (isShutdown \/ (AliveCheck(p) = "no" /\ kind[p] = "required"))
      BY <2>3 DEF Polled
    <3> QED BY <1>b, <1>c, <2>1, <3>1 DEF ModeInv
  <2> QED BY <1>8, <2>2, <2>3 DEF MonPollCheck
<1>9. ASSUME NEW p \in Proc, MonPoll(p) /\ UNCHANGED testVars PROVE ModeInv'
  BY <1>9, <1>a, <1>b, <1>c, <1>q DEF MonPoll, monVars, runVars, postVars,
      userVars, testVars, ModeInv, KillInv, StartersInv, Polled, AlivePoll
<1>10. ASSUME NEW p \in Proc, MonUnregister(p) /\ UNCHANGED testVars PROVE ModeInv'
  BY <1>10, <1>a, <1>b, <1>c, <1>q DEF MonUnregister, monVars, runVars, postVars,
      userVars, testVars, ModeInv, KillInv, StartersInv
<1>11. ASSUME PostCollect /\ UNCHANGED testVars PROVE ModeInv'
  BY <1>11, <1>a, <1>b, <1>c, <1>q DEF PostCollect, monVars, runVars, postVars,
      userVars, testVars, ModeInv, KillInv, StartersInv
<1>12. ASSUME PostJoin /\ UNCHANGED testVars PROVE ModeInv'
  BY <1>12, <1>a, <1>b, <1>c, <1>q DEF PostJoin, monVars, runVars, postVars,
      userVars, testVars, ModeInv, KillInv, StartersInv
<1>13. ASSUME PostCore /\ UNCHANGED testVars PROVE ModeInv'
  BY <1>13, <1>a, <1>b, <1>c, <1>q DEF PostCore, monVars, runVars, postVars,
      userVars, testVars, ModeInv, KillInv, StartersInv
<1>14. ASSUME PostClear /\ UNCHANGED testVars PROVE ModeInv'
  BY <1>14, <1>a, <1>b, <1>c, <1>q DEF PostClear, monVars, runVars, postVars,
      userVars, testVars, ModeInv, KillInv, StartersInv
<1>15. ASSUME NEW k \in Killer, KillerStop(k) /\ UNCHANGED testVars PROVE ModeInv'
  BY <1>15, <1>a, <1>b, <1>c, <1>q DEF KillerStop, monVars, runVars, postVars,
      userVars, testVars, ModeInv, KillInv, StartersInv, TypeRun
<1>16. ASSUME NEW k \in Killer, NEW p \in Proc, KillerGet(k, p) /\ UNCHANGED testVars PROVE
    ModeInv'
  BY <1>16, <1>a, <1>b, <1>c, <1>q DEF KillerGet, monVars, runVars, postVars,
      userVars, testVars, ModeInv, KillInv, StartersInv, TypeRun
<1>17. ASSUME NEW p \in Proc, NEW w \in {"start", "append"}, upc = "idle" /\ Register(p, w) /\
    UNCHANGED testVars PROVE ModeInv'
  BY <1>17, <1>a, <1>b, <1>c, <1>q DEF Register, monVars, runVars, postVars,
      userVars, testVars, ModeInv, KillInv, StartersInv
<1>18. ASSUME AppendCore /\ UNCHANGED testVars PROVE ModeInv'
  BY <1>18, <1>a, <1>b, <1>c, <1>q DEF AppendCore, monVars, runVars, postVars,
      userVars, testVars, ModeInv, KillInv, StartersInv
<1>19. ASSUME UserStart /\ UNCHANGED testVars PROVE ModeInv'
  BY <1>19, <1>a, <1>b, <1>c, <1>q DEF UserStart, monVars, runVars, postVars,
      userVars, testVars, ModeInv, KillInv, StartersInv
<1>20. ASSUME RegistrationsComplete /\ UNCHANGED testVars PROVE ModeInv'
  BY <1>20, <1>a, <1>b, <1>c, <1>q DEF RegistrationsComplete, monVars, runVars, postVars,
      userVars, testVars, ModeInv, KillInv, StartersInv
<1>21. ASSUME KillStop /\ UNCHANGED testVars PROVE ModeInv'
  BY <1>21, <1>a, <1>b, <1>c, <1>q DEF KillStop, monVars, runVars, postVars,
      userVars, testVars, ModeInv, KillInv, StartersInv
<1>22. ASSUME NEW p \in Proc, KillProcess(p) /\ UNCHANGED testVars PROVE ModeInv'
  BY <1>22, <1>a, <1>b, <1>c, <1>q DEF KillProcess, monVars, runVars, postVars,
      userVars, testVars, ModeInv, KillInv, StartersInv
<1>23. ASSUME upc = "idle" /\ Shutdown("join") /\ UNCHANGED testVars PROVE ModeInv'
  BY <1>23, <1>a, <1>b, <1>c, <1>q DEF Shutdown, monVars, runVars, postVars,
      userVars, testVars, ModeInv, KillInv, StartersInv
<1>24. ASSUME Join("join", "idle") /\ UNCHANGED testVars PROVE ModeInv'
  BY <1>24, <1>a, <1>b, <1>c, <1>q DEF Join, monVars, runVars, postVars,
      userVars, testVars, ModeInv, KillInv, StartersInv
<1>25. ASSUME SetUp PROVE ModeInv'
  BY <1>25, <1>a, <1>b, <1>c, <1>q DEF SetUp, monVars, runVars, postVars,
      userVars, testVars, ModeInv, KillInv, StartersInv
<1>26. ASSUME CleanResults PROVE ModeInv'
  BY <1>26, <1>a, <1>b, <1>c, <1>q DEF CleanResults, monVars, runVars, postVars,
      userVars, testVars, ModeInv, KillInv, StartersInv
<1>27. ASSUME RegisterTest PROVE ModeInv'
  BY <1>27, <1>a, <1>b, <1>c, <1>q DEF RegisterTest, Register, Raise, Process, monVars, runVars, postVars,
      userVars, testVars, ModeInv, KillInv, StartersInv
<1>28. ASSUME StartTest PROVE ModeInv'
  BY <1>28, <1>a, <1>b, <1>c, <1>q DEF StartTest, Raise, monVars, runVars, postVars,
      userVars, testVars, ModeInv, KillInv, StartersInv
<1>29. ASSUME AliveTest PROVE ModeInv'
  BY <1>29, <1>a, <1>b, <1>c, <1>q DEF AliveTest, Answered, Raise, monVars, runVars, postVars,
      userVars, testVars, ModeInv, KillInv, StartersInv
<1>30. ASSUME PollTest PROVE ModeInv'
  BY <1>30, <1>a, <1>b, <1>c, <1>q DEF PollTest, Answered, Raise, monVars, runVars, postVars,
      userVars, testVars, ModeInv, KillInv, StartersInv
<1>31. ASSUME Evaluate PROVE ModeInv'
  BY <1>31, <1>a, <1>b, <1>c, <1>q DEF Evaluate, Raise, monVars, runVars, postVars,
      userVars, testVars, ModeInv, KillInv, StartersInv
<1>32. ASSUME TearDown PROVE ModeInv'
  BY <1>32, <1>a, <1>b, <1>c, <1>q DEF TearDown, Shutdown, monVars, runVars, postVars,
      userVars, testVars, ModeInv, KillInv, StartersInv
<1>33. ASSUME ExitMain PROVE ModeInv'
  BY <1>33, <1>a, <1>b, <1>c, <1>q DEF ExitMain, Join, monVars, runVars, postVars,
      userVars, testVars, ModeInv, KillInv, StartersInv
<1>34. ASSUME NEW p \in Proc \ Range(Attempt), ProcExit(p) /\ UNCHANGED testVars PROVE
    ModeInv'
  BY <1>34, <1>a, <1>b, <1>c, <1>q DEF ProcExit, monVars, runVars, postVars,
      userVars, testVars, ModeInv, KillInv, StartersInv
<1>35. ASSUME NEW p \in Range(Attempt), upc # "exited" /\ TestExit(p) PROVE ModeInv'
  BY <1>35, <1>a, <1>b, <1>c, <1>q DEF TestExit, ProcExit, monVars, runVars, postVars,
      userVars, testVars, ModeInv, KillInv, StartersInv
<1> QED BY <1>0, <1>1, <1>2, <1>3, <1>4, <1>5, <1>6, <1>7, <1>8, <1>9, <1>10, <1>11, <1>12,
    <1>13, <1>14, <1>15, <1>16, <1>17, <1>18, <1>19, <1>20, <1>21, <1>22, <1>23, <1>24, <1>25,
    <1>26, <1>27, <1>28, <1>29, <1>30, <1>31, <1>32, <1>33, <1>34, <1>35, AllSteps

\* A process of the test that runs stays registered until it has died.
LEMMA TestsStep ==
  TypesInv /\ WatchInv /\ StartersInv /\ ModeInv /\ TestsInv /\ [Next]_allVars => TestsInv'
<1> SUFFICES ASSUME TypesInv /\ WatchInv /\ StartersInv /\ ModeInv /\ TestsInv, [Next]_allVars
             PROVE  TestsInv'
  OBVIOUS
<1>a. TypeMon /\ TypeProc /\ ProcInv /\ TypeRun /\ TypeUser /\ TypeTest
  BY DEF TypesInv
<1>r. OnlyRunTestStarts
  BY TestsRun DEF WatchInv
<1>b. StartersInv /\ TestsInv /\ KillInv
  BY DEF WatchInv
<1>q. Process \in Tests
  BY <1>a, TestsAreProcs DEF TypeTest, Process
<1>0. CASE UNCHANGED allVars
  BY <1>0, <1>b DEF allVars, vars, monVars, procVars, runVars, userVars, testVars, TestsInv,
    NotSeen, Process, Running
<1>1. ASSUME MonCopy /\ UNCHANGED testVars PROVE TestsInv'
  <2>1. /\ UNCHANGED <<procs, isShutdown, bury, cur, upc, fresh, attempt>>
        /\ pc = "copy" /\ pc' \in {"post", "bury", "poll"}
    BY <1>1 DEF MonCopy, monVars, userVars, testVars
  <2>2. \A p \in Tests : cur # p
    BY <1>b, <2>1, TestsAreProcs DEF TestsInv
  <2> QED BY <1>r, <1>b, <1>q, <2>1, <2>2 DEF OnlyRunTestStarts, TestsInv, NotSeen, Process
<1>2. ASSUME MonBuryStop /\ UNCHANGED testVars PROVE TestsInv'
  BY <1>2, <1>r, <1>b, <1>q DEF MonBuryStop, monVars, userVars, testVars, OnlyRunTestStarts,
      TestsInv, NotSeen, Process
<1>3. ASSUME MonSave /\ UNCHANGED testVars PROVE TestsInv'
  BY <1>3, <1>r, <1>b, <1>q DEF MonSave, userVars, testVars, OnlyRunTestStarts, TestsInv,
      NotSeen, Process
<1>4. ASSUME MonExitTest /\ UNCHANGED testVars PROVE TestsInv'
  BY <1>4, <1>r, <1>b, <1>q DEF MonExitTest, userVars, testVars, OnlyRunTestStarts, TestsInv,
      NotSeen, Process
<1>5. ASSUME MonRespawnNext /\ UNCHANGED testVars PROVE TestsInv'
  BY <1>5, <1>r, <1>b, <1>q DEF MonRespawnNext, monVars, userVars, testVars, OnlyRunTestStarts,
      TestsInv, NotSeen, Process
<1>6. ASSUME MonRespawnStop /\ UNCHANGED testVars PROVE TestsInv'
  BY <1>6, <1>r, <1>b, <1>q DEF MonRespawnStop, monVars, userVars, testVars, OnlyRunTestStarts,
      TestsInv, NotSeen, Process
<1>7. ASSUME MonRespawnStart /\ UNCHANGED testVars PROVE TestsInv'
  BY <1>7, <1>r, <1>b, <1>q DEF MonRespawnStart, monVars, userVars, testVars,
      OnlyRunTestStarts, TestsInv, NotSeen, Process
<1>8. ASSUME NEW p \in Proc, MonPollCheck(p) /\ UNCHANGED testVars PROVE TestsInv'
  <2>1. /\ pc = "poll" /\ UNCHANGED <<procs, upc, fresh, attempt>> /\ (isShutdown => isShutdown')
        /\ p \in Proc
    BY <1>8 DEF MonPollCheck, Polled, userVars, testVars
  <2>2. \A q \in Tests : /\ (Running(q)' => Running(q)) /\ proc'[q].started = proc[q].started
                         /\ isShutdown \/ (Running(q)' => proc'[q].popen = proc[q].popen)
    BY <1>r, <2>1 DEF OnlyRunTestStarts
  <2>3. CASE AliveCheck(p) = "poll" /\ cur' = p /\ UNCHANGED <<pc, bury, isShutdown>>
    <3>1. proc[p].started
      BY <2>3 DEF AliveCheck
    <3>2. \A q \in Tests : NotSeen(q) => NotSeen(q)'
      BY <2>1, <2>2, <2>3, <3>1 DEF NotSeen
    <3> QED BY <1>b, <1>q, <2>1, <2>2, <2>3, <3>2 DEF TestsInv, Process
  <2>4. CASE AliveCheck(p) # "poll" /\ Polled(p, AliveCheck(p))
    <3>1. \/ AliveCheck(p) = "yes"
          \/ AliveCheck(p) = "no" /\ proc[p].started /\ ~Attended(p)
      BY <1>a, <2>1, <2>4 DEF AliveCheck, ProcInv, Attended
    <3>2. /\ cur' = NoProc /\ pc' \in {"bury", "poll"}
          /\ bury' \subseteq bury \cup {p} /\ (AliveCheck(p) = "yes" => bury' = bury)
      BY <2>4, <3>1 DEF Polled
    <3>3. \A q \in Tests : NotSeen(q) => NotSeen(q)'
      BY <2>1, <2>2, <3>1, <3>2, TestsAreProcs DEF NotSeen
    <3>4. ~isShutdown => \A q \in Tests : q \in bury' => q \in bury \/ ~Running(q)
      BY <1>b, <3>1, <3>2 DEF TestsInv, Attended
    <3> QED BY <1>b, <1>q, <2>1, <2>2, <3>2, <3>3, <3>4 DEF TestsInv, Process
  <2> QED BY <1>8, <2>3, <2>4 DEF MonPollCheck
<1>9. ASSUME NEW p \in Proc, MonPoll(p) /\ UNCHANGED testVars PROVE TestsInv'
  <2>1. /\ pc = "poll" /\ UNCHANGED <<procs, upc, fresh, attempt>> /\ (isShutdown => isShutdown')
        /\ p \in Proc
    BY <1>9 DEF MonPoll, Polled, userVars, testVars
  <2>2. \A q \in Tests : /\ (Running(q)' => Running(q)) /\ proc'[q].started = proc[q].started
                         /\ isShutdown \/ (Running(q)' => proc'[q].popen = proc[q].popen)
    BY <1>r, <2>1 DEF OnlyRunTestStarts
  <2>3. Polled(p, AlivePoll(p)) /\ cur = p
    BY <1>9 DEF MonPoll
  <2>4. AlivePoll(p) \in {"yes", "no", "raise"} /\ (AlivePoll(p) # "yes" => ~Attended(p))
    BY <1>a, <2>1 DEF AlivePoll, Attended
  <2>5. /\ cur' = NoProc /\ pc' \in {"bury", "poll"}
        /\ bury' \subseteq bury \cup {p} /\ (AlivePoll(p) = "yes" => bury' = bury)
    BY <2>3, <2>4 DEF Polled
  <2>6. \A q \in Tests : NotSeen(q) => NotSeen(q)'
    BY <2>1, <2>2, <2>3, <2>5, TestsAreProcs DEF NotSeen
  <2>7. ~isShutdown => \A q \in Tests : q \in bury' => q \in bury \/ ~Running(q)
    BY <1>b, <2>4, <2>5 DEF TestsInv, Attended
  <2> QED BY <1>b, <1>q, <2>1, <2>2, <2>5, <2>6, <2>7 DEF TestsInv, Process
<1>10. ASSUME NEW p \in Proc, MonUnregister(p) /\ UNCHANGED testVars PROVE TestsInv'
  BY <1>10, <1>r, <1>b, <1>q DEF MonUnregister, userVars, testVars, OnlyRunTestStarts,
      TestsInv, NotSeen, Process
<1>11. ASSUME PostCollect /\ UNCHANGED testVars PROVE TestsInv'
  BY <1>11, <1>r, <1>b, <1>q DEF PostCollect, userVars, testVars, OnlyRunTestStarts, TestsInv,
      NotSeen, Process
<1>12. ASSUME PostJoin /\ UNCHANGED testVars PROVE TestsInv'
  BY <1>12, <1>r, <1>b, <1>q DEF PostJoin, monVars, userVars, testVars, OnlyRunTestStarts,
      TestsInv, NotSeen, Process
<1>13. ASSUME PostCore /\ UNCHANGED testVars PROVE TestsInv'
  BY <1>13, <1>r, <1>b, <1>q DEF PostCore, monVars, runVars, userVars, testVars,
      OnlyRunTestStarts, TestsInv, NotSeen, Process
<1>14. ASSUME PostClear /\ UNCHANGED testVars PROVE TestsInv'
  BY <1>14, <1>r, <1>b, <1>q DEF PostClear, userVars, testVars, OnlyRunTestStarts, TestsInv,
    NotSeen, Process, KillInv
<1>15. ASSUME NEW k \in Killer, KillerStop(k) /\ UNCHANGED testVars PROVE TestsInv'
  BY <1>15, <1>r, <1>b, <1>q DEF KillerStop, monVars, runVars, userVars, testVars,
      OnlyRunTestStarts, TestsInv, NotSeen, Process
<1>16. ASSUME NEW k \in Killer, NEW p \in Proc, KillerGet(k, p) /\ UNCHANGED testVars PROVE
    TestsInv'
  BY <1>16, <1>r, <1>b, <1>q DEF KillerGet, monVars, runVars, userVars, testVars,
      OnlyRunTestStarts, TestsInv, NotSeen, Process
<1>17. ASSUME NEW p \in Proc, NEW w \in {"start", "append"}, upc = "idle" /\ Register(p, w) /\
    UNCHANGED testVars PROVE TestsInv'
  BY <1>17, <1>r, <1>b, <1>q DEF Register, runVars, testVars, OnlyRunTestStarts, TestsInv,
      NotSeen, Process
<1>18. ASSUME AppendCore /\ UNCHANGED testVars PROVE TestsInv'
  BY <1>18, <1>r, <1>b, <1>q DEF AppendCore, runVars, testVars, OnlyRunTestStarts, TestsInv,
      NotSeen, Process
<1>19. ASSUME UserStart /\ UNCHANGED testVars PROVE TestsInv'
  BY <1>19, <1>r, <1>b, <1>q DEF UserStart, monVars, runVars, testVars, OnlyRunTestStarts,
      TestsInv, NotSeen, Process
<1>20. ASSUME RegistrationsComplete /\ UNCHANGED testVars PROVE TestsInv'
  BY <1>20, <1>r, <1>b, <1>q DEF RegistrationsComplete, runVars, userVars, testVars,
      OnlyRunTestStarts, TestsInv, NotSeen, Process
<1>21. ASSUME KillStop /\ UNCHANGED testVars PROVE TestsInv'
  BY <1>21, <1>r, <1>b, <1>q DEF KillStop, runVars, testVars, OnlyRunTestStarts, TestsInv,
      NotSeen, Process
<1>22. ASSUME NEW p \in Proc, KillProcess(p) /\ UNCHANGED testVars PROVE TestsInv'
  BY <1>22, <1>r, <1>b, <1>q DEF KillProcess, runVars, testVars, OnlyRunTestStarts, TestsInv,
      NotSeen, Process
<1>23. ASSUME upc = "idle" /\ Shutdown("join") /\ UNCHANGED testVars PROVE TestsInv'
  BY <1>23, <1>r, <1>b, <1>q DEF Shutdown, runVars, testVars, OnlyRunTestStarts, TestsInv,
      NotSeen, Process
<1>24. ASSUME Join("join", "idle") /\ UNCHANGED testVars PROVE TestsInv'
  BY <1>24, <1>r, <1>b, <1>q DEF Join, monVars, runVars, testVars, OnlyRunTestStarts, TestsInv,
      NotSeen, Process
<1>25. ASSUME SetUp PROVE TestsInv'
  BY <1>25, <1>r, <1>b, <1>q DEF SetUp, monVars, testVars, OnlyRunTestStarts, TestsInv,
    NotSeen, KillInv
<1>26. ASSUME CleanResults PROVE TestsInv'
  BY <1>26, <1>r, <1>b, <1>q DEF CleanResults, monVars, runVars, testVars, OnlyRunTestStarts,
      TestsInv, NotSeen, Process
<1>27. ASSUME RegisterTest PROVE TestsInv'
  <2>1. UNCHANGED <<proc, bury, pc, cur, isShutdown, attempt>>
    BY <1>27 DEF RegisterTest, Register, procVars, runVars, monVars
  <2>2. CASE Accepts(Process)
    <3>1. Process \in fresh /\ fresh' = fresh \ {Process} /\ procs' = procs \cup {Process}
      BY <1>27, <2>2 DEF RegisterTest, Register
    <3>2. Process \in Tests
      BY <1>a, TestsAreProcs DEF TypeTest, Process
    <3> QED BY <1>b, <1>q, <2>1, <3>1, <3>2 DEF TestsInv, NotSeen, Running, Process
  <2>3. CASE ~Accepts(Process)
    BY <1>27, <1>b, <1>q, <2>1, <2>3 DEF RegisterTest, Raise, monVars, TestsInv, NotSeen,
      Running, Process
  <2> QED BY <2>2, <2>3
<1>28. ASSUME StartTest PROVE TestsInv'
  <2>1. /\ UNCHANGED <<procs, isShutdown, pc, cur, bury, fresh>>
        /\ upc = "startTest" /\ upc' # "startTest"
    BY <1>28 DEF StartTest, monVars, runVars, Raise
  <2>2. \A q \in Tests : q # Process =>
          /\ (Running(q)' => Running(q)) /\ proc'[q].started = proc[q].started
          /\ isShutdown \/ (Running(q)' => proc'[q].popen = proc[q].popen)
    BY <1>r DEF OnlyRunTestStarts
  <2>4. Process' = Process
    BY <1>28 DEF StartTest, Process
  <2>3. \A q \in Tests : q = Process =>
          (Running(q)' => proc'[q].popen \/ (Running(q) /\ ~proc[q].popen))
    <3> SUFFICES ASSUME NEW q \in Tests, q = Process
                 PROVE  Running(q)' => proc'[q].popen \/ (Running(q) /\ ~proc[q].popen)
      OBVIOUS
    <3>1. q \in Proc /\ \E outcome \in StartOutcome(q) : Start(q, outcome)
      BY <1>28, TestsAreProcs DEF StartTest
    <3> QED BY <1>a, <3>1, StartEffect
  <2> QED BY <1>b, <1>q, <2>1, <2>2, <2>3, <2>4 DEF TestsInv, NotSeen
<1>29. ASSUME AliveTest PROVE TestsInv'
  BY <1>29, <1>r, <1>b, <1>q DEF AliveTest, Answered, Raise, monVars, runVars, testVars,
      OnlyRunTestStarts, TestsInv, NotSeen, Process
<1>30. ASSUME PollTest PROVE TestsInv'
  BY <1>30, <1>r, <1>b, <1>q DEF PollTest, Raise, Answered, monVars, runVars, testVars,
      OnlyRunTestStarts, TestsInv, NotSeen, Process
<1>31. ASSUME Evaluate PROVE TestsInv'
  BY <1>31, <1>r, <1>b, <1>q DEF Evaluate, Raise, monVars, runVars, testVars,
      OnlyRunTestStarts, TestsInv, NotSeen, Process
<1>32. ASSUME TearDown PROVE TestsInv'
  BY <1>32, <1>r, <1>b, <1>q DEF TearDown, Shutdown, runVars, testVars, OnlyRunTestStarts,
    TestsInv, NotSeen, Process
<1>33. ASSUME ExitMain PROVE TestsInv'
  BY <1>33, <1>r, <1>b, <1>q DEF ExitMain, Join, monVars, runVars, OnlyRunTestStarts,
    TestsInv, NotSeen, Process
<1>34. ASSUME NEW p \in Proc \ Range(Attempt), ProcExit(p) /\ UNCHANGED testVars PROVE
    TestsInv'
  BY <1>34, <1>r, <1>b, <1>q DEF ProcExit, monVars, runVars, userVars, testVars,
      OnlyRunTestStarts, TestsInv, NotSeen, Process
<1>35. ASSUME NEW p \in Range(Attempt), upc # "exited" /\ TestExit(p) PROVE TestsInv'
  BY <1>35, <1>r, <1>b, <1>q DEF TestExit, ProcExit, monVars, runVars, userVars,
    OnlyRunTestStarts, TestsInv, NotSeen, Process
<1> QED BY <1>0, <1>1, <1>2, <1>3, <1>4, <1>5, <1>6, <1>7, <1>8, <1>9, <1>10, <1>11, <1>12,
    <1>13, <1>14, <1>15, <1>16, <1>17, <1>18, <1>19, <1>20, <1>21, <1>22, <1>23, <1>24, <1>25,
    <1>26, <1>27, <1>28, <1>29, <1>30, <1>31, <1>32, <1>33, <1>34, <1>35, AllSteps

\* One attempt at a time: the next is admitted when the last has been buried.
LEMMA AttemptStep ==
  TypesInv /\ KillInv /\ StartersInv /\ ModeInv /\ TestsInv /\ AttemptInv /\ [Next]_allVars
    => AttemptInv'
<1> SUFFICES ASSUME TypesInv /\ KillInv /\ StartersInv /\ ModeInv /\ TestsInv /\ AttemptInv,
                    [Next]_allVars
             PROVE  AttemptInv'
  OBVIOUS
<1>a. TypeMon /\ TypeProc /\ ProcInv /\ TypeRun /\ TypeUser /\ TypeTest
  BY DEF TypesInv
<1>r. OnlyRunTestStarts
  BY TestsRun
<1>b. StartersInv /\ ModeInv /\ TestsInv /\ AttemptInv
  OBVIOUS
<1>q. Process \in Tests
  BY <1>a, TestsAreProcs DEF TypeTest, Process
<1>0. CASE UNCHANGED allVars
  BY <1>0, <1>b DEF allVars, vars, procVars, userVars, testVars, AttemptInv, Process, Running
<1>1. ASSUME MonCopy /\ UNCHANGED testVars PROVE AttemptInv'
  BY <1>1, <1>r, <1>b, <1>q DEF MonCopy, userVars, testVars, OnlyRunTestStarts, AttemptInv,
      Process
<1>2. ASSUME MonBuryStop /\ UNCHANGED testVars PROVE AttemptInv'
  BY <1>2, <1>r, <1>b, <1>q DEF MonBuryStop, userVars, testVars, OnlyRunTestStarts, AttemptInv,
      Process
<1>3. ASSUME MonSave /\ UNCHANGED testVars PROVE AttemptInv'
  BY <1>3, <1>r, <1>b, <1>q DEF MonSave, userVars, testVars, OnlyRunTestStarts, AttemptInv,
      Process
<1>4. ASSUME MonExitTest /\ UNCHANGED testVars PROVE AttemptInv'
  BY <1>4, <1>r, <1>b, <1>q DEF MonExitTest, userVars, testVars, OnlyRunTestStarts, AttemptInv,
      Process
<1>5. ASSUME MonRespawnNext /\ UNCHANGED testVars PROVE AttemptInv'
  BY <1>5, <1>r, <1>b, <1>q DEF MonRespawnNext, userVars, testVars, OnlyRunTestStarts,
      AttemptInv, Process
<1>6. ASSUME MonRespawnStop /\ UNCHANGED testVars PROVE AttemptInv'
  BY <1>6, <1>r, <1>b, <1>q DEF MonRespawnStop, userVars, testVars, OnlyRunTestStarts,
      AttemptInv, Process
<1>7. ASSUME MonRespawnStart /\ UNCHANGED testVars PROVE AttemptInv'
  BY <1>7, <1>r, <1>b, <1>q DEF MonRespawnStart, userVars, testVars, OnlyRunTestStarts,
      AttemptInv, Process
<1>8. ASSUME NEW p \in Proc, MonPollCheck(p) /\ UNCHANGED testVars PROVE AttemptInv'
  BY <1>8, <1>r, <1>b, <1>q DEF MonPollCheck, userVars, testVars, OnlyRunTestStarts,
      AttemptInv, Process
<1>9. ASSUME NEW p \in Proc, MonPoll(p) /\ UNCHANGED testVars PROVE AttemptInv'
  BY <1>9, <1>r, <1>b, <1>q DEF MonPoll, userVars, testVars, OnlyRunTestStarts, AttemptInv,
      Process
<1>10. ASSUME NEW p \in Proc, MonUnregister(p) /\ UNCHANGED testVars PROVE AttemptInv'
  BY <1>10, <1>r, <1>b, <1>q DEF MonUnregister, userVars, testVars, OnlyRunTestStarts,
      AttemptInv, Process
<1>11. ASSUME PostCollect /\ UNCHANGED testVars PROVE AttemptInv'
  BY <1>11, <1>r, <1>b, <1>q DEF PostCollect, userVars, testVars, OnlyRunTestStarts,
      AttemptInv, Process
<1>12. ASSUME PostJoin /\ UNCHANGED testVars PROVE AttemptInv'
  BY <1>12, <1>r, <1>b, <1>q DEF PostJoin, userVars, testVars, OnlyRunTestStarts, AttemptInv,
      Process
<1>13. ASSUME PostCore /\ UNCHANGED testVars PROVE AttemptInv'
  BY <1>13, <1>r, <1>b, <1>q DEF PostCore, userVars, testVars, OnlyRunTestStarts, AttemptInv,
      Process
<1>14. ASSUME PostClear /\ UNCHANGED testVars PROVE AttemptInv'
  BY <1>14, <1>r, <1>b, <1>q DEF PostClear, userVars, testVars, OnlyRunTestStarts, AttemptInv,
      Process
<1>15. ASSUME NEW k \in Killer, KillerStop(k) /\ UNCHANGED testVars PROVE AttemptInv'
  BY <1>15, <1>r, <1>b, <1>q DEF KillerStop, userVars, testVars, OnlyRunTestStarts, AttemptInv,
      Process
<1>16. ASSUME NEW k \in Killer, NEW p \in Proc, KillerGet(k, p) /\ UNCHANGED testVars PROVE
    AttemptInv'
  BY <1>16, <1>r, <1>b, <1>q DEF KillerGet, userVars, testVars, OnlyRunTestStarts, AttemptInv,
      Process
<1>17. ASSUME NEW p \in Proc, NEW w \in {"start", "append"}, upc = "idle" /\ Register(p, w) /\
    UNCHANGED testVars PROVE AttemptInv'
  BY <1>17, <1>r, <1>b, <1>q DEF Register, testVars, OnlyRunTestStarts, AttemptInv, Process
<1>18. ASSUME AppendCore /\ UNCHANGED testVars PROVE AttemptInv'
  BY <1>18, <1>r, <1>b, <1>q DEF AppendCore, testVars, OnlyRunTestStarts, AttemptInv, Process
<1>19. ASSUME UserStart /\ UNCHANGED testVars PROVE AttemptInv'
  BY <1>19, <1>r, <1>b, <1>q DEF UserStart, testVars, OnlyRunTestStarts, AttemptInv, Process
<1>20. ASSUME RegistrationsComplete /\ UNCHANGED testVars PROVE AttemptInv'
  BY <1>20, <1>r, <1>b, <1>q DEF RegistrationsComplete, userVars, testVars, OnlyRunTestStarts,
      AttemptInv, Process
<1>21. ASSUME KillStop /\ UNCHANGED testVars PROVE AttemptInv'
  BY <1>21, <1>r, <1>b, <1>q DEF KillStop, testVars, OnlyRunTestStarts, AttemptInv, Process
<1>22. ASSUME NEW p \in Proc, KillProcess(p) /\ UNCHANGED testVars PROVE AttemptInv'
  BY <1>22, <1>r, <1>b, <1>q DEF KillProcess, testVars, OnlyRunTestStarts, AttemptInv, Process
<1>23. ASSUME upc = "idle" /\ Shutdown("join") /\ UNCHANGED testVars PROVE AttemptInv'
  BY <1>23, <1>r, <1>b, <1>q DEF Shutdown, testVars, OnlyRunTestStarts, AttemptInv, Process
<1>24. ASSUME Join("join", "idle") /\ UNCHANGED testVars PROVE AttemptInv'
  BY <1>24, <1>r, <1>b, <1>q DEF Join, testVars, OnlyRunTestStarts, AttemptInv, Process
<1>25. ASSUME SetUp PROVE AttemptInv'
  BY <1>25, <1>r, <1>b, <1>q DEF SetUp, testVars, OnlyRunTestStarts, AttemptInv, Process
<1>26. ASSUME CleanResults PROVE AttemptInv'
  BY <1>26, <1>r, <1>b, <1>q DEF CleanResults, testVars, OnlyRunTestStarts, AttemptInv, Process
<1>27. ASSUME RegisterTest PROVE AttemptInv'
  <2>1. UNCHANGED <<proc, attempt>> /\ upc' \in {"register", "startTest", "tearDown"}
    BY <1>27 DEF RegisterTest, Register, Raise, procVars
  <2>2. CASE Accepts(Process)
    <3>1. \A p \in Tests : p \notin procs /\ ~isShutdown
      BY <1>a, <2>2, TestsAreProcs DEF Accepts, TypeTest, Process
    <3>2. \A p \in Tests : ~Running(p)
      BY <1>b, <3>1 DEF TestsInv
    <3> QED BY <2>1, <3>2 DEF AttemptInv, Running
  <2>3. CASE ~Accepts(Process)
    BY <1>27, <2>3 DEF RegisterTest, Raise, AttemptInv
  <2> QED BY <2>2, <2>3
<1>28. ASSUME StartTest PROVE AttemptInv'
  <2>1. UNCHANGED attempt /\ upc = "startTest" /\ upc' \in {"alive", "tearDown"}
    BY <1>28 DEF StartTest, Raise
  <2>2. \A q \in Tests : q # Process => (Running(q)' => Running(q))
    BY <1>r DEF OnlyRunTestStarts
  <2> QED BY <1>b, <2>1, <2>2 DEF AttemptInv, Process
<1>29. ASSUME AliveTest PROVE AttemptInv'
  <2>1. /\ UNCHANGED <<proc, attempt, retry>>
        /\ upc' \in {"poll", "read", "alive", "timedOut", "tearDown"}
    BY <1>29 DEF AliveTest, Answered, Raise, procVars
  <2>2. Process \in Proc
    BY <1>a DEF TypeTest, Process
  <2>4. Running(Process) => proc[Process].popen
    BY <1>29, <1>b, <1>q DEF AliveTest, ModeInv, TestPCs, TestsInv
  <2>3. (upc' = "read" => ~Running(Process)) /\ (upc' = "timedOut" => retry > 0)
    BY <1>29, <1>a, <2>2, <2>4 DEF AliveTest, Answered, Raise, AliveCheck, AlivePoll, ProcInv,
      Attended
  <2> QED BY <1>29, <1>b, <2>1, <2>3 DEF AliveTest, AttemptInv, Running, Process
<1>30. ASSUME PollTest PROVE AttemptInv'
  <2>1. /\ UNCHANGED <<proc, attempt, retry>>
        /\ upc' \in {"poll", "read", "alive", "timedOut", "tearDown"}
    BY <1>30 DEF PollTest, Answered, Raise, procVars
  <2>2. Process \in Proc
    BY <1>a DEF TypeTest, Process
  <2>4. Running(Process) => proc[Process].popen
    BY <1>30, <1>b, <1>q DEF PollTest, ModeInv, TestPCs, TestsInv
  <2>3. (upc' = "read" => ~Running(Process)) /\ (upc' = "timedOut" => retry > 0)
    BY <1>30, <1>a, <2>2, <2>4 DEF PollTest, Answered, Raise, AliveCheck, AlivePoll, ProcInv,
      Attended
  <2> QED BY <1>30, <1>b, <2>1, <2>3 DEF PollTest, AttemptInv, Running, Process
<1>31. ASSUME Evaluate PROVE AttemptInv'
  BY <1>31 DEF Evaluate, Raise, AttemptInv
<1>32. ASSUME TearDown PROVE AttemptInv'
  BY <1>32 DEF TearDown, Shutdown, AttemptInv
<1>33. ASSUME ExitMain PROVE AttemptInv'
  BY <1>33 DEF ExitMain, Join, AttemptInv
<1>34. ASSUME NEW p \in Proc \ Range(Attempt), ProcExit(p) /\ UNCHANGED testVars PROVE
    AttemptInv'
  BY <1>34, <1>r, <1>b, <1>q DEF ProcExit, userVars, testVars, OnlyRunTestStarts, AttemptInv,
      Process
<1>35. ASSUME NEW p \in Range(Attempt), upc # "exited" /\ TestExit(p) PROVE AttemptInv'
  <2>1. UNCHANGED <<attempt, retry, upc>>
    BY <1>35 DEF TestExit, ProcExit, userVars
  <2> QED BY <1>b, <1>r, <1>q, <2>1 DEF OnlyRunTestStarts, AttemptInv, Process
<1> QED BY <1>0, <1>1, <1>2, <1>3, <1>4, <1>5, <1>6, <1>7, <1>8, <1>9, <1>10, <1>11, <1>12,
    <1>13, <1>14, <1>15, <1>16, <1>17, <1>18, <1>19, <1>20, <1>21, <1>22, <1>23, <1>24, <1>25,
    <1>26, <1>27, <1>28, <1>29, <1>30, <1>31, <1>32, <1>33, <1>34, <1>35, AllSteps

\* From the last reading of the file to the exit nobody writes it.
LEMMA VerdictStep ==
  /\ TypesInv /\ KillInv /\ StartersInv /\ ModeInv /\ TestsInv /\ AttemptInv /\ VerdictInv
  /\ [Next]_allVars
  => VerdictInv'
<1> SUFFICES ASSUME TypesInv /\ KillInv /\ StartersInv /\ ModeInv /\ TestsInv /\ AttemptInv,
                    VerdictInv, [Next]_allVars
             PROVE  VerdictInv'
  OBVIOUS
<1>a. TypeTest /\ StartersInv /\ AttemptInv /\ VerdictInv
  BY DEF TypesInv
<1>r. OnlyRunTestStarts
  BY TestsRun
<1>q. Process \in Tests
  BY <1>a, TestsAreProcs DEF TypeTest, Process
<1>0. CASE UNCHANGED allVars
  BY <1>0, <1>a DEF allVars, vars, procVars, userVars, testVars, VerdictInv, Running
<1>1. ASSUME MonCopy /\ UNCHANGED testVars PROVE VerdictInv'
  BY <1>1, <1>a, <1>r DEF MonCopy, userVars, testVars, OnlyRunTestStarts, VerdictInv,
      ReadResults
<1>2. ASSUME MonBuryStop /\ UNCHANGED testVars PROVE VerdictInv'
  BY <1>2, <1>a, <1>r DEF MonBuryStop, userVars, testVars, OnlyRunTestStarts, VerdictInv,
      ReadResults
<1>3. ASSUME MonSave /\ UNCHANGED testVars PROVE VerdictInv'
  BY <1>3, <1>a, <1>r DEF MonSave, userVars, testVars, OnlyRunTestStarts, VerdictInv,
      ReadResults
<1>4. ASSUME MonExitTest /\ UNCHANGED testVars PROVE VerdictInv'
  BY <1>4, <1>a, <1>r DEF MonExitTest, userVars, testVars, OnlyRunTestStarts, VerdictInv,
      ReadResults
<1>5. ASSUME MonRespawnNext /\ UNCHANGED testVars PROVE VerdictInv'
  BY <1>5, <1>a, <1>r DEF MonRespawnNext, userVars, testVars, OnlyRunTestStarts, VerdictInv,
      ReadResults
<1>6. ASSUME MonRespawnStop /\ UNCHANGED testVars PROVE VerdictInv'
  BY <1>6, <1>a, <1>r DEF MonRespawnStop, userVars, testVars, OnlyRunTestStarts, VerdictInv,
      ReadResults
<1>7. ASSUME MonRespawnStart /\ UNCHANGED testVars PROVE VerdictInv'
  BY <1>7, <1>a, <1>r DEF MonRespawnStart, userVars, testVars, OnlyRunTestStarts, VerdictInv,
      ReadResults
<1>8. ASSUME NEW p \in Proc, MonPollCheck(p) /\ UNCHANGED testVars PROVE VerdictInv'
  BY <1>8, <1>a, <1>r DEF MonPollCheck, userVars, testVars, OnlyRunTestStarts, VerdictInv,
      ReadResults
<1>9. ASSUME NEW p \in Proc, MonPoll(p) /\ UNCHANGED testVars PROVE VerdictInv'
  BY <1>9, <1>a, <1>r DEF MonPoll, userVars, testVars, OnlyRunTestStarts, VerdictInv,
      ReadResults
<1>10. ASSUME NEW p \in Proc, MonUnregister(p) /\ UNCHANGED testVars PROVE VerdictInv'
  BY <1>10, <1>a, <1>r DEF MonUnregister, userVars, testVars, OnlyRunTestStarts, VerdictInv,
      ReadResults
<1>11. ASSUME PostCollect /\ UNCHANGED testVars PROVE VerdictInv'
  BY <1>11, <1>a, <1>r DEF PostCollect, userVars, testVars, OnlyRunTestStarts, VerdictInv,
      ReadResults
<1>12. ASSUME PostJoin /\ UNCHANGED testVars PROVE VerdictInv'
  BY <1>12, <1>a, <1>r DEF PostJoin, userVars, testVars, OnlyRunTestStarts, VerdictInv,
      ReadResults
<1>13. ASSUME PostCore /\ UNCHANGED testVars PROVE VerdictInv'
  BY <1>13, <1>a, <1>r DEF PostCore, userVars, testVars, OnlyRunTestStarts, VerdictInv,
      ReadResults
<1>14. ASSUME PostClear /\ UNCHANGED testVars PROVE VerdictInv'
  BY <1>14, <1>a, <1>r DEF PostClear, userVars, testVars, OnlyRunTestStarts, VerdictInv,
      ReadResults
<1>15. ASSUME NEW k \in Killer, KillerStop(k) /\ UNCHANGED testVars PROVE VerdictInv'
  BY <1>15, <1>a, <1>r DEF KillerStop, userVars, testVars, OnlyRunTestStarts, VerdictInv,
      ReadResults
<1>16. ASSUME NEW k \in Killer, NEW p \in Proc, KillerGet(k, p) /\ UNCHANGED testVars PROVE
    VerdictInv'
  BY <1>16, <1>a, <1>r DEF KillerGet, userVars, testVars, OnlyRunTestStarts, VerdictInv,
      ReadResults
<1>17. ASSUME NEW p \in Proc, NEW w \in {"start", "append"}, upc = "idle" /\ Register(p, w) /\
    UNCHANGED testVars PROVE VerdictInv'
  BY <1>17, <1>a, <1>r DEF Register, testVars, OnlyRunTestStarts, VerdictInv, ReadResults
<1>18. ASSUME AppendCore /\ UNCHANGED testVars PROVE VerdictInv'
  BY <1>18, <1>a, <1>r DEF AppendCore, testVars, OnlyRunTestStarts, VerdictInv, ReadResults
<1>19. ASSUME UserStart /\ UNCHANGED testVars PROVE VerdictInv'
  BY <1>19, <1>a, <1>r DEF UserStart, testVars, OnlyRunTestStarts, VerdictInv, ReadResults
<1>20. ASSUME RegistrationsComplete /\ UNCHANGED testVars PROVE VerdictInv'
  BY <1>20, <1>a, <1>r DEF RegistrationsComplete, userVars, testVars, OnlyRunTestStarts,
      VerdictInv, ReadResults
<1>21. ASSUME KillStop /\ UNCHANGED testVars PROVE VerdictInv'
  BY <1>21, <1>a, <1>r DEF KillStop, testVars, OnlyRunTestStarts, VerdictInv, ReadResults
<1>22. ASSUME NEW p \in Proc, KillProcess(p) /\ UNCHANGED testVars PROVE VerdictInv'
  BY <1>22, <1>a, <1>r DEF KillProcess, testVars, OnlyRunTestStarts, VerdictInv, ReadResults
<1>23. ASSUME upc = "idle" /\ Shutdown("join") /\ UNCHANGED testVars PROVE VerdictInv'
  BY <1>23, <1>a, <1>r DEF Shutdown, testVars, OnlyRunTestStarts, VerdictInv, ReadResults
<1>24. ASSUME Join("join", "idle") /\ UNCHANGED testVars PROVE VerdictInv'
  BY <1>24, <1>a, <1>r DEF Join, testVars, OnlyRunTestStarts, VerdictInv, ReadResults
<1>25. ASSUME SetUp PROVE VerdictInv'
  BY <1>25, <1>a, <1>r DEF SetUp, testVars, OnlyRunTestStarts, VerdictInv, ReadResults
<1>26. ASSUME CleanResults PROVE VerdictInv'
  BY <1>26, <1>a, <1>r DEF CleanResults, testVars, OnlyRunTestStarts, VerdictInv, ReadResults
<1>27. ASSUME RegisterTest PROVE VerdictInv'
  <2>1. /\ UNCHANGED <<proc, file, textMode, results, verdict>> /\ upc = "register"
        /\ \/ upc' \in {"register", "startTest"}
           \/ upc' = "tearDown" /\ why' # "none"
    BY <1>27 DEF RegisterTest, Register, Raise, procVars
  <2> QED BY <1>a, <2>1 DEF VerdictInv, Running
<1>28. ASSUME StartTest PROVE VerdictInv'
  <2>1. /\ UNCHANGED <<file, textMode, results, verdict>> /\ upc = "startTest"
        /\ upc' = "alive" \/ (upc' = "tearDown" /\ why' # "none")
    BY <1>28 DEF StartTest, Raise
  <2> QED BY <1>a, <2>1 DEF VerdictInv
<1>29. ASSUME AliveTest PROVE VerdictInv'
  <2>1. /\ UNCHANGED <<file, textMode, results, verdict>> /\ upc \in {"alive", "poll"}
        /\ \/ upc' \in {"alive", "poll", "read", "timedOut"}
           \/ upc' = "tearDown" /\ why' # "none"
    BY <1>29 DEF AliveTest, Answered, Raise
  <2> QED BY <1>a, <2>1 DEF VerdictInv
<1>30. ASSUME PollTest PROVE VerdictInv'
  <2>1. /\ UNCHANGED <<file, textMode, results, verdict>> /\ upc \in {"alive", "poll"}
        /\ \/ upc' \in {"alive", "poll", "read", "timedOut"}
           \/ upc' = "tearDown" /\ why' # "none"
    BY <1>30 DEF PollTest, Answered, Raise
  <2> QED BY <1>a, <2>1 DEF VerdictInv
<1>31. ASSUME Evaluate PROVE VerdictInv'
  <2>1. /\ UNCHANGED <<proc, file, textMode, verdict>> /\ upc \in {"read", "timedOut"}
        /\ upc' \in {"tearDown", "clean"}
    BY <1>31 DEF Evaluate, Raise, procVars
  <2>2. verdict = "none" /\ (file.what = "none" \/ file.by \in Tests)
    BY <1>a, <2>1 DEF VerdictInv
  <2>3. ASSUME upc' = "tearDown", why' = "none", ~textMode
        PROVE  upc = "read" /\ file.what # "none" /\ results' = ReadResults(file)
    BY <1>31, <1>a, <2>3 DEF Evaluate, Raise, AttemptInv
  <2>4. ASSUME upc = "read" PROVE \A p \in Tests : ~Running(p)
    BY <1>a, <2>4 DEF AttemptInv
  <2> QED BY <2>1, <2>2, <2>3, <2>4 DEF VerdictInv, Running, ReadResults
<1>32. ASSUME TearDown PROVE VerdictInv'
  <2>1. /\ UNCHANGED <<proc, file, textMode, why, results, verdict>>
        /\ upc = "tearDown" /\ upc' = "joinTest"
    BY <1>32 DEF TearDown, Shutdown, procVars, testVars
  <2> QED BY <1>a, <2>1 DEF VerdictInv, Running, ReadResults
<1>33. ASSUME ExitMain PROVE VerdictInv'
  <2>1. /\ upc = "joinTest" /\ upc' = "exited"
        /\ UNCHANGED <<proc, file, textMode, why, results>>
    BY <1>33 DEF ExitMain, Join, procVars
  <2>2. verdict' = "0" /\ ~textMode => why = "none" /\ results # "fail"
    BY <1>33 DEF ExitMain
  <2> QED BY <1>a, <2>1, <2>2 DEF VerdictInv, Running, ReadResults
<1>34. ASSUME NEW p \in Proc \ Range(Attempt), ProcExit(p) /\ UNCHANGED testVars PROVE
    VerdictInv'
  BY <1>34, <1>a, <1>r DEF ProcExit, userVars, testVars, OnlyRunTestStarts, VerdictInv,
      ReadResults
<1>35. ASSUME NEW p \in Range(Attempt), upc # "exited" /\ TestExit(p) PROVE VerdictInv'
  <2>1. /\ Running(p) /\ p \in Tests
        /\ UNCHANGED <<upc, textMode, why, results, verdict>>
        /\ file' = file \/ file'.by \in Tests
    BY <1>35 DEF TestExit, ProcExit, userVars, Tests
  <2>2. ~(upc \in {"tearDown", "joinTest", "exited"} /\ why = "none" /\ ~textMode)
    BY <1>a, <2>1 DEF VerdictInv
  <2> QED BY <1>a, <2>1, <2>2 DEF VerdictInv
<1> QED BY <1>0, <1>1, <1>2, <1>3, <1>4, <1>5, <1>6, <1>7, <1>8, <1>9, <1>10, <1>11, <1>12,
    <1>13, <1>14, <1>15, <1>16, <1>17, <1>18, <1>19, <1>20, <1>21, <1>22, <1>23, <1>24, <1>25,
    <1>26, <1>27, <1>28, <1>29, <1>30, <1>31, <1>32, <1>33, <1>34, <1>35, AllSteps

-----------------------------------------------------------------------------
(* Theorems                                                                *)

TestInv == StartersInv /\ ModeInv /\ TestsInv /\ AttemptInv /\ VerdictInv

LEMMA TestInvInit == TestInit => TestInv
<1> SUFFICES ASSUME TestInit PROVE TestInv
  OBVIOUS
<1>1. \A p \in Proc : ~Running(p) /\ ~proc[p].started
  BY DEF TestInit, Init, Running
<1>2. StartersInv
  BY DEF TestInit, Init, StartersInv, Tests
<1>5. ModeInv
  BY DEF TestInit, Init, ModeInv, TestPCs, LaunchPCs, Tests
<1>3. TestsInv
  BY <1>1, TestsAreProcs DEF TestInit, Init, TestsInv, NotSeen
<1>4. AttemptInv /\ VerdictInv
  BY DEF TestInit, AttemptInv, VerdictInv
<1> QED BY <1>2, <1>3, <1>4, <1>5 DEF TestInv

BareTestInv == TypesInv /\ WatchInv /\ TestInv

\* The conjunction of the invariants is inductive.
LEMMA BareTestInduction ==
  (TestInit => BareTestInv) /\ (BareTestInv /\ [Next]_allVars => BareTestInv')
<1>1. TestInit => BareTestInv
  BY TypesInit, WatchInit, TestInvInit DEF BareTestInv
<1>2. BareTestInv /\ [Next]_allVars => BareTestInv'
  BY TypesStep, WatchStep, StartersStep, ModeStep, TestsStep, AttemptStep, VerdictStep
    DEF BareTestInv, TestInv, WatchInv
<1> QED BY <1>1, <1>2

\* A process that was watched when it was started is watched until it has exited or a
\* stop() of it has returned (which may give it up: baretest.py), even when the
\* monitor ends, and the core processes are stopped last and in reverse order
\* (pmon.py: register, _run, _post_run, _ProcessKiller), for any number of processes
\* and killer threads.
THEOREM RunningProcessesAreWatched == Spec => []WatchedToTheEnd
<1>1. BareTestInv => WatchedToTheEnd
  BY TypesAreOK DEF BareTestInv, WatchInv, WatchedToTheEnd
<1> QED BY <1>1, BareTestInduction, PTL DEF Spec

\* rosunit exits with 0 only for results without a failure that a process of this
\* test wrote (baretest.py: runTest; rosunit_main.py: rosunitmain), however the monitor,
\* the killers and the processes interleave with the attempts.
THEOREM SuccessIsForThisTest == Spec => []SuccessIsEarned
<1>1. BareTestInv => SuccessIsEarned
  <2> SUFFICES ASSUME BareTestInv, verdict = "0", ~textMode
               PROVE  /\ why = "none" /\ file.by \in Tests
                      /\ file.what \in {"pass", "garbled"}
    BY DEF SuccessIsEarned, Tests
  <2>1. VerdictInv /\ TypeTest
    BY DEF BareTestInv, TestInv, TypesInv
  <2>2. upc = "exited" /\ why = "none" /\ results # "fail"
    BY <2>1 DEF VerdictInv
  <2>3. file.what # "none" /\ file.by \in Tests /\ results = ReadResults(file)
    BY <2>1, <2>2 DEF VerdictInv
  <2>4. file.what # "fail" /\ file.what \in {"none", "pass", "fail", "garbled"}
    BY <2>1, <2>2, <2>3 DEF ReadResults, TypeTest
  <2> QED BY <2>2, <2>3, <2>4
<1> QED BY <1>1, BareTestInduction, PTL DEF Spec
=============================================================================
