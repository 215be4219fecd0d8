------------------------------ MODULE BareTest ------------------------------
(***************************************************************************)
(* rosunit: BareTestCase.runTest in the main thread of rosunit_main, on    *)
(* top of the process monitor.  Each attempt is a new LocalProcess of the  *)
(* same name; it reports through a results file that rosunit reads back    *)
(* (junitxml.read).  The same specification also has the other kind of     *)
(* program, which uses the monitor directly (LaunchNext).                  *)
(***************************************************************************)
EXTENDS ProcessMonitor

CONSTANTS
  Attempt,        \* the sequence of processes one test may use, all of one name
  Retries         \* the values of retry to consider

ASSUME BareTestAssumption ==
  /\ Attempt \in Seq(Proc) /\ Attempt # <<>>
  /\ \A i \in DOMAIN Attempt, k \in Kinds : k[Attempt[i]] = "plain"
  /\ \A i, j \in DOMAIN Attempt : NameOf[Attempt[i]] = NameOf[Attempt[j]]
  /\ \A r \in Retries : r \in Nat /\ r < Len(Attempt)

VARIABLES
  file,     \* the results file: [what, by], or what = "none"
  attempt,  \* index of the running attempt
  retry, textMode,
  why,      \* what ended runTest with an exception, or "none"
  results,  \* what is left in self.results: "none" (no errors, no failures), "fail", "ok"
  verdict   \* exit code of the program, or "none"

testVars == <<file, attempt, retry, textMode, why, results, verdict>>
allVars == <<vars, testVars>>

TestInit ==
  /\ Init
  /\ \/ upc = "idle" /\ pc = "copy" /\ fresh = Proc \ Range(Attempt)
        /\ retry = 0 /\ textMode = FALSE /\ file = [what |-> "none", by |-> NoProc]
     \/ upc = "setUp" /\ pc = "off" /\ fresh = Range(Attempt)
        /\ retry \in Retries /\ textMode \in BOOLEAN
        /\ file \in {[what |-> w, by |-> NoProc] : w \in {"none", "pass"}}
  /\ attempt = 1 /\ why = "none" /\ results = "none" /\ verdict = "none"

Process == Attempt[attempt]

\* setUp: start_process_monitor.
SetUp ==
  /\ upc = "setUp"
  /\ pc' = "copy" /\ upc' = "clean"
  /\ UNCHANGED <<monVars, procVars, copy, cur, dead, bury, respawn, postVars,
                 fresh, ucur, kills, stray, testVars>>

\* Mutant: the previous results file stays.
CleanResultsKept ==
  /\ upc = "clean"
  /\ upc' = "register"
  /\ UNCHANGED <<monVars, procVars, runVars, postVars, fresh, ucur, kills, stray, testVars>>

\* The head of the loop of runTest: the previous results file is removed.
CleanResults ==
  /\ upc = "clean"
  /\ file' = [what |-> "none", by |-> NoProc]
  /\ upc' = "register"
  /\ UNCHANGED <<monVars, procVars, runVars, postVars, fresh, ucur, kills, stray,
                 attempt, retry, textMode, why, results, verdict>>

\* An exception leaves runTest; tearDown follows.
Raise(reason) == upc' = "tearDown" /\ why' = reason

RegisterTest ==
  /\ upc = "register"
  /\ IF Accepts(Process)
       THEN /\ Register(Process, "startTest")
            /\ UNCHANGED why
       ELSE /\ Raise("duplicate")
            /\ UNCHANGED <<monVars, procVars, runVars, postVars, fresh, ucur, kills, stray>>
  /\ UNCHANGED <<file, attempt, retry, textMode, results, verdict>>

StartTest ==
  /\ upc = "startTest"
  /\ \E outcome \in StartOutcome(Process) :
       /\ Start(Process, outcome)
       /\ IF outcome = "ok" THEN upc' = "alive" /\ UNCHANGED why ELSE Raise("notStarted")
  /\ UNCHANGED <<monVars, runVars, postVars, fresh, ucur, kills,
                 file, attempt, retry, textMode, results, verdict>>

\* is_alive answers TRUE or FALSE; on TRUE the time limit may be over, which
\* is an error unless there are retries left.
Answered(alive) ==
  \/ ~alive /\ upc' = "read" /\ UNCHANGED why
  \/ alive /\ upc' = "alive" /\ UNCHANGED why
  \/ alive /\ retry > 0 /\ upc' = "timedOut" /\ UNCHANGED why
  \/ alive /\ retry = 0 /\ Raise("timeout")

\* while process.is_alive(), the checks of started, stopped and popen
AliveTest ==
  /\ upc = "alive"
  /\ IF AliveCheck(Process) = "poll"
       THEN upc' = "poll" /\ UNCHANGED why
       ELSE Answered(AliveCheck(Process) = "yes")
  /\ UNCHANGED <<monVars, procVars, runVars, postVars, fresh, ucur, kills, stray,
                 file, attempt, retry, textMode, results, verdict>>

\* ... and the poll
PollTest ==
  /\ upc = "poll"
  /\ IF AlivePoll(Process) = "raise"
       THEN Raise("attribute")
       ELSE Answered(AlivePoll(Process) = "yes")
  /\ UNCHANGED <<monVars, procVars, runVars, postVars, fresh, ucur, kills, stray,
                 file, attempt, retry, textMode, results, verdict>>

\* junitxml.read: an unreadable file counts as one without errors or failures.
ReadResults(f) == IF f.what = "fail" THEN "fail" ELSE "ok"

\* The results of this attempt, and the next one or the end.  In text mode
\* the results are not read, and a retry finds test_fail unbound.
Evaluate ==
  LET failed == upc = "timedOut" \/ ReadResults(file) = "fail"
      readable == textMode \/ upc = "timedOut" \/ file.what # "none"
  IN  /\ upc \in {"read", "timedOut"}
      /\ CASE ~readable -> Raise("noResults") /\ UNCHANGED <<attempt, retry, results>>
           [] textMode /\ retry > 0 ->
                Raise("unbound") /\ UNCHANGED <<attempt, retry, results>>
           [] ~textMode /\ readable /\ retry > 0 /\ failed ->
                /\ retry' = retry - 1 /\ attempt' = attempt + 1
                /\ upc' = "clean" /\ UNCHANGED <<why, results>>
           [] OTHER ->
                /\ results' = IF textMode THEN results ELSE ReadResults(file)
                /\ upc' = "tearDown" /\ UNCHANGED <<why, attempt, retry>>
      /\ UNCHANGED <<monVars, procVars, runVars, postVars, fresh, ucur, kills, stray,
                     file, textMode, verdict>>

TearDown ==
  /\ upc = "tearDown"
  /\ Shutdown("joinTest")
  /\ UNCHANGED testVars

\* After the join rosunit_main exits; the threads of the monitor are daemons.
ExitMain ==
  /\ Join("joinTest", "exited")
  /\ verdict' = CASE ~textMode /\ why # "none" -> "1"
                  [] results = "fail" -> "2"
                  [] OTHER -> "0"
  /\ UNCHANGED <<file, attempt, retry, textMode, why, results>>

\* A test process writes its results before it exits, or exits (or is killed)
\* without having written any, or in the middle.
TestExit(p) ==
  /\ ProcExit(p)
  /\ file' \in {file} \cup {[what |-> w, by |-> p] : w \in {"pass", "fail", "garbled"}}
  /\ UNCHANGED <<attempt, retry, textMode, why, results, verdict>>

TestNext ==
  \/ SetUp \/ CleanResults \/ RegisterTest \/ StartTest
  \/ AliveTest \/ PollTest \/ Evaluate \/ TearDown \/ ExitMain

MonitorStep == MonNext /\ upc # "exited" /\ UNCHANGED testVars
KillerStep(k) == KillerNext(k) /\ upc # "exited" /\ UNCHANGED testVars
LaunchStep == LaunchNext /\ UNCHANGED testVars

Next ==
  \/ MonitorStep \/ LaunchStep \/ TestNext
  \/ \E k \in Killer : KillerStep(k)
  \/ \E p \in Proc \ Range(Attempt) : ProcExit(p) /\ UNCHANGED testVars
  \/ \E p \in Range(Attempt) : upc # "exited" /\ TestExit(p)

\* Threads run; a stop() that has signalled a process ends, by the timeouts; the
\* test's own loop runs, and its time limit is reached.  The program that uses
\* the monitor directly only has to finish the calls it has begun.
Fairness ==
  /\ WF_allVars(MonitorStep)
  /\ \A k \in Killer : WF_allVars(KillerStep(k))
  /\ WF_allVars((AppendCore \/ UserStart \/ KillStop) /\ UNCHANGED testVars)
  /\ WF_allVars(TestNext)
  /\ SF_allVars(TestNext /\ upc' # "poll" /\ upc' # "alive")

Spec == TestInit /\ [][Next]_allVars /\ Fairness

-----------------------------------------------------------------------------
TypeOK ==
  /\ procs \subseteq Proc /\ coreProcs \in Seq(Proc) /\ deadList \subseteq Proc
  /\ {isShutdown, regComplete, done, textMode} \subseteq BOOLEAN
  /\ plock \in {User, NoProc}
  /\ proc \in [Proc -> [started : BOOLEAN, stopped : BOOLEAN, popen : BOOLEAN,
                        os : {"none", "running", "exited"}, spawn : Nat]]
  /\ kind \in Kinds
  /\ stopping \in [Thread -> Proc \cup {NoProc}]
  /\ pc \in {"off", "copy", "poll", "bury", "buryStop", "burySave", "respawn",
             "respawnStop", "respawnStart", "post", "kill", "core", "end"}
  /\ copy \cup dead \cup bury \cup respawn \cup queue \cup fresh \cup stray \subseteq Proc
  /\ {cur, ucur} \subseteq Proc \cup {NoProc}
  /\ core \in Seq(Proc) /\ killing \in [Killer -> Proc \cup {NoProc}]
  /\ kills \in 0 .. MaxKills
  /\ upc \in {"idle", "append", "start", "kill", "join", "setUp", "clean", "register",
              "startTest", "alive", "poll", "read", "timedOut", "tearDown", "joinTest", "exited"}
  /\ file \in [what : {"none", "pass", "fail", "garbled"}, by : Proc \cup {NoProc}]
  /\ attempt \in DOMAIN Attempt /\ retry \in Nat
  /\ why \in {"none", "duplicate", "notStarted", "timeout", "noResults", "unbound", "attribute"}
  /\ results \in {"none", "fail", "ok"} /\ verdict \in {"none", "0", "1", "2"}

\* Success is reported only for results that a test process of this session
\* wrote and that record no failure: never for a file left by an earlier
\* session, a test that wrote nothing or one that ran out of time.
SuccessIsEarned ==
  verdict = "0" /\ ~textMode =>
    /\ why = "none"
    /\ file.by \in Range(Attempt) /\ file.what \in {"pass", "garbled"}

\* The end of a watched process is acted upon, also when Popen raised or stop() gave
\* it up.  A required one shuts the monitor down, unless somebody has stopped it;
\* another one is unregistered, started again, or left to the shutdown.
DeathHandled ==
  \A p \in Proc \ Range(Attempt) :
    (p \in procs /\ proc[p].started /\ ~Attended(p)) ~>
      IF kind[p] = "required"
        THEN isShutdown \/ proc[p].stopped
        ELSE isShutdown \/ p \notin procs \/ Attended(p)

\* A shutdown of the monitor, whoever asks for it, is carried through; only the
\* end of rosunit itself may cut it short.
ShutdownCompletes == isShutdown ~> (done \/ upc = "exited")

\* A test comes to a verdict, whatever its processes do.
TestEnds == (upc = "setUp") ~> (verdict # "none")

\* Until the monitor has ended, every process that runs and has not been stopped is
\* one it watches, and core processes go after all others.
WatchedToTheEnd == TypeOK /\ RunningIsWatched /\ CoreKilledLast

\* Deaths are handled, a shutdown completes and the test ends, whatever the
\* processes, their listeners and the killer threads do.
EverythingEnds == DeathHandled /\ ShutdownCompletes /\ TestEnds
=============================================================================
