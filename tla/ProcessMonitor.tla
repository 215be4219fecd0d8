--------------------------- MODULE ProcessMonitor ---------------------------
(***************************************************************************)
(* rosunit's process monitor (pmon.py) and the processes it watches        *)
(* (LocalProcess of baretest.py).  Threads: the monitor, the killers it    *)
(* starts at the end, and one thread of the program that uses it.          *)
(*                                                                         *)
(* A step is what a thread does between two points where another thread    *)
(* may interfere: the two reads of is_alive, taking plock or the lock of a *)
(* process, the wait for a signalled process to exit.                      *)
(***************************************************************************)
EXTENDS Naturals, Sequences, FiniteSets, Functions, SequencesExt

CONSTANTS
  Proc,           \* Process objects
  NameOf,         \* the name of each: two objects may carry the same name
  Kinds,          \* the combinations of process kinds (respawn=True, required=True) to consider
  Killer,         \* the _ProcessKiller threads
  NoProc,
  ListenerRaises, \* what process_died of the listeners may do: raise or not
  MaxSpawn,       \* bound: from this incarnation on a process does not fail or exit by itself
  MaxKills        \* bound: kill_process calls of the program

Mon  == "monitor"
User == "user"
Thread == Killer \cup {Mon, User}

ASSUME PmonAssumption ==
  /\ Kinds \subseteq [Proc -> {"plain", "respawn", "required"}]
  /\ NameOf \in [Proc -> STRING]
  /\ NoProc \notin Proc
  /\ {Mon, User} \cap Killer = {}
  /\ ListenerRaises \subseteq BOOLEAN /\ ListenerRaises # {}
  /\ MaxSpawn \in Nat /\ MaxKills \in Nat

VARIABLES
  procs, coreProcs, deadList,         \* fields of ProcessMonitor
  isShutdown, regComplete, done,
  plock,                              \* the thread that holds plock, or NoProc
  kind,                               \* per process: what its constructor was given
  proc,                               \* fields of each LocalProcess, and the OS process it
                                      \* has started last
  stopping,                           \* per thread: the process it is waiting for inside stop()
  pc, copy, cur, dead, bury, respawn, \* locals of the monitor thread
  core, queue, killing,               \* locals of _post_run, its Queue, what each killer has taken
  fresh, upc, ucur, kills,            \* the program's thread
  stray                               \* history: processes started when nothing watched them

monVars  == <<procs, coreProcs, deadList, isShutdown, regComplete, done, plock>>
procVars == <<kind, proc, stopping>>
runVars  == <<pc, copy, cur, dead, bury, respawn>>
postVars == <<core, queue, killing>>
userVars == <<fresh, upc, ucur, kills>>
vars == <<monVars, procVars, runVars, postVars, userVars, stray>>

Init ==
  /\ procs = {} /\ coreProcs = <<>> /\ deadList = {}
  /\ isShutdown = FALSE /\ regComplete = FALSE /\ done = FALSE
  /\ plock = NoProc
  /\ kind \in Kinds
  /\ proc = [p \in Proc |-> [started |-> FALSE, stopped |-> FALSE, popen |-> FALSE,
                             os |-> "none", spawn |-> 0]]
  /\ stopping = [t \in Thread |-> NoProc]
  /\ copy = {} /\ cur = NoProc /\ dead = {} /\ bury = {} /\ respawn = {}
  /\ core = <<>> /\ queue = {} /\ killing = [k \in Killer |-> NoProc]
  /\ ucur = NoProc /\ kills = 0 /\ stray = {}

Running(p) == proc[p].os = "running"

\* It runs and its object knows it: stop() has not given it up.
Attended(p) == proc[p].popen /\ Running(p)
LockFree(p) == \A t \in Thread : stopping[t] # p
PlockFree(t) == plock \in {NoProc, t}

-----------------------------------------------------------------------------
(* LocalProcess.  start() is one step under the process's lock: "ok",      *)
(* "quick" (the process has already failed when start polls it), or        *)
(* "raise" (Popen raises and is reported as FatalProcessLaunch).           *)
StartOutcome(p) == IF proc[p].spawn + 1 < MaxSpawn THEN {"ok", "quick", "raise"} ELSE {"ok"}

Start(p, outcome) ==
  /\ LockFree(p)
  /\ proc' = [proc EXCEPT ![p] =
       [started |-> TRUE, stopped |-> FALSE,
        popen |-> @.popen \/ outcome # "raise",
        os |-> CASE outcome = "ok" -> "running" [] outcome = "quick" -> "exited" [] OTHER -> @.os,
        spawn |-> @.spawn + 1]]
  /\ stray' = IF p \in procs /\ ~isShutdown THEN stray ELSE stray \cup {p}
  /\ UNCHANGED <<kind, stopping>>

\* The first half of is_alive, up to the poll: "yes" and "no" are answers,
\* "poll" goes on to the second read of popen.
AliveCheck(p) ==
  CASE ~proc[p].started -> "yes"
    [] proc[p].started /\ (proc[p].stopped \/ ~proc[p].popen) -> "no"
    [] OTHER -> "poll"

\* The second half: popen may have become None in between, and poll() then
\* raises AttributeError.
AlivePoll(p) ==
  CASE ~proc[p].popen -> "raise"
    [] Attended(p) -> "yes"
    [] OTHER -> "no"

\* stop() where nothing has to be waited for: popen is None, or the process
\* has already exited (then getpgid raises if another thread has just reaped
\* it, and popen keeps its value).
StopAtOnce(t, p) ==
  /\ LockFree(p)
  /\ ~Attended(p)
  /\ \E kept \in {FALSE, proc[p].popen} :
       proc' = [proc EXCEPT ![p].popen = kept, ![p].stopped = TRUE]
  /\ UNCHANGED <<kind, stopping>>

\* stop() signals a running process and waits, holding the process's lock.
StopBegin(t, p) ==
  /\ LockFree(p)
  /\ Attended(p)
  /\ stopping' = [stopping EXCEPT ![t] = p]
  /\ UNCHANGED <<kind, proc>>

\* The process exits on SIGINT or SIGTERM, or it "may still be running": stop() does
\* not wait after SIGKILL, and gives up when killpg raises.
StopEnd(t, p) ==
  /\ stopping[t] = p
  /\ \E os \in {"exited", proc[p].os} :
       proc' = [proc EXCEPT ![p].popen = FALSE, ![p].stopped = TRUE, ![p].os = os]
  /\ stopping' = [stopping EXCEPT ![t] = NoProc]
  /\ UNCHANGED kind

\* stop(p) returns in thread t
StopReturns(t, p) ==
  \/ stopping[t] = NoProc /\ StopAtOnce(t, p)
  \/ StopEnd(t, p)

\* A process exits by itself, or because of the signals of a stop() that has returned.
ProcExit(p) ==
  /\ Running(p)
  /\ proc[p].spawn < MaxSpawn \/ ~proc[p].popen
  /\ proc' = [proc EXCEPT ![p].os = "exited"]
  /\ UNCHANGED <<monVars, kind, stopping, runVars, postVars, userVars, stray>>

-----------------------------------------------------------------------------
(* ProcessMonitor._run                                                     *)

\* The head of the loop: leave, or copy the list under plock.
MonCopy ==
  /\ pc = "copy"
  /\ IF isShutdown
       THEN pc' = "post" /\ UNCHANGED copy
       ELSE /\ PlockFree(Mon)
            /\ copy' = procs
            /\ pc' = IF procs = {} THEN "bury" ELSE "poll"
  /\ UNCHANGED <<monVars, procVars, cur, dead, bury, respawn, postVars, userVars, stray>>

\* What the loop does with p once is_alive has answered or raised: classify
\* it, call the listeners (which may raise), go on or stop polling.
Polled(p, answer) ==
  \E raised \in (IF answer = "no" THEN ListenerRaises ELSE {FALSE}) :
    LET buried == answer = "raise" \/ raised \/ (answer = "no" /\ kind[p] = "plain")
        fatal == answer = "no" /\ kind[p] = "required"
    IN  /\ respawn' = IF answer = "no" /\ kind[p] = "respawn" THEN respawn \cup {p} ELSE respawn
        /\ dead' = IF buried THEN dead \cup {p} ELSE dead
        /\ bury' = IF buried THEN bury \cup {p} ELSE bury
        /\ isShutdown' = (isShutdown \/ fatal)
        /\ copy' = copy \ {p}
        /\ cur' = NoProc
        /\ pc' = IF isShutdown' \/ copy' = {} THEN "bury" ELSE "poll"

MonPollCheck(p) ==
  /\ pc = "poll" /\ cur = NoProc /\ p \in copy
  /\ IF AliveCheck(p) = "poll"
       THEN cur' = p /\ UNCHANGED <<isShutdown, pc, copy, dead, bury, respawn>>
       ELSE Polled(p, AliveCheck(p))
  /\ UNCHANGED <<procs, coreProcs, deadList, regComplete, done, plock, procVars,
                 postVars, userVars, stray>>

MonPoll(p) ==
  /\ pc = "poll" /\ cur = p
  /\ Polled(p, AlivePoll(p))
  /\ UNCHANGED <<procs, coreProcs, deadList, regComplete, done, plock, procVars,
                 postVars, userVars, stray>>

\* for d in dead: unregister under plock (ValueError if it is not there) ...
MonUnregister(p) ==
  /\ pc = "bury" /\ p \in bury
  /\ PlockFree(Mon)
  /\ procs' = procs \ {p}
  /\ IF p \in procs THEN pc' = "buryStop" /\ cur' = p ELSE UNCHANGED <<pc, cur>>
  /\ bury' = bury \ {p}
  /\ UNCHANGED <<coreProcs, deadList, isShutdown, regComplete, done, plock, procVars,
                 copy, dead, respawn, postVars, userVars, stray>>

\* ... stop it ...
MonBuryStop ==
  /\ pc = "buryStop"
  /\ \/ StopBegin(Mon, cur) /\ stopping[Mon] = NoProc /\ UNCHANGED pc
     \/ StopReturns(Mon, cur) /\ pc' = "burySave"
  /\ UNCHANGED <<monVars, copy, cur, dead, bury, respawn, postVars, userVars, stray>>

\* ... and keep its data.
MonSave ==
  /\ pc = "burySave"
  /\ PlockFree(Mon)
  /\ deadList' = deadList \cup {cur}
  /\ cur' = NoProc /\ pc' = "bury"
  /\ UNCHANGED <<procs, coreProcs, isShutdown, regComplete, done, plock, procVars,
                 copy, dead, bury, respawn, postVars, userVars, stray>>

\* The exit test: all processes have died.
MonExitTest ==
  /\ pc = "bury" /\ bury = {}
  /\ isShutdown' = (isShutdown \/ (regComplete /\ dead # {} /\ procs = {} /\ respawn = {}))
  /\ dead' = {} /\ pc' = "respawn"
  /\ UNCHANGED <<procs, coreProcs, deadList, regComplete, done, plock, procVars,
                 copy, cur, bury, respawn, postVars, userVars, stray>>

\* for r in respawn: left when is_shutdown is set.
MonRespawnNext ==
  /\ pc = "respawn" /\ cur = NoProc
  /\ IF isShutdown \/ respawn = {}
       THEN respawn' = {} /\ pc' = "copy" /\ UNCHANGED cur
       ELSE \E p \in respawn :
              cur' = p /\ respawn' = respawn \ {p} /\ pc' = "respawnStop"
  /\ UNCHANGED <<monVars, procVars, copy, dead, bury, postVars, userVars, stray>>

MonRespawnStop ==
  /\ pc = "respawnStop"
  /\ \/ StopBegin(Mon, cur) /\ stopping[Mon] = NoProc /\ UNCHANGED pc
     \/ StopReturns(Mon, cur) /\ pc' = "respawnStart"
  /\ UNCHANGED <<monVars, copy, cur, dead, bury, respawn, postVars, userVars, stray>>

\* An exception of start is printed and the loop goes on.
MonRespawnStart ==
  /\ pc = "respawnStart"
  /\ \E outcome \in StartOutcome(cur) : Start(cur, outcome)
  /\ cur' = NoProc /\ pc' = "respawn"
  /\ UNCHANGED <<monVars, copy, dead, bury, respawn, postVars, userVars>>

-----------------------------------------------------------------------------
\* Mutant: the core processes are left out of the queue and never killed.
PostCollectForgetsCore ==
  /\ pc = "post"
  /\ PlockFree(Mon)
  /\ isShutdown' = TRUE
  /\ core' = <<>>
  /\ queue' = procs \ Range(coreProcs)
  /\ pc' = "kill"
  /\ UNCHANGED <<procs, coreProcs, deadList, regComplete, done, plock, procVars,
                 copy, cur, dead, bury, respawn, killing, userVars, stray>>

(* ProcessMonitor._post_run and the killers                                *)
PostCollect ==
  /\ pc = "post"
  /\ PlockFree(Mon)
  /\ isShutdown' = TRUE
  /\ core' = coreProcs
  /\ queue' = procs \ Range(coreProcs)
  /\ pc' = "kill"
  /\ UNCHANGED <<procs, coreProcs, deadList, regComplete, done, plock, procVars,
                 copy, cur, dead, bury, respawn, killing, userVars, stray>>

KillerGet(k, p) ==
  /\ pc = "kill" /\ killing[k] = NoProc /\ p \in queue
  /\ queue' = queue \ {p}
  /\ killing' = [killing EXCEPT ![k] = p]
  /\ UNCHANGED <<monVars, procVars, runVars, core, userVars, stray>>

KillerStop(k) ==
  /\ killing[k] # NoProc
  /\ \/ StopBegin(k, killing[k]) /\ stopping[k] = NoProc /\ UNCHANGED killing
     \/ StopReturns(k, killing[k]) /\ killing' = [killing EXCEPT ![k] = NoProc]
  /\ UNCHANGED <<monVars, runVars, core, queue, userVars, stray>>

\* q.join(): every queued process has been taken and its task is done.
PostJoin ==
  /\ pc = "kill"
  /\ queue = {} /\ \A k \in Killer : killing[k] = NoProc
  /\ pc' = "core"
  /\ UNCHANGED <<monVars, procVars, copy, cur, dead, bury, respawn, postVars, userVars, stray>>

\* for p in reversed(core_procs)
PostCore ==
  /\ pc = "core" /\ core # <<>>
  /\ \/ StopBegin(Mon, Last(core)) /\ stopping[Mon] = NoProc /\ UNCHANGED core
     \/ StopReturns(Mon, Last(core)) /\ core' = Front(core)
  /\ UNCHANGED <<monVars, runVars, queue, killing, userVars, stray>>

PostClear ==
  /\ pc = "core" /\ core = <<>>
  /\ PlockFree(Mon)
  /\ procs' = {} /\ coreProcs' = <<>> /\ done' = TRUE
  /\ pc' = "end"
  /\ UNCHANGED <<deadList, isShutdown, regComplete, plock, procVars,
                 copy, cur, dead, bury, respawn, postVars, userVars, stray>>

MonNext ==
  \/ MonCopy \/ MonBuryStop \/ MonSave \/ MonExitTest
  \/ MonRespawnNext \/ MonRespawnStop \/ MonRespawnStart
  \/ \E p \in Proc : MonPollCheck(p) \/ MonPoll(p) \/ MonUnregister(p)
  \/ PostCollect \/ PostJoin \/ PostCore \/ PostClear

KillerNext(k) == KillerStop(k) \/ \E p \in Proc : KillerGet(k, p)

-----------------------------------------------------------------------------
(* The program's thread.  register refuses a name that is already watched  *)
(* and a monitor that has been shut down; the refused object is given up.  *)
Accepts(p) == ~isShutdown /\ \A q \in procs : NameOf[q] # NameOf[p]

Register(p, next) ==
  /\ p \in fresh
  /\ PlockFree(User)
  /\ fresh' = fresh \ {p}
  /\ procs' = IF Accepts(p) THEN procs \cup {p} ELSE procs
  /\ upc' = IF Accepts(p) THEN next ELSE upc
  /\ ucur' = IF Accepts(p) THEN p ELSE ucur
  /\ UNCHANGED <<coreProcs, deadList, isShutdown, regComplete, done, plock, procVars,
                 runVars, postVars, kills, stray>>

\* register_core_proc appends to core_procs after it has let go of plock.
AppendCore ==
  /\ upc = "append"
  /\ coreProcs' = Append(coreProcs, ucur)
  /\ upc' = "start"
  /\ UNCHANGED <<procs, deadList, isShutdown, regComplete, done, plock, procVars,
                 runVars, postVars, fresh, ucur, kills, stray>>

UserStart ==
  /\ upc = "start"
  /\ \E outcome \in StartOutcome(ucur) : Start(ucur, outcome)
  /\ upc' = "idle" /\ ucur' = NoProc
  /\ UNCHANGED <<monVars, runVars, postVars, fresh, kills>>

RegistrationsComplete ==
  /\ upc = "idle" /\ ~regComplete
  /\ regComplete' = TRUE
  /\ UNCHANGED <<procs, coreProcs, deadList, isShutdown, done, plock, procVars,
                 runVars, postVars, userVars, stray>>

\* kill_process holds plock until stop() has returned.
KillProcess(p) ==
  /\ upc = "idle" /\ kills < MaxKills
  /\ p \in procs /\ PlockFree(User)
  /\ plock' = User /\ ucur' = p /\ upc' = "kill" /\ kills' = kills + 1
  /\ UNCHANGED <<procs, coreProcs, deadList, isShutdown, regComplete, done, procVars,
                 runVars, postVars, fresh, stray>>

\* Mutant: plock is not released when stop() has returned.
KillStopKeepsLock ==
  /\ upc = "kill"
  /\ \/ StopBegin(User, ucur) /\ stopping[User] = NoProc /\ UNCHANGED <<upc, ucur>>
     \/ StopReturns(User, ucur) /\ upc' = "idle" /\ ucur' = NoProc
  /\ UNCHANGED <<monVars, runVars, postVars, fresh, kills, stray>>

KillStop ==
  /\ upc = "kill"
  /\ \/ /\ StopBegin(User, ucur) /\ stopping[User] = NoProc
        /\ UNCHANGED <<plock, upc, ucur>>
     \/ /\ StopReturns(User, ucur)
        /\ plock' = NoProc /\ upc' = "idle" /\ ucur' = NoProc
  /\ UNCHANGED <<procs, coreProcs, deadList, isShutdown, regComplete, done,
                 runVars, postVars, fresh, kills, stray>>

\* shutdown_process_monitor up to the join; it returns at once when
\* is_shutdown is already set.
Shutdown(next) ==
  /\ ~isShutdown
  /\ isShutdown' = TRUE
  /\ upc' = next
  /\ UNCHANGED <<procs, coreProcs, deadList, regComplete, done, plock, procVars,
                 runVars, postVars, fresh, ucur, kills, stray>>

\* join(20.0): the thread has ended, or the time is up.
Join(from, next) ==
  /\ upc = from
  /\ upc' = next
  /\ UNCHANGED <<monVars, procVars, runVars, postVars, fresh, ucur, kills, stray>>

LaunchNext ==
  \/ upc = "idle" /\ \E p \in Proc : Register(p, "start") \/ Register(p, "append")
  \/ AppendCore \/ UserStart \/ RegistrationsComplete \/ KillStop
  \/ \E p \in Proc : KillProcess(p)
  \/ upc = "idle" /\ Shutdown("join")
  \/ Join("join", "idle")

-----------------------------------------------------------------------------
(* What the monitor promises.                                              *)

\* A process that was watched when it was started is watched until it has exited or
\* stop() has returned: none is lost between the copy of the list, the dead list, a
\* respawn and the final kill, and none outlives the monitor unless stop() gave it up.
\* stray are those the monitor never had: a core or test process whose start() comes
\* after the shutdown began, and a respawn after the process was unregistered.  Both
\* run on when the monitor has ended.
RunningIsWatched ==
  \A p \in Proc \ stray :
    Attended(p) => p \in procs \/ (pc = "buryStop" /\ cur = p)

\* While the core processes are stopped, every other one that was watched has exited
\* or been stopped, and so have the core processes registered after the one at hand
\* (register_core_proc: "killed after all other processes, in reverse order").
CoreKilledLast ==
  pc = "core" => \A p \in Proc \ stray : Attended(p) => p \in Range(core)
=============================================================================
