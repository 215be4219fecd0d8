------------------------- MODULE CallbackQueueProofs -------------------------
(***************************************************************************)
(* CallbackQueue, for any threads, ids, bounds and nesting of calls.       *)
(*                                                                         *)
(* 1. calling_in_this_thread names the innermost callback the thread is    *)
(*    running.  Not inductive by itself: when a call ends, the id is       *)
(*    restored from last_calling, so every running call on the stack has   *)
(*    to remember the id of the call below it, and every call below the    *)
(*    top of the stack has to be a running one.  StackInv adds both facts. *)
(* 2. The lock of an id is held exactly as often as there are calls.       *)
(* 3. A callback is in one place, and calling_ is at least what will be    *)
(*    subtracted from it (QueueIsConsistent).                              *)
(* 4. When no callback spins the queue itself or throws, calling_ is       *)
(*    exactly that, so an idle queue is empty (IdleQueueIsEmpty).          *)
(***************************************************************************)
EXTENDS CallbackQueue, FiniteSetTheorems, TLAPS

FrameFields == {"op", "pc", "info", "id", "obj", "last", "own", "called"}

IsFrame(f) == f = [k \in FrameFields |-> f[k]]

\* The stack has the shape the code's calls give it.
StackShape ==
  /\ depth \in [Threads -> 0..MaxDepth]
  /\ DOMAIN frame = Threads /\ DOMAIN callingIn = Threads
  /\ \A t \in Threads : /\ DOMAIN frame[t] = Levels
                        /\ \A d \in Levels : IsFrame(frame[t][d])

\* Below its top a stack holds running calls, each with its caller's id.
RunningBelowTop(t) ==
  \A d \in Levels : d < depth[t] => frame[t][d].pc = "in_call"

CallersRemembered(t) ==
  \A d \in Levels : Running(t, d) => frame[t][d].last = CallerAt(t, d - 1)

StackInv ==
  /\ StackShape
  /\ \A t \in Threads : RunningBelowTop(t) /\ CallersRemembered(t)
  /\ CallerIsInnermost
-----------------------------------------------------------------------------
USE CallbackQueueAssumption

\* The default frame is a frame, and not of a running call.
LEMMA NoFrameIsFrame == IsFrame(NoFrame) /\ NoFrame.pc # "in_call"
BY DEF IsFrame, FrameFields, NoFrame

\* A call that enters the queue goes on top of a running call or of nothing.
LEMMA EnterStep ==
  ASSUME StackInv, NEW t \in Threads, NEW f, IsFrame(f), f.pc # "in_call",
         depth[t] = 0 \/ At(t, "in_call"), Enter(t, f), UNCHANGED callingIn
  PROVE  StackInv'
<1>1. StackShape'
  <2>1. depth' \in [Threads -> 0..MaxDepth] /\ DOMAIN frame' = Threads /\ DOMAIN callingIn' = Threads
    BY DEF StackInv, StackShape, Enter, Levels
  <2>2. ASSUME NEW u \in Threads
        PROVE  /\ DOMAIN frame'[u] = Levels
               /\ \A d \in Levels : IsFrame(frame'[u][d])
    <3>1. CASE u = t
      BY <3>1 DEF StackInv, StackShape, Enter, Levels
    <3>2. CASE u # t
      BY <3>2 DEF StackInv, StackShape, Enter, Levels
    <3> QED BY <3>1, <3>2
  <2> QED BY <2>1, <2>2 DEF StackShape, IsFrame
<1>2. ASSUME NEW u \in Threads
      PROVE  RunningBelowTop(u)' /\ CallersRemembered(u)'
  <2>1. CASE u # t
    BY <2>1, <1>2 DEF StackInv, StackShape, Enter, RunningBelowTop, CallersRemembered, Running, CallerAt, Levels
  <2>2. CASE u = t
    <3>1. depth[t] \in Nat /\ depth'[t] = depth[t] + 1 /\ frame'[t][depth[t] + 1] = f
      BY DEF StackInv, StackShape, Enter, Levels
    <3>2. \A d \in Levels : d # depth[t] + 1 => frame'[t][d] = frame[t][d]
      BY <3>1 DEF StackInv, StackShape, Enter
    <3>3. RunningBelowTop(t)'
      BY <3>1, <3>2 DEF StackInv, RunningBelowTop, At, Top, Levels
    <3>4. ASSUME NEW d \in Levels, Running(t, d)' PROVE Running(t, d) /\ d # depth[t] + 1
      BY <3>1, <3>2, <3>4 DEF Running, Levels
    <3>5. CallersRemembered(t)'
      BY <3>1, <3>2, <3>4 DEF StackInv, CallersRemembered, CallerAt, Running, Levels
    <3> QED BY <2>2, <3>3, <3>5
  <2> QED BY <2>1, <2>2
<1>3. CallerIsInnermost'
  <2> SUFFICES ASSUME NEW u \in Threads
               PROVE (callingIn[u] = CallerAt(u, IF At(u, "in_call") THEN depth[u]
                               ELSE IF depth[u] = 0 THEN 0 ELSE depth[u] - 1))'
    BY DEF CallerIsInnermost
  <2>1. CASE u # t
    BY <2>1 DEF StackInv, StackShape, Enter, CallerIsInnermost, CallerAt, At, Top, Levels
  <2>2. CASE u = t
    BY <2>2 DEF StackInv, StackShape, Enter, CallerIsInnermost, CallerAt, At, Top, Levels
  <2> QED BY <2>1, <2>2
<1> QED BY <1>1, <1>2, <1>3 DEF StackInv

\* The stack keeps its shape when its innermost call moves on.
LEMMA StepShape ==
  ASSUME StackInv, NEW t \in Threads, depth[t] > 0, NEW f, IsFrame(f), Step(t, f),
         DOMAIN callingIn' = Threads
  PROVE  StackShape'
<1>1. depth' \in [Threads -> 0..MaxDepth] /\ DOMAIN frame' = Threads /\ DOMAIN callingIn' = Threads
  BY DEF StackInv, StackShape, Step, Levels
<1>2. ASSUME NEW u \in Threads
      PROVE  /\ DOMAIN frame'[u] = Levels
             /\ \A d \in Levels : IsFrame(frame'[u][d])
  <2>1. CASE u = t
    BY <2>1 DEF StackInv, StackShape, Step, Levels
  <2>2. CASE u # t
    BY <2>2 DEF StackInv, StackShape, Step, Levels
  <2> QED BY <2>1, <2>2
<1> QED BY <1>1, <1>2 DEF StackShape

\* The stack keeps its shape when its innermost call returns.
LEMMA ReturnShape ==
  ASSUME StackInv, NEW t \in Threads, depth[t] > 0, Return(t),
         DOMAIN callingIn' = Threads
  PROVE  StackShape'
<1>1. depth' \in [Threads -> 0..MaxDepth] /\ DOMAIN frame' = Threads /\ DOMAIN callingIn' = Threads
  BY DEF StackInv, StackShape, Return, Levels
<1>2. ASSUME NEW u \in Threads
      PROVE  /\ DOMAIN frame'[u] = Levels
             /\ \A d \in Levels : IsFrame(frame'[u][d])
  <2>1. CASE u = t
    BY <2>1, NoFrameIsFrame DEF StackInv, StackShape, Return, Levels
  <2>2. CASE u # t
    BY <2>2 DEF StackInv, StackShape, Return, Levels
  <2> QED BY <2>1, <2>2
<1> QED BY <1>1, <1>2 DEF StackShape

\* A call that is not running a callback, and does not start one, moves on.
LEMMA QuietStep ==
  ASSUME StackInv, NEW t \in Threads, depth[t] > 0, NEW f, IsFrame(f), Step(t, f),
         f.pc # "in_call", Top(t).pc # "in_call", UNCHANGED callingIn
  PROVE  StackInv'
<1>1. StackShape'
  BY StepShape DEF StackInv, StackShape
<1>2. ASSUME NEW u \in Threads
      PROVE  RunningBelowTop(u)' /\ CallersRemembered(u)'
  <2>1. CASE u # t
    BY <2>1, <1>2 DEF StackInv, StackShape, Step, RunningBelowTop, CallersRemembered, Running, CallerAt, At, Top, Levels
  <2>2. CASE u = t
    BY <2>2, <1>2 DEF StackInv, StackShape, Step, RunningBelowTop, CallersRemembered, Running, CallerAt, At, Top, Levels, CallerIsInnermost
  <2> QED BY <2>1, <2>2
<1>3. CallerIsInnermost'
  <2> SUFFICES ASSUME NEW u \in Threads
               PROVE (callingIn[u] = CallerAt(u, IF At(u, "in_call") THEN depth[u]
                               ELSE IF depth[u] = 0 THEN 0 ELSE depth[u] - 1))'
    BY DEF CallerIsInnermost
  <2>1. CASE u # t
    BY <2>1 DEF StackInv, StackShape, Step, CallerIsInnermost, CallerAt, At, Top, Levels
  <2>2. CASE u = t
    BY <2>2 DEF StackInv, StackShape, Step, RunningBelowTop, CallersRemembered, Running, CallerAt, At, Top, Levels, CallerIsInnermost
  <2> QED BY <2>1, <2>2
<1> QED BY <1>1, <1>2, <1>3 DEF StackInv

\* A call starts its callback and remembers the id below it.
LEMMA StartStep ==
  ASSUME StackInv, NEW t \in Threads, depth[t] > 0, NEW f, IsFrame(f), Step(t, f),
         f.pc = "in_call", Top(t).pc # "in_call", f.last = callingIn[t],
         callingIn' = [callingIn EXCEPT ![t] = f.id]
  PROVE  StackInv'
<1>1. StackShape'
  BY StepShape DEF StackInv, StackShape
<1>2. ASSUME NEW u \in Threads
      PROVE  RunningBelowTop(u)' /\ CallersRemembered(u)'
  <2>1. CASE u # t
    BY <2>1, <1>2 DEF StackInv, StackShape, Step, RunningBelowTop, CallersRemembered, Running, CallerAt, At, Top, Levels
  <2>2. CASE u = t
    BY <2>2, <1>2 DEF StackInv, StackShape, Step, RunningBelowTop, CallersRemembered, Running, CallerAt, At, Top, Levels, CallerIsInnermost
  <2> QED BY <2>1, <2>2
<1>3. CallerIsInnermost'
  <2> SUFFICES ASSUME NEW u \in Threads
               PROVE (callingIn[u] = CallerAt(u, IF At(u, "in_call") THEN depth[u]
                               ELSE IF depth[u] = 0 THEN 0 ELSE depth[u] - 1))'
    BY DEF CallerIsInnermost
  <2>1. CASE u # t
    BY <2>1 DEF StackInv, StackShape, Step, CallerIsInnermost, CallerAt, At, Top, Levels
  <2>2. CASE u = t
    BY <2>2 DEF StackInv, StackShape, Step, RunningBelowTop, CallersRemembered, Running, CallerAt, At, Top, Levels, CallerIsInnermost
  <2> QED BY <2>1, <2>2
<1> QED BY <1>1, <1>2, <1>3 DEF StackInv

\* A callback returns and the id below it is restored.
LEMMA EndStep ==
  ASSUME StackInv, NEW t \in Threads, depth[t] > 0, NEW f, IsFrame(f), Step(t, f),
         f.pc # "in_call", Top(t).pc = "in_call",
         callingIn' = [callingIn EXCEPT ![t] = Top(t).last]
  PROVE  StackInv'
<1>1. StackShape'
  BY StepShape DEF StackInv, StackShape
<1>2. ASSUME NEW u \in Threads
      PROVE  RunningBelowTop(u)' /\ CallersRemembered(u)'
  <2>1. CASE u # t
    BY <2>1, <1>2 DEF StackInv, StackShape, Step, RunningBelowTop, CallersRemembered, Running, CallerAt, At, Top, Levels
  <2>2. CASE u = t
    BY <2>2, <1>2 DEF StackInv, StackShape, Step, RunningBelowTop, CallersRemembered, Running, CallerAt, At, Top, Levels, CallerIsInnermost
  <2> QED BY <2>1, <2>2
<1>3. CallerIsInnermost'
  <2> SUFFICES ASSUME NEW u \in Threads
               PROVE (callingIn[u] = CallerAt(u, IF At(u, "in_call") THEN depth[u]
                               ELSE IF depth[u] = 0 THEN 0 ELSE depth[u] - 1))'
    BY DEF CallerIsInnermost
  <2>1. CASE u # t
    BY <2>1 DEF StackInv, StackShape, Step, CallerIsInnermost, CallerAt, At, Top, Levels
  <2>2. CASE u = t
    BY <2>2 DEF StackInv, StackShape, Step, RunningBelowTop, CallersRemembered, Running, CallerAt, At, Top, Levels, CallerIsInnermost
  <2> QED BY <2>1, <2>2
<1> QED BY <1>1, <1>2, <1>3 DEF StackInv

\* A call that is not running a callback returns.
LEMMA ReturnStep ==
  ASSUME StackInv, NEW t \in Threads, depth[t] > 0, Return(t),
         Top(t).pc # "in_call", UNCHANGED callingIn
  PROVE  StackInv'
<1>1. StackShape'
  BY ReturnShape DEF StackInv, StackShape
<1>2. ASSUME NEW u \in Threads
      PROVE  RunningBelowTop(u)' /\ CallersRemembered(u)'
  <2>1. CASE u # t
    BY <2>1, <1>2 DEF StackInv, StackShape, Return, RunningBelowTop, CallersRemembered, Running, CallerAt, At, Top, Levels
  <2>2. CASE u = t
    <3>1. RunningBelowTop(t)'
      BY DEF StackInv, StackShape, Return, RunningBelowTop, Levels
    <3>2. CallersRemembered(t)'
      BY NoFrameIsFrame DEF StackInv, StackShape, Return, CallersRemembered, Running, CallerAt, Levels
    <3> QED BY <2>2, <3>1, <3>2
  <2> QED BY <2>1, <2>2
<1>3. CallerIsInnermost'
  <2> SUFFICES ASSUME NEW u \in Threads
               PROVE (callingIn[u] = CallerAt(u, IF At(u, "in_call") THEN depth[u]
                               ELSE IF depth[u] = 0 THEN 0 ELSE depth[u] - 1))'
    BY DEF CallerIsInnermost
  <2>1. CASE u # t
    BY <2>1 DEF StackInv, StackShape, Return, CallerIsInnermost, CallerAt, At, Top, Levels
  <2>2. CASE u = t
    <3>1. depth[t] \in Nat /\ depth[t] \in Levels /\ depth'[t] = depth[t] - 1
      BY DEF StackInv, StackShape, Return, Levels
    <3>2. ~At(t, "in_call") /\ callingIn[t] = CallerAt(t, depth[t] - 1)
      BY <3>1 DEF StackInv, CallerIsInnermost, At
    <3>3. CASE depth[t] = 1
      BY <2>2, <3>1, <3>2, <3>3 DEF CallerAt, At
    <3>4. CASE depth[t] > 1
      <4>1. depth[t] - 1 \in Levels
        BY <3>1, <3>4 DEF Levels
      <4>2. frame'[t][depth[t] - 1] = frame[t][depth[t] - 1]
        BY <3>1, <4>1 DEF StackInv, StackShape, Return
      <4>3. At(t, "in_call")'
        BY <3>1, <3>4, <4>1, <4>2 DEF StackInv, RunningBelowTop, At, Top
      <4> QED BY <2>2, <3>1, <3>2, <3>4, <4>2, <4>3 DEF CallerAt
    <3> QED BY <3>1, <3>3, <3>4
  <2> QED BY <2>1, <2>2
<1> QED BY <1>1, <1>2, <1>3 DEF StackInv

\* A callback's exception leaves its call.
LEMMA ThrowStep ==
  ASSUME StackInv, NEW t \in Threads, depth[t] > 0, Return(t),
         Top(t).pc = "in_call", callingIn' = [callingIn EXCEPT ![t] = Top(t).last]
  PROVE  StackInv'
<1>1. StackShape'
  BY ReturnShape DEF StackInv, StackShape
<1>2. ASSUME NEW u \in Threads
      PROVE  RunningBelowTop(u)' /\ CallersRemembered(u)'
  <2>1. CASE u # t
    BY <2>1, <1>2 DEF StackInv, StackShape, Return, RunningBelowTop, CallersRemembered, Running, CallerAt, At, Top, Levels
  <2>2. CASE u = t
    <3>1. RunningBelowTop(t)'
      BY DEF StackInv, StackShape, Return, RunningBelowTop, Levels
    <3>2. CallersRemembered(t)'
      BY NoFrameIsFrame DEF StackInv, StackShape, Return, CallersRemembered, Running, CallerAt, Levels
    <3> QED BY <2>2, <3>1, <3>2
  <2> QED BY <2>1, <2>2
<1>3. CallerIsInnermost'
  <2> SUFFICES ASSUME NEW u \in Threads
               PROVE (callingIn[u] = CallerAt(u, IF At(u, "in_call") THEN depth[u]
                               ELSE IF depth[u] = 0 THEN 0 ELSE depth[u] - 1))'
    BY DEF CallerIsInnermost
  <2>1. CASE u # t
    BY <2>1 DEF StackInv, StackShape, Return, CallerIsInnermost, CallerAt, At, Top, Levels
  <2>2. CASE u = t
    <3>1. frame[t][depth[t]].last = CallerAt(t, depth[t] - 1)
      BY DEF StackInv, StackShape, CallersRemembered, Running, Top, Levels
    <3>2. callingIn'[t] = CallerAt(t, depth[t] - 1)
      BY <3>1 DEF StackInv, StackShape, Top
    <3>3. CASE depth[t] = 1
      BY <2>2, <3>2, <3>3 DEF StackInv, StackShape, Return, CallerAt, At, Levels
    <3>4. CASE depth[t] > 1
      <4>1. depth'[t] = depth[t] - 1 /\ depth[t] - 1 \in Levels
        BY <3>4 DEF StackInv, StackShape, Return, Levels
      <4>2. frame'[t][depth[t] - 1] = frame[t][depth[t] - 1]
        BY <3>4 DEF StackInv, StackShape, Return, Levels
      <4>3. frame[t][depth[t] - 1].pc = "in_call"
        BY <3>4, <4>1 DEF StackInv, RunningBelowTop, StackShape
      <4> QED BY <2>2, <3>2, <3>4, <4>1, <4>2, <4>3 DEF StackInv, StackShape, CallerAt, At, Top
    <3> QED BY <3>3, <3>4 DEF StackInv, StackShape
  <2> QED BY <2>1, <2>2
<1> QED BY <1>1, <1>2, <1>3 DEF StackInv

\* A step that leaves the stacks alone.
LEMMA QuietQueue ==
  ASSUME StackInv, UNCHANGED <<depth, frame, callingIn>>
  PROVE  StackInv'
BY DEF StackInv, StackShape, RunningBelowTop, CallersRemembered, Running, CallerAt,
       CallerIsInnermost, At, Top

\* The innermost frame of a non-empty stack is a frame.
LEMMA TopIsFrame ==
  ASSUME StackInv, NEW t \in Threads, depth[t] > 0
  PROVE  IsFrame(Top(t))
BY DEF StackInv, StackShape, Top, Levels

\* callOneCB has returned, and its caller goes on.
LEMMA AfterCallFrame ==
  ASSUME NEW t \in Threads, AfterCall(t)
  PROVE  \E f : IsFrame(f) /\ f.pc \in {"lookup", "account"} /\ Step(t, f)
<1> DEFINE f == [NoFrame EXCEPT
             !.op = Top(t).op,
             !.called = Top(t).called + 1,
             !.pc = IF Top(t).op = "callAvailable" /\ tls'[t] # <<>>
                    THEN "lookup" ELSE "account"]
<1>1. IsFrame(f) /\ f.pc \in {"lookup", "account"}
  BY DEF IsFrame, FrameFields, NoFrame
<1>2. Step(t, f)
  BY DEF AfterCall
<1> QED BY <1>1, <1>2

\* The stacks of a new queue.
LEMMA InitStack == Init => StackInv
<1> SUFFICES ASSUME Init PROVE StackInv
  OBVIOUS
<1>1. StackShape
  BY NoFrameIsFrame DEF Init, StackShape
<1>2. \A t \in Threads : RunningBelowTop(t) /\ CallersRemembered(t)
  BY DEF Init, RunningBelowTop, CallersRemembered, Running, Levels
<1>3. CallerIsInnermost
  BY DEF Init, CallerIsInnermost, CallerAt, At
<1> QED BY <1>1, <1>2, <1>3 DEF StackInv

\* Every step of every thread preserves StackInv.
LEMMA NextStack == StackInv /\ [Next]_vars => StackInv'
<1> SUFFICES ASSUME StackInv, [Next]_vars PROVE StackInv'
  OBVIOUS
<1>1. CASE UNCHANGED vars
  BY <1>1, QuietQueue DEF vars
<1>2. ASSUME NEW t \in Threads, Enable(t) \/ Disable(t) \/ Clear(t)
      PROVE  StackInv'
  BY <1>2, QuietQueue DEF Enable, Disable, Clear, threadvars
<1>3. ASSUME NEW t \in Threads, NEW id \in Ids, AddCallback(t, id)
      PROVE  StackInv'
  <2> DEFINE f == [NoFrame EXCEPT !.op = "addCallback", !.pc = "push",
                     !.info = [cb |-> added + 1, id |-> id, marked |-> FALSE]]
  <2>1. IsFrame(f) /\ f.pc # "in_call"
    BY DEF IsFrame, FrameFields, NoFrame
  <2>2. Enter(t, f) /\ UNCHANGED callingIn /\ (depth[t] = 0 \/ At(t, "in_call"))
    BY <1>3 DEF AddCallback, MayCall
  <2> HIDE DEF f
  <2> QED BY <2>1, <2>2, EnterStep
<1>4. ASSUME NEW t \in Threads, NEW id \in Ids, RemoveByID(t, id)
      PROVE  StackInv'
  <2> DEFINE f == [NoFrame EXCEPT !.op = "removeByID", !.pc = "lock_unique",
                     !.id = id, !.obj = idInfo[id], !.own = (callingIn[t] = id)]
  <2>1. IsFrame(f) /\ f.pc # "in_call"
    BY DEF IsFrame, FrameFields, NoFrame
  <2>2. Enter(t, f) /\ UNCHANGED callingIn /\ (depth[t] = 0 \/ At(t, "in_call"))
    BY <1>4 DEF RemoveByID, MayCall
  <2> HIDE DEF f
  <2> QED BY <2>1, <2>2, EnterStep
<1>5. ASSUME NEW t \in Threads, NEW op, CallBegin(t, op)
      PROVE  StackInv'
  <2> DEFINE f(pc) == [NoFrame EXCEPT !.op = op, !.pc = pc]
  <2>1. /\ IsFrame(f("wait")) /\ f("wait").pc # "in_call"
        /\ IsFrame(f("lookup")) /\ f("lookup").pc # "in_call"
    BY DEF IsFrame, FrameFields, NoFrame
  <2>2. UNCHANGED callingIn /\ (depth[t] = 0 \/ At(t, "in_call"))
    BY <1>5 DEF CallBegin, MayCall
  <2>3. Enter(t, f("wait")) \/ Enter(t, f("lookup"))
    BY <1>5 DEF CallBegin
  <2> HIDE DEF f
  <2> QED BY <2>1, <2>2, <2>3, EnterStep
<1>6. ASSUME NEW t \in Threads, AddPush(t) \/ Account(t) \/ RemoveErase(t)
      PROVE  StackInv'
  <2>1. depth[t] > 0 /\ Top(t).pc # "in_call" /\ Return(t) /\ UNCHANGED callingIn
    BY <1>6 DEF AddPush, Account, RemoveErase, At
  <2> QED BY <2>1, ReturnStep
<1>7. ASSUME NEW t \in Threads, CallWake(t)
      PROVE  StackInv'
  <2>1. depth[t] > 0 /\ Top(t).pc # "in_call" /\ UNCHANGED callingIn
    BY <1>7 DEF CallWake, At
  <2>2. CASE Return(t)
    BY <2>1, <2>2, ReturnStep
  <2>3. CASE Step(t, [Top(t) EXCEPT !.pc = "lookup"])
    <3> DEFINE f == [Top(t) EXCEPT !.pc = "lookup"]
    <3>1. IsFrame(f) /\ f.pc # "in_call"
      BY <2>1, TopIsFrame DEF IsFrame, FrameFields
    <3> HIDE DEF f
    <3> QED BY <2>1, <2>3, <3>1, QuietStep DEF f
  <2> QED BY <1>7, <2>2, <2>3 DEF CallWake
<1>8. ASSUME NEW t \in Threads, Lookup(t)
      PROVE  StackInv'
  <2>1. depth[t] > 0 /\ Top(t).pc # "in_call" /\ UNCHANGED callingIn
    BY <1>8 DEF Lookup, At
  <2>2. CASE AfterCall(t)
    BY <2>1, <2>2, AfterCallFrame, QuietStep
  <2>3. CASE ~AfterCall(t)
    <3> DEFINE info == Head(tls[t])
               f == [Top(t) EXCEPT !.pc = "lock_shared", !.info = info,
                                   !.id = info.id, !.obj = idInfo[info.id]]
    <3>1. Step(t, f)
      BY <1>8, <2>3 DEF Lookup
    <3>2. IsFrame(f) /\ f.pc # "in_call"
      BY <2>1, TopIsFrame DEF IsFrame, FrameFields
    <3> HIDE DEF f
    <3> QED BY <2>1, <3>1, <3>2, QuietStep
  <2> QED BY <2>2, <2>3
<1>9. ASSUME NEW t \in Threads, StartCall(t)
      PROVE  StackInv'
  <2>1. depth[t] > 0 /\ Top(t).pc # "in_call"
    BY <1>9 DEF StartCall, At
  <2>2. CASE Top(t).info.marked
    BY <1>9, <2>1, <2>2, AfterCallFrame, QuietStep DEF StartCall
  <2>3. CASE ~Top(t).info.marked
    <3> DEFINE f == [Top(t) EXCEPT !.pc = "in_call", !.last = callingIn[t]]
    <3>1. Step(t, f) /\ callingIn' = [callingIn EXCEPT ![t] = Top(t).id]
      BY <1>9, <2>3 DEF StartCall
    <3>2. IsFrame(f) /\ f.pc = "in_call" /\ f.last = callingIn[t] /\ f.id = Top(t).id
      BY <2>1, TopIsFrame DEF IsFrame, FrameFields
    <3> HIDE DEF f
    <3> QED BY <2>1, <3>1, <3>2, StartStep
  <2> QED BY <2>2, <2>3
<1>10. ASSUME NEW t \in Threads, NEW r, EndCall(t, r)
       PROVE  StackInv'
  <2>1. /\ depth[t] > 0 /\ Top(t).pc = "in_call" /\ AfterCall(t)
        /\ callingIn' = [callingIn EXCEPT ![t] = Top(t).last]
    BY <1>10 DEF EndCall, At
  <2> QED BY <2>1, AfterCallFrame, EndStep
<1>11. ASSUME NEW t \in Threads, ThrowCall(t)
       PROVE  StackInv'
  <2>1. /\ depth[t] > 0 /\ Top(t).pc = "in_call" /\ Return(t)
        /\ callingIn' = [callingIn EXCEPT ![t] = Top(t).last]
    BY <1>11 DEF ThrowCall, At
  <2> QED BY <2>1, ThrowStep
<1>12. ASSUME NEW t \in Threads, RemoveQueued(t) \/ RemoveRelock(t)
       PROVE  StackInv'
  <2>1. depth[t] > 0 /\ Top(t).pc # "in_call" /\ UNCHANGED callingIn
    BY <1>12 DEF RemoveQueued, RemoveRelock, At
  <2> DEFINE f(pc) == [Top(t) EXCEPT !.pc = pc]
  <2>2. /\ IsFrame(f("relock")) /\ f("relock").pc # "in_call"
        /\ IsFrame(f("erase")) /\ f("erase").pc # "in_call"
    BY <2>1, TopIsFrame DEF IsFrame, FrameFields
  <2>3. Step(t, f("relock")) \/ Step(t, f("erase")) \/ UNCHANGED <<depth, frame>>
    BY <1>12 DEF RemoveQueued, RemoveRelock
  <2> HIDE DEF f
  <2> QED BY <2>1, <2>2, <2>3, QuietStep, QuietQueue
<1> QED
  BY <1>1, <1>2, <1>3, <1>4, <1>5, <1>6, <1>7, <1>8, <1>9, <1>10, <1>11, <1>12
  DEF Next, CallOne, CallAvailable

\* The call stack of every thread keeps its shape, and calling_in_this_thread and
\* the last_calling locals of callOneCB agree with it, whatever the callbacks do.
THEOREM StackCorrect == Spec => []StackInv
BY InitStack, NextStack, PTL DEF Spec

\* removeByID's test calling_in_this_thread == id is exact for the innermost
\* callback: the thread-local id always names it, after exceptions too.
THEOREM CallerCorrect == Spec => []CallerIsInnermost
<1>1. StackInv => CallerIsInnermost
  BY DEF StackInv
<1> QED BY <1>1, StackCorrect, PTL

-----------------------------------------------------------------------------
(***************************************************************************)
(* The reader/writer lock of an id counts the calls in progress.  Every    *)
(* step changes one stack at its top, so the two sets that are counted     *)
(* change by one element at most, and the lemmas below say by which.  The  *)
(* invariant adds that a call about to take its lock back gave one up.     *)
(***************************************************************************)
One(b) == IF b THEN 1 ELSE 0

\* A frame holds the shared lock of IDInfo o of id i, or has given it up.
Hold(f, i, o) == f.pc = "in_call" /\ f.id = i /\ f.obj = o
GaveUp(f, i, o) ==
  f.own /\ f.pc \in {"lock_unique", "relock"} /\ f.id = i /\ f.obj = o

RelockOwns == \A t \in Threads : At(t, "relock") => Top(t).own

LockInv ==
  /\ StackInv
  /\ shared \in [Ids -> [Infos -> Int]]
  /\ RelockOwns
  /\ LockCountsCalls

\* Sets that differ in one element at most differ in size by that element.
LEMMA OneDiffers ==
  ASSUME NEW S, NEW T, NEW x, IsFiniteSet(S), IsFiniteSet(T), S \ {x} = T \ {x}
  PROVE  Cardinality(T) = Cardinality(S) + One(x \in T) - One(x \in S)
<1>1. /\ Cardinality(S) \in Nat /\ Cardinality(T) \in Nat
      /\ Cardinality(S \ {x}) = IF x \in S THEN Cardinality(S) - 1 ELSE Cardinality(S)
      /\ Cardinality(T \ {x}) = IF x \in T THEN Cardinality(T) - 1 ELSE Cardinality(T)
  BY FS_RemoveElement, FS_CardinalityType
<1> QED BY <1>1 DEF One

\* The calls that are counted are finitely many.
LEMMA CountedFinite ==
  ASSUME NEW i, NEW o
  PROVE  /\ IsFiniteSet(Holders(i, o)) /\ IsFiniteSet(Suspended(i, o))
         /\ IsFiniteSet(Holders(i, o)') /\ IsFiniteSet(Suspended(i, o)')
<1>1. IsFiniteSet(Levels)
  BY FS_Interval DEF Levels
<1>2. IsFiniteSet(Threads \X Levels)
  BY <1>1, FS_Product
<1>3. /\ Holders(i, o) \subseteq Threads \X Levels /\ Suspended(i, o) \subseteq Threads
      /\ Holders(i, o)' \subseteq Threads \X Levels /\ Suspended(i, o)' \subseteq Threads
  BY DEF Holders, Suspended
<1> QED BY <1>2, <1>3, FS_Subset

\* The counts after the innermost call of a stack has moved on.
LEMMA StepCounts ==
  ASSUME StackInv, NEW t \in Threads, depth[t] > 0, NEW f, Step(t, f), NEW i, NEW o
  PROVE  /\ Cardinality(Holders(i, o)')
              = Cardinality(Holders(i, o)) + One(Hold(f, i, o)) - One(Hold(Top(t), i, o))
         /\ Cardinality(Suspended(i, o)')
              = Cardinality(Suspended(i, o)) + One(GaveUp(f, i, o)) - One(GaveUp(Top(t), i, o))
<1> DEFINE p == <<t, depth[t]>>
<1>1. depth[t] \in Levels /\ depth' = depth
  BY DEF StackInv, StackShape, Step, Levels
<1>2. /\ frame'[t][depth[t]] = f
      /\ \A u \in Threads, d \in Levels : <<u, d>> # p => frame'[u][d] = frame[u][d]
  BY <1>1 DEF StackInv, StackShape, Step
<1>3. Holders(i, o)' \ {p} = Holders(i, o) \ {p}
  BY <1>1, <1>2 DEF Holders, Running
<1>4. /\ (p \in Holders(i, o)') = Hold(f, i, o)
      /\ (p \in Holders(i, o)) = Hold(Top(t), i, o)
  BY <1>1, <1>2 DEF Holders, Running, Hold, Top, StackInv, StackShape
<1>5. Suspended(i, o)' \ {t} = Suspended(i, o) \ {t}
  BY <1>1, <1>2 DEF Suspended, Top, StackInv, StackShape, Levels
<1>6. /\ (t \in Suspended(i, o)') = GaveUp(f, i, o)
      /\ (t \in Suspended(i, o)) = GaveUp(Top(t), i, o)
  BY <1>1, <1>2 DEF Suspended, GaveUp, Top
<1> HIDE DEF p
<1> QED BY <1>3, <1>4, <1>5, <1>6, OneDiffers, CountedFinite

\* The counts after the innermost call of a stack has returned.
LEMMA ReturnCounts ==
  ASSUME StackInv, NEW t \in Threads, depth[t] > 0, Return(t), NEW i, NEW o
  PROVE  /\ Cardinality(Holders(i, o)') = Cardinality(Holders(i, o)) - One(Hold(Top(t), i, o))
         /\ Cardinality(Suspended(i, o)') = Cardinality(Suspended(i, o)) - One(GaveUp(Top(t), i, o))
<1> DEFINE p == <<t, depth[t]>>
<1>1. depth[t] \in Levels /\ depth[t] \in Nat /\ depth'[t] = depth[t] - 1
      /\ \A u \in Threads : u # t => depth'[u] = depth[u]
  BY DEF StackInv, StackShape, Return, Levels
<1>2. \A u \in Threads, d \in Levels : <<u, d>> # p => frame'[u][d] = frame[u][d]
  BY <1>1 DEF StackInv, StackShape, Return
<1>3. Holders(i, o)' \ {p} = Holders(i, o) \ {p}
  BY <1>1, <1>2 DEF Holders, Running, Levels
<1>4. /\ p \notin Holders(i, o)'
      /\ (p \in Holders(i, o)) = Hold(Top(t), i, o)
  BY <1>1 DEF Holders, Running, Hold, Top
<1>5. Suspended(i, o)' \ {t} = Suspended(i, o) \ {t}
  <2>1. ASSUME NEW u \in Threads, u # t, depth[u] > 0
        PROVE  depth[u] \in Levels /\ Top(u)' = Top(u)
    BY <2>1, <1>1, <1>2 DEF Top, StackInv, StackShape, Levels
  <2> QED BY <1>1, <2>1 DEF Suspended
<1>6. t \notin Suspended(i, o)'
  <2>1. CASE depth[t] = 1
    BY <1>1, <2>1 DEF Suspended
  <2>2. CASE depth[t] > 1
    <3>1. depth[t] - 1 \in Levels
      BY <1>1, <2>2 DEF Levels
    <3>2. frame'[t][depth'[t]].pc = "in_call"
      BY <1>1, <1>2, <3>1 DEF StackInv, RunningBelowTop
    <3> QED BY <3>2 DEF Suspended, Top
  <2> QED BY <1>1, <2>1, <2>2
<1>7. (t \in Suspended(i, o)) = GaveUp(Top(t), i, o)
  BY DEF Suspended, GaveUp, Top
<1> HIDE DEF p
<1>8. /\ Cardinality(Holders(i, o)) \in Nat /\ Cardinality(Suspended(i, o)) \in Nat
  BY CountedFinite, FS_CardinalityType
<1>9. Cardinality(Holders(i, o)')
        = Cardinality(Holders(i, o)) + One(p \in Holders(i, o)') - One(p \in Holders(i, o))
  BY <1>3, OneDiffers, CountedFinite
<1>10. Cardinality(Suspended(i, o)')
         = Cardinality(Suspended(i, o)) + One(t \in Suspended(i, o)') - One(t \in Suspended(i, o))
  BY <1>5, OneDiffers, CountedFinite
<1>11. One(p \in Holders(i, o)') = 0 /\ One(t \in Suspended(i, o)') = 0
  BY <1>4, <1>6 DEF One
<1>12. /\ One(p \in Holders(i, o)) = One(Hold(Top(t), i, o))
       /\ One(t \in Suspended(i, o)) = One(GaveUp(Top(t), i, o))
  BY <1>4, <1>7
<1>13. One(Hold(Top(t), i, o)) \in Int /\ One(GaveUp(Top(t), i, o)) \in Int
  BY DEF One
<1> QED BY <1>8, <1>9, <1>10, <1>11, <1>12, <1>13

\* The counts after a call has entered the queue.
LEMMA EnterCounts ==
  ASSUME StackInv, NEW t \in Threads, NEW f, f.pc # "in_call",
         depth[t] = 0 \/ At(t, "in_call"), Enter(t, f), NEW i, NEW o
  PROVE  /\ Cardinality(Holders(i, o)') = Cardinality(Holders(i, o))
         /\ Cardinality(Suspended(i, o)') = Cardinality(Suspended(i, o)) + One(GaveUp(f, i, o))
<1> DEFINE p == <<t, depth[t] + 1>>
<1>1. depth[t] + 1 \in Levels /\ depth[t] \in Nat /\ depth'[t] = depth[t] + 1
      /\ \A u \in Threads : u # t => depth'[u] = depth[u]
  BY DEF StackInv, StackShape, Enter, Levels
<1>2. /\ frame'[t][depth[t] + 1] = f
      /\ \A u \in Threads, d \in Levels : <<u, d>> # p => frame'[u][d] = frame[u][d]
  BY <1>1 DEF StackInv, StackShape, Enter
<1>3. Holders(i, o)' = Holders(i, o)
  BY <1>1, <1>2 DEF Holders, Running, Levels
<1>5. Suspended(i, o)' \ {t} = Suspended(i, o) \ {t}
  <2>1. ASSUME NEW u \in Threads, u # t, depth[u] > 0
        PROVE  depth[u] \in Levels /\ Top(u)' = Top(u)
    BY <2>1, <1>1, <1>2 DEF Top, StackInv, StackShape, Levels
  <2> QED BY <1>1, <2>1 DEF Suspended
<1>6. /\ (t \in Suspended(i, o)') = GaveUp(f, i, o)
      /\ t \notin Suspended(i, o)
  BY <1>1, <1>2 DEF Suspended, GaveUp, Top, At
<1>8. /\ Cardinality(Holders(i, o)) \in Nat /\ Cardinality(Suspended(i, o)) \in Nat
  BY CountedFinite, FS_CardinalityType
<1>9. Cardinality(Suspended(i, o)')
        = Cardinality(Suspended(i, o)) + One(t \in Suspended(i, o)') - One(t \in Suspended(i, o))
  BY <1>5, OneDiffers, CountedFinite
<1>10. One(t \in Suspended(i, o)) = 0
  BY <1>6 DEF One
<1>11. One(t \in Suspended(i, o)') = One(GaveUp(f, i, o))
  BY <1>6
<1>12. One(GaveUp(f, i, o)) \in Int
  BY DEF One
<1> QED BY <1>3, <1>8, <1>9, <1>10, <1>11, <1>12

\* What a step leaves of the locks, apart from the stacks.
LocksAgree == RelockOwns /\ LockCountsCalls

\* The innermost call moves on and the lock changes by what that call held.
LEMMA LockStep ==
  ASSUME LockInv, NEW t \in Threads, depth[t] > 0, NEW f, Step(t, f),
         f.pc = "relock" => f.own,
         \A i \in Ids, o \in Infos :
           shared'[i][o] = shared[i][o] + (One(Hold(f, i, o)) - One(Hold(Top(t), i, o)))
                             - (One(GaveUp(f, i, o)) - One(GaveUp(Top(t), i, o)))
  PROVE  LocksAgree'
<1>1. RelockOwns'
  <2> SUFFICES ASSUME NEW u \in Threads, At(u, "relock")' PROVE Top(u).own'
    BY DEF RelockOwns
  <2>1. CASE u = t
    BY <2>1 DEF LockInv, StackInv, StackShape, Step, At, Top, Levels
  <2>2. CASE u # t
    BY <2>2 DEF LockInv, RelockOwns, StackInv, StackShape, Step, At, Top, Levels
  <2> QED BY <2>1, <2>2
<1>2. ASSUME NEW i \in Ids, NEW o \in Infos
      PROVE  shared'[i][o] = Cardinality(Holders(i, o)') - Cardinality(Suspended(i, o)')
  <2>1. /\ Cardinality(Holders(i, o)) \in Int /\ Cardinality(Suspended(i, o)) \in Int
        /\ shared[i][o] = Cardinality(Holders(i, o)) - Cardinality(Suspended(i, o))
    BY CountedFinite, FS_CardinalityType DEF LockInv, LockCountsCalls
  <2>2. /\ One(Hold(f, i, o)) \in Int /\ One(Hold(Top(t), i, o)) \in Int
        /\ One(GaveUp(f, i, o)) \in Int /\ One(GaveUp(Top(t), i, o)) \in Int
    BY DEF One
  <2>3. /\ Cardinality(Holders(i, o)')
             = Cardinality(Holders(i, o)) + One(Hold(f, i, o)) - One(Hold(Top(t), i, o))
        /\ Cardinality(Suspended(i, o)')
             = Cardinality(Suspended(i, o)) + One(GaveUp(f, i, o)) - One(GaveUp(Top(t), i, o))
    BY StepCounts DEF LockInv
  <2> QED BY <2>1, <2>2, <2>3
<1> QED BY <1>1, <1>2 DEF LocksAgree, LockCountsCalls

\* The innermost call returns and releases what it held.
LEMMA LockReturn ==
  ASSUME LockInv, NEW t \in Threads, depth[t] > 0, Return(t),
         \A i \in Ids, o \in Infos :
           shared'[i][o] = shared[i][o] - One(Hold(Top(t), i, o)) + One(GaveUp(Top(t), i, o))
  PROVE  LocksAgree'
<1>1. RelockOwns'
  <2> SUFFICES ASSUME NEW u \in Threads, At(u, "relock")' PROVE Top(u).own'
    BY DEF RelockOwns
  <2>1. CASE u = t
    <3>1. /\ depth[t] \in Levels /\ depth'[t] = depth[t] - 1 /\ depth'[t] > 0
          /\ frame'[t][depth[t] - 1].pc = "relock"
      BY <2>1 DEF LockInv, StackInv, StackShape, Return, At, Top, Levels
    <3>2. frame'[t][depth[t] - 1] = frame[t][depth[t] - 1] /\ depth[t] - 1 \in Levels
      BY <3>1 DEF LockInv, StackInv, StackShape, Return, Levels
    <3>3. frame[t][depth[t] - 1].pc = "in_call"
      BY <3>1, <3>2 DEF LockInv, StackInv, RunningBelowTop, Levels
    <3> QED BY <3>1, <3>2, <3>3
  <2>2. CASE u # t
    BY <2>2 DEF LockInv, RelockOwns, StackInv, StackShape, Return, At, Top, Levels
  <2> QED BY <2>1, <2>2
<1>2. ASSUME NEW i \in Ids, NEW o \in Infos
      PROVE  shared'[i][o] = Cardinality(Holders(i, o)') - Cardinality(Suspended(i, o)')
  <2>1. /\ Cardinality(Holders(i, o)) \in Int /\ Cardinality(Suspended(i, o)) \in Int
        /\ shared[i][o] = Cardinality(Holders(i, o)) - Cardinality(Suspended(i, o))
    BY CountedFinite, FS_CardinalityType DEF LockInv, LockCountsCalls
  <2>2. One(Hold(Top(t), i, o)) \in Int /\ One(GaveUp(Top(t), i, o)) \in Int
    BY DEF One
  <2>3. /\ Cardinality(Holders(i, o)') = Cardinality(Holders(i, o)) - One(Hold(Top(t), i, o))
        /\ Cardinality(Suspended(i, o)') = Cardinality(Suspended(i, o)) - One(GaveUp(Top(t), i, o))
    BY ReturnCounts DEF LockInv
  <2> QED BY <2>1, <2>2, <2>3
<1> QED BY <1>1, <1>2 DEF LocksAgree, LockCountsCalls

\* A call enters the queue, giving up its caller's lock if it removes its id.
LEMMA LockEnter ==
  ASSUME LockInv, NEW t \in Threads, NEW f, f.pc \notin {"in_call", "relock"},
         depth[t] = 0 \/ At(t, "in_call"), Enter(t, f),
         \A i \in Ids, o \in Infos : shared'[i][o] = shared[i][o] - One(GaveUp(f, i, o))
  PROVE  LocksAgree'
<1>1. RelockOwns'
  <2> SUFFICES ASSUME NEW u \in Threads, At(u, "relock")' PROVE Top(u).own'
    BY DEF RelockOwns
  <2>1. CASE u = t
    BY <2>1 DEF LockInv, StackInv, StackShape, Enter, At, Top, Levels
  <2>2. CASE u # t
    BY <2>2 DEF LockInv, RelockOwns, StackInv, StackShape, Enter, At, Top, Levels
  <2> QED BY <2>1, <2>2
<1>2. ASSUME NEW i \in Ids, NEW o \in Infos
      PROVE  shared'[i][o] = Cardinality(Holders(i, o)') - Cardinality(Suspended(i, o)')
  <2>1. /\ Cardinality(Holders(i, o)) \in Int /\ Cardinality(Suspended(i, o)) \in Int
        /\ shared[i][o] = Cardinality(Holders(i, o)) - Cardinality(Suspended(i, o))
    BY CountedFinite, FS_CardinalityType DEF LockInv, LockCountsCalls
  <2>2. One(GaveUp(f, i, o)) \in Int
    BY DEF One
  <2>3. /\ Cardinality(Holders(i, o)') = Cardinality(Holders(i, o))
        /\ Cardinality(Suspended(i, o)') = Cardinality(Suspended(i, o)) + One(GaveUp(f, i, o))
    BY EnterCounts DEF LockInv
  <2> QED BY <2>1, <2>2, <2>3
<1> QED BY <1>1, <1>2 DEF LocksAgree, LockCountsCalls

\* A step that leaves the stacks and the locks alone.
LEMMA LockQuiet ==
  ASSUME LockInv, UNCHANGED <<depth, frame, shared>>
  PROVE  LocksAgree'
BY DEF LockInv, LocksAgree, RelockOwns, LockCountsCalls, Holders, Suspended, Running, At, Top

\* Locking and unlocking change one count by one.
LEMMA UnlockCounts ==
  ASSUME NEW id, NEW n, shared \in [Ids -> [Infos -> Int]], UnlockShared(id, n)
  PROVE  /\ shared' \in [Ids -> [Infos -> Int]]
         /\ \A i \in Ids, o \in Infos : shared'[i][o] = shared[i][o] - One(i = id /\ o = n)
<1>1. shared' = [i \in Ids |-> [o \in Infos |->
                    IF i = id /\ o = n THEN shared[i][o] - 1 ELSE shared[i][o]]]
  BY DEF UnlockShared
<1>2. shared' \in [Ids -> [Infos -> Int]]
  BY <1>1
<1>3. ASSUME NEW i \in Ids, NEW o \in Infos
      PROVE  shared'[i][o] = shared[i][o] - One(i = id /\ o = n)
  <2>1. CASE i = id /\ o = n
    BY <1>1, <2>1 DEF One
  <2>2. CASE ~(i = id /\ o = n)
    <3>1. shared'[i][o] = shared[i][o] /\ shared[i][o] \in Int
      BY <1>1, <2>2
    <3> QED BY <2>2, <3>1 DEF One
  <2> QED BY <2>1, <2>2
<1> QED BY <1>2, <1>3

\* What taking a shared lock adds to the counts.
LEMMA LockCounts ==
  ASSUME NEW id, NEW n, shared \in [Ids -> [Infos -> Int]], LockShared(id, n)
  PROVE  /\ shared' \in [Ids -> [Infos -> Int]]
         /\ \A i \in Ids, o \in Infos : shared'[i][o] = shared[i][o] + One(i = id /\ o = n)
<1>1. shared' = [i \in Ids |-> [o \in Infos |->
                    IF i = id /\ o = n THEN shared[i][o] + 1 ELSE shared[i][o]]]
  BY DEF LockShared
<1>2. shared' \in [Ids -> [Infos -> Int]]
  BY <1>1
<1>3. ASSUME NEW i \in Ids, NEW o \in Infos
      PROVE  shared'[i][o] = shared[i][o] + One(i = id /\ o = n)
  <2>1. CASE i = id /\ o = n
    BY <1>1, <2>1 DEF One
  <2>2. CASE ~(i = id /\ o = n)
    <3>1. shared'[i][o] = shared[i][o] /\ shared[i][o] \in Int
      BY <1>1, <2>2
    <3> QED BY <2>2, <3>1 DEF One
  <2> QED BY <2>1, <2>2
<1> QED BY <1>2, <1>3

\* A new queue has no call in progress.
LEMMA InitLock == Init => LockInv
<1> SUFFICES ASSUME Init PROVE LockInv
  OBVIOUS
<1>1. \A i \in Ids, o \in Infos : Holders(i, o) = {} /\ Suspended(i, o) = {}
  BY DEF Init, Holders, Suspended, Running, Levels
<1>2. LockCountsCalls
  <2>1. Cardinality({}) = 0 /\ \A i \in Ids, o \in Infos : shared[i][o] = 0
    BY FS_EmptySet DEF Init
  <2> QED BY <1>1, <2>1 DEF LockCountsCalls
<1> QED BY <1>2, InitStack DEF LockInv, RelockOwns, Init, At

\* Every step of every thread preserves LockInv.
LEMMA NextLock == LockInv /\ [Next]_vars => LockInv'
<1> SUFFICES ASSUME LockInv, [Next]_vars
             PROVE  LocksAgree' /\ shared' \in [Ids -> [Infos -> Int]]
  BY NextStack DEF LockInv, LocksAgree
<1> USE DEF LockInv
<1>0. \A i \in Ids, o \in Infos : shared[i][o] \in Int
  OBVIOUS
<1>1. CASE UNCHANGED vars
  BY <1>1, LockQuiet DEF vars
<1>2. ASSUME NEW t \in Threads, Enable(t) \/ Disable(t) \/ Clear(t)
      PROVE  LocksAgree' /\ shared' \in [Ids -> [Infos -> Int]]
  BY <1>2, LockQuiet DEF Enable, Disable, Clear, threadvars, lockvars
<1>3. ASSUME NEW t \in Threads, NEW id \in Ids, AddCallback(t, id)
      PROVE  LocksAgree' /\ shared' \in [Ids -> [Infos -> Int]]
  <2> DEFINE f == [NoFrame EXCEPT !.op = "addCallback", !.pc = "push",
                     !.info = [cb |-> added + 1, id |-> id, marked |-> FALSE]]
  <2>1. f.pc = "push"
    BY DEF NoFrame
  <2>2. Enter(t, f) /\ UNCHANGED shared /\ (depth[t] = 0 \/ At(t, "in_call"))
    BY <1>3 DEF AddCallback, MayCall
  <2> HIDE DEF f
  <2>3. \A i \in Ids, o \in Infos : shared'[i][o] = shared[i][o] - One(GaveUp(f, i, o))
    BY <1>0, <2>1, <2>2 DEF GaveUp, One
  <2> QED BY <2>1, <2>2, <2>3, LockEnter
<1>4. ASSUME NEW t \in Threads, NEW id \in Ids, RemoveByID(t, id)
      PROVE  LocksAgree' /\ shared' \in [Ids -> [Infos -> Int]]
  <2> DEFINE own == callingIn[t] = id
             f == [NoFrame EXCEPT !.op = "removeByID", !.pc = "lock_unique",
                     !.id = id, !.obj = idInfo[id], !.own = own]
  <2>1. f.pc = "lock_unique" /\ f.id = id /\ f.obj = idInfo[id] /\ f.own = own
    BY DEF NoFrame
  <2>2. Enter(t, f) /\ (depth[t] = 0 \/ At(t, "in_call"))
    BY <1>4 DEF RemoveByID, MayCall
  <2>3. CASE own
    <3>1. UnlockShared(id, idInfo[id])
      BY <1>4, <2>3 DEF RemoveByID
    <3>2. \A i, o : GaveUp(f, i, o) = (i = id /\ o = idInfo[id])
      BY <2>1, <2>3 DEF GaveUp
    <3>3. /\ shared' \in [Ids -> [Infos -> Int]]
          /\ \A i \in Ids, o \in Infos :
               shared'[i][o] = shared[i][o] - One(i = id /\ o = idInfo[id])
      BY <3>1, UnlockCounts
    <3> HIDE DEF f
    <3>4. \A i \in Ids, o \in Infos : shared'[i][o] = shared[i][o] - One(GaveUp(f, i, o))
      BY <3>2, <3>3
    <3> QED BY <2>1, <2>2, <3>3, <3>4, LockEnter
  <2>4. CASE ~own
    <3>1. UNCHANGED shared
      BY <1>4, <2>4 DEF RemoveByID
    <3>2. \A i, o : ~GaveUp(f, i, o)
      BY <2>1, <2>4 DEF GaveUp
    <3> HIDE DEF f
    <3>3. \A i \in Ids, o \in Infos : shared'[i][o] = shared[i][o] - One(GaveUp(f, i, o))
      BY <1>0, <3>1, <3>2 DEF One
    <3> QED BY <2>1, <2>2, <3>1, <3>3, LockEnter
  <2> QED BY <2>3, <2>4
<1>5. ASSUME NEW t \in Threads, NEW op, CallBegin(t, op)
      PROVE  LocksAgree' /\ shared' \in [Ids -> [Infos -> Int]]
  <2> DEFINE f(pc) == [NoFrame EXCEPT !.op = op, !.pc = pc]
  <2>1. f("wait").pc = "wait" /\ f("lookup").pc = "lookup"
    BY DEF NoFrame
  <2>2. UNCHANGED shared /\ (depth[t] = 0 \/ At(t, "in_call"))
    BY <1>5 DEF CallBegin, MayCall, lockvars
  <2>3. Enter(t, f("wait")) \/ Enter(t, f("lookup"))
    BY <1>5 DEF CallBegin
  <2> HIDE DEF f
  <2>4. ASSUME NEW g, g.pc \in {"wait", "lookup"}, Enter(t, g)
        PROVE  LocksAgree'
    <3>1. \A i \in Ids, o \in Infos : shared'[i][o] = shared[i][o] - One(GaveUp(g, i, o))
      BY <1>0, <2>2, <2>4 DEF GaveUp, One
    <3> QED BY <2>2, <2>4, <3>1, LockEnter
  <2> QED BY <2>1, <2>2, <2>3, <2>4
<1>6. ASSUME NEW t \in Threads, depth[t] > 0, Return(t), UNCHANGED shared,
             Top(t).pc \in {"push", "account", "erase", "wait"}
      PROVE  LocksAgree' /\ shared' \in [Ids -> [Infos -> Int]]
  <2>1. \A i \in Ids, o \in Infos :
          shared'[i][o] = shared[i][o] - One(Hold(Top(t), i, o)) + One(GaveUp(Top(t), i, o))
    BY <1>0, <1>6 DEF Hold, GaveUp, One
  <2> QED BY <1>6, <2>1, LockReturn
<1>7. ASSUME NEW t \in Threads, NEW f, depth[t] > 0, Step(t, f), UNCHANGED shared,
             Top(t).pc \in {"wait", "lookup", "lock_shared"},
             f.pc \in {"lookup", "account", "lock_shared"}
      PROVE  LocksAgree' /\ shared' \in [Ids -> [Infos -> Int]]
  <2>1. \A i \in Ids, o \in Infos :
          shared'[i][o] = shared[i][o] + (One(Hold(f, i, o)) - One(Hold(Top(t), i, o)))
                            - (One(GaveUp(f, i, o)) - One(GaveUp(Top(t), i, o)))
    BY <1>0, <1>7 DEF Hold, GaveUp, One
  <2> QED BY <1>7, <2>1, LockStep
<1>8. ASSUME NEW t \in Threads, AddPush(t) \/ Account(t) \/ RemoveErase(t)
      PROVE  LocksAgree' /\ shared' \in [Ids -> [Infos -> Int]]
  BY <1>6, <1>8 DEF AddPush, Account, RemoveErase, At, lockvars
<1>9. ASSUME NEW t \in Threads, CallWake(t)
      PROVE  LocksAgree' /\ shared' \in [Ids -> [Infos -> Int]]
  <2>1. depth[t] > 0 /\ Top(t).pc = "wait" /\ UNCHANGED shared
    BY <1>9 DEF CallWake, At, lockvars
  <2>2. CASE Return(t)
    BY <2>1, <2>2, <1>6
  <2>3. CASE Step(t, [Top(t) EXCEPT !.pc = "lookup"])
    <3> DEFINE f == [Top(t) EXCEPT !.pc = "lookup"]
    <3>1. f.pc = "lookup"
      BY <2>1, TopIsFrame DEF IsFrame, FrameFields
    <3> HIDE DEF f
    <3> QED BY <2>1, <2>3, <3>1, <1>7 DEF f
  <2> QED BY <1>9, <2>2, <2>3 DEF CallWake
<1>10. ASSUME NEW t \in Threads, Lookup(t)
       PROVE  LocksAgree' /\ shared' \in [Ids -> [Infos -> Int]]
  <2>1. depth[t] > 0 /\ Top(t).pc = "lookup" /\ UNCHANGED shared
    BY <1>10 DEF Lookup, At, lockvars
  <2>2. CASE AfterCall(t)
    BY <2>1, <2>2, AfterCallFrame, <1>7
  <2>3. CASE ~AfterCall(t)
    <3> DEFINE info == Head(tls[t])
               f == [Top(t) EXCEPT !.pc = "lock_shared", !.info = info,
                                   !.id = info.id, !.obj = idInfo[info.id]]
    <3>1. Step(t, f)
      BY <1>10, <2>3 DEF Lookup
    <3>2. f.pc = "lock_shared"
      BY <2>1, TopIsFrame DEF IsFrame, FrameFields
    <3> HIDE DEF f
    <3> QED BY <2>1, <3>1, <3>2, <1>7
  <2> QED BY <2>2, <2>3
<1>11. ASSUME NEW t \in Threads, StartCall(t)
       PROVE  LocksAgree' /\ shared' \in [Ids -> [Infos -> Int]]
  <2>1. depth[t] > 0 /\ Top(t).pc = "lock_shared"
    BY <1>11 DEF StartCall, At
  <2>2. CASE Top(t).info.marked
    BY <1>11, <2>1, <2>2, AfterCallFrame, <1>7 DEF StartCall
  <2>3. CASE ~Top(t).info.marked
    <3> DEFINE f == [Top(t) EXCEPT !.pc = "in_call", !.last = callingIn[t]]
    <3>1. Step(t, f) /\ LockShared(Top(t).id, Top(t).obj)
      BY <1>11, <2>3 DEF StartCall
    <3>2. f.pc = "in_call" /\ f.id = Top(t).id /\ f.obj = Top(t).obj
      BY <2>1, TopIsFrame DEF IsFrame, FrameFields
    <3> HIDE DEF f
    <3>3. /\ shared' \in [Ids -> [Infos -> Int]]
          /\ \A i \in Ids, o \in Infos :
               shared'[i][o] = shared[i][o] + One(i = Top(t).id /\ o = Top(t).obj)
      BY <3>1, LockCounts
    <3>4. \A i \in Ids, o \in Infos :
            shared'[i][o] = shared[i][o] + (One(Hold(f, i, o)) - One(Hold(Top(t), i, o)))
                              - (One(GaveUp(f, i, o)) - One(GaveUp(Top(t), i, o)))
      BY <1>0, <2>1, <3>2, <3>3 DEF Hold, GaveUp, One
    <3> QED BY <2>1, <3>1, <3>2, <3>3, <3>4, LockStep
  <2> QED BY <2>2, <2>3
<1>12. ASSUME NEW t \in Threads, NEW r, EndCall(t, r)
       PROVE  LocksAgree' /\ shared' \in [Ids -> [Infos -> Int]]
  <2>1. /\ depth[t] > 0 /\ Top(t).pc = "in_call" /\ AfterCall(t)
        /\ UnlockShared(Top(t).id, Top(t).obj)
    BY <1>12 DEF EndCall, At
  <2>2. PICK f : f.pc \in {"lookup", "account"} /\ Step(t, f)
    BY <2>1, AfterCallFrame
  <2>3. /\ shared' \in [Ids -> [Infos -> Int]]
        /\ \A i \in Ids, o \in Infos :
             shared'[i][o] = shared[i][o] - One(i = Top(t).id /\ o = Top(t).obj)
    BY <2>1, UnlockCounts
  <2>4. \A i \in Ids, o \in Infos :
          shared'[i][o] = shared[i][o] + (One(Hold(f, i, o)) - One(Hold(Top(t), i, o)))
                            - (One(GaveUp(f, i, o)) - One(GaveUp(Top(t), i, o)))
    BY <1>0, <2>1, <2>2, <2>3 DEF Hold, GaveUp, One
  <2> QED BY <2>1, <2>2, <2>3, <2>4, LockStep
<1>13. ASSUME NEW t \in Threads, ThrowCall(t)
       PROVE  LocksAgree' /\ shared' \in [Ids -> [Infos -> Int]]
  <2>1. /\ depth[t] > 0 /\ Top(t).pc = "in_call" /\ Return(t)
        /\ UnlockShared(Top(t).id, Top(t).obj)
    BY <1>13 DEF ThrowCall, At
  <2>3. /\ shared' \in [Ids -> [Infos -> Int]]
        /\ \A i \in Ids, o \in Infos :
             shared'[i][o] = shared[i][o] - One(i = Top(t).id /\ o = Top(t).obj)
    BY <2>1, UnlockCounts
  <2>4. \A i \in Ids, o \in Infos :
          shared'[i][o] = shared[i][o] - One(Hold(Top(t), i, o)) + One(GaveUp(Top(t), i, o))
    BY <1>0, <2>1, <2>3 DEF Hold, GaveUp, One
  <2> QED BY <2>1, <2>3, <2>4, LockReturn
<1>14. ASSUME NEW t \in Threads, RemoveQueued(t)
       PROVE  LocksAgree' /\ shared' \in [Ids -> [Infos -> Int]]
  <2>1. depth[t] > 0 /\ Top(t).pc = "lock_unique" /\ UNCHANGED shared
    BY <1>14 DEF RemoveQueued, At
  <2>2. CASE UNCHANGED <<depth, frame>>
    BY <2>1, <2>2, LockQuiet
  <2>3. CASE Step(t, [Top(t) EXCEPT !.pc = IF Top(t).own THEN "relock" ELSE "erase"])
    <3> DEFINE f == [Top(t) EXCEPT !.pc = IF Top(t).own THEN "relock" ELSE "erase"]
    <3>1. /\ f.pc = IF Top(t).own THEN "relock" ELSE "erase"
          /\ f.own = Top(t).own /\ f.id = Top(t).id /\ f.obj = Top(t).obj
      BY <2>1, TopIsFrame DEF IsFrame, FrameFields
    <3> HIDE DEF f
    <3>2. \A i \in Ids, o \in Infos :
            /\ ~Hold(f, i, o) /\ ~Hold(Top(t), i, o)
            /\ GaveUp(f, i, o) <=> GaveUp(Top(t), i, o)
      BY <2>1, <3>1 DEF Hold, GaveUp
    <3>3. \A i \in Ids, o \in Infos :
            shared'[i][o] = shared[i][o] + (One(Hold(f, i, o)) - One(Hold(Top(t), i, o)))
                              - (One(GaveUp(f, i, o)) - One(GaveUp(Top(t), i, o)))
      BY <1>0, <2>1, <3>2 DEF One
    <3>4. Step(t, f) /\ (f.pc = "relock" => f.own)
      BY <2>3, <3>1 DEF f
    <3> QED BY <2>1, <3>3, <3>4, LockStep
  <2> QED BY <1>14, <2>2, <2>3 DEF RemoveQueued
<1>15. ASSUME NEW t \in Threads, RemoveRelock(t)
       PROVE  LocksAgree' /\ shared' \in [Ids -> [Infos -> Int]]
  <2> DEFINE f == [Top(t) EXCEPT !.pc = "erase"]
  <2>1. /\ depth[t] > 0 /\ Top(t).pc = "relock" /\ Top(t).own /\ Step(t, f)
        /\ LockShared(Top(t).id, Top(t).obj)
    BY <1>15 DEF RemoveRelock, RelockOwns, At
  <2>2. f.pc = "erase"
    BY <2>1, TopIsFrame DEF IsFrame, FrameFields
  <2> HIDE DEF f
  <2>3. /\ shared' \in [Ids -> [Infos -> Int]]
        /\ \A i \in Ids, o \in Infos :
             shared'[i][o] = shared[i][o] + One(i = Top(t).id /\ o = Top(t).obj)
    BY <2>1, LockCounts
  <2>4. \A i \in Ids, o \in Infos :
          shared'[i][o] = shared[i][o] + (One(Hold(f, i, o)) - One(Hold(Top(t), i, o)))
                            - (One(GaveUp(f, i, o)) - One(GaveUp(Top(t), i, o)))
    BY <1>0, <2>1, <2>2, <2>3 DEF Hold, GaveUp, One
  <2> QED BY <2>1, <2>2, <2>3, <2>4, LockStep
<1> QED
  BY <1>1, <1>2, <1>3, <1>4, <1>5, <1>8, <1>9, <1>10, <1>11, <1>12, <1>13, <1>14, <1>15
  DEF Next, CallOne, CallAvailable

\* removeByID waits for the calls in progress and for nothing else: whatever the
\* threads add, call, remove and throw, and however deep their calls are nested,
\* the shared count of an id's reader/writer lock is the number of its callbacks
\* in progress less those whose own removeByID has given the lock up.
THEOREM LockCountIsExact == Spec => []LockCountsCalls
<1>1. LockInv => LockCountsCalls
  BY DEF LockInv
<1> QED BY <1>1, InitLock, NextLock, PTL DEF Spec

-----------------------------------------------------------------------------
(***************************************************************************)
(* A callback is in one place.                                             *)
(*                                                                         *)
(* OnePlace says it of any two places: entries of the queue, entries of    *)
(* the threads' lists and the calls that hold a callback.  A step that     *)
(* only drops callbacks keeps it (Fewer); the others move one callback, or *)
(* the whole queue, and each has its lemma.  That the callback a call      *)
(* starts is the head of its thread's list, and not one already marked, is *)
(* Prepared.                                                               *)
(***************************************************************************)
Smallest(S) == CHOOSE x \in S : \A y \in S : x <= y

\* A set of numbers that is not empty has a smallest one: its initial segments
\* are well-founded by inclusion.
LEMMA LeastNumber ==
  ASSUME NEW T, T \subseteq Nat, T # {}
  PROVE  Smallest(T) \in T /\ \A y \in T : Smallest(T) <= y
<1> DEFINE W == {1..n : n \in T}
           R == StrictSubsetOrdering(Nat)
<1>1. IsWellFoundedOn(R, FiniteSubsetsOf(Nat))
  BY FS_StrictSubsetOrderingWellFounded
<1>2. W \subseteq FiniteSubsetsOf(Nat) /\ W # {}
  <2>1. ASSUME NEW n \in T PROVE 1..n \in FiniteSubsetsOf(Nat)
    <3>1. n \in Int /\ 1 \in Int /\ 1..n \in SUBSET Nat
      OBVIOUS
    <3>2. IsFiniteSet(1..n)
      BY <3>1, FS_Interval
    <3> QED BY <3>1, <3>2 DEF FiniteSubsetsOf
  <2> QED BY <2>1
<1> HIDE DEF W, R
<1>3. PICK w \in W : \A v \in W : ~ (<<v, w>> \in R)
  BY <1>1, <1>2, WFMin
<1>4. PICK x \in T : w = 1..x
  BY DEF W
<1>5. ASSUME NEW y \in T, ~(x <= y) PROVE FALSE
  <2>1. 1..y \in W /\ 1..y \subseteq 1..x /\ x \in 1..x /\ x \notin 1..y
    BY <1>5 DEF W
  <2>2. <<1..y, w>> \in R
    BY <2>1, <1>4, <1>5 DEF R, StrictSubsetOrdering
  <2> QED BY <2>1, <2>2, <1>3
<1> QED BY <1>5 DEF Smallest

\* g is the function kept of OtherIds, up to n entries of the queue.
Kept(g, n, id) ==
  g = [m \in 0..n |-> IF m = 0 THEN <<>>
                      ELSE IF callbacks[m].id = id THEN g[m - 1]
                      ELSE Append(g[m - 1], callbacks[m])]

\* The recursion of OtherIds has a solution.
LEMMA KeptExists ==
  ASSUME NEW id, NEW N \in Nat
  PROVE  \E g : Kept(g, N, id)
<1> DEFINE Bad == {n \in 0..N : ~ \E g : Kept(g, n, id)}
<1>1. ASSUME Bad # {} PROVE FALSE
  <2>1. PICK n \in Bad : \A k \in Bad : n <= k
    <3>1. Bad \subseteq Nat
      OBVIOUS
    <3> HIDE DEF Bad
    <3> QED BY <1>1, <3>1, LeastNumber
  <2>2. CASE n = 0
    <3>1. Kept([m \in 0..0 |-> <<>>], 0, id)
      BY DEF Kept
    <3> QED BY <3>1, <2>2
  <2>3. CASE n # 0
    <3>1. n - 1 \in 0..N /\ n - 1 \notin Bad
      BY <2>1, <2>3
    <3>2. PICK g : Kept(g, n - 1, id)
      BY <3>1
    <3> DEFINE next(h, m) == IF callbacks[m].id = id THEN h[m - 1]
                             ELSE Append(h[m - 1], callbacks[m])
               e == [m \in 0..n |-> IF m = n THEN next(g, m) ELSE g[m]]
    <3>3. \A m \in 0 .. n - 1 : e[m] = g[m]
      OBVIOUS
    <3>4. ASSUME NEW m \in 0..n
          PROVE  e[m] = IF m = 0 THEN <<>> ELSE next(e, m)
      <4>1. CASE m = n
        BY <4>1, <3>3, <2>3, <3>1
      <4>2. CASE m # n
        <5>1. m \in 0 .. n - 1 /\ (m # 0 => m - 1 \in 0 .. n - 1)
          BY <4>2, <3>1
        <5>2. g[m] = IF m = 0 THEN <<>> ELSE next(g, m)
          BY <3>2, <5>1 DEF Kept
        <5> QED BY <5>1, <5>2, <3>3
      <4> QED BY <4>1, <4>2
    <3>5. Kept(e, n, id)
      BY <3>4 DEF Kept
    <3> QED BY <3>5
  <2> QED BY <2>2, <2>3
<1> QED BY <1>1

DistinctIn(s) == \A i, j \in DOMAIN s : s[i].cb = s[j].cb => i = j

\* What removeByID leaves of the queue are entries of it, none of them twice.
LEMMA OtherIdsKept ==
  ASSUME NEW id, callbacks \in Seq(CallbackInfo), DistinctIn(callbacks)
  PROVE  /\ OtherIds(id) \in Seq(CallbackInfo)
         /\ \A k \in DOMAIN OtherIds(id) : \E j \in DOMAIN callbacks : OtherIds(id)[k] = callbacks[j]
         /\ DistinctIn(OtherIds(id))
<1> DEFINE N == Len(callbacks)
           F == CHOOSE g : g = [m \in 0..N |-> IF m = 0 THEN <<>>
                                 ELSE IF callbacks[m].id = id THEN g[m - 1]
                                 ELSE Append(g[m - 1], callbacks[m])]
           From(s, n) == /\ s \in Seq(CallbackInfo)
                         /\ \A k \in DOMAIN s : \E j \in 1..n : s[k] = callbacks[j]
                         /\ DistinctIn(s)
           Bad == {n \in 0..N : ~From(F[n], n)}
<1>1. N \in Nat
  OBVIOUS
<1>2. \E g : g = [m \in 0..N |-> IF m = 0 THEN <<>>
                                 ELSE IF callbacks[m].id = id THEN g[m - 1]
                                 ELSE Append(g[m - 1], callbacks[m])]
  <2>1. \E g : Kept(g, N, id)
    BY <1>1, KeptExists
  <2> QED BY <2>1 DEF Kept
<1>3. F = [m \in 0..N |-> IF m = 0 THEN <<>>
                          ELSE IF callbacks[m].id = id THEN F[m - 1]
                          ELSE Append(F[m - 1], callbacks[m])]
  BY <1>2
<1>4. OtherIds(id) = F[N]
  BY DEF OtherIds
<1> HIDE DEF F
<1>5. ASSUME Bad # {} PROVE FALSE
  <2>1. PICK n \in Bad : \A k \in Bad : n <= k
    <3>1. Bad \subseteq Nat
      OBVIOUS
    <3> HIDE DEF Bad
    <3> QED BY <1>5, <3>1, LeastNumber
  <2>2. CASE n = 0
    <3>1. F[n] = <<>>
      BY <1>3, <2>2
    <3>2. From(<<>>, n)
      BY DEF DistinctIn
    <3> QED BY <3>1, <3>2, <2>1
  <2>3. CASE n # 0
    <3> DEFINE s == F[n - 1]
    <3>1. n - 1 \in 0..N /\ n \in DOMAIN callbacks /\ n \in 1..n /\ n \in Nat
      BY <1>1, <2>3
    <3>2. From(s, n - 1)
      BY <2>1, <3>1
    <3>3. F[n] = IF callbacks[n].id = id THEN s ELSE Append(s, callbacks[n])
      BY <1>3, <2>3, <3>1
    <3> HIDE DEF s
    <3>4. s \in Seq(CallbackInfo) /\ callbacks[n] \in CallbackInfo
      BY <3>1, <3>2
    <3>5. ASSUME NEW k \in DOMAIN s PROVE \E j \in 1 .. n - 1 : s[k] = callbacks[j] /\ j \in DOMAIN callbacks /\ j # n
      BY <3>1, <3>2
    <3>6. From(s, n)
      BY <3>1, <3>2, <3>5
    <3>7. From(Append(s, callbacks[n]), n)
      <4> DEFINE a == Append(s, callbacks[n])
      <4>1. /\ a \in Seq(CallbackInfo) /\ DOMAIN a = 1 .. Len(s) + 1
            /\ DOMAIN s = 1 .. Len(s) /\ Len(s) \in Nat
            /\ a[Len(s) + 1] = callbacks[n] /\ \A k \in DOMAIN s : a[k] = s[k]
        BY <3>4
      <4> HIDE DEF a
      <4>2. \A k \in DOMAIN a : k \in DOMAIN s \/ k = Len(s) + 1
        BY <4>1
      <4>3. \A k \in DOMAIN a : \E j \in 1..n : a[k] = callbacks[j]
        BY <4>1, <4>2, <3>1, <3>5
      <4>4. \A k \in DOMAIN s : s[k].cb # callbacks[n].cb
        BY <3>1, <3>5 DEF DistinctIn
      <4>5. DistinctIn(a)
        BY <4>1, <4>2, <4>4, <3>2 DEF DistinctIn
      <4> QED BY <4>1, <4>3, <4>5 DEF a
    <3>8. From(F[n], n)
      BY <3>3, <3>6, <3>7
    <3> QED BY <3>8, <2>1
  <2> QED BY <2>2, <2>3
<1>6. From(F[N], N)
  BY <1>1, <1>5
<1> QED BY <1>4, <1>6

-----------------------------------------------------------------------------
(***************************************************************************)
(* calling_ covers what is owed to it.  Every entry of a thread's list,    *)
(* every running call and every call counted but not yet accounted for is  *)
(* a unit that will be subtracted from calling_; Load counts the units of  *)
(* a list (level 0) and of a frame, and Units gathers them all.            *)
(***************************************************************************)
Weight(f) == f.called + One(f.pc = "in_call")

Stations == Threads \X (0..MaxDepth)

Load ==
  [p \in Stations |->
     IF p[2] = 0 THEN Len(tls[p[1]])
     ELSE IF p[2] <= depth[p[1]] THEN Weight(frame[p[1]][p[2]]) ELSE 0]

Units(L) == {x \in Stations \X Nat : x[2] \in 1..L[x[1]]}

Owed == Cardinality(Units(Load))

\* The units when the load of one station changes.
LEMMA OneLoad ==
  ASSUME NEW L \in [Stations -> Nat], NEW M \in [Stations -> Nat], NEW q \in Stations,
         IsFiniteSet(Units(L)), \A p \in Stations : p # q => M[p] = L[p]
  PROVE  /\ IsFiniteSet(Units(M))
         /\ Cardinality(Units(M)) = Cardinality(Units(L)) + M[q] - L[q]
<1> DEFINE X(n) == {q} \X (1..n)
           R == Units(L) \ X(L[q])
<1>1. ASSUME NEW n \in Nat PROVE IsFiniteSet(X(n)) /\ Cardinality(X(n)) = n
  <2>1. IsFiniteSet(1..n) /\ Cardinality(1..n) = n
    <3>1. 1 \in Int /\ n \in Int
      OBVIOUS
    <3>2. IsFiniteSet(1..n) /\ Cardinality(1..n) = IF 1 > n THEN 0 ELSE n - 1 + 1
      BY <3>1, FS_Interval
    <3> QED BY <3>2
  <2>2. IsFiniteSet({q}) /\ Cardinality({q}) = 1
    BY FS_Singleton
  <2>3. IsFiniteSet({q} \X (1..n)) /\ Cardinality({q} \X (1..n)) = Cardinality({q}) * Cardinality(1..n)
    BY <2>1, <2>2, FS_Product
  <2> QED BY <2>1, <2>2, <2>3
<1>2. L[q] \in Nat /\ M[q] \in Nat
  OBVIOUS
<1>3. Units(L) \cap X(L[q]) = X(L[q])
  BY <1>2 DEF Units
<1>4. Units(M) = R \cup X(M[q]) /\ R \cap X(M[q]) = {}
  <2>1. ASSUME NEW x \in Units(M) PROVE x \in R \cup X(M[q])
    BY <2>1, <1>2 DEF Units
  <2>2. ASSUME NEW x \in R PROVE x \in Units(M) /\ x \notin X(M[q])
    BY <2>2, <1>2 DEF Units
  <2>3. ASSUME NEW x \in X(M[q]) PROVE x \in Units(M)
    BY <2>3, <1>2 DEF Units
  <2> HIDE DEF R, X
  <2> QED BY <2>1, <2>2, <2>3
<1>5. /\ IsFiniteSet(R) /\ Cardinality(R) = Cardinality(Units(L)) - Cardinality(Units(L) \cap X(L[q]))
  BY FS_Difference
<1> HIDE DEF X, R
<1>6. /\ IsFiniteSet(Units(M))
      /\ Cardinality(Units(M)) = Cardinality(R) + Cardinality(X(M[q])) - Cardinality({})
  BY <1>1, <1>2, <1>4, <1>5, FS_Union
<1>7. Cardinality(Units(L)) \in Nat /\ Cardinality({}) = 0
  BY FS_CardinalityType, FS_EmptySet
<1>8. Cardinality(X(L[q])) = L[q] /\ Cardinality(X(M[q])) = M[q]
  BY <1>1, <1>2
<1>9. Cardinality(R) = Cardinality(Units(L)) - L[q]
  BY <1>3, <1>5, <1>8
<1>10. Cardinality(Units(M)) = Cardinality(R) + M[q] - 0
  BY <1>6, <1>7, <1>8
<1> QED BY <1>2, <1>6, <1>7, <1>9, <1>10

\* The units when the loads of two stations change.
LEMMA TwoLoads ==
  ASSUME NEW L \in [Stations -> Nat], NEW M \in [Stations -> Nat],
         NEW q \in Stations, NEW r \in Stations, q # r,
         IsFiniteSet(Units(L)), \A p \in Stations : p # q /\ p # r => M[p] = L[p]
  PROVE  /\ IsFiniteSet(Units(M))
         /\ Cardinality(Units(M)) = Cardinality(Units(L)) + (M[q] - L[q]) + (M[r] - L[r])
<1> DEFINE K == [L EXCEPT ![q] = M[q]]
<1>1. /\ K \in [Stations -> Nat] /\ K[q] = M[q] /\ K[r] = L[r]
      /\ \A p \in Stations : p # q => K[p] = L[p]
      /\ \A p \in Stations : p # r => M[p] = K[p]
  OBVIOUS
<1> HIDE DEF K
<1>2. /\ IsFiniteSet(Units(K))
      /\ Cardinality(Units(K)) = Cardinality(Units(L)) + K[q] - L[q]
  BY <1>1, OneLoad
<1>3. /\ IsFiniteSet(Units(M))
      /\ Cardinality(Units(M)) = Cardinality(Units(K)) + M[r] - K[r]
  BY <1>1, <1>2, OneLoad
<1>4. /\ Cardinality(Units(L)) \in Nat /\ L[q] \in Nat /\ L[r] \in Nat
      /\ M[q] \in Nat /\ M[r] \in Nat
  BY FS_CardinalityType
<1> QED BY <1>1, <1>2, <1>3, <1>4

StackTyped ==
  /\ StackInv
  /\ frame \in [Threads -> [Levels -> Frame]]
  /\ tls \in [Threads -> Seq(CallbackInfo)]

\* Loads are numbers.
LEMMA LoadType ==
  ASSUME StackTyped
  PROVE  Load \in [Stations -> Nat]
<1>1. ASSUME NEW f \in Frame PROVE Weight(f) \in Nat
  BY DEF Weight, One, Frame
<1>2. ASSUME NEW t \in Threads, NEW d \in 0..MaxDepth
      PROVE  /\ Len(tls[t]) \in Nat
             /\ d # 0 => frame[t][d] \in Frame
  <2>1. tls[t] \in Seq(CallbackInfo) /\ frame[t] \in [Levels -> Frame]
    BY DEF StackTyped
  <2>2. d # 0 => d \in Levels
    BY DEF Levels
  <2> QED BY <2>1, <2>2
<1> QED BY <1>1, <1>2 DEF Load, Stations

\* The units when one thread's list changes, and its stack at level d.
LEMMA OwedAfter ==
  ASSUME StackTyped, StackTyped', IsFiniteSet(Units(Load)), NEW t \in Threads, NEW d \in Levels,
         \A u \in Threads : u # t => tls'[u] = tls[u],
         \A u \in Threads, e \in Levels :
           <<u, e>> # <<t, d>> =>
             /\ frame'[u][e] = frame[u][e]
             /\ (e <= depth'[u]) <=> (e <= depth[u])
  PROVE  /\ IsFiniteSet(Units(Load)') /\ Owed \in Nat /\ Owed' \in Nat
         /\ Owed' = Owed + (Len(tls'[t]) - Len(tls[t]))
                         + ((IF d <= depth'[t] THEN Weight(frame'[t][d]) ELSE 0)
                              - (IF d <= depth[t] THEN Weight(frame[t][d]) ELSE 0))
<1> DEFINE q == <<t, 0>>
           r == <<t, d>>
<1>1. Load \in [Stations -> Nat] /\ Load' \in [Stations -> Nat]
  <2>1. Load \in [Stations -> Nat]
    BY LoadType
  <2>2. (Load \in [Stations -> Nat])'
    BY LoadType, PTL
  <2> QED BY <2>1, <2>2
<1>2. q \in Stations /\ r \in Stations /\ q # r
  <2>1. 0 \in 0..MaxDepth /\ d \in 0..MaxDepth /\ d # 0
    BY CallbackQueueAssumption, d \in Levels, SMT DEF Levels
  <2> QED BY <2>1 DEF Stations
<1>3. ASSUME NEW p \in Stations, p # q, p # r PROVE Load'[p] = Load[p]
  <2>1. p[1] \in Threads /\ p[2] \in 0..MaxDepth /\ p = <<p[1], p[2]>>
    BY DEF Stations
  <2>2. CASE p[2] = 0
    BY <1>3, <2>1, <2>2 DEF Load
  <2>3. CASE p[2] # 0
    <3>1. p[2] \in Levels
      BY <2>1, <2>3 DEF Levels
    <3> QED BY <1>3, <2>1, <2>3, <3>1 DEF Load
  <2> QED BY <2>2, <2>3
<1>4. /\ Load[q] = Len(tls[t]) /\ Load'[q] = Len(tls'[t])
      /\ Load[r] = IF d <= depth[t] THEN Weight(frame[t][d]) ELSE 0
      /\ Load'[r] = IF d <= depth'[t] THEN Weight(frame'[t][d]) ELSE 0
  BY <1>2 DEF Load, Levels
<1> HIDE DEF q, r
<1>5. /\ IsFiniteSet(Units(Load'))
      /\ Cardinality(Units(Load')) = Cardinality(Units(Load)) + (Load'[q] - Load[q]) + (Load'[r] - Load[r])
  BY <1>1, <1>2, <1>3, TwoLoads
<1>6. Units(Load)' = Units(Load')
  BY DEF Units, Stations
<1>7. Owed \in Nat /\ Owed' \in Nat
  BY <1>5, <1>6, FS_CardinalityType DEF Owed
<1> QED BY <1>4, <1>5, <1>6, <1>7 DEF Owed

-----------------------------------------------------------------------------
(* The places of a callback.                                               *)

Holding(t, d) == d <= depth[t] /\ frame[t][d].pc \in {"in_call", "push"}

ListsDistinct ==
  \A t, u \in Threads : \A i \in DOMAIN tls[t], j \in DOMAIN tls[u] :
    tls[t][i].cb = tls[u][j].cb => t = u /\ i = j

CallsDistinct ==
  \A t, u \in Threads, d, e \in Levels :
    Holding(t, d) /\ Holding(u, e) /\ frame[t][d].info.cb = frame[u][e].info.cb
      => t = u /\ d = e

QueueAndLists ==
  \A i \in DOMAIN callbacks, u \in Threads : \A j \in DOMAIN tls[u] :
    callbacks[i].cb # tls[u][j].cb

QueueAndCalls ==
  \A i \in DOMAIN callbacks, t \in Threads, d \in Levels :
    Holding(t, d) => callbacks[i].cb # frame[t][d].info.cb

ListsAndCalls ==
  \A u \in Threads : \A j \in DOMAIN tls[u] : \A t \in Threads, d \in Levels :
    Holding(t, d) => tls[u][j].cb # frame[t][d].info.cb

Numbered ==
  /\ \A i \in DOMAIN callbacks : callbacks[i].cb <= added
  /\ \A u \in Threads : \A j \in DOMAIN tls[u] : tls[u][j].cb <= added
  /\ \A t \in Threads, d \in Levels : Holding(t, d) => frame[t][d].info.cb <= added

OnePlace ==
  /\ DistinctIn(callbacks) /\ ListsDistinct /\ CallsDistinct
  /\ QueueAndLists /\ QueueAndCalls /\ ListsAndCalls /\ Numbered

\* What the places hold, as far as the lemmas on OnePlace need it.
PlacesTyped ==
  /\ callbacks \in Seq(CallbackInfo) /\ tls \in [Threads -> Seq(CallbackInfo)]
  /\ added \in Nat
  /\ \A t \in Threads, d \in Levels : Holding(t, d) => frame[t][d].info \in CallbackInfo

\* The numbers of the callbacks in all places.
LEMMA PlaceNumbers ==
  ASSUME PlacesTyped
  PROVE  /\ \A i \in DOMAIN callbacks : callbacks[i].cb \in Nat
         /\ \A u \in Threads : \A j \in DOMAIN tls[u] : tls[u][j].cb \in Nat
         /\ \A t \in Threads, d \in Levels : Holding(t, d) => frame[t][d].info.cb \in Nat
<1>1. \A x \in CallbackInfo : x.cb \in Nat
  BY DEF CallbackInfo, Callbacks
<1>2. \A i \in DOMAIN callbacks : callbacks[i] \in CallbackInfo
  BY DEF PlacesTyped
<1>3. \A u \in Threads : \A j \in DOMAIN tls[u] : tls[u][j] \in CallbackInfo
  BY DEF PlacesTyped
<1> QED BY <1>1, <1>2, <1>3 DEF PlacesTyped

\* A list that is a part of the old one, from its first or its second entry.
Shrinks(u) ==
  \E e \in 0..1 : \A i \in DOMAIN tls'[u] :
    i + e \in DOMAIN tls[u] /\ tls'[u][i].cb = tls[u][i + e].cb

\* The calls that hold a callback held it before.
HoldsNoMore ==
  \A t \in Threads, d \in Levels :
    Holding(t, d)' => Holding(t, d) /\ frame'[t][d].info = frame[t][d].info

\* Calls that hold no more than before hold different callbacks.
LEMMA FewerCalls ==
  ASSUME CallsDistinct, HoldsNoMore
  PROVE  CallsDistinct'
<1> SUFFICES ASSUME NEW t \in Threads, NEW u \in Threads, NEW d \in Levels, NEW e \in Levels,
                    Holding(t, d)', Holding(u, e)',
                    frame'[t][d].info.cb = frame'[u][e].info.cb
             PROVE  t = u /\ d = e
  BY DEF CallsDistinct
<1>1. /\ Holding(t, d) /\ frame'[t][d].info = frame[t][d].info
      /\ Holding(u, e) /\ frame'[u][e].info = frame[u][e].info
  BY DEF HoldsNoMore
<1> QED BY <1>1 DEF CallsDistinct

\* A step that only drops callbacks.
LEMMA Fewer ==
  ASSUME OnePlace, PlacesTyped, tls' \in [Threads -> Seq(CallbackInfo)], added' \in Nat, added <= added', DistinctIn(callbacks'),
         \A k \in DOMAIN callbacks' : \E j \in DOMAIN callbacks : callbacks'[k] = callbacks[j],
         \A u \in Threads : Shrinks(u),
         HoldsNoMore
  PROVE  OnePlace'
<1>1. ListsDistinct'
  <2> SUFFICES ASSUME NEW t \in Threads, NEW u \in Threads,
                      NEW i \in DOMAIN tls'[t], NEW j \in DOMAIN tls'[u],
                      tls'[t][i].cb = tls'[u][j].cb
               PROVE  t = u /\ i = j
    BY DEF ListsDistinct
  <2>1. PICK a \in 0..1 : \A k \in DOMAIN tls'[t] :
                            k + a \in DOMAIN tls[t] /\ tls'[t][k].cb = tls[t][k + a].cb
    BY DEF Shrinks
  <2>2. PICK b \in 0..1 : j + b \in DOMAIN tls[u] /\ tls'[u][j].cb = tls[u][j + b].cb
    BY DEF Shrinks
  <2>3. t = u
    <3>1. i + a \in DOMAIN tls[t] /\ tls[t][i + a].cb = tls[u][j + b].cb
      BY <2>1, <2>2
    <3> HIDE DEF OnePlace
    <3>2. ListsDistinct
      BY DEF OnePlace
    <3> QED BY <2>2, <3>1, <3>2 DEF ListsDistinct
  <2>4. i + a = j + a
    <3>1. j \in DOMAIN tls'[t] /\ tls'[t][i].cb = tls'[t][j].cb
      BY <2>3
    <3>2. i + a \in DOMAIN tls[t] /\ j + a \in DOMAIN tls[t] /\ tls[t][i + a].cb = tls[t][j + a].cb
      BY <2>1, <3>1
    <3>3. ListsDistinct
      BY DEF OnePlace
    <3> QED BY <3>2, <3>3 DEF ListsDistinct
  <2>5. i \in Int /\ j \in Int
    <3>1. tls'[t] \in Seq(CallbackInfo) /\ tls'[u] \in Seq(CallbackInfo)
      OBVIOUS
    <3> QED BY <3>1
  <2> QED BY <2>3, <2>4, <2>5
<1>2. ASSUME NEW u \in Threads, NEW i \in DOMAIN tls'[u]
      PROVE  \E j \in DOMAIN tls[u] : tls'[u][i].cb = tls[u][j].cb
  BY <1>2 DEF Shrinks
<1>3. CallsDistinct'
  BY FewerCalls DEF OnePlace
<1>4. QueueAndLists'
  BY <1>2 DEF OnePlace, QueueAndLists
<1>5. QueueAndCalls'
  <2> SUFFICES ASSUME NEW k \in DOMAIN callbacks', NEW t \in Threads, NEW d \in Levels, Holding(t, d)'
               PROVE  callbacks'[k].cb # frame'[t][d].info.cb
    BY DEF QueueAndCalls
  <2>1. Holding(t, d) /\ frame'[t][d].info = frame[t][d].info
    BY DEF HoldsNoMore
  <2>2. PICK j \in DOMAIN callbacks : callbacks'[k] = callbacks[j]
    OBVIOUS
  <2>3. QueueAndCalls
    BY DEF OnePlace
  <2> QED BY <2>1, <2>2, <2>3 DEF QueueAndCalls
<1>6. ListsAndCalls'
  <2> SUFFICES ASSUME NEW u \in Threads, NEW i \in DOMAIN tls'[u],
                      NEW t \in Threads, NEW d \in Levels, Holding(t, d)'
               PROVE  tls'[u][i].cb # frame'[t][d].info.cb
    BY DEF ListsAndCalls
  <2>1. Holding(t, d) /\ frame'[t][d].info = frame[t][d].info
    BY DEF HoldsNoMore
  <2>2. PICK j \in DOMAIN tls[u] : tls'[u][i].cb = tls[u][j].cb
    BY <1>2
  <2>3. ListsAndCalls
    BY DEF OnePlace
  <2> QED BY <2>1, <2>2, <2>3 DEF ListsAndCalls
<1>7. Numbered'
  <2>1. ASSUME NEW k \in DOMAIN callbacks' PROVE callbacks'[k].cb <= added'
    <3>1. PICK j \in DOMAIN callbacks : callbacks'[k] = callbacks[j]
      OBVIOUS
    <3>2. callbacks[j].cb \in Nat /\ callbacks[j].cb <= added
      BY PlaceNumbers DEF OnePlace, Numbered
    <3> QED BY <3>1, <3>2 DEF PlacesTyped
  <2>2. ASSUME NEW u \in Threads, NEW i \in DOMAIN tls'[u] PROVE tls'[u][i].cb <= added'
    <3>1. PICK j \in DOMAIN tls[u] : tls'[u][i].cb = tls[u][j].cb
      BY <1>2
    <3>2. tls[u][j].cb \in Nat /\ tls[u][j].cb <= added
      BY PlaceNumbers DEF OnePlace, Numbered
    <3> QED BY <3>1, <3>2 DEF PlacesTyped
  <2>3. ASSUME NEW t \in Threads, NEW d \in Levels, Holding(t, d)'
        PROVE  frame'[t][d].info.cb <= added'
    <3>1. Holding(t, d) /\ frame'[t][d].info = frame[t][d].info
      BY <2>3 DEF HoldsNoMore
    <3>2. frame[t][d].info.cb \in Nat /\ frame[t][d].info.cb <= added
      BY <3>1, PlaceNumbers DEF OnePlace, Numbered
    <3> QED BY <3>1, <3>2 DEF PlacesTyped
  <2> QED BY <2>1, <2>2, <2>3 DEF Numbered
<1> QED BY <1>1, <1>3, <1>4, <1>5, <1>6, <1>7 DEF OnePlace

\* addCallback: a call holds a callback that is in no place yet.
LEMMA NewHeld ==
  ASSUME OnePlace, PlacesTyped, UNCHANGED <<callbacks, tls>>, added' = added + 1,
         NEW t \in Threads, NEW d \in Levels, frame'[t][d].info.cb = added + 1,
         \A u \in Threads, e \in Levels :
           Holding(u, e)' => \/ u = t /\ e = d
                             \/ Holding(u, e) /\ frame'[u][e].info = frame[u][e].info
  PROVE  OnePlace'
<1>1. /\ \A i \in DOMAIN callbacks : callbacks[i].cb <= added /\ callbacks[i].cb \in Nat
      /\ \A u \in Threads : \A j \in DOMAIN tls[u] : tls[u][j].cb <= added /\ tls[u][j].cb \in Nat
      /\ \A u \in Threads, e \in Levels :
           Holding(u, e) => frame[u][e].info.cb <= added /\ frame[u][e].info.cb \in Nat
  BY PlaceNumbers DEF OnePlace, Numbered
<1>2. added \in Nat
  BY DEF PlacesTyped
<1>0. ASSUME NEW u \in Threads, NEW e \in Levels, Holding(u, e)', ~(u = t /\ e = d)
      PROVE  /\ Holding(u, e) /\ frame'[u][e].info = frame[u][e].info
             /\ frame'[u][e].info.cb # frame'[t][d].info.cb
  <2>1. Holding(u, e) /\ frame'[u][e].info = frame[u][e].info
    BY <1>0
  <2>2. frame[u][e].info.cb <= added /\ frame[u][e].info.cb \in Nat
    BY <1>1, <2>1
  <2> QED BY <1>2, <2>1, <2>2
<1>3. CallsDistinct'
  <2> SUFFICES ASSUME NEW v \in Threads, NEW u \in Threads, NEW c \in Levels, NEW e \in Levels,
                      Holding(v, c)', Holding(u, e)',
                      frame'[v][c].info.cb = frame'[u][e].info.cb
               PROVE  v = u /\ c = e
    BY DEF CallsDistinct
  <2>1. CASE v = t /\ c = d
    BY <1>0, <2>1
  <2>2. CASE ~(v = t /\ c = d) /\ u = t /\ e = d
    BY <1>0, <2>2
  <2>3. CASE ~(v = t /\ c = d) /\ ~(u = t /\ e = d)
    <3>1. /\ Holding(v, c) /\ frame'[v][c].info = frame[v][c].info
          /\ Holding(u, e) /\ frame'[u][e].info = frame[u][e].info
      BY <1>0, <2>3
    <3>2. CallsDistinct
      BY DEF OnePlace
    <3> QED BY <3>1, <3>2 DEF CallsDistinct
  <2> QED BY <2>1, <2>2, <2>3
<1>4. ListsDistinct' /\ QueueAndLists' /\ DistinctIn(callbacks)'
  BY DEF OnePlace, ListsDistinct, QueueAndLists, DistinctIn
<1>5. QueueAndCalls'
  BY <1>1, <1>2 DEF OnePlace, QueueAndCalls
<1>6. ListsAndCalls'
  BY <1>1, <1>2 DEF OnePlace, ListsAndCalls
<1>7. Numbered'
  BY <1>1, <1>2 DEF Numbered
<1> QED BY <1>3, <1>4, <1>5, <1>6, <1>7 DEF OnePlace

\* addCallback and TryAgain: the callback of a call goes to the end of the queue.
LEMMA HeldToQueue ==
  ASSUME OnePlace, PlacesTyped, UNCHANGED <<tls, added>>,
         NEW t \in Threads, NEW d \in Levels, Holding(t, d),
         callbacks' = Append(callbacks, frame[t][d].info),
         ~Holding(t, d)', HoldsNoMore
  PROVE  OnePlace'
<1> DEFINE x == frame[t][d].info
           n == Len(callbacks)
<1>1. x \in CallbackInfo /\ callbacks \in Seq(CallbackInfo)
  BY DEF PlacesTyped
<1>2. /\ n \in Nat /\ DOMAIN callbacks = 1..n /\ DOMAIN callbacks' = 1 .. n + 1
      /\ callbacks'[n + 1] = x /\ \A k \in 1..n : callbacks'[k] = callbacks[k]
  BY <1>1
<1>3. \A k \in DOMAIN callbacks' : k = n + 1 \/ k \in DOMAIN callbacks
  BY <1>2
<1> HIDE DEF n, x
<1>4. DistinctIn(callbacks')
  <2>1. \A k \in DOMAIN callbacks : callbacks[k].cb # x.cb
    BY DEF OnePlace, QueueAndCalls, x
  <2> QED BY <1>2, <1>3, <2>1 DEF OnePlace, DistinctIn
<1>5. QueueAndLists'
  <2>1. \A u \in Threads : \A j \in DOMAIN tls[u] : tls[u][j].cb # x.cb
    BY DEF OnePlace, ListsAndCalls, x
  <2> QED BY <1>2, <1>3, <2>1 DEF OnePlace, QueueAndLists
<1>6. QueueAndCalls'
  <2>1. \A u \in Threads, e \in Levels : Holding(u, e)' => frame'[u][e].info.cb # x.cb
    BY DEF OnePlace, CallsDistinct, x, HoldsNoMore
  <2> QED BY <1>2, <1>3, <2>1 DEF OnePlace, QueueAndCalls, HoldsNoMore
<1>7. ListsDistinct' /\ CallsDistinct' /\ ListsAndCalls'
  <2>1. ListsDistinct'
    BY DEF OnePlace, ListsDistinct
  <2>2. CallsDistinct'
    BY FewerCalls DEF OnePlace
  <2>3. ListsAndCalls'
    BY DEF OnePlace, ListsAndCalls, HoldsNoMore
  <2> QED BY <2>1, <2>2, <2>3
<1>8. Numbered'
  BY <1>2, <1>3 DEF OnePlace, Numbered, HoldsNoMore, x
<1> QED BY <1>4, <1>5, <1>6, <1>7, <1>8 DEF OnePlace, DistinctIn

\* The first k entries of the queue go to the list of thread t.
Takes(t, k) ==
  /\ \A u \in Threads : u # t => tls'[u] = tls[u]
  /\ DOMAIN tls'[t] = 1 .. Len(tls[t]) + k
  /\ \A i \in 1..Len(tls[t]) : tls'[t][i] = tls[t][i]
  /\ \A i \in 1..k : tls'[t][Len(tls[t]) + i] = callbacks[i]
  /\ DOMAIN callbacks' = 1 .. Len(callbacks) - k
  /\ \A i \in 1 .. Len(callbacks) - k : callbacks'[i] = callbacks[i + k]

\* callOne and callAvailable: a part of the queue goes to a list.
LEMMA QueueToList ==
  ASSUME OnePlace, PlacesTyped, UNCHANGED added, HoldsNoMore,
         NEW t \in Threads, NEW k \in 0..Len(callbacks), Takes(t, k)
  PROVE  OnePlace'
<1> USE DEF Takes
<1> DEFINE m == Len(tls[t])
           n == Len(callbacks)
<1>1. /\ n \in Nat /\ DOMAIN callbacks = 1..n
      /\ m \in Nat /\ DOMAIN tls[t] = 1..m /\ k \in Nat /\ k <= n
  BY DEF PlacesTyped
<1> HIDE DEF m, n
\* Where an entry of a list, or of the queue, was before.
<1>2. ASSUME NEW i \in DOMAIN tls'[t]
      PROVE  /\ i \in Nat
             /\ \/ i \in DOMAIN tls[t] /\ tls'[t][i] = tls[t][i]
                \/ i - m \in 1..k /\ i - m \in DOMAIN callbacks /\ tls'[t][i] = callbacks[i - m]
  <2>1. i \in 1 .. m + k
    BY DEF m
  <2>2. CASE i <= m
    BY <1>1, <2>1, <2>2 DEF m
  <2>3. CASE i > m
    <3>1. i - m \in 1..k /\ i - m \in 1..n /\ m + (i - m) = i
      BY <1>1, <2>1, <2>3
    <3>2. tls'[t][m + (i - m)] = callbacks[i - m]
      BY <3>1 DEF m
    <3> QED BY <1>1, <2>1, <3>1, <3>2
  <2> QED BY <1>1, <2>1, <2>2, <2>3
<1>3. ASSUME NEW i \in DOMAIN callbacks'
      PROVE  i \in Nat /\ i + k \in DOMAIN callbacks /\ i + k \notin 1..k /\ callbacks'[i] = callbacks[i + k]
  BY <1>1 DEF n
<1>4. DistinctIn(callbacks')
  <2>1. ASSUME NEW i \in DOMAIN callbacks', NEW j \in DOMAIN callbacks', callbacks'[i].cb = callbacks'[j].cb
        PROVE  i = j
    <3>1. i + k = j + k
      BY <1>3, <2>1 DEF OnePlace, DistinctIn
    <3> QED BY <1>1, <1>3, <3>1
  <2> QED BY <2>1 DEF DistinctIn
<1>5. \A u \in Threads : u # t => \A i \in DOMAIN tls'[u], j \in DOMAIN tls'[t] :
        tls'[u][i].cb # tls'[t][j].cb
  <2> SUFFICES ASSUME NEW u \in Threads, u # t, NEW i \in DOMAIN tls[u], NEW j \in DOMAIN tls'[t]
               PROVE  tls[u][i].cb # tls'[t][j].cb
    OBVIOUS
  <2>1. CASE j \in DOMAIN tls[t] /\ tls'[t][j] = tls[t][j]
    BY <2>1 DEF OnePlace, ListsDistinct
  <2>2. CASE j - m \in DOMAIN callbacks /\ tls'[t][j] = callbacks[j - m]
    BY <2>2 DEF OnePlace, QueueAndLists
  <2> QED BY <1>2, <2>1, <2>2
<1>6. ASSUME NEW i \in DOMAIN tls'[t], NEW j \in DOMAIN tls'[t], tls'[t][i].cb = tls'[t][j].cb
      PROVE  i = j
  <2> DEFINE Old(x) == x \in DOMAIN tls[t] /\ tls'[t][x] = tls[t][x]
             New(x) == x - m \in DOMAIN callbacks /\ tls'[t][x] = callbacks[x - m]
  <2>1. (Old(i) \/ New(i)) /\ (Old(j) \/ New(j)) /\ i \in Nat /\ j \in Nat
    BY <1>2
  <2>2. CASE Old(i) /\ Old(j)
    BY <1>6, <2>2 DEF OnePlace, ListsDistinct
  <2>3. CASE Old(i) /\ New(j)
    BY <1>6, <2>3 DEF OnePlace, QueueAndLists
  <2>4. CASE New(i) /\ Old(j)
    BY <1>6, <2>4 DEF OnePlace, QueueAndLists
  <2>5. CASE New(i) /\ New(j)
    <3>1. i - m = j - m
      BY <1>6, <2>5 DEF OnePlace, DistinctIn
    <3> QED BY <1>1, <2>1, <3>1
  <2> QED BY <2>1, <2>2, <2>3, <2>4, <2>5
<1>7. ListsDistinct'
  <2> SUFFICES ASSUME NEW u \in Threads, NEW v \in Threads,
                      NEW i \in DOMAIN tls'[u], NEW j \in DOMAIN tls'[v],
                      tls'[u][i].cb = tls'[v][j].cb
               PROVE  u = v /\ i = j
    BY DEF ListsDistinct
  <2>1. CASE u = t
    <3>1. CASE v = t
      BY <1>6, <2>1, <3>1
    <3>2. CASE v # t
      BY <1>5, <2>1, <3>2
    <3> QED BY <3>1, <3>2
  <2>3. CASE u # t /\ v = t
    BY <1>5, <2>3
  <2>2. CASE u # t /\ v # t
    BY <2>2 DEF OnePlace, ListsDistinct
  <2> QED BY <2>1, <2>2, <2>3
<1>8. QueueAndLists'
  <2> SUFFICES ASSUME NEW i \in DOMAIN callbacks', NEW u \in Threads, NEW j \in DOMAIN tls'[u]
               PROVE  callbacks'[i].cb # tls'[u][j].cb
    BY DEF QueueAndLists
  <2>1. CASE u # t
    <3>1. /\ i + k \in DOMAIN callbacks /\ callbacks'[i] = callbacks[i + k]
          /\ tls'[u] = tls[u] /\ j \in DOMAIN tls[u]
      BY <1>3, <2>1
    <3> QED BY <3>1 DEF OnePlace, QueueAndLists
  <2>2. CASE u = t /\ j \in DOMAIN tls[t] /\ tls'[t][j] = tls[t][j]
    BY <1>3, <2>2 DEF OnePlace, QueueAndLists
  <2>3. CASE u = t /\ j - m \in 1..k /\ j - m \in DOMAIN callbacks /\ tls'[t][j] = callbacks[j - m]
    BY <1>3, <2>3 DEF OnePlace, DistinctIn
  <2> QED BY <1>2, <2>1, <2>2, <2>3
<1>9. CallsDistinct'
  BY FewerCalls DEF OnePlace
<1>10. QueueAndCalls'
  <2> SUFFICES ASSUME NEW i \in DOMAIN callbacks', NEW v \in Threads, NEW d \in Levels, Holding(v, d)'
               PROVE  callbacks'[i].cb # frame'[v][d].info.cb
    BY DEF QueueAndCalls
  <2>1. Holding(v, d) /\ frame'[v][d].info = frame[v][d].info
    BY DEF HoldsNoMore
  <2>2. i + k \in DOMAIN callbacks /\ callbacks'[i] = callbacks[i + k]
    BY <1>3
  <2> QED BY <2>1, <2>2 DEF OnePlace, QueueAndCalls
<1>11. ListsAndCalls'
  <2> SUFFICES ASSUME NEW u \in Threads, NEW j \in DOMAIN tls'[u], NEW v \in Threads, NEW d \in Levels,
                      Holding(v, d)'
               PROVE  tls'[u][j].cb # frame'[v][d].info.cb
    BY DEF ListsAndCalls
  <2>0. Holding(v, d) /\ frame'[v][d].info = frame[v][d].info
    BY DEF HoldsNoMore
  <2>1. CASE u # t
    BY <2>0, <2>1 DEF OnePlace, ListsAndCalls
  <2>2. CASE u = t /\ j \in DOMAIN tls[t] /\ tls'[t][j] = tls[t][j]
    BY <2>0, <2>2 DEF OnePlace, ListsAndCalls
  <2>3. CASE u = t /\ j - m \in DOMAIN callbacks /\ tls'[t][j] = callbacks[j - m]
    BY <2>0, <2>3 DEF OnePlace, QueueAndCalls
  <2> QED BY <1>2, <2>1, <2>2, <2>3
<1>12. Numbered'
  <2>1. \A i \in DOMAIN callbacks' : callbacks'[i].cb <= added'
    BY <1>3 DEF OnePlace, Numbered
  <2>2. ASSUME NEW u \in Threads, NEW j \in DOMAIN tls'[u] PROVE tls'[u][j].cb <= added'
    <3>1. CASE u # t
      BY <3>1 DEF OnePlace, Numbered
    <3>2. CASE u = t
      BY <1>2, <3>2 DEF OnePlace, Numbered
    <3> QED BY <3>1, <3>2
  <2>3. \A v \in Threads, d \in Levels : Holding(v, d)' => frame'[v][d].info.cb <= added'
    BY DEF OnePlace, Numbered, HoldsNoMore
  <2> QED BY <2>1, <2>2, <2>3 DEF Numbered
<1> QED BY <1>4, <1>7, <1>8, <1>9, <1>10, <1>11, <1>12 DEF OnePlace, DistinctIn

\* callOneCB: the head of a list becomes the callback of a call.
LEMMA ListToHeld ==
  ASSUME OnePlace, PlacesTyped, UNCHANGED <<callbacks, added>>,
         NEW t \in Threads, NEW d \in Levels, tls[t] # <<>>,
         tls' = [tls EXCEPT ![t] = Tail(tls[t])],
         frame'[t][d].info = Head(tls[t]),
         \A u \in Threads, e \in Levels :
           Holding(u, e)' => \/ u = t /\ e = d
                             \/ Holding(u, e) /\ frame'[u][e].info = frame[u][e].info
  PROVE  OnePlace'
<1> DEFINE m == Len(tls[t])
           x == tls[t][1]
<1>1. tls \in [Threads -> Seq(CallbackInfo)] /\ tls[t] \in Seq(CallbackInfo)
  BY DEF PlacesTyped
<1>2. /\ m \in Nat /\ m > 0 /\ DOMAIN tls[t] = 1..m /\ Head(tls[t]) = x
      /\ DOMAIN tls'[t] = 1 .. m - 1
      /\ \A i \in 1 .. m - 1 : tls'[t][i] = tls[t][i + 1]
      /\ \A u \in Threads : u # t => tls'[u] = tls[u]
  BY <1>1
<1> HIDE DEF m
<1>3. ASSUME NEW u \in Threads, NEW i \in DOMAIN tls'[u]
      PROVE  \E j \in DOMAIN tls[u] : tls'[u][i] = tls[u][j] /\ (u = t => j # 1 /\ j = i + 1 /\ i \in Nat)
                                       /\ (u # t => j = i)
  <2>1. CASE u # t
    BY <1>2, <2>1
  <2>2. CASE u = t
    <3>1. i \in Nat /\ i + 1 \in 1..m /\ i + 1 # 1 /\ tls'[t][i] = tls[t][i + 1]
      BY <1>2, <2>2
    <3> QED BY <1>2, <2>2, <3>1
  <2> QED BY <2>1, <2>2
<1>4. 1 \in DOMAIN tls[t]
  BY <1>2
<1>5. ASSUME NEW u \in Threads, NEW j \in DOMAIN tls'[u] PROVE tls'[u][j].cb # x.cb
  <2>1. PICK k \in DOMAIN tls[u] : tls'[u][j] = tls[u][k] /\ (u = t => k # 1)
    BY <1>3
  <2> QED BY <2>1, <1>4 DEF OnePlace, ListsDistinct
<1>6. ListsDistinct'
  <2> SUFFICES ASSUME NEW u \in Threads, NEW v \in Threads,
                      NEW i \in DOMAIN tls'[u], NEW j \in DOMAIN tls'[v],
                      tls'[u][i].cb = tls'[v][j].cb
               PROVE  u = v /\ i = j
    BY DEF ListsDistinct
  <2>1. PICK a \in DOMAIN tls[u] : tls'[u][i] = tls[u][a] /\ (u = t => a = i + 1 /\ i \in Nat)
                                   /\ (u # t => a = i)
    BY <1>3
  <2>2. PICK b \in DOMAIN tls[v] : tls'[v][j] = tls[v][b] /\ (v = t => b = j + 1 /\ j \in Nat)
                                   /\ (v # t => b = j)
    BY <1>3
  <2>3. u = v /\ a = b
    BY <2>1, <2>2 DEF OnePlace, ListsDistinct
  <2> QED BY <2>1, <2>2, <2>3
<1>7. \A u \in Threads, e \in Levels : Holding(u, e) => frame[u][e].info.cb # x.cb
  BY <1>4 DEF OnePlace, ListsAndCalls
<1>8. frame'[t][d].info.cb = x.cb
  BY <1>2
<1> HIDE DEF x
<1>9. CallsDistinct'
  <2> SUFFICES ASSUME NEW v \in Threads, NEW u \in Threads, NEW c \in Levels, NEW e \in Levels,
                      Holding(v, c)', Holding(u, e)',
                      frame'[v][c].info.cb = frame'[u][e].info.cb
               PROVE  v = u /\ c = e
    BY DEF CallsDistinct
  <2> DEFINE Here(y, z) == y = t /\ z = d
  <2>0. ASSUME NEW y \in Threads, NEW z \in Levels, Holding(y, z)', ~Here(y, z)
        PROVE  frame'[y][z].info.cb # x.cb
    BY <1>7, <2>0
  <2>1. CASE Here(v, c)
    <3>1. frame'[u][e].info.cb = x.cb
      BY <1>8, <2>1
    <3>2. Here(u, e)
      BY <2>0, <3>1
    <3> QED BY <2>1, <3>2
  <2>3. CASE ~Here(v, c) /\ Here(u, e)
    <3>1. frame'[v][c].info.cb = x.cb
      BY <1>8, <2>3
    <3> QED BY <2>0, <2>3, <3>1
  <2>2. CASE ~Here(v, c) /\ ~Here(u, e)
    <3>1. /\ Holding(v, c) /\ frame'[v][c].info = frame[v][c].info
          /\ Holding(u, e) /\ frame'[u][e].info = frame[u][e].info
      BY <2>2
    <3> QED BY <3>1 DEF OnePlace, CallsDistinct
  <2> HIDE DEF Here
  <2> QED BY <2>1, <2>2, <2>3
<1>10. QueueAndLists'
  BY <1>3 DEF OnePlace, QueueAndLists
<1>11. QueueAndCalls'
  <2>1. \A i \in DOMAIN callbacks : callbacks[i].cb # x.cb
    BY <1>4 DEF OnePlace, QueueAndLists, x
  <2> QED BY <1>8, <2>1 DEF OnePlace, QueueAndCalls
<1>12. ListsAndCalls'
  <2> SUFFICES ASSUME NEW u \in Threads, NEW j \in DOMAIN tls'[u], NEW v \in Threads, NEW e \in Levels,
                      Holding(v, e)'
               PROVE  tls'[u][j].cb # frame'[v][e].info.cb
    BY DEF ListsAndCalls
  <2>1. CASE v = t /\ e = d
    BY <1>5, <1>8, <2>1
  <2>2. CASE ~(v = t /\ e = d)
    <3>1. Holding(v, e) /\ frame'[v][e].info = frame[v][e].info
      BY <2>2
    <3>2. PICK k \in DOMAIN tls[u] : tls'[u][j] = tls[u][k]
      BY <1>3
    <3> QED BY <3>1, <3>2 DEF OnePlace, ListsAndCalls
  <2> QED BY <2>1, <2>2
<1>13. Numbered'
  <2>1. x.cb <= added
    BY <1>4 DEF OnePlace, Numbered, x
  <2>2. \A i \in DOMAIN callbacks' : callbacks'[i].cb <= added'
    BY DEF OnePlace, Numbered
  <2>3. ASSUME NEW u \in Threads, NEW j \in DOMAIN tls'[u] PROVE tls'[u][j].cb <= added'
    <3>1. PICK k \in DOMAIN tls[u] : tls'[u][j] = tls[u][k]
      BY <1>3
    <3> QED BY <3>1 DEF OnePlace, Numbered
  <2>4. \A u \in Threads, e \in Levels : Holding(u, e)' => frame'[u][e].info.cb <= added'
    BY <1>8, <2>1 DEF OnePlace, Numbered
  <2> QED BY <2>2, <2>3, <2>4 DEF Numbered
<1> QED BY <1>6, <1>9, <1>10, <1>11, <1>12, <1>13 DEF OnePlace, DistinctIn

-----------------------------------------------------------------------------
(* The types of the state, and what a call has in hand.                    *)

QueueTypes ==
  /\ callbacks \in Seq(CallbackInfo)
  /\ \A i \in DOMAIN callbacks : ~callbacks[i].marked
  /\ enabled \in BOOLEAN /\ added \in 0..MaxAdds
  /\ tls \in [Threads -> Seq(CallbackInfo)]

LockTypes ==
  /\ idInfo \in [Ids -> 0..MaxInfos] /\ created \in [Ids -> 0..MaxInfos]
  /\ shared \in [Ids -> [Infos -> Int]]
  /\ writerWaits \in [Ids -> [Infos -> BOOLEAN]]

FrameTypes ==
  /\ callingIn \in [Threads -> Ids \cup {NoId}]
  /\ frame \in [Threads -> [Levels -> Frame]]

Prepared ==
  /\ \A t \in Threads, d \in Levels :
       Holding(t, d) => frame[t][d].info \in CallbackInfo /\ ~frame[t][d].info.marked
  /\ \A t \in Threads : At(t, "lookup") \/ At(t, "lock_shared") => tls[t] # <<>>
  /\ \A t \in Threads : At(t, "lock_shared") => Top(t).info = Head(tls[t])

Types == StackInv /\ QueueTypes /\ LockTypes /\ FrameTypes /\ Prepared

\* A step changes the stack of thread t at level d only.
ChangesAt(t, d) ==
  /\ \A u \in Threads : u # t => depth'[u] = depth[u]
  /\ \A u \in Threads, e \in Levels :
       <<u, e>> # <<t, d>> =>
         /\ frame'[u][e] = frame[u][e]
         /\ (e <= depth'[u]) <=> (e <= depth[u])

\* A call that enters the queue changes its thread's stack at the new level.
LEMMA EnterChanges ==
  ASSUME StackInv, NEW t \in Threads, NEW f, Enter(t, f)
  PROVE  /\ depth[t] + 1 \in Levels /\ ChangesAt(t, depth[t] + 1)
         /\ depth'[t] = depth[t] + 1 /\ frame'[t][depth[t] + 1] = f
<1>1. depth[t] \in Nat /\ depth[t] + 1 \in Levels
  BY DEF StackInv, StackShape, Enter, Levels
<1>2. depth'[t] = depth[t] + 1 /\ frame'[t][depth[t] + 1] = f
  BY <1>1 DEF StackInv, StackShape, Enter
<1>3. \A u \in Threads : u # t => depth'[u] = depth[u]
  BY DEF StackInv, StackShape, Enter
<1>4. ASSUME NEW u \in Threads, NEW e \in Levels, <<u, e>> # <<t, depth[t] + 1>>
      PROVE  frame'[u][e] = frame[u][e] /\ ((e <= depth'[u]) <=> (e <= depth[u]))
  <2>1. frame'[u][e] = frame[u][e]
    BY <1>1, <1>4 DEF StackInv, StackShape, Enter
  <2>2. (e <= depth'[u]) <=> (e <= depth[u])
    <3>1. CASE u = t
      BY <1>1, <1>2, <1>4, <3>1 DEF Levels
    <3>2. CASE u # t
      BY <1>3, <3>2
    <3> QED BY <3>1, <3>2
  <2> QED BY <2>1, <2>2
<1> QED BY <1>1, <1>2, <1>3, <1>4 DEF ChangesAt

\* A call that moves on changes its thread's stack at the top.
LEMMA StepChanges ==
  ASSUME StackInv, NEW t \in Threads, depth[t] > 0, NEW f, Step(t, f)
  PROVE  /\ depth[t] \in Levels /\ ChangesAt(t, depth[t])
         /\ depth'[t] = depth[t] /\ frame'[t][depth[t]] = f
<1>1. depth[t] \in Levels /\ depth' = depth
  BY DEF StackInv, StackShape, Step, Levels
<1>2. frame'[t][depth[t]] = f
  BY <1>1 DEF StackInv, StackShape, Step
<1>3. ASSUME NEW u \in Threads, NEW e \in Levels, <<u, e>> # <<t, depth[t]>>
      PROVE  frame'[u][e] = frame[u][e]
  BY <1>1, <1>3 DEF StackInv, StackShape, Step
<1> QED BY <1>1, <1>2, <1>3 DEF ChangesAt

\* A call that returns changes its thread's stack at the top, and leaves a running call
\* there or nothing.
LEMMA ReturnChanges ==
  ASSUME StackInv, NEW t \in Threads, depth[t] > 0, Return(t)
  PROVE  /\ depth[t] \in Levels /\ ChangesAt(t, depth[t])
         /\ depth'[t] = depth[t] - 1 /\ frame'[t][depth[t]] = NoFrame
         /\ \A pc \in PCs \ {"in_call"} : ~At(t, pc)'
<1>1. depth[t] \in Levels /\ depth[t] \in Nat /\ depth'[t] = depth[t] - 1
  BY DEF StackInv, StackShape, Return, Levels
<1>2. frame'[t][depth[t]] = NoFrame
  BY <1>1 DEF StackInv, StackShape, Return
<1>3. \A u \in Threads : u # t => depth'[u] = depth[u]
  BY DEF StackInv, StackShape, Return
<1>4. ASSUME NEW u \in Threads, NEW e \in Levels, <<u, e>> # <<t, depth[t]>>
      PROVE  frame'[u][e] = frame[u][e] /\ ((e <= depth'[u]) <=> (e <= depth[u]))
  <2>1. frame'[u][e] = frame[u][e]
    BY <1>1, <1>4 DEF StackInv, StackShape, Return
  <2>2. (e <= depth'[u]) <=> (e <= depth[u])
    <3>1. CASE u = t
      BY <1>1, <1>4, <3>1 DEF Levels
    <3>2. CASE u # t
      BY <1>3, <3>2
    <3> QED BY <3>1, <3>2
  <2> QED BY <2>1, <2>2
<1>5. ASSUME NEW pc \in PCs \ {"in_call"} PROVE ~At(t, pc)'
  <2>1. CASE depth[t] = 1
    BY <1>1, <2>1 DEF At
  <2>2. CASE depth[t] > 1
    <3>1. depth[t] - 1 \in Levels /\ frame'[t][depth[t] - 1] = frame[t][depth[t] - 1]
      <4>1. depth[t] - 1 \in Levels /\ <<t, depth[t] - 1>> # <<t, depth[t]>>
        BY <1>1, <2>2 DEF Levels
      <4> QED BY <4>1, <1>4
    <3>2. frame[t][depth[t] - 1].pc = "in_call"
      BY <1>1, <3>1 DEF StackInv, RunningBelowTop
    <3> QED BY <1>1, <3>1, <3>2 DEF At, Top
  <2> QED BY <1>1, <2>1, <2>2 DEF Levels
<1> QED BY <1>1, <1>2, <1>3, <1>4, <1>5 DEF ChangesAt

\* The frames are typed after a step that changes one of them.
LEMMA FrameStays ==
  ASSUME frame \in [Threads -> [Levels -> Frame]], NEW t \in Threads, NEW d \in Levels,
         NEW f \in Frame, frame' = [frame EXCEPT ![t][d] = f]
  PROVE  frame' \in [Threads -> [Levels -> Frame]]
OBVIOUS

\* The empty frame is a frame.
LEMMA NoFrameTyped == NoFrame \in Frame
BY DEF NoFrame, Frame, AllOps, PCs, NoCallback

\* What a call has in hand after a step of thread t at level d.
LEMMA PreparedStays ==
  ASSUME StackInv, Prepared, NEW t \in Threads, NEW d \in Levels, ChangesAt(t, d),
         \A u \in Threads : u # t => tls'[u] = tls[u],
         Holding(t, d)' => frame'[t][d].info \in CallbackInfo /\ ~frame'[t][d].info.marked,
         At(t, "lookup")' \/ At(t, "lock_shared")' => tls'[t] # <<>>,
         At(t, "lock_shared")' => Top(t)'.info = Head(tls'[t])
  PROVE  Prepared'
<1>1. ASSUME NEW u \in Threads, NEW e \in Levels, Holding(u, e)'
      PROVE  frame'[u][e].info \in CallbackInfo /\ ~frame'[u][e].info.marked
  <2>1. CASE <<u, e>> = <<t, d>>
    BY <1>1, <2>1
  <2>2. CASE <<u, e>> # <<t, d>>
    <3>1. frame'[u][e] = frame[u][e] /\ Holding(u, e)
      BY <1>1, <2>2 DEF ChangesAt, Holding
    <3> QED BY <3>1 DEF Prepared
  <2> QED BY <2>1, <2>2
<1>2. ASSUME NEW u \in Threads, u # t, NEW pc, At(u, pc)'
      PROVE  At(u, pc) /\ Top(u)' = Top(u) /\ tls'[u] = tls[u]
  <2>1. depth'[u] = depth[u] /\ depth[u] \in Levels
    BY <1>2 DEF ChangesAt, StackInv, StackShape, Levels, At
  <2>2. frame'[u][depth[u]] = frame[u][depth[u]]
    BY <1>2, <2>1 DEF ChangesAt
  <2> QED BY <1>2, <2>1, <2>2 DEF At, Top
<1>3. ASSUME NEW u \in Threads, At(u, "lookup")' \/ At(u, "lock_shared")'
      PROVE  tls'[u] # <<>>
  BY <1>2, <1>3 DEF Prepared
<1>4. ASSUME NEW u \in Threads, At(u, "lock_shared")'
      PROVE  Top(u)'.info = Head(tls'[u])
  BY <1>2, <1>4 DEF Prepared
<1> QED BY <1>1, <1>3, <1>4 DEF Prepared

\* callOne takes one entry of the queue, callAvailable all of them.
LEMMA TakeFacts ==
  ASSUME QueueTypes, NEW t \in Threads, NEW op, TakeCallbacks(t, op)
  PROVE  \E k \in 1..Len(callbacks) :
           /\ Takes(t, k) /\ Len(tls'[t]) = Len(tls[t]) + k
           /\ op = "callOne" => k = 1
           /\ tls' \in [Threads -> Seq(CallbackInfo)] /\ tls'[t] # <<>>
           /\ callbacks' \in Seq(CallbackInfo)
           /\ \A i \in DOMAIN callbacks' : ~callbacks'[i].marked
<1> DEFINE n == Len(callbacks)
           s == Taken(op)
           k == IF op = "callOne" THEN 1 ELSE n
<1>1. /\ callbacks \in Seq(CallbackInfo) /\ tls \in [Threads -> Seq(CallbackInfo)]
      /\ tls[t] \in Seq(CallbackInfo) /\ callbacks # <<>>
      /\ tls' = [tls EXCEPT ![t] = tls[t] \o s]
      /\ callbacks' = IF op = "callOne" THEN Tail(callbacks) ELSE <<>>
  BY DEF QueueTypes, TakeCallbacks
<1>2. n \in Nat /\ n > 0 /\ DOMAIN callbacks = 1..n /\ k \in 1..n /\ Head(callbacks) = callbacks[1]
  BY <1>1
<1>3. s \in Seq(CallbackInfo) /\ Len(s) = k /\ \A i \in 1..k : s[i] = callbacks[i]
  <2>1. CASE op = "callOne"
    BY <1>1, <1>2, <2>1 DEF Taken
  <2>2. CASE op # "callOne"
    BY <1>1, <1>2, <2>2 DEF Taken
  <2> QED BY <2>1, <2>2
<1>4. /\ callbacks' \in Seq(CallbackInfo) /\ DOMAIN callbacks' = 1 .. n - k
      /\ \A i \in 1 .. n - k : callbacks'[i] = callbacks[i + k]
  <2>1. CASE op = "callOne"
    BY <1>1, <1>2, <2>1
  <2>2. CASE op # "callOne"
    BY <1>1, <1>2, <2>2
  <2> QED BY <2>1, <2>2
<1>5. \A i \in DOMAIN callbacks' : ~callbacks'[i].marked
  <2>1. ASSUME NEW i \in 1 .. n - k PROVE i + k \in DOMAIN callbacks
    BY <1>2
  <2> QED BY <1>4, <2>1 DEF QueueTypes
<1> HIDE DEF s, k, n
<1>0. Len(tls[t]) \in Nat /\ k \in Nat
  BY <1>1, <1>2
<1>6. /\ tls[t] \o s \in Seq(CallbackInfo) /\ Len(tls[t] \o s) = Len(tls[t]) + k
      /\ DOMAIN (tls[t] \o s) = 1 .. Len(tls[t]) + k
      /\ \A i \in 1..Len(tls[t]) : (tls[t] \o s)[i] = tls[t][i]
      /\ \A i \in 1..k : (tls[t] \o s)[Len(tls[t]) + i] = s[i]
  <2> DEFINE m == Len(tls[t])
             r == tls[t] \o s
  <2>1. r \in Seq(CallbackInfo) /\ Len(r) = m + k
    <3>1. tls[t] \in Seq(CallbackInfo) /\ s \in Seq(CallbackInfo) /\ Len(s) = k
      BY <1>1, <1>3
    <3>2. tls[t] \o s \in Seq(CallbackInfo) /\ Len(tls[t] \o s) = Len(tls[t]) + Len(s)
      BY <3>1
    <3> QED BY <3>1, <3>2
  <2>2. DOMAIN r = 1 .. m + k
    BY <2>1
  <2>3. \A i \in 1..m : r[i] = tls[t][i]
    BY <1>0, <1>1, <1>3
  <2>4. \A i \in 1..k : r[m + i] = s[i]
    BY <1>0, <1>1, <1>3
  <2> QED BY <2>1, <2>2, <2>3, <2>4
<1>7. /\ tls' \in [Threads -> Seq(CallbackInfo)] /\ tls'[t] = tls[t] \o s
      /\ \A u \in Threads : u # t => tls'[u] = tls[u]
  BY <1>1, <1>6
<1>8. tls'[t] # <<>>
  <2>1. Len(tls[t]) \in Nat /\ k \in Nat /\ k > 0 /\ Len(<<>>) = 0
    BY <1>1, <1>2
  <2> QED BY <1>6, <1>7, <2>1
<1>9. Takes(t, k)
  BY <1>3, <1>4, <1>6, <1>7 DEF Takes, n
<1>10. op = "callOne" => k = 1
  BY DEF k
<1> QED BY <1>2, <1>4, <1>5, <1>6, <1>7, <1>8, <1>9, <1>10 DEF n

\* The innermost call of a thread.
LEMMA TopTyped ==
  ASSUME StackInv, FrameTypes, NEW t \in Threads, depth[t] > 0
  PROVE  /\ Top(t) \in Frame /\ depth[t] \in Levels
         /\ Holding(t, depth[t]) <=> Top(t).pc \in {"in_call", "push"}
BY DEF StackInv, StackShape, FrameTypes, Top, Levels, Holding

\* callOneCB has returned, and its caller goes on, with what it owes one more.
LEMMA AfterCallTyped ==
  ASSUME StackInv, FrameTypes, NEW t \in Threads, depth[t] > 0, AfterCall(t)
  PROVE  \E f \in Frame :
           /\ Step(t, f) /\ f.pc \in {"lookup", "account"}
           /\ f.op = Top(t).op /\ f.called = Top(t).called + 1
           /\ f.pc = "lookup" <=> (Top(t).op = "callAvailable" /\ tls'[t] # <<>>)
<1> DEFINE f == [NoFrame EXCEPT
             !.op = Top(t).op,
             !.called = Top(t).called + 1,
             !.pc = IF Top(t).op = "callAvailable" /\ tls'[t] # <<>>
                    THEN "lookup" ELSE "account"]
<1>1. Top(t) \in Frame
  BY TopTyped
<1>2. Top(t).op \in AllOps /\ Top(t).called \in Nat
  BY <1>1 DEF Frame
<1>3. f \in Frame
  <2>1. Top(t).called + 1 \in Nat /\ {"lookup", "account"} \subseteq PCs
    BY <1>2 DEF PCs
  <2> QED BY <1>2, <2>1, NoFrameTyped DEF Frame
<1>4. /\ f.pc = IF Top(t).op = "callAvailable" /\ tls'[t] # <<>> THEN "lookup" ELSE "account"
      /\ f.op = Top(t).op /\ f.called = Top(t).called + 1
  BY DEF NoFrame
<1>5. Step(t, f)
  BY DEF AfterCall
<1> HIDE DEF f
<1> QED BY <1>3, <1>4, <1>5

-----------------------------------------------------------------------------
(* The invariant of the queue and its steps.                               *)

Covered == IsFiniteSet(Units(Load)) /\ calling \in Int /\ Owed <= calling

QueueInv == Types /\ OnePlace /\ Covered

\* What a step leaves: everything typed and in one place, and calling_ ahead of
\* what is owed to it by g more than before.
Leaves(g) ==
  /\ Types' /\ OnePlace' /\ IsFiniteSet(Units(Load)') /\ calling' \in Int
  /\ Owed \in Nat /\ Owed' \in Nat /\ calling' - Owed' = calling - Owed + g

\* What the types say of the places and of the stacks.
LEMMA TypesFacts ==
  ASSUME Types
  PROVE  /\ PlacesTyped /\ StackTyped /\ added \in Nat
         /\ \A f \in Frame : f.called \in Nat /\ Weight(f) \in Nat
<1>1. PlacesTyped
  BY DEF Types, QueueTypes, Prepared, PlacesTyped
<1>2. StackTyped
  BY DEF Types, QueueTypes, FrameTypes, StackTyped
<1>3. added \in Nat
  BY DEF Types, QueueTypes
<1>4. \A f \in Frame : f.called \in Nat /\ Weight(f) \in Nat
  BY DEF Frame, Weight, One
<1> QED BY <1>1, <1>2, <1>3, <1>4

\* What is left to say of a step of thread t at level d.
LEMMA Assemble ==
  ASSUME QueueInv, StackInv', QueueTypes', LockTypes', FrameTypes', OnePlace',
         NEW t \in Threads, NEW d \in Levels, ChangesAt(t, d),
         \A u \in Threads : u # t => tls'[u] = tls[u],
         Holding(t, d)' => frame'[t][d].info \in CallbackInfo /\ ~frame'[t][d].info.marked,
         At(t, "lookup")' \/ At(t, "lock_shared")' => tls'[t] # <<>>,
         At(t, "lock_shared")' => Top(t)'.info = Head(tls'[t])
  PROVE  /\ Types' /\ OnePlace' /\ IsFiniteSet(Units(Load)')
         /\ Owed \in Nat /\ Owed' \in Nat
         /\ Owed' = Owed + (Len(tls'[t]) - Len(tls[t]))
                         + ((IF d <= depth'[t] THEN Weight(frame'[t][d]) ELSE 0)
                              - (IF d <= depth[t] THEN Weight(frame[t][d]) ELSE 0))
<1>1. Prepared'
  BY PreparedStays DEF QueueInv, Types
<1>2. Types'
  BY <1>1 DEF Types
<1>3. StackTyped /\ StackTyped'
  BY <1>2 DEF QueueInv, Types, QueueTypes, FrameTypes, StackTyped
<1>4. IsFiniteSet(Units(Load))
  BY DEF QueueInv, Covered
<1> HIDE DEF QueueInv
<1>5. /\ IsFiniteSet(Units(Load)') /\ Owed \in Nat /\ Owed' \in Nat
      /\ Owed' = Owed + (Len(tls'[t]) - Len(tls[t]))
                      + ((IF d <= depth'[t] THEN Weight(frame'[t][d]) ELSE 0)
                           - (IF d <= depth[t] THEN Weight(frame[t][d]) ELSE 0))
  BY <1>3, <1>4, OwedAfter DEF ChangesAt
<1> QED BY <1>2, <1>5

\* A call enters the queue.
LEMMA AssembleEnter ==
  ASSUME QueueInv, StackInv', QueueTypes', LockTypes', UNCHANGED callingIn, OnePlace',
         NEW t \in Threads, NEW f \in Frame, Enter(t, f), f.called = 0,
         \A u \in Threads : u # t => tls'[u] = tls[u],
         f.pc \notin {"in_call", "lock_shared"},
         f.pc = "push" => f.info \in CallbackInfo /\ ~f.info.marked,
         f.pc = "lookup" => tls'[t] # <<>>
  PROVE  /\ Types' /\ OnePlace' /\ IsFiniteSet(Units(Load)')
         /\ Owed \in Nat /\ Owed' \in Nat
         /\ Owed' = Owed + (Len(tls'[t]) - Len(tls[t]))
<1>1. PICK d \in Levels : /\ d = depth[t] + 1 /\ ChangesAt(t, d) /\ depth'[t] = d
                         /\ frame'[t][d] = f /\ depth[t] \in Nat
  BY EnterChanges DEF QueueInv, Types, StackInv, StackShape
<1>2. FrameTypes'
  <2>1. frame' = [frame EXCEPT ![t][d] = f] /\ frame \in [Threads -> [Levels -> Frame]]
    BY <1>1 DEF Enter, QueueInv, Types, FrameTypes
  <2>2. frame' \in [Threads -> [Levels -> Frame]]
    BY <1>1, <2>1, FrameStays
  <2> QED BY <2>2 DEF QueueInv, Types, FrameTypes
<1>3. Top(t)' = f /\ \A pc : At(t, pc)' => f.pc = pc
  BY <1>1 DEF Top, At
<1>4. /\ Holding(t, d)' => frame'[t][d].info \in CallbackInfo /\ ~frame'[t][d].info.marked
      /\ At(t, "lookup")' \/ At(t, "lock_shared")' => tls'[t] # <<>>
      /\ At(t, "lock_shared")' => Top(t)'.info = Head(tls'[t])
  BY <1>1, <1>3 DEF Holding
<1>5. Weight(f) = 0 /\ d <= depth'[t] /\ ~(d <= depth[t])
  <2>1. Weight(f) = 0
    BY DEF Weight, One
  <2> QED BY <1>1, <2>1 DEF Levels
<1>6. /\ Types' /\ OnePlace' /\ IsFiniteSet(Units(Load)')
      /\ Owed \in Nat /\ Owed' \in Nat
      /\ Owed' = Owed + (Len(tls'[t]) - Len(tls[t]))
                      + ((IF d <= depth'[t] THEN Weight(frame'[t][d]) ELSE 0)
                           - (IF d <= depth[t] THEN Weight(frame[t][d]) ELSE 0))
  BY <1>1, <1>2, <1>4, Assemble
<1>7. Len(tls'[t]) \in Nat /\ Len(tls[t]) \in Nat
  <2>1. tls'[t] \in Seq(CallbackInfo) /\ tls[t] \in Seq(CallbackInfo)
    BY DEF QueueInv, Types, QueueTypes
  <2> QED BY <2>1
<1>8. Owed' = Owed + (Len(tls'[t]) - Len(tls[t])) + (0 - 0)
  BY <1>1, <1>5, <1>6
<1>9. Owed \in Nat /\ Owed' \in Nat
  BY <1>6
<1>10. Owed' = Owed + (Len(tls'[t]) - Len(tls[t]))
  <2>1. \A a, b \in Nat : Owed' = Owed + (a - b) + (0 - 0) => Owed' = Owed + (a - b)
    BY <1>9
  <2> QED BY <1>7, <1>8, <2>1
<1> QED BY <1>6, <1>10

\* The innermost call moves on.
LEMMA AssembleStep ==
  ASSUME QueueInv, StackInv', QueueTypes', LockTypes', OnePlace',
         callingIn' \in [Threads -> Ids \cup {NoId}],
         NEW t \in Threads, depth[t] > 0, NEW f \in Frame, Step(t, f),
         \A u \in Threads : u # t => tls'[u] = tls[u],
         f.pc \in {"in_call", "push"} => f.info \in CallbackInfo /\ ~f.info.marked,
         f.pc \in {"lookup", "lock_shared"} => tls'[t] # <<>>,
         f.pc = "lock_shared" => f.info = Head(tls'[t])
  PROVE  /\ Types' /\ OnePlace' /\ IsFiniteSet(Units(Load)')
         /\ Owed \in Nat /\ Owed' \in Nat
         /\ Owed' = Owed + (Len(tls'[t]) - Len(tls[t])) + (Weight(f) - Weight(Top(t)))
<1>1. PICK d \in Levels : /\ d = depth[t] /\ ChangesAt(t, d) /\ depth'[t] = d
                         /\ frame'[t][d] = f
  BY StepChanges DEF QueueInv, Types
<1>2. FrameTypes'
  <2>1. frame' = [frame EXCEPT ![t][d] = f] /\ frame \in [Threads -> [Levels -> Frame]]
    BY <1>1 DEF Step, QueueInv, Types, FrameTypes
  <2>2. frame' \in [Threads -> [Levels -> Frame]]
    BY <1>1, <2>1, FrameStays
  <2> QED BY <2>2 DEF FrameTypes
<1>3. frame[t][d] = Top(t) /\ d <= d
  BY <1>1 DEF Top, Levels
<1>4. Top(t)' = f /\ \A pc : At(t, pc)' => f.pc = pc
  BY <1>1 DEF Top, At
<1>5. /\ Holding(t, d)' => frame'[t][d].info \in CallbackInfo /\ ~frame'[t][d].info.marked
      /\ At(t, "lookup")' \/ At(t, "lock_shared")' => tls'[t] # <<>>
      /\ At(t, "lock_shared")' => Top(t)'.info = Head(tls'[t])
  BY <1>1, <1>4 DEF Holding
<1>6. /\ Types' /\ OnePlace' /\ IsFiniteSet(Units(Load)')
      /\ Owed \in Nat /\ Owed' \in Nat
      /\ Owed' = Owed + (Len(tls'[t]) - Len(tls[t]))
                      + ((IF d <= depth'[t] THEN Weight(frame'[t][d]) ELSE 0)
                           - (IF d <= depth[t] THEN Weight(frame[t][d]) ELSE 0))
  BY <1>1, <1>2, <1>5, Assemble
<1> QED BY <1>1, <1>3, <1>6

\* The innermost call returns.
LEMMA AssembleReturn ==
  ASSUME QueueInv, StackInv', QueueTypes', LockTypes', OnePlace',
         callingIn' \in [Threads -> Ids \cup {NoId}],
         NEW t \in Threads, depth[t] > 0, Return(t),
         \A u \in Threads : u # t => tls'[u] = tls[u]
  PROVE  /\ Types' /\ OnePlace' /\ IsFiniteSet(Units(Load)')
         /\ Owed \in Nat /\ Owed' \in Nat
         /\ Owed' = Owed + (Len(tls'[t]) - Len(tls[t])) - Weight(Top(t))
<1>1. PICK d \in Levels : /\ d = depth[t] /\ ChangesAt(t, d) /\ depth'[t] = d - 1
                         /\ frame'[t][d] = NoFrame
                         /\ \A pc \in PCs \ {"in_call"} : ~At(t, pc)'
  BY ReturnChanges DEF QueueInv, Types
<1>2. FrameTypes'
  <2>1. frame' = [frame EXCEPT ![t][d] = NoFrame] /\ frame \in [Threads -> [Levels -> Frame]]
    BY <1>1 DEF Return, QueueInv, Types, FrameTypes
  <2>2. frame' \in [Threads -> [Levels -> Frame]]
    BY <1>1, <2>1, FrameStays, NoFrameTyped
  <2> QED BY <2>2 DEF FrameTypes
<1>3. frame[t][d] = Top(t) /\ d <= depth[t] /\ ~(d <= depth'[t])
  BY <1>1 DEF Top, Levels
<1>4. ~At(t, "lookup")' /\ ~At(t, "lock_shared")'
  BY <1>1 DEF PCs
<1>5. ~Holding(t, d)'
  BY <1>3 DEF Holding
<1>6. /\ Types' /\ OnePlace' /\ IsFiniteSet(Units(Load)')
      /\ Owed \in Nat /\ Owed' \in Nat
      /\ Owed' = Owed + (Len(tls'[t]) - Len(tls[t]))
                      + ((IF d <= depth'[t] THEN Weight(frame'[t][d]) ELSE 0)
                           - (IF d <= depth[t] THEN Weight(frame[t][d]) ELSE 0))
  BY <1>1, <1>2, <1>4, <1>5, Assemble
<1>7. Len(tls'[t]) \in Nat /\ Len(tls[t]) \in Nat /\ Weight(Top(t)) \in Nat
  <2>1. tls'[t] \in Seq(CallbackInfo) /\ tls[t] \in Seq(CallbackInfo)
    BY DEF QueueInv, Types, QueueTypes
  <2>2. Top(t) \in Frame
    BY TopTyped DEF QueueInv, Types
  <2> QED BY <2>1, <2>2, TypesFacts DEF QueueInv
<1>8. Owed' = Owed + (Len(tls'[t]) - Len(tls[t])) + (0 - Weight(Top(t)))
  BY <1>3, <1>6
<1>9. Owed \in Nat /\ Owed' \in Nat
  BY <1>6
<1>10. Owed' = Owed + (Len(tls'[t]) - Len(tls[t])) - Weight(Top(t))
  <2>1. \A a, b, w \in Nat : Owed' = Owed + (a - b) + (0 - w) => Owed' = Owed + (a - b) - w
    BY <1>9
  <2>2. \A w \in Nat : Owed' = Owed + (Len(tls'[t]) - Len(tls[t])) + (0 - w)
                           => Owed' = Owed + (Len(tls'[t]) - Len(tls[t])) - w
    BY <1>7, <2>1
  <2> QED BY <1>7, <1>8, <2>2
<1> QED BY <1>6, <1>10

\* The callbacks that calls hold after a step of thread t at level d.
LEMMA HeldElsewhere ==
  ASSUME NEW t \in Threads, NEW d \in Levels, ChangesAt(t, d)
  PROVE  /\ \A u \in Threads, e \in Levels :
              Holding(u, e)' => \/ u = t /\ e = d
                                \/ Holding(u, e) /\ frame'[u][e].info = frame[u][e].info
         /\ (Holding(t, d)' => Holding(t, d) /\ frame'[t][d].info = frame[t][d].info)
              => HoldsNoMore
<1>1. ASSUME NEW u \in Threads, NEW e \in Levels, Holding(u, e)', ~(u = t /\ e = d)
      PROVE  Holding(u, e) /\ frame'[u][e].info = frame[u][e].info
  <2>1. <<u, e>> # <<t, d>>
    BY <1>1
  <2>2. frame'[u][e] = frame[u][e] /\ ((e <= depth'[u]) <=> (e <= depth[u]))
    BY <2>1 DEF ChangesAt
  <2> QED BY <1>1, <2>2 DEF Holding
<1> QED BY <1>1 DEF HoldsNoMore

\* A list that stays is a part of the old one.
LEMMA SameList ==
  ASSUME PlacesTyped, NEW u \in Threads, tls'[u] = tls[u]
  PROVE  Shrinks(u)
<1>1. tls[u] \in Seq(CallbackInfo)
  BY DEF PlacesTyped
<1>2. \A i \in DOMAIN tls'[u] : i + 0 \in DOMAIN tls[u] /\ tls'[u][i].cb = tls[u][i + 0].cb
  BY <1>1
<1> QED BY <1>2 DEF Shrinks

\* A list that loses its head is a part of the old one.
LEMMA TailList ==
  ASSUME PlacesTyped, NEW u \in Threads, tls[u] # <<>>, tls'[u] = Tail(tls[u])
  PROVE  Shrinks(u)
<1>1. tls[u] \in Seq(CallbackInfo)
  BY DEF PlacesTyped
<1>2. \A i \in DOMAIN tls'[u] : i + 1 \in DOMAIN tls[u] /\ tls'[u][i].cb = tls[u][i + 1].cb
  BY <1>1
<1> QED BY <1>2 DEF Shrinks

\* enable, disable, clear and a wait for the unique lock leave the stacks alone.
LEMMA QuietLeaves ==
  ASSUME QueueInv, StackInv', UNCHANGED <<depth, frame, tls, callingIn, calling, added>>,
         LockTypes', enabled' \in BOOLEAN, callbacks' \in {callbacks, <<>>}
  PROVE  Leaves(0)
<1>1. QueueTypes'
  <2>1. <<>> \in Seq(CallbackInfo) /\ DOMAIN <<>> = {}
    OBVIOUS
  <2> QED BY <2>1 DEF QueueInv, Types, QueueTypes
<1>2. FrameTypes'
  BY DEF QueueInv, Types, FrameTypes
<1>3. Prepared'
  BY DEF QueueInv, Types, Prepared, Holding, At, Top
<1>4. Types'
  BY <1>1, <1>2, <1>3 DEF Types
<1>5. OnePlace'
  <2>1. DistinctIn(callbacks') /\ \A k \in DOMAIN callbacks' : \E j \in DOMAIN callbacks : callbacks'[k] = callbacks[j]
    <3>1. DOMAIN <<>> = {}
      OBVIOUS
    <3> QED BY <3>1 DEF QueueInv, OnePlace, DistinctIn
  <2>2. \A u \in Threads : Shrinks(u)
    BY SameList, TypesFacts DEF QueueInv
  <2>3. HoldsNoMore
    BY DEF HoldsNoMore, Holding
  <2>4. tls' \in [Threads -> Seq(CallbackInfo)] /\ added' \in Nat /\ added <= added'
    BY TypesFacts DEF QueueInv, PlacesTyped
  <2> QED BY <2>1, <2>2, <2>3, <2>4, Fewer, TypesFacts DEF QueueInv
<1>6. Load' = Load
  BY DEF Load, Weight
<1>7. Units(Load)' = Units(Load)
  BY <1>6 DEF Units
<1>8. Owed \in Nat /\ Owed' = Owed /\ IsFiniteSet(Units(Load)')
  BY <1>7, FS_CardinalityType DEF QueueInv, Covered, Owed
<1>9. calling \in Int /\ calling' = calling
  BY DEF QueueInv, Covered
<1> QED BY <1>4, <1>5, <1>8, <1>9 DEF Leaves

\* A step that drops callbacks at most: the queue is the same, and the list of t is
\* the same or its tail.
LEMMA OnePlaceDrops ==
  ASSUME QueueInv, NEW t \in Threads, NEW d \in Levels, ChangesAt(t, d),
         UNCHANGED <<callbacks, added>>, tls' \in [Threads -> Seq(CallbackInfo)],
         \A u \in Threads : u # t => tls'[u] = tls[u],
         tls'[t] = tls[t] \/ (tls[t] # <<>> /\ tls'[t] = Tail(tls[t])),
         Holding(t, d)' => Holding(t, d) /\ frame'[t][d].info = frame[t][d].info
  PROVE  OnePlace'
<1>1. PlacesTyped /\ added' \in Nat /\ added <= added'
  BY TypesFacts DEF QueueInv
<1>2. \A u \in Threads : Shrinks(u)
  BY <1>1, SameList, TailList
<1>3. HoldsNoMore
  BY HeldElsewhere
<1> QED BY <1>1, <1>2, <1>3, Fewer DEF QueueInv, OnePlace

\* The lists after the head of one is taken.
LEMMA TailTyped ==
  ASSUME Types, NEW t \in Threads, tls[t] # <<>>, tls' = [tls EXCEPT ![t] = Tail(@)]
  PROVE  /\ tls' \in [Threads -> Seq(CallbackInfo)] /\ tls'[t] = Tail(tls[t])
         /\ \A u \in Threads : u # t => tls'[u] = tls[u]
         /\ Head(tls[t]) \in CallbackInfo
         /\ Len(tls[t]) \in Nat /\ Len(tls'[t]) = Len(tls[t]) - 1
<1>1. tls \in [Threads -> Seq(CallbackInfo)] /\ tls[t] \in Seq(CallbackInfo)
  BY DEF Types, QueueTypes
<1> QED BY <1>1

\* addCallback: the id gets its IDInfo, and the call has the callback in hand.
LEMMA AddLeaves ==
  ASSUME QueueInv, StackInv', NEW t \in Threads, NEW id \in Ids, AddCallback(t, id)
  PROVE  Leaves(0)
<1> DEFINE x == [cb |-> added + 1, id |-> id, marked |-> FALSE]
           f == [NoFrame EXCEPT !.op = "addCallback", !.pc = "push", !.info = x]
<1>1. added \in Nat /\ added + 1 \in Callbacks /\ added + 1 \in 0..MaxAdds
  BY DEF AddCallback, QueueInv, Types, QueueTypes, Callbacks
<1>2. x \in CallbackInfo /\ ~x.marked /\ x.cb = added + 1
  BY <1>1 DEF CallbackInfo
<1>3. Enter(t, f) /\ UNCHANGED <<callbacks, calling, enabled, shared, writerWaits, tls, callingIn>>
  BY DEF AddCallback, qvars
<1>4. f \in Frame /\ f.called = 0 /\ f.pc = "push" /\ f.info = x
  <2>1. "addCallback" \in AllOps /\ "push" \in PCs
    BY DEF AllOps, PCs
  <2> HIDE DEF x
  <2>2. f \in Frame
    BY <1>2, <2>1, NoFrameTyped DEF Frame
  <2> QED BY <2>2 DEF NoFrame
<1> HIDE DEF f, x
<1>5. QueueTypes'
  BY <1>1, <1>3 DEF AddCallback, QueueInv, Types, QueueTypes
<1>6. LockTypes'
  <2>1. created[id] \in 0..MaxInfos
    BY DEF QueueInv, Types, LockTypes
  <2>2. CASE idInfo[id] = 0
    <3>1. /\ created[id] + 1 \in 0..MaxInfos
          /\ created' = [created EXCEPT ![id] = created[id] + 1]
          /\ idInfo' = [idInfo EXCEPT ![id] = created[id] + 1]
      BY <2>1, <2>2 DEF AddCallback
    <3> QED BY <1>3, <3>1 DEF QueueInv, Types, LockTypes
  <2>3. CASE idInfo[id] # 0
    BY <1>3, <2>3 DEF AddCallback, QueueInv, Types, LockTypes
  <2> QED BY <2>2, <2>3
<1>7. PICK d \in Levels : d = depth[t] + 1 /\ ChangesAt(t, d) /\ frame'[t][d] = f
  BY <1>3, EnterChanges DEF QueueInv, Types
<1>8. OnePlace'
  <2>1. frame'[t][d].info.cb = added + 1 /\ added' = added + 1
    BY <1>2, <1>4, <1>7 DEF AddCallback
  <2>2. \A u \in Threads, e \in Levels :
              Holding(u, e)' => \/ u = t /\ e = d
                                \/ Holding(u, e) /\ frame'[u][e].info = frame[u][e].info
    BY <1>7, HeldElsewhere
  <2>3. OnePlace /\ PlacesTyped /\ UNCHANGED <<callbacks, tls>>
    BY <1>3, TypesFacts DEF QueueInv
  <2> QED BY <2>1, <2>2, <2>3, NewHeld
<1>9. /\ Types' /\ IsFiniteSet(Units(Load)') /\ Owed \in Nat /\ Owed' \in Nat
      /\ Owed' = Owed + (Len(tls'[t]) - Len(tls[t]))
  BY <1>2, <1>3, <1>4, <1>5, <1>6, <1>8, AssembleEnter
<1>10. Len(tls[t]) \in Nat /\ tls' = tls /\ calling \in Int /\ calling' = calling
  <2>1. tls[t] \in Seq(CallbackInfo) /\ calling \in Int
    BY DEF QueueInv, Types, QueueTypes, Covered
  <2> QED BY <1>3, <2>1
<1>11. Owed' = Owed
  BY <1>9, <1>10
<1> QED BY <1>8, <1>9, <1>10, <1>11 DEF Leaves

\* addCallback ends: the callback goes to the queue unless it is disabled.
LEMMA PushLeaves ==
  ASSUME QueueInv, StackInv', NEW t \in Threads, AddPush(t)
  PROVE  Leaves(Weight(Top(t)))
<1>1. /\ depth[t] > 0 /\ Top(t).pc = "push" /\ Return(t)
      /\ UNCHANGED <<calling, enabled, idInfo, created, shared, writerWaits, tls, callingIn, added>>
  BY DEF AddPush, At, lockvars
<1>2. PICK d \in Levels : /\ d = depth[t] /\ ChangesAt(t, d) /\ depth'[t] = d - 1
  BY <1>1, ReturnChanges DEF QueueInv, Types
<1>3. Holding(t, d) /\ ~Holding(t, d)' /\ Top(t) = frame[t][d]
  BY <1>1, <1>2 DEF Holding, Top, Levels
<1>4. Top(t).info \in CallbackInfo /\ ~Top(t).info.marked
  BY <1>3 DEF QueueInv, Types, Prepared
<1>5. callbacks \in Seq(CallbackInfo)
  BY DEF QueueInv, Types, QueueTypes
<1>6. QueueTypes'
  <2>1. CASE enabled
    <3>1. callbacks' = Append(callbacks, Top(t).info)
      BY <2>1 DEF AddPush
    <3>2. callbacks' \in Seq(CallbackInfo) /\ \A i \in DOMAIN callbacks' :
            \/ i \in DOMAIN callbacks /\ callbacks'[i] = callbacks[i]
            \/ callbacks'[i] = Top(t).info
      BY <1>4, <1>5, <3>1
    <3> QED BY <1>1, <1>4, <3>2 DEF QueueInv, Types, QueueTypes
  <2>2. CASE ~enabled
    BY <1>1, <2>2 DEF AddPush, QueueInv, Types, QueueTypes
  <2> QED BY <2>1, <2>2
<1>7. LockTypes'
  BY <1>1 DEF QueueInv, Types, LockTypes
<1>8. OnePlace'
  <2>1. CASE enabled
    <3>1. callbacks' = Append(callbacks, frame[t][d].info)
      BY <1>3, <2>1 DEF AddPush
    <3>2. HoldsNoMore
      BY <1>2, <1>3, HeldElsewhere
    <3> QED BY <1>1, <1>3, <3>1, <3>2, HeldToQueue, TypesFacts DEF QueueInv
  <2>2. CASE ~enabled
    <3>1. UNCHANGED callbacks /\ tls' \in [Threads -> Seq(CallbackInfo)]
      BY <1>1, <2>2 DEF AddPush, QueueInv, Types, QueueTypes
    <3>2. UNCHANGED <<callbacks, added>> /\ tls' = tls
      BY <1>1, <3>1
    <3> QED BY <1>2, <1>3, <3>1, <3>2, OnePlaceDrops
  <2> QED BY <2>1, <2>2
<1>9. callingIn' \in [Threads -> Ids \cup {NoId}]
  BY <1>1 DEF QueueInv, Types, FrameTypes
<1>10. /\ Types' /\ IsFiniteSet(Units(Load)') /\ Owed \in Nat /\ Owed' \in Nat
       /\ Owed' = Owed + (Len(tls'[t]) - Len(tls[t])) - Weight(Top(t))
  BY <1>1, <1>6, <1>7, <1>8, <1>9, AssembleReturn
<1>11. Len(tls[t]) \in Nat /\ tls' = tls /\ calling \in Int /\ calling' = calling /\ Weight(Top(t)) \in Nat
  <2>1. tls[t] \in Seq(CallbackInfo) /\ calling \in Int
    BY DEF QueueInv, Types, QueueTypes, Covered
  <2>2. Weight(Top(t)) \in Nat
    BY <1>1, TopTyped, TypesFacts DEF QueueInv, Types
  <2> QED BY <1>1, <2>1, <2>2
<1>12. Owed' = Owed - Weight(Top(t))
  BY <1>10, <1>11
<1>13. calling' - Owed' = calling - Owed + Weight(Top(t))
  BY <1>10, <1>11, <1>12
<1> QED BY <1>8, <1>10, <1>11, <1>13 DEF Leaves

\* The numbers of a thread.
LEMMA CountTypes ==
  ASSUME QueueInv, NEW t \in Threads
  PROVE  /\ tls[t] \in Seq(CallbackInfo) /\ Len(tls[t]) \in Nat /\ calling \in Int
         /\ depth[t] > 0 => Weight(Top(t)) \in Nat /\ Top(t).called \in Nat
<1>1. tls[t] \in Seq(CallbackInfo) /\ calling \in Int
  BY DEF QueueInv, Types, QueueTypes, Covered
<1>2. depth[t] > 0 => Weight(Top(t)) \in Nat /\ Top(t).called \in Nat
  BY TopTyped, TypesFacts DEF QueueInv, Types
<1> QED BY <1>1, <1>2

\* calling_ grows by m more than what is owed to it.
LEMMA GrowsBy ==
  ASSUME calling \in Int, Owed \in Nat, NEW m \in Nat, NEW k \in Nat,
         calling' = calling + (m + k), Owed' = Owed + k
  PROVE  calling' \in Int /\ calling' - Owed' = calling - Owed + m
OBVIOUS

\* How calling_ grows when a call takes callbacks.
LEMMA TakeCounts ==
  ASSUME QueueInv, NEW t \in Threads, NEW op, TakeCallbacks(t, op),
         Owed \in Nat, Owed' \in Nat, Owed' = Owed + (Len(tls'[t]) - Len(tls[t]))
  PROVE  \E g \in Nat : /\ calling' \in Int /\ calling' - Owed' = calling - Owed + g
                        /\ Len(tls[t]) = 0 => g = 0
<1>1. PICK k \in 1..Len(callbacks) : /\ Len(tls'[t]) = Len(tls[t]) + k
                                     /\ op = "callOne" => k = 1
  BY TakeFacts DEF QueueInv, Types
<1>2. Len(tls[t]) \in Nat /\ calling \in Int
  BY CountTypes
<1>3. k \in Nat
  <2>1. callbacks \in Seq(CallbackInfo)
    BY DEF QueueInv, Types, QueueTypes
  <2> QED BY <2>1
<1>4. Owed' = Owed + k
  BY <1>1, <1>2, <1>3
<1>5. PICK m \in Nat : calling' = calling + (m + k) /\ (Len(tls[t]) = 0 => m = 0)
  <2>1. CASE op = "callOne"
    <3>1. calling' = calling + (0 + k)
      BY <1>1, <2>1 DEF TakeCallbacks
    <3> QED BY <3>1
  <2>2. CASE op # "callOne"
    <3>1. calling' = calling + (Len(tls[t]) + k)
      BY <1>1, <2>2 DEF TakeCallbacks
    <3> QED BY <1>2, <3>1
  <2> QED BY <2>1, <2>2
<1>6. calling' \in Int /\ calling' - Owed' = calling - Owed + m
  BY <1>2, <1>3, <1>4, <1>5, GrowsBy
<1> QED BY <1>5, <1>6

\* The queue and the lists after a call has taken callbacks.
LEMMA TakeTypes ==
  ASSUME QueueInv, NEW t \in Threads, NEW op, TakeCallbacks(t, op), UNCHANGED <<enabled, added>>,
         HoldsNoMore
  PROVE  /\ QueueTypes' /\ OnePlace' /\ tls'[t] # <<>>
         /\ \A u \in Threads : u # t => tls'[u] = tls[u]
<1>1. PICK k \in 1..Len(callbacks) :
           /\ Takes(t, k)
           /\ tls' \in [Threads -> Seq(CallbackInfo)] /\ tls'[t] # <<>>
           /\ callbacks' \in Seq(CallbackInfo)
           /\ \A i \in DOMAIN callbacks' : ~callbacks'[i].marked
  BY TakeFacts DEF QueueInv, Types
<1>2. QueueTypes'
  BY <1>1 DEF QueueInv, Types, QueueTypes
<1>3. k \in 0..Len(callbacks)
  <2>1. callbacks \in Seq(CallbackInfo)
    BY DEF QueueInv, Types, QueueTypes
  <2> QED BY <2>1
<1>4. OnePlace'
  BY <1>1, <1>3, QueueToList, TypesFacts DEF QueueInv
<1> QED BY <1>1, <1>2, <1>4 DEF Takes

\* callOne and callAvailable begin: they wait, or take callbacks.
LEMMA BeginLeaves ==
  ASSUME QueueInv, StackInv', NEW t \in Threads, NEW op \in {"callOne", "callAvailable"},
         CallBegin(t, op)
  PROVE  \E g \in Nat : Leaves(g) /\ (Len(tls[t]) = 0 => g = 0)
<1> DEFINE f(pc) == [NoFrame EXCEPT !.op = op, !.pc = pc]
<1>1. /\ f("wait") \in Frame /\ f("wait").called = 0 /\ f("wait").pc = "wait"
      /\ f("lookup") \in Frame /\ f("lookup").called = 0 /\ f("lookup").pc = "lookup"
  <2>1. op \in AllOps /\ {"wait", "lookup"} \subseteq PCs
    BY DEF AllOps, PCs
  <2>2. f("wait") \in Frame /\ f("lookup") \in Frame
    BY <2>1, NoFrameTyped DEF Frame
  <2> QED BY <2>2 DEF NoFrame
<1>2. UNCHANGED <<enabled, idInfo, created, shared, writerWaits, callingIn, added>>
  BY DEF CallBegin, lockvars
<1>3. LockTypes'
  BY <1>2 DEF QueueInv, Types, LockTypes
<1>4. CASE Enter(t, f("wait")) /\ UNCHANGED <<callbacks, calling, tls>>
  <2> HIDE DEF f
  <2>1. QueueTypes'
    BY <1>2, <1>4 DEF QueueInv, Types, QueueTypes
  <2>2. PICK d \in Levels : ChangesAt(t, d) /\ frame'[t][d] = f("wait")
    BY <1>4, EnterChanges DEF QueueInv, Types
  <2>3. ~Holding(t, d)'
    BY <1>1, <2>2 DEF Holding
  <2>4. tls' \in [Threads -> Seq(CallbackInfo)]
    BY <2>1 DEF QueueTypes
  <2>5. OnePlace'
    BY <1>2, <1>4, <2>2, <2>3, <2>4, OnePlaceDrops
  <2>6. /\ Types' /\ IsFiniteSet(Units(Load)') /\ Owed \in Nat /\ Owed' \in Nat
        /\ Owed' = Owed + (Len(tls'[t]) - Len(tls[t]))
    BY <1>1, <1>2, <1>3, <1>4, <2>1, <2>5, AssembleEnter
  <2>7. Owed' = Owed
    BY <1>4, <2>6, CountTypes
  <2>8. calling' \in Int /\ calling' - Owed' = calling - Owed + 0 /\ 0 \in Nat
    BY <1>4, <2>6, <2>7, CountTypes
  <2> QED BY <2>5, <2>6, <2>8 DEF Leaves
<1>5. CASE TakeCallbacks(t, op) /\ Enter(t, f("lookup"))
  <2> HIDE DEF f
  <2>1. PICK d \in Levels : ChangesAt(t, d) /\ frame'[t][d] = f("lookup")
    BY <1>5, EnterChanges DEF QueueInv, Types
  <2>2. ~Holding(t, d)'
    BY <1>1, <2>1 DEF Holding
  <2>3. HoldsNoMore
    BY <2>1, <2>2, HeldElsewhere
  <2>4. /\ QueueTypes' /\ OnePlace' /\ tls'[t] # <<>>
        /\ \A u \in Threads : u # t => tls'[u] = tls[u]
    BY <1>2, <1>5, <2>3, TakeTypes
  <2>5. /\ Types' /\ IsFiniteSet(Units(Load)') /\ Owed \in Nat /\ Owed' \in Nat
        /\ Owed' = Owed + (Len(tls'[t]) - Len(tls[t]))
    BY <1>1, <1>2, <1>3, <1>5, <2>4, AssembleEnter
  <2>6. PICK g \in Nat : /\ calling' \in Int /\ calling' - Owed' = calling - Owed + g
                         /\ Len(tls[t]) = 0 => g = 0
    BY <1>5, <2>5, TakeCounts
  <2> QED BY <2>4, <2>5, <2>6 DEF Leaves
<1> QED BY <1>4, <1>5 DEF CallBegin

\* The wait ends: the call returns, or takes callbacks.
LEMMA WakeLeaves ==
  ASSUME QueueInv, StackInv', NEW t \in Threads, CallWake(t)
  PROVE  \E g \in Nat : Leaves(g) /\ (Len(tls[t]) = 0 /\ Top(t).called = 0 => g = 0)
<1>1. /\ depth[t] > 0 /\ Top(t).pc = "wait"
      /\ UNCHANGED <<enabled, idInfo, created, shared, writerWaits, callingIn, added>>
  BY DEF CallWake, At, lockvars
<1>2. LockTypes' /\ callingIn' \in [Threads -> Ids \cup {NoId}]
  BY <1>1 DEF QueueInv, Types, LockTypes, FrameTypes
<1>3. Top(t) \in Frame /\ Weight(Top(t)) = Top(t).called /\ Top(t).called \in Nat
  BY <1>1, TopTyped, CountTypes DEF QueueInv, Types, Weight, One
<1>4. CASE Return(t) /\ UNCHANGED <<callbacks, calling, tls>>
  <2>1. QueueTypes'
    BY <1>1, <1>4 DEF QueueInv, Types, QueueTypes
  <2>2. PICK d \in Levels : d = depth[t] /\ ChangesAt(t, d) /\ depth'[t] = d - 1
    BY <1>1, <1>4, ReturnChanges DEF QueueInv, Types
  <2>3. ~Holding(t, d)'
    BY <2>2 DEF Holding, Levels
  <2>4. tls' \in [Threads -> Seq(CallbackInfo)]
    BY <2>1 DEF QueueTypes
  <2>5. OnePlace'
    BY <1>1, <1>4, <2>2, <2>3, <2>4, OnePlaceDrops
  <2>6. /\ Types' /\ IsFiniteSet(Units(Load)') /\ Owed \in Nat /\ Owed' \in Nat
        /\ Owed' = Owed + (Len(tls'[t]) - Len(tls[t])) - Weight(Top(t))
    BY <1>1, <1>2, <1>4, <2>1, <2>5, AssembleReturn
  <2>7. Owed' = Owed - Top(t).called
    BY <1>3, <1>4, <2>6, CountTypes
  <2>8. calling' \in Int /\ calling' - Owed' = calling - Owed + Top(t).called
    BY <1>3, <1>4, <2>6, <2>7, CountTypes
  <2> QED BY <1>3, <2>5, <2>6, <2>8 DEF Leaves
<1>5. CASE TakeCallbacks(t, Top(t).op) /\ Step(t, [Top(t) EXCEPT !.pc = "lookup"])
  <2> DEFINE f == [Top(t) EXCEPT !.pc = "lookup"]
  <2>1. f \in Frame /\ f.pc = "lookup" /\ f.called = Top(t).called
    BY <1>3 DEF Frame, PCs
  <2>2. Step(t, f)
    BY <1>5
  <2> HIDE DEF f
  <2>3. PICK d \in Levels : ChangesAt(t, d) /\ frame'[t][d] = f
    BY <1>1, <2>2, StepChanges DEF QueueInv, Types
  <2>4. ~Holding(t, d)'
    BY <2>1, <2>3 DEF Holding
  <2>5. HoldsNoMore
    BY <2>3, <2>4, HeldElsewhere
  <2>6. /\ QueueTypes' /\ OnePlace' /\ tls'[t] # <<>>
        /\ \A u \in Threads : u # t => tls'[u] = tls[u]
    BY <1>1, <1>5, <2>5, TakeTypes
  <2>7. /\ Types' /\ IsFiniteSet(Units(Load)') /\ Owed \in Nat /\ Owed' \in Nat
        /\ Owed' = Owed + (Len(tls'[t]) - Len(tls[t])) + (Weight(f) - Weight(Top(t)))
    BY <1>1, <1>2, <2>1, <2>2, <2>6, AssembleStep
  <2>8. Weight(f) = Weight(Top(t))
    BY <1>1, <2>1 DEF Weight, One
  <2>9. Len(tls'[t]) \in Nat
    <3>1. tls'[t] \in Seq(CallbackInfo)
      BY <2>6 DEF QueueTypes
    <3> QED BY <3>1
  <2>10. Owed' = Owed + (Len(tls'[t]) - Len(tls[t]))
    <3> DEFINE w == Weight(Top(t))
               n == Len(tls'[t]) - Len(tls[t])
    <3>1. w \in Int /\ n \in Int /\ Owed \in Int
      BY <1>3, <2>7, <2>9, CountTypes
    <3>2. Owed' = Owed + n + (w - w)
      BY <2>7, <2>8
    <3> HIDE DEF w, n
    <3>3. Owed' = Owed + n
      BY <3>1, <3>2
    <3> QED BY <3>3 DEF n
  <2>11. PICK g \in Nat : /\ calling' \in Int /\ calling' - Owed' = calling - Owed + g
                          /\ Len(tls[t]) = 0 => g = 0
    BY <1>5, <2>7, <2>10, TakeCounts
  <2> QED BY <2>6, <2>7, <2>11 DEF Leaves
<1> QED BY <1>4, <1>5 DEF CallWake

\* What is owed moves from one place to another.
LEMMA Balance ==
  ASSUME Owed \in Nat, NEW a \in Int, NEW b \in Int, NEW v \in Int, NEW w \in Int,
         Owed' = Owed + (a - b) + (v - w), a - b = w - v
  PROVE  Owed' = Owed
OBVIOUS

\* The types of the locks after one is locked or unlocked.
LEMMA LockingTyped ==
  ASSUME LockTypes, NEW id, NEW o, UNCHANGED <<idInfo, created>>,
         LockShared(id, o) \/ UnlockShared(id, o)
  PROVE  LockTypes'
<1>1. shared \in [Ids -> [Infos -> Int]] /\ writerWaits \in [Ids -> [Infos -> BOOLEAN]]
  BY DEF LockTypes
<1>2. shared' \in [Ids -> [Infos -> Int]]
  BY <1>1, LockCounts, UnlockCounts
<1>3. writerWaits' \in [Ids -> [Infos -> BOOLEAN]]
  <2>1. CASE LockShared(id, o)
    BY <1>1, <2>1 DEF LockShared
  <2>2. CASE UnlockShared(id, o)
    BY <1>1, <2>2 DEF UnlockShared
  <2> QED BY <2>1, <2>2
<1> QED BY <1>2, <1>3 DEF LockTypes

\* callOneCB has returned: the call holds no callback.
LEMMA AfterCallChanges ==
  ASSUME StackInv, FrameTypes, NEW t \in Threads, depth[t] > 0, AfterCall(t)
  PROVE  \E d \in Levels : d = depth[t] /\ ChangesAt(t, d) /\ ~Holding(t, d)'
<1>1. PICK f \in Frame : Step(t, f) /\ f.pc \in {"lookup", "account"}
  BY AfterCallTyped
<1>2. PICK d \in Levels : d = depth[t] /\ ChangesAt(t, d) /\ frame'[t][d] = f
  BY <1>1, StepChanges
<1> QED BY <1>1, <1>2 DEF Holding

\* callOneCB has returned: the call that counted, or dropped, a callback goes on.
LEMMA AfterCallLeaves ==
  ASSUME QueueInv, StackInv', QueueTypes', LockTypes', NEW t \in Threads, depth[t] > 0,
         callingIn' \in [Threads -> Ids \cup {NoId}], calling' = calling,
         AfterCall(t), \A u \in Threads : u # t => tls'[u] = tls[u],
         NEW n \in {0, 1}, Len(tls'[t]) = Len(tls[t]) - n,
         Top(t).pc = "in_call" <=> n = 0,
         OnePlace'
  PROVE  Leaves(0)
<1>1. PICK f \in Frame : /\ Step(t, f) /\ f.pc \in {"lookup", "account"}
                         /\ f.called = Top(t).called + 1
                         /\ f.pc = "lookup" => tls'[t] # <<>>
  BY AfterCallTyped DEF QueueInv, Types
<1>3. /\ Types' /\ IsFiniteSet(Units(Load)') /\ Owed \in Nat /\ Owed' \in Nat
      /\ Owed' = Owed + (Len(tls'[t]) - Len(tls[t])) + (Weight(f) - Weight(Top(t)))
  BY <1>1, AssembleStep
<1>4. Len(tls[t]) \in Int /\ Len(tls'[t]) \in Int /\ Top(t).called \in Nat /\ calling \in Int
  BY CountTypes
<1>5. /\ Weight(f) = Top(t).called + 1 /\ Weight(Top(t)) = Top(t).called + (1 - n)
      /\ Weight(f) \in Int /\ Weight(Top(t)) \in Int
  BY <1>1, <1>4 DEF Weight, One
<1>6. Len(tls'[t]) - Len(tls[t]) = Weight(Top(t)) - Weight(f)
  BY <1>4, <1>5
<1>7. Owed' = Owed
  BY <1>3, <1>4, <1>5, <1>6, Balance
<1>8. calling' - Owed' = calling - Owed + 0
  BY <1>3, <1>4, <1>7
<1> QED BY <1>3, <1>4, <1>7, <1>8 DEF Leaves

\* callOneCB finds the IDInfo of the next callback, or drops the callback.
LEMMA LookupLeaves ==
  ASSUME QueueInv, StackInv', NEW t \in Threads, Lookup(t)
  PROVE  Leaves(0)
<1> DEFINE info == Head(tls[t])
           f == [Top(t) EXCEPT !.pc = "lock_shared", !.info = info,
                               !.id = info.id, !.obj = idInfo[info.id]]
<1>1. /\ depth[t] > 0 /\ Top(t).pc = "lookup" /\ tls[t] # <<>>
      /\ UNCHANGED <<callbacks, calling, enabled, idInfo, created, shared, writerWaits,
                     callingIn, added>>
  BY DEF Lookup, At, lockvars, qvars, QueueInv, Types, Prepared
<1>2. LockTypes' /\ callingIn' \in [Threads -> Ids \cup {NoId}]
  BY <1>1 DEF QueueInv, Types, LockTypes, FrameTypes
<1>3. CASE tls' = [tls EXCEPT ![t] = Tail(@)] /\ AfterCall(t)
  <2>1. /\ tls' \in [Threads -> Seq(CallbackInfo)] /\ tls'[t] = Tail(tls[t])
        /\ \A u \in Threads : u # t => tls'[u] = tls[u]
        /\ Len(tls'[t]) = Len(tls[t]) - 1
    BY <1>1, <1>3, TailTyped DEF QueueInv
  <2>2. QueueTypes'
    BY <1>1, <2>1 DEF QueueInv, Types, QueueTypes
  <2>3. OnePlace'
    <3>1. PICK d \in Levels : d = depth[t] /\ ChangesAt(t, d) /\ ~Holding(t, d)'
      BY <1>1, <1>3, AfterCallChanges DEF QueueInv, Types
    <3> QED BY <1>1, <2>1, <3>1, OnePlaceDrops
  <2>4. 1 \in {0, 1} /\ (Top(t).pc = "in_call" <=> 1 = 0)
    BY <1>1
  <2> QED BY <1>1, <1>2, <1>3, <2>1, <2>2, <2>3, <2>4, AfterCallLeaves
<1>4. CASE Step(t, f) /\ UNCHANGED tls
  <2>1. info \in CallbackInfo
    <3>1. tls[t] \in Seq(CallbackInfo)
      BY CountTypes
    <3> QED BY <1>1, <3>1
  <2>2. Top(t) \in Frame
    BY <1>1, TopTyped DEF QueueInv, Types
  <2>3. /\ f \in Frame /\ f.pc = "lock_shared" /\ f.info = info /\ f.called = Top(t).called
    <3>1. info.id \in Ids /\ idInfo[info.id] \in 0..MaxInfos
      BY <2>1 DEF CallbackInfo, QueueInv, Types, LockTypes
    <3>2. "lock_shared" \in PCs
      BY DEF PCs
    <3> HIDE DEF info
    <3> QED BY <2>1, <2>2, <3>1, <3>2 DEF Frame
  <2> HIDE DEF f
  <2>4. QueueTypes'
    BY <1>1, <1>4 DEF QueueInv, Types, QueueTypes
  <2>5. PICK d \in Levels : ChangesAt(t, d) /\ frame'[t][d] = f
    BY <1>1, <1>4, StepChanges DEF QueueInv, Types
  <2>6. ~Holding(t, d)'
    BY <2>3, <2>5 DEF Holding
  <2>7. tls' \in [Threads -> Seq(CallbackInfo)]
    BY <2>4 DEF QueueTypes
  <2>8. OnePlace'
    BY <1>1, <1>4, <2>5, <2>6, <2>7, OnePlaceDrops
  <2>9. tls'[t] # <<>> /\ f.info = Head(tls'[t])
    BY <1>1, <1>4, <2>3
  <2>10. /\ Types' /\ IsFiniteSet(Units(Load)') /\ Owed \in Nat /\ Owed' \in Nat
         /\ Owed' = Owed + (Len(tls'[t]) - Len(tls[t])) + (Weight(f) - Weight(Top(t)))
    BY <1>1, <1>2, <1>4, <2>3, <2>4, <2>8, <2>9, AssembleStep
  <2>11. /\ Weight(f) = Weight(Top(t)) /\ Weight(f) \in Int /\ Weight(Top(t)) \in Int
         /\ Len(tls'[t]) = Len(tls[t]) /\ Len(tls[t]) \in Int /\ calling \in Int
    <3>1. Weight(f) = Weight(Top(t))
      BY <1>1, <2>3 DEF Weight, One
    <3> QED BY <1>1, <1>4, <3>1, CountTypes
  <2>12. Owed' = Owed
    BY <2>10, <2>11, Balance
  <2>13. calling' - Owed' = calling - Owed + 0 /\ calling' \in Int
    BY <1>1, <2>10, <2>11, <2>12
  <2> QED BY <2>8, <2>10, <2>13 DEF Leaves
<1> QED BY <1>3, <1>4 DEF Lookup

\* callOneCB calls the callback under the shared lock, or drops a marked one.
LEMMA StartLeaves ==
  ASSUME QueueInv, StackInv', NEW t \in Threads, StartCall(t)
  PROVE  Leaves(0)
<1>1. /\ depth[t] > 0 /\ Top(t).pc = "lock_shared" /\ tls[t] # <<>>
      /\ Top(t).info = Head(tls[t]) /\ tls' = [tls EXCEPT ![t] = Tail(@)]
      /\ UNCHANGED <<callbacks, calling, enabled, idInfo, created, added>>
  BY DEF StartCall, At, qvars, QueueInv, Types, Prepared
<1>2. /\ tls' \in [Threads -> Seq(CallbackInfo)] /\ tls'[t] = Tail(tls[t])
      /\ \A u \in Threads : u # t => tls'[u] = tls[u]
      /\ Head(tls[t]) \in CallbackInfo
      /\ Len(tls[t]) \in Nat /\ Len(tls'[t]) = Len(tls[t]) - 1
  BY <1>1, TailTyped DEF QueueInv
<1>3. QueueTypes'
  BY <1>1, <1>2 DEF QueueInv, Types, QueueTypes
<1>4. CASE Top(t).info.marked
  <2>1. AfterCall(t) /\ UNCHANGED <<shared, writerWaits, callingIn>>
    BY <1>4 DEF StartCall
  <2>2. LockTypes' /\ callingIn' \in [Threads -> Ids \cup {NoId}]
    BY <1>1, <2>1 DEF QueueInv, Types, LockTypes, FrameTypes
  <2>3. OnePlace'
    <3>1. PICK d \in Levels : d = depth[t] /\ ChangesAt(t, d) /\ ~Holding(t, d)'
      BY <1>1, <2>1, AfterCallChanges DEF QueueInv, Types
    <3> QED BY <1>1, <1>2, <3>1, OnePlaceDrops
  <2>4. 1 \in {0, 1} /\ (Top(t).pc = "in_call" <=> 1 = 0)
    BY <1>1
  <2> QED BY <1>1, <1>2, <1>3, <2>1, <2>2, <2>3, <2>4, AfterCallLeaves
<1>5. CASE ~Top(t).info.marked
  <2> DEFINE f == [Top(t) EXCEPT !.pc = "in_call", !.last = callingIn[t]]
  <2>1. /\ LockShared(Top(t).id, Top(t).obj) /\ Step(t, f)
        /\ callingIn' = [callingIn EXCEPT ![t] = Top(t).id]
    BY <1>5 DEF StartCall
  <2>2. Top(t) \in Frame /\ callingIn[t] \in Ids \cup {NoId}
    BY <1>1, TopTyped DEF QueueInv, Types, FrameTypes
  <2>3. f \in Frame /\ f.pc = "in_call" /\ f.info = Top(t).info /\ f.called = Top(t).called
    BY <2>2 DEF Frame, PCs
  <2> HIDE DEF f
  <2>4. callingIn' \in [Threads -> Ids \cup {NoId}]
    <3>1. Top(t).id \in Ids \cup {NoId}
      BY <2>2 DEF Frame
    <3> QED BY <2>1, <3>1 DEF QueueInv, Types, FrameTypes
  <2>5. LockTypes'
    BY <1>1, <2>1, LockingTyped DEF QueueInv, Types
  <2>6. PICK d \in Levels : d = depth[t] /\ ChangesAt(t, d) /\ frame'[t][d] = f
    BY <1>1, <2>1, StepChanges DEF QueueInv, Types
  <2>7. OnePlace'
    <3>1. tls' = [tls EXCEPT ![t] = Tail(tls[t])] /\ UNCHANGED <<callbacks, added>>
      BY <1>1
    <3>2. frame'[t][d].info = Head(tls[t])
      BY <1>1, <2>3, <2>6
    <3>3. \A u \in Threads, e \in Levels :
              Holding(u, e)' => \/ u = t /\ e = d
                                \/ Holding(u, e) /\ frame'[u][e].info = frame[u][e].info
      BY <2>6, HeldElsewhere
    <3> QED BY <1>1, <3>1, <3>2, <3>3, ListToHeld, TypesFacts DEF QueueInv
  <2>8. f.info \in CallbackInfo /\ ~f.info.marked
    BY <1>1, <1>2, <1>5, <2>3
  <2>9. /\ Types' /\ IsFiniteSet(Units(Load)') /\ Owed \in Nat /\ Owed' \in Nat
        /\ Owed' = Owed + (Len(tls'[t]) - Len(tls[t])) + (Weight(f) - Weight(Top(t)))
    BY <1>1, <1>2, <1>3, <2>1, <2>3, <2>4, <2>5, <2>7, <2>8, AssembleStep
  <2>10. Top(t).called \in Nat /\ calling \in Int
    BY <1>1, CountTypes
  <2>11. /\ Weight(f) = Top(t).called + 1 /\ Weight(Top(t)) = Top(t).called
         /\ Weight(f) \in Int /\ Weight(Top(t)) \in Int
    BY <1>1, <2>3, <2>10 DEF Weight, One
  <2>12. /\ Len(tls'[t]) \in Int /\ Len(tls[t]) \in Int
         /\ Len(tls'[t]) - Len(tls[t]) = Weight(Top(t)) - Weight(f)
    BY <1>2, <2>10, <2>11
  <2>13. Owed' = Owed
    BY <2>9, <2>11, <2>12, Balance
  <2>14. calling' - Owed' = calling - Owed + 0 /\ calling' \in Int
    BY <1>1, <2>9, <2>10, <2>13
  <2> QED BY <2>7, <2>9, <2>14 DEF Leaves
<1> QED BY <1>4, <1>5

\* A callback returns: it is done, or goes back to the queue.
LEMMA EndLeaves ==
  ASSUME QueueInv, StackInv', NEW t \in Threads, NEW r \in {"Success", "TryAgain"}, EndCall(t, r)
  PROVE  Leaves(0)
<1>1. /\ depth[t] > 0 /\ Top(t).pc = "in_call" /\ AfterCall(t)
      /\ UNCHANGED <<tls, calling, enabled, idInfo, created, added>>
      /\ UnlockShared(Top(t).id, Top(t).obj)
      /\ callingIn' = [callingIn EXCEPT ![t] = Top(t).last]
  BY DEF EndCall, At
<1>2. PICK d \in Levels : d = depth[t] /\ ChangesAt(t, d) /\ ~Holding(t, d)'
  BY <1>1, AfterCallChanges DEF QueueInv, Types
<1>3. /\ Top(t) \in Frame /\ Top(t) = frame[t][d] /\ Holding(t, d)
      /\ Top(t).info \in CallbackInfo /\ ~Top(t).info.marked
  <2>1. Top(t) \in Frame /\ Top(t) = frame[t][d] /\ Holding(t, d)
    BY <1>1, <1>2, TopTyped DEF QueueInv, Types, Top
  <2> QED BY <2>1 DEF QueueInv, Types, Prepared
<1>4. callingIn' \in [Threads -> Ids \cup {NoId}]
  BY <1>1, <1>3 DEF Frame, QueueInv, Types, FrameTypes
<1>5. LockTypes'
  BY <1>1, LockingTyped DEF QueueInv, Types
<1>6. QueueTypes' /\ OnePlace'
  <2>1. CASE r = "TryAgain"
    <3>1. callbacks' = Append(callbacks, Top(t).info)
      BY <2>1 DEF EndCall
    <3>2. callbacks \in Seq(CallbackInfo)
      BY DEF QueueInv, Types, QueueTypes
    <3>3. callbacks' \in Seq(CallbackInfo) /\ \A i \in DOMAIN callbacks' :
            \/ i \in DOMAIN callbacks /\ callbacks'[i] = callbacks[i]
            \/ callbacks'[i] = Top(t).info
      BY <1>3, <3>1, <3>2
    <3>4. QueueTypes'
      BY <1>1, <1>3, <3>3 DEF QueueInv, Types, QueueTypes
    <3>5. HoldsNoMore
      BY <1>2, HeldElsewhere
    <3>6. OnePlace'
      BY <1>1, <1>2, <1>3, <3>1, <3>5, HeldToQueue, TypesFacts DEF QueueInv
    <3> QED BY <3>4, <3>6
  <2>2. CASE r # "TryAgain"
    <3>1. callbacks' = callbacks
      BY <2>2 DEF EndCall
    <3>2. QueueTypes'
      BY <1>1, <3>1 DEF QueueInv, Types, QueueTypes
    <3>3. tls' \in [Threads -> Seq(CallbackInfo)]
      BY <3>2 DEF QueueTypes
    <3>4. OnePlace'
      BY <1>1, <1>2, <3>1, <3>3, OnePlaceDrops
    <3> QED BY <3>2, <3>4
  <2> QED BY <2>1, <2>2
<1>7. Len(tls'[t]) = Len(tls[t]) - 0
  BY <1>1, CountTypes
<1>8. 0 \in {0, 1} /\ (Top(t).pc = "in_call" <=> 0 = 0) /\ \A u \in Threads : u # t => tls'[u] = tls[u]
  BY <1>1
<1> QED BY <1>1, <1>4, <1>5, <1>6, <1>7, <1>8, AfterCallLeaves

\* What a call that returns owes no more, while the lists stay.
LEMMA ReturnLeaves ==
  ASSUME QueueInv, StackInv', LockTypes', callingIn' \in [Threads -> Ids \cup {NoId}],
         UNCHANGED <<callbacks, enabled, added, tls>>,
         NEW t \in Threads, depth[t] > 0, Return(t)
  PROVE  /\ Types' /\ OnePlace' /\ IsFiniteSet(Units(Load)')
         /\ Owed \in Nat /\ Owed' \in Nat /\ Weight(Top(t)) \in Nat
         /\ Owed' = Owed - Weight(Top(t))
<1>1. QueueTypes'
  BY DEF QueueInv, Types, QueueTypes
<1>2. PICK d \in Levels : d = depth[t] /\ ChangesAt(t, d) /\ depth'[t] = d - 1
  BY ReturnChanges DEF QueueInv, Types
<1>3. ~Holding(t, d)'
  BY <1>2 DEF Holding, Levels
<1>4. tls' \in [Threads -> Seq(CallbackInfo)]
  BY <1>1 DEF QueueTypes
<1>5. OnePlace'
  BY <1>2, <1>3, <1>4, OnePlaceDrops
<1>6. /\ Types' /\ IsFiniteSet(Units(Load)') /\ Owed \in Nat /\ Owed' \in Nat
      /\ Owed' = Owed + (Len(tls'[t]) - Len(tls[t])) - Weight(Top(t))
  BY <1>1, <1>5, AssembleReturn
<1>7. Len(tls[t]) \in Nat /\ Len(tls'[t]) = Len(tls[t]) /\ Weight(Top(t)) \in Nat
  BY CountTypes
<1>8. Owed' = Owed - Weight(Top(t))
  BY <1>6, <1>7
<1> QED BY <1>5, <1>6, <1>7, <1>8

\* A callback throws: what its call has counted is never subtracted.
LEMMA ThrowLeaves ==
  ASSUME QueueInv, StackInv', NEW t \in Threads, ThrowCall(t)
  PROVE  \E g \in Nat : Leaves(g)
<1>1. /\ depth[t] > 0 /\ Return(t)
      /\ UNCHANGED <<tls, calling, callbacks, enabled, idInfo, created, added>>
      /\ UnlockShared(Top(t).id, Top(t).obj)
      /\ callingIn' = [callingIn EXCEPT ![t] = Top(t).last]
  BY DEF ThrowCall, At, qvars
<1>2. Top(t).last \in Ids \cup {NoId}
  <2>1. Top(t) \in Frame
    BY <1>1, TopTyped DEF QueueInv, Types
  <2> QED BY <2>1 DEF Frame
<1>3. callingIn' \in [Threads -> Ids \cup {NoId}]
  BY <1>1, <1>2 DEF QueueInv, Types, FrameTypes
<1>4. LockTypes'
  BY <1>1, LockingTyped DEF QueueInv, Types
<1>5. /\ Types' /\ OnePlace' /\ IsFiniteSet(Units(Load)')
      /\ Owed \in Nat /\ Owed' \in Nat /\ Weight(Top(t)) \in Nat
      /\ Owed' = Owed - Weight(Top(t))
  BY <1>1, <1>3, <1>4, ReturnLeaves
<1>6. calling \in Int /\ calling' = calling
  BY <1>1, CountTypes
<1>7. calling' - Owed' = calling - Owed + Weight(Top(t))
  BY <1>5, <1>6
<1> QED BY <1>5, <1>6, <1>7 DEF Leaves

\* callOne and callAvailable end: what they have counted is subtracted.
LEMMA AccountLeaves ==
  ASSUME QueueInv, StackInv', NEW t \in Threads, Account(t)
  PROVE  Leaves(0)
<1>1. /\ depth[t] > 0 /\ Top(t).pc = "account" /\ Return(t)
      /\ UNCHANGED <<tls, callbacks, enabled, idInfo, created, shared, writerWaits, callingIn, added>>
      /\ calling' = calling - Top(t).called
  BY DEF Account, At, lockvars
<1>2. LockTypes' /\ callingIn' \in [Threads -> Ids \cup {NoId}]
  BY <1>1 DEF QueueInv, Types, LockTypes, FrameTypes
<1>3. /\ Types' /\ OnePlace' /\ IsFiniteSet(Units(Load)')
      /\ Owed \in Nat /\ Owed' \in Nat /\ Weight(Top(t)) \in Nat
      /\ Owed' = Owed - Weight(Top(t))
  BY <1>1, <1>2, ReturnLeaves
<1>4. calling \in Int /\ Top(t).called \in Nat /\ Weight(Top(t)) = Top(t).called
  BY <1>1, CountTypes DEF Weight, One
<1>5. calling' \in Int /\ calling' - Owed' = calling - Owed + 0
  BY <1>1, <1>3, <1>4
<1> QED BY <1>3, <1>5 DEF Leaves

\* removeByID begins, and gives up the lock of its caller's call.
LEMMA RemoveLeaves ==
  ASSUME QueueInv, StackInv', NEW t \in Threads, NEW id \in Ids, RemoveByID(t, id)
  PROVE  Leaves(0)
<1> DEFINE f == [NoFrame EXCEPT !.op = "removeByID", !.pc = "lock_unique",
                   !.id = id, !.obj = idInfo[id], !.own = (callingIn[t] = id)]
<1>1. /\ Enter(t, f)
      /\ UNCHANGED <<callbacks, calling, enabled, idInfo, created, tls, callingIn, added>>
      /\ UnlockShared(id, idInfo[id]) \/ UNCHANGED <<shared, writerWaits>>
  BY DEF RemoveByID, qvars
<1>2. f \in Frame /\ f.called = 0 /\ f.pc = "lock_unique"
  <2>1. "removeByID" \in AllOps /\ "lock_unique" \in PCs
    BY DEF AllOps, PCs
  <2>2. idInfo[id] \in 0..MaxInfos
    BY DEF QueueInv, Types, LockTypes
  <2>3. f \in Frame
    BY <2>1, <2>2, NoFrameTyped DEF Frame
  <2> QED BY <2>3 DEF NoFrame
<1> HIDE DEF f
<1>3. QueueTypes'
  BY <1>1 DEF QueueInv, Types, QueueTypes
<1>4. LockTypes'
  <2>1. CASE UnlockShared(id, idInfo[id])
    BY <1>1, <2>1, LockingTyped DEF QueueInv, Types
  <2>2. CASE UNCHANGED <<shared, writerWaits>>
    BY <1>1, <2>2 DEF QueueInv, Types, LockTypes
  <2> QED BY <1>1, <2>1, <2>2
<1>5. PICK d \in Levels : ChangesAt(t, d) /\ frame'[t][d] = f
  BY <1>1, EnterChanges DEF QueueInv, Types
<1>6. ~Holding(t, d)'
  BY <1>2, <1>5 DEF Holding
<1>7. tls' \in [Threads -> Seq(CallbackInfo)]
  BY <1>3 DEF QueueTypes
<1>8. OnePlace'
  BY <1>1, <1>5, <1>6, <1>7, OnePlaceDrops
<1>9. /\ Types' /\ IsFiniteSet(Units(Load)') /\ Owed \in Nat /\ Owed' \in Nat
      /\ Owed' = Owed + (Len(tls'[t]) - Len(tls[t]))
  BY <1>1, <1>2, <1>3, <1>4, <1>8, AssembleEnter
<1>10. Owed' = Owed
  BY <1>1, <1>9, CountTypes
<1>11. calling' \in Int /\ calling' - Owed' = calling - Owed + 0
  BY <1>1, <1>9, <1>10, CountTypes
<1> QED BY <1>8, <1>9, <1>11 DEF Leaves

\* A call of removeByID moves on, and the queue loses callbacks at most.
LEMMA RemoveStep ==
  ASSUME QueueInv, StackInv', QueueTypes', LockTypes', DistinctIn(callbacks'),
         UNCHANGED <<tls, calling, added, callingIn>>,
         \A k \in DOMAIN callbacks' : \E j \in DOMAIN callbacks : callbacks'[k] = callbacks[j],
         NEW t \in Threads, depth[t] > 0, Top(t).pc # "in_call",
         NEW pc \in {"relock", "erase"}, Step(t, [Top(t) EXCEPT !.pc = pc])
  PROVE  Leaves(0)
<1> DEFINE f == [Top(t) EXCEPT !.pc = pc]
<1>1. f \in Frame /\ f.pc = pc /\ f.called = Top(t).called
  <2>1. Top(t) \in Frame /\ pc \in PCs
    BY TopTyped DEF QueueInv, Types, PCs
  <2> QED BY <2>1 DEF Frame
<1>2. Step(t, f)
  OBVIOUS
<1> HIDE DEF f
<1>3. PICK d \in Levels : ChangesAt(t, d) /\ frame'[t][d] = f
  BY <1>2, StepChanges DEF QueueInv, Types
<1>4. ~Holding(t, d)'
  BY <1>1, <1>3 DEF Holding
<1>5. HoldsNoMore
  BY <1>3, <1>4, HeldElsewhere
<1>6. OnePlace'
  <2>1. \A u \in Threads : Shrinks(u)
    BY SameList, TypesFacts DEF QueueInv
  <2>2. tls' \in [Threads -> Seq(CallbackInfo)] /\ added' \in Nat /\ added <= added'
    BY TypesFacts DEF QueueInv, PlacesTyped
  <2> QED BY <1>5, <2>1, <2>2, Fewer, TypesFacts DEF QueueInv
<1>7. callingIn' \in [Threads -> Ids \cup {NoId}]
  BY DEF QueueInv, Types, FrameTypes
<1>8. /\ Types' /\ IsFiniteSet(Units(Load)') /\ Owed \in Nat /\ Owed' \in Nat
      /\ Owed' = Owed + (Len(tls'[t]) - Len(tls[t])) + (Weight(f) - Weight(Top(t)))
  BY <1>1, <1>2, <1>6, <1>7, AssembleStep
<1>9. /\ Weight(f) = Weight(Top(t)) /\ Weight(Top(t)) \in Int
      /\ Len(tls'[t]) = Len(tls[t]) /\ Len(tls[t]) \in Int /\ calling \in Int
  <2>1. Weight(f) = Weight(Top(t))
    BY <1>1 DEF Weight, One
  <2> QED BY <2>1, CountTypes
<1>10. Owed' = Owed
  BY <1>8, <1>9, Balance
<1>11. calling' \in Int /\ calling' - Owed' = calling - Owed + 0
  BY <1>8, <1>9, <1>10
<1> QED BY <1>6, <1>8, <1>11 DEF Leaves

\* The unique section: the queue loses the callbacks of the id, or the call waits.
LEMMA UniqueLeaves ==
  ASSUME QueueInv, StackInv', NEW t \in Threads, RemoveQueued(t)
  PROVE  Leaves(0)
<1>1. /\ depth[t] > 0 /\ Top(t).pc = "lock_unique"
      /\ UNCHANGED <<calling, enabled, idInfo, created, shared, tls, callingIn, added>>
  BY DEF RemoveQueued, At
<1>2. ASSUME NEW i, NEW o, NEW b \in BOOLEAN, writerWaits' = [writerWaits EXCEPT ![i][o] = b]
      PROVE  LockTypes'
  BY <1>1, <1>2 DEF QueueInv, Types, LockTypes
<1>3. CASE /\ callbacks' = OtherIds(Top(t).id)
           /\ writerWaits' = [writerWaits EXCEPT ![Top(t).id][Top(t).obj] = FALSE]
           /\ Step(t, [Top(t) EXCEPT !.pc = IF Top(t).own THEN "relock" ELSE "erase"])
  <2>1. LockTypes'
    BY <1>2, <1>3
  <2>2. callbacks \in Seq(CallbackInfo) /\ DistinctIn(callbacks)
    BY DEF QueueInv, Types, QueueTypes, OnePlace
  <2>3. /\ callbacks' \in Seq(CallbackInfo) /\ DistinctIn(callbacks')
        /\ \A k \in DOMAIN callbacks' : \E j \in DOMAIN callbacks : callbacks'[k] = callbacks[j]
    BY <1>3, <2>2, OtherIdsKept
  <2>4. QueueTypes'
    BY <1>1, <2>3 DEF QueueInv, Types, QueueTypes
  <2>5. PICK pc \in {"relock", "erase"} : Step(t, [Top(t) EXCEPT !.pc = pc])
    BY <1>3
  <2> QED BY <1>1, <2>1, <2>3, <2>4, <2>5, RemoveStep
<1>4. CASE /\ writerWaits' = [writerWaits EXCEPT ![Top(t).id][Top(t).obj] = TRUE]
           /\ UNCHANGED <<callbacks, depth, frame>>
  <2>1. LockTypes'
    BY <1>2, <1>4
  <2>2. enabled' \in BOOLEAN /\ callbacks' \in {callbacks, <<>>}
    BY <1>1, <1>4 DEF QueueInv, Types, QueueTypes
  <2> QED BY <1>1, <1>4, <2>1, <2>2, QuietLeaves
<1> QED BY <1>3, <1>4 DEF RemoveQueued

\* removeByID takes its caller's lock back.
LEMMA RelockLeaves ==
  ASSUME QueueInv, StackInv', NEW t \in Threads, RemoveRelock(t)
  PROVE  Leaves(0)
<1>1. /\ depth[t] > 0 /\ Top(t).pc = "relock" /\ Step(t, [Top(t) EXCEPT !.pc = "erase"])
      /\ UNCHANGED <<callbacks, calling, enabled, idInfo, created, tls, callingIn, added>>
      /\ LockShared(Top(t).id, Top(t).obj)
  BY DEF RemoveRelock, At, qvars
<1>2. LockTypes'
  BY <1>1, LockingTyped DEF QueueInv, Types
<1>3. QueueTypes'
  BY <1>1 DEF QueueInv, Types, QueueTypes
<1>4. DistinctIn(callbacks') /\ \A k \in DOMAIN callbacks' : \E j \in DOMAIN callbacks : callbacks'[k] = callbacks[j]
  BY <1>1 DEF QueueInv, OnePlace
<1> QED BY <1>1, <1>2, <1>3, <1>4, RemoveStep

\* removeByID ends: the thread's own entries of the id are marked.
LEMMA EraseLeaves ==
  ASSUME QueueInv, StackInv', NEW t \in Threads, RemoveErase(t)
  PROVE  Leaves(Weight(Top(t)))
<1> DEFINE s == [i \in DOMAIN tls[t] |->
                   [tls[t][i] EXCEPT !.marked = tls[t][i].marked \/ tls[t][i].id = Top(t).id]]
<1>1. /\ depth[t] > 0 /\ Top(t).pc = "erase" /\ Return(t)
      /\ UNCHANGED <<callbacks, calling, enabled, created, shared, writerWaits, callingIn, added>>
      /\ idInfo' = [idInfo EXCEPT ![Top(t).id] = 0] /\ tls' = [tls EXCEPT ![t] = s]
  <2>1. tls' = [tls EXCEPT ![t] = s]
    BY Zenon DEF RemoveErase
  <2> HIDE DEF s
  <2> QED BY <2>1 DEF RemoveErase, At, qvars
<1>2. LockTypes' /\ callingIn' \in [Threads -> Ids \cup {NoId}]
  <2>1. 0 \in 0..MaxInfos
    OBVIOUS
  <2> HIDE DEF s
  <2> QED BY <1>1, <2>1 DEF QueueInv, Types, LockTypes, FrameTypes
<1>3. tls \in [Threads -> Seq(CallbackInfo)] /\ tls[t] \in Seq(CallbackInfo)
  BY DEF QueueInv, Types, QueueTypes
<1>4. /\ s \in Seq(CallbackInfo) /\ Len(s) = Len(tls[t]) /\ DOMAIN s = DOMAIN tls[t]
      /\ \A i \in DOMAIN s : s[i].cb = tls[t][i].cb
  <2>1. ASSUME NEW i \in DOMAIN tls[t]
        PROVE  /\ [tls[t][i] EXCEPT !.marked = tls[t][i].marked \/ tls[t][i].id = Top(t).id] \in CallbackInfo
               /\ s[i].cb = tls[t][i].cb
    <3>1. tls[t][i] \in CallbackInfo
      BY <1>3
    <3> QED BY <3>1 DEF CallbackInfo
  <2>2. DOMAIN tls[t] = 1..Len(tls[t]) /\ Len(tls[t]) \in Nat
    BY <1>3
  <2>3. s \in [1..Len(tls[t]) -> CallbackInfo]
    BY <2>1, <2>2
  <2>4. s \in Seq(CallbackInfo) /\ Len(s) = Len(tls[t])
    BY <2>2, <2>3
  <2> QED BY <2>1, <2>4
<1> HIDE DEF s
<1>5. /\ tls' \in [Threads -> Seq(CallbackInfo)] /\ tls'[t] = s
      /\ \A u \in Threads : u # t => tls'[u] = tls[u]
  BY <1>1, <1>3, <1>4
<1>6. QueueTypes'
  BY <1>1, <1>5 DEF QueueInv, Types, QueueTypes
<1>7. PICK d \in Levels : d = depth[t] /\ ChangesAt(t, d) /\ depth'[t] = d - 1
  BY <1>1, ReturnChanges DEF QueueInv, Types
<1>8. ~Holding(t, d)'
  BY <1>7 DEF Holding, Levels
<1>9. OnePlace'
  <2>1. Shrinks(t)
    <3>1. \A i \in DOMAIN tls'[t] : i + 0 \in DOMAIN tls[t] /\ tls'[t][i].cb = tls[t][i + 0].cb
      BY <1>3, <1>4, <1>5
    <3> QED BY <3>1 DEF Shrinks
  <2>2. \A u \in Threads : Shrinks(u)
    BY <1>5, <2>1, SameList, TypesFacts DEF QueueInv
  <2>3. HoldsNoMore
    BY <1>7, <1>8, HeldElsewhere
  <2>4. /\ DistinctIn(callbacks') /\ added' \in Nat /\ added <= added'
        /\ \A k \in DOMAIN callbacks' : \E j \in DOMAIN callbacks : callbacks'[k] = callbacks[j]
    BY <1>1, TypesFacts DEF QueueInv, OnePlace
  <2> QED BY <1>5, <2>2, <2>3, <2>4, Fewer, TypesFacts DEF QueueInv
<1>10. /\ Types' /\ IsFiniteSet(Units(Load)') /\ Owed \in Nat /\ Owed' \in Nat
       /\ Owed' = Owed + (Len(tls'[t]) - Len(tls[t])) - Weight(Top(t))
  BY <1>1, <1>2, <1>5, <1>6, <1>9, AssembleReturn
<1>11. /\ Len(tls'[t]) = Len(tls[t]) /\ Len(tls[t]) \in Int /\ calling \in Int
       /\ Weight(Top(t)) \in Nat
  BY <1>1, <1>4, <1>5, CountTypes
<1>12. Owed' = Owed - Weight(Top(t))
  BY <1>10, <1>11
<1>13. calling' \in Int /\ calling' - Owed' = calling - Owed + Weight(Top(t))
  BY <1>1, <1>10, <1>11, <1>12
<1> QED BY <1>9, <1>10, <1>13 DEF Leaves

\* Nothing is owed to calling_ when no thread is in the queue or holds callbacks.
LEMMA NothingOwed ==
  ASSUME \A t \in Threads : tls[t] = <<>> /\ depth[t] = 0
  PROVE  IsFiniteSet(Units(Load)) /\ Owed = 0
<1>1. ASSUME NEW p \in Stations PROVE Load[p] = 0
  <2>1. p[1] \in Threads /\ p[2] \in 0..MaxDepth /\ Len(<<>>) = 0
    BY DEF Stations
  <2>2. p[2] # 0 => ~(p[2] <= depth[p[1]])
    BY <2>1
  <2> QED BY <2>1, <2>2 DEF Load
<1>2. Units(Load) = {}
  BY <1>1 DEF Units
<1> QED BY <1>2, FS_EmptySet DEF Owed

\* At the start nothing is owed and there is no callback.
LEMMA InitQueue == Init => QueueInv
<1> SUFFICES ASSUME Init PROVE QueueInv
  OBVIOUS
<1>1. /\ callbacks = <<>> /\ calling = 0 /\ added = 0 /\ DOMAIN <<>> = {}
      /\ \A t \in Threads : tls[t] = <<>> /\ depth[t] = 0
  BY DEF Init
<1>2. \A t \in Threads, d \in Levels : ~Holding(t, d)
  BY <1>1 DEF Holding, Levels
<1>3. Types
  <2>1. StackInv
    BY InitStack
  <2>2. <<>> \in Seq(CallbackInfo) /\ 0 \in 0..MaxInfos /\ 0 \in 0..MaxAdds /\ MaxInfos \in Nat
    OBVIOUS
  <2>3. QueueTypes
    BY <1>1, <2>2 DEF Init, QueueTypes
  <2>4. LockTypes
    BY <2>2 DEF Init, LockTypes
  <2>5. FrameTypes
    BY NoFrameTyped DEF Init, FrameTypes
  <2>6. Prepared
    BY <1>1, <1>2 DEF Prepared, At
  <2> QED BY <2>1, <2>3, <2>4, <2>5, <2>6 DEF Types
<1>4. OnePlace
  BY <1>1, <1>2 DEF OnePlace, DistinctIn, ListsDistinct, CallsDistinct, QueueAndLists,
                    QueueAndCalls, ListsAndCalls, Numbered
<1>5. Covered
  <2>1. IsFiniteSet(Units(Load)) /\ Owed = 0
    BY <1>1, NothingOwed
  <2> QED BY <1>1, <2>1 DEF Covered
<1> QED BY <1>3, <1>4, <1>5 DEF QueueInv

\* calling_ that was not behind what is owed to it, and falls not behind, is not behind.
LEMMA StaysAhead ==
  ASSUME NEW g \in Nat, NEW a \in Int, NEW b \in Int, NEW x \in Int, NEW y \in Int,
         b <= a, x - y = a - b + g
  PROVE  y <= x
<1>1. x - y >= 0
  <2>1. a - b >= 0
    OBVIOUS
  <2> QED BY <2>1
<1> QED BY <1>1

\* Every step leaves calling_ at least as far ahead of what is owed to it.
LEMMA NextQueue == QueueInv /\ [Next]_vars => QueueInv'
<1> SUFFICES ASSUME QueueInv, [Next]_vars PROVE QueueInv'
  OBVIOUS
<1>0. StackInv'
  BY NextStack DEF QueueInv, Types
<1>1. ASSUME NEW g \in Nat, Leaves(g) PROVE QueueInv'
  <2>1. calling \in Int /\ Owed <= calling
    BY DEF QueueInv, Covered
  <2>2. Owed' <= calling'
    <3>1. /\ calling \in Int /\ calling' \in Int /\ Owed \in Nat /\ Owed' \in Nat
          /\ calling' - Owed' = calling - Owed + g
      BY <1>1, <2>1 DEF Leaves
    <3>2. calling \in Int /\ calling' \in Int /\ Owed \in Int /\ Owed' \in Int
      BY <3>1
    <3> QED BY <2>1, <3>1, <3>2, StaysAhead
  <2> QED BY <1>1, <2>2 DEF Leaves, QueueInv, Covered
<1>11. ASSUME NEW t \in Threads, depth[t] > 0 PROVE Weight(Top(t)) \in Nat
  BY <1>11, CountTypes
<1>2. CASE UNCHANGED vars
  <2>1. LockTypes' /\ enabled' \in BOOLEAN /\ callbacks' \in {callbacks, <<>>}
    BY <1>2 DEF vars, QueueInv, Types, LockTypes, QueueTypes
  <2>2. UNCHANGED <<depth, frame, tls, callingIn, calling, added>>
    BY <1>2 DEF vars
  <2> QED BY <1>0, <1>1, <2>1, <2>2, QuietLeaves
<1>3. ASSUME NEW t \in Threads, Enable(t) \/ Disable(t) \/ Clear(t)
      PROVE  QueueInv'
  <2>1. /\ UNCHANGED <<depth, frame, tls, callingIn, calling, added>>
        /\ UNCHANGED <<idInfo, created, shared, writerWaits>>
        /\ callbacks' \in {callbacks, <<>>} /\ enabled' \in {enabled, TRUE, FALSE}
    BY <1>3 DEF Enable, Disable, Clear, threadvars, lockvars
  <2>2. LockTypes' /\ enabled' \in BOOLEAN
    BY <2>1 DEF QueueInv, Types, LockTypes, QueueTypes
  <2> QED BY <1>0, <1>1, <2>1, <2>2, QuietLeaves
<1>4. ASSUME NEW t \in Threads, NEW id \in Ids, AddCallback(t, id) \/ RemoveByID(t, id)
      PROVE  QueueInv'
  BY <1>0, <1>1, <1>4, AddLeaves, RemoveLeaves
<1>5. ASSUME NEW t \in Threads, CallOne(t) \/ CallAvailable(t)
      PROVE  QueueInv'
  BY <1>0, <1>1, <1>5, BeginLeaves DEF CallOne, CallAvailable
<1>6. ASSUME NEW t \in Threads, AddPush(t)
      PROVE  QueueInv'
  BY <1>0, <1>1, <1>6, <1>11, PushLeaves DEF AddPush, At
<1>7. ASSUME NEW t \in Threads, CallWake(t) \/ ThrowCall(t)
      PROVE  QueueInv'
  BY <1>0, <1>1, <1>7, WakeLeaves, ThrowLeaves
<1>8. ASSUME NEW t \in Threads, \/ Lookup(t) \/ StartCall(t) \/ Account(t)
                                \/ \E r \in {"Success", "TryAgain"} : EndCall(t, r)
      PROVE  QueueInv'
  BY <1>0, <1>1, <1>8, LookupLeaves, StartLeaves, AccountLeaves, EndLeaves
<1>9. ASSUME NEW t \in Threads, RemoveQueued(t) \/ RemoveRelock(t)
      PROVE  QueueInv'
  BY <1>0, <1>1, <1>9, UniqueLeaves, RelockLeaves
<1>10. ASSUME NEW t \in Threads, RemoveErase(t)
       PROVE  QueueInv'
  BY <1>0, <1>1, <1>10, <1>11, EraseLeaves DEF RemoveErase, At
<1> QED BY <1>2, <1>3, <1>4, <1>5, <1>6, <1>7, <1>8, <1>9, <1>10 DEF Next

\* A set with one element at most.
LEMMA OneAtMost ==
  ASSUME NEW S, \A x, y \in S : x = y
  PROVE  Cardinality(S) \in {0, 1} /\ (S = {} => Cardinality(S) = 0)
<1>1. S = {} => Cardinality(S) = 0
  BY FS_EmptySet
<1>2. S # {} => Cardinality(S) = 1
  <2> SUFFICES ASSUME S # {} PROVE Cardinality(S) = 1
    OBVIOUS
  <2>0. PICK x : x \in S
    OBVIOUS
  <2>1. S = {x}
    BY <2>0
  <2> QED BY <2>1, FS_Singleton
<1> QED BY <1>1, <1>2

\* Callbacks that are pairwise different are in one place each.
LEMMA OnePlaceEach ==
  ASSUME OnePlace
  PROVE  NeverDuplicated
<1> SUFFICES ASSUME NEW c \in Callbacks PROVE Places(c) <= 1
  BY DEF NeverDuplicated
<1> DEFINE Q == {i \in DOMAIN callbacks : callbacks[i].cb = c}
           L == {p \in Threads \X (1..MaxAdds) :
                   p[2] \in DOMAIN tls[p[1]] /\ tls[p[1]][p[2]].cb = c}
           H == {p \in Threads \X Levels :
                   /\ p[2] <= depth[p[1]]
                   /\ frame[p[1]][p[2]].pc \in {"in_call", "push"}
                   /\ frame[p[1]][p[2]].info.cb = c}
<1>1. \A x, y \in Q : x = y
  BY DEF OnePlace, DistinctIn
<1>2. \A x, y \in L : x = y
  BY DEF OnePlace, ListsDistinct
<1>3. ASSUME NEW x \in H PROVE Holding(x[1], x[2]) /\ frame[x[1]][x[2]].info.cb = c /\ x = <<x[1], x[2]>>
                               /\ x[1] \in Threads /\ x[2] \in Levels
  BY DEF Holding
<1>4. \A x, y \in H : x = y
  <2> HIDE DEF H
  <2> QED BY <1>3 DEF OnePlace, CallsDistinct
<1>5. Q = {} \/ L = {}
  BY DEF OnePlace, QueueAndLists
<1>6. Q = {} \/ H = {}
  BY <1>3 DEF OnePlace, QueueAndCalls
<1>7. L = {} \/ H = {}
  BY <1>3 DEF OnePlace, ListsAndCalls
<1>8. Places(c) = Cardinality(Q) + Cardinality(L) + Cardinality(H)
  BY DEF Places
<1> HIDE DEF Q, L, H
<1>9. /\ Cardinality(Q) \in {0, 1} /\ (Q = {} => Cardinality(Q) = 0)
      /\ Cardinality(L) \in {0, 1} /\ (L = {} => Cardinality(L) = 0)
      /\ Cardinality(H) \in {0, 1} /\ (H = {} => Cardinality(H) = 0)
  BY <1>1, <1>2, <1>4, OneAtMost
<1> QED BY <1>5, <1>6, <1>7, <1>8, <1>9

\* The queue and the threads' lists are well-formed and no callback is in two places,
\* whatever the threads' calls, removals, retries and exceptions: calling_, from which
\* callOne and callAvailable subtract what they have called, is never negative.
THEOREM QueueIsConsistent == Spec => []QueueConsistent
<1>1. Spec => []QueueInv
  BY InitQueue, NextQueue, PTL DEF Spec
<1>2. ASSUME QueueInv PROVE QueueConsistent
  <2>1. calling \in Nat
    <3>1. calling \in Int /\ Owed <= calling /\ Owed \in Nat
      BY <1>2, FS_CardinalityType DEF QueueInv, Covered, Owed
    <3> QED BY <3>1
  <2>2. TypeOK
    <3>1. depth \in [Threads -> 0..MaxDepth]
      BY <1>2 DEF QueueInv, Types, StackInv, StackShape
    <3> QED BY <1>2, <2>1, <3>1 DEF TypeOK, QueueInv, Types, QueueTypes, LockTypes, FrameTypes
  <2> QED BY <1>2, <2>2, OnePlaceEach DEF QueueConsistent, QueueInv
<1> QED BY <1>1, <1>2, PTL

-----------------------------------------------------------------------------
(***************************************************************************)
(* Callbacks that do not spin: when no callback calls callOne or           *)
(* callAvailable itself and none throws, a thread has one such call on its *)
(* stack, the outermost one, its list holds callbacks only while that call *)
(* works, and calling_ is exactly what is owed to it.                      *)
(***************************************************************************)
OrdinaryUse ==
  /\ NestedOps \cap {"callOne", "callAvailable"} = {}
  /\ "Throw" \notin CallResults

NestedPCs == {"push", "lock_unique", "relock", "erase"}

\* The outermost call of a thread works on the thread's list.
Working(t) ==
  /\ depth[t] > 0
  /\ \/ /\ frame[t][1].op = "callAvailable"
        /\ frame[t][1].pc \in {"lookup", "lock_shared", "in_call"}
     \/ /\ frame[t][1].op = "callOne" /\ Len(tls[t]) = 1
        /\ frame[t][1].pc \in {"lookup", "lock_shared"}

\* A call above the first is an addCallback or a removeByID, only a call that works
\* on its list has counted callbacks, and callOne and callAvailable wait.
Plain(f, d) ==
  /\ d # 1 => f.pc \in NestedPCs
  /\ f.pc \in NestedPCs \cup {"wait"} => f.called = 0
  /\ f.pc = "wait" => f.op \in {"callOne", "callAvailable"}

SoloInv ==
  \A t \in Threads :
    /\ \A d \in Levels : d <= depth[t] => Plain(frame[t][d], d)
    /\ tls[t] = <<>> \/ Working(t)

IdleInv == QueueInv /\ SoloInv /\ calling = Owed

\* A step of thread t at level d.
LEMMA SoloStays ==
  ASSUME StackInv, SoloInv, NEW t \in Threads, NEW d \in Levels, ChangesAt(t, d),
         \A u \in Threads : u # t => tls'[u] = tls[u],
         d <= depth'[t] => Plain(frame'[t][d], d),
         tls'[t] = <<>> \/ Working(t)'
  PROVE  SoloInv'
<1> SUFFICES ASSUME NEW u \in Threads
             PROVE  /\ \A e \in Levels : e <= depth'[u] => Plain(frame'[u][e], e)
                    /\ tls'[u] = <<>> \/ Working(u)'
  BY DEF SoloInv, Plain
<1>1. ASSUME NEW e \in Levels, e <= depth'[u] PROVE Plain(frame'[u][e], e)
  <2>1. CASE <<u, e>> = <<t, d>>
    BY <1>1, <2>1
  <2>2. CASE <<u, e>> # <<t, d>>
    <3>1. frame'[u][e] = frame[u][e] /\ e <= depth[u]
      BY <1>1, <2>2 DEF ChangesAt
    <3> QED BY <3>1 DEF SoloInv
  <2> QED BY <2>1, <2>2
<1>2. tls'[u] = <<>> \/ Working(u)'
  <2>1. CASE u = t
    BY <2>1
  <2>2. CASE u # t
    <3>1. 1 \in Levels
      BY DEF Levels
    <3>2. depth'[u] = depth[u] /\ frame'[u][1] = frame[u][1] /\ tls'[u] = tls[u]
      BY <2>2, <3>1 DEF ChangesAt
    <3> QED BY <3>2 DEF SoloInv, Working
  <2> QED BY <2>1, <2>2
<1> QED BY <1>1, <1>2

\* The outermost call of a thread moves on or returns.
LEMMA SoloBase ==
  ASSUME StackInv, SoloInv, NEW t \in Threads, ChangesAt(t, 1),
         \A u \in Threads : u # t => tls'[u] = tls[u],
         1 <= depth'[t] => Plain(frame'[t][1], 1) /\ (tls'[t] = <<>> \/ Working(t)'),
         ~(1 <= depth'[t]) => tls'[t] = <<>>
  PROVE  SoloInv'
<1>1. 1 \in Levels
  BY DEF Levels
<1> QED BY <1>1, SoloStays

\* A step of an addCallback or a removeByID.
LEMMA SoloNested ==
  ASSUME StackInv, StackInv', SoloInv, NEW t \in Threads, NEW d \in Levels, ChangesAt(t, d),
         \A u \in Threads : u # t => tls'[u] = tls[u],
         tls[t] = <<>> => tls'[t] = <<>>, Len(tls'[t]) = Len(tls[t]),
         d <= depth'[t] => frame'[t][d].pc \in NestedPCs /\ frame'[t][d].called = 0,
         d <= depth[t] => frame[t][d].pc \in NestedPCs
  PROVE  SoloInv'
<1>1. d <= depth'[t] => Plain(frame'[t][d], d)
  BY DEF Plain, NestedPCs
<1>2. 1 \in Levels /\ d \in Nat /\ depth[t] \in Nat /\ depth'[t] \in Nat
  BY DEF Levels, StackInv, StackShape
<1>3. tls'[t] = <<>> \/ Working(t)'
  <2>1. CASE tls[t] = <<>>
    BY <2>1
  <2>2. CASE tls[t] # <<>>
    <3>1. Working(t)
      BY <2>2 DEF SoloInv
    <3>2. d # 1
      <4>1. ASSUME d = 1 PROVE FALSE
        <5>1. frame[t][1].pc \in NestedPCs
          BY <1>2, <3>1, <4>1 DEF Working
        <5> QED BY <3>1, <5>1 DEF Working, NestedPCs
      <4> QED BY <4>1
    <3>3. frame'[t][1] = frame[t][1] /\ (1 <= depth'[t] <=> 1 <= depth[t])
      BY <1>2, <3>2 DEF ChangesAt
    <3>4. depth'[t] > 0
      BY <1>2, <3>1, <3>3 DEF Working
    <3> QED BY <3>1, <3>3, <3>4 DEF Working
  <2> QED BY <2>1, <2>2
<1> QED BY <1>1, <1>3, SoloStays

\* A call that is neither an addCallback nor a removeByID is the outermost one.
LEMMA OutermostCall ==
  ASSUME StackInv, SoloInv, NEW t \in Threads, depth[t] > 0, Top(t).pc \notin NestedPCs
  PROVE  depth[t] = 1 /\ Top(t) = frame[t][1]
<1>1. depth[t] \in Levels /\ depth[t] <= depth[t]
  BY DEF StackInv, StackShape, Levels
<1>2. Plain(Top(t), depth[t])
  BY <1>1 DEF SoloInv, Top
<1> QED BY <1>2 DEF Plain, Top

\* callOneCB has returned, and its caller goes on with the rest of its list.
LEMMA SoloAfter ==
  ASSUME StackInv, FrameTypes, SoloInv, NEW t \in Threads, depth[t] > 0,
         Top(t).pc \in {"lookup", "lock_shared", "in_call"}, AfterCall(t),
         \A u \in Threads : u # t => tls'[u] = tls[u],
         Top(t).op # "callAvailable" => tls'[t] = <<>>
  PROVE  SoloInv'
<1>1. depth[t] = 1 /\ Top(t) = frame[t][1]
  BY OutermostCall DEF NestedPCs
<1>2. PICK f \in Frame :
           /\ Step(t, f) /\ f.pc \in {"lookup", "account"} /\ f.op = Top(t).op
           /\ f.pc = "lookup" <=> (Top(t).op = "callAvailable" /\ tls'[t] # <<>>)
  BY AfterCallTyped
<1>3. ChangesAt(t, 1) /\ depth'[t] = 1 /\ frame'[t][1] = f
  BY <1>1, <1>2, StepChanges
<1>4. Plain(f, 1)
  BY <1>2 DEF NestedPCs, Plain
<1>5. tls'[t] = <<>> \/ Working(t)'
  BY <1>2, <1>3 DEF Working
<1> QED BY <1>3, <1>4, <1>5, SoloBase

\* callOne and callAvailable begin outside any callback, with an empty list.
LEMMA SoloBegin ==
  ASSUME OrdinaryUse, QueueInv, SoloInv, NEW t \in Threads,
         NEW op \in {"callOne", "callAvailable"}, CallBegin(t, op)
  PROVE  SoloInv' /\ Len(tls[t]) = 0
<1>1. StackInv
  BY DEF QueueInv, Types
<1>2. depth[t] = 0
  BY DEF CallBegin, MayCall, OrdinaryUse
<1>3. tls[t] = <<>> /\ Len(tls[t]) = 0
  <2>1. tls[t] = <<>>
    BY <1>2 DEF SoloInv, Working
  <2> QED BY <2>1
<1>4. ASSUME NEW f, Enter(t, f) PROVE ChangesAt(t, 1) /\ depth'[t] = 1 /\ frame'[t][1] = f
  BY <1>1, <1>2, <1>4, EnterChanges
<1>5. CASE Enter(t, [NoFrame EXCEPT !.op = op, !.pc = "wait"]) /\ UNCHANGED tls
  <2> DEFINE f == [NoFrame EXCEPT !.op = op, !.pc = "wait"]
  <2>1. Plain(f, 1)
    BY DEF NoFrame, Plain
  <2>2. Enter(t, f)
    BY <1>5
  <2> HIDE DEF f
  <2>3. ChangesAt(t, 1) /\ depth'[t] = 1 /\ frame'[t][1] = f
    BY <1>4, <2>2
  <2> QED BY <1>1, <1>3, <1>5, <2>1, <2>3, SoloBase
<1>6. CASE TakeCallbacks(t, op) /\ Enter(t, [NoFrame EXCEPT !.op = op, !.pc = "lookup"])
  <2> DEFINE f == [NoFrame EXCEPT !.op = op, !.pc = "lookup"]
  <2>1. f.pc = "lookup" /\ f.op = op
    BY DEF NoFrame
  <2>2. Enter(t, f)
    BY <1>6
  <2> HIDE DEF f
  <2>3. /\ \A u \in Threads : u # t => tls'[u] = tls[u]
        /\ op = "callOne" => Len(tls'[t]) = 1
    <3>1. PICK k \in 1..Len(callbacks) : /\ Takes(t, k) /\ Len(tls'[t]) = Len(tls[t]) + k
                                         /\ op = "callOne" => k = 1
      BY <1>6, TakeFacts DEF QueueInv, Types
    <3> QED BY <1>3, <3>1 DEF Takes
  <2>4. ChangesAt(t, 1) /\ depth'[t] = 1 /\ frame'[t][1] = f
    BY <1>4, <2>2
  <2>5. Working(t)'
    BY <2>1, <2>3, <2>4 DEF Working
  <2>6. Plain(f, 1)
    BY <2>1 DEF NestedPCs, Plain
  <2>7. /\ 1 <= depth'[t] => Plain(frame'[t][1], 1) /\ (tls'[t] = <<>> \/ Working(t)')
        /\ ~(1 <= depth'[t]) => tls'[t] = <<>>
    BY <2>4, <2>5, <2>6
  <2>8. SoloInv'
    BY <1>1, <2>3, <2>4, <2>7, SoloBase
  <2> QED BY <1>3, <2>8
<1> QED BY <1>3, <1>5, <1>6 DEF CallBegin

\* The wait ends, with an empty list.
LEMMA SoloWake ==
  ASSUME QueueInv, SoloInv, NEW t \in Threads, CallWake(t)
  PROVE  SoloInv' /\ Len(tls[t]) = 0 /\ Top(t).called = 0
<1>1. StackInv /\ depth[t] > 0 /\ Top(t).pc = "wait"
  BY DEF QueueInv, Types, CallWake, At
<1>2. depth[t] = 1 /\ Top(t) = frame[t][1]
  BY <1>1, OutermostCall DEF NestedPCs
<1>3. /\ tls[t] = <<>> /\ Len(tls[t]) = 0 /\ Top(t).called = 0
      /\ Top(t).op \in {"callOne", "callAvailable"}
  <2>1. tls[t] = <<>>
    BY <1>1, <1>2 DEF SoloInv, Working
  <2>2. Plain(frame[t][1], 1)
    BY <1>2 DEF SoloInv, Levels
  <2> QED BY <1>1, <1>2, <2>1, <2>2 DEF Plain
<1>4. CASE Return(t) /\ UNCHANGED tls
  <2>1. ChangesAt(t, 1) /\ depth'[t] = 0
    BY <1>1, <1>2, <1>4, ReturnChanges
  <2> QED BY <1>1, <1>3, <1>4, <2>1, SoloBase
<1>5. CASE TakeCallbacks(t, Top(t).op) /\ Step(t, [Top(t) EXCEPT !.pc = "lookup"])
  <2> DEFINE f == [Top(t) EXCEPT !.pc = "lookup"]
  <2>0. Top(t) \in Frame
    BY <1>1, TopTyped DEF QueueInv, Types
  <2>1. f.pc = "lookup" /\ f.op = Top(t).op
    BY <2>0 DEF Frame
  <2>2. Step(t, f)
    BY <1>5
  <2> HIDE DEF f
  <2>3. ChangesAt(t, 1) /\ depth'[t] = 1 /\ frame'[t][1] = f
    BY <1>1, <1>2, <2>2, StepChanges
  <2>4. /\ \A u \in Threads : u # t => tls'[u] = tls[u]
        /\ Top(t).op = "callOne" => Len(tls'[t]) = 1
    <3>1. PICK k \in 1..Len(callbacks) : /\ Takes(t, k) /\ Len(tls'[t]) = Len(tls[t]) + k
                                         /\ Top(t).op = "callOne" => k = 1
      BY <1>5, TakeFacts DEF QueueInv, Types
    <3> QED BY <1>3, <3>1 DEF Takes
  <2>5. Working(t)'
    BY <1>3, <2>1, <2>3, <2>4 DEF Working
  <2>6. Plain(f, 1)
    BY <2>1 DEF NestedPCs, Plain
  <2>7. /\ 1 <= depth'[t] => Plain(frame'[t][1], 1) /\ (tls'[t] = <<>> \/ Working(t)')
        /\ ~(1 <= depth'[t]) => tls'[t] = <<>>
    BY <2>3, <2>5, <2>6
  <2>8. SoloInv'
    BY <1>1, <2>3, <2>4, <2>7, SoloBase
  <2> QED BY <1>3, <2>8
<1> QED BY <1>3, <1>4, <1>5 DEF CallWake

\* A call that looks up, locks or calls takes the head of its list, if it takes any;
\* callOne's list holds no other entry.
LEMMA SoloTakesHead ==
  ASSUME StackInv, SoloInv, NEW t \in Threads, depth[t] > 0, tls[t] \in Seq(CallbackInfo),
         Top(t).pc \in {"lookup", "lock_shared"}, tls[t] # <<>>
  PROVE  /\ depth[t] = 1 /\ Top(t) = frame[t][1] /\ Working(t)
         /\ Top(t).op # "callAvailable" => Tail(tls[t]) = <<>>
<1>1. depth[t] = 1 /\ Top(t) = frame[t][1]
  BY OutermostCall DEF NestedPCs
<1>2. Working(t)
  BY DEF SoloInv
<1>3. Top(t).op # "callAvailable" => Len(tls[t]) = 1
  BY <1>1, <1>2 DEF Working
<1>4. ASSUME Len(tls[t]) = 1 PROVE Tail(tls[t]) = <<>>
  <2>1. Tail(tls[t]) \in Seq(CallbackInfo) /\ Len(Tail(tls[t])) = 0
    BY <1>4
  <2>2. DOMAIN Tail(tls[t]) = {} /\ DOMAIN <<>> = {} /\ Tail(tls[t]) = [i \in DOMAIN Tail(tls[t]) |-> Tail(tls[t])[i]]
    BY <2>1
  <2> QED BY <2>2
<1> QED BY <1>1, <1>2, <1>3, <1>4

\* callOneCB finds the IDInfo of the next callback, or drops the callback.
LEMMA SoloLookup ==
  ASSUME QueueInv, SoloInv, NEW t \in Threads, Lookup(t)
  PROVE  SoloInv'
<1>1. /\ StackInv /\ FrameTypes /\ depth[t] > 0 /\ Top(t).pc = "lookup" /\ tls[t] # <<>>
      /\ tls \in [Threads -> Seq(CallbackInfo)] /\ tls[t] \in Seq(CallbackInfo)
  BY DEF Lookup, At, QueueInv, Types, Prepared, QueueTypes
<1>2. /\ depth[t] = 1 /\ Top(t) = frame[t][1] /\ Working(t)
      /\ Top(t).op # "callAvailable" => Tail(tls[t]) = <<>>
  BY <1>1, SoloTakesHead
<1>3. CASE tls' = [tls EXCEPT ![t] = Tail(@)] /\ AfterCall(t)
  <2>1. tls'[t] = Tail(tls[t]) /\ \A u \in Threads : u # t => tls'[u] = tls[u]
    BY <1>1, <1>3
  <2> QED BY <1>1, <1>2, <1>3, <2>1, SoloAfter
<1>4. ASSUME NEW info, NEW o, UNCHANGED tls,
             Step(t, [Top(t) EXCEPT !.pc = "lock_shared", !.info = info, !.id = info.id, !.obj = o])
      PROVE  SoloInv'
  <2> DEFINE f == [Top(t) EXCEPT !.pc = "lock_shared", !.info = info, !.id = info.id, !.obj = o]
  <2>0. Top(t) \in Frame
    BY <1>1, TopTyped
  <2>1. f.pc = "lock_shared" /\ f.op = Top(t).op
    BY <2>0 DEF Frame
  <2>2. Step(t, f)
    BY <1>4
  <2> HIDE DEF f
  <2>3. ChangesAt(t, 1) /\ depth'[t] = 1 /\ frame'[t][1] = f
    BY <1>1, <1>2, <2>2, StepChanges
  <2>4. Working(t)' /\ Plain(f, 1)
    BY <1>1, <1>2, <1>4, <2>1, <2>3 DEF Working, Plain, NestedPCs
  <2>5. /\ 1 <= depth'[t] => Plain(frame'[t][1], 1) /\ (tls'[t] = <<>> \/ Working(t)')
        /\ ~(1 <= depth'[t]) => tls'[t] = <<>>
    BY <2>3, <2>4
  <2> QED BY <1>1, <1>4, <2>3, <2>5, SoloBase
<1> QED BY <1>3, <1>4 DEF Lookup

\* callOneCB calls the callback under the shared lock, or drops a marked one.
LEMMA SoloStart ==
  ASSUME QueueInv, SoloInv, NEW t \in Threads, StartCall(t)
  PROVE  SoloInv'
<1>1. /\ StackInv /\ FrameTypes /\ depth[t] > 0 /\ Top(t).pc = "lock_shared" /\ tls[t] # <<>>
      /\ tls \in [Threads -> Seq(CallbackInfo)] /\ tls[t] \in Seq(CallbackInfo)
      /\ tls' = [tls EXCEPT ![t] = Tail(@)]
  BY DEF StartCall, At, QueueInv, Types, Prepared, QueueTypes
<1>2. /\ depth[t] = 1 /\ Top(t) = frame[t][1] /\ Working(t)
      /\ Top(t).op # "callAvailable" => Tail(tls[t]) = <<>>
  BY <1>1, SoloTakesHead
<1>3. tls'[t] = Tail(tls[t]) /\ \A u \in Threads : u # t => tls'[u] = tls[u]
  BY <1>1
<1>4. CASE AfterCall(t)
  BY <1>1, <1>2, <1>3, <1>4, SoloAfter
<1>5. ASSUME NEW id, Step(t, [Top(t) EXCEPT !.pc = "in_call", !.last = id])
      PROVE  SoloInv'
  <2> DEFINE f == [Top(t) EXCEPT !.pc = "in_call", !.last = id]
  <2>0. Top(t) \in Frame
    BY <1>1, TopTyped
  <2>1. f.pc = "in_call" /\ f.op = Top(t).op
    BY <2>0 DEF Frame
  <2>2. Step(t, f)
    BY <1>5
  <2> HIDE DEF f
  <2>3. ChangesAt(t, 1) /\ depth'[t] = 1 /\ frame'[t][1] = f
    BY <1>1, <1>2, <2>2, StepChanges
  <2>4. (tls'[t] = <<>> \/ Working(t)') /\ Plain(f, 1)
    BY <1>2, <1>3, <2>1, <2>3 DEF Working, Plain, NestedPCs
  <2>5. /\ 1 <= depth'[t] => Plain(frame'[t][1], 1) /\ (tls'[t] = <<>> \/ Working(t)')
        /\ ~(1 <= depth'[t]) => tls'[t] = <<>>
    BY <2>3, <2>4
  <2> QED BY <1>1, <1>3, <2>3, <2>5, SoloBase
<1> QED BY <1>4, <1>5 DEF StartCall

\* A callback returns: only callAvailable has entries left in its list.
LEMMA SoloEnd ==
  ASSUME QueueInv, SoloInv, NEW t \in Threads, NEW r, EndCall(t, r)
  PROVE  SoloInv'
<1>1. /\ StackInv /\ FrameTypes /\ depth[t] > 0 /\ Top(t).pc = "in_call"
      /\ UNCHANGED tls /\ AfterCall(t)
  BY DEF EndCall, At, QueueInv, Types
<1>2. depth[t] = 1 /\ Top(t) = frame[t][1]
  BY <1>1, OutermostCall DEF NestedPCs
<1>3. Top(t).op # "callAvailable" => tls'[t] = <<>>
  BY <1>1, <1>2 DEF SoloInv, Working
<1> QED BY <1>1, <1>3, SoloAfter

\* callOne and callAvailable end with an empty list.
LEMMA SoloAccount ==
  ASSUME QueueInv, SoloInv, NEW t \in Threads, Account(t)
  PROVE  SoloInv'
<1>1. /\ StackInv /\ depth[t] > 0 /\ Top(t).pc = "account" /\ UNCHANGED tls /\ Return(t)
  BY DEF Account, At, QueueInv, Types
<1>2. depth[t] = 1 /\ Top(t) = frame[t][1]
  BY <1>1, OutermostCall DEF NestedPCs
<1>3. tls[t] = <<>>
  BY <1>1, <1>2 DEF SoloInv, Working
<1>4. ChangesAt(t, 1) /\ depth'[t] = 0
  BY <1>1, <1>2, ReturnChanges
<1> QED BY <1>1, <1>3, <1>4, SoloBase

\* An addCallback or a removeByID begins.
LEMMA SoloEnter ==
  ASSUME StackInv, StackInv', SoloInv, NEW t \in Threads, NEW f, Enter(t, f), UNCHANGED tls,
         f.pc \in NestedPCs, f.called = 0
  PROVE  SoloInv'
<1>1. PICK d \in Levels : /\ d = depth[t] + 1 /\ ChangesAt(t, d) /\ frame'[t][d] = f
  BY EnterChanges
<1>2. ~(d <= depth[t])
  BY <1>1 DEF StackInv, StackShape
<1> QED BY <1>1, <1>2, SoloNested

\* What an addCallback or a removeByID has counted: nothing.
LEMMA SoloTop ==
  ASSUME StackInv, SoloInv, NEW t \in Threads, depth[t] > 0, Top(t).pc \in NestedPCs
  PROVE  Top(t).called = 0
<1>1. depth[t] \in Levels /\ depth[t] <= depth[t]
  BY DEF StackInv, StackShape, Levels
<1>2. Plain(Top(t), depth[t])
  BY <1>1 DEF SoloInv, Top
<1> QED BY <1>2 DEF Plain

\* An addCallback or a removeByID ends.
LEMMA SoloReturn ==
  ASSUME StackInv, StackInv', SoloInv, NEW t \in Threads, depth[t] > 0, Return(t),
         Top(t).pc \in NestedPCs, \A u \in Threads : u # t => tls'[u] = tls[u],
         tls[t] = <<>> => tls'[t] = <<>>, Len(tls'[t]) = Len(tls[t])
  PROVE  SoloInv'
<1>1. PICK d \in Levels : /\ d = depth[t] /\ ChangesAt(t, d) /\ depth'[t] = d - 1
  BY ReturnChanges
<1>2. ~(d <= depth'[t]) /\ frame[t][d] = Top(t)
  BY <1>1 DEF Levels, Top
<1> QED BY <1>1, <1>2, SoloNested

\* A removeByID goes from one of its locks to the next.
LEMMA SoloStep ==
  ASSUME StackInv, StackInv', FrameTypes, SoloInv, NEW t \in Threads, depth[t] > 0,
         Top(t).pc \in NestedPCs, NEW pc \in NestedPCs, Step(t, [Top(t) EXCEPT !.pc = pc]),
         UNCHANGED tls
  PROVE  SoloInv'
<1> DEFINE f == [Top(t) EXCEPT !.pc = pc]
<1>1. f.pc = pc /\ f.called = 0
  <2>1. Top(t) \in Frame /\ Top(t).called = 0
    BY TopTyped, SoloTop
  <2> QED BY <2>1 DEF Frame
<1>2. Step(t, f)
  OBVIOUS
<1> HIDE DEF f
<1>3. PICK d \in Levels : d = depth[t] /\ ChangesAt(t, d) /\ frame'[t][d] = f
  BY <1>2, StepChanges
<1>4. frame[t][d] = Top(t)
  BY <1>3 DEF Top
<1> QED BY <1>1, <1>3, <1>4, SoloNested

\* The calls of a thread, its list and what it has counted after every step.
LEMMA NextSolo ==
  ASSUME OrdinaryUse, QueueInv, SoloInv, [Next]_vars
  PROVE  SoloInv'
<1>1. StackInv /\ StackInv' /\ FrameTypes
  BY NextStack DEF QueueInv, Types
<1>2. ASSUME UNCHANGED <<depth, frame, tls>> PROVE SoloInv'
  BY <1>2 DEF SoloInv, Working, Plain
<1>3. CASE UNCHANGED vars
  BY <1>2, <1>3 DEF vars
<1>4. ASSUME NEW t \in Threads, Enable(t) \/ Disable(t) \/ Clear(t)
      PROVE  SoloInv'
  BY <1>2, <1>4 DEF Enable, Disable, Clear, threadvars
<1>5. ASSUME NEW t \in Threads, NEW id \in Ids, AddCallback(t, id)
      PROVE  SoloInv'
  <2> DEFINE f == [NoFrame EXCEPT !.op = "addCallback", !.pc = "push",
                     !.info = [cb |-> added + 1, id |-> id, marked |-> FALSE]]
  <2>1. f.pc \in NestedPCs /\ f.called = 0
    BY DEF NoFrame, NestedPCs
  <2>2. Enter(t, f) /\ UNCHANGED tls
    BY <1>5 DEF AddCallback
  <2> HIDE DEF f
  <2> QED BY <1>1, <2>1, <2>2, SoloEnter
<1>6. ASSUME NEW t \in Threads, NEW id \in Ids, RemoveByID(t, id)
      PROVE  SoloInv'
  <2> DEFINE f == [NoFrame EXCEPT !.op = "removeByID", !.pc = "lock_unique",
                     !.id = id, !.obj = idInfo[id], !.own = (callingIn[t] = id)]
  <2>1. f.pc \in NestedPCs /\ f.called = 0
    BY DEF NoFrame, NestedPCs
  <2>2. Enter(t, f) /\ UNCHANGED tls
    BY <1>6 DEF RemoveByID
  <2> HIDE DEF f
  <2> QED BY <1>1, <2>1, <2>2, SoloEnter
<1>7. ASSUME NEW t \in Threads, CallOne(t) \/ CallAvailable(t)
      PROVE  SoloInv'
  BY <1>7, SoloBegin DEF CallOne, CallAvailable
<1>8. ASSUME NEW t \in Threads, AddPush(t)
      PROVE  SoloInv'
  <2>1. depth[t] > 0 /\ Top(t).pc \in NestedPCs /\ Return(t) /\ UNCHANGED tls
    BY <1>8 DEF AddPush, At, NestedPCs
  <2> QED BY <1>1, <2>1, SoloReturn
<1>9. ASSUME NEW t \in Threads, ThrowCall(t)
      PROVE  SoloInv'
  BY <1>9 DEF ThrowCall, OrdinaryUse
<1>10. ASSUME NEW t \in Threads, \/ CallWake(t) \/ Lookup(t) \/ StartCall(t) \/ Account(t)
                                 \/ \E r \in {"Success", "TryAgain"} : EndCall(t, r)
       PROVE  SoloInv'
  BY <1>10, SoloWake, SoloLookup, SoloStart, SoloAccount, SoloEnd
<1>11. ASSUME NEW t \in Threads, RemoveQueued(t)
       PROVE  SoloInv'
  <2>1. depth[t] > 0 /\ Top(t).pc \in NestedPCs /\ UNCHANGED tls
    BY <1>11 DEF RemoveQueued, At, NestedPCs
  <2>2. CASE UNCHANGED <<callbacks, depth, frame>>
    BY <1>2, <2>1, <2>2
  <2>3. CASE Step(t, [Top(t) EXCEPT !.pc = IF Top(t).own THEN "relock" ELSE "erase"])
    <3>1. PICK pc \in NestedPCs : pc = IF Top(t).own THEN "relock" ELSE "erase"
      BY DEF NestedPCs
    <3>2. Step(t, [Top(t) EXCEPT !.pc = pc])
      BY <2>3, <3>1
    <3> QED BY <1>1, <2>1, <3>2, SoloStep
  <2> QED BY <1>11, <2>2, <2>3 DEF RemoveQueued
<1>12. ASSUME NEW t \in Threads, RemoveRelock(t)
       PROVE  SoloInv'
  <2>1. /\ depth[t] > 0 /\ Top(t).pc \in NestedPCs /\ UNCHANGED tls /\ "erase" \in NestedPCs
        /\ Step(t, [Top(t) EXCEPT !.pc = "erase"])
    BY <1>12 DEF RemoveRelock, At, NestedPCs
  <2> QED BY <1>1, <2>1, SoloStep
<1>13. ASSUME NEW t \in Threads, RemoveErase(t)
       PROVE  SoloInv'
  <2>1. depth[t] > 0 /\ Top(t).pc \in NestedPCs /\ Return(t)
    BY <1>13 DEF RemoveErase, At, NestedPCs
  <2>2. tls \in [Threads -> Seq(CallbackInfo)] /\ tls[t] \in Seq(CallbackInfo)
    BY DEF QueueInv, Types, QueueTypes
  <2> DEFINE s == [i \in DOMAIN tls[t] |->
                     [tls[t][i] EXCEPT !.marked = tls[t][i].marked \/ tls[t][i].id = Top(t).id]]
  <2>3. tls' = [tls EXCEPT ![t] = s] /\ DOMAIN s = DOMAIN tls[t] /\ s = [i \in DOMAIN s |-> s[i]]
    <3>1. tls' = [tls EXCEPT ![t] = s]
      BY <1>13, Zenon DEF RemoveErase
    <3>2. DOMAIN s = DOMAIN tls[t] /\ s = [i \in DOMAIN s |-> s[i]]
      OBVIOUS
    <3> QED BY <3>1, <3>2
  <2> HIDE DEF s
  <2>4. tls'[t] = s /\ \A u \in Threads : u # t => tls'[u] = tls[u]
    BY <2>2, <2>3
  <2>5. Len(s) = Len(tls[t]) /\ (tls[t] = <<>> => s = <<>>)
    <3>1. DOMAIN s = 1..Len(tls[t]) /\ Len(tls[t]) \in Nat
      BY <2>2, <2>3
    <3>2. Len(s) = Len(tls[t])
      BY <3>1, <2>3
    <3>3. tls[t] = <<>> => s = <<>>
      BY <2>3
    <3> QED BY <3>2, <3>3
  <2> QED BY <1>1, <2>1, <2>4, <2>5, SoloReturn
<1> QED BY <1>3, <1>4, <1>5, <1>6, <1>7, <1>8, <1>9, <1>10, <1>11, <1>12, <1>13 DEF Next

\* calling_ that was exactly what is owed to it, and gains nothing on it, still is.
LEMMA SameAhead ==
  ASSUME NEW a \in Int, NEW b \in Int, NEW x \in Int, NEW y \in Int,
         a = b, x - y = a - b + 0
  PROVE  x = y
OBVIOUS

\* calling_ is exactly what is owed to it.
LEMMA NextIdle ==
  ASSUME OrdinaryUse, IdleInv, [Next]_vars
  PROVE  IdleInv'
<1>1. QueueInv /\ SoloInv /\ calling = Owed /\ QueueInv' /\ SoloInv' /\ StackInv'
  BY NextQueue, NextSolo, NextStack DEF IdleInv, QueueInv, Types
<1>2. ASSUME NEW g \in {0}, Leaves(g) PROVE calling' = Owed'
  <2>1. /\ calling' \in Int /\ Owed \in Nat /\ Owed' \in Nat
        /\ calling' - Owed' = calling - Owed + 0
    BY <1>2 DEF Leaves
  <2>2. calling \in Int /\ Owed \in Int /\ Owed' \in Int /\ calling = Owed
    BY <1>1, <2>1
  <2> QED BY <2>1, <2>2, SameAhead
<1>3. ASSUME NEW t \in Threads, depth[t] > 0, Top(t).pc \in NestedPCs PROVE Weight(Top(t)) \in {0}
  <2>1. Top(t).called = 0
    BY <1>1, <1>3, SoloTop DEF QueueInv, Types
  <2> QED BY <1>3, <2>1 DEF Weight, One, NestedPCs
<1>4. CASE UNCHANGED vars
  <2>1. LockTypes' /\ enabled' \in BOOLEAN /\ callbacks' \in {callbacks, <<>>}
    BY <1>1, <1>4 DEF vars, QueueInv, Types, LockTypes, QueueTypes
  <2>2. UNCHANGED <<depth, frame, tls, callingIn, calling, added>>
    BY <1>4 DEF vars
  <2>3. calling' = Owed'
    BY <1>1, <1>2, <2>1, <2>2, QuietLeaves
  <2> QED BY <1>1, <2>3 DEF IdleInv
<1>5. ASSUME NEW t \in Threads, Enable(t) \/ Disable(t) \/ Clear(t)
      PROVE  calling' = Owed'
  <2>1. /\ UNCHANGED <<depth, frame, tls, callingIn, calling, added>>
        /\ UNCHANGED <<idInfo, created, shared, writerWaits>>
        /\ callbacks' \in {callbacks, <<>>} /\ enabled' \in {enabled, TRUE, FALSE}
    BY <1>5 DEF Enable, Disable, Clear, threadvars, lockvars
  <2>2. LockTypes' /\ enabled' \in BOOLEAN
    BY <1>1, <2>1 DEF QueueInv, Types, LockTypes, QueueTypes
  <2> QED BY <1>1, <1>2, <2>1, <2>2, QuietLeaves
<1>6. ASSUME NEW t \in Threads, NEW id \in Ids, AddCallback(t, id) \/ RemoveByID(t, id)
      PROVE  calling' = Owed'
  BY <1>1, <1>2, <1>6, AddLeaves, RemoveLeaves
<1>7. ASSUME NEW t \in Threads, CallOne(t) \/ CallAvailable(t)
      PROVE  calling' = Owed'
  <2>1. PICK op \in {"callOne", "callAvailable"} : CallBegin(t, op)
    BY <1>7 DEF CallOne, CallAvailable
  <2>2. PICK g \in {0} : Leaves(g)
    BY <1>1, <2>1, BeginLeaves, SoloBegin
  <2> QED BY <1>2, <2>2
<1>8. ASSUME NEW t \in Threads, AddPush(t)
      PROVE  calling' = Owed'
  <2>1. depth[t] > 0 /\ Top(t).pc \in NestedPCs
    BY <1>8 DEF AddPush, At, NestedPCs
  <2> QED BY <1>1, <1>2, <1>3, <1>8, <2>1, PushLeaves
<1>9. ASSUME NEW t \in Threads, CallWake(t)
      PROVE  calling' = Owed'
  <2>1. PICK g \in {0} : Leaves(g)
    BY <1>1, <1>9, WakeLeaves, SoloWake
  <2> QED BY <1>2, <2>1
<1>10. ASSUME NEW t \in Threads, ThrowCall(t)
       PROVE  FALSE
  BY <1>10 DEF ThrowCall, OrdinaryUse
<1>11. ASSUME NEW t \in Threads, \/ Lookup(t) \/ StartCall(t) \/ Account(t)
                                 \/ \E r \in {"Success", "TryAgain"} : EndCall(t, r)
       PROVE  calling' = Owed'
  BY <1>1, <1>2, <1>11, LookupLeaves, StartLeaves, AccountLeaves, EndLeaves
<1>12. ASSUME NEW t \in Threads, RemoveQueued(t) \/ RemoveRelock(t)
       PROVE  calling' = Owed'
  BY <1>1, <1>2, <1>12, UniqueLeaves, RelockLeaves
<1>13. ASSUME NEW t \in Threads, RemoveErase(t)
       PROVE  calling' = Owed'
  <2>1. depth[t] > 0 /\ Top(t).pc \in NestedPCs
    BY <1>13 DEF RemoveErase, At, NestedPCs
  <2> QED BY <1>1, <1>2, <1>3, <1>13, <2>1, EraseLeaves
<1>14. CASE Next
  <2>1. calling' = Owed'
    BY <1>5, <1>6, <1>7, <1>8, <1>9, <1>10, <1>11, <1>12, <1>13, <1>14 DEF Next
  <2> QED BY <1>1, <2>1 DEF IdleInv
<1> QED BY <1>4, <1>14

\* isEmpty() answers TRUE of an idle queue without callbacks, in any system whose
\* callbacks do not spin the queue themselves and do not throw.
THEOREM IdleQueueIsEmpty ==
  ASSUME OrdinaryUse
  PROVE  Spec => []IdleMeansEmpty
<1>1. Init => IdleInv
  <2> SUFFICES ASSUME Init PROVE IdleInv
    OBVIOUS
  <2>1. \A t \in Threads : tls[t] = <<>> /\ depth[t] = 0
    BY DEF Init
  <2>2. SoloInv
    BY <2>1 DEF SoloInv, Levels
  <2>3. calling = Owed
    BY <2>1, NothingOwed DEF Init
  <2> QED BY <2>2, <2>3, InitQueue DEF IdleInv
<1>2. IdleInv /\ [Next]_vars => IdleInv'
  BY NextIdle
<1>3. IdleInv => IdleMeansEmpty
  BY NothingOwed DEF IdleInv, IdleMeansEmpty, IsEmpty
<1> QED BY <1>1, <1>2, <1>3, PTL DEF Spec
=============================================================================
