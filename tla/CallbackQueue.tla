---------------------------- MODULE CallbackQueue ----------------------------
(***************************************************************************)
(* xcros::CallbackQueue (xcroscpp/src/libros/callback_queue.cpp): the      *)
(* queue through which every user callback of a node runs.  Any number of  *)
(* threads add callbacks under an owner id, call them (callOne,            *)
(* callAvailable), and remove all callbacks of an id (removeByID), which   *)
(* waits for the calls in progress by locking the id's reader/writer lock. *)
(* A callback may itself use the queue, so a thread has a stack of calls.  *)
(*                                                                         *)
(* One action is one region between two lock operations.  mutex_ and       *)
(* id_info_mutex_ protect regions that never block, so each such region is *)
(* atomic; the reader/writer lock of an id (boost::shared_mutex) is state. *)
(* The thread-local iterator cb_it always denotes the head of the          *)
(* thread-local list (every path resets it to begin() or erases at it), so *)
(* the list alone is state.  A timed wait may end at any time: its wake-up *)
(* is an ordinary step and notify_one/notify_all need no state.            *)
(***************************************************************************)
EXTENDS Integers, Sequences, FiniteSets

CONSTANTS
  Threads,        \* threads that use the queue
  Ids,            \* owner ids (removal_id)
  NoId,           \* 0xffffffffffffffff: no callback is being called
  MaxDepth,       \* bound: nesting of queue calls in one thread
  MaxAdds,        \* bound: calls of addCallback
  MaxInfos,       \* bound: IDInfo objects created for one id
  TopOps,         \* the operations each thread calls outside any callback
  NestedOps,      \* the operations a callback calls
  CallResults     \* how a callback may end

AllOps == {"addCallback", "removeByID", "callOne", "callAvailable",
           "enable", "disable", "clear"}

ASSUME CallbackQueueAssumption ==
  /\ NoId \notin Ids /\ IsFiniteSet(Threads)
  /\ MaxDepth \in Nat \ {0} /\ MaxAdds \in Nat /\ MaxInfos \in Nat
  /\ TopOps \in [Threads -> SUBSET AllOps]
  /\ NestedOps \subseteq AllOps
  /\ CallResults \subseteq {"Success", "TryAgain", "Throw"}

VARIABLES
  callbacks,      \* callbacks_: the shared FIFO of CallbackInfo
  calling,        \* calling_
  enabled,        \* enabled_
  idInfo,         \* id_info_: the IDInfo an id maps to, 0 when it has none
  created,        \* how many IDInfo objects have been made for an id
  shared,         \* calling_rw_mutex of each IDInfo: its shared count
  writerWaits,    \* calling_rw_mutex: exclusive_waiting_blocked
  tls,            \* TLS::callbacks of each thread
  callingIn,      \* TLS::calling_in_this_thread
  depth,          \* number of queue calls on the thread's stack
  frame,          \* those calls, innermost last
  added           \* callbacks handed to addCallback so far (their identity)

qvars == <<callbacks, calling, enabled>>
lockvars == <<idInfo, created, shared, writerWaits>>
threadvars == <<tls, callingIn, depth, frame>>
vars == <<callbacks, calling, enabled, idInfo, created, shared, writerWaits,
          tls, callingIn, depth, frame, added>>

-----------------------------------------------------------------------------
(* CallbackInfo, the IDInfo objects (numbered per id) and the call frames. *)

Callbacks == 1..MaxAdds
Infos == 1..MaxInfos
Levels == 1..MaxDepth

CallbackInfo == [cb : Callbacks, id : Ids, marked : BOOLEAN]
NoCallback == [cb |-> 0, id |-> NoId, marked |-> FALSE]

\* pc of a call: where it is between two lock operations.
PCs == {"wait",        \* callOne/callAvailable: in condition_.wait_for
        "lookup",      \* callOneCB: before getIDInfo
        "lock_shared", \* callOneCB: has the IDInfo, not yet its lock
        "in_call",     \* callOneCB: in cb->call(), the lock held
        "account",     \* callOne/callAvailable: before calling_ is decreased
        "push",        \* addCallback: before callbacks_.push_back
        "lock_unique", \* removeByID: before the unique lock
        "relock",      \* removeByID: before lock_shared
        "erase"}       \* removeByID: before id_info_.erase

Frame == [op : AllOps, pc : PCs, info : CallbackInfo \cup {NoCallback},
          id : Ids \cup {NoId}, obj : 0..MaxInfos,
          last : Ids \cup {NoId}, own : BOOLEAN, called : Nat]

NoFrame == [op |-> "callOne", pc |-> "account", info |-> NoCallback,
            id |-> NoId, obj |-> 0, last |-> NoId, own |-> FALSE, called |-> 0]

Top(t) == frame[t][depth[t]]
At(t, pc) == depth[t] > 0 /\ Top(t).pc = pc

\* A thread calls the queue from outside any callback or from within one.
MayCall(t, op) ==
  \/ depth[t] = 0 /\ op \in TopOps[t]
  \/ At(t, "in_call") /\ op \in NestedOps

Enter(t, f) ==
  /\ depth[t] < MaxDepth
  /\ depth' = [depth EXCEPT ![t] = @ + 1]
  /\ frame' = [frame EXCEPT ![t][depth[t] + 1] = f]

Step(t, f) ==
  /\ frame' = [frame EXCEPT ![t][depth[t]] = f]
  /\ UNCHANGED depth

Return(t) ==
  /\ depth' = [depth EXCEPT ![t] = @ - 1]
  /\ frame' = [frame EXCEPT ![t][depth[t]] = NoFrame]

-----------------------------------------------------------------------------
(* boost::shared_mutex.  The unique section of removeByID is one step, so  *)
(* the exclusive flag is never seen set.  A writer that cannot lock sets   *)
(* exclusive_waiting_blocked, which keeps new readers out until the lock   *)
(* is next released.                                                       *)

CanLockShared(id, o) == ~writerWaits[id][o]
CanLockUnique(id, o) == shared[id][o] = 0

LockShared(id, o) ==
  /\ CanLockShared(id, o)
  /\ shared' = [shared EXCEPT ![id][o] = @ + 1]
  /\ UNCHANGED writerWaits

\* Mutation: the shared lock is never released.
UnlockSharedNever(id, o) == UNCHANGED <<shared, writerWaits>>

UnlockShared(id, o) ==
  /\ shared' = [shared EXCEPT ![id][o] = @ - 1]
  /\ writerWaits' = [writerWaits EXCEPT ![id][o] = @ /\ shared[id][o] # 1]

-----------------------------------------------------------------------------
Init ==
  /\ callbacks = <<>> /\ calling = 0 /\ enabled = TRUE
  /\ idInfo = [id \in Ids |-> 0]
  /\ created = [id \in Ids |-> 0]
  /\ shared = [id \in Ids |-> [o \in Infos |-> 0]]
  /\ writerWaits = [id \in Ids |-> [o \in Infos |-> FALSE]]
  /\ tls = [t \in Threads |-> <<>>]
  /\ callingIn = [t \in Threads |-> NoId]
  /\ depth = [t \in Threads |-> 0]
  /\ frame = [t \in Threads |-> [d \in Levels |-> NoFrame]]
  /\ added = 0

(* enable(), disable() and clear().  None of them touches the callbacks a  *)
(* thread has already taken.                                               *)
Enable(t) ==
  /\ MayCall(t, "enable")
  /\ enabled' = TRUE
  /\ UNCHANGED <<callbacks, calling, lockvars, threadvars, added>>

Disable(t) ==
  /\ MayCall(t, "disable")
  /\ enabled' = FALSE
  /\ UNCHANGED <<callbacks, calling, lockvars, threadvars, added>>

Clear(t) ==
  /\ MayCall(t, "clear")
  /\ callbacks' = <<>>
  /\ UNCHANGED <<calling, enabled, lockvars, threadvars, added>>

(* addCallback: first make sure the id has an IDInfo, then, under the      *)
(* other mutex, push the callback if the queue is enabled.                 *)
AddCallback(t, id) ==
  /\ MayCall(t, "addCallback")
  /\ added < MaxAdds
  /\ added' = added + 1
  /\ IF idInfo[id] = 0
     THEN /\ created[id] < MaxInfos
          /\ created' = [created EXCEPT ![id] = @ + 1]
          /\ idInfo' = [idInfo EXCEPT ![id] = created[id] + 1]
     ELSE UNCHANGED <<created, idInfo>>
  /\ Enter(t, [NoFrame EXCEPT !.op = "addCallback", !.pc = "push",
                 !.info = [cb |-> added + 1, id |-> id, marked |-> FALSE]])
  /\ UNCHANGED <<qvars, shared, writerWaits, tls, callingIn>>

AddPush(t) ==
  /\ At(t, "push")
  /\ callbacks' = IF enabled THEN Append(callbacks, Top(t).info) ELSE callbacks
  /\ Return(t)
  /\ UNCHANGED <<calling, enabled, lockvars, tls, callingIn, added>>

-----------------------------------------------------------------------------
(* Taking callbacks: callOne takes the first one (every ready() in the     *)
(* code is true, and an entry of callbacks_ is never marked), and          *)
(* callAvailable takes them all and adds the size of the thread's whole    *)
(* list to calling_.                                                       *)

Taken(op) == IF op = "callOne" THEN <<Head(callbacks)>> ELSE callbacks

\* Mutation: callOne calls the first callback and leaves it in the queue.
TakeCallbacksKeeps(t, op) ==
  /\ callbacks # <<>>
  /\ tls' = [tls EXCEPT ![t] = @ \o Taken(op)]
  /\ callbacks' = IF op = "callOne" THEN callbacks ELSE <<>>
  /\ calling' = calling + (IF op = "callOne" THEN 1 ELSE Len(tls'[t]))

\* Mutation: a single callback is taken for an empty queue.
TakeCallbacksOffByOne(t, op) ==
  /\ Len(callbacks) > 1
  /\ tls' = [tls EXCEPT ![t] = @ \o Taken(op)]
  /\ callbacks' = IF op = "callOne" THEN Tail(callbacks) ELSE <<>>
  /\ calling' = calling + (IF op = "callOne" THEN 1 ELSE Len(tls'[t]))

TakeCallbacks(t, op) ==
  /\ callbacks # <<>>
  /\ tls' = [tls EXCEPT ![t] = @ \o Taken(op)]
  /\ callbacks' = IF op = "callOne" THEN Tail(callbacks) ELSE <<>>
  /\ calling' = calling + (IF op = "callOne" THEN 1 ELSE Len(tls'[t]))

\* An empty queue with a zero timeout, or a disabled one, returns at once and
\* changes nothing; a non-zero timeout waits.
CallBegin(t, op) ==
  /\ MayCall(t, op)
  /\ enabled
  /\ \/ /\ callbacks = <<>>
        /\ Enter(t, [NoFrame EXCEPT !.op = op, !.pc = "wait"])
        /\ UNCHANGED <<callbacks, calling, tls>>
     \/ /\ TakeCallbacks(t, op)
        /\ Enter(t, [NoFrame EXCEPT !.op = op, !.pc = "lookup"])
  /\ UNCHANGED <<enabled, lockvars, callingIn, added>>

CallWake(t) ==
  /\ At(t, "wait")
  /\ \/ /\ callbacks = <<>> \/ ~enabled
        /\ Return(t)
        /\ UNCHANGED <<callbacks, calling, tls>>
     \/ /\ enabled
        /\ TakeCallbacks(t, Top(t).op)
        /\ Step(t, [Top(t) EXCEPT !.pc = "lookup"])
  /\ UNCHANGED <<enabled, lockvars, callingIn, added>>

CallOne(t) == CallBegin(t, "callOne")
CallAvailable(t) == CallBegin(t, "callAvailable")

\* callOneCB has returned something other than Empty: callOne is about to
\* decrease calling_ by one; callAvailable counts and goes on with its list.
AfterCall(t) ==
  Step(t, [NoFrame EXCEPT
             !.op = Top(t).op,
             !.called = Top(t).called + 1,
             !.pc = IF Top(t).op = "callAvailable" /\ tls'[t] # <<>>
                    THEN "lookup" ELSE "account"])

(* callOneCB up to getIDInfo: an id without an IDInfo has been removed, and *)
(* its callback is dropped.                                                 *)
Lookup(t) ==
  /\ At(t, "lookup")
  /\ LET info == Head(tls[t])
         o == idInfo[info.id]
     IN IF o = 0
        THEN /\ tls' = [tls EXCEPT ![t] = Tail(@)]
             /\ AfterCall(t)
        ELSE /\ Step(t, [Top(t) EXCEPT !.pc = "lock_shared",
                           !.info = info, !.id = info.id, !.obj = o])
             /\ UNCHANGED tls
  /\ UNCHANGED <<qvars, lockvars, callingIn, added>>

(* callOneCB takes the shared lock and calls the callback, unless the      *)
(* thread itself has marked it for removal.                                *)
StartCall(t) ==
  LET f == Top(t) IN
  /\ At(t, "lock_shared")
  /\ tls' = [tls EXCEPT ![t] = Tail(@)]
  /\ IF f.info.marked
     THEN /\ CanLockShared(f.id, f.obj)
          /\ AfterCall(t)
          /\ UNCHANGED <<shared, writerWaits, callingIn>>
     ELSE /\ LockShared(f.id, f.obj)
          /\ callingIn' = [callingIn EXCEPT ![t] = f.id]
          /\ Step(t, [f EXCEPT !.pc = "in_call", !.last = callingIn[t]])
  /\ UNCHANGED <<qvars, idInfo, created, added>>

\* Mutation: a callback that asks to be called again is forgotten when it is the
\* last one of its thread's list.
EndCallForgets(t, result) ==
  LET f == Top(t) IN
  /\ At(t, "in_call")
  /\ result \in CallResults \ {"Throw"}
  /\ callingIn' = [callingIn EXCEPT ![t] = f.last]
  /\ callbacks' = IF result = "TryAgain" /\ tls[t] # <<>>
                  THEN Append(callbacks, f.info) ELSE callbacks
  /\ UnlockShared(f.id, f.obj)
  /\ UNCHANGED tls
  /\ AfterCall(t)
  /\ UNCHANGED <<calling, enabled, idInfo, created, added>>

(* The callback returns: the caller's id is restored, a TryAgain callback   *)
(* goes back to the shared queue and the shared lock is released.           *)
EndCall(t, result) ==
  LET f == Top(t) IN
  /\ At(t, "in_call")
  /\ result \in CallResults \ {"Throw"}
  /\ callingIn' = [callingIn EXCEPT ![t] = f.last]
  /\ callbacks' = IF result = "TryAgain" THEN Append(callbacks, f.info)
                                         ELSE callbacks
  /\ UnlockShared(f.id, f.obj)
  /\ UNCHANGED tls
  /\ AfterCall(t)
  /\ UNCHANGED <<calling, enabled, idInfo, created, added>>

\* Mutation: no scope exit, the caller's id is lost when the callback throws.
ThrowCallNoScopeExit(t) ==
  LET f == Top(t) IN
  /\ At(t, "in_call")
  /\ "Throw" \in CallResults
  /\ UnlockShared(f.id, f.obj)
  /\ Return(t)
  /\ UNCHANGED <<qvars, idInfo, created, tls, callingIn, added>>

(* The callback throws: the scope exit restores the caller's id and the     *)
(* lock is released, and the exception leaves callOne or callAvailable with *)
(* calling_ as it is.                                                       *)
ThrowCall(t) ==
  LET f == Top(t) IN
  /\ At(t, "in_call")
  /\ "Throw" \in CallResults
  /\ callingIn' = [callingIn EXCEPT ![t] = f.last]
  /\ UnlockShared(f.id, f.obj)
  /\ Return(t)
  /\ UNCHANGED <<qvars, idInfo, created, tls, added>>

\* Mutation: a callAvailable that ran a callback of its own list counts one.
AccountOnce(t) ==
  /\ At(t, "account")
  /\ calling' = calling - 1
  /\ Return(t)
  /\ UNCHANGED <<callbacks, enabled, lockvars, tls, callingIn, added>>

(* The end of callOne (calling_ - 1) and of callAvailable (calling_ - called). *)
Account(t) ==
  /\ At(t, "account")
  /\ calling' = calling - Top(t).called
  /\ Return(t)
  /\ UNCHANGED <<callbacks, enabled, lockvars, tls, callingIn, added>>

-----------------------------------------------------------------------------
(* removeByID.  An id without IDInfo returns at once.  Called from a        *)
(* callback of the same id, it gives up the shared lock that call holds.    *)
RemoveByID(t, id) ==
  LET own == callingIn[t] = id IN
  /\ MayCall(t, "removeByID")
  /\ idInfo[id] # 0
  /\ IF own THEN UnlockShared(id, idInfo[id]) ELSE UNCHANGED <<shared, writerWaits>>
  /\ Enter(t, [NoFrame EXCEPT !.op = "removeByID", !.pc = "lock_unique",
                 !.id = id, !.obj = idInfo[id], !.own = own])
  /\ UNCHANGED <<qvars, idInfo, created, tls, callingIn, added>>

\* What the loop over callbacks_ leaves when it erases the entries of an id.
OtherIds(id) ==
  LET kept[n \in 0..Len(callbacks)] ==
        IF n = 0 THEN <<>>
        ELSE IF callbacks[n].id = id THEN kept[n - 1]
        ELSE Append(kept[n - 1], callbacks[n])
  IN kept[Len(callbacks)]

(* The unique section: with no call in progress, erase the id's callbacks.  *)
RemoveQueued(t) ==
  LET f == Top(t) IN
  /\ At(t, "lock_unique")
  /\ \/ /\ CanLockUnique(f.id, f.obj)
        /\ callbacks' = OtherIds(f.id)
        /\ writerWaits' = [writerWaits EXCEPT ![f.id][f.obj] = FALSE]
        /\ Step(t, [f EXCEPT !.pc = IF f.own THEN "relock" ELSE "erase"])
     \/ /\ ~CanLockUnique(f.id, f.obj) /\ ~writerWaits[f.id][f.obj]
        /\ writerWaits' = [writerWaits EXCEPT ![f.id][f.obj] = TRUE]
        /\ UNCHANGED <<callbacks, depth, frame>>
  /\ UNCHANGED <<calling, enabled, idInfo, created, shared, tls, callingIn, added>>

\* Mutation: the lock given up for the removal is not taken back.
RemoveRelockSkips(t) ==
  /\ At(t, "relock")
  /\ Step(t, [Top(t) EXCEPT !.pc = "erase"])
  /\ UNCHANGED <<qvars, lockvars, tls, callingIn, added>>

RemoveRelock(t) ==
  LET f == Top(t) IN
  /\ At(t, "relock")
  /\ LockShared(f.id, f.obj)
  /\ Step(t, [f EXCEPT !.pc = "erase"])
  /\ UNCHANGED <<qvars, idInfo, created, tls, callingIn, added>>

(* Mark the thread's own taken callbacks, then forget the id.               *)
RemoveErase(t) ==
  LET f == Top(t) IN
  /\ At(t, "erase")
  /\ tls' = [tls EXCEPT ![t] =
               [i \in DOMAIN @ |->
                  [@[i] EXCEPT !.marked = tls[t][i].marked \/ tls[t][i].id = f.id]]]
  /\ idInfo' = [idInfo EXCEPT ![f.id] = 0]
  /\ Return(t)
  /\ UNCHANGED <<qvars, created, shared, writerWaits, callingIn, added>>

-----------------------------------------------------------------------------
\* The steps of a call that has begun; what the code does by itself.
Progress(t) ==
  \/ AddPush(t) \/ CallWake(t) \/ Lookup(t) \/ StartCall(t) \/ Account(t)
  \/ RemoveQueued(t) \/ RemoveRelock(t) \/ RemoveErase(t)

Next ==
  \E t \in Threads :
    \/ Enable(t) \/ Disable(t) \/ Clear(t)
    \/ \E id \in Ids : AddCallback(t, id) \/ RemoveByID(t, id)
    \/ CallOne(t) \/ CallAvailable(t)
    \/ AddPush(t) \/ CallWake(t) \/ Lookup(t) \/ StartCall(t)
    \/ \E r \in {"Success", "TryAgain"} : EndCall(t, r)
    \/ ThrowCall(t)
    \/ Account(t)
    \/ RemoveQueued(t) \/ RemoveRelock(t) \/ RemoveErase(t)

Spec == Init /\ [][Next]_vars

\* A spinning thread calls callAvailable for ever, a thread inside a queue call
\* goes on, and a user's callback returns.  The reader/writer lock is obtained by
\* a thread to which it is free again and again: boost::shared_mutex starves
\* neither readers nor writers, whoever releases it wakes both.
LockGranted(t) ==
  StartCall(t) \/ RemoveRelock(t) \/ (RemoveQueued(t) /\ ~At(t, "lock_unique")')

Fairness ==
  \A t \in Threads :
    /\ WF_vars(Progress(t)) /\ SF_vars(LockGranted(t))
    /\ WF_vars(\E r \in {"Success", "TryAgain"} : EndCall(t, r))
    /\ WF_vars(depth[t] = 0 /\ CallAvailable(t))

FairSpec == Spec /\ Fairness

-----------------------------------------------------------------------------
(* Properties. *)

TypeOK ==
  /\ callbacks \in Seq(CallbackInfo)
  /\ \A i \in DOMAIN callbacks : ~callbacks[i].marked
  /\ calling \in Nat /\ enabled \in BOOLEAN
  /\ idInfo \in [Ids -> 0..MaxInfos] /\ created \in [Ids -> 0..MaxInfos]
  /\ shared \in [Ids -> [Infos -> Int]]
  /\ writerWaits \in [Ids -> [Infos -> BOOLEAN]]
  /\ tls \in [Threads -> Seq(CallbackInfo)]
  /\ callingIn \in [Threads -> Ids \cup {NoId}]
  /\ depth \in [Threads -> 0..MaxDepth]
  /\ frame \in [Threads -> [Levels -> Frame]]
  /\ added \in 0..MaxAdds

Running(t, d) == d <= depth[t] /\ frame[t][d].pc = "in_call"

\* The id of the innermost callback a thread is running below level d.
CallerAt(t, d) == IF d = 0 THEN NoId ELSE frame[t][d].id

\* calling_in_this_thread names the innermost callback the thread is running,
\* whatever queue calls, exceptions and removals that callback has made: the
\* test by which removeByID decides that it must release its caller's lock.
CallerIsInnermost ==
  \A t \in Threads :
    callingIn[t] = CallerAt(t, IF At(t, "in_call") THEN depth[t]
                               ELSE IF depth[t] = 0 THEN 0 ELSE depth[t] - 1)

\* A callback handed to addCallback once is in one place only: the shared queue,
\* one thread's list, or one running call.  TryAgain moves it back, never copies.
Places(c) ==
  Cardinality({i \in DOMAIN callbacks : callbacks[i].cb = c})
    + Cardinality({p \in Threads \X (1..MaxAdds) :
                     p[2] \in DOMAIN tls[p[1]] /\ tls[p[1]][p[2]].cb = c})
    + Cardinality({p \in Threads \X Levels :
                     /\ p[2] <= depth[p[1]]
                     /\ frame[p[1]][p[2]].pc \in {"in_call", "push"}
                     /\ frame[p[1]][p[2]].info.cb = c})

NeverDuplicated == \A c \in Callbacks : Places(c) <= 1

\* What two spinning threads and a removal leave of the queue is well-formed, and
\* every callback is in it, or in one thread's list, once at most.
QueueConsistent == TypeOK /\ NeverDuplicated

\* The reader/writer lock of an id counts exactly the calls in progress, less the
\* ones whose callback is inside removeByID of its own id: removeByID's unique
\* lock therefore waits for every other call, and for none that has ended.
Holders(id, o) ==
  {p \in Threads \X Levels :
     /\ Running(p[1], p[2])
     /\ frame[p[1]][p[2]].id = id /\ frame[p[1]][p[2]].obj = o}

Suspended(id, o) ==
  {t \in Threads :
     /\ depth[t] > 0 /\ Top(t).own /\ Top(t).pc \in {"lock_unique", "relock"}
     /\ Top(t).id = id /\ Top(t).obj = o}

LockCountsCalls ==
  \A id \in Ids, o \in Infos :
    shared[id][o] = Cardinality(Holders(id, o)) - Cardinality(Suspended(id, o))

\* isEmpty() answers TRUE once every queued callback has been dealt with and no
\* thread is inside the queue: calling_ never keeps a residue.
IsEmpty == callbacks = <<>> /\ calling = 0

IdleMeansEmpty ==
  (callbacks = <<>> /\ \A t \in Threads : depth[t] = 0 /\ tls[t] = <<>>) => IsEmpty

\* removeByID returns: its unique lock is granted once the calls in progress end.
RemovalReturns ==
  \A t \in Threads : At(t, "lock_unique") ~> ~At(t, "lock_unique")

\* A callback that the queue holds, in the shared queue or in a thread's list, is
\* eventually called or has left the queue (in a run that does not disable the
\* queue and whose callbacks do not throw: the list of a thread that leaves
\* callAvailable by an exception waits for the next call with a callback).  And it
\* leaves for a reason only: its call ends, and not with TryAgain, its
\* id has been or is being removed, clear() is called, or it comes to a disabled
\* queue.  So a callback that asks to be called again is called again, whatever
\* lists it and the others have been through meanwhile.
Entries(c) ==
  {e \in {callbacks[i] : i \in DOMAIN callbacks}
          \cup UNION {{tls[t][i] : i \in DOMAIN tls[t]} : t \in Threads}
          \cup {frame[t][d].info : t \in Threads, d \in Levels} : e.cb = c}

BeingCalled(c) ==
  \E t \in Threads, d \in Levels : Running(t, d) /\ frame[t][d].info.cb = c

Held(c) == Places(c) > 0 /\ ~BeingCalled(c)

MayLeave(c) ==
  \/ /\ BeingCalled(c)
     /\ ~\E t \in Threads : EndCall(t, "TryAgain") /\ Top(t).info.cb = c
  \/ ~enabled
  \/ \E e \in Entries(c) :
       \/ e.marked \/ idInfo[e.id] = 0
       \/ \E t \in Threads : At(t, "lock_unique") /\ Top(t).id = e.id
  \/ \E t \in Threads : Clear(t)

EveryCallbackHandled ==
  /\ \A c \in Callbacks : Held(c) ~> (BeingCalled(c) \/ Places(c) = 0)
  /\ [][\A c \in Callbacks :
          (Places(c) > 0 /\ Places(c)' = 0) => MayLeave(c)]_vars
=============================================================================
