--------------------------- MODULE MessageDelivery ---------------------------
(***************************************************************************)
(* xcros::Subscription and xcros::SubscriptionQueue: how a message that     *)
(* arrives on a publisher link reaches the user's callbacks.               *)
(*                                                                         *)
(* handleMessage, under callbacks_mutex_, pushes the message into the       *)
(* bounded SubscriptionQueue of every callback and, when the push did not   *)
(* replace an older message, puts the SubscriptionQueue once more into the  *)
(* CallbackQueue.  A spinning thread that takes such an entry pops at most  *)
(* one message.  The pairing of entries and messages is kept by nothing     *)
(* else, and a message without an entry is never seen by the user.          *)
(*                                                                         *)
(* The CallbackQueue (module CallbackQueue) appears here as the number of   *)
(* entries of each callback, in the shared queue or in a thread's list, in  *)
(* no order, because the lists of several threads keep none.  removeByID    *)
(* waits for the calls of other threads and may leave entries that other    *)
(* threads have already taken.                                             *)
(*                                                                         *)
(* SubscriptionQueue::call takes callback_mutex_ and queue_mutex_ in turn;  *)
(* nothing but a push can come between, and a push there is the same as one *)
(* before the call, so try_lock and pop are one step.                       *)
(***************************************************************************)
EXTENDS Integers, Sequences

CONSTANTS
  Subs,          \* CallbackInfo objects: one per subscribe() to the topic
  Links,         \* publisher links of the Subscription
  Latched,       \* links whose publisher latches (PublisherLink::isLatched)
  Intraprocess,  \* links to a publisher in the same process
  Threads,       \* threads that spin or unsubscribe
  NoThread, NoSub, NoMsg,
  Concurrent,    \* callbacks with allow_concurrent_callbacks
  Tracked,       \* callbacks with a tracked object
  Size,          \* queue_size of each callback; 0 or less is unbounded
  Md5,           \* md5sum given to subscribe(); "*" accepts any type
  AnyMd5,        \* "*"
  Spinners,      \* threads that spin
  Removers,      \* pairs <<thread, callback>>: who unsubscribes what
  MaxNest,       \* bound: spins nested in one thread, 1 for none
  MaxMsgs,       \* bound: messages per link
  Admin          \* the user disables, enables or clears the CallbackQueue

ASSUME MessageDeliveryAssumption ==
  /\ Latched \subseteq Links /\ Intraprocess \subseteq Links
  /\ NoThread \notin Threads /\ NoSub \notin Subs
  /\ Concurrent \subseteq Subs /\ Tracked \subseteq Subs
  /\ Size \in [Subs -> Int]
  /\ Spinners \subseteq Threads /\ Removers \subseteq Threads \X Subs
  /\ MaxNest \in Nat /\ MaxMsgs \in Nat
  /\ Admin \in BOOLEAN

Msg == [link : Links, seq : 1..MaxMsgs]

ASSUME NoMsgAssumption == NoMsg \notin Msg

VARIABLES
  status,    \* of a callback: in callbacks_ ("active") or how far its removal is
  remover,   \* the thread in removeCallback for it
  md5sum,    \* md5sum_
  queue,     \* SubscriptionQueue::queue_ (queue_size_ is its length)
  tokens,    \* entries of the SubscriptionQueue in the CallbackQueue
  run,       \* the callbacks each thread is in, innermost last
  busy,      \* callbacks_mutex_ is held by handleMessage or addCallback
  current,   \* the message handleMessage is working on
  work,      \* the pushes it has left: pairs of a callback and a message
  owe,       \* the callback pushed to and not yet put into the CallbackQueue
  latched,   \* latched_messages_
  links,     \* publisher_links_
  sent,      \* messages each link has delivered
  alive,     \* tracked objects that still exist
  enabled,   \* CallbackQueue::enabled_
  touched,   \* history: the user has disabled or cleared the CallbackQueue
  lastSeq    \* history: the newest message of each link each callback popped

vars == <<status, remover, md5sum, queue, tokens, run, busy, current, work, owe,
          latched, links, sent, alive, enabled, touched, lastSeq>>
critvars == <<busy, current, work, owe>>
linkvars == <<latched, links, sent>>
adminvars == <<enabled, touched>>

Statuses == {"new", "active", "clear", "wait", "removed"}

Active == {c \in Subs : status[c] = "active"}
In(c, s) == \E i \in 1..Len(s) : s[i] = c
Removing(t) == \E c \in Subs : status[c] \in {"clear", "wait"} /\ remover[c] = t
Drop(s) == [i \in 1..(Len(s) - 1) |-> s[i]]     \* all but the last element
Full(c) == Size[c] > 0 /\ Len(queue[c]) >= Size[c]

Init ==
  /\ status = [c \in Subs |-> "new"]
  /\ remover = [c \in Subs |-> NoThread]
  /\ md5sum = AnyMd5
  /\ queue = [c \in Subs |-> <<>>]
  /\ tokens = [c \in Subs |-> 0]
  /\ run = [t \in Threads |-> <<>>]
  /\ busy = FALSE /\ current = NoMsg /\ work = {} /\ owe = NoSub
  /\ latched = [l \in Links |-> NoMsg]
  /\ links = {}
  /\ sent = [l \in Links |-> 0]
  /\ alive = Tracked
  /\ enabled = TRUE /\ touched = FALSE
  /\ lastSeq = [c \in Subs |-> [l \in Links |-> 0]]

-----------------------------------------------------------------------------
(* Links come and go; a link header settles an undecided md5sum.            *)

\* addPublisherLink with headerReceived, whose link carries md5sum m.
AddLink(l, m) ==
  /\ l \notin links /\ sent[l] = 0
  /\ links' = links \cup {l}
  /\ md5sum' = IF md5sum = AnyMd5 THEN m ELSE md5sum
  /\ UNCHANGED <<status, remover, queue, tokens, run, critvars, latched, sent,
                 alive, adminvars, lastSeq>>

\* removePublisherLink forgets the link's latched message.
RemovePublisherLink(l) ==
  /\ l \in links
  /\ links' = links \ {l}
  /\ latched' = IF l \in Latched THEN [latched EXCEPT ![l] = NoMsg] ELSE latched
  /\ UNCHANGED <<status, remover, md5sum, queue, tokens, run, critvars, sent,
                 alive, adminvars, lastSeq>>

-----------------------------------------------------------------------------
(* handleMessage and addCallback: under callbacks_mutex_, one push at a     *)
(* time, each followed by addCallback on the CallbackQueue unless the push  *)
(* replaced a message.                                                      *)

\* A message from another process goes to every callback.  One from this process
\* arrives once as an object and once serialized, each for the callbacks whose
\* C++ type asks for it.  A thread on its way into handleMessage is not stopped
\* when the link is dropped.
HandleMessage(l) ==
  /\ ~busy /\ sent[l] < MaxMsgs
  /\ l \in links \/ sent[l] > 0
  /\ LET m == [link |-> l, seq |-> sent[l] + 1]
     IN \E takers \in IF l \in Intraprocess THEN SUBSET Active ELSE {Active} :
          /\ work' = takers \X {m}
          /\ current' = m
  /\ busy' = TRUE
  /\ sent' = [sent EXCEPT ![l] = @ + 1]
  /\ UNCHANGED <<status, remover, md5sum, queue, tokens, run, owe, latched, links,
                 alive, adminvars, lastSeq>>

\* Mutation: the md5sum of a second callback replaces the first.
AddCallbackAnyType(c) ==
  /\ ~busy /\ status[c] = "new"
  /\ md5sum' = IF Md5[c] # AnyMd5 THEN Md5[c] ELSE md5sum
  /\ busy' = TRUE
  /\ status' = [status EXCEPT ![c] = "active"]
  /\ work' = {}
  /\ UNCHANGED <<remover, queue, tokens, run, current, owe, linkvars, alive,
                 adminvars, lastSeq>>

\* addCallback refuses another type, and schedules the latched messages.
AddCallback(c) ==
  LET decayed == IF md5sum = AnyMd5 THEN Md5[c] ELSE md5sum IN
  /\ ~busy /\ status[c] = "new"
  /\ md5sum' = decayed
  /\ Md5[c] \in {AnyMd5, decayed}
  /\ busy' = TRUE
  /\ status' = [status EXCEPT ![c] = "active"]
  /\ work' = {<<c, latched[l]>> : l \in {k \in links \cap Latched : latched[k] # NoMsg}}
  /\ UNCHANGED <<remover, queue, tokens, run, current, owe, linkvars, alive,
                 adminvars, lastSeq>>

\* Mutation: a push that fills the queue counts as one that found it full.
PushEarlyFull(c, m) ==
  /\ queue' = [queue EXCEPT ![c] = IF Full(c) THEN Append(Tail(@), m)
                                              ELSE Append(@, m)]
  /\ owe' = IF Size[c] > 0 /\ Len(queue[c]) + 1 >= Size[c] THEN NoSub ELSE c

\* SubscriptionQueue::push: a full queue loses its oldest message.
Push(c, m) ==
  /\ queue' = [queue EXCEPT ![c] = IF Full(c) THEN Append(Tail(@), m)
                                              ELSE Append(@, m)]
  /\ owe' = IF Full(c) THEN NoSub ELSE c

PushNext ==
  /\ busy /\ owe = NoSub
  /\ \E w \in work :
       /\ Push(w[1], w[2])
       /\ work' = work \ {w}
  /\ UNCHANGED <<status, remover, md5sum, tokens, run, busy, current, linkvars,
                 alive, adminvars, lastSeq>>

\* CallbackQueue::addCallback, which does nothing when the queue is disabled.
Schedule ==
  /\ owe # NoSub
  /\ tokens' = IF enabled THEN [tokens EXCEPT ![owe] = @ + 1] ELSE tokens
  /\ owe' = NoSub
  /\ UNCHANGED <<status, remover, md5sum, queue, run, busy, current, work, linkvars,
                 alive, adminvars, lastSeq>>

\* The end of handleMessage stores a latched link's message.
Finish ==
  /\ busy /\ work = {} /\ owe = NoSub
  /\ busy' = FALSE
  /\ current' = NoMsg
  /\ latched' = IF current # NoMsg /\ current.link \in Latched
                THEN [latched EXCEPT ![current.link] = current] ELSE latched
  /\ UNCHANGED <<status, remover, md5sum, queue, tokens, run, work, owe, links, sent,
                 alive, adminvars, lastSeq>>

-----------------------------------------------------------------------------
(* SubscriptionQueue::call in a spinning thread, or in a callback that      *)
(* spins itself.  callback_mutex_ is recursive: only another thread's call  *)
(* makes try_lock fail.                                                     *)

MaySpin(t) == t \in Spinners /\ ~Removing(t) /\ Len(run[t]) < MaxNest

\* Mutation: the lock is not tried.
CanLockAlways(t, c) == TRUE

CanLock(t, c) == c \in Concurrent \/ \A u \in Threads \ {t} : ~In(c, run[u])

\* TryAgain: the CallbackQueue takes the entry back.
CallBusy(t, c) ==
  /\ MaySpin(t) /\ tokens[c] > 0
  /\ ~CanLock(t, c)
  /\ UNCHANGED vars

\* Invalid: nothing queued, or the tracked object is gone (nothing is popped).
CallInvalid(t, c) ==
  /\ MaySpin(t) /\ tokens[c] > 0
  /\ CanLock(t, c)
  /\ queue[c] = <<>> \/ c \in Tracked \ alive
  /\ tokens' = [tokens EXCEPT ![c] = @ - 1]
  /\ UNCHANGED <<status, remover, md5sum, queue, run, critvars, linkvars, alive,
                 adminvars, lastSeq>>

\* Mutation: the newest message is popped.
PopNewest(c) ==
  LET m == queue[c][Len(queue[c])] IN
  /\ queue' = [queue EXCEPT ![c] = Drop(@)]
  /\ lastSeq' = [lastSeq EXCEPT ![c][m.link] = m.seq]

Pop(c) ==
  LET m == Head(queue[c]) IN
  /\ queue' = [queue EXCEPT ![c] = Tail(@)]
  /\ lastSeq' = [lastSeq EXCEPT ![c][m.link] = m.seq]

\* Success: the message is popped, and the user's function runs unless the
\* message cannot be deserialized.
CallSuccess(t, c) ==
  /\ MaySpin(t) /\ tokens[c] > 0
  /\ CanLock(t, c)
  /\ queue[c] # <<>> /\ c \notin Tracked \ alive
  /\ Pop(c)
  /\ tokens' = [tokens EXCEPT ![c] = @ - 1]
  /\ \/ run' = [run EXCEPT ![t] = Append(@, c)]
     \/ UNCHANGED run
  /\ UNCHANGED <<status, remover, md5sum, critvars, linkvars, alive, adminvars>>

\* The user's function returns.
EndCall(t) ==
  /\ run[t] # <<>> /\ ~Removing(t)
  /\ run' = [run EXCEPT ![t] = Drop(@)]
  /\ UNCHANGED <<status, remover, md5sum, queue, tokens, critvars, linkvars, alive,
                 adminvars, lastSeq>>

-----------------------------------------------------------------------------
(* removeCallback: erase under callbacks_mutex_, then clear the queue under *)
(* callback_mutex_, then removeByID.                                        *)

\* Mutation: callbacks_mutex_ is not taken.
RemoveCallbackUnlocked(t, c) ==
  /\ <<t, c>> \in Removers /\ status[c] = "active" /\ ~Removing(t)
  /\ status' = [status EXCEPT ![c] = "clear"]
  /\ remover' = [remover EXCEPT ![c] = t]
  /\ UNCHANGED <<md5sum, queue, tokens, run, critvars, linkvars, alive, adminvars,
                 lastSeq>>

RemoveCallback(t, c) ==
  /\ <<t, c>> \in Removers /\ status[c] = "active" /\ ~Removing(t)
  /\ ~busy
  /\ status' = [status EXCEPT ![c] = "clear"]
  /\ remover' = [remover EXCEPT ![c] = t]
  /\ UNCHANGED <<md5sum, queue, tokens, run, critvars, linkvars, alive, adminvars,
                 lastSeq>>

\* Mutation: callback_mutex_ is not recursive.
ClearQueueNotRecursive(c) ==
  /\ status[c] = "clear" /\ \A t \in Threads : ~In(c, run[t])
  /\ queue' = [queue EXCEPT ![c] = <<>>]
  /\ status' = [status EXCEPT ![c] = "wait"]
  /\ UNCHANGED <<remover, md5sum, tokens, run, critvars, linkvars, alive, adminvars,
                 lastSeq>>

\* SubscriptionQueue::clear.
ClearQueue(c) ==
  /\ status[c] = "clear" /\ CanLock(remover[c], c)
  /\ queue' = [queue EXCEPT ![c] = <<>>]
  /\ status' = [status EXCEPT ![c] = "wait"]
  /\ UNCHANGED <<remover, md5sum, tokens, run, critvars, linkvars, alive, adminvars,
                 lastSeq>>

\* removeByID gives up the shared lock of the innermost call only.
OwnCallsAllow(t, c) == \A i \in 1..Len(run[t]) : run[t][i] = c => i = Len(run[t])

\* removeByID waits for the calls in progress in other threads; entries that
\* other threads have already taken may be left.
RemoveByID(c) ==
  /\ status[c] = "wait"
  /\ \A t \in Threads \ {remover[c]} : ~In(c, run[t])
  /\ OwnCallsAllow(remover[c], c)
  /\ status' = [status EXCEPT ![c] = "removed"]
  /\ \E n \in 0..tokens[c] : tokens' = [tokens EXCEPT ![c] = n]
  /\ UNCHANGED <<remover, md5sum, queue, run, critvars, linkvars, alive, adminvars,
                 lastSeq>>

\* callOneCB drops an entry whose id is gone.
DropToken(t, c) ==
  /\ MaySpin(t) /\ status[c] = "removed" /\ tokens[c] > 0
  /\ tokens' = [tokens EXCEPT ![c] = @ - 1]
  /\ UNCHANGED <<status, remover, md5sum, queue, run, critvars, linkvars, alive,
                 adminvars, lastSeq>>

-----------------------------------------------------------------------------
\* The last reference to a tracked object goes away.
Expire(c) ==
  /\ c \in alive
  /\ alive' = alive \ {c}
  /\ UNCHANGED <<status, remover, md5sum, queue, tokens, run, critvars, linkvars,
                 adminvars, lastSeq>>

\* The user disables, enables or clears the CallbackQueue.
SwitchQueue(on) ==
  /\ Admin /\ enabled # on
  /\ enabled' = on /\ touched' = TRUE
  /\ UNCHANGED <<status, remover, md5sum, queue, tokens, run, critvars, linkvars,
                 alive, lastSeq>>

ClearCallbackQueue ==
  /\ Admin
  /\ \E kept \in [Subs -> UNION {0..tokens[c] : c \in Subs}] :
       /\ \A c \in Subs : kept[c] <= tokens[c]
       /\ tokens' = kept
  /\ touched' = TRUE
  /\ UNCHANGED <<status, remover, md5sum, queue, run, critvars, linkvars, alive,
                 enabled, lastSeq>>

Next ==
  \/ \E l \in Links : \/ \E m \in {Md5[c] : c \in Subs} \ {AnyMd5} : AddLink(l, m)
                      \/ RemovePublisherLink(l)
                      \/ HandleMessage(l)
  \/ \E c \in Subs : AddCallback(c) \/ Expire(c) \/ ClearQueue(c) \/ RemoveByID(c)
  \/ PushNext \/ Schedule \/ Finish
  \/ \E t \in Threads : \E c \in Subs :
       \/ CallBusy(t, c) \/ CallInvalid(t, c) \/ CallSuccess(t, c)
       \/ RemoveCallback(t, c) \/ DropToken(t, c)
  \/ \E t \in Threads : EndCall(t)
  \/ \E on \in BOOLEAN : SwitchQueue(on)
  \/ ClearCallbackQueue

Spec == Init /\ [][Next]_vars

\* A thread in handleMessage, addCallback or removeCallback goes on, a user's
\* function returns, and every entry is eventually taken by a spinning thread:
\* the queue is a FIFO and TryAgain puts an entry behind the others, so an entry
\* whose lock is free again and again is called.
Fairness ==
  /\ WF_vars(PushNext) /\ WF_vars(Schedule) /\ WF_vars(Finish)
  /\ \A c \in Subs :
       /\ WF_vars(ClearQueue(c)) /\ WF_vars(RemoveByID(c))
       /\ SF_vars(\E t \in Threads : CallInvalid(t, c) \/ CallSuccess(t, c))
  /\ \A t \in Threads : WF_vars(EndCall(t))

FairSpec == Spec /\ Fairness

-----------------------------------------------------------------------------
(* Properties. *)

TypeOK ==
  /\ status \in [Subs -> Statuses]
  /\ remover \in [Subs -> Threads \cup {NoThread}]
  /\ queue \in [Subs -> Seq(Msg)]
  /\ tokens \in [Subs -> Nat]
  /\ run \in [Threads -> Seq(Subs)]
  /\ busy \in BOOLEAN /\ current \in Msg \cup {NoMsg}
  /\ work \subseteq Subs \X Msg /\ owe \in Subs \cup {NoSub}
  /\ latched \in [Links -> Msg \cup {NoMsg}]
  /\ links \subseteq Links
  /\ sent \in [Links -> 0..MaxMsgs]
  /\ alive \subseteq Tracked
  /\ enabled \in BOOLEAN /\ touched \in BOOLEAN
  /\ lastSeq \in [Subs -> [Links -> 0..MaxMsgs]]

\* No message is stranded: unless the user switched the CallbackQueue off or
\* emptied it, every message queued for a callback has an entry in the
\* CallbackQueue, or the thread that pushed it is about to add one.  This is what
\* lets handleMessage skip addCallback when push reports was_full.
NoStranded ==
  ~touched => \A c \in Active \ (Tracked \ alive) :
                Len(queue[c]) <= tokens[c] + (IF owe = c THEN 1 ELSE 0)

\* A queue holds at most queue_size messages, the newest ones of its callback.
QueueBounded == \A c \in Subs : Size[c] > 0 => Len(queue[c]) <= Size[c]

\* Two threads are never in the same callback, unless it allows that.
OneThreadAtATime ==
  \A c \in Subs \ Concurrent : \A t, u \in Threads :
    In(c, run[t]) /\ In(c, run[u]) => t = u

\* When removeCallback has returned, no thread is in the callback but the one
\* that removed it from within, and nothing is left to call it with.
QuietAfterRemoval ==
  \A c \in Subs : status[c] = "removed" =>
    queue[c] = <<>> /\ \A t \in Threads \ {remover[c]} : ~In(c, run[t])

\* How far the life of a callback's channel is.
ChannelState == [c \in Subs |-> CASE status[c] = "new" -> "new"
                                  [] status[c] \in {"active", "clear"} -> "open"
                                  [] OTHER -> "closed"]

\* "subscription callbacks are guaranteed to arrive in-order": what the queues,
\* entries, locks and threads do together is what TopicChannel promises. Messages
\* of a link are queued and called in their order, the replayed latched message
\* included; only the oldest of a full queue is lost; and a callback whose removal
\* has cleared its queue is never given a message again.
Channel == INSTANCE TopicChannel WITH
  state <- ChannelState, pending <- queue, got <- lastSeq
ImplementsChannel == Channel!Spec

\* All callbacks of a subscription expect the same type, or any.
OneType ==
  \A c \in Subs : status[c] # "new" => Md5[c] \in {AnyMd5, md5sum}

\* Every queued message is called, replaced by a newer one or discarded by
\* removeCallback.
EveryMessageLeaves ==
  \A c \in Subs : \A m \in Msg :
    (In(m, queue[c]) /\ c \notin Tracked) ~> ~In(m, queue[c])

\* removeCallback returns.
RemovalReturns == \A c \in Subs : status[c] = "clear" ~> status[c] = "removed"
=============================================================================
