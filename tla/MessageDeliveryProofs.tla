------------------------ MODULE MessageDeliveryProofs ------------------------
(***************************************************************************)
(* For any callbacks, links, threads, queue sizes and nesting: types, no   *)
(* stranded message, bounded queues, one thread at a time, silence after   *)
(* removeCallback, and that the delivery implements TopicChannel.          *)
(*                                                                         *)
(* NoStranded and QuietAfterRemoval are not inductive.  DeliveryInv adds    *)
(* what the locks give: pending pushes exist only while callbacks_mutex_ is *)
(* held and only for registered callbacks (removeCallback erases under the  *)
(* same lock), a callback's queue is empty before it is registered and from *)
(* SubscriptionQueue::clear on, and an untouched CallbackQueue is enabled.  *)
(***************************************************************************)
EXTENDS MessageDelivery, TLAPS

LockInv ==
  /\ ~busy => work = {} /\ owe = NoSub
  /\ \A w \in work : status[w[1]] = "active"
  /\ owe # NoSub => status[owe] = "active"
  /\ ~touched => enabled

EmptyInv == \A c \in Subs : status[c] \in {"new", "wait", "removed"} => queue[c] = <<>>

RunInv == \A c \in Subs : status[c] = "removed" =>
            \A t \in Threads \ {remover[c]} : ~In(c, run[t])

DeliveryInv ==
  TypeOK /\ LockInv /\ EmptyInv /\ RunInv /\ NoStranded /\ QueueBounded /\ OneThreadAtATime

USE MessageDeliveryAssumption, NoMsgAssumption

-----------------------------------------------------------------------------
\* The elements of a stack that has grown by c.
LEMMA InAppend ==
  ASSUME NEW s \in Seq(Subs), NEW c \in Subs, NEW d
  PROVE  In(d, Append(s, c)) <=> In(d, s) \/ d = c
<1>1. ASSUME In(d, Append(s, c)) PROVE In(d, s) \/ d = c
  BY <1>1 DEF In
<1>2. ASSUME In(d, s) PROVE In(d, Append(s, c))
  <2>1. PICK i \in 1..Len(s) : s[i] = d
    BY <1>2 DEF In
  <2>2. i \in 1..Len(Append(s, c)) /\ Append(s, c)[i] = d
    BY <2>1
  <2> QED BY <2>2 DEF In
<1>3. ASSUME d = c PROVE In(d, Append(s, c))
  <2>1. Len(s) + 1 \in 1..Len(Append(s, c)) /\ Append(s, c)[Len(s) + 1] = d
    BY <1>3
  <2> QED BY <2>1 DEF In
<1> QED BY <1>1, <1>2, <1>3

\* A stack without its last element.
LEMMA InDrop ==
  ASSUME NEW s \in Seq(Subs), s # <<>>, NEW d
  PROVE  Drop(s) \in Seq(Subs) /\ (In(d, Drop(s)) => In(d, s))
<1>1. Len(s) \in Nat /\ Len(s) > 0
  OBVIOUS
<1>2. Drop(s) \in Seq(Subs) /\ Len(Drop(s)) = Len(s) - 1
  BY <1>1 DEF Drop
<1>3. \A i \in 1..(Len(s) - 1) : Drop(s)[i] = s[i]
  BY <1>1 DEF Drop
<1> QED BY <1>1, <1>2, <1>3 DEF In

\* What one push does to its queue.
LEMMA PushEffect ==
  ASSUME TypeOK, QueueBounded, NEW c \in Subs, NEW m \in Msg, Push(c, m)
  PROVE  /\ queue' \in [Subs -> Seq(Msg)]
         /\ \A d \in Subs : d # c => queue'[d] = queue[d]
         /\ Full(c) => Len(queue'[c]) = Len(queue[c]) /\ owe' = NoSub
         /\ ~Full(c) => Len(queue'[c]) = Len(queue[c]) + 1 /\ owe' = c
         /\ Size[c] > 0 => Len(queue'[c]) <= Size[c]
<1>1. queue[c] \in Seq(Msg) /\ Size[c] \in Int /\ Len(queue[c]) \in Nat
  BY DEF TypeOK
<1>2. CASE Full(c)
  <2>1. queue[c] # <<>>
    BY <1>1, <1>2 DEF Full
  <2>2. Tail(queue[c]) \in Seq(Msg) /\ Len(Tail(queue[c])) = Len(queue[c]) - 1
    BY <1>1, <2>1
  <2>3. /\ Append(Tail(queue[c]), m) \in Seq(Msg)
        /\ Len(Append(Tail(queue[c]), m)) = Len(queue[c])
    BY <1>1, <2>2
  <2>4. queue' = [queue EXCEPT ![c] = Append(Tail(queue[c]), m)] /\ owe' = NoSub
    BY <1>2 DEF Push
  <2> HIDE DEF Full
  <2> QED BY <1>1, <1>2, <2>3, <2>4 DEF TypeOK, QueueBounded
<1>3. CASE ~Full(c)
  <2>1. /\ Append(queue[c], m) \in Seq(Msg)
        /\ Len(Append(queue[c], m)) = Len(queue[c]) + 1
    BY <1>1
  <2>2. queue' = [queue EXCEPT ![c] = Append(queue[c], m)] /\ owe' = c
    BY <1>3 DEF Push
  <2>3. Size[c] > 0 => Len(queue[c]) + 1 <= Size[c]
    BY <1>1, <1>3 DEF Full
  <2> QED BY <1>1, <1>3, <2>1, <2>2, <2>3 DEF TypeOK
<1> QED BY <1>2, <1>3

\* What one pop does to its queue.
LEMMA PopEffect ==
  ASSUME TypeOK, NEW c \in Subs, queue[c] # <<>>, Pop(c)
  PROVE  /\ queue' \in [Subs -> Seq(Msg)]
         /\ \A d \in Subs : d # c => queue'[d] = queue[d]
         /\ Len(queue'[c]) = Len(queue[c]) - 1
         /\ lastSeq' \in [Subs -> [Links -> 0..MaxMsgs]]
<1>1. queue[c] \in Seq(Msg)
  BY DEF TypeOK
<1>2. Head(queue[c]) \in Msg /\ Tail(queue[c]) \in Seq(Msg) /\ Len(Tail(queue[c])) = Len(queue[c]) - 1
  BY <1>1
<1>3. Head(queue[c]).link \in Links /\ Head(queue[c]).seq \in 0..MaxMsgs
  BY <1>2 DEF Msg
<1> QED BY <1>1, <1>2, <1>3 DEF TypeOK, Pop

-----------------------------------------------------------------------------
\* A new Subscription satisfies DeliveryInv.
LEMMA InitDelivery == Init => DeliveryInv
<1> SUFFICES ASSUME Init PROVE DeliveryInv
  OBVIOUS
<1>1. /\ queue \in [Subs -> Seq(Msg)] /\ run \in [Threads -> Seq(Subs)]
      /\ lastSeq \in [Subs -> [Links -> 0..MaxMsgs]]
  BY DEF Init
<1>2. TypeOK
  <2>1. /\ status \in [Subs -> Statuses] /\ remover \in [Subs -> Threads \cup {NoThread}]
        /\ tokens \in [Subs -> Nat] /\ latched \in [Links -> Msg \cup {NoMsg}]
        /\ sent \in [Links -> 0..MaxMsgs]
    BY DEF Init, Statuses
  <2>2. /\ busy \in BOOLEAN /\ current \in Msg \cup {NoMsg}
        /\ work \subseteq Subs \X Msg /\ owe \in Subs \cup {NoSub}
        /\ links \subseteq Links /\ alive \subseteq Tracked
        /\ enabled \in BOOLEAN /\ touched \in BOOLEAN
    BY DEF Init
  <2> QED BY <1>1, <2>1, <2>2 DEF TypeOK
<1>3. LockInv /\ EmptyInv /\ RunInv
  BY DEF Init, LockInv, EmptyInv, RunInv
<1>4. NoStranded /\ QueueBounded
  BY DEF Init, NoStranded, QueueBounded, Active
<1>5. OneThreadAtATime
  BY DEF Init, OneThreadAtATime, In
<1> QED BY <1>2, <1>3, <1>4, <1>5 DEF DeliveryInv

\* DeliveryInv survives a new publisher link.
LEMMA AddLinkStep ==
  ASSUME DeliveryInv, NEW l \in Links, NEW m, AddLink(l, m)
  PROVE  DeliveryInv'
<1>1. TypeOK'
  BY DEF DeliveryInv, TypeOK, AddLink, critvars, linkvars, adminvars, Statuses, Msg
<1>2. LockInv'
  BY DEF DeliveryInv, LockInv, TypeOK, AddLink, critvars, linkvars, adminvars
<1>3. EmptyInv'
  BY DEF DeliveryInv, EmptyInv, TypeOK, AddLink, critvars, linkvars, adminvars
<1>4. RunInv'
  BY DEF DeliveryInv, RunInv, TypeOK, AddLink, critvars, linkvars, adminvars
<1>5. NoStranded'
  BY DEF DeliveryInv, NoStranded, Active, TypeOK, AddLink, critvars, linkvars, adminvars
<1>6. QueueBounded'
  BY DEF DeliveryInv, QueueBounded, TypeOK, AddLink, critvars, linkvars, adminvars
<1>7. OneThreadAtATime'
  BY DEF DeliveryInv, OneThreadAtATime, TypeOK, AddLink, critvars, linkvars, adminvars
<1> QED BY <1>1, <1>2, <1>3, <1>4, <1>5, <1>6, <1>7 DEF DeliveryInv

\* DeliveryInv survives the loss of a link.
LEMMA RemovePublisherLinkStep ==
  ASSUME DeliveryInv, NEW l \in Links, RemovePublisherLink(l)
  PROVE  DeliveryInv'
<1>1. TypeOK'
  BY DEF DeliveryInv, TypeOK, RemovePublisherLink, critvars, linkvars, adminvars, Statuses, Msg
<1>2. LockInv'
  BY DEF DeliveryInv, LockInv, TypeOK, RemovePublisherLink, critvars, linkvars, adminvars
<1>3. EmptyInv'
  BY DEF DeliveryInv, EmptyInv, TypeOK, RemovePublisherLink, critvars, linkvars, adminvars
<1>4. RunInv'
  BY DEF DeliveryInv, RunInv, TypeOK, RemovePublisherLink, critvars, linkvars, adminvars
<1>5. NoStranded'
  BY DEF DeliveryInv, NoStranded, Active, TypeOK, RemovePublisherLink, critvars, linkvars, adminvars
<1>6. QueueBounded'
  BY DEF DeliveryInv, QueueBounded, TypeOK, RemovePublisherLink, critvars, linkvars, adminvars
<1>7. OneThreadAtATime'
  BY DEF DeliveryInv, OneThreadAtATime, TypeOK, RemovePublisherLink, critvars, linkvars, adminvars
<1> QED BY <1>1, <1>2, <1>3, <1>4, <1>5, <1>6, <1>7 DEF DeliveryInv

\* DeliveryInv survives handleMessage taking callbacks_mutex_.
LEMMA HandleMessageStep ==
  ASSUME DeliveryInv, NEW l \in Links, HandleMessage(l)
  PROVE  DeliveryInv'
<1>1. TypeOK'
  <2> DEFINE m == [link |-> l, seq |-> sent[l] + 1]
  <2>1. m \in Msg /\ sent' \in [Links -> 0..MaxMsgs]
    BY DEF DeliveryInv, TypeOK, HandleMessage, Msg
  <2>2. current' = m /\ work' \subseteq Subs \X {m}
    BY DEF HandleMessage, Active
  <2> HIDE DEF m
  <2> QED BY <2>1, <2>2 DEF DeliveryInv, TypeOK, HandleMessage, critvars, linkvars, adminvars
<1>2. LockInv'
  <2>1. PICK takers \in SUBSET Active : \E m : work' = takers \X {m}
    BY DEF HandleMessage
  <2>2. \A w \in work' : status[w[1]] = "active"
    BY <2>1 DEF Active
  <2>3. owe = NoSub
    BY DEF DeliveryInv, LockInv, HandleMessage
  <2> QED BY <2>2, <2>3 DEF DeliveryInv, LockInv, HandleMessage, adminvars
<1>3. EmptyInv'
  BY DEF DeliveryInv, EmptyInv, TypeOK, HandleMessage, critvars, linkvars, adminvars
<1>4. RunInv'
  BY DEF DeliveryInv, RunInv, TypeOK, HandleMessage, critvars, linkvars, adminvars
<1>5. NoStranded'
  BY DEF DeliveryInv, NoStranded, Active, TypeOK, HandleMessage, critvars, linkvars, adminvars
<1>6. QueueBounded'
  BY DEF DeliveryInv, QueueBounded, TypeOK, HandleMessage, critvars, linkvars, adminvars
<1>7. OneThreadAtATime'
  BY DEF DeliveryInv, OneThreadAtATime, TypeOK, HandleMessage, critvars, linkvars, adminvars
<1> QED BY <1>1, <1>2, <1>3, <1>4, <1>5, <1>6, <1>7 DEF DeliveryInv

\* DeliveryInv survives the registration of a callback.
LEMMA AddCallbackStep ==
  ASSUME DeliveryInv, NEW c \in Subs, AddCallback(c)
  PROVE  DeliveryInv'
<1>1. TypeOK'
  <2>1. work' \subseteq Subs \X Msg
    BY DEF DeliveryInv, TypeOK, AddCallback
  <2>2. status' \in [Subs -> Statuses]
    BY DEF DeliveryInv, TypeOK, AddCallback, Statuses
  <2> QED BY <2>1, <2>2 DEF DeliveryInv, TypeOK, AddCallback, critvars, linkvars, adminvars
<1>2. LockInv'
  BY DEF DeliveryInv, LockInv, TypeOK, AddCallback, critvars, linkvars, adminvars
<1>3. EmptyInv'
  BY DEF DeliveryInv, EmptyInv, TypeOK, AddCallback, critvars, linkvars, adminvars
<1>4. RunInv'
  BY DEF DeliveryInv, RunInv, TypeOK, AddCallback, critvars, linkvars, adminvars
<1>5. NoStranded'
  <2> SUFFICES ASSUME ~touched, NEW d \in Active' \ (Tracked \ alive)
               PROVE Len(queue[d]) <= tokens[d] + (IF owe = d THEN 1 ELSE 0)
    BY DEF NoStranded, AddCallback, adminvars
  <2>1. CASE d = c
    <3>1. queue[d] = <<>>
      BY <2>1 DEF DeliveryInv, EmptyInv, AddCallback
    <3> QED BY <2>1, <3>1 DEF DeliveryInv, TypeOK
  <2>2. CASE d # c
    BY <2>2 DEF DeliveryInv, TypeOK, NoStranded, Active, AddCallback
  <2> QED BY <2>1, <2>2
<1>6. QueueBounded'
  BY DEF DeliveryInv, QueueBounded, TypeOK, AddCallback, critvars, linkvars, adminvars
<1>7. OneThreadAtATime'
  BY DEF DeliveryInv, OneThreadAtATime, TypeOK, AddCallback, critvars, linkvars, adminvars
<1> QED BY <1>1, <1>2, <1>3, <1>4, <1>5, <1>6, <1>7 DEF DeliveryInv

\* DeliveryInv survives one push.
LEMMA PushNextStep ==
  ASSUME DeliveryInv, PushNext
  PROVE  DeliveryInv'
<1>1. PICK w \in work : Push(w[1], w[2]) /\ work' = work \ {w}
  BY DEF PushNext
<1> DEFINE c == w[1]
<1>2. c \in Subs /\ w[2] \in Msg /\ status[c] = "active" /\ owe = NoSub
  BY DEF DeliveryInv, TypeOK, LockInv, PushNext
<1>3. /\ queue' \in [Subs -> Seq(Msg)]
      /\ \A d \in Subs : d # c => queue'[d] = queue[d]
      /\ Full(c) => Len(queue'[c]) = Len(queue[c]) /\ owe' = NoSub
      /\ ~Full(c) => Len(queue'[c]) = Len(queue[c]) + 1 /\ owe' = c
      /\ Size[c] > 0 => Len(queue'[c]) <= Size[c]
  BY <1>1, <1>2, PushEffect DEF DeliveryInv
<1> HIDE DEF c
<1>4. TypeOK'
  BY <1>1, <1>2, <1>3 DEF DeliveryInv, TypeOK, PushNext, linkvars, adminvars
<1>5. LockInv'
  BY <1>1, <1>2, <1>3 DEF DeliveryInv, LockInv, PushNext, adminvars
<1>6. EmptyInv'
  BY <1>2, <1>3 DEF DeliveryInv, EmptyInv, PushNext
<1>7. RunInv'
  BY DEF DeliveryInv, RunInv, PushNext
<1>8. NoStranded'
  <2> SUFFICES ASSUME ~touched, NEW d \in Active \ (Tracked \ alive)
               PROVE Len(queue'[d]) <= tokens[d] + (IF owe' = d THEN 1 ELSE 0)
    BY DEF NoStranded, Active, PushNext, adminvars
  <2>1. d \in Subs /\ d # NoSub /\ tokens[d] \in Nat /\ Len(queue[d]) \in Nat
    BY DEF Active, DeliveryInv, TypeOK
  <2>2. Len(queue[d]) <= tokens[d]
    BY <1>2, <2>1 DEF DeliveryInv, NoStranded
  <2>3. CASE d # c
    BY <1>2, <1>3, <2>1, <2>2, <2>3
  <2>4. CASE d = c
    BY <1>2, <1>3, <2>1, <2>2, <2>4
  <2> QED BY <2>3, <2>4
<1>9. QueueBounded'
  BY <1>2, <1>3 DEF DeliveryInv, QueueBounded
<1>10. OneThreadAtATime'
  BY DEF DeliveryInv, OneThreadAtATime, PushNext
<1> QED BY <1>4, <1>5, <1>6, <1>7, <1>8, <1>9, <1>10 DEF DeliveryInv

\* DeliveryInv survives the addCallback after a push.
LEMMA ScheduleStep ==
  ASSUME DeliveryInv, Schedule
  PROVE  DeliveryInv'
<1>1. TypeOK'
  <2>1. tokens' \in [Subs -> Nat]
    BY DEF DeliveryInv, TypeOK, Schedule
  <2> QED BY <2>1 DEF DeliveryInv, TypeOK, Schedule, critvars, linkvars, adminvars
<1>2. LockInv'
  BY DEF DeliveryInv, LockInv, TypeOK, Schedule, critvars, linkvars, adminvars
<1>3. EmptyInv'
  BY DEF DeliveryInv, EmptyInv, TypeOK, Schedule, critvars, linkvars, adminvars
<1>4. RunInv'
  BY DEF DeliveryInv, RunInv, TypeOK, Schedule, critvars, linkvars, adminvars
<1>5. NoStranded'
  <2> SUFFICES ASSUME ~touched, NEW d \in Active \ (Tracked \ alive)
               PROVE Len(queue[d]) <= tokens'[d]
    BY DEF NoStranded, Active, Schedule, adminvars, DeliveryInv, TypeOK
  <2>1. enabled /\ tokens' = [tokens EXCEPT ![owe] = @ + 1]
    BY DEF DeliveryInv, LockInv, Schedule
  <2>2. Len(queue[d]) <= tokens[d] + (IF owe = d THEN 1 ELSE 0)
    BY DEF DeliveryInv, NoStranded
  <2>3. owe \in Subs /\ d \in Subs /\ tokens[d] \in Nat
    BY DEF DeliveryInv, TypeOK, Schedule, Active
  <2>4. tokens'[d] = tokens[d] + (IF owe = d THEN 1 ELSE 0)
    BY <2>1, <2>3 DEF DeliveryInv, TypeOK
  <2> QED BY <2>2, <2>4
<1>6. QueueBounded'
  BY DEF DeliveryInv, QueueBounded, TypeOK, Schedule, critvars, linkvars, adminvars
<1>7. OneThreadAtATime'
  BY DEF DeliveryInv, OneThreadAtATime, TypeOK, Schedule, critvars, linkvars, adminvars
<1> QED BY <1>1, <1>2, <1>3, <1>4, <1>5, <1>6, <1>7 DEF DeliveryInv

\* DeliveryInv survives the end of handleMessage or addCallback.
LEMMA FinishStep ==
  ASSUME DeliveryInv, Finish
  PROVE  DeliveryInv'
<1>1. TypeOK'
  BY DEF DeliveryInv, TypeOK, Finish, critvars, linkvars, adminvars, Statuses, Msg
<1>2. LockInv'
  BY DEF DeliveryInv, LockInv, TypeOK, Finish, critvars, linkvars, adminvars
<1>3. EmptyInv'
  BY DEF DeliveryInv, EmptyInv, TypeOK, Finish, critvars, linkvars, adminvars
<1>4. RunInv'
  BY DEF DeliveryInv, RunInv, TypeOK, Finish, critvars, linkvars, adminvars
<1>5. NoStranded'
  BY DEF DeliveryInv, NoStranded, Active, TypeOK, Finish, critvars, linkvars, adminvars
<1>6. QueueBounded'
  BY DEF DeliveryInv, QueueBounded, TypeOK, Finish, critvars, linkvars, adminvars
<1>7. OneThreadAtATime'
  BY DEF DeliveryInv, OneThreadAtATime, TypeOK, Finish, critvars, linkvars, adminvars
<1> QED BY <1>1, <1>2, <1>3, <1>4, <1>5, <1>6, <1>7 DEF DeliveryInv

\* DeliveryInv survives a call that finds the lock taken.
LEMMA CallBusyStep ==
  ASSUME DeliveryInv, NEW t \in Threads, NEW c \in Subs, CallBusy(t, c)
  PROVE  DeliveryInv'
<1>1. TypeOK'
  BY DEF DeliveryInv, TypeOK, CallBusy, critvars, linkvars, adminvars, Statuses, Msg, vars
<1>2. LockInv'
  BY DEF DeliveryInv, LockInv, TypeOK, CallBusy, critvars, linkvars, adminvars, vars
<1>3. EmptyInv'
  BY DEF DeliveryInv, EmptyInv, TypeOK, CallBusy, critvars, linkvars, adminvars, vars
<1>4. RunInv'
  BY DEF DeliveryInv, RunInv, TypeOK, CallBusy, critvars, linkvars, adminvars, vars
<1>5. NoStranded'
  BY DEF DeliveryInv, NoStranded, Active, TypeOK, CallBusy, critvars, linkvars, adminvars, vars
<1>6. QueueBounded'
  BY DEF DeliveryInv, QueueBounded, TypeOK, CallBusy, critvars, linkvars, adminvars, vars
<1>7. OneThreadAtATime'
  BY DEF DeliveryInv, OneThreadAtATime, TypeOK, CallBusy, critvars, linkvars, adminvars, vars
<1> QED BY <1>1, <1>2, <1>3, <1>4, <1>5, <1>6, <1>7 DEF DeliveryInv

\* DeliveryInv survives a call with nothing to do.
LEMMA CallInvalidStep ==
  ASSUME DeliveryInv, NEW t \in Threads, NEW c \in Subs, CallInvalid(t, c)
  PROVE  DeliveryInv'
<1>1. TypeOK'
  <2>1. tokens' \in [Subs -> Nat]
    BY DEF DeliveryInv, TypeOK, CallInvalid
  <2> QED BY <2>1 DEF DeliveryInv, TypeOK, CallInvalid, critvars, linkvars, adminvars
<1>2. LockInv'
  BY DEF DeliveryInv, LockInv, TypeOK, CallInvalid, critvars, linkvars, adminvars
<1>3. EmptyInv'
  BY DEF DeliveryInv, EmptyInv, TypeOK, CallInvalid, critvars, linkvars, adminvars
<1>4. RunInv'
  BY DEF DeliveryInv, RunInv, TypeOK, CallInvalid, critvars, linkvars, adminvars
<1>5. NoStranded'
  BY DEF DeliveryInv, NoStranded, Active, TypeOK, CallInvalid, critvars, linkvars, adminvars
<1>6. QueueBounded'
  BY DEF DeliveryInv, QueueBounded, TypeOK, CallInvalid, critvars, linkvars, adminvars
<1>7. OneThreadAtATime'
  BY DEF DeliveryInv, OneThreadAtATime, TypeOK, CallInvalid, critvars, linkvars, adminvars
<1> QED BY <1>1, <1>2, <1>3, <1>4, <1>5, <1>6, <1>7 DEF DeliveryInv

\* DeliveryInv survives a call that pops a message.
LEMMA CallSuccessStep ==
  ASSUME DeliveryInv, NEW t \in Threads, NEW c \in Subs, CallSuccess(t, c)
  PROVE  DeliveryInv'
<1>1. /\ queue' \in [Subs -> Seq(Msg)]
      /\ \A d \in Subs : d # c => queue'[d] = queue[d]
      /\ Len(queue'[c]) = Len(queue[c]) - 1
      /\ lastSeq' \in [Subs -> [Links -> 0..MaxMsgs]]
  BY PopEffect DEF DeliveryInv, CallSuccess
<1>2. /\ tokens' \in [Subs -> Nat]
      /\ \A d \in Subs : tokens'[d] = IF d = c THEN tokens[c] - 1 ELSE tokens[d]
  BY DEF DeliveryInv, TypeOK, CallSuccess
<1>3. /\ run' \in [Threads -> Seq(Subs)]
      /\ \A u \in Threads, d \in Subs :
           In(d, run'[u]) => In(d, run[u]) \/ (u = t /\ d = c)
  <2>1. CASE UNCHANGED run
    BY <2>1 DEF DeliveryInv, TypeOK
  <2>2. CASE run' = [run EXCEPT ![t] = Append(@, c)]
    <3>1. run[t] \in Seq(Subs) /\ Append(run[t], c) \in Seq(Subs)
      BY DEF DeliveryInv, TypeOK
    <3>2. /\ run' \in [Threads -> Seq(Subs)] /\ run'[t] = Append(run[t], c)
          /\ \A u \in Threads : u # t => run'[u] = run[u]
      BY <2>2, <3>1 DEF DeliveryInv, TypeOK
    <3>3. \A d \in Subs : In(d, run'[t]) => In(d, run[t]) \/ d = c
      BY <3>1, <3>2, InAppend
    <3> QED BY <3>2, <3>3
  <2> QED BY <2>1, <2>2 DEF CallSuccess
<1>4. queue[c] # <<>> /\ status[c] \notin {"new", "wait", "removed"}
  BY DEF DeliveryInv, EmptyInv, CallSuccess
<1>5. TypeOK'
  BY <1>1, <1>2, <1>3 DEF DeliveryInv, TypeOK, CallSuccess, critvars, linkvars, adminvars
<1>6. LockInv'
  BY DEF DeliveryInv, LockInv, CallSuccess, critvars, adminvars
<1>7. EmptyInv'
  BY <1>1, <1>4 DEF DeliveryInv, EmptyInv, CallSuccess
<1>8. RunInv'
  BY <1>3, <1>4 DEF DeliveryInv, RunInv, CallSuccess
<1>9. NoStranded'
  <2> SUFFICES ASSUME ~touched, NEW d \in Active \ (Tracked \ alive)
               PROVE  Len(queue'[d]) <= tokens'[d] + (IF owe = d THEN 1 ELSE 0)
    BY DEF NoStranded, Active, CallSuccess, critvars, adminvars
  <2>1. d \in Subs /\ Len(queue[d]) <= tokens[d] + (IF owe = d THEN 1 ELSE 0)
    BY DEF DeliveryInv, NoStranded, Active
  <2>2. Len(queue[d]) \in Nat /\ tokens[d] \in Nat
    BY <2>1 DEF DeliveryInv, TypeOK
  <2>3. CASE d = c
    BY <1>1, <1>2, <2>1, <2>2, <2>3
  <2>4. CASE d # c
    BY <1>1, <1>2, <2>1, <2>4
  <2> QED BY <2>3, <2>4
<1>10. QueueBounded'
  <2>1. \A d \in Subs : Len(queue'[d]) <= Len(queue[d]) /\ Len(queue[d]) \in Nat /\ Len(queue'[d]) \in Nat
    <3> TAKE d \in Subs
    <3>1. queue[d] \in Seq(Msg) /\ queue'[d] \in Seq(Msg)
      BY <1>1 DEF DeliveryInv, TypeOK
    <3>2. Len(queue[d]) \in Nat /\ Len(queue'[d]) \in Nat
      BY <3>1
    <3>3. CASE d = c
      BY <1>1, <3>2, <3>3
    <3>4. CASE d # c
      <4>1. queue'[d] = queue[d]
        BY <1>1, <3>4
      <4> QED BY <3>2, <4>1
    <3> QED BY <3>3, <3>4
  <2> QED BY <2>1 DEF DeliveryInv, QueueBounded
<1>11. OneThreadAtATime'
  <2>1. c \in Concurrent \/ \A u \in Threads \ {t} : ~In(c, run[u])
    BY DEF CallSuccess, CanLock
  <2> QED BY <1>3, <2>1 DEF DeliveryInv, OneThreadAtATime
<1> QED BY <1>5, <1>6, <1>7, <1>8, <1>9, <1>10, <1>11 DEF DeliveryInv

\* DeliveryInv survives the return of a user's function.
LEMMA EndCallStep ==
  ASSUME DeliveryInv, NEW t \in Threads, EndCall(t)
  PROVE  DeliveryInv'
<1>1. /\ run' \in [Threads -> Seq(Subs)]
      /\ \A u \in Threads, d \in Subs : In(d, run'[u]) => In(d, run[u])
  <2>1. run[t] \in Seq(Subs) /\ run[t] # <<>>
    BY DEF DeliveryInv, TypeOK, EndCall
  <2>2. Drop(run[t]) \in Seq(Subs) /\ \A d \in Subs : In(d, Drop(run[t])) => In(d, run[t])
    BY <2>1, InDrop
  <2>3. run' = [run EXCEPT ![t] = Drop(run[t])]
    BY DEF EndCall
  <2> QED BY <2>2, <2>3 DEF DeliveryInv, TypeOK
<1>2. TypeOK'
  BY <1>1 DEF DeliveryInv, TypeOK, EndCall, critvars, linkvars, adminvars
<1>3. LockInv' /\ EmptyInv' /\ NoStranded' /\ QueueBounded'
  BY DEF DeliveryInv, LockInv, EmptyInv, NoStranded, QueueBounded, Active, EndCall,
         critvars, adminvars
<1>4. RunInv'
  BY <1>1 DEF DeliveryInv, RunInv, EndCall
<1>5. OneThreadAtATime'
  BY <1>1 DEF DeliveryInv, OneThreadAtATime
<1> QED BY <1>2, <1>3, <1>4, <1>5 DEF DeliveryInv

\* DeliveryInv survives the start of removeCallback.
LEMMA RemoveCallbackStep ==
  ASSUME DeliveryInv, NEW t \in Threads, NEW c \in Subs, RemoveCallback(t, c)
  PROVE  DeliveryInv'
<1>1. TypeOK'
  BY DEF DeliveryInv, TypeOK, RemoveCallback, critvars, linkvars, adminvars, Statuses, Msg
<1>2. LockInv'
  BY DEF DeliveryInv, LockInv, TypeOK, RemoveCallback, critvars, linkvars, adminvars
<1>3. EmptyInv'
  BY DEF DeliveryInv, EmptyInv, TypeOK, RemoveCallback, critvars, linkvars, adminvars
<1>4. RunInv'
  BY DEF DeliveryInv, RunInv, TypeOK, RemoveCallback, critvars, linkvars, adminvars
<1>5. NoStranded'
  BY DEF DeliveryInv, NoStranded, Active, TypeOK, RemoveCallback, critvars, linkvars, adminvars
<1>6. QueueBounded'
  BY DEF DeliveryInv, QueueBounded, TypeOK, RemoveCallback, critvars, linkvars, adminvars
<1>7. OneThreadAtATime'
  BY DEF DeliveryInv, OneThreadAtATime, TypeOK, RemoveCallback, critvars, linkvars, adminvars
<1> QED BY <1>1, <1>2, <1>3, <1>4, <1>5, <1>6, <1>7 DEF DeliveryInv

\* DeliveryInv survives SubscriptionQueue::clear.
LEMMA ClearQueueStep ==
  ASSUME DeliveryInv, NEW c \in Subs, ClearQueue(c)
  PROVE  DeliveryInv'
<1>1. TypeOK'
  <2>1. queue' \in [Subs -> Seq(Msg)]
    BY DEF DeliveryInv, TypeOK, ClearQueue
  <2>2. status' \in [Subs -> Statuses]
    BY DEF DeliveryInv, TypeOK, ClearQueue, Statuses
  <2> QED BY <2>1, <2>2 DEF DeliveryInv, TypeOK, ClearQueue, critvars, linkvars, adminvars
<1>2. LockInv'
  BY DEF DeliveryInv, LockInv, TypeOK, ClearQueue, critvars, linkvars, adminvars
<1>3. EmptyInv'
  BY DEF DeliveryInv, EmptyInv, TypeOK, ClearQueue, critvars, linkvars, adminvars
<1>4. RunInv'
  BY DEF DeliveryInv, RunInv, TypeOK, ClearQueue, critvars, linkvars, adminvars
<1>5. NoStranded'
  BY DEF DeliveryInv, NoStranded, Active, TypeOK, ClearQueue, critvars, linkvars, adminvars
<1>6. QueueBounded'
  BY DEF DeliveryInv, QueueBounded, TypeOK, ClearQueue, critvars, linkvars, adminvars
<1>7. OneThreadAtATime'
  BY DEF DeliveryInv, OneThreadAtATime, TypeOK, ClearQueue, critvars, linkvars, adminvars
<1> QED BY <1>1, <1>2, <1>3, <1>4, <1>5, <1>6, <1>7 DEF DeliveryInv

\* DeliveryInv survives removeByID.
LEMMA RemoveByIDStep ==
  ASSUME DeliveryInv, NEW c \in Subs, RemoveByID(c)
  PROVE  DeliveryInv'
<1>1. TypeOK'
  <2>1. tokens' \in [Subs -> Nat]
    BY DEF DeliveryInv, TypeOK, RemoveByID
  <2>2. status' \in [Subs -> Statuses]
    BY DEF DeliveryInv, TypeOK, RemoveByID, Statuses
  <2> QED BY <2>1, <2>2 DEF DeliveryInv, TypeOK, RemoveByID, critvars, linkvars, adminvars
<1>2. LockInv'
  BY DEF DeliveryInv, LockInv, TypeOK, RemoveByID, critvars, linkvars, adminvars
<1>3. EmptyInv'
  BY DEF DeliveryInv, EmptyInv, TypeOK, RemoveByID, critvars, linkvars, adminvars
<1>4. RunInv'
  BY DEF DeliveryInv, RunInv, TypeOK, RemoveByID, critvars, linkvars, adminvars
<1>5. NoStranded'
  BY DEF DeliveryInv, NoStranded, Active, TypeOK, RemoveByID, critvars, linkvars, adminvars
<1>6. QueueBounded'
  BY DEF DeliveryInv, QueueBounded, TypeOK, RemoveByID, critvars, linkvars, adminvars
<1>7. OneThreadAtATime'
  BY DEF DeliveryInv, OneThreadAtATime, TypeOK, RemoveByID, critvars, linkvars, adminvars
<1> QED BY <1>1, <1>2, <1>3, <1>4, <1>5, <1>6, <1>7 DEF DeliveryInv

\* DeliveryInv survives the disposal of a removed entry.
LEMMA DropTokenStep ==
  ASSUME DeliveryInv, NEW t \in Threads, NEW c \in Subs, DropToken(t, c)
  PROVE  DeliveryInv'
<1>1. TypeOK'
  <2>1. tokens' \in [Subs -> Nat]
    BY DEF DeliveryInv, TypeOK, DropToken
  <2> QED BY <2>1 DEF DeliveryInv, TypeOK, DropToken, critvars, linkvars, adminvars
<1>2. LockInv'
  BY DEF DeliveryInv, LockInv, TypeOK, DropToken, critvars, linkvars, adminvars
<1>3. EmptyInv'
  BY DEF DeliveryInv, EmptyInv, TypeOK, DropToken, critvars, linkvars, adminvars
<1>4. RunInv'
  BY DEF DeliveryInv, RunInv, TypeOK, DropToken, critvars, linkvars, adminvars
<1>5. NoStranded'
  BY DEF DeliveryInv, NoStranded, Active, TypeOK, DropToken, critvars, linkvars, adminvars
<1>6. QueueBounded'
  BY DEF DeliveryInv, QueueBounded, TypeOK, DropToken, critvars, linkvars, adminvars
<1>7. OneThreadAtATime'
  BY DEF DeliveryInv, OneThreadAtATime, TypeOK, DropToken, critvars, linkvars, adminvars
<1> QED BY <1>1, <1>2, <1>3, <1>4, <1>5, <1>6, <1>7 DEF DeliveryInv

\* DeliveryInv survives the death of a tracked object.
LEMMA ExpireStep ==
  ASSUME DeliveryInv, NEW c \in Subs, Expire(c)
  PROVE  DeliveryInv'
<1>1. TypeOK'
  BY DEF DeliveryInv, TypeOK, Expire, critvars, linkvars, adminvars, Statuses, Msg
<1>2. LockInv'
  BY DEF DeliveryInv, LockInv, TypeOK, Expire, critvars, linkvars, adminvars
<1>3. EmptyInv'
  BY DEF DeliveryInv, EmptyInv, TypeOK, Expire, critvars, linkvars, adminvars
<1>4. RunInv'
  BY DEF DeliveryInv, RunInv, TypeOK, Expire, critvars, linkvars, adminvars
<1>5. NoStranded'
  BY DEF DeliveryInv, NoStranded, Active, TypeOK, Expire, critvars, linkvars, adminvars
<1>6. QueueBounded'
  BY DEF DeliveryInv, QueueBounded, TypeOK, Expire, critvars, linkvars, adminvars
<1>7. OneThreadAtATime'
  BY DEF DeliveryInv, OneThreadAtATime, TypeOK, Expire, critvars, linkvars, adminvars
<1> QED BY <1>1, <1>2, <1>3, <1>4, <1>5, <1>6, <1>7 DEF DeliveryInv

\* DeliveryInv survives enable and disable.
LEMMA SwitchQueueStep ==
  ASSUME DeliveryInv, NEW on \in BOOLEAN, SwitchQueue(on)
  PROVE  DeliveryInv'
<1>1. TypeOK'
  BY DEF DeliveryInv, TypeOK, SwitchQueue, critvars, linkvars, adminvars, Statuses, Msg
<1>2. LockInv'
  BY DEF DeliveryInv, LockInv, TypeOK, SwitchQueue, critvars, linkvars, adminvars
<1>3. EmptyInv'
  BY DEF DeliveryInv, EmptyInv, TypeOK, SwitchQueue, critvars, linkvars, adminvars
<1>4. RunInv'
  BY DEF DeliveryInv, RunInv, TypeOK, SwitchQueue, critvars, linkvars, adminvars
<1>5. NoStranded'
  BY DEF DeliveryInv, NoStranded, Active, TypeOK, SwitchQueue, critvars, linkvars, adminvars
<1>6. QueueBounded'
  BY DEF DeliveryInv, QueueBounded, TypeOK, SwitchQueue, critvars, linkvars, adminvars
<1>7. OneThreadAtATime'
  BY DEF DeliveryInv, OneThreadAtATime, TypeOK, SwitchQueue, critvars, linkvars, adminvars
<1> QED BY <1>1, <1>2, <1>3, <1>4, <1>5, <1>6, <1>7 DEF DeliveryInv

\* DeliveryInv survives CallbackQueue::clear.
LEMMA ClearCallbackQueueStep ==
  ASSUME DeliveryInv, ClearCallbackQueue
  PROVE  DeliveryInv'
<1>1. TypeOK'
  <2>1. tokens' \in [Subs -> Nat]
    BY DEF DeliveryInv, TypeOK, ClearCallbackQueue
  <2> QED BY <2>1 DEF DeliveryInv, TypeOK, ClearCallbackQueue, critvars, linkvars, adminvars
<1>2. LockInv'
  BY DEF DeliveryInv, LockInv, TypeOK, ClearCallbackQueue, critvars, linkvars, adminvars
<1>3. EmptyInv'
  BY DEF DeliveryInv, EmptyInv, TypeOK, ClearCallbackQueue, critvars, linkvars, adminvars
<1>4. RunInv'
  BY DEF DeliveryInv, RunInv, TypeOK, ClearCallbackQueue, critvars, linkvars, adminvars
<1>5. NoStranded'
  BY DEF DeliveryInv, NoStranded, Active, TypeOK, ClearCallbackQueue, critvars, linkvars, adminvars
<1>6. QueueBounded'
  BY DEF DeliveryInv, QueueBounded, TypeOK, ClearCallbackQueue, critvars, linkvars, adminvars
<1>7. OneThreadAtATime'
  BY DEF DeliveryInv, OneThreadAtATime, TypeOK, ClearCallbackQueue, critvars, linkvars, adminvars
<1> QED BY <1>1, <1>2, <1>3, <1>4, <1>5, <1>6, <1>7 DEF DeliveryInv

\* Every step of every thread, link and callback preserves DeliveryInv.
LEMMA NextDelivery == DeliveryInv /\ [Next]_vars => DeliveryInv'
<1> SUFFICES ASSUME DeliveryInv, [Next]_vars PROVE DeliveryInv'
  OBVIOUS
<1>1. CASE UNCHANGED vars
  BY <1>1 DEF vars, DeliveryInv, TypeOK, LockInv, EmptyInv, RunInv, NoStranded,
              QueueBounded, OneThreadAtATime, Active, In, Full
<1>2. CASE Next
  BY <1>2, AddLinkStep, RemovePublisherLinkStep, HandleMessageStep, AddCallbackStep,
     PushNextStep, ScheduleStep, FinishStep, CallBusyStep, CallInvalidStep,
     CallSuccessStep, EndCallStep, RemoveCallbackStep, ClearQueueStep, RemoveByIDStep,
     DropTokenStep, ExpireStep, SwitchQueueStep, ClearCallbackQueueStep
  DEF Next
<1> QED BY <1>1, <1>2

\* The inductive invariant holds in every reachable state.
THEOREM DeliveryCorrect == Spec => []DeliveryInv
BY InitDelivery, NextDelivery, PTL DEF Spec

\* Every variable of the delivery path keeps its type.
THEOREM DeliveryTypes == Spec => []TypeOK
<1>1. DeliveryInv => TypeOK
  BY DEF DeliveryInv
<1> QED BY <1>1, DeliveryCorrect, PTL

\* handleMessage may skip addCallback after a push that found the queue full: the
\* message always has an entry in the CallbackQueue, for any number of callbacks,
\* links, spinning threads and queue sizes.
THEOREM DeliveryNoStranded == Spec => []NoStranded
<1>1. DeliveryInv => NoStranded
  BY DEF DeliveryInv
<1> QED BY <1>1, DeliveryCorrect, PTL

\* A SubscriptionQueue with a size never holds more messages than that.
THEOREM DeliveryBounded == Spec => []QueueBounded
<1>1. DeliveryInv => QueueBounded
  BY DEF DeliveryInv
<1> QED BY <1>1, DeliveryCorrect, PTL

\* The try_lock of SubscriptionQueue::call keeps two threads out of one callback.
THEOREM DeliveryOneThread == Spec => []OneThreadAtATime
<1>1. DeliveryInv => OneThreadAtATime
  BY DEF DeliveryInv
<1> QED BY <1>1, DeliveryCorrect, PTL

\* After removeCallback the callback is silent, entries left in other threads'
\* lists included.
THEOREM DeliveryQuiet == Spec => []QuietAfterRemoval
<1>1. DeliveryInv => QuietAfterRemoval
  BY DEF DeliveryInv, QuietAfterRemoval, EmptyInv, RunInv
<1> QED BY <1>1, DeliveryCorrect, PTL

\* addCallback and headerReceived decide md5sum_ once, and every callback that is
\* or was registered asked for that type or for any, whichever of the links and
\* callbacks came first.
THEOREM DeliveryOneType == Spec => []OneType
<1>1. Init => OneType
  BY DEF Init, OneType
<1>2. ASSUME TypeOK, OneType, [Next]_vars PROVE OneType'
  <2>1. CASE UNCHANGED <<status, md5sum>>
    BY <1>2, <2>1 DEF OneType
  <2>2. ASSUME NEW l, NEW m, AddLink(l, m) PROVE OneType'
    BY <1>2, <2>2 DEF AddLink, OneType
  <2>3. ASSUME NEW c \in Subs, AddCallback(c) PROVE OneType'
    BY <1>2, <2>3 DEF AddCallback, OneType, TypeOK
  <2>4. ASSUME NEW t, NEW c \in Subs,
               RemoveCallback(t, c) \/ ClearQueue(c) \/ RemoveByID(c)
        PROVE  OneType'
    BY <1>2, <2>4 DEF RemoveCallback, ClearQueue, RemoveByID, OneType, TypeOK
  <2> QED
    BY <1>2, <2>1, <2>2, <2>3, <2>4
    DEF Next, vars, RemovePublisherLink, HandleMessage, Expire, PushNext, Schedule, Finish,
        CallBusy, CallInvalid, CallSuccess, DropToken, EndCall, SwitchQueue,
        ClearCallbackQueue
<1> QED BY <1>1, <1>2, DeliveryTypes, PTL DEF Spec

-----------------------------------------------------------------------------
(***************************************************************************)
(* The refinement: MessageDelivery implements TopicChannel.                *)
(*                                                                         *)
(* Most steps of the delivery leave the channels as they are. A push is an  *)
(* Offer, and that its message is newer than what the queue holds and what  *)
(* the callback has had needs the invariant OrderInv: messages of a link    *)
(* are numbered by sent, a queue is sorted, callbacks_mutex_ keeps two      *)
(* messages of a link from being pushed at a time, and the latched message  *)
(* that addCallback replays meets an empty queue.                           *)
(***************************************************************************)
\* m is newer than all that c has been given of its link.
Fresh(c, m) ==
  /\ lastSeq[c][m.link] < m.seq
  /\ \A i \in 1..Len(queue[c]) : queue[c][i].link = m.link => queue[c][i].seq < m.seq

SentInv ==
  /\ \A c \in Subs : \A i \in 1..Len(queue[c]) : queue[c][i].seq <= sent[queue[c][i].link]
  /\ \A c \in Subs : \A l \in Links : lastSeq[c][l] <= sent[l]
  /\ \A l \in Links : latched[l] # NoMsg => latched[l].link = l /\ latched[l].seq <= sent[l]
  /\ current # NoMsg => current.seq <= sent[current.link]
  /\ \A w \in work : w[2].seq <= sent[w[2].link]

NewInv == \A c \in Subs : status[c] = "new" => \A l \in Links : lastSeq[c][l] = 0

SortedInv ==
  \A c \in Subs :
    /\ \A i \in 1..Len(queue[c]) : lastSeq[c][queue[c][i].link] < queue[c][i].seq
    /\ \A i, j \in 1..Len(queue[c]) :
         i < j /\ queue[c][i].link = queue[c][j].link => queue[c][i].seq < queue[c][j].seq

WorkInv ==
  /\ \A w \in work : Fresh(w[1], w[2])
  /\ \A v, w \in work : v[1] = w[1] /\ v[2].link = w[2].link => v = w

OrderInv == SentInv /\ NewInv /\ SortedInv /\ WorkInv

-----------------------------------------------------------------------------
\* Numbers and links of the messages in queues and in pending pushes.
LEMMA Types ==
  ASSUME TypeOK
  PROVE  /\ \A c \in Subs : queue[c] \in Seq(Msg) /\ Len(queue[c]) \in Nat
         /\ \A c \in Subs : \A i \in 1..Len(queue[c]) :
              queue[c][i] \in Msg /\ queue[c][i].link \in Links /\ queue[c][i].seq \in Nat
         /\ \A c \in Subs : \A l \in Links : lastSeq[c][l] \in Nat
         /\ \A l \in Links : sent[l] \in Nat
         /\ \A w \in work : w[1] \in Subs /\ w[2] \in Msg /\ w[2].link \in Links /\ w[2].seq \in Nat
         /\ \A m \in Msg : m.link \in Links /\ m.seq \in Nat /\ m.seq > 0
<1>1. \A m \in Msg : m.link \in Links /\ m.seq \in Nat /\ m.seq > 0
  BY DEF Msg
<1>2. \A c \in Subs : queue[c] \in Seq(Msg) /\ Len(queue[c]) \in Nat
  BY DEF TypeOK
<1>3. \A c \in Subs : \A i \in 1..Len(queue[c]) : queue[c][i] \in Msg
  BY <1>2
<1>4. \A c \in Subs : \A l \in Links : lastSeq[c][l] \in Nat
  BY DEF TypeOK
<1>5. \A l \in Links : sent[l] \in Nat
  BY DEF TypeOK
<1>6. \A w \in work : w[1] \in Subs /\ w[2] \in Msg
  BY DEF TypeOK
<1> QED BY <1>1, <1>2, <1>3, <1>4, <1>5, <1>6

\* Nothing has been sent at the start.
LEMMA InitOrder == Init => OrderInv
<1> SUFFICES ASSUME Init PROVE OrderInv
  OBVIOUS
<1>1. \A c \in Subs : queue[c] = <<>> /\ Len(queue[c]) = 0
  BY DEF Init
<1>2. \A l \in Links : sent[l] = 0 /\ latched[l] = NoMsg
  BY DEF Init
<1>3. \A c \in Subs : \A l \in Links : lastSeq[c][l] = 0
  BY DEF Init
<1>4. current = NoMsg /\ work = {}
  BY DEF Init
<1> QED BY <1>1, <1>2, <1>3, <1>4 DEF OrderInv, SentInv, NewInv, SortedInv, WorkInv

\* Steps that leave queues, pending pushes and numbers alone.
LEMMA OrderUntouched ==
  ASSUME OrderInv, UNCHANGED <<queue, lastSeq, sent, latched, current, work>>,
         \A c \in Subs : status'[c] = "new" => status[c] = "new"
  PROVE  OrderInv'
<1>1. SentInv'
  BY DEF OrderInv, SentInv
<1>2. NewInv'
  BY DEF OrderInv, NewInv
<1>3. SortedInv'
  BY DEF OrderInv, SortedInv
<1>4. WorkInv'
  BY DEF OrderInv, WorkInv, Fresh
<1> QED BY <1>1, <1>2, <1>3, <1>4 DEF OrderInv

\* A link that is removed leaves no latched message.
LEMMA RemovePublisherLinkOrder ==
  ASSUME DeliveryInv, OrderInv, NEW l \in Links, RemovePublisherLink(l)
  PROVE  OrderInv'
<1>1. UNCHANGED <<queue, lastSeq, sent, current, work, status>>
  BY DEF RemovePublisherLink, critvars
<1>2. \A k \in Links : latched'[k] = latched[k] \/ latched'[k] = NoMsg
  BY DEF RemovePublisherLink, DeliveryInv, TypeOK
<1>3. SentInv'
  BY <1>1, <1>2 DEF OrderInv, SentInv
<1>4. NewInv' /\ SortedInv'
  BY <1>1 DEF OrderInv, NewInv, SortedInv
<1>5. WorkInv'
  BY <1>1 DEF OrderInv, WorkInv, Fresh
<1> QED BY <1>3, <1>4, <1>5 DEF OrderInv

\* The message that arrives is newer than all before it on its link.
LEMMA HandleMessageOrder ==
  ASSUME DeliveryInv, OrderInv, NEW l \in Links, HandleMessage(l)
  PROVE  OrderInv'
<1> DEFINE m == [link |-> l, seq |-> sent[l] + 1]
<1>0. TypeOK
  BY DEF DeliveryInv
<1>1. UNCHANGED <<queue, lastSeq, latched, status>>
  BY DEF HandleMessage
<1>2. /\ current' = m /\ m.link = l /\ m.seq = sent[l] + 1
      /\ \A w \in work' : w[1] \in Subs /\ w[2] = m
      /\ \A v, w \in work' : v[1] = w[1] => v = w
  BY DEF HandleMessage, Active
<1>3. sent'[l] = sent[l] + 1 /\ \A k \in Links : sent'[k] \in Nat /\ sent[k] <= sent'[k]
  BY <1>0 DEF HandleMessage, TypeOK
<1> HIDE DEF m
<1>4. SentInv'
  <2>1. ASSUME NEW c \in Subs, NEW i \in 1..Len(queue[c])
        PROVE  queue[c][i].seq <= sent'[queue[c][i].link]
    <3>1. queue[c][i].seq <= sent[queue[c][i].link]
      BY DEF OrderInv, SentInv
    <3>2. /\ queue[c][i].link \in Links /\ queue[c][i].seq \in Nat
          /\ sent[queue[c][i].link] \in Nat
      BY <1>0, Types
    <3> QED BY <3>1, <3>2, <1>3
  <2>2. ASSUME NEW c \in Subs, NEW k \in Links
        PROVE  lastSeq[c][k] <= sent'[k]
    <3>1. lastSeq[c][k] <= sent[k]
      BY DEF OrderInv, SentInv
    <3>2. lastSeq[c][k] \in Nat /\ sent[k] \in Nat
      BY <1>0, Types
    <3> QED BY <3>1, <3>2, <1>3
  <2>3. \A k \in Links : latched[k] # NoMsg => latched[k].link = k /\ latched[k].seq <= sent'[k]
    <3> SUFFICES ASSUME NEW k \in Links, latched[k] # NoMsg
                 PROVE  latched[k].link = k /\ latched[k].seq <= sent'[k]
      OBVIOUS
    <3>1. latched[k] \in Msg
      BY <1>0 DEF TypeOK
    <3> QED BY <3>1, <1>0, <1>3, Types DEF OrderInv, SentInv
  <2>4. current'.seq <= sent'[current'.link] /\ \A w \in work' : w[2].seq <= sent'[w[2].link]
    BY <1>2, <1>3
  <2> QED BY <1>1, <2>1, <2>2, <2>3, <2>4 DEF SentInv
<1>5. NewInv' /\ SortedInv'
  <2>1. NewInv'
    BY <1>1 DEF OrderInv, NewInv
  <2>2. SortedInv'
    BY <1>1 DEF OrderInv, SortedInv
  <2> QED BY <2>1, <2>2
<1>6. \A c \in Subs : Fresh(c, m)
  <2>1. ASSUME NEW c \in Subs PROVE lastSeq[c][m.link] < m.seq
    <3>1. lastSeq[c][l] \in Nat /\ sent[l] \in Nat /\ lastSeq[c][l] <= sent[l]
      BY <1>0, Types DEF OrderInv, SentInv
    <3> QED BY <3>1, <1>2
  <2>2. ASSUME NEW c \in Subs, NEW i \in 1..Len(queue[c]), queue[c][i].link = m.link
        PROVE  queue[c][i].seq < m.seq
    <3>1. queue[c][i].seq \in Nat /\ sent[l] \in Nat
      BY <1>0, Types
    <3>2. queue[c][i].seq <= sent[l]
      BY <1>2, <2>2 DEF OrderInv, SentInv
    <3> QED BY <3>1, <3>2, <1>2
  <2> QED BY <2>1, <2>2 DEF Fresh
<1>7. WorkInv'
  BY <1>1, <1>2, <1>6 DEF WorkInv, Fresh
<1> QED BY <1>4, <1>5, <1>7 DEF OrderInv

\* The latched messages that addCallback replays are one per link, and the new
\* callback has had none.
LEMMA AddCallbackOrder ==
  ASSUME DeliveryInv, OrderInv, NEW c \in Subs, AddCallback(c)
  PROVE  OrderInv'
<1>0. TypeOK /\ EmptyInv /\ LockInv
  BY DEF DeliveryInv
<1>1. UNCHANGED <<queue, lastSeq, sent, latched, current>>
  BY DEF AddCallback, linkvars
<1>2. \A w \in work' : \E l \in Links : w = <<c, latched[l]>> /\ latched[l] # NoMsg
  BY <1>0 DEF AddCallback, TypeOK
<1>3. \A l \in Links : latched[l] # NoMsg =>
        /\ latched[l] \in Msg /\ latched[l].link = l
        /\ latched[l].seq \in Nat /\ latched[l].seq > 0 /\ latched[l].seq <= sent[l]
  BY <1>0, Types DEF TypeOK, OrderInv, SentInv
<1>4. queue[c] = <<>> /\ Len(queue[c]) = 0 /\ \A l \in Links : lastSeq[c][l] = 0
  BY <1>0 DEF AddCallback, EmptyInv, OrderInv, NewInv
<1>5. SentInv'
  BY <1>1, <1>2, <1>3 DEF OrderInv, SentInv
<1>6. NewInv'
  BY <1>0, <1>1 DEF AddCallback, OrderInv, NewInv, TypeOK
<1>7. SortedInv'
  BY <1>1 DEF OrderInv, SortedInv
<1>8. \A l \in Links : latched[l] # NoMsg => Fresh(c, latched[l])
  BY <1>3, <1>4 DEF Fresh
<1>9. \A w \in work' : Fresh(w[1], w[2])
  BY <1>2, <1>8
<1>10. \A v, w \in work' : v[1] = w[1] /\ v[2].link = w[2].link => v = w
  BY <1>2, <1>3
<1>11. WorkInv'
  BY <1>1, <1>9, <1>10 DEF WorkInv, Fresh
<1> QED BY <1>5, <1>6, <1>7, <1>11 DEF OrderInv

\* The elements of a queue after a push: the old ones, without the first when the
\* queue was full, and the new one at the end.
LEMMA PushElements ==
  ASSUME TypeOK, NEW c \in Subs, NEW m \in Msg, Push(c, m)
  PROVE  /\ \A d \in Subs : d # c => queue'[d] = queue[d]
         /\ \E k \in {0, 1} :
              /\ Len(queue'[c]) = Len(queue[c]) - k + 1
              /\ queue'[c][Len(queue'[c])] = m
              /\ \A i \in 1..(Len(queue[c]) - k) : queue'[c][i] = queue[c][i + k]
<1>1. queue[c] \in Seq(Msg) /\ Len(queue[c]) \in Nat /\ Size[c] \in Int
  BY DEF TypeOK
<1>2. CASE Full(c)
  <2>1. queue[c] # <<>>
    BY <1>1, <1>2 DEF Full
  <2> DEFINE q == Tail(queue[c])
  <2>2. q \in Seq(Msg) /\ Len(q) = Len(queue[c]) - 1
        /\ \A i \in 1..Len(q) : q[i] = queue[c][i + 1]
    BY <1>1, <2>1
  <2>3. queue' = [queue EXCEPT ![c] = Append(q, m)]
    BY <1>2 DEF Push
  <2>4. queue'[c] = Append(q, m) /\ \A d \in Subs : d # c => queue'[d] = queue[d]
    BY <2>3 DEF TypeOK
  <2> HIDE DEF q
  <2>5. Len(queue'[c]) = Len(q) + 1 /\ queue'[c][Len(q) + 1] = m
        /\ \A i \in 1..Len(q) : queue'[c][i] = q[i]
    BY <2>2, <2>4
  <2> QED BY <1>1, <2>2, <2>4, <2>5
<1>3. CASE ~Full(c)
  <2>1. queue' = [queue EXCEPT ![c] = Append(queue[c], m)]
    BY <1>3 DEF Push
  <2>2. queue'[c] = Append(queue[c], m) /\ \A d \in Subs : d # c => queue'[d] = queue[d]
    BY <2>1 DEF TypeOK
  <2>3. Len(queue'[c]) = Len(queue[c]) + 1 /\ queue'[c][Len(queue[c]) + 1] = m
        /\ \A i \in 1..Len(queue[c]) : queue'[c][i] = queue[c][i]
    BY <1>1, <2>2
  <2> QED BY <1>1, <2>2, <2>3
<1> QED BY <1>2, <1>3

\* A push puts a message behind older ones, and the pushes that are left are of
\* other links or for other callbacks.
LEMMA PushNextOrder ==
  ASSUME DeliveryInv, OrderInv, PushNext
  PROVE  OrderInv'
<1>0. TypeOK
  BY DEF DeliveryInv
<1>1. PICK w \in work : Push(w[1], w[2]) /\ work' = work \ {w}
  BY DEF PushNext
<1>2. UNCHANGED <<lastSeq, sent, latched, current, status>>
  BY DEF PushNext, linkvars
<1> DEFINE c == w[1]
           m == w[2]
<1>3. /\ c \in Subs /\ m \in Msg /\ m.link \in Links /\ m.seq \in Nat
      /\ m.seq <= sent[m.link] /\ Fresh(c, m)
  BY <1>0, Types DEF OrderInv, SentInv, WorkInv
<1>4. \A v \in work' : v \in work /\ ~(v[1] = c /\ v[2].link = m.link)
  BY <1>1 DEF OrderInv, WorkInv
<1>5. \A d \in Subs : d # c => queue'[d] = queue[d]
  BY <1>0, <1>1, <1>3, PushElements
<1>6. PICK k \in {0, 1} :
        /\ Len(queue'[c]) = Len(queue[c]) - k + 1
        /\ queue'[c][Len(queue'[c])] = m
        /\ \A i \in 1..(Len(queue[c]) - k) : queue'[c][i] = queue[c][i + k]
  BY <1>0, <1>1, <1>3, PushElements
<1> HIDE DEF c, m
<1>7. Len(queue[c]) \in Nat
  BY <1>0, <1>3, Types
<1>8. \A i \in 1..Len(queue'[c]) :
        \/ i = Len(queue'[c]) /\ queue'[c][i] = m
        \/ i < Len(queue'[c]) /\ i + k \in 1..Len(queue[c]) /\ queue'[c][i] = queue[c][i + k]
  <2> SUFFICES ASSUME NEW i \in 1..Len(queue'[c])
               PROVE  \/ i = Len(queue'[c]) /\ queue'[c][i] = m
                      \/ i < Len(queue'[c]) /\ i + k \in 1..Len(queue[c]) /\ queue'[c][i] = queue[c][i + k]
    OBVIOUS
  <2>1. k \in Nat /\ Len(queue'[c]) \in Int /\ i \in Int
    BY <1>6, <1>7
  <2>2. CASE i = Len(queue'[c])
    BY <1>6, <2>2
  <2>3. CASE i # Len(queue'[c])
    <3>1. i < Len(queue'[c]) /\ i \in 1..(Len(queue[c]) - k) /\ i + k \in 1..Len(queue[c])
      BY <1>6, <1>7, <2>1, <2>3
    <3> QED BY <1>6, <3>1
  <2> QED BY <2>2, <2>3
<1>9. SentInv'
  <2>1. \A d \in Subs : \A i \in 1..Len(queue'[d]) : queue'[d][i].seq <= sent[queue'[d][i].link]
    <3> SUFFICES ASSUME NEW d \in Subs, NEW i \in 1..Len(queue'[d])
                 PROVE  queue'[d][i].seq <= sent[queue'[d][i].link]
      OBVIOUS
    <3>1. CASE d # c
      BY <1>5, <3>1 DEF OrderInv, SentInv
    <3>2. CASE d = c
      BY <1>3, <1>8, <3>2 DEF OrderInv, SentInv
    <3> QED BY <3>1, <3>2
  <2>2. \A v \in work' : v[2].seq <= sent[v[2].link]
    BY <1>4 DEF OrderInv, SentInv
  <2>3. /\ \A d \in Subs : \A l \in Links : lastSeq[d][l] <= sent[l]
        /\ \A l \in Links : latched[l] # NoMsg => latched[l].link = l /\ latched[l].seq <= sent[l]
        /\ current # NoMsg => current.seq <= sent[current.link]
    BY DEF OrderInv, SentInv
  <2> QED BY <1>2, <2>1, <2>2, <2>3 DEF SentInv
<1>10. NewInv'
  BY <1>2 DEF OrderInv, NewInv
<1>11. SortedInv'
  <2> SUFFICES ASSUME NEW d \in Subs
               PROVE  /\ \A i \in 1..Len(queue'[d]) : lastSeq[d][queue'[d][i].link] < queue'[d][i].seq
                      /\ \A i, j \in 1..Len(queue'[d]) :
                           i < j /\ queue'[d][i].link = queue'[d][j].link
                             => queue'[d][i].seq < queue'[d][j].seq
    BY <1>2 DEF SortedInv
  <2>1. CASE d # c
    BY <1>5, <2>1 DEF OrderInv, SortedInv
  <2>2. CASE d = c
    <3>1. \A i \in 1..Len(queue'[c]) : lastSeq[c][queue'[c][i].link] < queue'[c][i].seq
      BY <1>3, <1>8 DEF OrderInv, SortedInv, Fresh
    <3>2. ASSUME NEW i \in 1..Len(queue'[c]), NEW j \in 1..Len(queue'[c]), i < j,
                 queue'[c][i].link = queue'[c][j].link
          PROVE  queue'[c][i].seq < queue'[c][j].seq
      <4>1. i < Len(queue'[c]) /\ i + k \in 1..Len(queue[c]) /\ queue'[c][i] = queue[c][i + k]
        BY <1>6, <1>7, <1>8, <3>2
      <4>2. CASE j = Len(queue'[c])
        BY <1>3, <1>6, <3>2, <4>1, <4>2 DEF Fresh
      <4>3. CASE j # Len(queue'[c])
        <5>1. j + k \in 1..Len(queue[c]) /\ queue'[c][j] = queue[c][j + k] /\ i + k < j + k
          BY <1>6, <1>7, <1>8, <3>2, <4>3
        <5> QED BY <3>2, <4>1, <5>1, <1>3 DEF OrderInv, SortedInv
      <4> QED BY <4>2, <4>3
    <3> QED BY <2>2, <3>1, <3>2
  <2> QED BY <2>1, <2>2
<1>12. WorkInv'
  <2>1. ASSUME NEW v \in work'
        PROVE  /\ lastSeq[v[1]][v[2].link] < v[2].seq
               /\ \A i \in 1..Len(queue'[v[1]]) :
                    queue'[v[1]][i].link = v[2].link => queue'[v[1]][i].seq < v[2].seq
    <3>1. v \in work /\ v[1] \in Subs /\ Fresh(v[1], v[2])
      BY <1>0, <1>4, <2>1, Types DEF OrderInv, WorkInv
    <3>2. CASE v[1] # c
      BY <1>5, <3>1, <3>2 DEF Fresh
    <3>3. CASE v[1] = c
      <4>1. v[2].link # m.link
        BY <1>4, <2>1, <3>3
      <4>2. ASSUME NEW i \in 1..Len(queue'[c]), queue'[c][i].link = v[2].link
            PROVE  queue'[c][i].seq < v[2].seq
        <5>1. i + k \in 1..Len(queue[c]) /\ queue'[c][i] = queue[c][i + k]
          BY <1>8, <4>1, <4>2
        <5> QED BY <3>1, <3>3, <4>2, <5>1 DEF Fresh
      <4> QED BY <3>1, <3>3, <4>2 DEF Fresh
    <3> QED BY <3>2, <3>3
  <2>2. \A u, v \in work' : u[1] = v[1] /\ u[2].link = v[2].link => u = v
    BY <1>4 DEF OrderInv, WorkInv
  <2> QED BY <1>2, <2>1, <2>2 DEF WorkInv, Fresh
<1> QED BY <1>9, <1>10, <1>11, <1>12 DEF OrderInv

\* The end of handleMessage makes its message the latched one.
LEMMA FinishOrder ==
  ASSUME DeliveryInv, OrderInv, Finish
  PROVE  OrderInv'
<1>0. TypeOK
  BY DEF DeliveryInv
<1>1. UNCHANGED <<queue, lastSeq, sent, work, status>> /\ current' = NoMsg
  BY DEF Finish
<1>2. \A l \in Links : latched'[l] = latched[l]
                        \/ (current # NoMsg /\ l = current.link /\ latched'[l] = current)
  BY <1>0 DEF Finish, TypeOK
<1>3. SentInv'
  BY <1>1, <1>2 DEF OrderInv, SentInv
<1>4. NewInv' /\ SortedInv'
  BY <1>1 DEF OrderInv, NewInv, SortedInv
<1>5. WorkInv'
  BY <1>1 DEF OrderInv, WorkInv, Fresh
<1> QED BY <1>3, <1>4, <1>5 DEF OrderInv

\* A call takes the oldest message: what is left of its link is newer.
LEMMA CallSuccessOrder ==
  ASSUME DeliveryInv, OrderInv, NEW t \in Threads, NEW c \in Subs, CallSuccess(t, c)
  PROVE  OrderInv'
<1>0. TypeOK /\ EmptyInv
  BY DEF DeliveryInv
<1>1. UNCHANGED <<sent, latched, current, work, status>> /\ queue[c] # <<>> /\ Pop(c)
  BY DEF CallSuccess, linkvars, critvars
<1> DEFINE m == Head(queue[c])
<1>2. /\ queue[c] \in Seq(Msg) /\ Len(queue[c]) \in Nat /\ Len(queue[c]) > 0
      /\ m = queue[c][1]
  BY <1>0, <1>1 DEF TypeOK
<1>3. m \in Msg /\ m.link \in Links /\ m.seq \in Nat /\ m.seq <= sent[m.link]
  BY <1>0, <1>2, Types DEF OrderInv, SentInv
<1>4. /\ Len(queue'[c]) = Len(queue[c]) - 1
      /\ \A i \in 1..Len(queue'[c]) : queue'[c][i] = queue[c][i + 1]
      /\ \A d \in Subs : d # c => queue'[d] = queue[d]
  <2>1. /\ Len(Tail(queue[c])) = Len(queue[c]) - 1
        /\ \A i \in 1..Len(Tail(queue[c])) : Tail(queue[c])[i] = queue[c][i + 1]
    BY <1>1, <1>2
  <2>2. queue'[c] = Tail(queue[c]) /\ \A d \in Subs : d # c => queue'[d] = queue[d]
    BY <1>0, <1>1 DEF Pop, TypeOK
  <2> QED BY <2>1, <2>2
<1>5. /\ lastSeq'[c][m.link] = m.seq
      /\ \A l \in Links : l # m.link => lastSeq'[c][l] = lastSeq[c][l]
      /\ \A d \in Subs : d # c => lastSeq'[d] = lastSeq[d]
  BY <1>0, <1>1, <1>3 DEF Pop, TypeOK
<1> HIDE DEF m
<1>6. \A i \in 1..Len(queue'[c]) : i + 1 \in 2..Len(queue[c]) /\ i + 1 \in 1..Len(queue[c])
  BY <1>2, <1>4
<1>7. SentInv'
  <2>1. \A d \in Subs : \A i \in 1..Len(queue'[d]) : queue'[d][i].seq <= sent[queue'[d][i].link]
    <3> SUFFICES ASSUME NEW d \in Subs, NEW i \in 1..Len(queue'[d])
                 PROVE  queue'[d][i].seq <= sent[queue'[d][i].link]
      OBVIOUS
    <3>1. CASE d # c
      BY <1>4, <3>1 DEF OrderInv, SentInv
    <3>2. CASE d = c
      BY <1>4, <1>6, <3>2 DEF OrderInv, SentInv
    <3> QED BY <3>1, <3>2
  <2>2. \A d \in Subs : \A l \in Links : lastSeq'[d][l] <= sent[l]
    BY <1>3, <1>5 DEF OrderInv, SentInv
  <2> QED BY <1>1, <2>1, <2>2 DEF OrderInv, SentInv
<1>8. NewInv'
  <2>1. status[c] # "new"
    BY <1>0, <1>1 DEF EmptyInv
  <2> QED BY <1>1, <1>5, <2>1 DEF OrderInv, NewInv
<1>9. SortedInv'
  <2> SUFFICES ASSUME NEW d \in Subs
               PROVE  /\ \A i \in 1..Len(queue'[d]) : lastSeq'[d][queue'[d][i].link] < queue'[d][i].seq
                      /\ \A i, j \in 1..Len(queue'[d]) :
                           i < j /\ queue'[d][i].link = queue'[d][j].link
                             => queue'[d][i].seq < queue'[d][j].seq
    BY DEF SortedInv
  <2>1. CASE d # c
    BY <1>4, <1>5, <2>1 DEF OrderInv, SortedInv
  <2>2. CASE d = c
    <3>1. ASSUME NEW i \in 1..Len(queue'[c])
          PROVE  lastSeq'[c][queue'[c][i].link] < queue'[c][i].seq
      <4>1. queue'[c][i] = queue[c][i + 1] /\ i + 1 \in 1..Len(queue[c]) /\ 1 < i + 1
            /\ 1 \in 1..Len(queue[c]) /\ queue[c][i + 1].link \in Links
        BY <1>0, <1>2, <1>4, <1>6, Types
      <4>2. CASE queue[c][i + 1].link = m.link
        BY <1>2, <1>5, <4>1, <4>2 DEF OrderInv, SortedInv
      <4>3. CASE queue[c][i + 1].link # m.link
        BY <1>5, <4>1, <4>3 DEF OrderInv, SortedInv
      <4> QED BY <4>2, <4>3
    <3>2. ASSUME NEW i \in 1..Len(queue'[c]), NEW j \in 1..Len(queue'[c]), i < j,
                 queue'[c][i].link = queue'[c][j].link
          PROVE  queue'[c][i].seq < queue'[c][j].seq
      <4>1. /\ queue'[c][i] = queue[c][i + 1] /\ queue'[c][j] = queue[c][j + 1]
            /\ i + 1 \in 1..Len(queue[c]) /\ j + 1 \in 1..Len(queue[c]) /\ i + 1 < j + 1
        BY <1>4, <1>6, <3>2
      <4> QED BY <3>2, <4>1 DEF OrderInv, SortedInv
    <3> QED BY <2>2, <3>1, <3>2
  <2> QED BY <2>1, <2>2
<1>10. WorkInv'
  <2>1. ASSUME NEW w \in work
        PROVE  /\ lastSeq'[w[1]][w[2].link] < w[2].seq
               /\ \A i \in 1..Len(queue'[w[1]]) :
                    queue'[w[1]][i].link = w[2].link => queue'[w[1]][i].seq < w[2].seq
    <3>1. w[1] \in Subs /\ w[2].link \in Links /\ Fresh(w[1], w[2])
      BY <1>0, Types DEF OrderInv, WorkInv
    <3>2. CASE w[1] # c
      BY <1>4, <1>5, <3>1, <3>2 DEF Fresh
    <3>3. CASE w[1] = c
      <4>1. 1 \in 1..Len(queue[c])
        BY <1>2
      <4>2. lastSeq'[c][w[2].link] < w[2].seq
        BY <1>2, <1>5, <3>1, <3>3, <4>1 DEF Fresh
      <4>3. ASSUME NEW i \in 1..Len(queue'[c]), queue'[c][i].link = w[2].link
            PROVE  queue'[c][i].seq < w[2].seq
        <5>1. i + 1 \in 1..Len(queue[c]) /\ queue'[c][i] = queue[c][i + 1]
          BY <1>4, <1>6
        <5> QED BY <3>1, <3>3, <4>3, <5>1 DEF Fresh
      <4> QED BY <3>3, <4>2, <4>3
    <3> QED BY <3>2, <3>3
  <2>2. \A u, v \in work : u[1] = v[1] /\ u[2].link = v[2].link => u = v
    BY DEF OrderInv, WorkInv
  <2> QED BY <1>1, <2>1, <2>2 DEF WorkInv, Fresh
<1> QED BY <1>7, <1>8, <1>9, <1>10 DEF OrderInv

\* A queue that is cleared is sorted; nothing is being pushed into it.
LEMMA ClearQueueOrder ==
  ASSUME DeliveryInv, OrderInv, NEW c \in Subs, ClearQueue(c)
  PROVE  OrderInv'
<1>0. TypeOK
  BY DEF DeliveryInv
<1>1. UNCHANGED <<lastSeq, sent, latched, current, work>>
  BY DEF ClearQueue, linkvars, critvars
<1>2. \A d \in Subs : queue'[d] = queue[d] \/ (queue'[d] = <<>> /\ Len(queue'[d]) = 0)
  BY <1>0 DEF ClearQueue, TypeOK
<1>3. \A d \in Subs : status'[d] = "new" => status[d] = "new"
  BY <1>0 DEF ClearQueue, TypeOK
<1>4. SentInv'
  BY <1>1, <1>2 DEF OrderInv, SentInv
<1>5. NewInv'
  BY <1>1, <1>3 DEF OrderInv, NewInv
<1>6. SortedInv'
  <2> SUFFICES ASSUME NEW d \in Subs
               PROVE  /\ \A i \in 1..Len(queue'[d]) : lastSeq[d][queue'[d][i].link] < queue'[d][i].seq
                      /\ \A i, j \in 1..Len(queue'[d]) :
                           i < j /\ queue'[d][i].link = queue'[d][j].link
                           => queue'[d][i].seq < queue'[d][j].seq
    BY <1>1 DEF SortedInv
  <2>1. CASE queue'[d] = queue[d]
    BY <2>1 DEF OrderInv, SortedInv
  <2>2. CASE queue'[d] = <<>> /\ Len(queue'[d]) = 0
    BY <2>2
  <2> QED BY <1>2, <2>1, <2>2
<1>7. WorkInv'
  <2>1. \A w \in work : w[1] \in Subs
    BY <1>0, Types
  <2> QED BY <1>1, <1>2, <2>1 DEF OrderInv, WorkInv, Fresh
<1> QED BY <1>4, <1>5, <1>6, <1>7 DEF OrderInv

\* One step per action; the others leave queues, pushes and numbers alone.
LEMMA NextOrder == DeliveryInv /\ OrderInv /\ [Next]_vars => OrderInv'
<1> SUFFICES ASSUME DeliveryInv, OrderInv, [Next]_vars PROVE OrderInv'
  OBVIOUS
<1> USE DEF critvars, linkvars, adminvars
<1>0. TypeOK
  BY DEF DeliveryInv
<1>1. ASSUME NEW l \in Links, NEW m, AddLink(l, m) PROVE OrderInv'
  BY <1>1, OrderUntouched DEF AddLink
<1>2. ASSUME NEW l \in Links, RemovePublisherLink(l) PROVE OrderInv'
  BY <1>2, RemovePublisherLinkOrder
<1>3. ASSUME NEW l \in Links, HandleMessage(l) PROVE OrderInv'
  BY <1>3, HandleMessageOrder
<1>4. ASSUME NEW c \in Subs, AddCallback(c) PROVE OrderInv'
  BY <1>4, AddCallbackOrder
<1>5. ASSUME NEW c \in Subs, Expire(c) PROVE OrderInv'
  BY <1>5, OrderUntouched DEF Expire
<1>6. ASSUME NEW c \in Subs, ClearQueue(c) PROVE OrderInv'
  BY <1>6, ClearQueueOrder
<1>7. ASSUME NEW c \in Subs, RemoveByID(c) PROVE OrderInv'
  BY <1>0, <1>7, OrderUntouched DEF RemoveByID, TypeOK
<1>8. CASE PushNext
  BY <1>8, PushNextOrder
<1>9. CASE Schedule
  BY <1>9, OrderUntouched DEF Schedule
<1>10. CASE Finish
  BY <1>10, FinishOrder
<1>11. ASSUME NEW t \in Threads, NEW c \in Subs, CallBusy(t, c) PROVE OrderInv'
  BY <1>11, OrderUntouched DEF CallBusy, vars
<1>12. ASSUME NEW t \in Threads, NEW c \in Subs, CallInvalid(t, c) PROVE OrderInv'
  BY <1>12, OrderUntouched DEF CallInvalid
<1>13. ASSUME NEW t \in Threads, NEW c \in Subs, CallSuccess(t, c) PROVE OrderInv'
  BY <1>13, CallSuccessOrder
<1>14. ASSUME NEW t \in Threads, NEW c \in Subs, RemoveCallback(t, c) PROVE OrderInv'
  BY <1>0, <1>14, OrderUntouched DEF RemoveCallback, TypeOK
<1>15. ASSUME NEW t \in Threads, NEW c \in Subs, DropToken(t, c) PROVE OrderInv'
  BY <1>15, OrderUntouched DEF DropToken
<1>16. ASSUME NEW t \in Threads, EndCall(t) PROVE OrderInv'
  BY <1>16, OrderUntouched DEF EndCall
<1>17. ASSUME NEW on \in BOOLEAN, SwitchQueue(on) PROVE OrderInv'
  BY <1>17, OrderUntouched DEF SwitchQueue
<1>18. CASE ClearCallbackQueue
  BY <1>18, OrderUntouched DEF ClearCallbackQueue
<1>19. CASE UNCHANGED vars
  BY <1>19, OrderUntouched DEF vars
<1> QED BY <1>1, <1>2, <1>3, <1>4, <1>5, <1>6, <1>7, <1>8, <1>9, <1>10, <1>11, <1>12,
           <1>13, <1>14, <1>15, <1>16, <1>17, <1>18, <1>19 DEF Next

\* The messages of a link are in their order in every queue, and what is about to
\* be pushed is newer: in every reachable state of any subscription.
THEOREM DeliveryOrder == Spec => [](DeliveryInv /\ OrderInv)
<1>1. Init => DeliveryInv /\ OrderInv
  BY InitDelivery, InitOrder
<1>2. DeliveryInv /\ OrderInv /\ [Next]_vars => (DeliveryInv /\ OrderInv)'
  BY NextDelivery, NextOrder
<1> QED BY <1>1, <1>2, PTL DEF Spec

-----------------------------------------------------------------------------
(* The refinement: which step of the delivery is which step of a channel.   *)

\* A step that leaves status, queues and history alone is no step of a channel,
\* and neither is one that only makes an active callback one to clear.
LEMMA Stutter ==
  ASSUME TypeOK, UNCHANGED <<queue, lastSeq>>, ChannelState' = ChannelState
  PROVE  [Channel!Next]_(Channel!channel)
  BY DEF Channel!channel

LEMMA SameState ==
  ASSUME UNCHANGED status
  PROVE  ChannelState' = ChannelState
  BY DEF ChannelState

\* addCallback opens a channel.
LEMMA AddCallbackOpens ==
  ASSUME TypeOK, NEW c \in Subs, AddCallback(c)
  PROVE  Channel!Open(c)
<1>1. ChannelState[c] = "new" /\ UNCHANGED <<queue, lastSeq>>
  BY DEF AddCallback, ChannelState
<1>2. ChannelState' = [ChannelState EXCEPT ![c] = "open"]
  BY DEF AddCallback, ChannelState, TypeOK
<1> QED BY <1>1, <1>2 DEF Channel!Open

\* A push offers a message to a callback that is still subscribed, newer than all
\* it has been given of the link.
LEMMA PushNextOffers ==
  ASSUME DeliveryInv, OrderInv, PushNext
  PROVE  \E c \in Subs : \E m \in Msg : Channel!Offer(c, m)
<1>0. TypeOK /\ LockInv
  BY DEF DeliveryInv
<1>1. PICK w \in work : Push(w[1], w[2])
  BY DEF PushNext
<1>2. w[1] \in Subs /\ w[2] \in Msg /\ status[w[1]] = "active" /\ Fresh(w[1], w[2])
  BY <1>0, Types DEF LockInv, OrderInv, WorkInv
<1>3. UNCHANGED <<status, lastSeq>> /\ ChannelState' = ChannelState
  BY SameState DEF PushNext
<1>4. ChannelState[w[1]] = "open" /\ Channel!Newer(w[1], w[2])
  BY <1>2 DEF ChannelState, Channel!Newer, Fresh
<1>5. queue' = [queue EXCEPT ![w[1]] =
                  Append(IF Channel!AtLimit(w[1]) THEN Tail(@) ELSE @, w[2])]
  BY <1>1 DEF Push, Full, Channel!AtLimit
<1>6. Channel!Offer(w[1], w[2])
  BY <1>3, <1>4, <1>5 DEF Channel!Offer
<1> QED BY <1>2, <1>6

\* A successful call delivers the oldest message.
LEMMA CallSuccessDelivers ==
  ASSUME DeliveryInv, NEW t \in Threads, NEW c \in Subs, CallSuccess(t, c)
  PROVE  Channel!Deliver(c)
<1>0. TypeOK /\ EmptyInv
  BY DEF DeliveryInv
<1>1. queue[c] # <<>> /\ Pop(c) /\ ChannelState' = ChannelState
  BY SameState DEF CallSuccess
<1>2. status[c] \in {"active", "clear"}
  BY <1>0, <1>1 DEF EmptyInv, TypeOK, Statuses
<1>3. ChannelState[c] = "open"
  BY <1>2 DEF ChannelState
<1> QED BY <1>1, <1>3 DEF Channel!Deliver, Pop

\* SubscriptionQueue::clear closes the channel.
LEMMA ClearQueueCloses ==
  ASSUME TypeOK, NEW c \in Subs, ClearQueue(c)
  PROVE  Channel!Close(c)
<1>1. ChannelState[c] = "open" /\ UNCHANGED lastSeq /\ queue' = [queue EXCEPT ![c] = <<>>]
  BY DEF ClearQueue, ChannelState
<1>2. ChannelState' = [ChannelState EXCEPT ![c] = "closed"]
  BY DEF ClearQueue, ChannelState, TypeOK
<1> QED BY <1>1, <1>2 DEF Channel!Close

\* removeCallback's other steps are seen by no channel.
LEMMA RemovalUnseen ==
  ASSUME TypeOK, NEW c \in Subs, \/ \E t \in Threads : RemoveCallback(t, c)
                                 \/ RemoveByID(c)
  PROVE  UNCHANGED <<queue, lastSeq>> /\ ChannelState' = ChannelState
<1>1. ASSUME NEW t \in Threads, RemoveCallback(t, c)
      PROVE  UNCHANGED <<queue, lastSeq>> /\ ChannelState' = ChannelState
  BY <1>1 DEF RemoveCallback, ChannelState, TypeOK
<1>2. ASSUME RemoveByID(c)
      PROVE  UNCHANGED <<queue, lastSeq>> /\ ChannelState' = ChannelState
  BY <1>2 DEF RemoveByID, ChannelState, TypeOK
<1> QED BY <1>1, <1>2

\* Every step of the delivery is a step of one channel or of none.
LEMMA NextImplements ==
  DeliveryInv /\ OrderInv /\ [Next]_vars => [Channel!Next]_(Channel!channel)
<1> SUFFICES ASSUME DeliveryInv, OrderInv, [Next]_vars
             PROVE  [Channel!Next]_(Channel!channel)
  OBVIOUS
<1>0. TypeOK
  BY DEF DeliveryInv
<1>1. ASSUME UNCHANGED <<queue, lastSeq, status>> PROVE [Channel!Next]_(Channel!channel)
  BY <1>0, <1>1, SameState, Stutter
<1>2. ASSUME NEW l \in Links,
             \/ \E m \in {Md5[c] : c \in Subs} \ {AnyMd5} : AddLink(l, m)
             \/ RemovePublisherLink(l) \/ HandleMessage(l)
      PROVE  UNCHANGED <<queue, lastSeq, status>>
  BY <1>2 DEF AddLink, RemovePublisherLink, HandleMessage
<1>3. ASSUME NEW c \in Subs, AddCallback(c) PROVE Channel!Next
  BY <1>0, <1>3, AddCallbackOpens DEF Channel!Next
<1>4. ASSUME NEW c \in Subs, Expire(c) PROVE UNCHANGED <<queue, lastSeq, status>>
  BY <1>4 DEF Expire
<1>5. ASSUME NEW c \in Subs, ClearQueue(c) PROVE Channel!Next
  BY <1>0, <1>5, ClearQueueCloses DEF Channel!Next
<1>6. ASSUME NEW c \in Subs, RemoveByID(c) PROVE [Channel!Next]_(Channel!channel)
  BY <1>0, <1>6, RemovalUnseen, Stutter
<1>7. CASE PushNext
  BY <1>7, PushNextOffers DEF Channel!Next
<1>8. CASE Schedule \/ Finish \/ ClearCallbackQueue
  <2>1. UNCHANGED <<queue, lastSeq, status>>
    BY <1>8 DEF Schedule, Finish, ClearCallbackQueue
  <2> QED BY <1>1, <2>1
<1>9. ASSUME NEW t \in Threads, NEW c \in Subs,
             CallBusy(t, c) \/ CallInvalid(t, c) \/ DropToken(t, c)
      PROVE  UNCHANGED <<queue, lastSeq, status>>
  BY <1>9 DEF CallBusy, CallInvalid, DropToken, vars
<1>10. ASSUME NEW t \in Threads, NEW c \in Subs, CallSuccess(t, c) PROVE Channel!Next
  BY <1>10, CallSuccessDelivers DEF Channel!Next
<1>11. ASSUME NEW t \in Threads, NEW c \in Subs, RemoveCallback(t, c)
       PROVE  [Channel!Next]_(Channel!channel)
  BY <1>0, <1>11, RemovalUnseen, Stutter
<1>12. ASSUME NEW t \in Threads, EndCall(t) PROVE UNCHANGED <<queue, lastSeq, status>>
  BY <1>12 DEF EndCall
<1>13. ASSUME NEW on \in BOOLEAN, SwitchQueue(on)
       PROVE  UNCHANGED <<queue, lastSeq, status>>
  BY <1>13 DEF SwitchQueue
<1>14. CASE UNCHANGED vars
  <2>1. UNCHANGED <<queue, lastSeq, status>>
    BY <1>14 DEF vars
  <2> QED BY <1>1, <2>1
<1> QED BY <1>1, <1>2, <1>3, <1>4, <1>5, <1>6, <1>7, <1>8, <1>9, <1>10, <1>11, <1>12,
           <1>13, <1>14 DEF Next

\* "subscription callbacks are guaranteed to arrive in-order", whatever the number
\* of callbacks, links and threads: what the subscription's queues, the entries in
\* the CallbackQueue, the mutexes and the threads do together is what a channel
\* per callback does.
THEOREM DeliveryImplementsChannel == Spec => ImplementsChannel
<1>1. Init => Channel!Init
  BY DEF Init, ChannelState, Channel!Init
<1>2. DeliveryInv /\ OrderInv /\ [Next]_vars => [Channel!Next]_(Channel!channel)
  BY NextImplements
<1> QED BY <1>1, <1>2, DeliveryOrder, PTL DEF Spec, ImplementsChannel, Channel!Spec
=============================================================================
