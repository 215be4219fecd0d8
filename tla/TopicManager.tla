---------------------------- MODULE TopicManager ----------------------------
(***************************************************************************)
(* xcros::TopicManager for one topic: advertise, unadvertise, subscribe,   *)
(* unsubscribe, publish and shutdown, called by several threads, with the  *)
(* registrations at the master and the intraprocess links between the      *)
(* node's own publication and subscription.                                *)
(*                                                                         *)
(* Each operation takes advertised_topics_mutex_ and subs_mutex_ several   *)
(* times and works on what it saw under them before; one action is one     *)
(* such region.  The regions of advertised_topics_mutex_ are atomic except *)
(* in shutdown, which keeps it while it waits for subs_mutex_; subscribe   *)
(* keeps subs_mutex_ from beginning to end.                                *)
(*                                                                         *)
(* A handle (Publisher::Impl or Subscriber::Impl) is opened and closed     *)
(* once, by the thread that owns it.  The links of other processes are in  *)
(* module PublisherLinks, messages in MessageDelivery.                     *)
(***************************************************************************)
EXTENDS Integers, FiniteSets, FiniteSetsExt

CONSTANTS
  Threads, NoThread,
  Publishers, Subscribers,   \* handles
  NoHandle,
  Owner,                     \* the thread each handle belongs to
  Type,                      \* the md5sum of the message type each handle is for
  AnyType,                   \* "*": a Subscriber of messages of any type
  Closers,                   \* threads that call shutdown
  MaxPubs, MaxSubs,          \* bounds: Publication and Subscription objects
  MasterMayFail              \* calls to the master may fail

Handles == Publishers \cup Subscribers
PubIds == 1..MaxPubs
SubIds == 1..MaxSubs
Types == {Type[h] : h \in Handles}

ASSUME TopicManagerAssumption ==
  /\ NoThread \notin Threads /\ NoHandle \notin Handles /\ Publishers \cap Subscribers = {}
  /\ Owner \in [Handles -> Threads] /\ DOMAIN Type = Handles
  /\ \A h \in Publishers : Type[h] # AnyType   \* advertise throws
  /\ Closers \subseteq Threads
  /\ MaxPubs \in Nat /\ MaxSubs \in Nat
  /\ MasterMayFail \in BOOLEAN

VARIABLES
  handle,        \* each handle: "new", "opening", "open", "closing" or "closed"
  advertised,    \* advertised_topics_; ids grow in the order of the vector
  pubCbs,        \* Publication::callbacks_: the handles a Publication serves
  pubDropped,    \* Publication::dropped_
  pubType,       \* Publication::md5sum_: the handle it was made for gives it
  newPub,        \* Publication objects made so far
  names,         \* how often the topic is in advertised_topic_names_
  subscriptions, \* subscriptions_
  subCbs,        \* Subscription::callbacks_: the handles it serves
  subDropped,    \* Subscription::dropped_
  subType,       \* Subscription::md5sum_
  newSub,        \* Subscription objects made so far
  subLinks,      \* publisher_links_: intraprocess links per Subscription
  pubLinks,      \* subscriber_links_: intraprocess links per Publication
  regPub,        \* the master lists this node as a publisher
  regSub,        \* the master lists this node as a subscriber
  shuttingDown,  \* shutting_down_
  advLock,       \* holder of advertised_topics_mutex_ between two steps
  subsLock,      \* holder of subs_mutex_ between two steps
  pc,            \* where each thread is
  cur,           \* the handle it works for
  pub,           \* the Publication it has looked up, 0 for none
  sub,           \* the Subscription it has looked up, 0 for none
  stale,         \* unadvertise: the vector changed under its iterator
  lapses         \* history: what has gone wrong, see Lapses

pubvars == <<advertised, pubCbs, pubDropped, pubType, newPub>>
subvars == <<subscriptions, subCbs, subDropped, subType, newSub>>
linkvars == <<subLinks, pubLinks>>
mastervars == <<regPub, regSub>>
lockvars == <<shuttingDown, advLock, subsLock>>
locals == <<pub, sub>>
vars == <<handle, advertised, pubCbs, pubDropped, pubType, newPub, names, subscriptions,
          subCbs, subDropped, subType, newSub, subLinks, pubLinks, regPub, regSub,
          shuttingDown, advLock, subsLock, pc, cur, pub, sub, stale, lapses>>

\* The ways in which an operation fails without telling its caller.  No action reads
\* them.  Those about the master last until it is told the contrary.
Lapses ==
  {"staleErase",   \* unadvertise erased through an iterator that was no longer valid
   "lateJoin",     \* unsubscribe erased a subscription that has, or is, another's
   "unlisted",     \* the master has refused registerPublisher
   "strayPub",     \* the master has not carried out unregisterPublisher
   "straySub"}     \* the same of unregisterSubscriber, or subscribe failed on a local
                   \* publication of another type when the master had been told

Init ==
  /\ handle = [h \in Handles |-> "new"]
  /\ advertised = {} /\ newPub = 0 /\ names = 0
  /\ pubCbs = [p \in PubIds |-> {}] /\ pubDropped = [p \in PubIds |-> FALSE]
  /\ pubType = [p \in PubIds |-> NoHandle] /\ subType = [s \in SubIds |-> NoHandle]
  /\ subscriptions = {} /\ newSub = 0
  /\ subCbs = [s \in SubIds |-> {}] /\ subDropped = [s \in SubIds |-> FALSE]
  /\ subLinks = [s \in SubIds |-> [p \in PubIds |-> 0]]
  /\ pubLinks = [p \in PubIds |-> [s \in SubIds |-> 0]]
  /\ regPub = FALSE /\ regSub = FALSE
  /\ shuttingDown = FALSE /\ advLock = NoThread /\ subsLock = NoThread
  /\ pc = [t \in Threads |-> "idle"] /\ cur = [t \in Threads |-> NoHandle]
  /\ pub = [t \in Threads |-> 0] /\ sub = [t \in Threads |-> 0]
  /\ stale = [t \in Threads |-> FALSE] /\ lapses = {}

-----------------------------------------------------------------------------
(* Helpers.                                                                 *)

First(S) == IF S = {} THEN 0 ELSE Min(S)

\* lookupPublicationWithoutLock: the first publication that is not dropped.
Lookup == First({p \in advertised : ~pubDropped[p]})

\* The first subscription to the topic that is not dropped.
LiveSubscription == First({s \in subscriptions : ~subDropped[s]})

\* md5sumsMatch.
Match(x, y) == x = AnyType \/ y = AnyType \/ x = y

\* The first one that also has the type of publication p.
MatchingSubscription(p) ==
  First({s \in subscriptions : ~subDropped[s] /\ Match(subType[s], pubType[p])})

\* A subscription to any type decays to the first real type it meets: of a callback
\* that joins it, or of a link (headerReceived).
Decayed(s, type) == IF subType[s] = AnyType THEN [subType EXCEPT ![s] = type] ELSE subType

\* The lapses after an operation in which this one happened, or was made good.
Lapsed(lapse, wrong) == IF wrong THEN lapses \cup {lapse} ELSE lapses \ {lapse}

AdvFree == advLock = NoThread
SubsFree == subsLock = NoThread

Goto(t, where) == pc' = [pc EXCEPT ![t] = where]

\* The call begins, or ends with the handle in a new state.
Begin(t, h, where) ==
  /\ pc[t] = "idle" /\ Owner[h] = t
  /\ Goto(t, where)
  /\ cur' = [cur EXCEPT ![t] = h]

End(t, state) ==
  /\ Goto(t, "idle")
  /\ cur' = [cur EXCEPT ![t] = NoHandle]
  /\ handle' = [handle EXCEPT ![cur[t]] = state]

\* The vector of publications changes: an unadvertise between its two regions is
\* left with an iterator that push_back or erase may have invalidated.
VectorChanged(t) ==
  stale' = [u \in Threads |-> stale[u] \/ (u # t /\ pc[u] \in {"unadv_remove", "unadv_drop"})]

\* master::execute: a registration is retried until the master answers, which may
\* be with a refusal; an unregistration is tried once.
Registered(reg) == IF MasterMayFail THEN {TRUE, reg} ELSE {TRUE}
Unregistered(reg) == IF MasterMayFail THEN {FALSE, reg} ELSE {FALSE}

\* IntraProcessPublisherLink::drop and IntraProcessSubscriberLink::drop call each
\* other: dropping all links of a Publication or of a Subscription removes them
\* on both sides.
DropPubLinks(P) ==
  /\ subLinks' = [s \in SubIds |-> [p \in PubIds |->
                    IF p \in P /\ pubLinks[p][s] > 0 THEN 0 ELSE subLinks[s][p]]]
  /\ pubLinks' = [p \in PubIds |-> [s \in SubIds |->
                    IF p \in P THEN 0 ELSE pubLinks[p][s]]]

DropSubLinks(S) ==
  /\ pubLinks' = [p \in PubIds |-> [s \in SubIds |->
                    IF s \in S /\ subLinks[s][p] > 0 THEN 0 ELSE pubLinks[p][s]]]
  /\ subLinks' = [s \in SubIds |-> [p \in PubIds |->
                    IF s \in S THEN 0 ELSE subLinks[s][p]]]

\* Subscription::addLocalConnection: a link is made unless the subscription is
\* dropped, and a dropped publication does not take its end of it.
AddLocalConnection(s, p) ==
  IF s = 0 \/ p = 0 \/ subDropped[s] THEN UNCHANGED <<linkvars, subType>>
  ELSE /\ subType' = Decayed(s, pubType[p])
       /\ subLinks' = [subLinks EXCEPT ![s][p] = @ + 1]
       /\ pubLinks' = IF pubDropped[p] THEN pubLinks
                      ELSE [pubLinks EXCEPT ![p][s] = @ + 1]

-----------------------------------------------------------------------------
(* advertise                                                                *)

\* The publication an advertise may join: the one it finds, unless that has no
\* callbacks left and is about to be dropped by unadvertise.
Reusable == First({p \in {Lookup} \ {0} : pubCbs[p] # {}})

Advertise(t, h) ==
  /\ h \in Publishers /\ handle[h] = "new" /\ AdvFree
  /\ pc[t] = "idle" /\ Owner[h] = t
  /\ \/ /\ shuttingDown
        /\ handle' = [handle EXCEPT ![h] = "closed"]
        /\ UNCHANGED <<pubvars, pc, cur, pub, stale>>
     \/ /\ ~shuttingDown /\ Reusable # 0
        /\ pubType[Reusable] # Type[h]
        /\ handle' = [handle EXCEPT ![h] = "closed"]
        /\ UNCHANGED <<pubvars, pc, cur, pub, stale>>
     \/ /\ ~shuttingDown /\ Reusable # 0
        /\ pubType[Reusable] = Type[h]
        /\ pubCbs' = [pubCbs EXCEPT ![Reusable] = @ \cup {h}]
        /\ handle' = [handle EXCEPT ![h] = "open"]
        /\ UNCHANGED <<advertised, pubDropped, pubType, newPub, pc, cur, pub, stale>>
     \/ /\ ~shuttingDown /\ Reusable = 0
        /\ newPub < MaxPubs
        /\ pubType' = [pubType EXCEPT ![newPub + 1] = Type[h]]
        /\ newPub' = newPub + 1
        /\ pubCbs' = [pubCbs EXCEPT ![newPub + 1] = {h}]
        /\ advertised' = advertised \cup {newPub + 1}
        /\ VectorChanged(t)
        /\ Begin(t, h, "adv_names")
        /\ pub' = [pub EXCEPT ![t] = newPub + 1]
        /\ handle' = [handle EXCEPT ![h] = "opening"]
        /\ UNCHANGED pubDropped
  /\ UNCHANGED <<names, subvars, linkvars, mastervars, lockvars, sub, lapses>>

AdvertiseName(t) ==
  /\ pc[t] = "adv_names"
  /\ names' = names + 1
  /\ Goto(t, "adv_find")
  /\ UNCHANGED <<handle, pubvars, subvars, linkvars, mastervars, lockvars, cur, locals,
                 stale, lapses>>

AdvertiseFind(t) ==
  /\ pc[t] = "adv_find" /\ SubsFree
  /\ sub' = [sub EXCEPT ![t] = MatchingSubscription(pub[t])]
  /\ Goto(t, "adv_connect")
  /\ UNCHANGED <<handle, pubvars, names, subvars, linkvars, mastervars, lockvars, cur,
                 pub, stale, lapses>>

AdvertiseConnect(t) ==
  /\ pc[t] = "adv_connect"
  /\ AddLocalConnection(sub[t], pub[t])
  /\ Goto(t, "adv_register")
  /\ UNCHANGED <<handle, pubvars, names, subscriptions, subCbs, subDropped, newSub, mastervars,
                 lockvars, cur, locals, stale, lapses>>

\* What the master answers is not looked at.
AdvertiseRegister(t) ==
  /\ pc[t] = "adv_register"
  /\ regPub' \in Registered(regPub)
  /\ lapses' = Lapsed("unlisted", ~regPub')
  /\ End(t, "open")
  /\ UNCHANGED <<pubvars, names, subvars, linkvars, regSub, lockvars, locals, stale>>

-----------------------------------------------------------------------------
(* unadvertise                                                              *)

Unadvertise(t, h) ==
  /\ h \in Publishers /\ handle[h] = "open" /\ AdvFree
  /\ pc[t] = "idle" /\ Owner[h] = t
  /\ IF shuttingDown \/ Lookup = 0
     THEN /\ handle' = [handle EXCEPT ![h] = "closed"]
          /\ UNCHANGED <<pc, cur, pub, stale>>
     ELSE /\ Begin(t, h, "unadv_remove")
          /\ handle' = [handle EXCEPT ![h] = "closing"]
          /\ pub' = [pub EXCEPT ![t] = Lookup]
          /\ stale' = [stale EXCEPT ![t] = FALSE]
  /\ UNCHANGED <<pubvars, names, subvars, linkvars, mastervars, lockvars, sub, lapses>>

UnadvertiseRemove(t) ==
  /\ pc[t] = "unadv_remove"
  /\ pubCbs' = [pubCbs EXCEPT ![pub[t]] = @ \ {cur[t]}]
  /\ Goto(t, "unadv_drop")
  /\ UNCHANGED <<handle, advertised, pubDropped, pubType, newPub, names, subvars, linkvars,
                 mastervars, lockvars, cur, locals, stale, lapses>>

\* erase(i): through a stale iterator it removes this or another element, or none.
Erased(t) == IF stale[t] THEN {advertised} \cup {advertised \ {p} : p \in advertised}
                         ELSE {advertised \ {pub[t]}}

\* Mutation: the publication is dropped while it still has callbacks.
UnadvertiseDropAlways(t) ==
  /\ pc[t] = "unadv_drop" /\ AdvFree
  /\ regPub' \in Unregistered(regPub)
  /\ pubDropped' = [pubDropped EXCEPT ![pub[t]] = TRUE]
  /\ DropPubLinks({pub[t]})
  /\ advertised' \in Erased(t)
  /\ VectorChanged(t)
  /\ names' = 0
  /\ lapses' = Lapsed("strayPub", regPub') \cup {l \in {"staleErase"} : stale[t]}
  /\ End(t, "closed")
  /\ UNCHANGED <<pubCbs, pubType, newPub, subvars, regSub, lockvars, locals>>

UnadvertiseDrop(t) ==
  /\ pc[t] = "unadv_drop" /\ AdvFree
  /\ IF pubCbs[pub[t]] = {}
     THEN /\ regPub' \in Unregistered(regPub)
          /\ pubDropped' = [pubDropped EXCEPT ![pub[t]] = TRUE]
          /\ DropPubLinks({pub[t]})
          /\ advertised' \in Erased(t)
          /\ VectorChanged(t)
          /\ names' = 0
          /\ lapses' = Lapsed("strayPub", regPub') \cup {l \in {"staleErase"} : stale[t]}
     ELSE UNCHANGED <<regPub, pubDropped, linkvars, advertised, names, stale, lapses>>
  /\ End(t, "closed")
  /\ UNCHANGED <<pubCbs, pubType, newPub, subvars, regSub, lockvars, locals>>

-----------------------------------------------------------------------------
(* subscribe, under subs_mutex_ from beginning to end                        *)

Subscribe(t, h) ==
  /\ h \in Subscribers /\ handle[h] = "new" /\ SubsFree
  /\ pc[t] = "idle" /\ Owner[h] = t
  /\ \/ /\ shuttingDown
        /\ handle' = [handle EXCEPT ![h] = "closed"]
        /\ UNCHANGED <<subCbs, subType, newSub, subsLock, pc, cur, sub, regSub>>
     \/ /\ ~shuttingDown /\ LiveSubscription # 0
        /\ ~Match(Type[h], subType[LiveSubscription])
        /\ handle' = [handle EXCEPT ![h] = "closed"]
        /\ UNCHANGED <<subCbs, subType, newSub, subsLock, pc, cur, sub, regSub>>
     \/ /\ ~shuttingDown /\ LiveSubscription # 0
        /\ Match(Type[h], subType[LiveSubscription])
        /\ subCbs' = [subCbs EXCEPT ![LiveSubscription] = @ \cup {h}]
        /\ subType' = Decayed(LiveSubscription, Type[h])
        /\ handle' = [handle EXCEPT ![h] = "open"]
        /\ UNCHANGED <<newSub, subsLock, pc, cur, sub, regSub>>
     \/ /\ ~shuttingDown /\ LiveSubscription = 0
        /\ newSub < MaxSubs
        /\ newSub' = newSub + 1
        /\ subCbs' = [subCbs EXCEPT ![newSub + 1] = {h}]
        /\ subType' = [subType EXCEPT ![newSub + 1] = Type[h]]
        /\ sub' = [sub EXCEPT ![t] = newSub + 1]
        /\ handle' = [handle EXCEPT ![h] = "opening"]
        /\ subsLock' = t
        /\ \/ regSub' = TRUE /\ Begin(t, h, "sub_find")
           \/ MasterMayFail /\ UNCHANGED regSub /\ Begin(t, h, "sub_fail")
  /\ UNCHANGED <<pubvars, names, subscriptions, subDropped, linkvars, regPub,
                 shuttingDown, advLock, pub, stale, lapses>>

\* There is a local publication, and it has another type.
Conflict(t) == Lookup # 0 /\ ~Match(pubType[Lookup], subType[sub[t]])

\* The registration failed: the new Subscription is shut down.
SubscribeFail(t) ==
  /\ pc[t] = "sub_fail"
  /\ subDropped' = [subDropped EXCEPT ![sub[t]] = TRUE]
  /\ subsLock' = NoThread
  /\ End(t, "closed")
  /\ UNCHANGED <<pubvars, names, subscriptions, subCbs, subType, newSub, linkvars, mastervars,
                 shuttingDown, advLock, locals, stale, lapses>>

\* Mutation: subs_mutex_, which this thread holds and which is not recursive, is
\* taken once more.
SubscribeFindRelocks(t) ==
  /\ pc[t] = "sub_find" /\ AdvFree /\ SubsFree
  /\ pub' = [pub EXCEPT ![t] = Lookup]
  /\ Goto(t, IF Conflict(t) THEN "sub_fail" ELSE "sub_connect")
  /\ lapses' = IF Conflict(t) THEN lapses \cup {"straySub"} ELSE lapses
  /\ UNCHANGED <<handle, pubvars, names, subvars, linkvars, mastervars, lockvars, cur,
                 sub, stale>>

\* registerSubscriber looks for a local publication; one of another type makes it
\* fail, after the master has been told.
SubscribeFind(t) ==
  /\ pc[t] = "sub_find" /\ AdvFree
  /\ pub' = [pub EXCEPT ![t] = Lookup]
  /\ Goto(t, IF Conflict(t) THEN "sub_fail" ELSE "sub_connect")
  /\ lapses' = IF Conflict(t) THEN lapses \cup {"straySub"} ELSE lapses
  /\ UNCHANGED <<handle, pubvars, names, subvars, linkvars, mastervars, lockvars, cur,
                 sub, stale>>

SubscribeConnect(t) ==
  /\ pc[t] = "sub_connect"
  /\ AddLocalConnection(sub[t], pub[t])
  /\ subscriptions' = subscriptions \cup {sub[t]}
  /\ subsLock' = NoThread
  /\ End(t, "open")
  /\ UNCHANGED <<pubvars, names, subCbs, subDropped, newSub, mastervars, shuttingDown,
                 advLock, locals, stale, lapses>>

-----------------------------------------------------------------------------
(* unsubscribe                                                              *)

Unsubscribe(t, h) ==
  /\ h \in Subscribers /\ handle[h] = "open" /\ SubsFree
  /\ pc[t] = "idle" /\ Owner[h] = t
  /\ IF shuttingDown \/ subscriptions = {}
     THEN /\ handle' = [handle EXCEPT ![h] = "closed"]
          /\ UNCHANGED <<pc, cur, sub>>
     ELSE /\ Begin(t, h, "unsub_remove")
          /\ handle' = [handle EXCEPT ![h] = "closing"]
          /\ sub' = [sub EXCEPT ![t] = First(subscriptions)]
  /\ UNCHANGED <<pubvars, names, subvars, linkvars, mastervars, lockvars, pub, stale, lapses>>

UnsubscribeRemove(t) ==
  /\ pc[t] = "unsub_remove"
  /\ subCbs' = [subCbs EXCEPT ![sub[t]] = @ \ {cur[t]}]
  /\ Goto(t, "unsub_check")
  /\ UNCHANGED <<handle, pubvars, names, subscriptions, subDropped, subType, newSub, linkvars,
                 mastervars, lockvars, cur, locals, stale, lapses>>

\* Mutation: the subscription goes with its first callback.
UnsubscribeCheckAlways(t) ==
  /\ pc[t] = "unsub_check"
  /\ Goto(t, "unsub_erase") /\ UNCHANGED <<cur, handle>>
  /\ UNCHANGED <<pubvars, names, subvars, linkvars, mastervars, lockvars, locals, stale, lapses>>

\* getNumCallbacks() == 0 is asked without subs_mutex_.
UnsubscribeCheck(t) ==
  /\ pc[t] = "unsub_check"
  /\ \/ subCbs[sub[t]] = {} /\ Goto(t, "unsub_erase") /\ UNCHANGED <<cur, handle>>
     \/ subCbs[sub[t]] # {} /\ End(t, "closed")
  /\ UNCHANGED <<pubvars, names, subvars, linkvars, mastervars, lockvars, locals, stale, lapses>>

\* The first subscription of that name is erased, whichever it is.
UnsubscribeErase(t) ==
  /\ pc[t] = "unsub_erase" /\ SubsFree
  /\ subscriptions' = subscriptions \ {First(subscriptions)}
  /\ regSub' \in Unregistered(regSub)
  /\ lapses' = Lapsed("straySub", regSub')
                 \cup {l \in {"lateJoin"} : \/ subCbs[sub[t]] # {}
                                           \/ First(subscriptions) \notin {0, sub[t]}}
  /\ Goto(t, "unsub_shutdown")
  /\ UNCHANGED <<handle, pubvars, names, subCbs, subDropped, subType, newSub, linkvars, regPub,
                 lockvars, cur, locals, stale>>

UnsubscribeShutdown(t) ==
  /\ pc[t] = "unsub_shutdown"
  /\ subDropped' = [subDropped EXCEPT ![sub[t]] = TRUE]
  /\ IF subDropped[sub[t]] THEN UNCHANGED linkvars ELSE DropSubLinks({sub[t]})
  /\ End(t, "closed")
  /\ UNCHANGED <<pubvars, names, subscriptions, subCbs, subType, newSub, mastervars, lockvars,
                 locals, stale, lapses>>

-----------------------------------------------------------------------------
(* shutdown: both mutexes for the flag, then the publications, then the     *)
(* subscriptions.  A second call returns at once.                           *)

Shutdown(t) ==
  /\ t \in Closers /\ pc[t] = "idle" /\ ~shuttingDown /\ AdvFree
  /\ \A u \in Threads : pc[u] # "down_flag"
  /\ advLock' = t
  /\ Goto(t, "down_flag")
  /\ UNCHANGED <<handle, pubvars, names, subvars, linkvars, mastervars, shuttingDown,
                 subsLock, cur, locals, stale, lapses>>

ShutdownFlag(t) ==
  /\ pc[t] = "down_flag" /\ SubsFree
  /\ shuttingDown' = TRUE
  /\ advLock' = NoThread
  /\ Goto(t, "down_pubs")
  /\ UNCHANGED <<handle, pubvars, names, subvars, linkvars, mastervars, subsLock, cur,
                 locals, stale, lapses>>

ShutdownPubs(t) ==
  /\ pc[t] = "down_pubs"
  /\ pubDropped' = [p \in PubIds |-> pubDropped[p] \/ p \in advertised]
  /\ regPub' \in IF \E p \in advertised : ~pubDropped[p] THEN Unregistered(regPub) ELSE {regPub}
  /\ DropPubLinks({p \in advertised : ~pubDropped[p]})
  /\ advertised' = {}
  /\ VectorChanged(t)
  /\ Goto(t, "down_subs")
  /\ UNCHANGED <<handle, pubCbs, pubType, newPub, names, subvars, regSub, lockvars, cur, locals, lapses>>

\* Mutation: the subscriptions are cleared and not shut down.
ShutdownSubsClear(t) ==
  /\ pc[t] = "down_subs" /\ SubsFree
  /\ regSub' \in IF subscriptions # {} THEN Unregistered(regSub) ELSE {regSub}
  /\ subscriptions' = {}
  /\ Goto(t, "idle")
  /\ UNCHANGED <<handle, pubvars, names, subCbs, subDropped, subType, newSub, linkvars, regPub,
                 lockvars, cur, locals, stale, lapses>>

ShutdownSubs(t) ==
  /\ pc[t] = "down_subs" /\ SubsFree
  /\ subDropped' = [s \in SubIds |-> subDropped[s] \/ s \in subscriptions]
  /\ regSub' \in IF subscriptions # {} THEN Unregistered(regSub) ELSE {regSub}
  /\ DropSubLinks({s \in subscriptions : ~subDropped[s]})
  /\ subscriptions' = {}
  /\ Goto(t, "idle")
  /\ UNCHANGED <<handle, pubvars, names, subCbs, subType, newSub, regPub, lockvars, cur, locals,
                 stale, lapses>>

-----------------------------------------------------------------------------
\* The steps of an operation that has begun.
Progress(t) ==
  \/ AdvertiseName(t) \/ AdvertiseFind(t) \/ AdvertiseConnect(t) \/ AdvertiseRegister(t)
  \/ UnadvertiseRemove(t) \/ UnadvertiseDrop(t)
  \/ SubscribeFail(t) \/ SubscribeFind(t) \/ SubscribeConnect(t)
  \/ UnsubscribeRemove(t) \/ UnsubscribeCheck(t) \/ UnsubscribeErase(t)
  \/ UnsubscribeShutdown(t)
  \/ ShutdownFlag(t) \/ ShutdownPubs(t) \/ ShutdownSubs(t)

Next ==
  \E t \in Threads :
    \/ \E h \in Handles : \/ Advertise(t, h) \/ Unadvertise(t, h)
                          \/ Subscribe(t, h) \/ Unsubscribe(t, h)
    \/ Shutdown(t)
    \/ AdvertiseName(t) \/ AdvertiseFind(t) \/ AdvertiseConnect(t) \/ AdvertiseRegister(t)
    \/ UnadvertiseRemove(t) \/ UnadvertiseDrop(t)
    \/ SubscribeFail(t) \/ SubscribeFind(t) \/ SubscribeConnect(t)
    \/ UnsubscribeRemove(t) \/ UnsubscribeCheck(t) \/ UnsubscribeErase(t)
    \/ UnsubscribeShutdown(t)
    \/ ShutdownFlag(t) \/ ShutdownPubs(t) \/ ShutdownSubs(t)

Spec == Init /\ [][Next]_vars

\* A thread inside an operation goes on: its locks are fair and the master answers.
FairSpec == Spec /\ \A t \in Threads : WF_vars(Progress(t))

-----------------------------------------------------------------------------
(* Properties. *)

PCs == {"idle", "adv_names", "adv_find", "adv_connect", "adv_register", "unadv_remove",
        "unadv_drop", "sub_find", "sub_fail", "sub_connect", "unsub_remove",
        "unsub_check", "unsub_erase", "unsub_shutdown", "down_flag", "down_pubs",
        "down_subs"}

TypeOK ==
  /\ handle \in [Handles -> {"new", "opening", "open", "closing", "closed"}]
  /\ advertised \subseteq 1..newPub /\ newPub \in 0..MaxPubs /\ names \in Nat
  /\ pubCbs \in [PubIds -> SUBSET Publishers] /\ pubDropped \in [PubIds -> BOOLEAN]
  /\ subscriptions \subseteq 1..newSub /\ newSub \in 0..MaxSubs
  /\ subCbs \in [SubIds -> SUBSET Subscribers] /\ subDropped \in [SubIds -> BOOLEAN]
  /\ subLinks \in [SubIds -> [PubIds -> Nat]] /\ pubLinks \in [PubIds -> [SubIds -> Nat]]
  /\ pubType \in [PubIds -> Types \cup {NoHandle}] /\ subType \in [SubIds -> Types \cup {NoHandle}]
  /\ regPub \in BOOLEAN /\ regSub \in BOOLEAN /\ shuttingDown \in BOOLEAN
  /\ advLock \in Threads \cup {NoThread} /\ subsLock \in Threads \cup {NoThread}
  /\ pc \in [Threads -> PCs] /\ cur \in [Threads -> Handles \cup {NoHandle}]
  /\ pub \in [Threads -> 0..MaxPubs] /\ sub \in [Threads -> 0..MaxSubs]
  /\ stale \in [Threads -> BOOLEAN] /\ lapses \subseteq Lapses

Idle == \A t \in Threads : pc[t] = "idle"

\* "This call connects to the master to publicize that the node will be publishing
\* messages on the given topic": between operations, with a Publisher open.
PublisherOpen == Idle /\ ~shuttingDown /\ \E h \in Publishers : handle[h] = "open"

\* "allows you to publish a message on this topic": whenever the owner of an open
\* Publisher calls publish, lookupPublicationWithoutLock finds a Publication, which
\* publish dereferences without a test.
PublishFindsPublication ==
  \A h \in Publishers :
    handle[h] = "open" /\ pc[Owner[h]] = "idle" /\ AdvFree /\ ~shuttingDown => Lookup # 0

\* "The node will automatically be connected with publishers on this topic.  On each
\* message receipt, fp is invoked": an open Subscriber belongs to a subscription
\* that is listed, not dropped and registered.
SubscriberServed ==
  \A h \in Subscribers : handle[h] = "open" /\ ~shuttingDown =>
    regSub /\ \E s \in subscriptions : h \in subCbs[s] /\ ~subDropped[s]

\* The node's own publication and subscription, when their types match, are
\* connected: advertise and subscribe, each looking for the other's object, do not
\* both miss it.
LocalConnected ==
  Idle => \A p \in advertised, s \in subscriptions :
            ~pubDropped[p] /\ ~subDropped[s] /\ Match(subType[s], pubType[p])
              => subLinks[s][p] > 0 /\ pubLinks[p][s] > 0

\* Every publication is dropped and no intraprocess link is left.
NothingLinked ==
  /\ \A s \in SubIds : \A p \in PubIds : subLinks[s][p] = 0 /\ pubLinks[p][s] = 0
  /\ \A p \in 1..newPub : pubDropped[p]

\* "Disconnects everything": once shutdown is over, nothing is listed, and whatever
\* operation it interrupted leaves no publication, subscription or link behind; only
\* what unadvertise has erased through an invalid iterator shutdown does not find.
EverythingDropped ==
  Idle /\ shuttingDown =>
    /\ advertised = {} /\ subscriptions = {}
    /\ NothingLinked \/ "staleErase" \in lapses

\* A Subscriber that is open is served: subscriptions_ has its subscription with
\* its callback, connected to the publication of the node itself.
SubscribersServed == LocalConnected /\ SubscriberServed

\* What the master has registered, what is in advertised_topics_ and subscriptions_
\* and which handles are open belong together, whichever threads own the handles
\* and however advertise, unadvertise, subscribe, unsubscribe and shutdown
\* interleave, until one of the lapses happens, each of which excuses only what
\* follows from it: an unadvertise that has erased through an invalid iterator
\* (undefined behaviour: everything about publications), an unsubscribe that has
\* erased a subscription another thread had joined or made (what serves that
\* thread's Subscriber), and an answer of the master, until it is told the contrary,
\* only its own list.  The stray registrations would make it go on sending
\* publisherUpdate, and other nodes would try to connect.
RegistrationsMatch ==
  /\ "staleErase" \notin lapses =>
       /\ PublisherOpen => names > 0 /\ (regPub \/ "unlisted" \in lapses)
       /\ PublishFindsPublication
       /\ Idle /\ ~shuttingDown /\ regPub =>
            (\E p \in advertised : ~pubDropped[p]) \/ "strayPub" \in lapses
  /\ "lateJoin" \notin lapses => SubscriberServed
  /\ Idle /\ ~shuttingDown /\ regSub => subscriptions # {} \/ "straySub" \in lapses

\* subscribe keeps subs_mutex_ and waits for advertised_topics_mutex_, shutdown the
\* other way round.
LockInversion ==
  \E t, u \in Threads :
    pc[t] = "sub_find" /\ subsLock = t /\ pc[u] = "down_flag" /\ advLock = u

\* Every operation returns, also a shutdown in the middle of the others, except in
\* the lock inversion of subscribe and shutdown: no other wait of one operation for
\* another closes a circle.
OperationsReturn ==
  \A t \in Threads : pc[t] # "idle" ~> (pc[t] = "idle" \/ LockInversion)

\* A shutdown at any point of another thread's operation leaves lists and iterators
\* well-formed, nothing in them and nothing linked.
ShutdownClean == TypeOK /\ EverythingDropped
=============================================================================
