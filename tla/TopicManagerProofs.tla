------------------------- MODULE TopicManagerProofs -------------------------
(***************************************************************************)
(* Theorems about TopicManager, for any number of threads, handles, types  *)
(* and objects.                                                            *)
(*                                                                         *)
(* ControlCorrect (threads, locks and lists stay well-formed) and          *)
(* RegistrationsFollowHandles need no hypothesis: the second one is about  *)
(* any threads, a master that may fail and all the lapses the history      *)
(* variable names.                                                         *)
(*                                                                         *)
(* The other two are for a program whose publishers belong to one thread   *)
(* and whose subscribers belong to one thread, the same or another, with   *)
(* any threads calling shutdown (OneThreadEach): with two publisher        *)
(* threads an unadvertise may erase through an iterator that the other one *)
(* made stale, and a publication is lost.  ShutdownIsClean then holds for  *)
(* all types and all failures of the master; OpenSubscribersAreServed is   *)
(* for types that match and a master that answers (Ordinary), as a refused *)
(* registration or a publication of another type makes subscribe fail.     *)
(***************************************************************************)
EXTENDS TopicManager, FiniteSetTheorems, TLAPS

\* Where a thread is inside advertise or unadvertise, subscribe, unsubscribe, shutdown.
PubPCs == {"adv_names", "adv_find", "adv_connect", "adv_register", "unadv_remove", "unadv_drop"}
SubscribePCs == {"sub_find", "sub_fail", "sub_connect"}
UnsubPCs == {"unsub_remove", "unsub_check", "unsub_erase", "unsub_shutdown"}
DownPCs == {"down_flag", "down_pubs", "down_subs"}

\* The threads that have a Publisher or a Subscriber.
PubThread(t) == \E h \in Publishers : Owner[h] = t
SubThread(t) == \E h \in Subscribers : Owner[h] = t

-----------------------------------------------------------------------------
(* Numbers, lookups and links                                              *)

\* A set of numbers that is not empty has a smallest one: its initial segments
\* are well-founded by inclusion.
LEMMA LeastNumber ==
  ASSUME NEW T, T \subseteq Nat, T # {}
  PROVE  Min(T) \in T /\ \A y \in T : Min(T) <= y
<1> DEFINE W == {1..n : n \in T}
           R == StrictSubsetOrdering(Nat)
<1>1. IsWellFoundedOn(R, FiniteSubsetsOf(Nat))
  BY FS_StrictSubsetOrderingWellFounded
<1>2. W \subseteq FiniteSubsetsOf(Nat) /\ W # {}
  <2>1. ASSUME NEW n \in T PROVE 1..n \in FiniteSubsetsOf(Nat)
    <3>1. n \in Int /\ 1 \in Int /\ 1..n \in SUBSET Nat
      OBVIOUS
    <3>2. IsFiniteSet(1..n)
      BY <3>1, FS_Interval
    <3> QED BY <3>1, <3>2 DEF FiniteSubsetsOf
  <2> QED BY <2>1
<1> HIDE DEF W, R
<1>3. PICK w \in W : \A v \in W : ~ (<<v, w>> \in R)
  BY <1>1, <1>2, WFMin
<1>4. PICK x \in T : w = 1..x
  BY DEF W
<1>5. ASSUME NEW y \in T, ~(x <= y) PROVE FALSE
  <2>1. 1..y \in W /\ 1..y \subseteq 1..x /\ x \in 1..x /\ x \notin 1..y
    BY <1>5 DEF W
  <2>2. <<1..y, w>> \in R
    BY <2>1, <1>4, <1>5 DEF R, StrictSubsetOrdering
  <2> QED BY <2>1, <2>2, <1>3
<1> QED BY <1>5 DEF Min
\* The first element of a set of numbers, 0 when there is none.
LEMMA FirstFacts ==
  ASSUME NEW n \in Nat, NEW S, S \subseteq 1..n
  PROVE  /\ First(S) \in S \cup {0}
         /\ First(S) = 0 <=> S = {}
         /\ First(S) \in 0..n
<1>1. CASE S = {}
  BY <1>1 DEF First
<1>2. CASE S # {}
  <2>1. First(S) = Min(S)
    BY <1>2 DEF First
  <2>2. S \subseteq Nat /\ 0 \notin S
    OBVIOUS
  <2>3. First(S) \in S
    BY <1>2, <2>1, <2>2, LeastNumber
  <2>4. First(S) \in 1..n
    BY <2>3
  <2> QED BY <1>2, <2>3, <2>4
<1> QED BY <1>1, <1>2

USE TopicManagerAssumption

\* The types, in four groups and the lapses.
TypePub ==
  /\ advertised \subseteq 1..newPub /\ newPub \in 0..MaxPubs /\ names \in Nat
  /\ pubCbs \in [PubIds -> SUBSET Publishers] /\ pubDropped \in [PubIds -> BOOLEAN]
  /\ pubType \in [PubIds -> Types \cup {NoHandle}]

TypeSub ==
  /\ subscriptions \subseteq 1..newSub /\ newSub \in 0..MaxSubs
  /\ subCbs \in [SubIds -> SUBSET Subscribers] /\ subDropped \in [SubIds -> BOOLEAN]
  /\ subType \in [SubIds -> Types \cup {NoHandle}]

TypeLinks ==
  subLinks \in [SubIds -> [PubIds -> Nat]] /\ pubLinks \in [PubIds -> [SubIds -> Nat]]

TypeThreads ==
  /\ handle \in [Handles -> {"new", "opening", "open", "closing", "closed"}]
  /\ regPub \in BOOLEAN /\ regSub \in BOOLEAN /\ shuttingDown \in BOOLEAN
  /\ advLock \in Threads \cup {NoThread} /\ subsLock \in Threads \cup {NoThread}
  /\ pc \in [Threads -> PCs] /\ cur \in [Threads -> Handles \cup {NoHandle}]
  /\ pub \in [Threads -> 0..MaxPubs] /\ sub \in [Threads -> 0..MaxSubs]
  /\ stale \in [Threads -> BOOLEAN]

\* Together they are TypeOK.
LEMMA TypeGroups ==
  TypeOK <=> TypePub /\ TypeSub /\ TypeLinks /\ TypeThreads /\ lapses \subseteq Lapses
BY DEF TypeOK, TypePub, TypeSub, TypeLinks, TypeThreads

\* The publication a lookup finds is listed and not dropped, and is found if there
\* is one.
LEMMA PubLookups ==
  ASSUME TypePub
  PROVE  /\ Lookup \in 0..newPub
         /\ Lookup # 0 => Lookup \in advertised /\ ~pubDropped[Lookup]
         /\ (\E p \in advertised : ~pubDropped[p]) => Lookup # 0
         /\ Reusable \in {0, Lookup}
         /\ Reusable # 0 => pubCbs[Lookup] # {}
         /\ Reusable = 0 /\ Lookup # 0 => pubCbs[Lookup] = {}
<1> DEFINE L == {p \in advertised : ~pubDropped[p]}
           R == {p \in {Lookup} \ {0} : pubCbs[p] # {}}
<1>0. newPub \in Nat /\ advertised \subseteq 1..newPub
  BY DEF TypePub
<1>1. newPub \in Nat /\ L \subseteq 1..newPub
  BY <1>0
<1>2. Lookup \in L \cup {0} /\ (Lookup = 0 <=> L = {}) /\ Lookup \in 0..newPub
  BY <1>1, FirstFacts DEF Lookup
<1>3. R \subseteq 1..newPub
  BY <1>1, <1>2
<1>4. Reusable \in R \cup {0} /\ (Reusable = 0 <=> R = {})
  BY <1>1, <1>3, FirstFacts DEF Reusable
<1> QED BY <1>2, <1>4

\* So for the subscription subscribe joins, and the first one listed.
LEMMA SubLookups ==
  ASSUME TypeSub
  PROVE  /\ LiveSubscription \in 0..newSub
         /\ LiveSubscription # 0 =>
              LiveSubscription \in subscriptions /\ ~subDropped[LiveSubscription]
         /\ (\E s \in subscriptions : ~subDropped[s]) => LiveSubscription # 0
         /\ First(subscriptions) \in 0..newSub
         /\ subscriptions # {} => First(subscriptions) \in subscriptions
<1> DEFINE L == {s \in subscriptions : ~subDropped[s]}
<1>0. newSub \in Nat /\ subscriptions \subseteq 1..newSub
  BY DEF TypeSub
<1>1. newSub \in Nat /\ L \subseteq 1..newSub /\ subscriptions \subseteq 1..newSub
  BY <1>0
<1>2. /\ LiveSubscription \in L \cup {0} /\ (LiveSubscription = 0 <=> L = {})
      /\ LiveSubscription \in 0..newSub
  BY <1>1, FirstFacts DEF LiveSubscription
<1>3. /\ First(subscriptions) \in subscriptions \cup {0}
      /\ First(subscriptions) = 0 <=> subscriptions = {}
      /\ First(subscriptions) \in 0..newSub
  BY <1>1, FirstFacts
<1> QED BY <1>2, <1>3

\* So for the subscription advertise connects to.
LEMMA MatchingLookup ==
  ASSUME TypeSub, NEW p
  PROVE  /\ MatchingSubscription(p) \in 0..newSub
         /\ MatchingSubscription(p) # 0 => MatchingSubscription(p) \in subscriptions
         /\ (\E s \in subscriptions : ~subDropped[s] /\ Match(subType[s], pubType[p]))
              => MatchingSubscription(p) # 0
<1> DEFINE M == {s \in subscriptions : ~subDropped[s] /\ Match(subType[s], pubType[p])}
<1>0. newSub \in Nat /\ subscriptions \subseteq 1..newSub
  BY DEF TypeSub
<1>1. newSub \in Nat /\ M \subseteq 1..newSub
  BY <1>0
<1>2. /\ MatchingSubscription(p) \in M \cup {0} /\ (MatchingSubscription(p) = 0 <=> M = {})
      /\ MatchingSubscription(p) \in 0..newSub
  BY <1>1, FirstFacts DEF MatchingSubscription
<1> QED BY <1>2

\* A local connection adds one link, and to a dropped publication half of one.
LEMMA ConnectEffect ==
  ASSUME TypePub, TypeSub, TypeLinks, NEW s \in 0..newSub, NEW p \in 0..newPub,
         AddLocalConnection(s, p)
  PROVE  /\ TypeLinks'
         /\ \A x \in SubIds, y \in PubIds :
              /\ subLinks'[x][y] >= subLinks[x][y] /\ pubLinks'[y][x] >= pubLinks[y][x]
              /\ subLinks'[x][y] > 0 => subLinks[x][y] > 0 \/ (x = s /\ y = p /\ ~subDropped[s])
              /\ pubLinks'[y][x] > 0 => pubLinks[y][x] > 0 \/ (x = s /\ y = p /\ ~pubDropped[p])
         /\ s # 0 /\ p # 0 /\ ~subDropped[s] =>
              subLinks'[s][p] > 0 /\ (~pubDropped[p] => pubLinks'[p][s] > 0)
<1>1. CASE s = 0 \/ p = 0 \/ subDropped[s]
  BY <1>1 DEF AddLocalConnection, linkvars, TypeLinks
<1>2. CASE ~(s = 0 \/ p = 0 \/ subDropped[s])
  <2>1. s \in SubIds /\ p \in PubIds
    BY <1>2 DEF TypePub, TypeSub, SubIds, PubIds
  <2>2. /\ subLinks' = [subLinks EXCEPT ![s][p] = @ + 1]
        /\ pubLinks' = IF pubDropped[p] THEN pubLinks ELSE [pubLinks EXCEPT ![p][s] = @ + 1]
    BY <1>2 DEF AddLocalConnection
  <2>3. /\ subLinks' \in [SubIds -> [PubIds -> Nat]]
        /\ subLinks'[s][p] = subLinks[s][p] + 1 /\ subLinks[s][p] \in Nat
        /\ \A x \in SubIds, y \in PubIds : x # s \/ y # p => subLinks'[x][y] = subLinks[x][y]
    BY <2>1, <2>2 DEF TypeLinks
  <2>4. /\ pubLinks' \in [PubIds -> [SubIds -> Nat]]
        /\ ~pubDropped[p] => pubLinks'[p][s] = pubLinks[p][s] + 1
        /\ pubDropped[p] => pubLinks' = pubLinks
        /\ pubLinks[p][s] \in Nat
        /\ \A x \in SubIds, y \in PubIds : x # s \/ y # p => pubLinks'[y][x] = pubLinks[y][x]
    BY <2>1, <2>2 DEF TypeLinks
  <2>5. \A x \in SubIds, y \in PubIds : subLinks[x][y] \in Nat /\ pubLinks[y][x] \in Nat
    BY DEF TypeLinks
  <2> QED BY <1>2, <2>1, <2>3, <2>4, <2>5 DEF TypeLinks
<1> QED BY <1>1, <1>2

\* It also settles the type of a subscription to any type.
LEMMA ConnectType ==
  ASSUME NEW s \in 0..newSub, NEW p, AddLocalConnection(s, p)
  PROVE  \/ UNCHANGED subType
         \/ p # 0 /\ s # 0 /\ subType' = [subType EXCEPT ![s] = pubType[p]]
BY DEF AddLocalConnection, Decayed, linkvars

\* Dropping removes the links on both sides, and no others.
LEMMA DropPubEffect ==
  ASSUME TypeLinks, NEW P, DropPubLinks(P)
  PROVE  /\ TypeLinks'
         /\ \A x \in SubIds, y \in PubIds :
              /\ pubLinks'[y][x] = IF y \in P THEN 0 ELSE pubLinks[y][x]
              /\ subLinks'[x][y] \in {0, subLinks[x][y]}
              /\ y \notin P => subLinks'[x][y] = subLinks[x][y]
BY DEF TypeLinks, DropPubLinks

\* So when a subscription drops its links.
LEMMA DropSubEffect ==
  ASSUME TypeLinks, NEW S, DropSubLinks(S)
  PROVE  /\ TypeLinks'
         /\ \A x \in SubIds, y \in PubIds :
              /\ subLinks'[x][y] = IF x \in S THEN 0 ELSE subLinks[x][y]
              /\ pubLinks'[y][x] \in {0, pubLinks[y][x]}
              /\ x \notin S => pubLinks'[y][x] = pubLinks[y][x]
BY DEF TypeLinks, DropSubLinks

-----------------------------------------------------------------------------
(* Where the threads are                                                   *)

\* A thread in a call works on objects that exist, for a handle that is its own.
CallsInv ==
  \A t \in Threads :
    /\ pc[t] \in PubPCs => pub[t] \in 1..newPub /\ PubThread(t)
    /\ pc[t] \in SubscribePCs \cup UnsubPCs => sub[t] \in 1..newSub /\ SubThread(t)
    /\ pc[t] = "adv_connect" => sub[t] \in 0..newSub
    /\ pc[t] = "sub_connect" => pub[t] \in 0..newPub

\* Who holds the mutexes between two steps, and that one thread shuts down.
LocksInv ==
  \A t \in Threads : /\ advLock = t <=> pc[t] = "down_flag"
                     /\ subsLock = t <=> pc[t] \in SubscribePCs

DownInv ==
  /\ \A t, u \in Threads : pc[t] \in DownPCs /\ pc[u] \in DownPCs => t = u
  /\ \A t \in Threads : pc[t] \in DownPCs => (shuttingDown <=> pc[t] # "down_flag")
  /\ shuttingDown => subsLock = NoThread

\* The control state, whatever the threads and the types.
ControlInv == TypeOK /\ CallsInv /\ LocksInv /\ DownInv

\* The publications keep their type.
LEMMA PubTypes == ControlInv /\ [Next]_vars => TypePub'
<1> SUFFICES ASSUME ControlInv, [Next]_vars PROVE TypePub'
  OBVIOUS
<1>1. TypePub
  BY TypeGroups DEF ControlInv
<1>2. CASE UNCHANGED <<pubvars, names>>
  BY <1>1, <1>2 DEF TypePub, pubvars
<1>3. ASSUME NEW t \in Threads, NEW h \in Handles, Advertise(t, h) PROVE TypePub'
  <2>1. CASE UNCHANGED pubvars
    BY <1>2, <1>3, <2>1 DEF Advertise
  <2>2. CASE Reusable # 0 /\ pubCbs' = [pubCbs EXCEPT ![Reusable] = @ \cup {h}]
    <3>1. UNCHANGED <<advertised, pubDropped, pubType, newPub, names>> \/ UNCHANGED pubvars
      BY <1>3, <2>2 DEF Advertise
    <3> QED BY <1>1, <1>3, <2>1, <2>2, <3>1, PubLookups DEF TypePub, PubIds, Advertise
  <2>3. CASE /\ newPub < MaxPubs /\ newPub' = newPub + 1
             /\ pubType' = [pubType EXCEPT ![newPub + 1] = Type[h]]
             /\ pubCbs' = [pubCbs EXCEPT ![newPub + 1] = {h}]
             /\ advertised' = advertised \cup {newPub + 1}
             /\ UNCHANGED pubDropped
    <3>1. newPub + 1 \in PubIds /\ Type[h] \in Types /\ h \in Publishers /\ UNCHANGED names
      BY <1>1, <1>3, <2>3 DEF TypePub, PubIds, Types, Advertise
    <3>2. newPub' \in 0..MaxPubs
      BY <1>1, <2>3 DEF TypePub
    <3>3. advertised' \subseteq 1..newPub'
      <4>1. newPub \in Nat /\ advertised \subseteq 1..newPub
        BY <1>1 DEF TypePub
      <4> QED BY <2>3, <4>1
    <3> QED BY <1>1, <2>3, <3>1, <3>2, <3>3 DEF TypePub
  <2> QED BY <1>3, <2>1, <2>2, <2>3 DEF Advertise
<1>4. ASSUME NEW t \in Threads, AdvertiseName(t) PROVE TypePub'
  BY <1>1, <1>4 DEF AdvertiseName, TypePub, pubvars
<1>5. ASSUME NEW t \in Threads, UnadvertiseRemove(t) PROVE TypePub'
  BY <1>1, <1>5 DEF UnadvertiseRemove, TypePub
<1>6. ASSUME NEW t \in Threads, UnadvertiseDrop(t) PROVE TypePub'
  <2>1. advertised' \subseteq advertised
    BY <1>6 DEF UnadvertiseDrop, Erased
  <2>2. pubDropped' \in [PubIds -> BOOLEAN]
    BY <1>1, <1>6 DEF UnadvertiseDrop, TypePub
  <2>3. names' \in Nat
    BY <1>1, <1>6 DEF UnadvertiseDrop, TypePub
  <2> QED BY <1>1, <1>6, <2>1, <2>2, <2>3 DEF UnadvertiseDrop, TypePub
<1>7. ASSUME NEW t \in Threads, ShutdownPubs(t) PROVE TypePub'
  BY <1>1, <1>7 DEF ShutdownPubs, TypePub
<1>8. ASSUME NEW t \in Threads, NEW h,
             \/ AdvertiseFind(t) \/ AdvertiseConnect(t) \/ AdvertiseRegister(t)
             \/ Unadvertise(t, h) \/ Shutdown(t) \/ ShutdownFlag(t) \/ ShutdownSubs(t)
      PROVE  UNCHANGED <<pubvars, names>>
  BY <1>8 DEF AdvertiseFind, AdvertiseConnect, AdvertiseRegister, Unadvertise, Shutdown,
              ShutdownFlag, ShutdownSubs
<1>9. ASSUME NEW t \in Threads, NEW h,
             \/ Subscribe(t, h) \/ SubscribeFail(t) \/ SubscribeFind(t) \/ SubscribeConnect(t)
             \/ Unsubscribe(t, h) \/ UnsubscribeRemove(t) \/ UnsubscribeCheck(t)
             \/ UnsubscribeErase(t) \/ UnsubscribeShutdown(t)
      PROVE  UNCHANGED <<pubvars, names>>
  BY <1>9 DEF Subscribe, SubscribeFail, SubscribeFind, SubscribeConnect, Unsubscribe,
              UnsubscribeRemove, UnsubscribeCheck, UnsubscribeErase, UnsubscribeShutdown
<1> QED
  BY <1>2, <1>3, <1>4, <1>5, <1>6, <1>7, <1>8, <1>9 DEF Next, vars, pubvars

\* The subscriptions keep their type.
LEMMA SubTypes == ControlInv /\ [Next]_vars => TypeSub'
<1> SUFFICES ASSUME ControlInv, [Next]_vars PROVE TypeSub'
  OBVIOUS
<1>1. TypeSub
  BY TypeGroups DEF ControlInv
<1>2. CASE UNCHANGED subvars
  BY <1>1, <1>2 DEF TypeSub, subvars
<1>3. ASSUME NEW t \in Threads, NEW h \in Handles, Subscribe(t, h) PROVE TypeSub'
  <2>1. CASE UNCHANGED <<subCbs, subType, newSub>>
    BY <1>2, <1>3, <2>1 DEF Subscribe, subvars
  <2>2. CASE /\ LiveSubscription # 0 /\ UNCHANGED newSub
             /\ subType' = Decayed(LiveSubscription, Type[h])
             /\ subCbs' = [subCbs EXCEPT ![LiveSubscription] = @ \cup {h}]
    <3>1. subType' \in [SubIds -> Types \cup {NoHandle}]
      BY <1>1, <2>2 DEF TypeSub, Decayed, Types
    <3>2. subCbs' \in [SubIds -> SUBSET Subscribers]
      BY <1>1, <1>3, <2>2, SubLookups DEF TypeSub, SubIds, Subscribe
    <3> QED BY <1>1, <1>3, <2>2, <3>1, <3>2 DEF TypeSub, Subscribe
  <2>3. CASE /\ newSub < MaxSubs /\ newSub' = newSub + 1
             /\ subCbs' = [subCbs EXCEPT ![newSub + 1] = {h}]
             /\ subType' = [subType EXCEPT ![newSub + 1] = Type[h]]
    <3>1. /\ newSub + 1 \in SubIds /\ Type[h] \in Types /\ h \in Subscribers
          /\ UNCHANGED <<subscriptions, subDropped>>
      BY <1>1, <1>3, <2>3 DEF TypeSub, SubIds, Types, Subscribe
    <3>2. newSub' \in 0..MaxSubs /\ subscriptions' \subseteq 1..newSub'
      BY <1>1, <2>3, <3>1 DEF TypeSub
    <3> QED BY <1>1, <2>3, <3>1, <3>2 DEF TypeSub
  <2> QED BY <1>3, <2>1, <2>2, <2>3 DEF Subscribe
<1>4. ASSUME NEW t \in Threads, SubscribeFail(t) \/ UnsubscribeShutdown(t) PROVE TypeSub'
  BY <1>1, <1>4 DEF SubscribeFail, UnsubscribeShutdown, TypeSub
<1>5. ASSUME NEW t \in Threads, SubscribeConnect(t) PROVE TypeSub'
  <2>1. sub[t] \in 1..newSub
    BY <1>5 DEF SubscribeConnect, ControlInv, CallsInv, SubscribePCs
  <2>2. pub[t] \in 0..newPub /\ TypePub
    BY <1>5, TypeGroups DEF SubscribeConnect, ControlInv, CallsInv
  <2>3. subType' \in [SubIds -> Types \cup {NoHandle}]
    <3>1. /\ sub[t] \in 0..newSub /\ AddLocalConnection(sub[t], pub[t])
          /\ pub[t] # 0 => pub[t] \in PubIds
      BY <1>1, <1>5, <2>1, <2>2 DEF SubscribeConnect, TypeSub, TypePub, PubIds
    <3>2. \/ UNCHANGED subType
          \/ pub[t] # 0 /\ subType' = [subType EXCEPT ![sub[t]] = pubType[pub[t]]]
      BY <3>1, ConnectType
    <3> QED BY <1>1, <2>1, <2>2, <3>1, <3>2 DEF TypeSub, TypePub
  <2> QED BY <1>1, <1>5, <2>1, <2>3 DEF SubscribeConnect, TypeSub
<1>6. ASSUME NEW t \in Threads, UnsubscribeRemove(t) \/ UnsubscribeErase(t) PROVE TypeSub'
  <2>1. subscriptions' \subseteq subscriptions
    BY <1>6 DEF UnsubscribeRemove, UnsubscribeErase
  <2>2. subCbs' \in [SubIds -> SUBSET Subscribers]
    BY <1>1, <1>6 DEF UnsubscribeRemove, UnsubscribeErase, TypeSub
  <2> QED BY <1>1, <1>6, <2>1, <2>2 DEF UnsubscribeRemove, UnsubscribeErase, TypeSub
<1>7. ASSUME NEW t \in Threads, ShutdownSubs(t) PROVE TypeSub'
  BY <1>1, <1>7 DEF ShutdownSubs, TypeSub
<1>8. ASSUME NEW t \in Threads, NEW h,
             \/ Advertise(t, h) \/ AdvertiseName(t) \/ AdvertiseFind(t)
             \/ AdvertiseRegister(t) \/ Unadvertise(t, h) \/ UnadvertiseRemove(t)
             \/ UnadvertiseDrop(t)
      PROVE  UNCHANGED subvars
  BY <1>8 DEF Advertise, AdvertiseName, AdvertiseFind, AdvertiseRegister,
              Unadvertise, UnadvertiseRemove, UnadvertiseDrop
<1>9. ASSUME NEW t \in Threads, NEW h,
             \/ SubscribeFind(t) \/ Unsubscribe(t, h) \/ UnsubscribeCheck(t)
             \/ Shutdown(t) \/ ShutdownFlag(t) \/ ShutdownPubs(t)
      PROVE  UNCHANGED subvars
  BY <1>9 DEF SubscribeFind, Unsubscribe, UnsubscribeCheck, Shutdown, ShutdownFlag, ShutdownPubs
<1>10. ASSUME NEW t \in Threads, AdvertiseConnect(t) PROVE TypeSub'
  <2>1. sub[t] \in 0..newSub /\ pub[t] \in 1..newPub /\ TypePub
    BY <1>10, TypeGroups DEF AdvertiseConnect, ControlInv, CallsInv, PubPCs
  <2>2. subType' \in [SubIds -> Types \cup {NoHandle}]
    <3>1. /\ sub[t] \in 0..newSub /\ AddLocalConnection(sub[t], pub[t])
          /\ pub[t] # 0 => pub[t] \in PubIds
      BY <1>1, <1>10, <2>1 DEF AdvertiseConnect, TypeSub, TypePub, PubIds
    <3>2. \/ UNCHANGED subType
          \/ pub[t] # 0 /\ subType' = [subType EXCEPT ![sub[t]] = pubType[pub[t]]]
      BY <3>1, ConnectType
    <3> QED BY <1>1, <2>1, <3>1, <3>2 DEF TypeSub, TypePub
  <2> QED BY <1>1, <1>10, <2>2 DEF AdvertiseConnect, TypeSub
<1> QED
  BY <1>2, <1>3, <1>4, <1>5, <1>6, <1>7, <1>8, <1>9, <1>10 DEF Next, vars, subvars

\* The links keep their type.
LEMMA LinkTypes == ControlInv /\ [Next]_vars => TypeLinks'
<1> SUFFICES ASSUME ControlInv, [Next]_vars PROVE TypeLinks'
  OBVIOUS
<1>1. TypePub /\ TypeSub /\ TypeLinks
  BY TypeGroups DEF ControlInv
<1>2. CASE UNCHANGED linkvars
  BY <1>1, <1>2 DEF TypeLinks, linkvars
<1>3. ASSUME NEW t \in Threads, AdvertiseConnect(t) \/ SubscribeConnect(t) PROVE TypeLinks'
  <2>1. pub[t] \in 0..newPub /\ sub[t] \in 0..newSub
    BY <1>1, <1>3 DEF AdvertiseConnect, SubscribeConnect, ControlInv, CallsInv, PubPCs,
                      SubscribePCs, TypePub, TypeSub
  <2> QED BY <1>1, <1>3, <2>1, ConnectEffect DEF AdvertiseConnect, SubscribeConnect
<1>4. ASSUME NEW t \in Threads,
             UnadvertiseDrop(t) \/ ShutdownPubs(t) \/ UnsubscribeShutdown(t) \/ ShutdownSubs(t)
      PROVE  TypeLinks'
  BY <1>1, <1>2, <1>4, DropPubEffect, DropSubEffect
  DEF UnadvertiseDrop, ShutdownPubs, UnsubscribeShutdown, ShutdownSubs, linkvars
<1> QED
  BY <1>2, <1>3, <1>4
  DEF Next, vars, linkvars, Advertise, AdvertiseName, AdvertiseFind, AdvertiseRegister,
      Unadvertise, UnadvertiseRemove, Subscribe, SubscribeFail, SubscribeFind, Unsubscribe,
      UnsubscribeRemove, UnsubscribeCheck, UnsubscribeErase, Shutdown, ShutdownFlag

\* The control state keeps its type.
LEMMA ThreadTypes == ControlInv /\ [Next]_vars => TypeThreads'
<1> SUFFICES ASSUME ControlInv, [Next]_vars PROVE TypeThreads'
  OBVIOUS
<1>a. TypePub /\ TypeSub /\ TypeThreads
  BY TypeGroups DEF ControlInv
<1>0. CASE UNCHANGED vars
  BY <1>0, <1>a DEF vars, TypeThreads
<1>1. ASSUME NEW t \in Threads, NEW h \in Handles, Advertise(t, h) PROVE TypeThreads'
  <2>1. CASE UNCHANGED <<pc, cur, pub, stale>>
    BY <1>1, <1>a, <2>1 DEF Advertise, mastervars, lockvars, TypeThreads
  <2>2. CASE Begin(t, h, "adv_names")
    <3>1. pc' \in [Threads -> PCs] /\ cur' \in [Threads -> Handles \cup {NoHandle}]
      BY <1>a, <2>2 DEF Begin, Goto, TypeThreads, PCs
    <3>2. pub' \in [Threads -> 0..MaxPubs]
      BY <1>1, <1>a, <2>1 DEF Advertise, TypeThreads, TypePub
    <3>3. stale' \in [Threads -> BOOLEAN]
      BY <1>1, <1>a DEF Advertise, VectorChanged, TypeThreads
    <3>4. handle' \in [Handles -> {"new", "opening", "open", "closing", "closed"}]
      BY <1>1, <1>a DEF Advertise, TypeThreads
    <3> QED BY <1>1, <1>a, <3>1, <3>2, <3>3, <3>4 DEF Advertise, mastervars, lockvars, TypeThreads
  <2> QED BY <1>1, <2>1, <2>2 DEF Advertise
<1>2. ASSUME NEW t \in Threads, AdvertiseName(t) PROVE TypeThreads'
  BY <1>2, <1>a DEF AdvertiseName, Goto, mastervars, lockvars, locals, TypeThreads, PCs,
      TypePub, TypeSub
<1>3. ASSUME NEW t \in Threads, AdvertiseFind(t) PROVE TypeThreads'
  BY <1>3, <1>a, MatchingLookup DEF AdvertiseFind, Goto, mastervars, lockvars, TypeThreads,
      PCs, TypePub, TypeSub
<1>4. ASSUME NEW t \in Threads, AdvertiseConnect(t) PROVE TypeThreads'
  BY <1>4, <1>a DEF AdvertiseConnect, Goto, mastervars, lockvars, locals, TypeThreads, PCs,
      TypePub, TypeSub
<1>5. ASSUME NEW t \in Threads, AdvertiseRegister(t) PROVE TypeThreads'
  BY <1>5, <1>a DEF AdvertiseRegister, Goto, End, Registered, lockvars, locals, TypeThreads,
      PCs, TypePub, TypeSub
<1>6. ASSUME NEW t \in Threads, NEW h \in Handles, Unadvertise(t, h) PROVE TypeThreads'
  <2>1. CASE UNCHANGED <<pc, cur, pub, stale>>
    BY <1>6, <1>a, <2>1 DEF Unadvertise, mastervars, lockvars, TypeThreads
  <2>2. CASE Begin(t, h, "unadv_remove")
    <3>1. pc' \in [Threads -> PCs] /\ cur' \in [Threads -> Handles \cup {NoHandle}]
      BY <1>a, <2>2 DEF Begin, Goto, TypeThreads, PCs
    <3>2. pub' \in [Threads -> 0..MaxPubs]
      BY <1>6, <1>a, PubLookups DEF Unadvertise, TypeThreads, TypePub
    <3>3. stale' \in [Threads -> BOOLEAN]
      BY <1>6, <1>a DEF Unadvertise, TypeThreads
    <3>4. handle' \in [Handles -> {"new", "opening", "open", "closing", "closed"}]
      BY <1>6, <1>a DEF Unadvertise, TypeThreads
    <3> QED BY <1>6, <1>a, <3>1, <3>2, <3>3, <3>4 DEF Unadvertise, mastervars, lockvars, TypeThreads
  <2> QED BY <1>6, <2>1, <2>2 DEF Unadvertise
<1>7. ASSUME NEW t \in Threads, UnadvertiseRemove(t) PROVE TypeThreads'
  BY <1>7, <1>a DEF UnadvertiseRemove, Goto, mastervars, lockvars, locals, TypeThreads, PCs,
      TypePub, TypeSub
<1>8. ASSUME NEW t \in Threads, UnadvertiseDrop(t) PROVE TypeThreads'
  BY <1>8, <1>a DEF UnadvertiseDrop, Goto, End, Unregistered, VectorChanged, lockvars, locals,
      TypeThreads, PCs, TypePub, TypeSub
<1>9. ASSUME NEW t \in Threads, NEW h \in Handles, Subscribe(t, h) PROVE TypeThreads'
  <2>1. CASE UNCHANGED <<subsLock, pc, cur, sub, regSub>>
    BY <1>9, <1>a, <2>1 DEF Subscribe, TypeThreads
  <2>2. CASE Begin(t, h, "sub_find") \/ Begin(t, h, "sub_fail")
    <3>1. pc' \in [Threads -> PCs] /\ cur' \in [Threads -> Handles \cup {NoHandle}]
      BY <1>a, <2>2 DEF Begin, Goto, TypeThreads, PCs
    <3>2. sub' \in [Threads -> 0..MaxSubs]
      BY <1>9, <1>a DEF Subscribe, TypeThreads, TypeSub
    <3>3. handle' \in [Handles -> {"new", "opening", "open", "closing", "closed"}]
      BY <1>9, <1>a DEF Subscribe, TypeThreads
    <3>4. regSub' \in BOOLEAN /\ subsLock' \in Threads \cup {NoThread}
      BY <1>9, <1>a DEF Subscribe, TypeThreads
    <3> QED BY <1>9, <1>a, <3>1, <3>2, <3>3, <3>4 DEF Subscribe, TypeThreads
  <2> QED BY <1>9, <2>1, <2>2 DEF Subscribe
<1>10. ASSUME NEW t \in Threads, SubscribeFail(t) PROVE TypeThreads'
  BY <1>10, <1>a DEF SubscribeFail, Goto, End, mastervars, locals, TypeThreads, PCs, TypePub,
      TypeSub
<1>11. ASSUME NEW t \in Threads, SubscribeFind(t) PROVE TypeThreads'
  BY <1>11, <1>a, PubLookups DEF SubscribeFind, Goto, mastervars, lockvars, TypeThreads, PCs,
      TypePub, TypeSub
<1>12. ASSUME NEW t \in Threads, SubscribeConnect(t) PROVE TypeThreads'
  BY <1>12, <1>a DEF SubscribeConnect, Goto, End, mastervars, locals, TypeThreads, PCs,
      TypePub, TypeSub
<1>13. ASSUME NEW t \in Threads, NEW h \in Handles, Unsubscribe(t, h) PROVE TypeThreads'
  BY <1>13, <1>a, SubLookups DEF Unsubscribe, Begin, Goto, mastervars, lockvars, TypeThreads,
      PCs, TypePub, TypeSub
<1>14. ASSUME NEW t \in Threads, UnsubscribeRemove(t) PROVE TypeThreads'
  BY <1>14, <1>a DEF UnsubscribeRemove, Goto, mastervars, lockvars, locals, TypeThreads, PCs,
      TypePub, TypeSub
<1>15. ASSUME NEW t \in Threads, UnsubscribeCheck(t) PROVE TypeThreads'
  <2>1. CASE End(t, "closed")
    BY <1>15, <1>a, <2>1
    DEF UnsubscribeCheck, End, Goto, mastervars, lockvars, locals, TypeThreads, PCs
  <2>2. CASE Goto(t, "unsub_erase") /\ UNCHANGED <<cur, handle>>
    BY <1>15, <1>a, <2>2 DEF UnsubscribeCheck, Goto, mastervars, lockvars, locals, TypeThreads, PCs
  <2> QED BY <1>15, <2>1, <2>2 DEF UnsubscribeCheck
<1>16. ASSUME NEW t \in Threads, UnsubscribeErase(t) PROVE TypeThreads'
  BY <1>16, <1>a DEF UnsubscribeErase, Goto, Unregistered, lockvars, locals, TypeThreads, PCs,
      TypePub, TypeSub
<1>17. ASSUME NEW t \in Threads, UnsubscribeShutdown(t) PROVE TypeThreads'
  BY <1>17, <1>a DEF UnsubscribeShutdown, Goto, End, mastervars, lockvars, locals, TypeThreads,
      PCs, TypePub, TypeSub
<1>18. ASSUME NEW t \in Threads, Shutdown(t) PROVE TypeThreads'
  BY <1>18, <1>a DEF Shutdown, Goto, mastervars, locals, TypeThreads, PCs, TypePub, TypeSub
<1>19. ASSUME NEW t \in Threads, ShutdownFlag(t) PROVE TypeThreads'
  BY <1>19, <1>a DEF ShutdownFlag, Goto, mastervars, locals, TypeThreads, PCs, TypePub, TypeSub
<1>20. ASSUME NEW t \in Threads, ShutdownPubs(t) PROVE TypeThreads'
  BY <1>20, <1>a DEF ShutdownPubs, Goto, Unregistered, VectorChanged, lockvars, locals,
      TypeThreads, PCs, TypePub, TypeSub
<1>21. ASSUME NEW t \in Threads, ShutdownSubs(t) PROVE TypeThreads'
  BY <1>21, <1>a DEF ShutdownSubs, Goto, Unregistered, lockvars, locals, TypeThreads, PCs,
      TypePub, TypeSub
<1> QED BY <1>0, <1>1, <1>2, <1>3, <1>4, <1>5, <1>6, <1>7, <1>8, <1>9, <1>10, <1>11, <1>12,
    <1>13, <1>14, <1>15, <1>16, <1>17, <1>18, <1>19, <1>20, <1>21 DEF Next

\* Four actions change the lapses, and write only such.
LEMMA LapseTypes == ControlInv /\ [Next]_vars => lapses' \subseteq Lapses
<1> SUFFICES ASSUME ControlInv, [Next]_vars PROVE lapses' \subseteq Lapses
  OBVIOUS
<1>a. lapses \subseteq Lapses
  BY TypeGroups DEF ControlInv
<1>1. ASSUME NEW t \in Threads,
             \/ AdvertiseRegister(t) \/ UnadvertiseDrop(t) \/ SubscribeFind(t)
             \/ UnsubscribeErase(t)
      PROVE  lapses' \subseteq Lapses
  BY <1>1, <1>a
  DEF AdvertiseRegister, UnadvertiseDrop, SubscribeFind, UnsubscribeErase, Lapsed, Lapses
<1>2. ASSUME NEW t \in Threads, NEW h,
             \/ Advertise(t, h) \/ AdvertiseName(t) \/ AdvertiseFind(t) \/ AdvertiseConnect(t)
             \/ Unadvertise(t, h) \/ UnadvertiseRemove(t) \/ Subscribe(t, h)
             \/ SubscribeFail(t) \/ SubscribeConnect(t)
      PROVE  UNCHANGED lapses
  BY <1>2 DEF Advertise, AdvertiseName, AdvertiseFind, AdvertiseConnect, Unadvertise,
              UnadvertiseRemove, Subscribe, SubscribeFail, SubscribeConnect
<1>3. ASSUME NEW t \in Threads, NEW h,
             \/ Unsubscribe(t, h) \/ UnsubscribeRemove(t) \/ UnsubscribeCheck(t)
             \/ UnsubscribeShutdown(t) \/ Shutdown(t) \/ ShutdownFlag(t)
             \/ ShutdownPubs(t) \/ ShutdownSubs(t)
      PROVE  UNCHANGED lapses
  BY <1>3 DEF Unsubscribe, UnsubscribeRemove, UnsubscribeCheck, UnsubscribeShutdown, Shutdown,
              ShutdownFlag, ShutdownPubs, ShutdownSubs
<1> QED BY <1>a, <1>1, <1>2, <1>3 DEF Next, vars

\* Every call works on objects that exist.
LEMMA CallsStep == ControlInv /\ [Next]_vars => CallsInv'
<1> SUFFICES ASSUME ControlInv, [Next]_vars PROVE CallsInv'
  OBVIOUS
<1>a. TypePub /\ TypeSub /\ TypeThreads
  BY TypeGroups DEF ControlInv
<1>0. CASE UNCHANGED vars
  BY <1>0 DEF vars, ControlInv, CallsInv
<1>1. ASSUME NEW t \in Threads, NEW h \in Handles, Advertise(t, h) PROVE CallsInv'
  BY <1>1, <1>a, PubLookups DEF Advertise, Begin, Goto, pubvars, subvars, TypeThreads,
      ControlInv, CallsInv, PubPCs, SubscribePCs, UnsubPCs, PubThread, SubThread, TypePub,
      TypeSub
<1>2. ASSUME NEW t \in Threads, AdvertiseName(t) PROVE CallsInv'
  BY <1>2, <1>a DEF AdvertiseName, Goto, pubvars, subvars, locals, TypeThreads, ControlInv,
      CallsInv, PubPCs, SubscribePCs, UnsubPCs, PubThread, SubThread, TypePub, TypeSub
<1>3. ASSUME NEW t \in Threads, AdvertiseFind(t) PROVE CallsInv'
  BY <1>3, <1>a, MatchingLookup DEF AdvertiseFind, Goto, pubvars, subvars, TypeThreads,
      ControlInv, CallsInv, PubPCs, SubscribePCs, UnsubPCs, PubThread, SubThread, TypePub,
      TypeSub
<1>4. ASSUME NEW t \in Threads, AdvertiseConnect(t) PROVE CallsInv'
  BY <1>4, <1>a DEF AdvertiseConnect, Goto, pubvars, subvars, locals, TypeThreads, ControlInv,
      CallsInv, PubPCs, SubscribePCs, UnsubPCs, PubThread, SubThread, TypePub, TypeSub
<1>5. ASSUME NEW t \in Threads, AdvertiseRegister(t) PROVE CallsInv'
  BY <1>5, <1>a DEF AdvertiseRegister, Goto, End, pubvars, subvars, locals, TypeThreads,
      ControlInv, CallsInv, PubPCs, SubscribePCs, UnsubPCs, PubThread, SubThread, TypePub,
      TypeSub
<1>6. ASSUME NEW t \in Threads, NEW h \in Handles, Unadvertise(t, h) PROVE CallsInv'
  BY <1>6, <1>a, PubLookups DEF Unadvertise, Begin, Goto, pubvars, subvars, TypeThreads,
      ControlInv, CallsInv, PubPCs, SubscribePCs, UnsubPCs, PubThread, SubThread, TypePub,
      TypeSub
<1>7. ASSUME NEW t \in Threads, UnadvertiseRemove(t) PROVE CallsInv'
  BY <1>7, <1>a DEF UnadvertiseRemove, Goto, subvars, locals, TypeThreads, ControlInv,
      CallsInv, PubPCs, SubscribePCs, UnsubPCs, PubThread, SubThread, TypePub, TypeSub
<1>8. ASSUME NEW t \in Threads, UnadvertiseDrop(t) PROVE CallsInv'
  BY <1>8, <1>a DEF UnadvertiseDrop, Goto, End, subvars, locals, TypeThreads, ControlInv,
      CallsInv, PubPCs, SubscribePCs, UnsubPCs, PubThread, SubThread, TypePub, TypeSub
<1>9. ASSUME NEW t \in Threads, NEW h \in Handles, Subscribe(t, h) PROVE CallsInv'
  BY <1>9, <1>a, SubLookups DEF Subscribe, Begin, Goto, pubvars, TypeThreads, ControlInv,
      CallsInv, PubPCs, SubscribePCs, UnsubPCs, PubThread, SubThread, TypePub, TypeSub
<1>10. ASSUME NEW t \in Threads, SubscribeFail(t) PROVE CallsInv'
  BY <1>10, <1>a DEF SubscribeFail, Goto, End, pubvars, locals, TypeThreads, ControlInv,
      CallsInv, PubPCs, SubscribePCs, UnsubPCs, PubThread, SubThread, TypePub, TypeSub
<1>11. ASSUME NEW t \in Threads, SubscribeFind(t) PROVE CallsInv'
  BY <1>11, <1>a, PubLookups DEF SubscribeFind, Goto, pubvars, subvars, TypeThreads,
      ControlInv, CallsInv, PubPCs, SubscribePCs, UnsubPCs, PubThread, SubThread, TypePub,
      TypeSub
<1>12. ASSUME NEW t \in Threads, SubscribeConnect(t) PROVE CallsInv'
  BY <1>12, <1>a DEF SubscribeConnect, Goto, End, pubvars, locals, TypeThreads, ControlInv,
      CallsInv, PubPCs, SubscribePCs, UnsubPCs, PubThread, SubThread, TypePub, TypeSub
<1>13. ASSUME NEW t \in Threads, NEW h \in Handles, Unsubscribe(t, h) PROVE CallsInv'
  BY <1>13, <1>a, SubLookups DEF Unsubscribe, Begin, Goto, pubvars, subvars, TypeThreads,
      ControlInv, CallsInv, PubPCs, SubscribePCs, UnsubPCs, PubThread, SubThread, TypePub,
      TypeSub
<1>14. ASSUME NEW t \in Threads, UnsubscribeRemove(t) PROVE CallsInv'
  BY <1>14, <1>a DEF UnsubscribeRemove, Goto, pubvars, locals, TypeThreads, ControlInv,
      CallsInv, PubPCs, SubscribePCs, UnsubPCs, PubThread, SubThread, TypePub, TypeSub
<1>15. ASSUME NEW t \in Threads, UnsubscribeCheck(t) PROVE CallsInv'
  BY <1>15, <1>a DEF UnsubscribeCheck, Goto, End, pubvars, subvars, locals, TypeThreads,
      ControlInv, CallsInv, PubPCs, SubscribePCs, UnsubPCs, PubThread, SubThread, TypePub,
      TypeSub
<1>16. ASSUME NEW t \in Threads, UnsubscribeErase(t) PROVE CallsInv'
  BY <1>16, <1>a DEF UnsubscribeErase, Goto, pubvars, locals, TypeThreads, ControlInv,
      CallsInv, PubPCs, SubscribePCs, UnsubPCs, PubThread, SubThread, TypePub, TypeSub
<1>17. ASSUME NEW t \in Threads, UnsubscribeShutdown(t) PROVE CallsInv'
  BY <1>17, <1>a DEF UnsubscribeShutdown, Goto, End, pubvars, locals, TypeThreads, ControlInv,
      CallsInv, PubPCs, SubscribePCs, UnsubPCs, PubThread, SubThread, TypePub, TypeSub
<1>18. ASSUME NEW t \in Threads, Shutdown(t) PROVE CallsInv'
  BY <1>18, <1>a DEF Shutdown, Goto, pubvars, subvars, locals, TypeThreads, ControlInv,
      CallsInv, PubPCs, SubscribePCs, UnsubPCs, PubThread, SubThread, TypePub, TypeSub
<1>19. ASSUME NEW t \in Threads, ShutdownFlag(t) PROVE CallsInv'
  BY <1>19, <1>a DEF ShutdownFlag, Goto, pubvars, subvars, locals, TypeThreads, ControlInv,
      CallsInv, PubPCs, SubscribePCs, UnsubPCs, PubThread, SubThread, TypePub, TypeSub
<1>20. ASSUME NEW t \in Threads, ShutdownPubs(t) PROVE CallsInv'
  BY <1>20, <1>a DEF ShutdownPubs, Goto, subvars, locals, TypeThreads, ControlInv, CallsInv,
      PubPCs, SubscribePCs, UnsubPCs, PubThread, SubThread, TypePub, TypeSub
<1>21. ASSUME NEW t \in Threads, ShutdownSubs(t) PROVE CallsInv'
  BY <1>21, <1>a DEF ShutdownSubs, Goto, pubvars, locals, TypeThreads, ControlInv, CallsInv,
      PubPCs, SubscribePCs, UnsubPCs, PubThread, SubThread, TypePub, TypeSub
<1> QED BY <1>0, <1>1, <1>2, <1>3, <1>4, <1>5, <1>6, <1>7, <1>8, <1>9, <1>10, <1>11, <1>12,
    <1>13, <1>14, <1>15, <1>16, <1>17, <1>18, <1>19, <1>20, <1>21 DEF Next

\* shutdown waits with advertised_topics_mutex_, and subscribe keeps subs_mutex_.
LEMMA LocksStep == ControlInv /\ [Next]_vars => LocksInv'
<1> SUFFICES ASSUME ControlInv, [Next]_vars PROVE LocksInv'
  OBVIOUS
<1>a. TypeThreads
  BY TypeGroups DEF ControlInv
<1>0. CASE UNCHANGED vars
  BY <1>0 DEF vars, ControlInv, LocksInv
<1>1. ASSUME NEW t \in Threads, NEW h \in Handles, Advertise(t, h) PROVE LocksInv'
  BY <1>1, <1>a DEF Advertise, Begin, Goto, lockvars, TypeThreads, ControlInv, LocksInv,
      SubscribePCs
<1>2. ASSUME NEW t \in Threads, AdvertiseName(t) PROVE LocksInv'
  BY <1>2, <1>a DEF AdvertiseName, Goto, lockvars, TypeThreads, ControlInv, LocksInv,
      SubscribePCs
<1>3. ASSUME NEW t \in Threads, AdvertiseFind(t) PROVE LocksInv'
  BY <1>3, <1>a DEF AdvertiseFind, Goto, lockvars, TypeThreads, ControlInv, LocksInv,
      SubscribePCs
<1>4. ASSUME NEW t \in Threads, AdvertiseConnect(t) PROVE LocksInv'
  BY <1>4, <1>a DEF AdvertiseConnect, Goto, lockvars, TypeThreads, ControlInv, LocksInv,
      SubscribePCs
<1>5. ASSUME NEW t \in Threads, AdvertiseRegister(t) PROVE LocksInv'
  BY <1>5, <1>a DEF AdvertiseRegister, Goto, End, lockvars, TypeThreads, ControlInv, LocksInv,
      SubscribePCs
<1>6. ASSUME NEW t \in Threads, NEW h \in Handles, Unadvertise(t, h) PROVE LocksInv'
  BY <1>6, <1>a DEF Unadvertise, Begin, Goto, lockvars, TypeThreads, ControlInv, LocksInv,
      SubscribePCs
<1>7. ASSUME NEW t \in Threads, UnadvertiseRemove(t) PROVE LocksInv'
  BY <1>7, <1>a DEF UnadvertiseRemove, Goto, lockvars, TypeThreads, ControlInv, LocksInv,
      SubscribePCs
<1>8. ASSUME NEW t \in Threads, UnadvertiseDrop(t) PROVE LocksInv'
  BY <1>8, <1>a DEF UnadvertiseDrop, Goto, End, lockvars, TypeThreads, ControlInv, LocksInv,
      SubscribePCs
<1>9. ASSUME NEW t \in Threads, NEW h \in Handles, Subscribe(t, h) PROVE LocksInv'
  <2>1. CASE UNCHANGED <<subsLock, pc>>
    BY <1>9, <2>1 DEF Subscribe, ControlInv, LocksInv
  <2>2. CASE /\ subsLock' = t
             /\ Begin(t, h, "sub_find") \/ Begin(t, h, "sub_fail")
    <3>1. subsLock = NoThread /\ UNCHANGED advLock
      BY <1>9 DEF Subscribe, SubsFree
    <3> QED BY <1>a, <2>2, <3>1 DEF Begin, Goto, TypeThreads, ControlInv, LocksInv, SubscribePCs
  <2> QED BY <1>9, <2>1, <2>2 DEF Subscribe
<1>10. ASSUME NEW t \in Threads, SubscribeFail(t) PROVE LocksInv'
  BY <1>10, <1>a DEF SubscribeFail, Goto, End, TypeThreads, ControlInv, LocksInv, SubscribePCs
<1>11. ASSUME NEW t \in Threads, SubscribeFind(t) PROVE LocksInv'
  BY <1>11, <1>a DEF SubscribeFind, Goto, lockvars, TypeThreads, ControlInv, LocksInv,
      SubscribePCs
<1>12. ASSUME NEW t \in Threads, SubscribeConnect(t) PROVE LocksInv'
  BY <1>12, <1>a DEF SubscribeConnect, Goto, End, TypeThreads, ControlInv, LocksInv,
      SubscribePCs
<1>13. ASSUME NEW t \in Threads, NEW h \in Handles, Unsubscribe(t, h) PROVE LocksInv'
  BY <1>13, <1>a DEF Unsubscribe, Begin, Goto, lockvars, TypeThreads, ControlInv, LocksInv,
      SubscribePCs
<1>14. ASSUME NEW t \in Threads, UnsubscribeRemove(t) PROVE LocksInv'
  BY <1>14, <1>a DEF UnsubscribeRemove, Goto, lockvars, TypeThreads, ControlInv, LocksInv,
      SubscribePCs
<1>15. ASSUME NEW t \in Threads, UnsubscribeCheck(t) PROVE LocksInv'
  BY <1>15, <1>a DEF UnsubscribeCheck, Goto, End, lockvars, TypeThreads, ControlInv, LocksInv,
      SubscribePCs
<1>16. ASSUME NEW t \in Threads, UnsubscribeErase(t) PROVE LocksInv'
  BY <1>16, <1>a DEF UnsubscribeErase, Goto, lockvars, TypeThreads, ControlInv, LocksInv,
      SubscribePCs
<1>17. ASSUME NEW t \in Threads, UnsubscribeShutdown(t) PROVE LocksInv'
  BY <1>17, <1>a DEF UnsubscribeShutdown, Goto, End, lockvars, TypeThreads, ControlInv,
      LocksInv, SubscribePCs
<1>18. ASSUME NEW t \in Threads, Shutdown(t) PROVE LocksInv'
  BY <1>18, <1>a DEF Shutdown, Goto, TypeThreads, ControlInv, LocksInv, SubscribePCs
<1>19. ASSUME NEW t \in Threads, ShutdownFlag(t) PROVE LocksInv'
  BY <1>19, <1>a DEF ShutdownFlag, Goto, TypeThreads, ControlInv, LocksInv, SubscribePCs
<1>20. ASSUME NEW t \in Threads, ShutdownPubs(t) PROVE LocksInv'
  BY <1>20, <1>a DEF ShutdownPubs, Goto, lockvars, TypeThreads, ControlInv, LocksInv,
      SubscribePCs
<1>21. ASSUME NEW t \in Threads, ShutdownSubs(t) PROVE LocksInv'
  BY <1>21, <1>a DEF ShutdownSubs, Goto, lockvars, TypeThreads, ControlInv, LocksInv,
      SubscribePCs
<1> QED BY <1>0, <1>1, <1>2, <1>3, <1>4, <1>5, <1>6, <1>7, <1>8, <1>9, <1>10, <1>11, <1>12,
    <1>13, <1>14, <1>15, <1>16, <1>17, <1>18, <1>19, <1>20, <1>21 DEF Next

\* One thread shuts down, once, and not while another subscribes.
LEMMA DownStep == ControlInv /\ [Next]_vars => DownInv'
<1> SUFFICES ASSUME ControlInv, [Next]_vars PROVE DownInv'
  OBVIOUS
<1>a. TypeThreads
  BY TypeGroups DEF ControlInv
<1>0. CASE UNCHANGED vars
  BY <1>0 DEF vars, ControlInv, DownInv
<1>1. ASSUME NEW t \in Threads, NEW h \in Handles, Advertise(t, h) PROVE DownInv'
  BY <1>1, <1>a DEF Advertise, Begin, Goto, lockvars, TypeThreads, ControlInv, LocksInv,
      DownInv, SubscribePCs, DownPCs
<1>2. ASSUME NEW t \in Threads, AdvertiseName(t) PROVE DownInv'
  BY <1>2, <1>a DEF AdvertiseName, Goto, lockvars, TypeThreads, ControlInv, LocksInv, DownInv,
      SubscribePCs, DownPCs
<1>3. ASSUME NEW t \in Threads, AdvertiseFind(t) PROVE DownInv'
  BY <1>3, <1>a DEF AdvertiseFind, Goto, lockvars, TypeThreads, ControlInv, LocksInv, DownInv,
      SubscribePCs, DownPCs
<1>4. ASSUME NEW t \in Threads, AdvertiseConnect(t) PROVE DownInv'
  BY <1>4, <1>a DEF AdvertiseConnect, Goto, lockvars, TypeThreads, ControlInv, LocksInv,
      DownInv, SubscribePCs, DownPCs
<1>5. ASSUME NEW t \in Threads, AdvertiseRegister(t) PROVE DownInv'
  BY <1>5, <1>a DEF AdvertiseRegister, Goto, End, lockvars, TypeThreads, ControlInv, LocksInv,
      DownInv, SubscribePCs, DownPCs
<1>6. ASSUME NEW t \in Threads, NEW h \in Handles, Unadvertise(t, h) PROVE DownInv'
  BY <1>6, <1>a DEF Unadvertise, Begin, Goto, lockvars, TypeThreads, ControlInv, LocksInv,
      DownInv, SubscribePCs, DownPCs
<1>7. ASSUME NEW t \in Threads, UnadvertiseRemove(t) PROVE DownInv'
  BY <1>7, <1>a DEF UnadvertiseRemove, Goto, lockvars, TypeThreads, ControlInv, LocksInv,
      DownInv, SubscribePCs, DownPCs
<1>8. ASSUME NEW t \in Threads, UnadvertiseDrop(t) PROVE DownInv'
  BY <1>8, <1>a DEF UnadvertiseDrop, Goto, End, lockvars, TypeThreads, ControlInv, LocksInv,
      DownInv, SubscribePCs, DownPCs
<1>9. ASSUME NEW t \in Threads, NEW h \in Handles, Subscribe(t, h) PROVE DownInv'
  BY <1>9, <1>a DEF Subscribe, Begin, Goto, TypeThreads, ControlInv, LocksInv, DownInv,
      SubscribePCs, DownPCs
<1>10. ASSUME NEW t \in Threads, SubscribeFail(t) PROVE DownInv'
  BY <1>10, <1>a DEF SubscribeFail, Goto, End, TypeThreads, ControlInv, LocksInv, DownInv,
      SubscribePCs, DownPCs
<1>11. ASSUME NEW t \in Threads, SubscribeFind(t) PROVE DownInv'
  BY <1>11, <1>a DEF SubscribeFind, Goto, lockvars, TypeThreads, ControlInv, LocksInv, DownInv,
      SubscribePCs, DownPCs
<1>12. ASSUME NEW t \in Threads, SubscribeConnect(t) PROVE DownInv'
  BY <1>12, <1>a DEF SubscribeConnect, Goto, End, TypeThreads, ControlInv, LocksInv, DownInv,
      SubscribePCs, DownPCs
<1>13. ASSUME NEW t \in Threads, NEW h \in Handles, Unsubscribe(t, h) PROVE DownInv'
  BY <1>13, <1>a DEF Unsubscribe, Begin, Goto, lockvars, TypeThreads, ControlInv, LocksInv,
      DownInv, SubscribePCs, DownPCs
<1>14. ASSUME NEW t \in Threads, UnsubscribeRemove(t) PROVE DownInv'
  BY <1>14, <1>a DEF UnsubscribeRemove, Goto, lockvars, TypeThreads, ControlInv, LocksInv,
      DownInv, SubscribePCs, DownPCs
<1>15. ASSUME NEW t \in Threads, UnsubscribeCheck(t) PROVE DownInv'
  BY <1>15, <1>a DEF UnsubscribeCheck, Goto, End, lockvars, TypeThreads, ControlInv, LocksInv,
      DownInv, SubscribePCs, DownPCs
<1>16. ASSUME NEW t \in Threads, UnsubscribeErase(t) PROVE DownInv'
  BY <1>16, <1>a DEF UnsubscribeErase, Goto, lockvars, TypeThreads, ControlInv, LocksInv,
      DownInv, SubscribePCs, DownPCs
<1>17. ASSUME NEW t \in Threads, UnsubscribeShutdown(t) PROVE DownInv'
  BY <1>17, <1>a DEF UnsubscribeShutdown, Goto, End, lockvars, TypeThreads, ControlInv,
      LocksInv, DownInv, SubscribePCs, DownPCs
<1>18. ASSUME NEW t \in Threads, Shutdown(t) PROVE DownInv'
  BY <1>18, <1>a DEF Shutdown, Goto, TypeThreads, ControlInv, LocksInv, DownInv, SubscribePCs,
      DownPCs
<1>19. ASSUME NEW t \in Threads, ShutdownFlag(t) PROVE DownInv'
  <2>1. pc[t] = "down_flag" /\ pc' = [pc EXCEPT ![t] = "down_pubs"]
    BY <1>19 DEF ShutdownFlag, Goto
  <2>2. \A u \in Threads : u # t => pc'[u] \notin DownPCs
    BY <1>a, <2>1 DEF ControlInv, DownInv, DownPCs, TypeThreads
  <2>3. shuttingDown' /\ subsLock' = NoThread
    BY <1>19 DEF ShutdownFlag, SubsFree
  <2> QED BY <1>a, <2>1, <2>2, <2>3 DEF DownInv, DownPCs, TypeThreads
<1>20. ASSUME NEW t \in Threads, ShutdownPubs(t) PROVE DownInv'
  BY <1>20, <1>a DEF ShutdownPubs, Goto, lockvars, TypeThreads, ControlInv, LocksInv, DownInv,
      SubscribePCs, DownPCs
<1>21. ASSUME NEW t \in Threads, ShutdownSubs(t) PROVE DownInv'
  BY <1>21, <1>a DEF ShutdownSubs, Goto, lockvars, TypeThreads, ControlInv, LocksInv, DownInv,
      SubscribePCs, DownPCs
<1> QED BY <1>0, <1>1, <1>2, <1>3, <1>4, <1>5, <1>6, <1>7, <1>8, <1>9, <1>10, <1>11, <1>12,
    <1>13, <1>14, <1>15, <1>16, <1>17, <1>18, <1>19, <1>20, <1>21 DEF Next


\* Nothing is under way at first.
LEMMA InitControl == Init => ControlInv
<1> SUFFICES ASSUME Init PROVE ControlInv
  OBVIOUS
<1>1. TypePub /\ TypeSub
  BY DEF Init, TypePub, TypeSub
<1>2. TypeLinks
  BY DEF Init, TypeLinks
<1>3. TypeThreads
  <2>1. /\ handle \in [Handles -> {"new", "opening", "open", "closing", "closed"}]
        /\ pc \in [Threads -> PCs]
    BY DEF Init, PCs
  <2>2. /\ cur \in [Threads -> Handles \cup {NoHandle}]
        /\ pub \in [Threads -> 0..MaxPubs] /\ sub \in [Threads -> 0..MaxSubs]
        /\ stale \in [Threads -> BOOLEAN]
    BY DEF Init
  <2> QED BY <2>1, <2>2 DEF Init, TypeThreads
<1>4. CallsInv /\ LocksInv /\ DownInv
  BY DEF Init, CallsInv, LocksInv, DownInv, PubPCs, SubscribePCs, UnsubPCs, DownPCs
<1>5. lapses \subseteq Lapses
  BY DEF Init
<1> QED BY <1>1, <1>2, <1>3, <1>4, <1>5, TypeGroups DEF ControlInv

\* Every step keeps the control state.
LEMMA NextControl == ControlInv /\ [Next]_vars => ControlInv'
<1> SUFFICES ASSUME ControlInv, [Next]_vars PROVE ControlInv'
  OBVIOUS
<1>1. TypePub' /\ TypeSub' /\ TypeLinks' /\ TypeThreads'
  BY PubTypes, SubTypes, LinkTypes, ThreadTypes
<1>2. TypeOK'
  BY <1>1, LapseTypes DEF TypeOK, TypePub, TypeSub, TypeLinks, TypeThreads
<1> QED BY <1>2, CallsStep, LocksStep, DownStep DEF ControlInv

\* The operations of any number of threads leave lists, objects, links, locks and
\* iterators well-formed.
THEOREM ControlCorrect == Spec => []ControlInv
BY InitControl, NextControl, PTL DEF Spec

-----------------------------------------------------------------------------
(* What shutdown leaves behind                                             *)

\* The threads of a program: one for its publishers, one for its subscribers.
OneThreadEach ==
  /\ \A g, h \in Publishers : Owner[g] = Owner[h]
  /\ \A g, h \in Subscribers : Owner[g] = Owner[h]

PubsDone == shuttingDown /\ \A t \in Threads : pc[t] # "down_pubs"
SubsDone == PubsDone /\ \A t \in Threads : pc[t] # "down_subs"

\* A publication is listed until it is dropped, and shutdown drops those listed.
PubsInv ==
  /\ PubsDone => advertised = {}
  /\ \A p \in 1..newPub : p \in advertised \/ pubDropped[p]
  /\ \A t \in Threads :
       pc[t] \in {"unadv_remove", "unadv_drop"} /\ stale[t] => advertised = {}

\* A subscription is listed, or dropped, or some thread is about to do either.
Held(s) == \E t \in Threads : pc[t] \in SubscribePCs \cup {"unsub_shutdown"} /\ sub[t] = s

SubsInv ==
  /\ SubsDone => subscriptions = {}
  /\ \A s \in 1..newSub : s \in subscriptions \/ subDropped[s] \/ Held(s)
  /\ \A t \in Threads :
       pc[t] \in {"unsub_remove", "unsub_check", "unsub_erase"} =>
         subscriptions = {} \/ sub[t] = First(subscriptions)

\* Links hang on objects that are not dropped, and a subscription has none before
\* it is listed.
LinksInv ==
  /\ \A p \in PubIds, s \in SubIds :
       pubLinks[p][s] > 0 => p \in 1..newPub /\ ~pubDropped[p]
  /\ \A s \in SubIds, p \in PubIds :
       subLinks[s][p] > 0 => s \in 1..newSub /\ ~subDropped[s]
  /\ \A t \in Threads : pc[t] \in SubscribePCs =>
       /\ sub[t] \notin subscriptions
       /\ \A p \in PubIds : subLinks[sub[t]][p] = 0
       /\ \A u \in Threads : pc[u] = "adv_connect" => sub[u] # sub[t]

\* While a thread works for a publisher no other does.
LEMMA PubAlone ==
  ASSUME OneThreadEach, ControlInv, NEW t \in Threads, PubThread(t)
  PROVE  \A u \in Threads : u # t => pc[u] \notin PubPCs
BY DEF OneThreadEach, ControlInv, CallsInv, PubThread, SubThread

\* So for subscribers.
LEMMA SubAlone ==
  ASSUME OneThreadEach, ControlInv, NEW t \in Threads, SubThread(t)
  PROVE  \A u \in Threads : u # t => pc[u] \notin SubscribePCs \cup UnsubPCs
BY DEF OneThreadEach, ControlInv, CallsInv, PubThread, SubThread

\* No publication is lost between the list and its drop.
LEMMA PubsStep == OneThreadEach /\ ControlInv /\ PubsInv /\ [Next]_vars => PubsInv'
<1> SUFFICES ASSUME OneThreadEach /\ ControlInv /\ PubsInv, [Next]_vars PROVE PubsInv'
  OBVIOUS
<1>a. TypePub /\ TypeThreads
  BY TypeGroups DEF ControlInv
<1>0. CASE UNCHANGED vars
  BY <1>0 DEF vars, PubsInv, PubsDone
<1>1. ASSUME NEW t \in Threads, NEW h \in Handles, Advertise(t, h) PROVE PubsInv'
  <2>1. CASE UNCHANGED <<advertised, newPub, pubDropped, pc, stale>>
    BY <1>1, <2>1 DEF Advertise, lockvars, PubsInv, PubsDone
  <2>2. CASE /\ ~shuttingDown /\ newPub' = newPub + 1 /\ advertised' = advertised \cup {newPub + 1}
             /\ Begin(t, h, "adv_names") /\ UNCHANGED pubDropped
    <3>1. PubThread(t) /\ ~shuttingDown'
      BY <1>1, <2>2 DEF Advertise, PubThread, lockvars
    <3>2. \A u \in Threads : pc'[u] \notin {"unadv_remove", "unadv_drop"}
      BY <1>a, <2>2, <3>1, PubAlone DEF Begin, Goto, TypeThreads, PubPCs
    <3>3. \A p \in 1..newPub' : p \in advertised' \/ pubDropped'[p]
      BY <1>a, <2>2 DEF PubsInv, TypePub
    <3> QED BY <3>1, <3>2, <3>3 DEF PubsInv, PubsDone
  <2> QED BY <1>1, <2>1, <2>2 DEF Advertise, pubvars
<1>2. ASSUME NEW t \in Threads, AdvertiseName(t) PROVE PubsInv'
  BY <1>2, <1>a DEF AdvertiseName, Goto, pubvars, lockvars, TypeThreads, TypePub, PubsInv,
      PubsDone
<1>3. ASSUME NEW t \in Threads, AdvertiseFind(t) PROVE PubsInv'
  BY <1>3, <1>a DEF AdvertiseFind, Goto, pubvars, lockvars, TypeThreads, TypePub, PubsInv,
      PubsDone
<1>4. ASSUME NEW t \in Threads, AdvertiseConnect(t) PROVE PubsInv'
  BY <1>4, <1>a DEF AdvertiseConnect, Goto, pubvars, lockvars, TypeThreads, TypePub, PubsInv,
      PubsDone
<1>5. ASSUME NEW t \in Threads, AdvertiseRegister(t) PROVE PubsInv'
  BY <1>5, <1>a DEF AdvertiseRegister, Goto, End, pubvars, lockvars, TypeThreads, TypePub,
      PubsInv, PubsDone
<1>6. ASSUME NEW t \in Threads, NEW h \in Handles, Unadvertise(t, h) PROVE PubsInv'
  BY <1>6, <1>a DEF Unadvertise, Begin, Goto, pubvars, lockvars, TypeThreads, TypePub, PubsInv,
      PubsDone
<1>7. ASSUME NEW t \in Threads, UnadvertiseRemove(t) PROVE PubsInv'
  BY <1>7, <1>a DEF UnadvertiseRemove, Goto, lockvars, TypeThreads, TypePub, PubsInv, PubsDone
<1>8. ASSUME NEW t \in Threads, UnadvertiseDrop(t) PROVE PubsInv'
  <2>1. /\ pc[t] = "unadv_drop" /\ pc' = [pc EXCEPT ![t] = "idle"]
        /\ UNCHANGED <<shuttingDown, newPub>> /\ PubThread(t) /\ pub[t] \in PubIds
    BY <1>8, <1>a DEF UnadvertiseDrop, End, Goto, lockvars, ControlInv, CallsInv, PubPCs, TypePub, PubIds
  <2>2. \A u \in Threads : pc'[u] \notin {"unadv_remove", "unadv_drop"}
    BY <1>a, <2>1, PubAlone DEF TypeThreads, PubPCs
  <2>3. PubsDone' => PubsDone
    BY <1>a, <2>1 DEF PubsDone, TypeThreads
  <2>4. CASE UNCHANGED <<advertised, pubDropped>>
    BY <2>1, <2>2, <2>3, <2>4 DEF PubsInv
  <2>5. CASE /\ pubDropped' = [pubDropped EXCEPT ![pub[t]] = TRUE]
             /\ advertised' \in Erased(t)
    <3>1. advertised' \subseteq advertised
      BY <2>5 DEF Erased
    <3>2. \A p \in advertised : p \in advertised' \/ p = pub[t]
      BY <2>1, <2>5 DEF Erased, PubsInv
    <3>3. \A p \in 1..newPub : p \in advertised' \/ pubDropped'[p]
      BY <1>a, <2>1, <2>5, <3>2 DEF PubsInv, TypePub, PubIds
    <3> QED BY <2>1, <2>2, <2>3, <3>1, <3>3 DEF PubsInv
  <2> QED BY <1>8, <2>4, <2>5 DEF UnadvertiseDrop
<1>9. ASSUME NEW t \in Threads, NEW h \in Handles, Subscribe(t, h) PROVE PubsInv'
  BY <1>9, <1>a DEF Subscribe, Begin, Goto, pubvars, TypeThreads, TypePub, PubsInv, PubsDone
<1>10. ASSUME NEW t \in Threads, SubscribeFail(t) PROVE PubsInv'
  BY <1>10, <1>a DEF SubscribeFail, Goto, End, pubvars, TypeThreads, TypePub, PubsInv, PubsDone
<1>11. ASSUME NEW t \in Threads, SubscribeFind(t) PROVE PubsInv'
  BY <1>11, <1>a DEF SubscribeFind, Goto, pubvars, lockvars, TypeThreads, TypePub, PubsInv,
      PubsDone
<1>12. ASSUME NEW t \in Threads, SubscribeConnect(t) PROVE PubsInv'
  BY <1>12, <1>a DEF SubscribeConnect, Goto, End, pubvars, TypeThreads, TypePub, PubsInv,
      PubsDone
<1>13. ASSUME NEW t \in Threads, NEW h \in Handles, Unsubscribe(t, h) PROVE PubsInv'
  BY <1>13, <1>a DEF Unsubscribe, Begin, Goto, pubvars, lockvars, TypeThreads, TypePub,
      PubsInv, PubsDone
<1>14. ASSUME NEW t \in Threads, UnsubscribeRemove(t) PROVE PubsInv'
  BY <1>14, <1>a DEF UnsubscribeRemove, Goto, pubvars, lockvars, TypeThreads, TypePub, PubsInv,
      PubsDone
<1>15. ASSUME NEW t \in Threads, UnsubscribeCheck(t) PROVE PubsInv'
  BY <1>15, <1>a DEF UnsubscribeCheck, Goto, End, pubvars, lockvars, TypeThreads, TypePub,
      PubsInv, PubsDone
<1>16. ASSUME NEW t \in Threads, UnsubscribeErase(t) PROVE PubsInv'
  BY <1>16, <1>a DEF UnsubscribeErase, Goto, pubvars, lockvars, TypeThreads, TypePub, PubsInv,
      PubsDone
<1>17. ASSUME NEW t \in Threads, UnsubscribeShutdown(t) PROVE PubsInv'
  BY <1>17, <1>a DEF UnsubscribeShutdown, Goto, End, pubvars, lockvars, TypeThreads, TypePub,
      PubsInv, PubsDone
<1>18. ASSUME NEW t \in Threads, Shutdown(t) PROVE PubsInv'
  BY <1>18, <1>a DEF Shutdown, Goto, pubvars, TypeThreads, TypePub, PubsInv, PubsDone
<1>19. ASSUME NEW t \in Threads, ShutdownFlag(t) PROVE PubsInv'
  BY <1>19, <1>a DEF ShutdownFlag, Goto, pubvars, TypeThreads, TypePub, PubsInv, PubsDone
<1>20. ASSUME NEW t \in Threads, ShutdownPubs(t) PROVE PubsInv'
  <2>1. advertised' = {} /\ newPub' = newPub
    BY <1>20 DEF ShutdownPubs
  <2>2. \A p \in 1..newPub : pubDropped'[p]
    <3> TAKE p \in 1..newPub
    <3>1. p \in PubIds
      BY <1>a DEF TypePub, PubIds
    <3>2. pubDropped'[p] = (pubDropped[p] \/ p \in advertised)
      BY <1>20, <3>1 DEF ShutdownPubs
    <3> QED BY <3>2 DEF PubsInv
  <2> QED BY <2>1, <2>2 DEF PubsInv
<1>21. ASSUME NEW t \in Threads, ShutdownSubs(t) PROVE PubsInv'
  BY <1>21, <1>a DEF ShutdownSubs, Goto, pubvars, lockvars, TypeThreads, TypePub, PubsInv,
      PubsDone
<1> QED BY <1>0, <1>1, <1>2, <1>3, <1>4, <1>5, <1>6, <1>7, <1>8, <1>9, <1>10, <1>11, <1>12,
    <1>13, <1>14, <1>15, <1>16, <1>17, <1>18, <1>19, <1>20, <1>21 DEF Next

\* No subscription is lost between the list and its shutdown.
LEMMA SubsStep == OneThreadEach /\ ControlInv /\ SubsInv /\ [Next]_vars => SubsInv'
<1> SUFFICES ASSUME OneThreadEach /\ ControlInv /\ SubsInv, [Next]_vars PROVE SubsInv'
  OBVIOUS
<1>a. TypeSub /\ TypeThreads
  BY TypeGroups DEF ControlInv
<1>0. CASE UNCHANGED vars
  BY <1>0 DEF vars, SubsInv, SubsDone, PubsDone, Held
<1>1. ASSUME NEW t \in Threads, NEW h \in Handles, Advertise(t, h) PROVE SubsInv'
  BY <1>1, <1>a DEF Advertise, Begin, Goto, subvars, lockvars, TypeThreads, TypeSub, SubsInv,
      SubsDone, PubsDone, Held, SubscribePCs
<1>2. ASSUME NEW t \in Threads, AdvertiseName(t) PROVE SubsInv'
  BY <1>2, <1>a DEF AdvertiseName, Goto, subvars, lockvars, locals, TypeThreads, TypeSub,
      SubsInv, SubsDone, PubsDone, Held, SubscribePCs
<1>3. ASSUME NEW t \in Threads, AdvertiseFind(t) PROVE SubsInv'
  BY <1>3, <1>a DEF AdvertiseFind, Goto, subvars, lockvars, TypeThreads, TypeSub, SubsInv,
      SubsDone, PubsDone, Held, SubscribePCs
<1>4. ASSUME NEW t \in Threads, AdvertiseConnect(t) PROVE SubsInv'
  BY <1>4, <1>a DEF AdvertiseConnect, Goto, subvars, lockvars, locals, TypeThreads, TypeSub,
      SubsInv, SubsDone, PubsDone, Held, SubscribePCs
<1>5. ASSUME NEW t \in Threads, AdvertiseRegister(t) PROVE SubsInv'
  BY <1>5, <1>a DEF AdvertiseRegister, Goto, End, subvars, lockvars, locals, TypeThreads,
      TypeSub, SubsInv, SubsDone, PubsDone, Held, SubscribePCs
<1>6. ASSUME NEW t \in Threads, NEW h \in Handles, Unadvertise(t, h) PROVE SubsInv'
  BY <1>6, <1>a DEF Unadvertise, Begin, Goto, subvars, lockvars, TypeThreads, TypeSub, SubsInv,
      SubsDone, PubsDone, Held, SubscribePCs
<1>7. ASSUME NEW t \in Threads, UnadvertiseRemove(t) PROVE SubsInv'
  BY <1>7, <1>a DEF UnadvertiseRemove, Goto, subvars, lockvars, locals, TypeThreads, TypeSub,
      SubsInv, SubsDone, PubsDone, Held, SubscribePCs
<1>8. ASSUME NEW t \in Threads, UnadvertiseDrop(t) PROVE SubsInv'
  BY <1>8, <1>a DEF UnadvertiseDrop, Goto, End, subvars, lockvars, locals, TypeThreads,
      TypeSub, SubsInv, SubsDone, PubsDone, Held, SubscribePCs
<1>9. ASSUME NEW t \in Threads, NEW h \in Handles, Subscribe(t, h) PROVE SubsInv'
  <2>1. CASE UNCHANGED <<newSub, pc, sub>>
    BY <1>9, <2>1 DEF Subscribe, SubsInv, SubsDone, PubsDone, Held
  <2>2. CASE /\ ~shuttingDown /\ newSub' = newSub + 1 /\ sub' = [sub EXCEPT ![t] = newSub + 1]
             /\ Begin(t, h, "sub_find") \/ Begin(t, h, "sub_fail")
    <3>1. SubThread(t) /\ ~shuttingDown' /\ pc[t] = "idle" /\ UNCHANGED <<subscriptions, subDropped>>
      BY <1>9, <2>2 DEF Subscribe, SubThread
    <3>2. /\ pc'[t] \in SubscribePCs /\ sub'[t] = newSub + 1
          /\ \A u \in Threads : u # t => pc'[u] = pc[u] /\ sub'[u] = sub[u]
      BY <1>a, <2>2 DEF Begin, Goto, TypeThreads, SubscribePCs
    <3>3. \A u \in Threads : pc'[u] \notin {"unsub_remove", "unsub_check", "unsub_erase"}
      BY <3>1, <3>2, SubAlone DEF SubscribePCs, UnsubPCs
    <3>4. \A s : Held(s) => Held(s)'
      BY <3>1, <3>2 DEF Held, SubscribePCs
    <3>5. \A s : s = newSub + 1 => Held(s)'
      BY <3>2 DEF Held
    <3>6. \A s \in 1..newSub' : s \in 1..newSub \/ s = newSub + 1
      BY <1>a, <2>2 DEF TypeSub
    <3>7. \A s \in 1..newSub' : s \in subscriptions' \/ subDropped'[s] \/ Held(s)'
      BY <3>1, <3>4, <3>5, <3>6 DEF SubsInv
    <3> QED BY <3>1, <3>3, <3>7 DEF SubsInv, SubsDone, PubsDone
  <2> QED BY <1>9, <2>1, <2>2 DEF Subscribe
<1>10. ASSUME NEW t \in Threads, SubscribeFail(t) PROVE SubsInv'
  <2>1. /\ pc[t] = "sub_fail" /\ pc' = [pc EXCEPT ![t] = "idle"]
        /\ subDropped' = [subDropped EXCEPT ![sub[t]] = TRUE]
        /\ UNCHANGED <<subscriptions, newSub, sub, shuttingDown>>
    BY <1>10 DEF SubscribeFail, End, Goto, locals
  <2>2. SubsDone' => SubsDone
    BY <1>a, <2>1 DEF SubsDone, PubsDone, TypeThreads
  <2>3. \A s \in 1..newSub : subDropped[s] => subDropped'[s]
    BY <1>a, <2>1 DEF TypeSub, SubIds
  <2>4. \A s \in 1..newSub : Held(s) => Held(s)' \/ subDropped'[s]
    BY <1>a, <2>1 DEF Held, TypeThreads, TypeSub, SubIds
  <2> QED BY <1>a, <2>1, <2>2, <2>3, <2>4 DEF SubsInv, TypeThreads
<1>11. ASSUME NEW t \in Threads, SubscribeFind(t) PROVE SubsInv'
  BY <1>11, <1>a DEF SubscribeFind, Goto, subvars, lockvars, TypeThreads, TypeSub, SubsInv,
      SubsDone, PubsDone, Held, SubscribePCs
<1>12. ASSUME NEW t \in Threads, SubscribeConnect(t) PROVE SubsInv'
  <2>1. /\ pc[t] = "sub_connect" /\ pc' = [pc EXCEPT ![t] = "idle"]
        /\ subscriptions' = subscriptions \cup {sub[t]}
        /\ UNCHANGED <<subDropped, newSub, sub, shuttingDown>>
    BY <1>12 DEF SubscribeConnect, End, Goto, locals
  <2>2. SubThread(t) /\ ~shuttingDown
    BY <1>a, <2>1 DEF ControlInv, CallsInv, LocksInv, DownInv, SubscribePCs
  <2>3. \A u \in Threads : pc'[u] \notin {"unsub_remove", "unsub_check", "unsub_erase"}
    BY <1>a, <2>1, <2>2, SubAlone DEF TypeThreads, UnsubPCs
  <2>4. \A s \in 1..newSub : Held(s) => Held(s)' \/ s = sub[t]
    BY <1>a, <2>1 DEF Held, TypeThreads
  <2> QED BY <2>1, <2>2, <2>3, <2>4 DEF SubsInv, SubsDone, PubsDone
<1>13. ASSUME NEW t \in Threads, NEW h \in Handles, Unsubscribe(t, h) PROVE SubsInv'
  BY <1>13, <1>a DEF Unsubscribe, Begin, Goto, subvars, lockvars, TypeThreads, TypeSub,
      SubsInv, SubsDone, PubsDone, Held, SubscribePCs
<1>14. ASSUME NEW t \in Threads, UnsubscribeRemove(t) PROVE SubsInv'
  BY <1>14, <1>a DEF UnsubscribeRemove, Goto, lockvars, locals, TypeThreads, TypeSub, SubsInv,
      SubsDone, PubsDone, Held, SubscribePCs
<1>15. ASSUME NEW t \in Threads, UnsubscribeCheck(t) PROVE SubsInv'
  BY <1>15, <1>a DEF UnsubscribeCheck, Goto, End, subvars, lockvars, locals, TypeThreads,
      TypeSub, SubsInv, SubsDone, PubsDone, Held, SubscribePCs
<1>16. ASSUME NEW t \in Threads, UnsubscribeErase(t) PROVE SubsInv'
  <2>1. /\ pc[t] = "unsub_erase" /\ pc' = [pc EXCEPT ![t] = "unsub_shutdown"]
        /\ subscriptions' = subscriptions \ {First(subscriptions)}
        /\ UNCHANGED <<subDropped, newSub, sub, shuttingDown>>
    BY <1>16 DEF UnsubscribeErase, Goto, locals, lockvars
  <2>2. SubsDone' => SubsDone
    BY <1>a, <2>1 DEF SubsDone, PubsDone, TypeThreads
  <2>3. SubThread(t)
    BY <2>1 DEF ControlInv, CallsInv, UnsubPCs
  <2>4. \A u \in Threads : pc'[u] \notin {"unsub_remove", "unsub_check", "unsub_erase"}
    BY <1>a, <2>1, <2>3, SubAlone DEF TypeThreads, UnsubPCs
  <2>5. \A s : Held(s) => Held(s)'
    BY <1>a, <2>1 DEF Held, TypeThreads, SubscribePCs
  <2>6. Held(sub[t])'
    BY <1>a, <2>1 DEF Held, TypeThreads
  <2>7. \A s \in subscriptions : s \in subscriptions' \/ s = sub[t]
    BY <2>1 DEF SubsInv
  <2> QED BY <2>1, <2>2, <2>4, <2>5, <2>6, <2>7 DEF SubsInv
<1>17. ASSUME NEW t \in Threads, UnsubscribeShutdown(t) PROVE SubsInv'
  <2>1. /\ pc[t] = "unsub_shutdown" /\ pc' = [pc EXCEPT ![t] = "idle"]
        /\ subDropped' = [subDropped EXCEPT ![sub[t]] = TRUE]
        /\ UNCHANGED <<subscriptions, newSub, sub, shuttingDown>>
    BY <1>17 DEF UnsubscribeShutdown, End, Goto, locals, lockvars
  <2>2. SubsDone' => SubsDone
    BY <1>a, <2>1 DEF SubsDone, PubsDone, TypeThreads
  <2>3. \A s \in 1..newSub : subDropped[s] => subDropped'[s]
    BY <1>a, <2>1 DEF TypeSub, SubIds
  <2>4. \A s \in 1..newSub : Held(s) => Held(s)' \/ subDropped'[s]
    BY <1>a, <2>1 DEF Held, TypeThreads, TypeSub, SubIds
  <2> QED BY <1>a, <2>1, <2>2, <2>3, <2>4 DEF SubsInv, TypeThreads
<1>18. ASSUME NEW t \in Threads, Shutdown(t) PROVE SubsInv'
  BY <1>18, <1>a DEF Shutdown, Goto, subvars, locals, TypeThreads, TypeSub, SubsInv, SubsDone,
      PubsDone, Held, SubscribePCs
<1>19. ASSUME NEW t \in Threads, ShutdownFlag(t) PROVE SubsInv'
  BY <1>19, <1>a DEF ShutdownFlag, Goto, subvars, locals, TypeThreads, TypeSub, SubsInv,
      SubsDone, PubsDone, Held, SubscribePCs
<1>20. ASSUME NEW t \in Threads, ShutdownPubs(t) PROVE SubsInv'
  BY <1>20, <1>a DEF ShutdownPubs, Goto, subvars, lockvars, locals, TypeThreads, TypeSub,
      SubsInv, SubsDone, PubsDone, Held, SubscribePCs
<1>21. ASSUME NEW t \in Threads, ShutdownSubs(t) PROVE SubsInv'
  <2>1. /\ pc[t] = "down_subs" /\ pc' = [pc EXCEPT ![t] = "idle"]
        /\ subDropped' = [s \in SubIds |-> subDropped[s] \/ s \in subscriptions]
        /\ subscriptions' = {} /\ UNCHANGED <<newSub, sub>>
    BY <1>21 DEF ShutdownSubs, Goto, locals
  <2>2. \A s : Held(s) => Held(s)'
    BY <1>a, <2>1 DEF Held, TypeThreads, SubscribePCs
  <2>3. \A s \in 1..newSub : subDropped'[s] \/ Held(s)
    <3> TAKE s \in 1..newSub
    <3>1. s \in SubIds
      BY <1>a DEF TypeSub, SubIds
    <3>2. subDropped'[s] = (subDropped[s] \/ s \in subscriptions)
      BY <2>1, <3>1
    <3> QED BY <3>2 DEF SubsInv
  <2> QED BY <2>1, <2>2, <2>3 DEF SubsInv
<1> QED BY <1>0, <1>1, <1>2, <1>3, <1>4, <1>5, <1>6, <1>7, <1>8, <1>9, <1>10, <1>11, <1>12,
    <1>13, <1>14, <1>15, <1>16, <1>17, <1>18, <1>19, <1>20, <1>21 DEF Next

\* No link outlives its publication or its subscription.
LEMMA LinksStep == OneThreadEach /\ ControlInv /\ LinksInv /\ [Next]_vars => LinksInv'
<1> SUFFICES ASSUME OneThreadEach /\ ControlInv /\ LinksInv, [Next]_vars PROVE LinksInv'
  OBVIOUS
<1>a. TypePub /\ TypeSub /\ TypeLinks /\ TypeThreads
  BY TypeGroups DEF ControlInv
<1>0. CASE UNCHANGED vars
  BY <1>0 DEF vars, LinksInv
<1>1. ASSUME NEW t \in Threads, NEW h \in Handles, Advertise(t, h) PROVE LinksInv'
  <2>1. /\ UNCHANGED <<subvars, linkvars, sub>>
        /\ \A u \in Threads : pc'[u] = pc[u] \/ pc'[u] = "adv_names"
    BY <1>1, <1>a DEF Advertise, Begin, Goto, pubvars, TypeThreads
  <2>2. /\ \A p \in 1..newPub : p \in 1..newPub'
        /\ UNCHANGED pubDropped
    BY <1>1, <1>a DEF Advertise, pubvars, TypePub
  <2> QED BY <2>1, <2>2 DEF LinksInv, SubscribePCs, subvars, linkvars
<1>2. ASSUME NEW t \in Threads, AdvertiseName(t) PROVE LinksInv'
  BY <1>2, <1>a DEF AdvertiseName, Goto, pubvars, subvars, linkvars, locals, TypeThreads,
      TypeSub, TypePub, TypeLinks, LinksInv, SubscribePCs
<1>3. ASSUME NEW t \in Threads, AdvertiseFind(t) PROVE LinksInv'
  <2>1. /\ pc' = [pc EXCEPT ![t] = "adv_connect"]
        /\ sub' = [sub EXCEPT ![t] = MatchingSubscription(pub[t])]
        /\ UNCHANGED <<subscriptions, newSub, subDropped, pubDropped, newPub, subLinks, pubLinks>>
    BY <1>3 DEF AdvertiseFind, Goto, pubvars, subvars, linkvars
  <2>2. MatchingSubscription(pub[t]) \in subscriptions \cup {0}
    BY <1>a, MatchingLookup
  <2>3. /\ pc'[t] = "adv_connect" /\ sub'[t] = MatchingSubscription(pub[t])
        /\ \A u \in Threads : u # t => pc'[u] = pc[u] /\ sub'[u] = sub[u]
    BY <1>a, <2>1 DEF TypeThreads
  <2>4. \A u \in Threads : pc[u] \in SubscribePCs => sub[u] \notin subscriptions \cup {0}
    BY DEF LinksInv, ControlInv, CallsInv
  <2> QED BY <2>1, <2>2, <2>3, <2>4 DEF LinksInv, SubscribePCs
<1>4. ASSUME NEW t \in Threads, AdvertiseConnect(t) PROVE LinksInv'
  <2>1. /\ pc[t] = "adv_connect" /\ pc' = [pc EXCEPT ![t] = "adv_register"]
        /\ AddLocalConnection(sub[t], pub[t])
        /\ UNCHANGED <<subscriptions, newSub, subDropped, pubDropped, newPub, sub>>
    BY <1>4 DEF AdvertiseConnect, Goto, pubvars, subvars, locals
  <2>2. pub[t] \in 1..newPub /\ sub[t] \in 0..newSub
    BY <2>1 DEF ControlInv, CallsInv, PubPCs
  <2>3. /\ TypeLinks'
        /\ \A x \in SubIds, y \in PubIds :
             /\ subLinks'[x][y] > 0 => subLinks[x][y] > 0 \/ (x = sub[t] /\ ~subDropped[sub[t]])
             /\ pubLinks'[y][x] > 0 => pubLinks[y][x] > 0 \/ (y = pub[t] /\ ~pubDropped[pub[t]])
    BY <1>a, <2>1, <2>2, ConnectEffect
  <2>4. \A s \in SubIds, p \in PubIds :
          /\ pubLinks'[p][s] > 0 => p \in 1..newPub /\ ~pubDropped[p]
          /\ subLinks'[s][p] > 0 => s \in 1..newSub /\ ~subDropped[s]
    BY <1>a, <2>2, <2>3 DEF LinksInv, SubIds, PubIds
  <2>5. ASSUME NEW u \in Threads, pc'[u] \in SubscribePCs
        PROVE  pc[u] \in SubscribePCs /\ \A p \in PubIds : subLinks'[sub[u]][p] = 0
    <3>1. pc[u] \in SubscribePCs /\ sub[u] \in SubIds /\ sub[u] # sub[t]
      BY <1>a, <2>1, <2>5 DEF TypeThreads, TypeSub, SubscribePCs, LinksInv, ControlInv, CallsInv, SubIds
    <3>2. \A p \in PubIds : subLinks[sub[u]][p] = 0 /\ subLinks'[sub[u]][p] \in Nat
      BY <2>3, <3>1 DEF LinksInv, TypeLinks
    <3> QED BY <2>3, <3>1, <3>2
  <2> QED BY <1>a, <2>1, <2>4, <2>5 DEF LinksInv, TypeThreads
<1>5. ASSUME NEW t \in Threads, AdvertiseRegister(t) PROVE LinksInv'
  BY <1>5, <1>a DEF AdvertiseRegister, Goto, End, pubvars, subvars, linkvars, locals,
      TypeThreads, TypeSub, TypePub, TypeLinks, LinksInv, SubscribePCs
<1>6. ASSUME NEW t \in Threads, NEW h \in Handles, Unadvertise(t, h) PROVE LinksInv'
  <2>1. UNCHANGED <<subvars, linkvars, pubvars, sub>>
    BY <1>6 DEF Unadvertise
  <2>2. CASE UNCHANGED pc
    BY <2>1, <2>2 DEF LinksInv, subvars, linkvars, pubvars
  <2>3. CASE Begin(t, h, "unadv_remove")
    <3>1. pc'[t] = "unadv_remove" /\ \A u \in Threads : u # t => pc'[u] = pc[u]
      BY <1>a, <2>3 DEF Begin, Goto, TypeThreads
    <3> QED BY <2>1, <3>1 DEF LinksInv, SubscribePCs, subvars, linkvars, pubvars
  <2> QED BY <1>6, <2>2, <2>3 DEF Unadvertise
<1>7. ASSUME NEW t \in Threads, UnadvertiseRemove(t) PROVE LinksInv'
  BY <1>7, <1>a DEF UnadvertiseRemove, Goto, subvars, linkvars, locals, TypeThreads, TypeSub,
      TypePub, TypeLinks, LinksInv, SubscribePCs
<1>8. ASSUME NEW t \in Threads, UnadvertiseDrop(t) PROVE LinksInv'
  <2>1. /\ pc[t] = "unadv_drop" /\ pc' = [pc EXCEPT ![t] = "idle"]
        /\ UNCHANGED <<subscriptions, newSub, subDropped, newPub, sub>>
    BY <1>8 DEF UnadvertiseDrop, End, Goto, subvars, locals
  <2>2. CASE UNCHANGED <<pubDropped, linkvars>>
    BY <1>a, <2>1, <2>2 DEF LinksInv, linkvars, TypeThreads, SubscribePCs
  <2>3. CASE pubDropped' = [pubDropped EXCEPT ![pub[t]] = TRUE] /\ DropPubLinks({pub[t]})
    <3>1. \A x \in SubIds, y \in PubIds :
            /\ pubLinks'[y][x] = IF y = pub[t] THEN 0 ELSE pubLinks[y][x]
            /\ subLinks'[x][y] \in {0, subLinks[x][y]}
      BY <1>a, <2>3, DropPubEffect
    <3>2. \A s \in SubIds, p \in PubIds :
            /\ pubLinks'[p][s] > 0 => p \in 1..newPub /\ ~pubDropped'[p]
            /\ subLinks'[s][p] > 0 => s \in 1..newSub /\ ~subDropped[s]
      BY <1>a, <2>3, <3>1 DEF LinksInv, TypePub
    <3>3. \A u \in Threads : pc'[u] \in SubscribePCs =>
            pc[u] \in SubscribePCs /\ \A p \in PubIds : subLinks'[sub[u]][p] = 0
      <4> TAKE u \in Threads
      <4> HAVE pc'[u] \in SubscribePCs
      <4>1. pc[u] \in SubscribePCs /\ sub[u] \in SubIds
        BY <1>a, <2>1 DEF TypeThreads, TypeSub, SubscribePCs, ControlInv, CallsInv, SubIds
      <4>2. \A p \in PubIds : subLinks[sub[u]][p] = 0
        BY <4>1 DEF LinksInv
      <4> QED BY <3>1, <4>1, <4>2
    <3> QED BY <1>a, <2>1, <3>2, <3>3 DEF LinksInv, TypeThreads
  <2> QED BY <1>8, <2>2, <2>3 DEF UnadvertiseDrop
<1>9. ASSUME NEW t \in Threads, NEW h \in Handles, Subscribe(t, h) PROVE LinksInv'
  <2>1. CASE UNCHANGED <<newSub, pc, sub>>
    BY <1>9, <2>1 DEF Subscribe, pubvars, linkvars, LinksInv
  <2>2. CASE /\ newSub' = newSub + 1 /\ sub' = [sub EXCEPT ![t] = newSub + 1]
             /\ Begin(t, h, "sub_find") \/ Begin(t, h, "sub_fail")
    <3>1. SubThread(t) /\ UNCHANGED <<subscriptions, subDropped, pubvars, linkvars>>
      BY <1>9 DEF Subscribe, SubThread
    <3>2. /\ pc'[t] \in SubscribePCs /\ sub'[t] = newSub + 1
          /\ \A u \in Threads : u # t => pc'[u] = pc[u] /\ sub'[u] = sub[u]
      BY <1>a, <2>2 DEF Begin, Goto, TypeThreads, SubscribePCs
    <3>3. newSub \in Nat /\ subscriptions \subseteq 1..newSub /\ newSub + 1 \in SubIds
      BY <1>9, <1>a, <2>2 DEF TypeSub, SubIds, Subscribe
    <3>4. \A p \in PubIds : subLinks[newSub + 1][p] = 0
      BY <1>a, <3>3 DEF LinksInv, TypeLinks
    <3>5. \A u \in Threads : u # t => pc'[u] \notin SubscribePCs
      BY <3>1, <3>2, SubAlone
    <3>6. \A u \in Threads : pc'[u] = "adv_connect" => sub'[u] # newSub + 1
      BY <3>2, <3>3 DEF ControlInv, CallsInv, SubscribePCs
    <3>7. \A s \in 1..newSub : s \in 1..newSub'
      BY <2>2, <3>3
    <3>8. \A s \in SubIds, p \in PubIds :
            /\ pubLinks'[p][s] > 0 => p \in 1..newPub' /\ ~pubDropped'[p]
            /\ subLinks'[s][p] > 0 => s \in 1..newSub' /\ ~subDropped'[s]
      BY <3>1, <3>7 DEF LinksInv, pubvars, linkvars
    <3>9. \A u \in Threads : pc'[u] \in SubscribePCs =>
            /\ sub'[u] \notin subscriptions'
            /\ \A p \in PubIds : subLinks'[sub'[u]][p] = 0
            /\ \A v \in Threads : pc'[v] = "adv_connect" => sub'[v] # sub'[u]
      BY <3>1, <3>2, <3>3, <3>4, <3>5, <3>6 DEF linkvars
    <3> QED BY <3>8, <3>9 DEF LinksInv
  <2> QED BY <1>9, <2>1, <2>2 DEF Subscribe
<1>10. ASSUME NEW t \in Threads, SubscribeFail(t) PROVE LinksInv'
  BY <1>10, <1>a DEF SubscribeFail, Goto, End, pubvars, linkvars, locals, TypeThreads, TypeSub,
      TypePub, TypeLinks, LinksInv, SubscribePCs
<1>11. ASSUME NEW t \in Threads, SubscribeFind(t) PROVE LinksInv'
  BY <1>11, <1>a DEF SubscribeFind, Goto, pubvars, subvars, linkvars, TypeThreads, TypeSub,
      TypePub, TypeLinks, LinksInv, SubscribePCs
<1>12. ASSUME NEW t \in Threads, SubscribeConnect(t) PROVE LinksInv'
  <2>1. /\ pc[t] = "sub_connect" /\ pc' = [pc EXCEPT ![t] = "idle"]
        /\ AddLocalConnection(sub[t], pub[t])
        /\ UNCHANGED <<newSub, subDropped, pubDropped, newPub, sub>>
    BY <1>12 DEF SubscribeConnect, End, Goto, pubvars, locals
  <2>2. pub[t] \in 0..newPub /\ sub[t] \in 1..newSub /\ SubThread(t)
    BY <2>1 DEF ControlInv, CallsInv, SubscribePCs
  <2>3. \A x \in SubIds, y \in PubIds :
          /\ subLinks'[x][y] > 0 => subLinks[x][y] > 0 \/ (x = sub[t] /\ ~subDropped[sub[t]])
          /\ pubLinks'[y][x] > 0 => pubLinks[y][x] > 0 \/ (y = pub[t] /\ ~pubDropped[pub[t]])
    BY <1>a, <2>1, <2>2, ConnectEffect DEF TypeSub
  <2>4. \A s \in SubIds, p \in PubIds :
          /\ pubLinks'[p][s] > 0 => p \in 1..newPub /\ ~pubDropped[p]
          /\ subLinks'[s][p] > 0 => s \in 1..newSub /\ ~subDropped[s]
    BY <1>a, <2>2, <2>3 DEF LinksInv, SubIds, PubIds
  <2>5. \A u \in Threads : pc'[u] \notin SubscribePCs
    BY <1>a, <2>1, <2>2, SubAlone DEF TypeThreads, SubscribePCs
  <2> QED BY <2>1, <2>4, <2>5 DEF LinksInv
<1>13. ASSUME NEW t \in Threads, NEW h \in Handles, Unsubscribe(t, h) PROVE LinksInv'
  <2>1. UNCHANGED <<subscriptions, newSub, subDropped, pubDropped, newPub, subLinks, pubLinks>>
    BY <1>13 DEF Unsubscribe, pubvars, subvars, linkvars
  <2>2. CASE UNCHANGED <<pc, sub>>
    BY <2>1, <2>2 DEF LinksInv
  <2>3. CASE Begin(t, h, "unsub_remove") /\ sub' = [sub EXCEPT ![t] = First(subscriptions)]
    <3>1. /\ pc'[t] = "unsub_remove"
          /\ \A u \in Threads : u # t => pc'[u] = pc[u] /\ sub'[u] = sub[u]
      BY <1>a, <2>3 DEF Begin, Goto, TypeThreads
    <3> QED BY <2>1, <3>1 DEF LinksInv, SubscribePCs
  <2> QED BY <1>13, <2>2, <2>3 DEF Unsubscribe
<1>14. ASSUME NEW t \in Threads, UnsubscribeRemove(t) PROVE LinksInv'
  BY <1>14, <1>a DEF UnsubscribeRemove, Goto, pubvars, linkvars, locals, TypeThreads, TypeSub,
      TypePub, TypeLinks, LinksInv, SubscribePCs
<1>15. ASSUME NEW t \in Threads, UnsubscribeCheck(t) PROVE LinksInv'
  <2>1. UNCHANGED <<subscriptions, newSub, subDropped, pubDropped, newPub, subLinks, pubLinks, sub>>
    BY <1>15 DEF UnsubscribeCheck, pubvars, subvars, linkvars, locals
  <2>2. Goto(t, "unsub_erase") \/ Goto(t, "idle")
    BY <1>15 DEF UnsubscribeCheck, End
  <2>3. /\ pc'[t] \in {"unsub_erase", "idle"}
        /\ \A u \in Threads : u # t => pc'[u] = pc[u]
    BY <1>a, <2>2 DEF Goto, TypeThreads
  <2> QED BY <2>1, <2>3 DEF LinksInv, SubscribePCs
<1>16. ASSUME NEW t \in Threads, UnsubscribeErase(t) PROVE LinksInv'
  BY <1>16, <1>a DEF UnsubscribeErase, Goto, pubvars, linkvars, locals, TypeThreads, TypeSub,
      TypePub, TypeLinks, LinksInv, SubscribePCs
<1>17. ASSUME NEW t \in Threads, UnsubscribeShutdown(t) PROVE LinksInv'
  <2>1. /\ pc[t] = "unsub_shutdown" /\ pc' = [pc EXCEPT ![t] = "idle"]
        /\ subDropped' = [subDropped EXCEPT ![sub[t]] = TRUE]
        /\ UNCHANGED <<subscriptions, newSub, pubDropped, newPub, sub>>
    BY <1>17 DEF UnsubscribeShutdown, End, Goto, pubvars, locals
  <2>2. \A u \in Threads : pc'[u] \notin SubscribePCs
    BY <1>a, <2>1, SubAlone DEF ControlInv, CallsInv, UnsubPCs, TypeThreads, SubscribePCs
  <2>3. CASE subDropped[sub[t]]
    <3>1. UNCHANGED <<subDropped, linkvars>>
      BY <1>17, <1>a, <2>1, <2>3 DEF UnsubscribeShutdown, TypeSub
    <3> QED BY <2>1, <2>2, <3>1 DEF LinksInv, linkvars
  <2>4. CASE ~subDropped[sub[t]]
    <3>1. DropSubLinks({sub[t]})
      BY <1>17, <2>4 DEF UnsubscribeShutdown
    <3>2. \A x \in SubIds, y \in PubIds :
            /\ subLinks'[x][y] = IF x = sub[t] THEN 0 ELSE subLinks[x][y]
            /\ pubLinks'[y][x] \in {0, pubLinks[y][x]}
      BY <1>a, <3>1, DropSubEffect
    <3>3. \A s \in SubIds, p \in PubIds :
            /\ pubLinks'[p][s] > 0 => p \in 1..newPub /\ ~pubDropped[p]
            /\ subLinks'[s][p] > 0 => s \in 1..newSub /\ ~subDropped'[s]
      BY <1>a, <2>1, <3>2 DEF LinksInv, TypeSub
    <3> QED BY <2>1, <2>2, <3>3 DEF LinksInv
  <2> QED BY <2>3, <2>4
<1>18. ASSUME NEW t \in Threads, Shutdown(t) PROVE LinksInv'
  BY <1>18, <1>a DEF Shutdown, Goto, pubvars, subvars, linkvars, locals, TypeThreads, TypeSub,
      TypePub, TypeLinks, LinksInv, SubscribePCs
<1>19. ASSUME NEW t \in Threads, ShutdownFlag(t) PROVE LinksInv'
  BY <1>19, <1>a DEF ShutdownFlag, Goto, pubvars, subvars, linkvars, locals, TypeThreads,
      TypeSub, TypePub, TypeLinks, LinksInv, SubscribePCs
<1>20. ASSUME NEW t \in Threads, ShutdownPubs(t) PROVE LinksInv'
  <2>1. /\ pc[t] = "down_pubs" /\ pc' = [pc EXCEPT ![t] = "down_subs"]
        /\ pubDropped' = [p \in PubIds |-> pubDropped[p] \/ p \in advertised]
        /\ DropPubLinks({p \in advertised : ~pubDropped[p]})
        /\ UNCHANGED <<subscriptions, newSub, subDropped, newPub, sub>>
    BY <1>20 DEF ShutdownPubs, Goto, subvars, locals
  <2>2. \A x \in SubIds, y \in PubIds :
          /\ pubLinks'[y][x] = IF y \in advertised /\ ~pubDropped[y] THEN 0 ELSE pubLinks[y][x]
          /\ subLinks'[x][y] \in {0, subLinks[x][y]}
    BY <1>a, <2>1, DropPubEffect
  <2>3. \A s \in SubIds, p \in PubIds :
          /\ pubLinks'[p][s] > 0 => p \in 1..newPub /\ ~pubDropped'[p]
          /\ subLinks'[s][p] > 0 => s \in 1..newSub /\ ~subDropped[s]
    BY <1>a, <2>1, <2>2 DEF LinksInv, TypePub
  <2>4. \A u \in Threads : pc'[u] \in SubscribePCs =>
          pc[u] \in SubscribePCs /\ \A p \in PubIds : subLinks'[sub[u]][p] = 0
    <3> TAKE u \in Threads
    <3> HAVE pc'[u] \in SubscribePCs
    <3>1. pc[u] \in SubscribePCs /\ sub[u] \in SubIds
      BY <1>a, <2>1 DEF TypeThreads, TypeSub, SubscribePCs, ControlInv, CallsInv, SubIds
    <3>2. \A p \in PubIds : subLinks[sub[u]][p] = 0
      BY <3>1 DEF LinksInv
    <3> QED BY <2>2, <3>1, <3>2
  <2> QED BY <1>a, <2>1, <2>3, <2>4 DEF LinksInv, TypeThreads
<1>21. ASSUME NEW t \in Threads, ShutdownSubs(t) PROVE LinksInv'
  <2>1. /\ pc[t] = "down_subs" /\ pc' = [pc EXCEPT ![t] = "idle"]
        /\ subDropped' = [s \in SubIds |-> subDropped[s] \/ s \in subscriptions]
        /\ DropSubLinks({s \in subscriptions : ~subDropped[s]})
        /\ subscriptions' = {} /\ subsLock = NoThread
        /\ UNCHANGED <<pubDropped, newSub, newPub, sub>>
    BY <1>21 DEF ShutdownSubs, Goto, pubvars, locals, SubsFree
  <2>2. \A x \in SubIds, y \in PubIds :
          /\ subLinks'[x][y] = IF x \in subscriptions /\ ~subDropped[x] THEN 0 ELSE subLinks[x][y]
          /\ pubLinks'[y][x] \in {0, pubLinks[y][x]}
    BY <1>a, <2>1, DropSubEffect
  <2>3. \A s \in SubIds, p \in PubIds :
          /\ pubLinks'[p][s] > 0 => p \in 1..newPub /\ ~pubDropped[p]
          /\ subLinks'[s][p] > 0 => s \in 1..newSub /\ ~subDropped'[s]
    BY <1>a, <2>1, <2>2 DEF LinksInv, TypeSub
  <2>4. \A u \in Threads : pc'[u] \notin SubscribePCs
    BY <1>a, <2>1 DEF ControlInv, LocksInv, TypeThreads, SubscribePCs
  <2> QED BY <2>1, <2>3, <2>4 DEF LinksInv
<1> QED BY <1>0, <1>1, <1>2, <1>3, <1>4, <1>5, <1>6, <1>7, <1>8, <1>9, <1>10, <1>11, <1>12,
    <1>13, <1>14, <1>15, <1>16, <1>17, <1>18, <1>19, <1>20, <1>21 DEF Next


\* At first there is nothing to drop.
LEMMA InitShutdown == Init => PubsInv /\ SubsInv /\ LinksInv
BY DEF Init, PubsInv, SubsInv, LinksInv, PubsDone, SubsDone, Held, SubscribePCs

\* With all publishers in one thread and all subscribers in one: whatever shutdown
\* interrupts, in whichever threads, of whichever types and with whatever failures
\* of the master, once every call has returned no publication, subscription or
\* intraprocess link is left, and lists, locks and iterators stay well-formed.  The
\* exception of ShutdownClean is not needed: another thread's advertise is what would
\* leave a publication that an unadvertise erases but does not drop.
THEOREM ShutdownIsClean ==
  OneThreadEach => (Spec => [](ShutdownClean /\ (Idle /\ shuttingDown => NothingLinked)))
<1> DEFINE Clean == ShutdownClean /\ (Idle /\ shuttingDown => NothingLinked)
<1> SUFFICES ASSUME OneThreadEach PROVE Spec => []Clean
  OBVIOUS
<1> DEFINE Inv == ControlInv /\ PubsInv /\ SubsInv /\ LinksInv
<1>1. Init => Inv
  BY InitControl, InitShutdown
<1>2. Inv /\ [Next]_vars => Inv'
  BY NextControl, PubsStep, SubsStep, LinksStep
<1>3. Inv => Clean
  <2> SUFFICES ASSUME Inv, Idle, shuttingDown
               PROVE  advertised = {} /\ subscriptions = {} /\ NothingLinked
    BY DEF ControlInv, ShutdownClean, EverythingDropped
  <2>1. advertised = {} /\ subscriptions = {}
    BY DEF Idle, PubsInv, SubsInv, PubsDone, SubsDone
  <2>2. \A p \in 1..newPub : pubDropped[p]
    BY <2>1 DEF PubsInv
  <2>3. \A s \in 1..newSub : subDropped[s]
    BY <2>1 DEF SubsInv, Held, Idle, SubscribePCs
  <2>4. \A s \in SubIds, p \in PubIds :
          /\ subLinks[s][p] \in Nat /\ pubLinks[p][s] \in Nat
          /\ ~(subLinks[s][p] > 0) /\ ~(pubLinks[p][s] > 0)
    BY <2>2, <2>3, TypeGroups DEF LinksInv, ControlInv, TypeLinks
  <2> QED BY <2>1, <2>2, <2>4 DEF NothingLinked
<1> HIDE DEF Inv, Clean
<1> QED BY <1>1, <1>2, <1>3, PTL DEF Spec

-----------------------------------------------------------------------------
(* What open handles are served by                                         *)

\* The ordinary program: besides its threads, all its handles are of one message
\* type and the master answers.
Ordinary == OneThreadEach /\ (\A x, y \in Types : Match(x, y)) /\ ~MasterMayFail

AdvPCs == {"adv_names", "adv_find", "adv_connect", "adv_register"}

\* A thread works for a handle it owns, which is not open while it is taken out.
HandlesInv ==
  \A t \in Threads :
    /\ pc[t] \in PubPCs => cur[t] \in Publishers /\ Owner[cur[t]] = t
    /\ pc[t] \in SubscribePCs \cup UnsubPCs => cur[t] \in Subscribers /\ Owner[cur[t]] = t
    /\ pc[t] \in {"unadv_remove", "unsub_remove"} => handle[cur[t]] = "closing"

\* Objects that are not made yet are not dropped, and those that are have a type.
FreshInv ==
  /\ \A p \in PubIds : p > newPub => ~pubDropped[p]
  /\ \A s \in SubIds : s > newSub => ~subDropped[s]
  /\ \A p \in 1..newPub : pubType[p] \in Types
  /\ \A s \in 1..newSub : subType[s] \in Types

\* At most one publication is listed, the newest; it has callbacks unless unadvertise
\* is about to drop it, and every open publisher is one of them.
OnePubInv ==
  /\ advertised \subseteq {newPub}
  /\ newPub \in advertised =>
       ~pubDropped[newPub] /\ (pubCbs[newPub] # {} \/ \E t \in Threads : pc[t] = "unadv_drop")
  /\ \A t \in Threads : pc[t] \in PubPCs => pub[t] = newPub /\ (shuttingDown \/ newPub \in advertised)
  /\ \A t \in Threads : pc[t] \in AdvPCs => cur[t] \in pubCbs[newPub]
  /\ ~shuttingDown => \A h \in Publishers :
       handle[h] = "open" => newPub \in advertised /\ h \in pubCbs[newPub]

\* So for the subscription.
OneSubInv ==
  /\ subscriptions \subseteq {newSub}
  /\ newSub \in subscriptions => ~subDropped[newSub]
  /\ \A t \in Threads : pc[t] \in SubscribePCs \cup UnsubPCs => sub[t] = newSub
  /\ \A t \in Threads : pc[t] \in SubscribePCs =>
       /\ pc[t] # "sub_fail" /\ ~subDropped[newSub] /\ newSub \notin subscriptions
       /\ cur[t] \in subCbs[newSub]
  /\ \A t \in Threads : pc[t] = "unsub_erase" => subCbs[newSub] = {}
  /\ \A t \in Threads : pc[t] = "unsub_shutdown" => newSub \notin subscriptions
  /\ ~shuttingDown => \A h \in Subscribers :
       handle[h] = "open" => newSub \in subscriptions /\ h \in subCbs[newSub]

\* The master and the list of names know what is listed, up to the call under way.
RegInv ==
  ~shuttingDown =>
    /\ newPub \in advertised => regPub \/ \E t \in Threads : pc[t] \in AdvPCs
    /\ newPub \in advertised => names > 0 \/ \E t \in Threads : pc[t] = "adv_names"
    /\ regPub => newPub \in advertised
    /\ regSub <=> newSub \in subscriptions \/ \E t \in Threads : pc[t] \in SubscribePCs

\* The listed publication and the listed subscription are linked, or advertise has
\* yet to look for the subscription or to connect the one it found; a subscribe
\* that missed the publication holds the mutex that look needs.
ConnInv ==
  /\ newPub \in advertised /\ newSub \in subscriptions =>
       \/ subLinks[newSub][newPub] > 0 /\ pubLinks[newPub][newSub] > 0
       \/ \E t \in Threads : pc[t] \in {"adv_names", "adv_find"}
       \/ \E t \in Threads : pc[t] = "adv_connect" /\ sub[t] = newSub
  /\ \A t \in Threads : pc[t] = "sub_connect" /\ newPub \in advertised =>
       pub[t] = newPub \/ \E u \in Threads : pc[u] \in {"adv_names", "adv_find"}

\* Threads go on working for handles of their own.
LEMMA HandlesStep == ControlInv /\ HandlesInv /\ [Next]_vars => HandlesInv'
<1> SUFFICES ASSUME ControlInv /\ HandlesInv, [Next]_vars PROVE HandlesInv'
  OBVIOUS
<1>a. TypeThreads
  BY TypeGroups DEF ControlInv
<1>0. CASE UNCHANGED vars
  BY <1>0 DEF vars, HandlesInv
<1>1. ASSUME NEW t \in Threads, NEW h \in Handles, Advertise(t, h) PROVE HandlesInv'
  BY <1>1, <1>a DEF Advertise, Begin, Goto, TypeThreads, HandlesInv, PubPCs, SubscribePCs,
      UnsubPCs, Handles
<1>2. ASSUME NEW t \in Threads, AdvertiseName(t) PROVE HandlesInv'
  BY <1>2, <1>a DEF AdvertiseName, Goto, TypeThreads, HandlesInv, PubPCs, SubscribePCs,
      UnsubPCs, Handles
<1>3. ASSUME NEW t \in Threads, AdvertiseFind(t) PROVE HandlesInv'
  BY <1>3, <1>a DEF AdvertiseFind, Goto, TypeThreads, HandlesInv, PubPCs, SubscribePCs,
      UnsubPCs, Handles
<1>4. ASSUME NEW t \in Threads, AdvertiseConnect(t) PROVE HandlesInv'
  BY <1>4, <1>a DEF AdvertiseConnect, Goto, TypeThreads, HandlesInv, PubPCs, SubscribePCs,
      UnsubPCs, Handles
<1>5. ASSUME NEW t \in Threads, AdvertiseRegister(t) PROVE HandlesInv'
  BY <1>5, <1>a DEF AdvertiseRegister, Goto, End, TypeThreads, HandlesInv, PubPCs,
      SubscribePCs, UnsubPCs, Handles
<1>6. ASSUME NEW t \in Threads, NEW h \in Handles, Unadvertise(t, h) PROVE HandlesInv'
  BY <1>6, <1>a DEF Unadvertise, Begin, Goto, TypeThreads, HandlesInv, PubPCs, SubscribePCs,
      UnsubPCs, Handles
<1>7. ASSUME NEW t \in Threads, UnadvertiseRemove(t) PROVE HandlesInv'
  BY <1>7, <1>a DEF UnadvertiseRemove, Goto, TypeThreads, HandlesInv, PubPCs, SubscribePCs,
      UnsubPCs, Handles
<1>8. ASSUME NEW t \in Threads, UnadvertiseDrop(t) PROVE HandlesInv'
  BY <1>8, <1>a DEF UnadvertiseDrop, Goto, End, TypeThreads, HandlesInv, PubPCs, SubscribePCs,
      UnsubPCs, Handles
<1>9. ASSUME NEW t \in Threads, NEW h \in Handles, Subscribe(t, h) PROVE HandlesInv'
  BY <1>9, <1>a DEF Subscribe, Begin, Goto, TypeThreads, HandlesInv, PubPCs, SubscribePCs,
      UnsubPCs, Handles
<1>10. ASSUME NEW t \in Threads, SubscribeFail(t) PROVE HandlesInv'
  BY <1>10, <1>a DEF SubscribeFail, Goto, End, TypeThreads, HandlesInv, PubPCs, SubscribePCs,
      UnsubPCs, Handles
<1>11. ASSUME NEW t \in Threads, SubscribeFind(t) PROVE HandlesInv'
  BY <1>11, <1>a DEF SubscribeFind, Goto, TypeThreads, HandlesInv, PubPCs, SubscribePCs,
      UnsubPCs, Handles
<1>12. ASSUME NEW t \in Threads, SubscribeConnect(t) PROVE HandlesInv'
  BY <1>12, <1>a DEF SubscribeConnect, Goto, End, TypeThreads, HandlesInv, PubPCs,
      SubscribePCs, UnsubPCs, Handles
<1>13. ASSUME NEW t \in Threads, NEW h \in Handles, Unsubscribe(t, h) PROVE HandlesInv'
  BY <1>13, <1>a DEF Unsubscribe, Begin, Goto, TypeThreads, HandlesInv, PubPCs, SubscribePCs,
      UnsubPCs, Handles
<1>14. ASSUME NEW t \in Threads, UnsubscribeRemove(t) PROVE HandlesInv'
  BY <1>14, <1>a DEF UnsubscribeRemove, Goto, TypeThreads, HandlesInv, PubPCs, SubscribePCs,
      UnsubPCs, Handles
<1>15. ASSUME NEW t \in Threads, UnsubscribeCheck(t) PROVE HandlesInv'
  BY <1>15, <1>a DEF UnsubscribeCheck, Goto, End, TypeThreads, HandlesInv, PubPCs,
      SubscribePCs, UnsubPCs, Handles
<1>16. ASSUME NEW t \in Threads, UnsubscribeErase(t) PROVE HandlesInv'
  BY <1>16, <1>a DEF UnsubscribeErase, Goto, TypeThreads, HandlesInv, PubPCs, SubscribePCs,
      UnsubPCs, Handles
<1>17. ASSUME NEW t \in Threads, UnsubscribeShutdown(t) PROVE HandlesInv'
  BY <1>17, <1>a DEF UnsubscribeShutdown, Goto, End, TypeThreads, HandlesInv, PubPCs,
      SubscribePCs, UnsubPCs, Handles
<1>18. ASSUME NEW t \in Threads, Shutdown(t) PROVE HandlesInv'
  BY <1>18, <1>a DEF Shutdown, Goto, TypeThreads, HandlesInv, PubPCs, SubscribePCs, UnsubPCs,
      Handles
<1>19. ASSUME NEW t \in Threads, ShutdownFlag(t) PROVE HandlesInv'
  BY <1>19, <1>a DEF ShutdownFlag, Goto, TypeThreads, HandlesInv, PubPCs, SubscribePCs,
      UnsubPCs, Handles
<1>20. ASSUME NEW t \in Threads, ShutdownPubs(t) PROVE HandlesInv'
  BY <1>20, <1>a DEF ShutdownPubs, Goto, TypeThreads, HandlesInv, PubPCs, SubscribePCs,
      UnsubPCs, Handles
<1>21. ASSUME NEW t \in Threads, ShutdownSubs(t) PROVE HandlesInv'
  BY <1>21, <1>a DEF ShutdownSubs, Goto, TypeThreads, HandlesInv, PubPCs, SubscribePCs,
      UnsubPCs, Handles
<1> QED BY <1>0, <1>1, <1>2, <1>3, <1>4, <1>5, <1>6, <1>7, <1>8, <1>9, <1>10, <1>11, <1>12,
    <1>13, <1>14, <1>15, <1>16, <1>17, <1>18, <1>19, <1>20, <1>21 DEF Next

\* Only objects that exist are dropped.
LEMMA FreshStep == ControlInv /\ FreshInv /\ [Next]_vars => FreshInv'
<1> SUFFICES ASSUME ControlInv /\ FreshInv, [Next]_vars PROVE FreshInv'
  OBVIOUS
<1>a. TypePub /\ TypeSub
  BY TypeGroups DEF ControlInv
<1>0. CASE UNCHANGED vars
  BY <1>0 DEF vars, FreshInv
<1>1. ASSUME NEW t \in Threads, NEW h \in Handles, Advertise(t, h) PROVE FreshInv'
  <2>1. UNCHANGED <<newSub, subDropped, subType, pubDropped>>
    BY <1>1 DEF Advertise, pubvars, subvars
  <2>2. CASE UNCHANGED <<newPub, pubType>>
    BY <2>1, <2>2 DEF FreshInv
  <2>3. CASE newPub' = newPub + 1 /\ pubType' = [pubType EXCEPT ![newPub + 1] = Type[h]]
    <3>1. newPub \in Nat /\ Type[h] \in Types /\ pubType \in [PubIds -> Types \cup {NoHandle}]
      BY <1>a DEF TypePub, Types
    <3>2. \A p \in PubIds : p > newPub' => p > newPub
      BY <2>3, <3>1 DEF PubIds
    <3>3. newPub + 1 \in PubIds \/ UNCHANGED newPub
      BY <1>1, <1>a DEF Advertise, TypePub, PubIds, pubvars
    <3>4. \A p \in 1..newPub' : p \in 1..newPub \/ p = newPub + 1
      BY <2>3, <3>1
    <3>5. \A p \in 1..newPub' : pubType'[p] \in Types
      BY <2>3, <3>1, <3>3, <3>4 DEF FreshInv
    <3> QED BY <2>1, <3>2, <3>5 DEF FreshInv
  <2> QED BY <1>1, <2>2, <2>3 DEF Advertise, pubvars
<1>2. ASSUME NEW t \in Threads, AdvertiseName(t) PROVE FreshInv'
  BY <1>2, <1>a DEF AdvertiseName, pubvars, subvars, TypePub, TypeSub, ControlInv, CallsInv,
      FreshInv, PubPCs, SubscribePCs, UnsubPCs
<1>3. ASSUME NEW t \in Threads, AdvertiseFind(t) PROVE FreshInv'
  BY <1>3, <1>a DEF AdvertiseFind, pubvars, subvars, TypePub, TypeSub, ControlInv, CallsInv,
      FreshInv, PubPCs, SubscribePCs, UnsubPCs
<1>4. ASSUME NEW t \in Threads, AdvertiseConnect(t) PROVE FreshInv'
  <2>1. /\ sub[t] \in 0..newSub /\ pub[t] \in 0..newPub /\ AddLocalConnection(sub[t], pub[t])
        /\ UNCHANGED <<newPub, pubDropped, pubType, newSub, subDropped>>
    BY <1>4, <1>a DEF AdvertiseConnect, pubvars, ControlInv, CallsInv, PubPCs, SubscribePCs, TypeSub, TypePub
  <2>2. \A s \in 1..newSub : subType'[s] \in Types
    <3>1. pub[t] # 0 => pubType[pub[t]] \in Types
      BY <1>a, <2>1 DEF FreshInv, TypePub
    <3>2. 1..newSub \subseteq SubIds
      BY <1>a DEF TypeSub, SubIds
    <3> QED BY <1>a, <2>1, <3>1, <3>2, ConnectType DEF FreshInv, TypeSub
  <2> QED BY <2>1, <2>2 DEF FreshInv
<1>5. ASSUME NEW t \in Threads, AdvertiseRegister(t) PROVE FreshInv'
  BY <1>5, <1>a DEF AdvertiseRegister, pubvars, subvars, TypePub, TypeSub, ControlInv,
      CallsInv, FreshInv, PubPCs, SubscribePCs, UnsubPCs
<1>6. ASSUME NEW t \in Threads, NEW h \in Handles, Unadvertise(t, h) PROVE FreshInv'
  BY <1>6, <1>a DEF Unadvertise, pubvars, subvars, TypePub, TypeSub, ControlInv, CallsInv,
      FreshInv, PubPCs, SubscribePCs, UnsubPCs
<1>7. ASSUME NEW t \in Threads, UnadvertiseRemove(t) PROVE FreshInv'
  BY <1>7, <1>a DEF UnadvertiseRemove, subvars, TypePub, TypeSub, ControlInv, CallsInv,
      FreshInv, PubPCs, SubscribePCs, UnsubPCs
<1>8. ASSUME NEW t \in Threads, UnadvertiseDrop(t) PROVE FreshInv'
  BY <1>8, <1>a DEF UnadvertiseDrop, subvars, TypePub, TypeSub, ControlInv, CallsInv, FreshInv,
      PubPCs, SubscribePCs, UnsubPCs
<1>9. ASSUME NEW t \in Threads, NEW h \in Handles, Subscribe(t, h) PROVE FreshInv'
  <2>1. UNCHANGED <<newPub, pubDropped, pubType, subDropped>>
    BY <1>9 DEF Subscribe, pubvars
  <2>2. CASE UNCHANGED <<newSub, subType>>
    BY <2>1, <2>2 DEF FreshInv
  <2>4. CASE UNCHANGED newSub /\ subType' = Decayed(LiveSubscription, Type[h])
    <3>1. Type[h] \in Types /\ 1..newSub \subseteq SubIds
      BY <1>a DEF TypeSub, Types, SubIds
    <3>2. \A s \in 1..newSub : subType'[s] \in Types
      BY <1>a, <2>4, <3>1 DEF FreshInv, TypeSub, Decayed
    <3> QED BY <2>1, <2>4, <3>2 DEF FreshInv
  <2>3. CASE newSub' = newSub + 1 /\ subType' = [subType EXCEPT ![newSub + 1] = Type[h]]
    <3>1. newSub \in Nat /\ Type[h] \in Types /\ subType \in [SubIds -> Types \cup {NoHandle}]
      BY <1>a DEF TypeSub, Types
    <3>2. \A s \in SubIds : s > newSub' => s > newSub
      BY <2>3, <3>1 DEF SubIds
    <3>3. newSub + 1 \in SubIds \/ UNCHANGED newSub
      BY <1>9, <1>a DEF Subscribe, TypeSub, SubIds
    <3>4. \A s \in 1..newSub' : s \in 1..newSub \/ s = newSub + 1
      BY <2>3, <3>1
    <3>5. \A s \in 1..newSub' : subType'[s] \in Types
      BY <2>3, <3>1, <3>3, <3>4 DEF FreshInv
    <3> QED BY <2>1, <3>2, <3>5 DEF FreshInv
  <2> QED BY <1>9, <2>2, <2>3, <2>4 DEF Subscribe
<1>10. ASSUME NEW t \in Threads, SubscribeFail(t) PROVE FreshInv'
  BY <1>10, <1>a DEF SubscribeFail, pubvars, TypePub, TypeSub, ControlInv, CallsInv, FreshInv,
      PubPCs, SubscribePCs, UnsubPCs
<1>11. ASSUME NEW t \in Threads, SubscribeFind(t) PROVE FreshInv'
  BY <1>11, <1>a DEF SubscribeFind, pubvars, subvars, TypePub, TypeSub, ControlInv, CallsInv,
      FreshInv, PubPCs, SubscribePCs, UnsubPCs
<1>12. ASSUME NEW t \in Threads, SubscribeConnect(t) PROVE FreshInv'
  <2>1. /\ sub[t] \in 0..newSub /\ pub[t] \in 0..newPub /\ AddLocalConnection(sub[t], pub[t])
        /\ UNCHANGED <<newPub, pubDropped, pubType, newSub, subDropped>>
    BY <1>12, <1>a DEF SubscribeConnect, pubvars, ControlInv, CallsInv, PubPCs, SubscribePCs, TypeSub, TypePub
  <2>2. \A s \in 1..newSub : subType'[s] \in Types
    <3>1. pub[t] # 0 => pubType[pub[t]] \in Types
      BY <1>a, <2>1 DEF FreshInv, TypePub
    <3>2. 1..newSub \subseteq SubIds
      BY <1>a DEF TypeSub, SubIds
    <3> QED BY <1>a, <2>1, <3>1, <3>2, ConnectType DEF FreshInv, TypeSub
  <2> QED BY <2>1, <2>2 DEF FreshInv
<1>13. ASSUME NEW t \in Threads, NEW h \in Handles, Unsubscribe(t, h) PROVE FreshInv'
  BY <1>13, <1>a DEF Unsubscribe, pubvars, subvars, TypePub, TypeSub, ControlInv, CallsInv,
      FreshInv, PubPCs, SubscribePCs, UnsubPCs
<1>14. ASSUME NEW t \in Threads, UnsubscribeRemove(t) PROVE FreshInv'
  BY <1>14, <1>a DEF UnsubscribeRemove, pubvars, TypePub, TypeSub, ControlInv, CallsInv,
      FreshInv, PubPCs, SubscribePCs, UnsubPCs
<1>15. ASSUME NEW t \in Threads, UnsubscribeCheck(t) PROVE FreshInv'
  BY <1>15, <1>a DEF UnsubscribeCheck, pubvars, subvars, TypePub, TypeSub, ControlInv,
      CallsInv, FreshInv, PubPCs, SubscribePCs, UnsubPCs
<1>16. ASSUME NEW t \in Threads, UnsubscribeErase(t) PROVE FreshInv'
  BY <1>16, <1>a DEF UnsubscribeErase, pubvars, TypePub, TypeSub, ControlInv, CallsInv,
      FreshInv, PubPCs, SubscribePCs, UnsubPCs
<1>17. ASSUME NEW t \in Threads, UnsubscribeShutdown(t) PROVE FreshInv'
  BY <1>17, <1>a DEF UnsubscribeShutdown, pubvars, TypePub, TypeSub, ControlInv, CallsInv,
      FreshInv, PubPCs, SubscribePCs, UnsubPCs
<1>18. ASSUME NEW t \in Threads, Shutdown(t) PROVE FreshInv'
  BY <1>18, <1>a DEF Shutdown, pubvars, subvars, TypePub, TypeSub, ControlInv, CallsInv,
      FreshInv, PubPCs, SubscribePCs, UnsubPCs
<1>19. ASSUME NEW t \in Threads, ShutdownFlag(t) PROVE FreshInv'
  BY <1>19, <1>a DEF ShutdownFlag, pubvars, subvars, TypePub, TypeSub, ControlInv, CallsInv,
      FreshInv, PubPCs, SubscribePCs, UnsubPCs
<1>20. ASSUME NEW t \in Threads, ShutdownPubs(t) PROVE FreshInv'
  <2>1. \A p \in PubIds : pubDropped'[p] = (pubDropped[p] \/ p \in advertised)
    BY <1>20 DEF ShutdownPubs
  <2>2. \A p \in PubIds : p > newPub => p \notin advertised
    BY <1>a DEF TypePub, PubIds
  <2> QED BY <1>20, <2>1, <2>2 DEF ShutdownPubs, subvars, FreshInv
<1>21. ASSUME NEW t \in Threads, ShutdownSubs(t) PROVE FreshInv'
  <2>1. \A s \in SubIds : subDropped'[s] = (subDropped[s] \/ s \in subscriptions)
    BY <1>21 DEF ShutdownSubs
  <2>2. \A s \in SubIds : s > newSub => s \notin subscriptions
    BY <1>a DEF TypeSub, SubIds
  <2> QED BY <1>21, <2>1, <2>2 DEF ShutdownSubs, pubvars, FreshInv
<1> QED BY <1>0, <1>1, <1>2, <1>3, <1>4, <1>5, <1>6, <1>7, <1>8, <1>9, <1>10, <1>11, <1>12,
    <1>13, <1>14, <1>15, <1>16, <1>17, <1>18, <1>19, <1>20, <1>21 DEF Next

\* All that is kept up together.
OrdInv ==
  /\ ControlInv /\ PubsInv /\ HandlesInv /\ FreshInv
  /\ OnePubInv /\ OneSubInv /\ RegInv /\ ConnInv

\* With at most one publication listed, lookups find it.
LEMMA OneLookup ==
  ASSUME TypePub, OnePubInv
  PROVE  /\ Lookup = IF newPub \in advertised THEN newPub ELSE 0
         /\ Reusable # 0 => Reusable = newPub /\ newPub \in advertised
         /\ Reusable = 0 /\ newPub \in advertised => pubCbs[newPub] = {}
         /\ newPub \in advertised => newPub # 0 /\ newPub \in PubIds
<1>1. /\ newPub \in advertised => ~pubDropped[newPub]
      /\ \A p \in advertised : p = newPub
  BY DEF OnePubInv
<1>2. Lookup = IF newPub \in advertised THEN newPub ELSE 0
  BY <1>1, PubLookups
<1>3. newPub \in advertised => newPub # 0 /\ newPub \in PubIds
  BY DEF TypePub, PubIds
<1> QED BY <1>2, <1>3, PubLookups

\* So for the subscription.
LEMMA OneLive ==
  ASSUME TypeSub, OneSubInv
  PROVE  /\ LiveSubscription = IF newSub \in subscriptions THEN newSub ELSE 0
         /\ newSub \in subscriptions => First(subscriptions) = newSub
         /\ newSub \in subscriptions => newSub # 0 /\ newSub \in SubIds
         /\ subscriptions \ {First(subscriptions)} = {}
<1>1. /\ newSub \in subscriptions => ~subDropped[newSub]
      /\ \A s \in subscriptions : s = newSub
  BY DEF OneSubInv
<1>2. LiveSubscription = IF newSub \in subscriptions THEN newSub ELSE 0
  BY <1>1, SubLookups
<1>3. newSub \in subscriptions => newSub # 0 /\ newSub \in SubIds
  BY DEF TypeSub, SubIds
<1>4. newSub \in subscriptions => First(subscriptions) = newSub
  BY <1>1, SubLookups
<1> QED BY <1>1, <1>2, <1>3, <1>4

\* Handles of one type: the lookup of advertise finds the subscription, and that of
\* subscribe finds no publication of another type.
LEMMA TypesMatch ==
  ASSUME Ordinary, OrdInv
  PROVE  /\ newPub \in PubIds /\ newSub \in subscriptions => MatchingSubscription(newPub) = newSub
         /\ newSub \in SubIds /\ Lookup # 0 => Match(pubType[Lookup], subType[newSub])
<1>1. TypePub /\ TypeSub
  BY TypeGroups DEF OrdInv, ControlInv
<1>2. /\ newPub \in PubIds => pubType[newPub] \in Types
      /\ newSub \in SubIds => subType[newSub] \in Types
  BY <1>1 DEF OrdInv, FreshInv, PubIds, SubIds, TypePub, TypeSub
<1>3. newPub \in PubIds /\ newSub \in subscriptions => MatchingSubscription(newPub) = newSub
  <2>1. newSub \in subscriptions => newSub \in SubIds /\ ~subDropped[newSub]
    BY <1>1, OneLive DEF OrdInv, OneSubInv
  <2>2. \A s \in subscriptions : s = newSub
    BY DEF OrdInv, OneSubInv
  <2> QED BY <1>1, <1>2, <2>1, <2>2, MatchingLookup DEF Ordinary
<1>4. Lookup # 0 => Lookup = newPub /\ newPub \in PubIds
  BY <1>1, OneLookup DEF OrdInv
<1> QED BY <1>2, <1>3, <1>4 DEF Ordinary

\* advertise and unadvertise keep at most one publication, with its publishers.
LEMMA OnePubStep == Ordinary /\ OrdInv /\ [Next]_vars => OnePubInv'
<1> SUFFICES ASSUME Ordinary /\ OrdInv, [Next]_vars PROVE OnePubInv'
  OBVIOUS
<1>a. TypePub /\ TypeThreads
  BY TypeGroups DEF OrdInv, ControlInv
<1>0. CASE UNCHANGED vars
  BY <1>0 DEF vars, OrdInv, OnePubInv
<1>1. ASSUME NEW t \in Threads, NEW h \in Handles, Advertise(t, h) PROVE OnePubInv'
  <2>1. /\ PubThread(t) /\ h \in Publishers /\ pc[t] = "idle" /\ UNCHANGED shuttingDown
        /\ \A u \in Threads : pc[u] \notin PubPCs
    BY <1>1, PubAlone DEF Advertise, PubThread, lockvars, Ordinary, OrdInv, PubPCs
  <2>2. CASE UNCHANGED <<pubvars, pc, cur, pub>> /\ handle' = [handle EXCEPT ![h] = "closed"]
    BY <1>a, <2>1, <2>2 DEF OrdInv, OnePubInv, TypeThreads, pubvars
  <2>3. CASE /\ Reusable # 0 /\ pubCbs' = [pubCbs EXCEPT ![Reusable] = @ \cup {h}]
             /\ handle' = [handle EXCEPT ![h] = "open"]
             /\ UNCHANGED <<advertised, pubDropped, newPub, pc, cur, pub>>
    <3>1. Reusable = newPub /\ newPub \in advertised /\ newPub \in PubIds
      BY <1>a, <2>3, OneLookup DEF OrdInv
    <3>2. pubCbs'[newPub] = pubCbs[newPub] \cup {h}
      BY <1>a, <2>3, <3>1 DEF TypePub
    <3> QED BY <1>a, <2>1, <2>3, <3>1, <3>2 DEF OrdInv, OnePubInv, TypeThreads, AdvPCs, PubPCs
  <2>4. CASE /\ Reusable = 0 /\ newPub < MaxPubs /\ newPub' = newPub + 1 /\ ~shuttingDown
             /\ pubCbs' = [pubCbs EXCEPT ![newPub + 1] = {h}]
             /\ advertised' = advertised \cup {newPub + 1}
             /\ Begin(t, h, "adv_names") /\ pub' = [pub EXCEPT ![t] = newPub + 1]
             /\ handle' = [handle EXCEPT ![h] = "opening"] /\ UNCHANGED pubDropped
    <3>1. newPub \notin advertised
      BY <1>a, <2>1, <2>4, OneLookup DEF OrdInv, OnePubInv, PubPCs
    <3>2. advertised' = {newPub'}
      BY <2>4, <3>1 DEF OrdInv, OnePubInv
    <3>3. newPub' \in PubIds /\ newPub' > newPub
      BY <1>a, <2>4 DEF TypePub, PubIds
    <3>4. pubCbs'[newPub'] = {h} /\ ~pubDropped'[newPub']
      BY <1>a, <2>4, <3>3 DEF TypePub, OrdInv, FreshInv
    <3>5. /\ pc'[t] = "adv_names" /\ cur'[t] = h /\ pub'[t] = newPub'
          /\ \A u \in Threads : u # t => pc'[u] = pc[u]
      BY <1>a, <2>4 DEF Begin, Goto, TypeThreads
    <3>6. \A g \in Publishers : handle'[g] # "open"
      BY <1>a, <2>1, <2>4, <3>1 DEF OrdInv, OnePubInv, TypeThreads
    <3> QED BY <2>1, <3>2, <3>4, <3>5, <3>6 DEF OnePubInv, PubPCs, AdvPCs
  <2> QED BY <1>1, <2>2, <2>3, <2>4 DEF Advertise
<1>2. ASSUME NEW t \in Threads, AdvertiseName(t) PROVE OnePubInv'
  BY <1>2, <1>a DEF AdvertiseName, Goto, pubvars, lockvars, locals, OrdInv, TypeThreads,
      HandlesInv, OnePubInv, PubPCs, AdvPCs, SubscribePCs, UnsubPCs
<1>3. ASSUME NEW t \in Threads, AdvertiseFind(t) PROVE OnePubInv'
  BY <1>3, <1>a DEF AdvertiseFind, Goto, pubvars, lockvars, OrdInv, TypeThreads, HandlesInv,
      OnePubInv, PubPCs, AdvPCs, SubscribePCs, UnsubPCs
<1>4. ASSUME NEW t \in Threads, AdvertiseConnect(t) PROVE OnePubInv'
  BY <1>4, <1>a DEF AdvertiseConnect, Goto, pubvars, lockvars, locals, OrdInv, TypeThreads,
      HandlesInv, OnePubInv, PubPCs, AdvPCs, SubscribePCs, UnsubPCs
<1>5. ASSUME NEW t \in Threads, AdvertiseRegister(t) PROVE OnePubInv'
  <2>1. /\ pc[t] = "adv_register" /\ End(t, "open")
        /\ UNCHANGED <<advertised, newPub, pubDropped, pubCbs, pub, shuttingDown>>
    BY <1>5 DEF AdvertiseRegister, pubvars, locals, lockvars
  <2>2. /\ PubThread(t) /\ cur[t] \in Publishers /\ cur[t] \in pubCbs[newPub]
        /\ shuttingDown \/ newPub \in advertised
    BY <2>1 DEF OrdInv, HandlesInv, OnePubInv, ControlInv, CallsInv, PubPCs, AdvPCs
  <2>3. \A u \in Threads : pc[u] # "unadv_drop" /\ pc'[u] \notin PubPCs
    BY <1>a, <2>1, <2>2, PubAlone DEF End, Goto, TypeThreads, Ordinary, OrdInv, PubPCs
  <2>4. \A g \in Publishers : handle'[g] = "open" => handle[g] = "open" \/ g = cur[t]
    BY <1>a, <2>1 DEF End, TypeThreads
  <2> QED BY <2>1, <2>2, <2>3, <2>4 DEF OrdInv, OnePubInv, PubPCs, AdvPCs
<1>6. ASSUME NEW t \in Threads, NEW h \in Handles, Unadvertise(t, h) PROVE OnePubInv'
  <2>1. /\ PubThread(t) /\ h \in Publishers /\ pc[t] = "idle"
        /\ UNCHANGED <<advertised, newPub, pubDropped, pubCbs, shuttingDown>>
        /\ \A u \in Threads : pc[u] \notin PubPCs
    BY <1>6, PubAlone DEF Unadvertise, PubThread, lockvars, pubvars, Ordinary, OrdInv, PubPCs
  <2>2. CASE UNCHANGED <<pc, cur, pub>> /\ handle' = [handle EXCEPT ![h] = "closed"]
    BY <1>a, <2>1, <2>2 DEF OrdInv, OnePubInv, TypeThreads
  <2>3. CASE /\ Lookup # 0 /\ Begin(t, h, "unadv_remove") /\ pub' = [pub EXCEPT ![t] = Lookup]
             /\ handle' = [handle EXCEPT ![h] = "closing"]
    <3>1. Lookup = newPub /\ newPub \in advertised
      BY <1>a, <2>3, OneLookup DEF OrdInv
    <3>2. /\ pc'[t] = "unadv_remove" /\ pub'[t] = newPub
          /\ \A u \in Threads : u # t => pc'[u] = pc[u]
      BY <1>a, <2>3, <3>1 DEF Begin, Goto, TypeThreads
    <3>3. \A g \in Publishers : handle'[g] = "open" => handle[g] = "open"
      BY <1>a, <2>3 DEF TypeThreads
    <3> QED BY <2>1, <3>1, <3>2, <3>3 DEF OrdInv, OnePubInv, PubPCs, AdvPCs
  <2> QED BY <1>6, <2>2, <2>3 DEF Unadvertise
<1>7. ASSUME NEW t \in Threads, UnadvertiseRemove(t) PROVE OnePubInv'
  <2>1. /\ pc[t] = "unadv_remove" /\ pc' = [pc EXCEPT ![t] = "unadv_drop"]
        /\ pubCbs' = [pubCbs EXCEPT ![pub[t]] = @ \ {cur[t]}]
        /\ UNCHANGED <<advertised, newPub, pubDropped, pub, shuttingDown, handle>>
    BY <1>7 DEF UnadvertiseRemove, Goto, locals, lockvars
  <2>2. /\ PubThread(t) /\ pub[t] = newPub /\ newPub \in PubIds /\ handle[cur[t]] = "closing"
        /\ shuttingDown \/ newPub \in advertised
    BY <1>a, <2>1 DEF OrdInv, HandlesInv, OnePubInv, ControlInv, CallsInv, PubPCs, TypePub, PubIds
  <2>3. \A u \in Threads : u # t => pc'[u] \notin PubPCs
    BY <1>a, <2>1, <2>2, PubAlone DEF TypeThreads, Ordinary, OrdInv
  <2>4. pc'[t] = "unadv_drop" /\ pubCbs'[newPub] = pubCbs[newPub] \ {cur[t]}
    BY <1>a, <2>1, <2>2 DEF TypeThreads, TypePub
  <2> QED BY <2>1, <2>2, <2>3, <2>4 DEF OrdInv, OnePubInv, PubPCs, AdvPCs
<1>8. ASSUME NEW t \in Threads, UnadvertiseDrop(t) PROVE OnePubInv'
  <2>1. /\ pc[t] = "unadv_drop" /\ End(t, "closed")
        /\ UNCHANGED <<newPub, pubCbs, pub, shuttingDown>>
    BY <1>8 DEF UnadvertiseDrop, locals, lockvars
  <2>2. PubThread(t) /\ pub[t] = newPub
    BY <2>1 DEF OrdInv, OnePubInv, ControlInv, CallsInv, PubPCs
  <2>3. \A u \in Threads : pc'[u] \notin PubPCs
    BY <1>a, <2>1, <2>2, PubAlone DEF End, Goto, TypeThreads, Ordinary, OrdInv, PubPCs
  <2>4. \A g \in Publishers : handle'[g] = "open" => handle[g] = "open"
    BY <1>a, <2>1 DEF End, TypeThreads
  <2>5. CASE pubCbs[newPub] # {} /\ UNCHANGED <<pubDropped, advertised>>
    BY <2>1, <2>3, <2>4, <2>5 DEF OrdInv, OnePubInv, PubPCs, AdvPCs
  <2>6. CASE pubCbs[newPub] = {} /\ advertised' \in Erased(t)
    <3>1. advertised' = {}
      BY <2>1, <2>2, <2>6 DEF Erased, OrdInv, OnePubInv, PubsInv
    <3>2. ~shuttingDown => \A g \in Publishers : handle[g] # "open"
      BY <2>6 DEF OrdInv, OnePubInv
    <3> QED BY <2>1, <2>3, <2>4, <3>1, <3>2 DEF OnePubInv, PubPCs, AdvPCs
  <2> QED BY <1>8, <2>2, <2>5, <2>6 DEF UnadvertiseDrop
<1>9. ASSUME NEW t \in Threads, NEW h \in Handles, Subscribe(t, h) PROVE OnePubInv'
  <2>1. /\ h \in Subscribers /\ h \notin Publishers /\ pc[t] = "idle"
        /\ UNCHANGED <<advertised, newPub, pubDropped, pubCbs, pub, shuttingDown>>
    BY <1>9 DEF Subscribe, pubvars
  <2>2. \A g \in Publishers : handle'[g] = handle[g]
    BY <1>9, <1>a, <2>1 DEF Subscribe, TypeThreads, Handles
  <2>3. CASE UNCHANGED <<pc, cur>>
    BY <2>1, <2>2, <2>3 DEF OrdInv, OnePubInv
  <2>4. CASE Begin(t, h, "sub_find") \/ Begin(t, h, "sub_fail")
    <3>1. /\ pc'[t] \in {"sub_find", "sub_fail"}
          /\ \A u \in Threads : u # t => pc'[u] = pc[u] /\ cur'[u] = cur[u]
      BY <1>a, <2>4 DEF Begin, Goto, TypeThreads
    <3> QED BY <2>1, <2>2, <3>1 DEF OrdInv, OnePubInv, PubPCs, AdvPCs
  <2> QED BY <1>9, <2>3, <2>4 DEF Subscribe
<1>10. ASSUME NEW t \in Threads, SubscribeFail(t) PROVE OnePubInv'
  BY <1>10, <1>a DEF SubscribeFail, Goto, End, pubvars, locals, OrdInv, TypeThreads,
      HandlesInv, OnePubInv, PubPCs, AdvPCs, SubscribePCs, UnsubPCs
<1>11. ASSUME NEW t \in Threads, SubscribeFind(t) PROVE OnePubInv'
  BY <1>11, <1>a DEF SubscribeFind, Goto, pubvars, lockvars, OrdInv, TypeThreads, HandlesInv,
      OnePubInv, PubPCs, AdvPCs, SubscribePCs, UnsubPCs
<1>12. ASSUME NEW t \in Threads, SubscribeConnect(t) PROVE OnePubInv'
  BY <1>12, <1>a DEF SubscribeConnect, Goto, End, pubvars, locals, OrdInv, TypeThreads,
      HandlesInv, OnePubInv, PubPCs, AdvPCs, SubscribePCs, UnsubPCs
<1>13. ASSUME NEW t \in Threads, NEW h \in Handles, Unsubscribe(t, h) PROVE OnePubInv'
  <2>1. /\ h \in Subscribers /\ h \notin Publishers /\ pc[t] = "idle"
        /\ UNCHANGED <<advertised, newPub, pubDropped, pubCbs, pub, shuttingDown>>
    BY <1>13 DEF Unsubscribe, pubvars, lockvars
  <2>2. \A g \in Publishers : handle'[g] = handle[g]
    BY <1>13, <1>a, <2>1 DEF Unsubscribe, TypeThreads, Handles
  <2>3. CASE UNCHANGED <<pc, cur>>
    BY <2>1, <2>2, <2>3 DEF OrdInv, OnePubInv
  <2>4. CASE Begin(t, h, "unsub_remove")
    <3>1. /\ pc'[t] = "unsub_remove"
          /\ \A u \in Threads : u # t => pc'[u] = pc[u] /\ cur'[u] = cur[u]
      BY <1>a, <2>4 DEF Begin, Goto, TypeThreads
    <3> QED BY <2>1, <2>2, <3>1 DEF OrdInv, OnePubInv, PubPCs, AdvPCs
  <2> QED BY <1>13, <2>3, <2>4 DEF Unsubscribe
<1>14. ASSUME NEW t \in Threads, UnsubscribeRemove(t) PROVE OnePubInv'
  BY <1>14, <1>a DEF UnsubscribeRemove, Goto, pubvars, lockvars, locals, OrdInv, TypeThreads,
      HandlesInv, OnePubInv, PubPCs, AdvPCs, SubscribePCs, UnsubPCs
<1>15. ASSUME NEW t \in Threads, UnsubscribeCheck(t) PROVE OnePubInv'
  <2>1. /\ pc[t] = "unsub_check"
        /\ UNCHANGED <<advertised, newPub, pubDropped, pubCbs, pub, shuttingDown>>
    BY <1>15 DEF UnsubscribeCheck, pubvars, lockvars, locals
  <2>2. /\ pc'[t] \in {"unsub_erase", "idle"}
        /\ \A u \in Threads : u # t => pc'[u] = pc[u] /\ cur'[u] = cur[u]
    BY <1>15, <1>a DEF UnsubscribeCheck, End, Goto, TypeThreads
  <2>3. \A g \in Publishers : handle'[g] = "open" => handle[g] = "open"
    BY <1>15, <1>a DEF UnsubscribeCheck, End, TypeThreads, Handles
  <2> QED BY <2>1, <2>2, <2>3 DEF OrdInv, OnePubInv, PubPCs, AdvPCs
<1>16. ASSUME NEW t \in Threads, UnsubscribeErase(t) PROVE OnePubInv'
  BY <1>16, <1>a DEF UnsubscribeErase, Goto, pubvars, lockvars, locals, OrdInv, TypeThreads,
      HandlesInv, OnePubInv, PubPCs, AdvPCs, SubscribePCs, UnsubPCs
<1>17. ASSUME NEW t \in Threads, UnsubscribeShutdown(t) PROVE OnePubInv'
  BY <1>17, <1>a DEF UnsubscribeShutdown, Goto, End, pubvars, lockvars, locals, OrdInv,
      TypeThreads, HandlesInv, OnePubInv, PubPCs, AdvPCs, SubscribePCs, UnsubPCs
<1>18. ASSUME NEW t \in Threads, Shutdown(t) PROVE OnePubInv'
  BY <1>18, <1>a DEF Shutdown, Goto, pubvars, locals, OrdInv, TypeThreads, HandlesInv,
      OnePubInv, PubPCs, AdvPCs, SubscribePCs, UnsubPCs
<1>19. ASSUME NEW t \in Threads, ShutdownFlag(t) PROVE OnePubInv'
  BY <1>19, <1>a DEF ShutdownFlag, Goto, pubvars, locals, OrdInv, TypeThreads, HandlesInv,
      OnePubInv, PubPCs, AdvPCs, SubscribePCs, UnsubPCs
<1>20. ASSUME NEW t \in Threads, ShutdownPubs(t) PROVE OnePubInv'
  <2>1. /\ advertised' = {} /\ shuttingDown' = shuttingDown /\ shuttingDown
        /\ pc' = [pc EXCEPT ![t] = "down_subs"] /\ UNCHANGED <<newPub, pubCbs, pub, cur>>
    BY <1>20 DEF ShutdownPubs, Goto, lockvars, locals, OrdInv, ControlInv, DownInv, DownPCs
  <2> QED BY <1>a, <2>1 DEF OrdInv, OnePubInv, TypeThreads, PubPCs, AdvPCs
<1>21. ASSUME NEW t \in Threads, ShutdownSubs(t) PROVE OnePubInv'
  BY <1>21, <1>a DEF ShutdownSubs, Goto, pubvars, lockvars, locals, OrdInv, TypeThreads,
      HandlesInv, OnePubInv, PubPCs, AdvPCs, SubscribePCs, UnsubPCs
<1> QED BY <1>0, <1>1, <1>2, <1>3, <1>4, <1>5, <1>6, <1>7, <1>8, <1>9, <1>10, <1>11, <1>12,
    <1>13, <1>14, <1>15, <1>16, <1>17, <1>18, <1>19, <1>20, <1>21 DEF Next

\* subscribe and unsubscribe keep at most one subscription, with its subscribers.
LEMMA OneSubStep == Ordinary /\ OrdInv /\ [Next]_vars => OneSubInv'
<1> SUFFICES ASSUME Ordinary /\ OrdInv, [Next]_vars PROVE OneSubInv'
  OBVIOUS
<1>a. TypePub /\ TypeSub /\ TypeThreads
  BY TypeGroups DEF OrdInv, ControlInv
<1>0. CASE UNCHANGED vars
  BY <1>0 DEF vars, OrdInv, OneSubInv
<1>1. ASSUME NEW t \in Threads, NEW h \in Handles, Advertise(t, h) PROVE OneSubInv'
  <2>1. /\ h \in Publishers /\ h \notin Subscribers /\ pc[t] = "idle"
        /\ UNCHANGED <<subscriptions, newSub, subDropped, subCbs, sub, shuttingDown>>
    BY <1>1 DEF Advertise, subvars, lockvars
  <2>2. \A g \in Subscribers : handle'[g] = handle[g]
    BY <1>1, <1>a, <2>1 DEF Advertise, TypeThreads, Handles
  <2>3. CASE UNCHANGED <<pc, cur>>
    BY <2>1, <2>2, <2>3 DEF OrdInv, OneSubInv
  <2>4. CASE Begin(t, h, "adv_names")
    <3>1. /\ pc'[t] = "adv_names"
          /\ \A u \in Threads : u # t => pc'[u] = pc[u] /\ cur'[u] = cur[u]
      BY <1>a, <2>4 DEF Begin, Goto, TypeThreads
    <3> QED BY <2>1, <2>2, <3>1 DEF OrdInv, OneSubInv, SubscribePCs, UnsubPCs
  <2> QED BY <1>1, <2>3, <2>4 DEF Advertise
<1>2. ASSUME NEW t \in Threads, AdvertiseName(t) PROVE OneSubInv'
  BY <1>2, <1>a DEF AdvertiseName, Goto, subvars, lockvars, locals, OrdInv, TypeThreads,
      HandlesInv, OneSubInv, PubPCs, SubscribePCs, UnsubPCs, Handles
<1>3. ASSUME NEW t \in Threads, AdvertiseFind(t) PROVE OneSubInv'
  BY <1>3, <1>a DEF AdvertiseFind, Goto, subvars, lockvars, OrdInv, TypeThreads, HandlesInv,
      OneSubInv, PubPCs, SubscribePCs, UnsubPCs, Handles
<1>4. ASSUME NEW t \in Threads, AdvertiseConnect(t) PROVE OneSubInv'
  BY <1>4, <1>a DEF AdvertiseConnect, Goto, subvars, lockvars, locals, OrdInv, TypeThreads,
      HandlesInv, OneSubInv, PubPCs, SubscribePCs, UnsubPCs, Handles
<1>5. ASSUME NEW t \in Threads, AdvertiseRegister(t) PROVE OneSubInv'
  BY <1>5, <1>a DEF AdvertiseRegister, Goto, End, subvars, lockvars, locals, OrdInv,
      TypeThreads, HandlesInv, OneSubInv, PubPCs, SubscribePCs, UnsubPCs, Handles
<1>6. ASSUME NEW t \in Threads, NEW h \in Handles, Unadvertise(t, h) PROVE OneSubInv'
  <2>1. /\ h \in Publishers /\ h \notin Subscribers /\ pc[t] = "idle"
        /\ UNCHANGED <<subscriptions, newSub, subDropped, subCbs, sub, shuttingDown>>
    BY <1>6 DEF Unadvertise, subvars, lockvars
  <2>2. \A g \in Subscribers : handle'[g] = handle[g]
    BY <1>6, <1>a, <2>1 DEF Unadvertise, TypeThreads, Handles
  <2>3. CASE UNCHANGED <<pc, cur>>
    BY <2>1, <2>2, <2>3 DEF OrdInv, OneSubInv
  <2>4. CASE Begin(t, h, "unadv_remove")
    <3>1. /\ pc'[t] = "unadv_remove"
          /\ \A u \in Threads : u # t => pc'[u] = pc[u] /\ cur'[u] = cur[u]
      BY <1>a, <2>4 DEF Begin, Goto, TypeThreads
    <3> QED BY <2>1, <2>2, <3>1 DEF OrdInv, OneSubInv, SubscribePCs, UnsubPCs
  <2> QED BY <1>6, <2>3, <2>4 DEF Unadvertise
<1>7. ASSUME NEW t \in Threads, UnadvertiseRemove(t) PROVE OneSubInv'
  BY <1>7, <1>a DEF UnadvertiseRemove, Goto, subvars, lockvars, locals, OrdInv, TypeThreads,
      HandlesInv, OneSubInv, PubPCs, SubscribePCs, UnsubPCs, Handles
<1>8. ASSUME NEW t \in Threads, UnadvertiseDrop(t) PROVE OneSubInv'
  BY <1>8, <1>a DEF UnadvertiseDrop, Goto, End, subvars, lockvars, locals, OrdInv, TypeThreads,
      HandlesInv, OneSubInv, PubPCs, SubscribePCs, UnsubPCs, Handles
<1>9. ASSUME NEW t \in Threads, NEW h \in Handles, Subscribe(t, h) PROVE OneSubInv'
  <2>1. /\ SubThread(t) /\ h \in Subscribers /\ pc[t] = "idle" /\ UNCHANGED <<subscriptions, subDropped, shuttingDown>>
        /\ \A u \in Threads : pc[u] \notin SubscribePCs \cup UnsubPCs
    BY <1>9, SubAlone DEF Subscribe, SubThread, lockvars, subvars, Ordinary, OrdInv, SubscribePCs, UnsubPCs
  <2>2. CASE UNCHANGED <<subCbs, newSub, pc, cur, sub>> /\ handle' = [handle EXCEPT ![h] = "closed"]
    BY <1>a, <2>1, <2>2 DEF OrdInv, OneSubInv, TypeThreads, Handles
  <2>3. CASE /\ LiveSubscription # 0
             /\ subCbs' = [subCbs EXCEPT ![LiveSubscription] = @ \cup {h}]
             /\ handle' = [handle EXCEPT ![h] = "open"] /\ UNCHANGED <<newSub, pc, cur, sub>>
    <3>1. LiveSubscription = newSub /\ newSub \in subscriptions /\ newSub \in SubIds
      BY <1>a, <2>3, OneLive DEF OrdInv
    <3>2. subCbs'[newSub] = subCbs[newSub] \cup {h}
      BY <1>a, <2>3, <3>1 DEF TypeSub
    <3> QED
      BY <1>a, <2>1, <2>3, <3>1, <3>2
      DEF OrdInv, OneSubInv, TypeThreads, SubscribePCs, UnsubPCs, Handles
  <2>4. CASE /\ LiveSubscription = 0 /\ newSub < MaxSubs /\ newSub' = newSub + 1 /\ ~shuttingDown
             /\ subCbs' = [subCbs EXCEPT ![newSub + 1] = {h}]
             /\ sub' = [sub EXCEPT ![t] = newSub + 1]
             /\ handle' = [handle EXCEPT ![h] = "opening"]
             /\ Begin(t, h, "sub_find") \/ (MasterMayFail /\ Begin(t, h, "sub_fail"))
    <3>1. subscriptions = {}
      BY <1>a, <2>4, OneLive DEF OrdInv, OneSubInv
    <3>2. newSub' \in SubIds /\ newSub' > newSub
      BY <1>a, <2>4 DEF TypeSub, SubIds
    <3>3. subCbs'[newSub'] = {h} /\ ~subDropped[newSub']
      BY <1>a, <2>4, <3>2 DEF TypeSub, OrdInv, FreshInv
    <3>4. /\ pc'[t] = "sub_find" /\ cur'[t] = h /\ sub'[t] = newSub'
          /\ \A u \in Threads : u # t => pc'[u] = pc[u]
      BY <1>a, <2>4 DEF Begin, Goto, TypeThreads, Ordinary
    <3>5. \A g \in Subscribers : handle'[g] # "open"
      BY <1>a, <2>1, <2>4, <3>1 DEF OrdInv, OneSubInv, TypeThreads, Handles
    <3> QED BY <2>1, <3>1, <3>3, <3>4, <3>5 DEF OneSubInv, SubscribePCs, UnsubPCs
  <2> QED BY <1>9, <2>2, <2>3, <2>4 DEF Subscribe
<1>10. ASSUME NEW t \in Threads, SubscribeFail(t) PROVE OneSubInv'
  <2> QED BY <1>10 DEF SubscribeFail, OrdInv, OneSubInv, SubscribePCs
<1>11. ASSUME NEW t \in Threads, SubscribeFind(t) PROVE OneSubInv'
  <2>1. pc[t] = "sub_find" /\ UNCHANGED <<handle, subvars, shuttingDown, cur, sub>>
    BY <1>11 DEF SubscribeFind, lockvars
  <2>2. SubThread(t) /\ sub[t] = newSub /\ newSub \in SubIds
    BY <1>a, <2>1 DEF OrdInv, OneSubInv, ControlInv, CallsInv, SubscribePCs, UnsubPCs, TypeSub, SubIds
  <2>3. \A u \in Threads : u # t => pc[u] \notin SubscribePCs \cup UnsubPCs
    BY <2>2, SubAlone DEF Ordinary, OrdInv
  <2>4. pc' = [pc EXCEPT ![t] = "sub_connect"]
    BY <1>11, <2>2, TypesMatch DEF SubscribeFind, Goto, Conflict
  <2> QED BY <1>a, <2>1, <2>4 DEF OrdInv, OneSubInv, subvars, TypeThreads, SubscribePCs, UnsubPCs
<1>12. ASSUME NEW t \in Threads, SubscribeConnect(t) PROVE OneSubInv'
  <2>1. /\ pc[t] = "sub_connect" /\ End(t, "open") /\ subscriptions' = subscriptions \cup {sub[t]}
        /\ UNCHANGED <<newSub, subDropped, subCbs, sub, shuttingDown>>
    BY <1>12 DEF SubscribeConnect, locals
  <2>2. SubThread(t) /\ sub[t] = newSub /\ newSub \in SubIds
    BY <1>a, <2>1 DEF OrdInv, OneSubInv, ControlInv, CallsInv, SubscribePCs, UnsubPCs, TypeSub, SubIds
  <2>3. \A u \in Threads : u # t => pc[u] \notin SubscribePCs \cup UnsubPCs
    BY <2>2, SubAlone DEF Ordinary, OrdInv
  <2>4. cur[t] \in subCbs[newSub] /\ ~subDropped[newSub] /\ newSub \notin subscriptions
    BY <2>1 DEF OrdInv, OneSubInv, SubscribePCs
  <2>5. subscriptions' = {newSub} /\ \A u \in Threads : pc'[u] \notin SubscribePCs \cup UnsubPCs
    BY <1>a, <2>1, <2>2, <2>3 DEF OrdInv, OneSubInv, End, Goto, TypeThreads, SubscribePCs, UnsubPCs
  <2>6. \A g \in Subscribers : handle'[g] = "open" => handle[g] = "open" \/ g = cur[t]
    BY <1>a, <2>1 DEF End, TypeThreads, Handles
  <2> QED BY <2>1, <2>4, <2>5, <2>6 DEF OrdInv, OneSubInv, SubscribePCs, UnsubPCs
<1>13. ASSUME NEW t \in Threads, NEW h \in Handles, Unsubscribe(t, h) PROVE OneSubInv'
  <2>1. /\ SubThread(t) /\ h \in Subscribers /\ pc[t] = "idle" /\ UNCHANGED <<subscriptions, newSub, subDropped, subCbs, shuttingDown>>
        /\ \A u \in Threads : pc[u] \notin SubscribePCs \cup UnsubPCs
    BY <1>13, SubAlone DEF Unsubscribe, SubThread, lockvars, subvars, Ordinary, OrdInv, SubscribePCs, UnsubPCs
  <2>2. CASE UNCHANGED <<pc, cur, sub>> /\ handle' = [handle EXCEPT ![h] = "closed"]
    BY <1>a, <2>1, <2>2 DEF OrdInv, OneSubInv, TypeThreads, Handles
  <2>3. CASE /\ subscriptions # {} /\ Begin(t, h, "unsub_remove")
             /\ handle' = [handle EXCEPT ![h] = "closing"]
             /\ sub' = [sub EXCEPT ![t] = First(subscriptions)]
    <3>1. First(subscriptions) = newSub
      BY <1>a, <2>3, OneLive DEF OrdInv, OneSubInv
    <3>2. /\ pc'[t] = "unsub_remove" /\ sub'[t] = newSub
          /\ \A u \in Threads : u # t => pc'[u] = pc[u]
      BY <1>a, <2>3, <3>1 DEF Begin, Goto, TypeThreads
    <3>3. \A g \in Subscribers : handle'[g] = "open" => handle[g] = "open"
      BY <1>a, <2>3 DEF TypeThreads, Handles
    <3> QED BY <2>1, <3>2, <3>3 DEF OrdInv, OneSubInv, SubscribePCs, UnsubPCs
  <2> QED BY <1>13, <2>2, <2>3 DEF Unsubscribe
<1>14. ASSUME NEW t \in Threads, UnsubscribeRemove(t) PROVE OneSubInv'
  <2>1. /\ pc[t] = "unsub_remove" /\ pc' = [pc EXCEPT ![t] = "unsub_check"]
        /\ subCbs' = [subCbs EXCEPT ![sub[t]] = @ \ {cur[t]}]
        /\ UNCHANGED <<subscriptions, newSub, subDropped, sub, shuttingDown, handle>>
    BY <1>14 DEF UnsubscribeRemove, Goto, locals, lockvars
  <2>2. SubThread(t) /\ sub[t] = newSub /\ newSub \in SubIds
    BY <1>a, <2>1 DEF OrdInv, OneSubInv, ControlInv, CallsInv, SubscribePCs, UnsubPCs, TypeSub, SubIds
  <2>3. \A u \in Threads : u # t => pc[u] \notin SubscribePCs \cup UnsubPCs
    BY <2>2, SubAlone DEF Ordinary, OrdInv
  <2>4. handle[cur[t]] = "closing"
    BY <2>1 DEF OrdInv, HandlesInv
  <2>5. /\ pc'[t] = "unsub_check" /\ subCbs'[newSub] = subCbs[newSub] \ {cur[t]}
        /\ \A u \in Threads : u # t => pc'[u] = pc[u]
    BY <1>a, <2>1, <2>2 DEF TypeThreads, TypeSub
  <2> QED BY <2>1, <2>2, <2>3, <2>4, <2>5 DEF OrdInv, OneSubInv, SubscribePCs, UnsubPCs
<1>15. ASSUME NEW t \in Threads, UnsubscribeCheck(t) PROVE OneSubInv'
  <2>1. pc[t] = "unsub_check" /\ UNCHANGED <<subvars, sub, shuttingDown>>
    BY <1>15 DEF UnsubscribeCheck, locals, lockvars
  <2>2. SubThread(t) /\ sub[t] = newSub /\ newSub \in SubIds
    BY <1>a, <2>1 DEF OrdInv, OneSubInv, ControlInv, CallsInv, SubscribePCs, UnsubPCs, TypeSub, SubIds
  <2>3. \A u \in Threads : u # t => pc[u] \notin SubscribePCs \cup UnsubPCs
    BY <2>2, SubAlone DEF Ordinary, OrdInv
  <2>4. /\ pc'[t] \in {"unsub_erase", "idle"} /\ \A u \in Threads : u # t => pc'[u] = pc[u]
        /\ pc'[t] = "unsub_erase" => subCbs[newSub] = {}
    BY <1>15, <1>a, <2>2 DEF UnsubscribeCheck, End, Goto, TypeThreads
  <2>5. \A g \in Subscribers : handle'[g] = "open" => handle[g] = "open"
    BY <1>15, <1>a DEF UnsubscribeCheck, End, TypeThreads, Handles
  <2> QED BY <2>1, <2>2, <2>3, <2>4, <2>5 DEF OrdInv, OneSubInv, subvars, SubscribePCs, UnsubPCs
<1>16. ASSUME NEW t \in Threads, UnsubscribeErase(t) PROVE OneSubInv'
  <2>1. /\ pc[t] = "unsub_erase" /\ pc' = [pc EXCEPT ![t] = "unsub_shutdown"]
        /\ subscriptions' = subscriptions \ {First(subscriptions)}
        /\ UNCHANGED <<newSub, subDropped, subCbs, sub, shuttingDown, handle>>
    BY <1>16 DEF UnsubscribeErase, Goto, locals, lockvars
  <2>2. SubThread(t) /\ sub[t] = newSub /\ newSub \in SubIds
    BY <1>a, <2>1 DEF OrdInv, OneSubInv, ControlInv, CallsInv, SubscribePCs, UnsubPCs, TypeSub, SubIds
  <2>3. \A u \in Threads : u # t => pc[u] \notin SubscribePCs \cup UnsubPCs
    BY <2>2, SubAlone DEF Ordinary, OrdInv
  <2>4. subscriptions' = {} /\ subCbs[newSub] = {}
    BY <1>a, <2>1, OneLive DEF OrdInv, OneSubInv
  <2>5. pc'[t] = "unsub_shutdown" /\ \A u \in Threads : u # t => pc'[u] = pc[u]
    BY <1>a, <2>1 DEF TypeThreads
  <2> QED BY <2>1, <2>2, <2>3, <2>4, <2>5 DEF OrdInv, OneSubInv, SubscribePCs, UnsubPCs
<1>17. ASSUME NEW t \in Threads, UnsubscribeShutdown(t) PROVE OneSubInv'
  <2>1. /\ pc[t] = "unsub_shutdown" /\ End(t, "closed")
        /\ subDropped' = [subDropped EXCEPT ![sub[t]] = TRUE]
        /\ UNCHANGED <<subscriptions, newSub, subCbs, sub, shuttingDown>>
    BY <1>17 DEF UnsubscribeShutdown, locals, lockvars
  <2>2. SubThread(t) /\ sub[t] = newSub /\ newSub \in SubIds
    BY <1>a, <2>1 DEF OrdInv, OneSubInv, ControlInv, CallsInv, SubscribePCs, UnsubPCs, TypeSub, SubIds
  <2>3. \A u \in Threads : u # t => pc[u] \notin SubscribePCs \cup UnsubPCs
    BY <2>2, SubAlone DEF Ordinary, OrdInv
  <2>4. newSub \notin subscriptions /\ \A u \in Threads : pc'[u] \notin SubscribePCs \cup UnsubPCs
    BY <1>a, <2>1, <2>3 DEF OrdInv, OneSubInv, End, Goto, TypeThreads, SubscribePCs, UnsubPCs
  <2>5. \A g \in Subscribers : handle'[g] = "open" => handle[g] = "open"
    BY <1>a, <2>1 DEF End, TypeThreads, Handles
  <2> QED BY <2>1, <2>4, <2>5 DEF OrdInv, OneSubInv, SubscribePCs, UnsubPCs
<1>18. ASSUME NEW t \in Threads, Shutdown(t) PROVE OneSubInv'
  BY <1>18, <1>a DEF Shutdown, Goto, subvars, locals, OrdInv, TypeThreads, HandlesInv,
      OneSubInv, PubPCs, SubscribePCs, UnsubPCs, Handles
<1>19. ASSUME NEW t \in Threads, ShutdownFlag(t) PROVE OneSubInv'
  BY <1>19, <1>a DEF ShutdownFlag, Goto, subvars, locals, OrdInv, TypeThreads, HandlesInv,
      OneSubInv, PubPCs, SubscribePCs, UnsubPCs, Handles
<1>20. ASSUME NEW t \in Threads, ShutdownPubs(t) PROVE OneSubInv'
  BY <1>20, <1>a DEF ShutdownPubs, Goto, subvars, lockvars, locals, OrdInv, TypeThreads,
      HandlesInv, OneSubInv, PubPCs, SubscribePCs, UnsubPCs, Handles
<1>21. ASSUME NEW t \in Threads, ShutdownSubs(t) PROVE OneSubInv'
  <2>1. /\ pc[t] = "down_subs" /\ pc' = [pc EXCEPT ![t] = "idle"] /\ subscriptions' = {}
        /\ subsLock = NoThread /\ shuttingDown /\ UNCHANGED <<newSub, subCbs, sub, cur, shuttingDown>>
    BY <1>21 DEF ShutdownSubs, Goto, SubsFree, locals, lockvars, OrdInv, ControlInv, DownInv, DownPCs
  <2>2. \A u \in Threads : pc'[u] \notin SubscribePCs
    BY <1>a, <2>1 DEF OrdInv, ControlInv, LocksInv, TypeThreads, SubscribePCs
  <2>3. \A u \in Threads : pc'[u] = pc[u] \/ pc'[u] = "idle"
    BY <1>a, <2>1 DEF TypeThreads
  <2> QED BY <2>1, <2>2, <2>3 DEF OrdInv, OneSubInv, UnsubPCs
<1> QED BY <1>0, <1>1, <1>2, <1>3, <1>4, <1>5, <1>6, <1>7, <1>8, <1>9, <1>10, <1>11, <1>12,
    <1>13, <1>14, <1>15, <1>16, <1>17, <1>18, <1>19, <1>20, <1>21 DEF Next

\* Registrations follow the lists.
LEMMA RegStep == Ordinary /\ OrdInv /\ [Next]_vars => RegInv'
<1> SUFFICES ASSUME Ordinary /\ OrdInv, [Next]_vars PROVE RegInv'
  OBVIOUS
<1>a. TypePub /\ TypeSub /\ TypeThreads
  BY TypeGroups DEF OrdInv, ControlInv
<1>0. CASE UNCHANGED vars
  BY <1>0 DEF vars, OrdInv, RegInv
<1>1. ASSUME NEW t \in Threads, NEW h \in Handles, Advertise(t, h) PROVE RegInv'
  <2>1. pc[t] = "idle" /\ UNCHANGED <<names, subvars, mastervars, shuttingDown>>
    BY <1>1 DEF Advertise, lockvars
  <2>2. CASE UNCHANGED <<advertised, newPub, pc>>
    BY <2>1, <2>2 DEF OrdInv, RegInv, subvars, mastervars
  <2>3. CASE /\ newPub' = newPub + 1 /\ advertised' = advertised \cup {newPub + 1}
             /\ Begin(t, h, "adv_names")
    <3>1. pc'[t] = "adv_names" /\ \A u \in Threads : u # t => pc'[u] = pc[u]
      BY <1>a, <2>3 DEF Begin, Goto, TypeThreads
    <3> QED BY <2>1, <2>3, <3>1 DEF OrdInv, RegInv, AdvPCs, SubscribePCs, subvars, mastervars
  <2> QED BY <1>1, <2>2, <2>3 DEF Advertise, pubvars
<1>2. ASSUME NEW t \in Threads, AdvertiseName(t) PROVE RegInv'
  <2>1. /\ pc[t] = "adv_names" /\ pc' = [pc EXCEPT ![t] = "adv_find"] /\ names' = names + 1
        /\ UNCHANGED <<pubvars, subvars, mastervars, shuttingDown>>
    BY <1>2 DEF AdvertiseName, Goto, lockvars
  <2>2. names' > 0
    BY <1>a, <2>1 DEF TypePub
  <2>3. pc'[t] = "adv_find" /\ \A u \in Threads : u # t => pc'[u] = pc[u]
    BY <1>a, <2>1 DEF TypeThreads
  <2> QED
    BY <2>1, <2>2, <2>3 DEF OrdInv, RegInv, AdvPCs, SubscribePCs, pubvars, subvars, mastervars
<1>3. ASSUME NEW t \in Threads, AdvertiseFind(t) PROVE RegInv'
  BY <1>3, <1>a DEF AdvertiseFind, Goto, pubvars, subvars, mastervars, lockvars, OrdInv,
      TypeThreads, RegInv, AdvPCs, SubscribePCs
<1>4. ASSUME NEW t \in Threads, AdvertiseConnect(t) PROVE RegInv'
  BY <1>4, <1>a DEF AdvertiseConnect, Goto, pubvars, subvars, mastervars, lockvars, OrdInv,
      TypeThreads, RegInv, AdvPCs, SubscribePCs
<1>5. ASSUME NEW t \in Threads, AdvertiseRegister(t) PROVE RegInv'
  <2>1. /\ pc[t] = "adv_register" /\ pc' = [pc EXCEPT ![t] = "idle"] /\ regPub'
        /\ UNCHANGED <<pubvars, names, subvars, regSub, shuttingDown>>
    BY <1>5 DEF AdvertiseRegister, Registered, End, Goto, lockvars, Ordinary
  <2>2. shuttingDown \/ newPub \in advertised
    BY <2>1 DEF OrdInv, OnePubInv, PubPCs
  <2>3. pc'[t] = "idle" /\ \A u \in Threads : u # t => pc'[u] = pc[u]
    BY <1>a, <2>1 DEF TypeThreads
  <2> QED BY <2>1, <2>2, <2>3 DEF OrdInv, RegInv, SubscribePCs, pubvars, subvars
<1>6. ASSUME NEW t \in Threads, NEW h \in Handles, Unadvertise(t, h) PROVE RegInv'
  <2>1. pc[t] = "idle" /\ UNCHANGED <<pubvars, names, subvars, mastervars, shuttingDown>>
    BY <1>6 DEF Unadvertise, lockvars
  <2>2. CASE UNCHANGED pc
    BY <2>1, <2>2 DEF OrdInv, RegInv, pubvars, subvars, mastervars
  <2>3. CASE Begin(t, h, "unadv_remove")
    <3>1. pc'[t] = "unadv_remove" /\ \A u \in Threads : u # t => pc'[u] = pc[u]
      BY <1>a, <2>3 DEF Begin, Goto, TypeThreads
    <3> QED BY <2>1, <3>1 DEF OrdInv, RegInv, AdvPCs, SubscribePCs, pubvars, subvars, mastervars
  <2> QED BY <1>6, <2>2, <2>3 DEF Unadvertise
<1>7. ASSUME NEW t \in Threads, UnadvertiseRemove(t) PROVE RegInv'
  BY <1>7, <1>a DEF UnadvertiseRemove, Goto, subvars, mastervars, lockvars, OrdInv,
      TypeThreads, RegInv, AdvPCs, SubscribePCs
<1>8. ASSUME NEW t \in Threads, UnadvertiseDrop(t) PROVE RegInv'
  <2>1. /\ pc[t] = "unadv_drop" /\ pc' = [pc EXCEPT ![t] = "idle"] /\ pub[t] = newPub
        /\ UNCHANGED <<newPub, subvars, regSub, shuttingDown>>
    BY <1>8 DEF UnadvertiseDrop, End, Goto, lockvars, OrdInv, OnePubInv, PubPCs
  <2>2. pc'[t] = "idle" /\ \A u \in Threads : u # t => pc'[u] = pc[u]
    BY <1>a, <2>1 DEF TypeThreads
  <2>3. CASE UNCHANGED <<regPub, advertised, names>>
    BY <2>1, <2>2, <2>3 DEF OrdInv, RegInv, AdvPCs, SubscribePCs, subvars
  <2>4. CASE regPub' \in Unregistered(regPub) /\ advertised' \in Erased(t)
    <3>1. ~regPub' /\ advertised' = {}
      BY <2>1, <2>4 DEF Unregistered, Ordinary, Erased, OrdInv, OnePubInv, PubsInv
    <3> QED BY <2>1, <2>2, <3>1 DEF OrdInv, RegInv, SubscribePCs, subvars
  <2> QED BY <1>8, <2>3, <2>4 DEF UnadvertiseDrop
<1>9. ASSUME NEW t \in Threads, NEW h \in Handles, Subscribe(t, h) PROVE RegInv'
  <2>1. pc[t] = "idle" /\ UNCHANGED <<pubvars, names, subscriptions, regPub, shuttingDown>>
    BY <1>9 DEF Subscribe
  <2>2. CASE UNCHANGED <<newSub, pc, regSub>>
    BY <2>1, <2>2 DEF OrdInv, RegInv, pubvars
  <2>3. CASE regSub' = TRUE /\ Begin(t, h, "sub_find")
    <3>1. pc'[t] = "sub_find" /\ \A u \in Threads : u # t => pc'[u] = pc[u]
      BY <1>a, <2>3 DEF Begin, Goto, TypeThreads
    <3> QED BY <2>1, <2>3, <3>1 DEF OrdInv, RegInv, AdvPCs, SubscribePCs, pubvars
  <2> QED BY <1>9, <2>2, <2>3 DEF Subscribe, Ordinary
<1>10. ASSUME NEW t \in Threads, SubscribeFail(t) PROVE RegInv'
  <2> QED BY <1>10 DEF SubscribeFail, OrdInv, OneSubInv, SubscribePCs
<1>11. ASSUME NEW t \in Threads, SubscribeFind(t) PROVE RegInv'
  BY <1>11, <1>a DEF SubscribeFind, Goto, pubvars, subvars, mastervars, lockvars, OrdInv,
      TypeThreads, RegInv, AdvPCs, SubscribePCs
<1>12. ASSUME NEW t \in Threads, SubscribeConnect(t) PROVE RegInv'
  <2>1. /\ pc[t] = "sub_connect" /\ pc' = [pc EXCEPT ![t] = "idle"]
        /\ subscriptions' = subscriptions \cup {sub[t]} /\ sub[t] = newSub
        /\ UNCHANGED <<pubvars, newSub, names, mastervars, shuttingDown>>
    BY <1>12 DEF SubscribeConnect, End, Goto, OrdInv, OneSubInv, SubscribePCs
  <2>2. pc'[t] = "idle" /\ \A u \in Threads : u # t => pc'[u] = pc[u]
    BY <1>a, <2>1 DEF TypeThreads
  <2> QED BY <2>1, <2>2 DEF OrdInv, RegInv, AdvPCs, SubscribePCs, pubvars, mastervars
<1>13. ASSUME NEW t \in Threads, NEW h \in Handles, Unsubscribe(t, h) PROVE RegInv'
  <2>1. pc[t] = "idle" /\ UNCHANGED <<pubvars, names, subvars, mastervars, shuttingDown>>
    BY <1>13 DEF Unsubscribe, lockvars
  <2>2. CASE UNCHANGED pc
    BY <2>1, <2>2 DEF OrdInv, RegInv, pubvars, subvars, mastervars
  <2>3. CASE Begin(t, h, "unsub_remove")
    <3>1. pc'[t] = "unsub_remove" /\ \A u \in Threads : u # t => pc'[u] = pc[u]
      BY <1>a, <2>3 DEF Begin, Goto, TypeThreads
    <3> QED BY <2>1, <3>1 DEF OrdInv, RegInv, AdvPCs, SubscribePCs, pubvars, subvars, mastervars
  <2> QED BY <1>13, <2>2, <2>3 DEF Unsubscribe
<1>14. ASSUME NEW t \in Threads, UnsubscribeRemove(t) PROVE RegInv'
  BY <1>14, <1>a DEF UnsubscribeRemove, Goto, pubvars, mastervars, lockvars, OrdInv,
      TypeThreads, RegInv, AdvPCs, SubscribePCs
<1>15. ASSUME NEW t \in Threads, UnsubscribeCheck(t) PROVE RegInv'
  BY <1>15, <1>a DEF UnsubscribeCheck, Goto, End, pubvars, subvars, mastervars, lockvars,
      OrdInv, TypeThreads, RegInv, AdvPCs, SubscribePCs
<1>16. ASSUME NEW t \in Threads, UnsubscribeErase(t) PROVE RegInv'
  <2>1. /\ pc[t] = "unsub_erase" /\ pc' = [pc EXCEPT ![t] = "unsub_shutdown"]
        /\ subscriptions' = subscriptions \ {First(subscriptions)} /\ ~regSub'
        /\ UNCHANGED <<pubvars, names, newSub, regPub, shuttingDown>>
    BY <1>16 DEF UnsubscribeErase, Unregistered, Goto, lockvars, Ordinary
  <2>2. SubThread(t) /\ subscriptions' = {}
    BY <1>a, <2>1, OneLive DEF OrdInv, ControlInv, CallsInv, UnsubPCs
  <2>3. pc'[t] = "unsub_shutdown" /\ \A u \in Threads : u # t => pc'[u] = pc[u]
    BY <1>a, <2>1 DEF TypeThreads
  <2>4. \A u \in Threads : pc'[u] \notin SubscribePCs
    BY <2>2, <2>3, SubAlone DEF Ordinary, OrdInv, SubscribePCs
  <2> QED BY <2>1, <2>2, <2>3, <2>4 DEF OrdInv, RegInv, AdvPCs, pubvars
<1>17. ASSUME NEW t \in Threads, UnsubscribeShutdown(t) PROVE RegInv'
  BY <1>17, <1>a DEF UnsubscribeShutdown, Goto, End, pubvars, mastervars, lockvars, OrdInv,
      TypeThreads, RegInv, AdvPCs, SubscribePCs
<1>18. ASSUME NEW t \in Threads, Shutdown(t) PROVE RegInv'
  BY <1>18, <1>a DEF Shutdown, Goto, pubvars, subvars, mastervars, OrdInv, TypeThreads, RegInv,
      AdvPCs, SubscribePCs
<1>19. ASSUME NEW t \in Threads, ShutdownFlag(t) PROVE RegInv'
  <2> QED BY <1>19 DEF ShutdownFlag, RegInv
<1>20. ASSUME NEW t \in Threads, ShutdownPubs(t) PROVE RegInv'
  <2> QED BY <1>20 DEF ShutdownPubs, RegInv, OrdInv, ControlInv, DownInv, DownPCs, lockvars
<1>21. ASSUME NEW t \in Threads, ShutdownSubs(t) PROVE RegInv'
  <2> QED BY <1>21 DEF ShutdownSubs, RegInv, OrdInv, ControlInv, DownInv, DownPCs, lockvars
<1> QED BY <1>0, <1>1, <1>2, <1>3, <1>4, <1>5, <1>6, <1>7, <1>8, <1>9, <1>10, <1>11, <1>12,
    <1>13, <1>14, <1>15, <1>16, <1>17, <1>18, <1>19, <1>20, <1>21 DEF Next

\* advertise and subscribe do not both miss the other's object.
LEMMA ConnStep == Ordinary /\ OrdInv /\ [Next]_vars => ConnInv'
<1> SUFFICES ASSUME Ordinary /\ OrdInv, [Next]_vars PROVE ConnInv'
  OBVIOUS
<1>a. TypePub /\ TypeSub /\ TypeLinks /\ TypeThreads
  BY TypeGroups DEF OrdInv, ControlInv
<1>0. CASE UNCHANGED vars
  BY <1>0 DEF vars, OrdInv, ConnInv
<1>1. ASSUME NEW t \in Threads, NEW h \in Handles, Advertise(t, h) PROVE ConnInv'
  <2>1. pc[t] = "idle" /\ UNCHANGED <<subvars, linkvars, sub>>
    BY <1>1 DEF Advertise
  <2>2. CASE UNCHANGED <<advertised, newPub, pc, pub>>
    BY <2>1, <2>2 DEF OrdInv, ConnInv, subvars, linkvars
  <2>3. CASE Begin(t, h, "adv_names")
    <3>1. pc'[t] = "adv_names"
      BY <1>a, <2>3 DEF Begin, Goto, TypeThreads
    <3> QED BY <3>1 DEF ConnInv
  <2> QED BY <1>1, <2>2, <2>3 DEF Advertise, pubvars
<1>2. ASSUME NEW t \in Threads, AdvertiseName(t) PROVE ConnInv'
  <2>1. pc' = [pc EXCEPT ![t] = "adv_find"]
    BY <1>2 DEF AdvertiseName, Goto
  <2> QED BY <1>a, <2>1 DEF ConnInv, TypeThreads
<1>3. ASSUME NEW t \in Threads, AdvertiseFind(t) PROVE ConnInv'
  <2>1. /\ pc[t] = "adv_find" /\ pc' = [pc EXCEPT ![t] = "adv_connect"] /\ subsLock = NoThread
        /\ sub' = [sub EXCEPT ![t] = MatchingSubscription(pub[t])]
        /\ pub[t] = newPub /\ newPub \in PubIds
        /\ UNCHANGED <<pubvars, subvars, linkvars>>
    BY <1>3, <1>a DEF AdvertiseFind, Goto, SubsFree, OrdInv, OnePubInv, ControlInv, CallsInv, PubPCs,
                    TypePub, PubIds
  <2>2. pc'[t] = "adv_connect" /\ \A u \in Threads : u # t => pc'[u] = pc[u]
    BY <1>a, <2>1 DEF TypeThreads
  <2>3. \A u \in Threads : pc'[u] # "sub_connect"
    BY <2>1, <2>2 DEF OrdInv, ControlInv, LocksInv, SubscribePCs
  <2>4. newSub \in subscriptions => sub'[t] = newSub
    BY <1>a, <2>1, TypesMatch DEF TypeThreads
  <2> QED BY <2>1, <2>2, <2>3, <2>4 DEF ConnInv, pubvars, subvars
<1>4. ASSUME NEW t \in Threads, AdvertiseConnect(t) PROVE ConnInv'
  <2>1. /\ pc[t] = "adv_connect" /\ pc' = [pc EXCEPT ![t] = "adv_register"]
        /\ AddLocalConnection(sub[t], pub[t]) /\ pub[t] = newPub
        /\ UNCHANGED <<pubvars, subscriptions, newSub, subDropped, pub, sub>>
    BY <1>4 DEF AdvertiseConnect, Goto, locals, OrdInv, OnePubInv, PubPCs
  <2>2. pc'[t] = "adv_register" /\ \A u \in Threads : u # t => pc'[u] = pc[u]
    BY <1>a, <2>1 DEF TypeThreads
  <2>3. sub[t] \in 0..newSub /\ newPub \in 0..newPub
    BY <1>a, <2>1 DEF OrdInv, ControlInv, CallsInv, TypePub
  <2>4. /\ \A x \in SubIds, y \in PubIds :
             subLinks'[x][y] >= subLinks[x][y] /\ pubLinks'[y][x] >= pubLinks[y][x]
        /\ sub[t] # 0 /\ newPub # 0 /\ ~subDropped[sub[t]] =>
             subLinks'[sub[t]][newPub] > 0 /\ (~pubDropped[newPub] => pubLinks'[newPub][sub[t]] > 0)
    BY <1>a, <2>1, <2>3, ConnectEffect
  <2>5. ASSUME newPub \in advertised, newSub \in subscriptions
        PROVE  \/ subLinks'[newSub][newPub] > 0 /\ pubLinks'[newPub][newSub] > 0
               \/ \E u \in Threads : pc'[u] \in {"adv_names", "adv_find"}
               \/ \E u \in Threads : pc'[u] = "adv_connect" /\ sub[u] = newSub
    <3>1. /\ newPub # 0 /\ newPub \in PubIds /\ ~pubDropped[newPub]
          /\ newSub # 0 /\ newSub \in SubIds /\ ~subDropped[newSub]
      BY <1>a, <2>5, OneLookup, OneLive DEF OrdInv, OnePubInv, OneSubInv
    <3>2. CASE sub[t] = newSub
      BY <2>4, <3>1, <3>2
    <3>3. CASE subLinks[newSub][newPub] > 0 /\ pubLinks[newPub][newSub] > 0
      <4>1. /\ subLinks[newSub][newPub] \in Nat /\ pubLinks[newPub][newSub] \in Nat
            /\ subLinks'[newSub][newPub] \in Nat /\ pubLinks'[newPub][newSub] \in Nat
        BY <1>a, <2>1, <2>3, <3>1, ConnectEffect DEF TypeLinks
      <4> QED BY <2>4, <3>1, <3>3, <4>1
    <3> QED BY <2>1, <2>2, <2>5, <3>2, <3>3 DEF OrdInv, ConnInv
  <2>6. ASSUME NEW u \in Threads, pc'[u] = "sub_connect", newPub \in advertised
        PROVE  pub[u] = newPub \/ \E v \in Threads : pc'[v] \in {"adv_names", "adv_find"}
    BY <2>1, <2>2, <2>6 DEF OrdInv, ConnInv
  <2> QED BY <2>1, <2>5, <2>6 DEF ConnInv, pubvars
<1>5. ASSUME NEW t \in Threads, AdvertiseRegister(t) PROVE ConnInv'
  <2>1. /\ pc[t] = "adv_register" /\ pc' = [pc EXCEPT ![t] = "idle"]
        /\ UNCHANGED <<pubvars, subvars, linkvars, pub, sub>>
    BY <1>5 DEF AdvertiseRegister, End, Goto, locals
  <2>2. pc'[t] = "idle" /\ \A u \in Threads : u # t => pc'[u] = pc[u]
    BY <1>a, <2>1 DEF TypeThreads
  <2> QED BY <2>1, <2>2 DEF OrdInv, ConnInv, pubvars, subvars, linkvars
<1>6. ASSUME NEW t \in Threads, NEW h \in Handles, Unadvertise(t, h) PROVE ConnInv'
  <2>1. pc[t] = "idle" /\ UNCHANGED <<pubvars, subvars, linkvars, sub>>
    BY <1>6 DEF Unadvertise
  <2>2. CASE UNCHANGED <<pc, pub>>
    BY <2>1, <2>2 DEF OrdInv, ConnInv, pubvars, subvars, linkvars
  <2>3. CASE Begin(t, h, "unadv_remove") /\ pub' = [pub EXCEPT ![t] = Lookup]
    <3>1. pc'[t] = "unadv_remove" /\ \A u \in Threads : u # t => pc'[u] = pc[u] /\ pub'[u] = pub[u]
      BY <1>a, <2>3 DEF Begin, Goto, TypeThreads
    <3> QED BY <2>1, <3>1 DEF OrdInv, ConnInv, pubvars, subvars, linkvars
  <2> QED BY <1>6, <2>2, <2>3 DEF Unadvertise
<1>7. ASSUME NEW t \in Threads, UnadvertiseRemove(t) PROVE ConnInv'
  BY <1>7, <1>a DEF UnadvertiseRemove, Goto, subvars, linkvars, locals, OrdInv, TypeThreads,
      ConnInv
<1>8. ASSUME NEW t \in Threads, UnadvertiseDrop(t) PROVE ConnInv'
  <2>1. /\ pc[t] = "unadv_drop" /\ pc' = [pc EXCEPT ![t] = "idle"] /\ pub[t] = newPub
        /\ UNCHANGED <<newPub, subvars, pub, sub>>
    BY <1>8 DEF UnadvertiseDrop, End, Goto, locals, OrdInv, OnePubInv, PubPCs
  <2>2. pc'[t] = "idle" /\ \A u \in Threads : u # t => pc'[u] = pc[u]
    BY <1>a, <2>1 DEF TypeThreads
  <2>3. CASE UNCHANGED <<linkvars, advertised>>
    BY <2>1, <2>2, <2>3 DEF OrdInv, ConnInv, subvars, linkvars
  <2>4. CASE advertised' \in Erased(t)
    <3>1. advertised' = {}
      BY <2>1, <2>4 DEF Erased, OrdInv, OnePubInv, PubsInv
    <3> QED BY <3>1 DEF ConnInv
  <2> QED BY <1>8, <2>3, <2>4 DEF UnadvertiseDrop
<1>9. ASSUME NEW t \in Threads, NEW h \in Handles, Subscribe(t, h) PROVE ConnInv'
  <2>1. pc[t] = "idle" /\ UNCHANGED <<pubvars, subscriptions, linkvars, pub>>
    BY <1>9 DEF Subscribe
  <2>2. CASE UNCHANGED <<newSub, pc, sub>>
    BY <2>1, <2>2 DEF OrdInv, ConnInv, pubvars, linkvars
  <2>3. CASE /\ newSub' = newSub + 1 /\ sub' = [sub EXCEPT ![t] = newSub + 1]
             /\ Begin(t, h, "sub_find")
    <3>1. pc'[t] = "sub_find" /\ \A u \in Threads : u # t => pc'[u] = pc[u]
      BY <1>a, <2>3 DEF Begin, Goto, TypeThreads
    <3>2. newSub' \notin subscriptions'
      BY <1>a, <2>1, <2>3 DEF TypeSub
    <3> QED BY <2>1, <3>1, <3>2 DEF OrdInv, ConnInv, pubvars
  <2> QED BY <1>9, <2>2, <2>3 DEF Subscribe, Ordinary
<1>10. ASSUME NEW t \in Threads, SubscribeFail(t) PROVE ConnInv'
  <2> QED BY <1>10 DEF SubscribeFail, OrdInv, OneSubInv, SubscribePCs
<1>11. ASSUME NEW t \in Threads, SubscribeFind(t) PROVE ConnInv'
  <2>1. /\ pc[t] = "sub_find" /\ pub' = [pub EXCEPT ![t] = Lookup]
        /\ UNCHANGED <<pubvars, subvars, linkvars, sub>>
    BY <1>11 DEF SubscribeFind
  <2>2. pc'[t] \in {"sub_fail", "sub_connect"} /\ \A u \in Threads : u # t => pc'[u] = pc[u]
    BY <1>11, <1>a DEF SubscribeFind, Goto, TypeThreads
  <2>3. newPub \in advertised => pub'[t] = newPub
    BY <1>a, <2>1, OneLookup DEF OrdInv, TypeThreads
  <2>4. \A u \in Threads : u # t => pub'[u] = pub[u]
    BY <1>a, <2>1 DEF TypeThreads
  <2> QED BY <2>1, <2>2, <2>3, <2>4 DEF OrdInv, ConnInv, pubvars, subvars, linkvars
<1>12. ASSUME NEW t \in Threads, SubscribeConnect(t) PROVE ConnInv'
  <2>1. /\ pc[t] = "sub_connect" /\ pc' = [pc EXCEPT ![t] = "idle"]
        /\ AddLocalConnection(sub[t], pub[t]) /\ subscriptions' = subscriptions \cup {sub[t]}
        /\ sub[t] = newSub /\ ~subDropped[newSub] /\ newSub \in 1..newSub /\ pub[t] \in 0..newPub
        /\ SubThread(t) /\ UNCHANGED <<pubvars, newSub, subDropped, pub, sub>>
    BY <1>12 DEF SubscribeConnect, End, Goto, locals, OrdInv, OneSubInv, SubscribePCs, ControlInv, CallsInv
  <2>2. pc'[t] = "idle" /\ \A u \in Threads : u # t => pc'[u] = pc[u]
    BY <1>a, <2>1 DEF TypeThreads
  <2>3. \A u \in Threads : pc'[u] # "sub_connect"
    BY <2>1, <2>2, SubAlone DEF Ordinary, OrdInv, SubscribePCs
  <2>4. ASSUME newPub \in advertised
        PROVE  \/ subLinks'[newSub][newPub] > 0 /\ pubLinks'[newPub][newSub] > 0
               \/ \E u \in Threads : pc'[u] \in {"adv_names", "adv_find"}
    <3>1. newPub # 0 /\ ~pubDropped[newPub]
      BY <1>a, <2>4, OneLookup DEF OrdInv, OnePubInv
    <3>2. CASE pub[t] = newPub
      <4>1. newSub \in 0..newSub /\ newSub # 0
        BY <1>a, <2>1 DEF TypeSub
      <4> QED BY <1>a, <2>1, <3>1, <3>2, <4>1, ConnectEffect
    <3>3. CASE \E u \in Threads : pc[u] \in {"adv_names", "adv_find"}
      BY <2>1, <2>2, <3>3
    <3> QED BY <2>1, <2>4, <3>2, <3>3 DEF OrdInv, ConnInv
  <2> QED BY <2>1, <2>3, <2>4 DEF ConnInv, pubvars
<1>13. ASSUME NEW t \in Threads, NEW h \in Handles, Unsubscribe(t, h) PROVE ConnInv'
  <2>1. pc[t] = "idle" /\ UNCHANGED <<pubvars, subvars, linkvars, pub>>
    BY <1>13 DEF Unsubscribe
  <2>2. CASE UNCHANGED <<pc, sub>>
    BY <2>1, <2>2 DEF OrdInv, ConnInv, pubvars, subvars, linkvars
  <2>3. CASE Begin(t, h, "unsub_remove") /\ sub' = [sub EXCEPT ![t] = First(subscriptions)]
    <3>1. pc'[t] = "unsub_remove" /\ \A u \in Threads : u # t => pc'[u] = pc[u] /\ sub'[u] = sub[u]
      BY <1>a, <2>3 DEF Begin, Goto, TypeThreads
    <3> QED BY <2>1, <3>1 DEF OrdInv, ConnInv, pubvars, subvars, linkvars
  <2> QED BY <1>13, <2>2, <2>3 DEF Unsubscribe
<1>14. ASSUME NEW t \in Threads, UnsubscribeRemove(t) PROVE ConnInv'
  BY <1>14, <1>a DEF UnsubscribeRemove, Goto, pubvars, linkvars, locals, OrdInv, TypeThreads,
      ConnInv
<1>15. ASSUME NEW t \in Threads, UnsubscribeCheck(t) PROVE ConnInv'
  BY <1>15, <1>a DEF UnsubscribeCheck, Goto, End, pubvars, subvars, linkvars, locals, OrdInv,
      TypeThreads, ConnInv
<1>16. ASSUME NEW t \in Threads, UnsubscribeErase(t) PROVE ConnInv'
  <2>1. /\ pc[t] = "unsub_erase" /\ pc' = [pc EXCEPT ![t] = "unsub_shutdown"]
        /\ subscriptions' = subscriptions \ {First(subscriptions)}
        /\ UNCHANGED <<pubvars, pub>>
    BY <1>16 DEF UnsubscribeErase, Goto, locals
  <2>2. pc'[t] = "unsub_shutdown" /\ \A u \in Threads : u # t => pc'[u] = pc[u]
    BY <1>a, <2>1 DEF TypeThreads
  <2>3. subscriptions' = {}
    BY <1>a, <2>1, OneLive DEF OrdInv
  <2> QED BY <2>1, <2>2, <2>3 DEF OrdInv, ConnInv, pubvars
<1>17. ASSUME NEW t \in Threads, UnsubscribeShutdown(t) PROVE ConnInv'
  <2>1. /\ pc[t] = "unsub_shutdown" /\ pc' = [pc EXCEPT ![t] = "idle"]
        /\ UNCHANGED <<pubvars, subscriptions, newSub, pub, sub>>
    BY <1>17 DEF UnsubscribeShutdown, End, Goto, locals
  <2>2. pc'[t] = "idle" /\ \A u \in Threads : u # t => pc'[u] = pc[u]
    BY <1>a, <2>1 DEF TypeThreads
  <2>3. newSub \notin subscriptions
    BY <2>1 DEF OrdInv, OneSubInv
  <2> QED BY <2>1, <2>2, <2>3 DEF OrdInv, ConnInv, pubvars
<1>18. ASSUME NEW t \in Threads, Shutdown(t) PROVE ConnInv'
  BY <1>18, <1>a DEF Shutdown, Goto, pubvars, subvars, linkvars, locals, OrdInv, TypeThreads,
      ConnInv
<1>19. ASSUME NEW t \in Threads, ShutdownFlag(t) PROVE ConnInv'
  BY <1>19, <1>a DEF ShutdownFlag, Goto, pubvars, subvars, linkvars, locals, OrdInv,
      TypeThreads, ConnInv
<1>20. ASSUME NEW t \in Threads, ShutdownPubs(t) PROVE ConnInv'
  <2> QED BY <1>20 DEF ShutdownPubs, ConnInv
<1>21. ASSUME NEW t \in Threads, ShutdownSubs(t) PROVE ConnInv'
  <2>1. /\ pc[t] = "down_subs" /\ pc' = [pc EXCEPT ![t] = "idle"] /\ subscriptions' = {}
        /\ UNCHANGED <<pubvars, pub>>
    BY <1>21 DEF ShutdownSubs, Goto, locals
  <2>2. pc'[t] = "idle" /\ \A u \in Threads : u # t => pc'[u] = pc[u]
    BY <1>a, <2>1 DEF TypeThreads
  <2> QED BY <2>1, <2>2 DEF OrdInv, ConnInv, pubvars
<1> QED BY <1>0, <1>1, <1>2, <1>3, <1>4, <1>5, <1>6, <1>7, <1>8, <1>9, <1>10, <1>11, <1>12,
    <1>13, <1>14, <1>15, <1>16, <1>17, <1>18, <1>19, <1>20, <1>21 DEF Next


\* The invariant holds throughout.
LEMMA OrdinaryInvariant == Ordinary => (Spec => []OrdInv)
<1> SUFFICES ASSUME Ordinary PROVE Spec => []OrdInv
  OBVIOUS
<1>1. Init => OrdInv
  <2> SUFFICES ASSUME Init PROVE OrdInv
    OBVIOUS
  <2>1. ControlInv /\ PubsInv
    BY InitControl, InitShutdown
  <2>2. \A t \in Threads : pc[t] = "idle"
    BY DEF Init
  <2>3. HandlesInv
    BY <2>2 DEF HandlesInv, PubPCs, SubscribePCs, UnsubPCs
  <2>4. FreshInv
    BY DEF Init, FreshInv
  <2>5. OnePubInv /\ OneSubInv
    BY <2>2 DEF Init, OnePubInv, OneSubInv, PubPCs, AdvPCs, SubscribePCs, UnsubPCs, Handles
  <2>6. RegInv /\ ConnInv
    BY <2>2 DEF Init, RegInv, ConnInv, SubscribePCs
  <2> QED BY <2>1, <2>3, <2>4, <2>5, <2>6 DEF OrdInv
<1>2. OrdInv /\ [Next]_vars => OrdInv'
  <2> SUFFICES ASSUME OrdInv, [Next]_vars PROVE OrdInv'
    OBVIOUS
  <2>1. ControlInv' /\ PubsInv'
    BY NextControl, PubsStep DEF OrdInv, Ordinary
  <2>2. HandlesInv' /\ FreshInv'
    BY HandlesStep, FreshStep DEF OrdInv
  <2>3. OnePubInv' /\ OneSubInv' /\ RegInv' /\ ConnInv'
    BY OnePubStep, OneSubStep, RegStep, ConnStep
  <2> QED BY <2>1, <2>2, <2>3 DEF OrdInv
<1> QED BY <1>1, <1>2, PTL DEF Spec

\* An open Subscriber is served: its subscription is listed, not dropped, has its
\* callback and is registered; and between operations it is linked to the node's
\* own publication, whichever of advertise and subscribe came first and wherever
\* the other was at the time.
THEOREM OpenSubscribersAreServed == Ordinary => (Spec => []SubscribersServed)
<1> SUFFICES ASSUME Ordinary PROVE Spec => []SubscribersServed
  OBVIOUS
<1>1. OrdInv => LocalConnected
  BY DEF OrdInv, OnePubInv, OneSubInv, ConnInv, LocalConnected, Idle
<1>2. OrdInv => SubscriberServed
  BY DEF OrdInv, OneSubInv, RegInv, SubscriberServed
<1> QED BY <1>1, <1>2, OrdinaryInvariant, PTL DEF SubscribersServed


-----------------------------------------------------------------------------
(* Registrations, whichever threads own the handles                        *)

\* A thread that is about to erase through an iterator that is no longer valid.
Doomed == \E t \in Threads : pc[t] = "unadv_drop" /\ stale[t] /\ pubCbs[pub[t]] = {}

\* The iterator of an unadvertise that nothing has made stale still denotes its
\* publication.
StaleInv ==
  \A t \in Threads :
    pc[t] \in {"unadv_remove", "unadv_drop"} /\ ~stale[t] => pub[t] \in advertised

\* What is listed is not dropped and has callbacks, unless unadvertise is about to
\* drop it; every open publisher and every advertise under way is one of them.
PubListInv ==
  ~shuttingDown /\ "staleErase" \notin lapses =>
    /\ \A p \in advertised :
         /\ ~pubDropped[p]
         /\ pubCbs[p] = {} => \E t \in Threads : pc[t] = "unadv_drop" /\ pub[t] = p
    /\ \A h \in Publishers : handle[h] = "open" => \E p \in advertised : h \in pubCbs[p]
    /\ \A t \in Threads : pc[t] \in AdvPCs => pub[t] \in advertised /\ cur[t] \in pubCbs[pub[t]]

\* A second publication is listed only while a thread is doomed; otherwise the master
\* and the list of names know the one there is, up to the advertise under way.
ListedPub ==
  /\ \A p, q \in advertised : p = q
  /\ advertised # {} =>
       /\ names > 0 \/ \E t \in Threads : pc[t] = "adv_names"
       /\ regPub \/ "unlisted" \in lapses \/ \E t \in Threads : pc[t] \in AdvPCs
  /\ regPub => advertised # {} \/ "strayPub" \in lapses

RegPubInv == ~shuttingDown /\ "staleErase" \notin lapses => Doomed \/ ListedPub

\* What the steps of subscribers and the beginning of shutdown leave alone.
PubFrame ==
  /\ UNCHANGED <<advertised, pubCbs, pubDropped, names, regPub>>
  /\ shuttingDown => shuttingDown'
  /\ \A h \in Publishers : handle'[h] = handle[h]
  /\ \A t \in Threads : pc[t] \in PubPCs \/ pc'[t] \in PubPCs =>
       pc'[t] = pc[t] /\ pub'[t] = pub[t] /\ cur'[t] = cur[t] /\ stale'[t] = stale[t]
  /\ \A l \in {"staleErase", "unlisted", "strayPub"} : l \in lapses' <=> l \in lapses

\* They do.
LEMMA PubFrameStep ==
  ASSUME ControlInv, HandlesInv, NEW t \in Threads, NEW h,
         \/ Subscribe(t, h) \/ SubscribeFail(t) \/ SubscribeFind(t) \/ SubscribeConnect(t)
         \/ Unsubscribe(t, h) \/ UnsubscribeRemove(t) \/ UnsubscribeCheck(t)
         \/ UnsubscribeErase(t) \/ UnsubscribeShutdown(t)
         \/ Shutdown(t) \/ ShutdownFlag(t) \/ ShutdownSubs(t)
  PROVE  PubFrame
<1>a. TypeThreads
  BY TypeGroups DEF ControlInv
<1>b. \A x \in Subscribers : x \notin Publishers
  BY DEF Handles
<1>1. CASE Subscribe(t, h)
  <2>1. /\ UNCHANGED <<pubvars, names, regPub, shuttingDown, pub, stale, lapses>>
        /\ h \in Subscribers /\ pc[t] = "idle"
    BY <1>1 DEF Subscribe
  <2>2. \A x \in Publishers : handle'[x] = handle[x]
    <3>1. \E v : handle' = [handle EXCEPT ![h] = v]
      BY <1>1 DEF Subscribe
    <3> QED BY <1>a, <1>b, <2>1, <3>1 DEF TypeThreads, Handles
  <2>3. UNCHANGED <<pc, cur>> \/ Begin(t, h, "sub_find") \/ Begin(t, h, "sub_fail")
    BY <1>1 DEF Subscribe
  <2>4. \A u \in Threads : u # t => pc'[u] = pc[u] /\ cur'[u] = cur[u]
    BY <1>a, <2>3 DEF Begin, Goto, TypeThreads
  <2>5. pc'[t] \in {"idle", "sub_find", "sub_fail"}
    BY <1>a, <2>1, <2>3 DEF Begin, Goto, TypeThreads
  <2> QED BY <2>1, <2>2, <2>4, <2>5 DEF pubvars, PubFrame, PubPCs
<1>2. CASE SubscribeFail(t)
  BY <1>2, <1>a, <1>b DEF SubscribeFail, End, Goto, pubvars, mastervars, locals, TypeThreads,
     PubFrame, PubPCs, HandlesInv, SubscribePCs
<1>3. CASE SubscribeFind(t)
  BY <1>3, <1>a DEF SubscribeFind, Goto, pubvars, mastervars, lockvars, TypeThreads, PubFrame,
     PubPCs
<1>4. CASE SubscribeConnect(t)
  BY <1>4, <1>a, <1>b DEF SubscribeConnect, End, Goto, pubvars, mastervars, locals, TypeThreads,
     PubFrame, PubPCs, HandlesInv, SubscribePCs
<1>5. CASE Unsubscribe(t, h)
  <2>1. /\ UNCHANGED <<pubvars, names, regPub, shuttingDown, pub, stale, lapses>>
        /\ h \in Subscribers /\ pc[t] = "idle"
    BY <1>5 DEF Unsubscribe, mastervars, lockvars
  <2>2. \A x \in Publishers : handle'[x] = handle[x]
    <3>1. \E v : handle' = [handle EXCEPT ![h] = v]
      BY <1>5 DEF Unsubscribe
    <3> QED BY <1>a, <1>b, <2>1, <3>1 DEF TypeThreads, Handles
  <2>3. UNCHANGED <<pc, cur>> \/ Begin(t, h, "unsub_remove")
    BY <1>5 DEF Unsubscribe
  <2>4. \A u \in Threads : u # t => pc'[u] = pc[u] /\ cur'[u] = cur[u]
    BY <1>a, <2>3 DEF Begin, Goto, TypeThreads
  <2>5. pc'[t] \in {"idle", "unsub_remove"}
    BY <1>a, <2>1, <2>3 DEF Begin, Goto, TypeThreads
  <2> QED BY <2>1, <2>2, <2>4, <2>5 DEF pubvars, PubFrame, PubPCs
<1>6. CASE UnsubscribeRemove(t)
  BY <1>6, <1>a DEF UnsubscribeRemove, Goto, pubvars, mastervars, lockvars, locals, TypeThreads,
     PubFrame, PubPCs
<1>7. CASE UnsubscribeCheck(t)
  <2>1. /\ UNCHANGED <<pubvars, names, regPub, shuttingDown, pub, stale, lapses>>
        /\ pc[t] = "unsub_check" /\ cur[t] \in Subscribers
    BY <1>7 DEF UnsubscribeCheck, mastervars, lockvars, locals, HandlesInv, UnsubPCs
  <2>2. \/ Goto(t, "unsub_erase") /\ UNCHANGED <<cur, handle>>
        \/ End(t, "closed")
    BY <1>7 DEF UnsubscribeCheck
  <2>3. \A x \in Publishers : handle'[x] = handle[x]
    <3>1. UNCHANGED handle \/ handle' = [handle EXCEPT ![cur[t]] = "closed"]
      BY <2>2 DEF End
    <3> QED BY <1>a, <1>b, <2>1, <3>1 DEF TypeThreads, Handles
  <2>4. \A u \in Threads : u # t => pc'[u] = pc[u] /\ cur'[u] = cur[u]
    BY <1>a, <2>2 DEF End, Goto, TypeThreads
  <2>5. pc'[t] \in {"idle", "unsub_erase"}
    BY <1>a, <2>2 DEF End, Goto, TypeThreads
  <2> QED BY <2>1, <2>3, <2>4, <2>5 DEF pubvars, PubFrame, PubPCs
<1>8. CASE UnsubscribeErase(t)
  BY <1>8, <1>a DEF UnsubscribeErase, Goto, pubvars, lockvars, locals, TypeThreads, PubFrame,
     PubPCs, Lapsed
<1>9. CASE UnsubscribeShutdown(t)
  BY <1>9, <1>a, <1>b DEF UnsubscribeShutdown, End, Goto, pubvars, mastervars, lockvars, locals,
     TypeThreads, PubFrame, PubPCs, HandlesInv, UnsubPCs
<1>10. CASE Shutdown(t) \/ ShutdownFlag(t) \/ ShutdownSubs(t)
  BY <1>10, <1>a DEF Shutdown, ShutdownFlag, ShutdownSubs, Goto, pubvars, mastervars, lockvars,
     locals, TypeThreads, PubFrame, PubPCs
<1> QED BY <1>1, <1>2, <1>3, <1>4, <1>5, <1>6, <1>7, <1>8, <1>9, <1>10

\* Such a step keeps what is said of publications.
LEMMA PubFrameKeeps ==
  ASSUME PubFrame, StaleInv, PubListInv, RegPubInv
  PROVE  StaleInv' /\ PubListInv' /\ RegPubInv'
<1>1. StaleInv'
  BY DEF PubFrame, StaleInv, PubPCs
<1>2. PubListInv'
  BY DEF PubFrame, PubListInv, PubPCs, AdvPCs
<1>3. Doomed => Doomed'
  BY DEF PubFrame, Doomed, PubPCs
<1>4. ListedPub => ListedPub'
  BY DEF PubFrame, ListedPub, PubPCs, AdvPCs
<1> QED BY <1>1, <1>2, <1>3, <1>4 DEF RegPubInv, PubFrame
\* So for every other step.
LEMMA RegPubStep ==
  ControlInv /\ HandlesInv /\ FreshInv /\ StaleInv /\ PubListInv /\ RegPubInv /\ [Next]_vars
    => StaleInv' /\ PubListInv' /\ RegPubInv'
<1> SUFFICES ASSUME ControlInv, HandlesInv, FreshInv, StaleInv, PubListInv, RegPubInv, [Next]_vars
             PROVE  StaleInv' /\ PubListInv' /\ RegPubInv'
  OBVIOUS
<1>a. TypeThreads /\ TypePub
  BY TypeGroups DEF ControlInv
<1> DEFINE Good == StaleInv' /\ PubListInv' /\ RegPubInv'
           Sound == ~shuttingDown /\ "staleErase" \notin lapses
<1>1. CASE UNCHANGED vars
  <2>1. /\ UNCHANGED <<advertised, pubCbs, pubDropped, names, regPub, shuttingDown, lapses>>
        /\ UNCHANGED <<handle, pc, pub, cur, stale>>
    BY <1>1 DEF vars
  <2>2. PubFrame
    BY <2>1 DEF PubFrame
  <2> QED BY <2>2, PubFrameKeeps
<1>2. ASSUME NEW t \in Threads, NEW h,
             \/ Subscribe(t, h) \/ SubscribeFail(t) \/ SubscribeFind(t) \/ SubscribeConnect(t)
             \/ Unsubscribe(t, h) \/ UnsubscribeRemove(t) \/ UnsubscribeCheck(t)
             \/ UnsubscribeErase(t) \/ UnsubscribeShutdown(t)
             \/ Shutdown(t) \/ ShutdownFlag(t) \/ ShutdownSubs(t)
      PROVE  Good
  BY <1>2, PubFrameStep, PubFrameKeeps
<1>3. ASSUME NEW t \in Threads, NEW h \in Handles, Advertise(t, h) PROVE Good
  <2>0. /\ UNCHANGED <<names, regPub, shuttingDown, lapses>>
        /\ h \in Publishers /\ handle[h] = "new" /\ pc[t] = "idle"
    BY <1>3 DEF Advertise, mastervars, lockvars
  <2>1. CASE handle' = [handle EXCEPT ![h] = "closed"] /\ UNCHANGED <<pubvars, pc, cur, pub, stale>>
    <3>1. \A x \in Publishers : handle'[x] = "open" => handle[x] = "open"
      BY <1>a, <2>1 DEF TypeThreads, Handles
    <3> QED BY <2>0, <2>1, <3>1 DEF StaleInv, PubListInv, RegPubInv, Doomed, ListedPub, pubvars
  <2>2. CASE /\ Reusable # 0 /\ pubCbs' = [pubCbs EXCEPT ![Reusable] = @ \cup {h}]
             /\ handle' = [handle EXCEPT ![h] = "open"]
             /\ UNCHANGED <<advertised, pubDropped, pc, cur, pub, stale>>
    <3>1. Reusable \in advertised /\ pubCbs[Reusable] # {}
      BY <1>a, <2>2, PubLookups
    <3>2. Reusable \in PubIds
      BY <1>a, <3>1 DEF TypePub, PubIds
    <3>3. /\ h \in pubCbs'[Reusable]
          /\ \A p : pubCbs[p] \subseteq pubCbs'[p]
          /\ \A p : p # Reusable => pubCbs'[p] = pubCbs[p]
      <4>1. DOMAIN pubCbs = PubIds
        BY <1>a DEF TypePub
      <4>2. \A p \in PubIds : pubCbs'[p] = IF p = Reusable THEN pubCbs[p] \cup {h} ELSE pubCbs[p]
        BY <2>2, <4>1
      <4>3. DOMAIN pubCbs' = PubIds
        BY <2>2, <4>1
      <4> QED BY <2>2, <3>2, <4>1, <4>2, <4>3
    <3>4. \A x \in Publishers : handle'[x] = "open" => x = h \/ handle[x] = "open"
      BY <1>a, <2>2 DEF TypeThreads, Handles
    <3>5. StaleInv'
      BY <2>2 DEF StaleInv
    <3>6. PubListInv'
      BY <2>0, <2>2, <3>1, <3>3, <3>4 DEF PubListInv
    <3>7. Doomed => Doomed'
      BY <2>2, <3>1, <3>3 DEF Doomed
    <3>8. ListedPub => ListedPub'
      BY <2>0, <2>2 DEF ListedPub
    <3> QED BY <2>0, <3>5, <3>6, <3>7, <3>8 DEF RegPubInv
  <2>3. CASE /\ ~shuttingDown /\ Reusable = 0 /\ newPub < MaxPubs
             /\ pubCbs' = [pubCbs EXCEPT ![newPub + 1] = {h}]
             /\ advertised' = advertised \cup {newPub + 1}
             /\ VectorChanged(t) /\ Begin(t, h, "adv_names")
             /\ pub' = [pub EXCEPT ![t] = newPub + 1]
             /\ handle' = [handle EXCEPT ![h] = "opening"]
             /\ UNCHANGED pubDropped
    <3>1. /\ newPub \in Nat /\ newPub + 1 \in PubIds /\ ~pubDropped[newPub + 1]
          /\ advertised \subseteq 1..newPub
      BY <1>a, <2>3 DEF TypePub, PubIds, FreshInv
    <3>2. /\ pc'[t] = "adv_names" /\ cur'[t] = h /\ pub'[t] = newPub + 1
          /\ \A u \in Threads : u # t => pc'[u] = pc[u] /\ cur'[u] = cur[u] /\ pub'[u] = pub[u]
      BY <1>a, <2>3 DEF Begin, Goto, TypeThreads
    <3>3. /\ \A u \in Threads : stale[u] => stale'[u]
          /\ \A u \in Threads \ {t} : pc[u] \in {"unadv_remove", "unadv_drop"} => stale'[u]
      BY <2>3 DEF VectorChanged
    <3>4. /\ pubCbs'[newPub + 1] = {h}
          /\ \A p \in 1..newPub : pubCbs'[p] = pubCbs[p]
      <4>1. \A p \in PubIds : pubCbs'[p] = IF p = newPub + 1 THEN {h} ELSE pubCbs[p]
        BY <1>a, <2>3 DEF TypePub
      <4>2. \A p \in 1..newPub : p \in PubIds /\ p # newPub + 1
        BY <1>a, <2>3 DEF TypePub, PubIds
      <4> QED BY <3>1, <4>1, <4>2
    <3>5. \A x \in Publishers : handle'[x] = "open" => handle[x] = "open"
      BY <1>a, <2>3 DEF TypeThreads, Handles
    <3>6. \A u \in Threads : pc[u] \in PubPCs => pub[u] \in 1..newPub
      BY DEF ControlInv, CallsInv
    <3>7. StaleInv'
      BY <2>3, <3>2, <3>3 DEF StaleInv
    <3>8. PubListInv'
      <4> SUFFICES ASSUME Sound PROVE PubListInv'
        BY <2>0 DEF PubListInv
      <4>1. ASSUME NEW p \in advertised'
            PROVE  /\ ~pubDropped'[p]
                   /\ pubCbs'[p] = {} => \E u \in Threads : pc'[u] = "unadv_drop" /\ pub'[u] = p
        <5>1. CASE p = newPub + 1
          BY <2>3, <3>1, <3>4, <5>1
        <5>2. CASE p \in advertised
          BY <2>0, <2>3, <3>1, <3>2, <3>4, <5>2 DEF PubListInv
        <5> QED BY <2>3, <5>1, <5>2
      <4>2. ASSUME NEW x \in Publishers, handle'[x] = "open"
            PROVE  \E p \in advertised' : x \in pubCbs'[p]
        BY <2>3, <3>1, <3>4, <3>5, <4>2 DEF PubListInv
      <4>3. ASSUME NEW u \in Threads, pc'[u] \in AdvPCs
            PROVE  pub'[u] \in advertised' /\ cur'[u] \in pubCbs'[pub'[u]]
        <5>1. CASE u = t
          BY <2>3, <3>2, <3>4, <5>1
        <5>2. CASE u # t
          BY <2>3, <3>1, <3>2, <3>4, <4>3, <5>2 DEF PubListInv
        <5> QED BY <5>1, <5>2
      <4> QED BY <4>1, <4>2, <4>3 DEF PubListInv
    <3>9. Doomed => Doomed'
      BY <2>0, <3>2, <3>3, <3>4, <3>6 DEF Doomed, PubPCs
    <3>10. CASE Sound /\ Lookup # 0
      <4>1. PICK u \in Threads : pc[u] = "unadv_drop" /\ pub[u] = Lookup /\ pubCbs[Lookup] = {}
        BY <1>a, <2>3, <3>10, PubLookups DEF PubListInv
      <4> QED BY <2>0, <3>2, <3>3, <3>4, <3>6, <3>7, <3>8, <4>1 DEF Doomed, PubPCs, RegPubInv
    <3>11. CASE Sound /\ Lookup = 0
      <4>1. advertised = {}
        BY <1>a, <3>11, PubLookups DEF PubListInv
      <4>2. ListedPub'
        BY <2>3, <3>2, <4>1 DEF ListedPub, AdvPCs
      <4> QED BY <3>7, <3>8, <4>2 DEF RegPubInv
    <3> QED BY <2>0, <3>7, <3>8, <3>10, <3>11 DEF RegPubInv
  <2> QED BY <1>3, <2>1, <2>2, <2>3 DEF Advertise
<1>4. ASSUME NEW t \in Threads, AdvertiseName(t) PROVE Good
  <2>1. /\ pc[t] = "adv_names" /\ pc' = [pc EXCEPT ![t] = "adv_find"] /\ names' = names + 1
        /\ UNCHANGED <<advertised, pubCbs, pubDropped, regPub, shuttingDown, lapses>>
        /\ UNCHANGED <<handle, pub, cur, stale>>
    BY <1>4 DEF AdvertiseName, Goto, pubvars, mastervars, lockvars, locals
  <2>2. pc'[t] = "adv_find" /\ \A u \in Threads : u # t => pc'[u] = pc[u]
    BY <1>a, <2>1 DEF TypeThreads
  <2>3. StaleInv' /\ PubListInv'
    BY <2>1, <2>2 DEF StaleInv, PubListInv, AdvPCs
  <2>4. Doomed => Doomed'
    BY <2>1, <2>2 DEF Doomed
  <2>5. names' > 0
    BY <1>a, <2>1 DEF TypePub
  <2>6. ListedPub => ListedPub'
    BY <2>1, <2>2, <2>5 DEF ListedPub, AdvPCs
  <2> QED BY <2>1, <2>3, <2>4, <2>6 DEF RegPubInv
<1>5. ASSUME NEW t \in Threads, AdvertiseFind(t) \/ AdvertiseConnect(t) PROVE Good
  <2>1. /\ pc[t] \in {"adv_find", "adv_connect"}
        /\ pc' = [pc EXCEPT ![t] = "adv_connect"] \/ pc' = [pc EXCEPT ![t] = "adv_register"]
        /\ UNCHANGED <<advertised, pubCbs, pubDropped, names, regPub, shuttingDown, lapses>>
        /\ UNCHANGED <<handle, pub, cur, stale>>
    BY <1>5 DEF AdvertiseFind, AdvertiseConnect, Goto, pubvars, mastervars, lockvars, locals
  <2>2. /\ pc'[t] \in {"adv_connect", "adv_register"}
        /\ \A u \in Threads : u # t => pc'[u] = pc[u]
    BY <1>a, <2>1 DEF TypeThreads
  <2>3. StaleInv' /\ PubListInv'
    BY <2>1, <2>2 DEF StaleInv, PubListInv, AdvPCs
  <2>4. Doomed => Doomed'
    BY <2>1, <2>2 DEF Doomed
  <2>6. ListedPub => ListedPub'
    BY <2>1, <2>2 DEF ListedPub, AdvPCs
  <2> QED BY <2>1, <2>3, <2>4, <2>6 DEF RegPubInv
<1>6. ASSUME NEW t \in Threads, AdvertiseRegister(t) PROVE Good
  <2>1. /\ pc[t] = "adv_register" /\ pc' = [pc EXCEPT ![t] = "idle"]
        /\ cur' = [cur EXCEPT ![t] = NoHandle] /\ handle' = [handle EXCEPT ![cur[t]] = "open"]
        /\ lapses' = Lapsed("unlisted", ~regPub')
        /\ UNCHANGED <<advertised, pubCbs, pubDropped, names, shuttingDown, pub, stale>>
    BY <1>6 DEF AdvertiseRegister, End, Goto, pubvars, lockvars, locals
  <2>2. /\ pc'[t] = "idle"
        /\ \A u \in Threads : u # t => pc'[u] = pc[u] /\ cur'[u] = cur[u]
    BY <1>a, <2>1 DEF TypeThreads
  <2>3. \A x \in Publishers : handle'[x] = "open" => x = cur[t] \/ handle[x] = "open"
    BY <1>a, <2>1 DEF TypeThreads, Handles
  <2>4. /\ "staleErase" \in lapses' <=> "staleErase" \in lapses
        /\ regPub' \/ "unlisted" \in lapses'
    BY <2>1 DEF Lapsed
  <2>5. StaleInv'
    BY <2>1, <2>2 DEF StaleInv
  <2>6. PubListInv'
    BY <2>1, <2>2, <2>3, <2>4 DEF PubListInv, AdvPCs
  <2>7. Doomed => Doomed'
    BY <2>1, <2>2 DEF Doomed
  <2>8. Sound => pub[t] \in advertised
    BY <2>1 DEF PubListInv, AdvPCs
  <2>9. Sound /\ ListedPub => ListedPub'
    BY <2>1, <2>2, <2>4, <2>8 DEF ListedPub, AdvPCs
  <2> QED BY <2>1, <2>4, <2>5, <2>6, <2>7, <2>9 DEF RegPubInv
<1>7. ASSUME NEW t \in Threads, NEW h \in Handles, Unadvertise(t, h) PROVE Good
  <2>0. /\ UNCHANGED <<advertised, pubCbs, pubDropped, names, regPub, shuttingDown, lapses>>
        /\ h \in Publishers /\ pc[t] = "idle"
    BY <1>7 DEF Unadvertise, pubvars, mastervars, lockvars
  <2>1. \A x \in Publishers : handle'[x] = "open" => handle[x] = "open"
    <3>1. handle' = [handle EXCEPT ![h] = "closed"] \/ handle' = [handle EXCEPT ![h] = "closing"]
      BY <1>7 DEF Unadvertise
    <3> QED BY <1>a, <3>1 DEF TypeThreads, Handles
  <2>2. CASE UNCHANGED <<pc, cur, pub, stale>>
    BY <2>0, <2>1, <2>2 DEF StaleInv, PubListInv, RegPubInv, Doomed, ListedPub
  <2>3. CASE /\ Lookup # 0 /\ Begin(t, h, "unadv_remove")
             /\ pub' = [pub EXCEPT ![t] = Lookup] /\ stale' = [stale EXCEPT ![t] = FALSE]
    <3>1. Lookup \in advertised
      BY <1>a, <2>3, PubLookups
    <3>2. /\ pc'[t] = "unadv_remove" /\ pub'[t] = Lookup /\ ~stale'[t]
          /\ \A u \in Threads : u # t => /\ pc'[u] = pc[u] /\ cur'[u] = cur[u]
                                         /\ pub'[u] = pub[u] /\ stale'[u] = stale[u]
      <4>1. Lookup \in 0..MaxPubs
        BY <1>a, <3>1 DEF TypePub
      <4> QED BY <1>a, <2>3, <4>1 DEF Begin, Goto, TypeThreads
    <3>3. StaleInv'
      BY <2>0, <3>1, <3>2 DEF StaleInv
    <3>4. PubListInv'
      BY <2>0, <2>1, <3>2 DEF PubListInv, AdvPCs
    <3>5. Doomed => Doomed'
      BY <2>0, <3>2 DEF Doomed
    <3>6. ListedPub => ListedPub'
      BY <2>0, <3>2 DEF ListedPub, AdvPCs
    <3> QED BY <2>0, <3>3, <3>4, <3>5, <3>6 DEF RegPubInv
  <2> QED BY <1>7, <2>2, <2>3 DEF Unadvertise
<1>8. ASSUME NEW t \in Threads, UnadvertiseRemove(t) PROVE Good
  <2>1. /\ pc[t] = "unadv_remove" /\ pc' = [pc EXCEPT ![t] = "unadv_drop"]
        /\ pubCbs' = [pubCbs EXCEPT ![pub[t]] = @ \ {cur[t]}]
        /\ UNCHANGED <<advertised, pubDropped, names, regPub, shuttingDown, lapses>>
        /\ UNCHANGED <<handle, pub, cur, stale>>
    BY <1>8 DEF UnadvertiseRemove, Goto, mastervars, lockvars, locals
  <2>2. pc'[t] = "unadv_drop" /\ \A u \in Threads : u # t => pc'[u] = pc[u]
    BY <1>a, <2>1 DEF TypeThreads
  <2>3. /\ \A p : p # pub[t] => pubCbs'[p] = pubCbs[p]
        /\ \A p, x : x \in pubCbs[p] /\ x # cur[t] => x \in pubCbs'[p]
        /\ \A p : pubCbs[p] = {} => pubCbs'[p] = {}
    <3>1. DOMAIN pubCbs = PubIds /\ DOMAIN pubCbs' = PubIds
      BY <1>a, <2>1 DEF TypePub
    <3>2. \A p \in PubIds : pubCbs'[p] = IF p = pub[t] THEN pubCbs[p] \ {cur[t]} ELSE pubCbs[p]
      BY <2>1, <3>1
    <3>3. pub[t] \in PubIds
      BY <1>a, <2>1 DEF ControlInv, CallsInv, PubPCs, TypePub, PubIds
    <3>4. \A p : p \notin PubIds => pubCbs'[p] = pubCbs[p]
      BY <2>1, <3>1, <3>3
    <3> QED BY <3>2, <3>3, <3>4
  <2>4. /\ handle[cur[t]] = "closing" /\ Owner[cur[t]] = t
        /\ \A u \in Threads : pc[u] \in PubPCs => Owner[cur[u]] = u
    BY <2>1 DEF HandlesInv, PubPCs
  <2>5. StaleInv'
    BY <2>1, <2>2 DEF StaleInv
  <2>6. PubListInv'
    <3> SUFFICES ASSUME Sound PROVE PubListInv'
      BY <2>1 DEF PubListInv
    <3>1. ASSUME NEW p \in advertised'
          PROVE  /\ ~pubDropped'[p]
                 /\ pubCbs'[p] = {} => \E u \in Threads : pc'[u] = "unadv_drop" /\ pub'[u] = p
      <4>1. CASE p = pub[t]
        BY <2>1, <2>2, <4>1 DEF PubListInv
      <4>2. CASE p # pub[t]
        BY <2>1, <2>2, <2>3, <4>2 DEF PubListInv
      <4> QED BY <4>1, <4>2
    <3>2. ASSUME NEW x \in Publishers, handle'[x] = "open"
          PROVE  \E p \in advertised' : x \in pubCbs'[p]
      BY <2>1, <2>3, <2>4, <3>2 DEF PubListInv
    <3>3. ASSUME NEW u \in Threads, pc'[u] \in AdvPCs
          PROVE  pub'[u] \in advertised' /\ cur'[u] \in pubCbs'[pub'[u]]
      <4>1. u # t /\ pc[u] \in AdvPCs /\ cur[u] # cur[t]
        BY <2>2, <2>4, <3>3 DEF AdvPCs, PubPCs
      <4> QED BY <2>1, <2>3, <4>1 DEF PubListInv
    <3> QED BY <3>1, <3>2, <3>3 DEF PubListInv
  <2>7. Doomed => Doomed'
    BY <2>1, <2>2, <2>3 DEF Doomed
  <2>8. ListedPub => ListedPub'
    BY <2>1, <2>2 DEF ListedPub, AdvPCs
  <2> QED BY <2>1, <2>5, <2>6, <2>7, <2>8 DEF RegPubInv
<1>9. ASSUME NEW t \in Threads, UnadvertiseDrop(t) PROVE Good
  <2>1. /\ pc[t] = "unadv_drop" /\ pc' = [pc EXCEPT ![t] = "idle"]
        /\ cur' = [cur EXCEPT ![t] = NoHandle] /\ handle' = [handle EXCEPT ![cur[t]] = "closed"]
        /\ UNCHANGED <<pubCbs, shuttingDown, pub>>
    BY <1>9 DEF UnadvertiseDrop, End, Goto, lockvars, locals
  <2>2. /\ pc'[t] = "idle"
        /\ \A u \in Threads : u # t => pc'[u] = pc[u] /\ cur'[u] = cur[u]
    BY <1>a, <2>1 DEF TypeThreads
  <2>3. \A x \in Publishers : handle'[x] = "open" => handle[x] = "open"
    BY <1>a, <2>1 DEF TypeThreads, Handles
  <2>4. CASE /\ pubCbs[pub[t]] # {}
             /\ UNCHANGED <<regPub, pubDropped, advertised, names, stale, lapses>>
    <3>1. StaleInv' /\ PubListInv'
      BY <2>1, <2>2, <2>3, <2>4 DEF StaleInv, PubListInv, AdvPCs
    <3>2. Doomed => Doomed'
      BY <2>1, <2>2, <2>4 DEF Doomed
    <3>3. ListedPub => ListedPub'
      BY <2>1, <2>2, <2>4 DEF ListedPub, AdvPCs
    <3> QED BY <2>1, <2>4, <3>1, <3>2, <3>3 DEF RegPubInv
  <2>5. CASE /\ pubCbs[pub[t]] = {} /\ advertised' \in Erased(t) /\ VectorChanged(t)
             /\ pubDropped' = [pubDropped EXCEPT ![pub[t]] = TRUE]
             /\ lapses' = Lapsed("strayPub", regPub') \cup {l \in {"staleErase"} : stale[t]}
    <3>1. StaleInv'
      BY <2>1, <2>2, <2>5 DEF StaleInv, VectorChanged
    <3>2. /\ "staleErase" \in lapses' <=> "staleErase" \in lapses \/ stale[t]
          /\ regPub' => "strayPub" \in lapses'
      BY <2>5 DEF Lapsed
    <3>3. CASE stale[t]
      BY <3>1, <3>2, <3>3 DEF PubListInv, RegPubInv
    <3>4. CASE ~stale[t]
      <4>1. /\ pub[t] \in advertised /\ advertised' = advertised \ {pub[t]}
            /\ \A p : p # pub[t] => pubDropped'[p] = pubDropped[p]
        BY <1>a, <2>1, <2>5, <3>4 DEF StaleInv, Erased, TypePub
      <4>2. PubListInv'
        BY <2>1, <2>2, <2>3, <2>5, <3>2, <3>4, <4>1 DEF PubListInv, AdvPCs
      <4>3. Doomed => Doomed'
        BY <2>1, <2>2, <2>5, <3>4 DEF Doomed, VectorChanged
      <4>4. ListedPub => ListedPub'
        BY <3>2, <4>1 DEF ListedPub
      <4> QED BY <2>1, <3>1, <3>2, <3>4, <4>2, <4>3, <4>4 DEF RegPubInv
    <3> QED BY <3>3, <3>4
  <2> QED BY <1>9, <2>4, <2>5 DEF UnadvertiseDrop
<1>10. ASSUME NEW t \in Threads, ShutdownPubs(t) PROVE Good
  <2>1. /\ pc[t] = "down_pubs" /\ pc' = [pc EXCEPT ![t] = "down_subs"] /\ VectorChanged(t)
        /\ shuttingDown' = shuttingDown /\ shuttingDown
    BY <1>10 DEF ShutdownPubs, Goto, lockvars, ControlInv, DownInv, DownPCs
  <2>2. pc'[t] = "down_subs" /\ \A u \in Threads : u # t => pc'[u] = pc[u]
    BY <1>a, <2>1 DEF TypeThreads
  <2>3. StaleInv'
    BY <2>1, <2>2 DEF StaleInv, VectorChanged
  <2> QED BY <2>1, <2>3 DEF PubListInv, RegPubInv
<1> QED BY <1>1, <1>2, <1>3, <1>4, <1>5, <1>6, <1>7, <1>8, <1>9, <1>10 DEF Next

\* Until an unsubscribe comes too late for another thread: what is listed is not
\* dropped, is alone and is registered; every open subscriber belongs to it; a
\* subscribe under way works on a subscription of its own, not dropped; and what
\* unsubscribe shuts down is listed no more.
SubListInv ==
  ~shuttingDown /\ "lateJoin" \notin lapses =>
    /\ \A s \in subscriptions : ~subDropped[s]
    /\ \A r, s \in subscriptions : r = s
    /\ subscriptions # {} => regSub
    /\ \A h \in Subscribers : handle[h] = "open" => \E s \in subscriptions : h \in subCbs[s]
    /\ \A t \in Threads : pc[t] \in SubscribePCs =>
         /\ subscriptions = {} /\ cur[t] \in subCbs[sub[t]] /\ ~subDropped[sub[t]]
         /\ pc[t] # "sub_fail" => regSub
         /\ \A u \in Threads : pc[u] \in UnsubPCs => sub[u] # sub[t]
    /\ \A t \in Threads : pc[t] = "unsub_shutdown" => sub[t] \notin subscriptions

\* Whatever comes too late, the master lists a subscriber only for a subscription, one
\* that is being made, or because it was not told otherwise.
RegSubInv ==
  ~shuttingDown /\ regSub =>
    \/ subscriptions # {} \/ "straySub" \in lapses
    \/ \E t \in Threads : pc[t] \in {"sub_find", "sub_connect"}

\* What the steps of publishers and of shutdown leave alone.
SubFrame ==
  /\ shuttingDown => shuttingDown'
  /\ ~shuttingDown' => UNCHANGED <<subscriptions, subCbs, subDropped, regSub>>
  /\ \A h \in Subscribers : handle'[h] = "open" => handle[h] = "open"
  /\ \A t \in Threads :
       pc[t] \in SubscribePCs \cup UnsubPCs \/ pc'[t] \in SubscribePCs \cup UnsubPCs =>
         pc'[t] = pc[t] /\ sub'[t] = sub[t] /\ cur'[t] = cur[t]
  /\ \A l \in {"lateJoin", "straySub"} : l \in lapses' <=> l \in lapses

\* They do.
LEMMA SubFrameStep ==
  ASSUME ControlInv, HandlesInv, NEW t \in Threads, NEW h,
         \/ Advertise(t, h) \/ AdvertiseName(t) \/ AdvertiseFind(t) \/ AdvertiseConnect(t)
         \/ AdvertiseRegister(t)
         \/ Unadvertise(t, h) \/ UnadvertiseRemove(t) \/ UnadvertiseDrop(t)
         \/ Shutdown(t) \/ ShutdownFlag(t) \/ ShutdownPubs(t) \/ ShutdownSubs(t)
  PROVE  SubFrame
<1>a. TypeThreads
  BY TypeGroups DEF ControlInv
<1>b. \A x \in Subscribers : x \notin Publishers
  BY DEF Handles
<1>1. CASE Advertise(t, h)
  <2>1. /\ UNCHANGED <<subvars, regSub, shuttingDown, sub, lapses>>
        /\ h \in Publishers /\ pc[t] = "idle"
    BY <1>1 DEF Advertise, mastervars, lockvars
  <2>2. \A x \in Subscribers : handle'[x] = handle[x]
    <3>1. \E v : handle' = [handle EXCEPT ![h] = v]
      BY <1>1 DEF Advertise
    <3> QED BY <1>a, <1>b, <2>1, <3>1 DEF TypeThreads, Handles
  <2>3. UNCHANGED <<pc, cur>> \/ Begin(t, h, "adv_names")
    BY <1>1 DEF Advertise
  <2>4. \A u \in Threads : u # t => pc'[u] = pc[u] /\ cur'[u] = cur[u]
    BY <1>a, <2>3 DEF Begin, Goto, TypeThreads
  <2>5. pc'[t] \in {"idle", "adv_names"}
    BY <1>a, <2>1, <2>3 DEF Begin, Goto, TypeThreads
  <2> QED BY <2>1, <2>2, <2>4, <2>5 DEF subvars, SubFrame, SubscribePCs, UnsubPCs
<1>2. CASE AdvertiseName(t)
  BY <1>2, <1>a DEF AdvertiseName, Goto, subvars, mastervars, lockvars, locals, TypeThreads,
     SubFrame, SubscribePCs, UnsubPCs
<1>3. CASE AdvertiseFind(t)
  BY <1>3, <1>a DEF AdvertiseFind, Goto, subvars, mastervars, lockvars, TypeThreads, SubFrame,
     SubscribePCs, UnsubPCs
<1>4. CASE AdvertiseConnect(t)
  BY <1>4, <1>a DEF AdvertiseConnect, Goto, mastervars, lockvars, locals, TypeThreads, SubFrame,
     SubscribePCs, UnsubPCs
<1>5. CASE AdvertiseRegister(t)
  <2>1. /\ UNCHANGED <<subvars, regSub, shuttingDown, sub>>
        /\ pc[t] = "adv_register" /\ cur[t] \in Publishers
        /\ pc' = [pc EXCEPT ![t] = "idle"] /\ cur' = [cur EXCEPT ![t] = NoHandle]
        /\ handle' = [handle EXCEPT ![cur[t]] = "open"]
        /\ \A l \in {"lateJoin", "straySub"} : l \in lapses' <=> l \in lapses
    BY <1>5 DEF AdvertiseRegister, End, Goto, lockvars, locals, HandlesInv, PubPCs, Lapsed
  <2>2. \A x \in Subscribers : handle'[x] = handle[x]
    BY <1>a, <1>b, <2>1 DEF TypeThreads, Handles
  <2>3. /\ \A u \in Threads : u # t => pc'[u] = pc[u] /\ cur'[u] = cur[u]
        /\ pc'[t] = "idle"
    BY <1>a, <2>1 DEF TypeThreads
  <2> QED BY <2>1, <2>2, <2>3 DEF subvars, SubFrame, SubscribePCs, UnsubPCs
<1>6. CASE Unadvertise(t, h)
  <2>1. /\ UNCHANGED <<subvars, regSub, shuttingDown, sub, lapses>>
        /\ h \in Publishers /\ pc[t] = "idle"
    BY <1>6 DEF Unadvertise, mastervars, lockvars
  <2>2. \A x \in Subscribers : handle'[x] = handle[x]
    <3>1. \E v : handle' = [handle EXCEPT ![h] = v]
      BY <1>6 DEF Unadvertise
    <3> QED BY <1>a, <1>b, <2>1, <3>1 DEF TypeThreads, Handles
  <2>3. UNCHANGED <<pc, cur>> \/ Begin(t, h, "unadv_remove")
    BY <1>6 DEF Unadvertise
  <2>4. \A u \in Threads : u # t => pc'[u] = pc[u] /\ cur'[u] = cur[u]
    BY <1>a, <2>3 DEF Begin, Goto, TypeThreads
  <2>5. pc'[t] \in {"idle", "unadv_remove"}
    BY <1>a, <2>1, <2>3 DEF Begin, Goto, TypeThreads
  <2> QED BY <2>1, <2>2, <2>4, <2>5 DEF subvars, SubFrame, SubscribePCs, UnsubPCs
<1>7. CASE UnadvertiseRemove(t)
  BY <1>7, <1>a DEF UnadvertiseRemove, Goto, subvars, mastervars, lockvars, locals, TypeThreads,
     SubFrame, SubscribePCs, UnsubPCs
<1>8. CASE UnadvertiseDrop(t)
  <2>1. /\ UNCHANGED <<subvars, regSub, shuttingDown, sub>>
        /\ pc[t] = "unadv_drop" /\ cur[t] \in Publishers
        /\ pc' = [pc EXCEPT ![t] = "idle"] /\ cur' = [cur EXCEPT ![t] = NoHandle]
        /\ handle' = [handle EXCEPT ![cur[t]] = "closed"]
    BY <1>8 DEF UnadvertiseDrop, End, Goto, lockvars, locals, HandlesInv, PubPCs
  <2>2. \A l \in {"lateJoin", "straySub"} : l \in lapses' <=> l \in lapses
    BY <1>8 DEF UnadvertiseDrop, Lapsed
  <2>3. \A x \in Subscribers : handle'[x] = handle[x]
    BY <1>a, <1>b, <2>1 DEF TypeThreads, Handles
  <2>4. /\ \A u \in Threads : u # t => pc'[u] = pc[u] /\ cur'[u] = cur[u]
        /\ pc'[t] = "idle"
    BY <1>a, <2>1 DEF TypeThreads
  <2> QED BY <2>1, <2>2, <2>3, <2>4 DEF subvars, SubFrame, SubscribePCs, UnsubPCs
<1>9. CASE Shutdown(t) \/ ShutdownFlag(t) \/ ShutdownPubs(t)
  BY <1>9, <1>a DEF Shutdown, ShutdownFlag, ShutdownPubs, Goto, subvars, mastervars, lockvars,
     locals, TypeThreads, SubFrame, SubscribePCs, UnsubPCs
<1>10. CASE ShutdownSubs(t)
  <2>1. shuttingDown /\ shuttingDown' /\ UNCHANGED <<handle, sub, cur, lapses>>
    BY <1>10 DEF ShutdownSubs, lockvars, locals, ControlInv, DownInv, DownPCs
  <2>2. pc[t] = "down_subs" /\ pc' = [pc EXCEPT ![t] = "idle"]
    BY <1>10 DEF ShutdownSubs, Goto
  <2> QED BY <1>a, <2>1, <2>2 DEF TypeThreads, SubFrame, SubscribePCs, UnsubPCs
<1> QED BY <1>1, <1>2, <1>3, <1>4, <1>5, <1>6, <1>7, <1>8, <1>9, <1>10

\* Such a step keeps what is said of subscriptions.
LEMMA SubFrameKeeps ==
  ASSUME SubFrame, SubListInv, RegSubInv
  PROVE  SubListInv' /\ RegSubInv'
<1>1. SubListInv'
  BY DEF SubFrame, SubListInv, SubscribePCs, UnsubPCs
<1>2. RegSubInv'
  BY DEF SubFrame, RegSubInv, SubscribePCs
<1> QED BY <1>1, <1>2

\* So for every other step.
LEMMA RegSubStep ==
  ControlInv /\ HandlesInv /\ FreshInv /\ SubListInv /\ RegSubInv /\ [Next]_vars
    => SubListInv' /\ RegSubInv'
<1> SUFFICES ASSUME ControlInv, HandlesInv, FreshInv, SubListInv, RegSubInv, [Next]_vars
             PROVE  SubListInv' /\ RegSubInv'
  OBVIOUS
<1>a. TypeThreads /\ TypeSub
  BY TypeGroups DEF ControlInv
<1>b. \A t, u \in Threads : pc[t] \in SubscribePCs /\ (pc[u] \in SubscribePCs \/ subsLock = NoThread)
        => t = u
  BY DEF ControlInv, LocksInv
<1> DEFINE Good == SubListInv' /\ RegSubInv'
           Sound == ~shuttingDown /\ "lateJoin" \notin lapses
<1>1. CASE UNCHANGED vars
  <2>1. SubFrame
    BY <1>1 DEF vars, SubFrame
  <2> QED BY <2>1, SubFrameKeeps
<1>2. ASSUME NEW t \in Threads, NEW h,
             \/ Advertise(t, h) \/ AdvertiseName(t) \/ AdvertiseFind(t) \/ AdvertiseConnect(t)
             \/ AdvertiseRegister(t)
             \/ Unadvertise(t, h) \/ UnadvertiseRemove(t) \/ UnadvertiseDrop(t)
             \/ Shutdown(t) \/ ShutdownFlag(t) \/ ShutdownPubs(t) \/ ShutdownSubs(t)
      PROVE  Good
  BY <1>2, SubFrameStep, SubFrameKeeps
<1>3. ASSUME NEW t \in Threads, NEW h \in Handles, Subscribe(t, h) PROVE Good
  <2>0. /\ UNCHANGED <<subscriptions, subDropped, shuttingDown, lapses>>
        /\ h \in Subscribers /\ handle[h] = "new" /\ pc[t] = "idle"
        /\ subsLock = NoThread /\ t \in Threads /\ t # NoThread
    BY <1>3, TopicManagerAssumption DEF Subscribe, SubsFree
  <2>n. \A u \in Threads : pc[u] \notin SubscribePCs
    BY <2>0, TopicManagerAssumption DEF ControlInv, LocksInv
  <2>1. CASE handle' = [handle EXCEPT ![h] = "closed"] /\ UNCHANGED <<subCbs, pc, cur, sub, regSub>>
    <3>1. \A x \in Subscribers : handle'[x] = "open" => handle[x] = "open"
      BY <1>a, <2>1 DEF TypeThreads, Handles
    <3> QED BY <2>0, <2>1, <3>1 DEF SubListInv, RegSubInv
  <2>2. CASE /\ LiveSubscription # 0
             /\ subCbs' = [subCbs EXCEPT ![LiveSubscription] = @ \cup {h}]
             /\ handle' = [handle EXCEPT ![h] = "open"]
             /\ UNCHANGED <<pc, cur, sub, regSub>>
    <3>1. LiveSubscription \in subscriptions /\ LiveSubscription \in SubIds
      BY <1>a, <2>2, SubLookups DEF TypeSub, SubIds
    <3>2. /\ h \in subCbs'[LiveSubscription]
          /\ \A s \in SubIds : subCbs[s] \subseteq subCbs'[s]
      BY <1>a, <2>2, <3>1 DEF TypeSub
    <3>3. \A x \in Subscribers : handle'[x] = "open" => x = h \/ handle[x] = "open"
      BY <1>a, <2>2 DEF TypeThreads, Handles
    <3>4. \A s \in subscriptions : s \in SubIds
      BY <1>a DEF TypeSub, SubIds
    <3>5. SubListInv'
      BY <2>0, <2>n, <2>2, <3>1, <3>2, <3>3, <3>4 DEF SubListInv
    <3> QED BY <2>0, <2>2, <3>5 DEF RegSubInv
  <2>3. CASE /\ LiveSubscription = 0 /\ newSub < MaxSubs
             /\ subCbs' = [subCbs EXCEPT ![newSub + 1] = {h}]
             /\ sub' = [sub EXCEPT ![t] = newSub + 1]
             /\ handle' = [handle EXCEPT ![h] = "opening"]
             /\ \/ regSub' = TRUE /\ Begin(t, h, "sub_find")
                \/ UNCHANGED regSub /\ Begin(t, h, "sub_fail")
    <3>1. /\ newSub \in Nat /\ newSub + 1 \in SubIds /\ newSub + 1 \in 0..MaxSubs
          /\ ~subDropped[newSub + 1]
      BY <1>a, <2>3 DEF TypeSub, SubIds, FreshInv
    <3>2. /\ pc'[t] \in {"sub_find", "sub_fail"} /\ cur'[t] = h /\ sub'[t] = newSub + 1
          /\ pc'[t] = "sub_find" => regSub'
          /\ pc'[t] = "sub_fail" => UNCHANGED regSub
          /\ \A u \in Threads : u # t => pc'[u] = pc[u] /\ cur'[u] = cur[u] /\ sub'[u] = sub[u]
      BY <1>a, <2>3, <3>1 DEF Begin, Goto, TypeThreads
    <3>3. subCbs'[newSub + 1] = {h}
      BY <1>a, <2>3, <3>1 DEF TypeSub
    <3>4. \A u \in Threads : pc[u] \in UnsubPCs => sub[u] # newSub + 1
      BY <3>1 DEF ControlInv, CallsInv
    <3>5. \A x \in Subscribers : handle'[x] = "open" => handle[x] = "open"
      BY <1>a, <2>3 DEF TypeThreads, Handles
    <3>6. Sound => subscriptions = {}
      BY <1>a, <2>3, SubLookups DEF SubListInv
    <3>7. SubListInv'
      <4> SUFFICES ASSUME Sound PROVE SubListInv'
        BY <2>0 DEF SubListInv
      <4>1. ~ \E x \in Subscribers : handle'[x] = "open"
        BY <3>5, <3>6 DEF SubListInv
      <4>2. ASSUME NEW u \in Threads, pc'[u] \in SubscribePCs
            PROVE  /\ cur'[u] \in subCbs'[sub'[u]] /\ ~subDropped'[sub'[u]]
                   /\ pc'[u] # "sub_fail" => regSub'
                   /\ \A v \in Threads : pc'[v] \in UnsubPCs => sub'[v] # sub'[u]
        <5>1. u = t
          BY <2>n, <3>2, <4>2
        <5>2. ASSUME NEW v \in Threads, pc'[v] \in UnsubPCs PROVE sub'[v] # sub'[u]
          <6>1. v # t
            BY <3>2, <5>2 DEF UnsubPCs
          <6> QED BY <3>2, <3>4, <5>1, <5>2, <6>1
        <5> QED BY <2>0, <3>1, <3>2, <3>3, <5>1, <5>2
      <4> QED BY <2>0, <3>6, <4>1, <4>2 DEF SubListInv
    <3>8. RegSubInv'
      BY <2>0, <2>n, <3>2 DEF RegSubInv, SubscribePCs
    <3> QED BY <3>7, <3>8
  <2> QED BY <1>3, <2>1, <2>2, <2>3 DEF Subscribe
<1>4. ASSUME NEW t \in Threads, SubscribeFail(t) PROVE Good
  <2>1. /\ pc[t] = "sub_fail" /\ pc' = [pc EXCEPT ![t] = "idle"]
        /\ cur' = [cur EXCEPT ![t] = NoHandle] /\ handle' = [handle EXCEPT ![cur[t]] = "closed"]
        /\ subDropped' = [subDropped EXCEPT ![sub[t]] = TRUE]
        /\ UNCHANGED <<subscriptions, subCbs, regSub, shuttingDown, lapses, sub>>
    BY <1>4 DEF SubscribeFail, End, Goto, mastervars, locals
  <2>2. /\ pc'[t] = "idle"
        /\ \A u \in Threads : u # t => pc'[u] = pc[u] /\ cur'[u] = cur[u]
    BY <1>a, <2>1 DEF TypeThreads
  <2>3. \A x \in Subscribers : handle'[x] = "open" => handle[x] = "open"
    BY <1>a, <2>1 DEF TypeThreads, Handles
  <2>4. \A u \in Threads : pc'[u] \notin SubscribePCs
    BY <1>b, <2>1, <2>2 DEF SubscribePCs
  <2>5. Sound => subscriptions = {}
    BY <2>1 DEF SubListInv, SubscribePCs
  <2>6. SubListInv'
    BY <2>1, <2>2, <2>3, <2>4, <2>5 DEF SubListInv
  <2>7. RegSubInv'
    BY <2>1, <2>2 DEF RegSubInv
  <2> QED BY <2>6, <2>7
<1>5. ASSUME NEW t \in Threads, SubscribeFind(t) PROVE Good
  <2>1. /\ pc[t] = "sub_find"
        /\ UNCHANGED <<handle, subscriptions, subCbs, subDropped, regSub, shuttingDown, cur, sub>>
    BY <1>5 DEF SubscribeFind, subvars, mastervars, lockvars
  <2>2. /\ \/ pc' = [pc EXCEPT ![t] = "sub_connect"] /\ UNCHANGED lapses
           \/ pc' = [pc EXCEPT ![t] = "sub_fail"] /\ lapses' = lapses \cup {"straySub"}
    BY <1>5 DEF SubscribeFind, Goto
  <2>3. /\ pc'[t] = "sub_connect" \/ (pc'[t] = "sub_fail" /\ "straySub" \in lapses')
        /\ "lateJoin" \in lapses' <=> "lateJoin" \in lapses
        /\ lapses \subseteq lapses'
        /\ \A u \in Threads : u # t => pc'[u] = pc[u]
    BY <1>a, <2>2 DEF TypeThreads
  <2>4. SubListInv'
    BY <2>1, <2>3 DEF SubListInv, SubscribePCs, UnsubPCs
  <2>5. RegSubInv'
    BY <2>1, <2>3 DEF RegSubInv
  <2> QED BY <2>4, <2>5
<1>6. ASSUME NEW t \in Threads, SubscribeConnect(t) PROVE Good
  <2>1. /\ pc[t] = "sub_connect" /\ pc' = [pc EXCEPT ![t] = "idle"]
        /\ cur' = [cur EXCEPT ![t] = NoHandle] /\ handle' = [handle EXCEPT ![cur[t]] = "open"]
        /\ subscriptions' = subscriptions \cup {sub[t]}
        /\ UNCHANGED <<subCbs, subDropped, regSub, shuttingDown, lapses, sub>>
    BY <1>6 DEF SubscribeConnect, End, Goto, mastervars, locals
  <2>2. /\ pc'[t] = "idle"
        /\ \A u \in Threads : u # t => pc'[u] = pc[u] /\ cur'[u] = cur[u]
    BY <1>a, <2>1 DEF TypeThreads
  <2>3. \A x \in Subscribers : handle'[x] = "open" => x = cur[t] \/ handle[x] = "open"
    BY <1>a, <2>1 DEF TypeThreads, Handles
  <2>4. \A u \in Threads : pc'[u] \notin SubscribePCs
    BY <1>b, <2>1, <2>2 DEF SubscribePCs
  <2>5. Sound =>
          /\ subscriptions = {} /\ cur[t] \in subCbs[sub[t]] /\ ~subDropped[sub[t]] /\ regSub
          /\ \A u \in Threads : pc[u] \in UnsubPCs => sub[u] # sub[t]
    BY <2>1 DEF SubListInv, SubscribePCs
  <2>6. SubListInv'
    BY <2>1, <2>2, <2>3, <2>4, <2>5 DEF SubListInv, UnsubPCs
  <2>7. RegSubInv'
    BY <2>1 DEF RegSubInv
  <2> QED BY <2>6, <2>7
<1>7. ASSUME NEW t \in Threads, NEW h \in Handles, Unsubscribe(t, h) PROVE Good
  <2>0. /\ UNCHANGED <<subscriptions, subCbs, subDropped, regSub, shuttingDown, lapses>>
        /\ h \in Subscribers /\ pc[t] = "idle" /\ subsLock = NoThread
    BY <1>7 DEF Unsubscribe, subvars, mastervars, lockvars, SubsFree
  <2>n. \A u \in Threads : pc[u] \notin SubscribePCs
    BY <2>0, TopicManagerAssumption DEF ControlInv, LocksInv
  <2>1. \A x \in Subscribers : handle'[x] = "open" => handle[x] = "open"
    <3>1. handle' = [handle EXCEPT ![h] = "closed"] \/ handle' = [handle EXCEPT ![h] = "closing"]
      BY <1>7 DEF Unsubscribe
    <3> QED BY <1>a, <3>1 DEF TypeThreads, Handles
  <2>2. UNCHANGED <<pc, sub>> \/ (Begin(t, h, "unsub_remove") /\ sub' = [sub EXCEPT ![t] = First(subscriptions)])
    BY <1>7 DEF Unsubscribe
  <2>3. /\ pc'[t] \in {"idle", "unsub_remove"}
        /\ \A u \in Threads : u # t => pc'[u] = pc[u] /\ sub'[u] = sub[u]
    BY <1>a, <2>0, <2>2 DEF Begin, Goto, TypeThreads
  <2>4. SubListInv'
    BY <2>0, <2>n, <2>1, <2>3 DEF SubListInv, SubscribePCs
  <2>5. RegSubInv'
    BY <2>0, <2>n, <2>3 DEF RegSubInv, SubscribePCs
  <2> QED BY <2>4, <2>5
<1>8. ASSUME NEW t \in Threads, UnsubscribeRemove(t) PROVE Good
  <2>1. /\ pc[t] = "unsub_remove" /\ pc' = [pc EXCEPT ![t] = "unsub_check"]
        /\ subCbs' = [subCbs EXCEPT ![sub[t]] = @ \ {cur[t]}]
        /\ UNCHANGED <<subscriptions, subDropped, regSub, shuttingDown, lapses>>
        /\ UNCHANGED <<handle, sub, cur>>
    BY <1>8 DEF UnsubscribeRemove, Goto, mastervars, lockvars, locals
  <2>2. pc'[t] = "unsub_check" /\ \A u \in Threads : u # t => pc'[u] = pc[u]
    BY <1>a, <2>1 DEF TypeThreads
  <2>3. \A s \in SubIds : \A x : x \in subCbs[s] /\ x # cur[t] => x \in subCbs'[s]
    BY <1>a, <2>1 DEF TypeSub
  <2>4. /\ handle[cur[t]] = "closing" /\ Owner[cur[t]] = t
        /\ \A u \in Threads : pc[u] \in SubscribePCs => Owner[cur[u]] = u
        /\ \A u \in Threads : pc[u] \in SubscribePCs => sub[u] \in 1..newSub
    BY <2>1 DEF HandlesInv, UnsubPCs, ControlInv, CallsInv
  <2>5. 1..newSub \subseteq SubIds /\ subscriptions \subseteq SubIds
    BY <1>a DEF TypeSub, SubIds
  <2>6. SubListInv'
    <3> SUFFICES ASSUME Sound PROVE SubListInv'
      BY <2>1 DEF SubListInv
    <3>1. ASSUME NEW x \in Subscribers, handle'[x] = "open"
          PROVE  \E s \in subscriptions' : x \in subCbs'[s]
      BY <2>1, <2>3, <2>4, <2>5, <3>1 DEF SubListInv
    <3>2. ASSUME NEW u \in Threads, pc'[u] \in SubscribePCs
          PROVE  /\ subscriptions' = {} /\ cur'[u] \in subCbs'[sub'[u]] /\ ~subDropped'[sub'[u]]
                 /\ pc'[u] # "sub_fail" => regSub'
                 /\ \A v \in Threads : pc'[v] \in UnsubPCs => sub'[v] # sub'[u]
      <4>1. u # t /\ pc[u] \in SubscribePCs /\ cur[u] # cur[t] /\ sub[u] \in SubIds
        BY <2>2, <2>4, <2>5, <3>2 DEF SubscribePCs
      <4>2. \A v \in Threads : pc'[v] \in UnsubPCs => pc[v] \in UnsubPCs
        BY <2>1, <2>2 DEF UnsubPCs
      <4> QED BY <2>1, <2>2, <2>3, <4>1, <4>2 DEF SubListInv
    <3>3. \A u \in Threads : pc'[u] = "unsub_shutdown" => pc[u] = "unsub_shutdown"
      BY <2>2
    <3> QED BY <2>1, <3>1, <3>2, <3>3 DEF SubListInv
  <2>7. RegSubInv'
    BY <2>1, <2>2 DEF RegSubInv
  <2> QED BY <2>6, <2>7
<1>9. ASSUME NEW t \in Threads, UnsubscribeCheck(t) PROVE Good
  <2>1. /\ pc[t] = "unsub_check"
        /\ UNCHANGED <<subscriptions, subCbs, subDropped, regSub, shuttingDown, lapses, sub>>
    BY <1>9 DEF UnsubscribeCheck, subvars, mastervars, lockvars, locals
  <2>2. \/ pc' = [pc EXCEPT ![t] = "unsub_erase"] /\ UNCHANGED <<cur, handle>>
        \/ /\ pc' = [pc EXCEPT ![t] = "idle"] /\ cur' = [cur EXCEPT ![t] = NoHandle]
           /\ handle' = [handle EXCEPT ![cur[t]] = "closed"]
    BY <1>9 DEF UnsubscribeCheck, Goto, End
  <2>3. /\ pc'[t] \in {"idle", "unsub_erase"}
        /\ \A u \in Threads : u # t => pc'[u] = pc[u] /\ cur'[u] = cur[u]
    BY <1>a, <2>2 DEF TypeThreads
  <2>4. \A x \in Subscribers : handle'[x] = "open" => handle[x] = "open"
    BY <1>a, <2>2 DEF TypeThreads, Handles
  <2>5. SubListInv'
    BY <2>1, <2>3, <2>4 DEF SubListInv, SubscribePCs, UnsubPCs
  <2>6. RegSubInv'
    BY <2>1, <2>3 DEF RegSubInv
  <2> QED BY <2>5, <2>6
<1>10. ASSUME NEW t \in Threads, UnsubscribeErase(t) PROVE Good
  <2>1. /\ pc[t] = "unsub_erase" /\ pc' = [pc EXCEPT ![t] = "unsub_shutdown"]
        /\ subscriptions' = subscriptions \ {First(subscriptions)}
        /\ subsLock = NoThread
        /\ lapses' = Lapsed("straySub", regSub')
                       \cup {l \in {"lateJoin"} : \/ subCbs[sub[t]] # {}
                                                 \/ First(subscriptions) \notin {0, sub[t]}}
        /\ UNCHANGED <<handle, subCbs, subDropped, shuttingDown, cur, sub>>
    BY <1>10 DEF UnsubscribeErase, Goto, lockvars, locals, SubsFree
  <2>n. \A u \in Threads : pc[u] \notin SubscribePCs
    BY <2>1, TopicManagerAssumption DEF ControlInv, LocksInv
  <2>2. pc'[t] = "unsub_shutdown" /\ \A u \in Threads : u # t => pc'[u] = pc[u]
    BY <1>a, <2>1 DEF TypeThreads
  <2>3. /\ regSub' => "straySub" \in lapses'
        /\ "lateJoin" \in lapses => "lateJoin" \in lapses'
        /\ "lateJoin" \notin lapses' =>
             subCbs[sub[t]] = {} /\ First(subscriptions) \in {0, sub[t]}
    BY <2>1 DEF Lapsed
  <2>4. SubListInv'
    <3> SUFFICES ASSUME ~shuttingDown, "lateJoin" \notin lapses' PROVE SubListInv'
      BY <2>1 DEF SubListInv
    <3>1. Sound
      BY <2>3
    <3>2. /\ subscriptions' = {}
          /\ subscriptions = {} \/ subscriptions = {sub[t]}
      <4>1. 0 \notin subscriptions
        BY <1>a DEF TypeSub
      <4>2. subscriptions # {} => First(subscriptions) \in subscriptions
        BY <1>a, SubLookups
      <4>3. \A r, s \in subscriptions : r = s
        BY <3>1 DEF SubListInv
      <4> QED BY <2>1, <2>3, <4>1, <4>2, <4>3
    <3>3. ~ \E x \in Subscribers : handle'[x] = "open"
      BY <2>1, <2>3, <3>1, <3>2 DEF SubListInv
    <3>4. \A u \in Threads : pc'[u] \notin SubscribePCs
      BY <2>n, <2>2 DEF SubscribePCs
    <3> QED BY <3>2, <3>3, <3>4 DEF SubListInv
  <2>5. RegSubInv'
    BY <2>3 DEF RegSubInv
  <2> QED BY <2>4, <2>5
<1>11. ASSUME NEW t \in Threads, UnsubscribeShutdown(t) PROVE Good
  <2>1. /\ pc[t] = "unsub_shutdown" /\ pc' = [pc EXCEPT ![t] = "idle"]
        /\ cur' = [cur EXCEPT ![t] = NoHandle] /\ handle' = [handle EXCEPT ![cur[t]] = "closed"]
        /\ subDropped' = [subDropped EXCEPT ![sub[t]] = TRUE]
        /\ UNCHANGED <<subscriptions, subCbs, regSub, shuttingDown, lapses, sub>>
    BY <1>11 DEF UnsubscribeShutdown, End, Goto, mastervars, lockvars, locals
  <2>2. /\ pc'[t] = "idle"
        /\ \A u \in Threads : u # t => pc'[u] = pc[u] /\ cur'[u] = cur[u]
    BY <1>a, <2>1 DEF TypeThreads
  <2>3. \A x \in Subscribers : handle'[x] = "open" => handle[x] = "open"
    BY <1>a, <2>1 DEF TypeThreads, Handles
  <2>4. \A s : s # sub[t] => subDropped'[s] = subDropped[s]
    BY <1>a, <2>1 DEF TypeSub
  <2>5. Sound => /\ sub[t] \notin subscriptions
                 /\ \A u \in Threads : pc[u] \in SubscribePCs => sub[u] # sub[t]
    BY <2>1 DEF SubListInv, UnsubPCs
  <2>6. SubListInv'
    BY <2>1, <2>2, <2>3, <2>4, <2>5 DEF SubListInv, SubscribePCs, UnsubPCs
  <2>7. RegSubInv'
    BY <2>1, <2>2 DEF RegSubInv
  <2> QED BY <2>6, <2>7
<1> QED BY <1>1, <1>2, <1>3, <1>4, <1>5, <1>6, <1>7, <1>8, <1>9, <1>10, <1>11 DEF Next

\* The invariant of the registrations.
RegistrationsInv ==
  /\ ControlInv /\ HandlesInv /\ FreshInv
  /\ StaleInv /\ PubListInv /\ RegPubInv
  /\ SubListInv /\ RegSubInv

\* What the master has registered, what is listed and which handles are open belong
\* together, whichever threads own the handles, whatever the master answers and
\* however the operations interleave, up to the lapses RegistrationsMatch names.
THEOREM RegistrationsFollowHandles == Spec => []RegistrationsMatch
<1>1. Init => RegistrationsInv
  <2> SUFFICES ASSUME Init PROVE RegistrationsInv
    OBVIOUS
  <2>1. \A t \in Threads : pc[t] = "idle"
    BY DEF Init
  <2>2. \A h \in Handles : handle[h] = "new"
    BY DEF Init
  <2>3. HandlesInv /\ FreshInv
    BY <2>1 DEF Init, HandlesInv, FreshInv, PubPCs, SubscribePCs, UnsubPCs
  <2>4. StaleInv /\ PubListInv
    BY <2>1, <2>2 DEF Init, StaleInv, PubListInv, AdvPCs, Handles
  <2>5. RegPubInv /\ RegSubInv
    BY DEF Init, RegPubInv, ListedPub, RegSubInv
  <2>6. SubListInv
    BY <2>1, <2>2 DEF Init, SubListInv, SubscribePCs, Handles
  <2> QED BY InitControl, <2>3, <2>4, <2>5, <2>6 DEF RegistrationsInv
<1>2. RegistrationsInv /\ [Next]_vars => RegistrationsInv'
  BY NextControl, HandlesStep, FreshStep, RegPubStep, RegSubStep DEF RegistrationsInv
<1>3. RegistrationsInv => RegistrationsMatch
  <2> SUFFICES ASSUME RegistrationsInv PROVE RegistrationsMatch
    OBVIOUS
  <2>0. TypePub
    BY TypeGroups DEF RegistrationsInv, ControlInv
  <2>1. ASSUME "staleErase" \notin lapses, PublisherOpen
        PROVE  names > 0 /\ (regPub \/ "unlisted" \in lapses)
    <3>1. ListedPub
      BY <2>1 DEF PublisherOpen, Idle, RegistrationsInv, RegPubInv, Doomed
    <3>2. advertised # {}
      BY <2>1 DEF PublisherOpen, RegistrationsInv, PubListInv
    <3> QED BY <2>1, <3>1, <3>2 DEF PublisherOpen, Idle, ListedPub, AdvPCs
  <2>2. "staleErase" \notin lapses => PublishFindsPublication
    BY <2>0, PubLookups DEF RegistrationsInv, PubListInv, PublishFindsPublication
  <2>3. ASSUME "staleErase" \notin lapses, Idle, ~shuttingDown, regPub
        PROVE  (\E p \in advertised : ~pubDropped[p]) \/ "strayPub" \in lapses
    <3>1. ListedPub
      BY <2>3 DEF Idle, RegistrationsInv, RegPubInv, Doomed
    <3> QED BY <2>3, <3>1 DEF ListedPub, RegistrationsInv, PubListInv
  <2>4. "lateJoin" \notin lapses => SubscriberServed
    BY DEF RegistrationsInv, SubListInv, SubscriberServed
  <2>5. Idle /\ ~shuttingDown /\ regSub => subscriptions # {} \/ "straySub" \in lapses
    BY DEF Idle, RegistrationsInv, RegSubInv
  <2> QED BY <2>1, <2>2, <2>3, <2>4, <2>5 DEF RegistrationsMatch
<1> QED BY <1>1, <1>2, <1>3, PTL DEF Spec
=============================================================================
