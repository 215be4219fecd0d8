--------------------------- MODULE PublisherLinks ---------------------------
(***************************************************************************)
(* The connections of one xcros::Subscription to the publishers of other   *)
(* processes.  The master's list of publishers arrives in pubUpdate, which *)
(* drops the links that are not in it and asks each new publisher for a    *)
(* connection (requestTopic); the RPC server thread hands the answer to    *)
(* pendingConnectionDone, which connects and adds a TransportPublisherLink;*)
(* a link that loses its connection connects again from a timer.           *)
(*                                                                         *)
(* Five threads take part: the one in pubUpdate, the RPC server thread,    *)
(* the poll thread (events of the sockets), the internal callback queue    *)
(* (the retry timers) and the one in shutdown.  shutdown_mutex_ is held by *)
(* pubUpdate and pendingConnectionDone from beginning to end and by        *)
(* shutdown for one assignment.                                            *)
(*                                                                         *)
(* An attempt is a PendingConnection and the link it becomes.  A link is   *)
(* destroyed, its connection closed and its timer removed with it, when    *)
(* nothing refers to it any more: Referenced says when, and an attempt     *)
(* that is not referenced takes no further step.                           *)
(***************************************************************************)
EXTENDS Integers, FiniteSets

CONSTANTS
  Uri,            \* the RPC URIs of the publishers
  SelfUri,        \* this node's own URI
  UdpUri,         \* publishers that answer with UDPROS, the others with TCPROS
  FirstConnect,   \* what TransportTCP::connect may do in pendingConnectionDone
  Reconnect,      \* what it may do in onRetryTimer
  MaxAttempts,    \* bound: requests sent
  MaxUpdates,     \* bound: calls of pubUpdate
  MaxLosses,      \* bound: connections lost
  None

Attempts == 1..MaxAttempts

\* connect() fails at once; or is under way; or the socket is closed by the
\* poll thread after it joined the poll set and before the Connection has set
\* its disconnect callback, so that nobody is told
ConnectOutcomes == {"fails", "opening", "unheard"}

ASSUME PublisherLinksAssumption ==
  /\ SelfUri \in Uri /\ UdpUri \subseteq Uri
  /\ None \notin Uri \cup {"update", "server"}
  /\ FirstConnect \subseteq ConnectOutcomes /\ Reconnect \subseteq ConnectOutcomes
  /\ MaxAttempts \in Nat /\ MaxUpdates \in Nat /\ MaxLosses \in Nat

VARIABLES
  listed,         \* the other nodes in the list pubUpdate was last called with
  pending,        \* pending_connections_
  publisherLinks, \* publisher_links_
  mutex,          \* holder of shutdown_mutex_: "update", "server" or None
  shuttingDown,   \* shutting_down_
  dropped,        \* dropped_
  added,          \* RobotRPCManager::added_connections_
  connections,    \* RobotRPCManager::connections_
  attempts,       \* PendingConnection objects made so far
  uri,            \* each attempt's publisher
  conn,           \* each link's connection: "none", "opening" (the header is
                  \* awaited), "up", "closed" or "unheard"
  dropping,       \* links with dropping_
  needsRetry,     \* links with needs_retry_
  timer,          \* links whose retry timer is in the TimerManager
  handle,         \* links whose retry_timer_handle_ is not -1
  subtractions,   \* pubUpdate: links it drops or has dropped
  additions,      \* pubUpdate: publishers it has still to ask
  asked,          \* pubUpdate: the attempt not yet in pending_connections_, or 0
  making,         \* pendingConnectionDone: the link not yet added, or 0
  removing,       \* poll thread: the link in drop() not yet removed, or 0
  retrying,       \* internal queue: the link in onRetryTimer, or 0
  closing,        \* shutdown: links swapped out and not yet dropped
  shut,           \* shutdown: "no", "locked", "dropping" or "done"
  updates, losses,\* counters for the bounds
  gaveUp          \* history: publishers the code has stopped trying to reach

updateVars == <<subtractions, additions, asked, updates>>
rpcVars == <<added, connections>>
linkVars == <<conn, dropping, needsRetry, timer, handle>>
shutVars == <<shuttingDown, dropped, closing, shut>>
vars == <<listed, pending, publisherLinks, mutex, attempts, uri, making, removing,
          retrying, losses, gaveUp, updateVars, rpcVars, linkVars, shutVars>>

TypeOK ==
  /\ listed \subseteq Uri /\ additions \subseteq Uri /\ gaveUp \subseteq Uri
  /\ mutex \in {"update", "server", None}
  /\ shuttingDown \in BOOLEAN /\ dropped \in BOOLEAN
  /\ shut \in {"no", "locked", "dropping", "done"}
  /\ attempts \in 0..MaxAttempts
  /\ pending \subseteq 1..attempts /\ publisherLinks \subseteq 1..attempts
  /\ added \subseteq 1..attempts /\ connections \subseteq 1..attempts
  /\ dropping \subseteq 1..attempts /\ needsRetry \subseteq 1..attempts
  /\ timer \subseteq 1..attempts /\ handle \subseteq 1..attempts
  /\ subtractions \subseteq 1..attempts /\ closing \subseteq 1..attempts
  /\ asked \in 0..attempts /\ making \in 0..attempts
  /\ removing \in 0..attempts /\ retrying \in 0..attempts
  /\ uri \in [Attempts -> Uri \cup {None}]
  /\ \A k \in 1..attempts : uri[k] \in Uri
  /\ conn \in [Attempts -> {"none", "opening", "up", "closed", "unheard"}]
  /\ updates \in 0..MaxUpdates /\ losses \in 0..MaxLosses

Init ==
  /\ listed = {} /\ pending = {} /\ publisherLinks = {} /\ mutex = None
  /\ shuttingDown = FALSE /\ dropped = FALSE
  /\ added = {} /\ connections = {}
  /\ attempts = 0 /\ uri = [k \in Attempts |-> None]
  /\ conn = [k \in Attempts |-> "none"]
  /\ dropping = {} /\ needsRetry = {} /\ timer = {} /\ handle = {}
  /\ subtractions = {} /\ additions = {} /\ asked = 0
  /\ making = 0 /\ removing = 0 /\ retrying = 0
  /\ closing = {} /\ shut = "no"
  /\ updates = 0 /\ losses = 0 /\ gaveUp = {}

-----------------------------------------------------------------------------
\* The shared_ptrs to a link: the subscription's list and the local variables
\* of the functions that are working on it.
Referenced(k) ==
  k \in publisherLinks \cup subtractions \cup closing \cup {making, removing, retrying}

Open(k) == conn[k] \in {"opening", "up"}

\* Connection::drop: the first call closes the transport.  An unheard closing
\* of the transport has left the Connection undropped.
CloseConnection(k) == [conn EXCEPT ![k] = "closed"]

-----------------------------------------------------------------------------
(* Subscription::pubUpdate *)

KnownUris(links) == {uri[k] : k \in links}

\* Mutation: pubUpdate does not wait for shutdown_mutex_.
PubUpdateUnlocked(new) ==
  /\ updates < MaxUpdates /\ mutex # "update"
  /\ ~shuttingDown /\ ~dropped
  /\ mutex' = "update"
  /\ subtractions' = {k \in publisherLinks : uri[k] \notin new}
  /\ additions' = new \ ({SelfUri} \cup KnownUris(publisherLinks \cup pending))
  /\ listed' = new \ {SelfUri} /\ updates' = updates + 1
  /\ UNCHANGED <<pending, publisherLinks, attempts, uri, asked, making, removing,
                 retrying, losses, gaveUp, rpcVars, linkVars, shutVars>>

\* The two scans under publisher_links_mutex_; a call on a subscription that is
\* shutting down returns at once.  The node's own URI is never negotiated.
PubUpdate(new) ==
  /\ updates < MaxUpdates /\ mutex = None
  /\ ~shuttingDown /\ ~dropped
  /\ mutex' = "update"
  /\ subtractions' = {k \in publisherLinks : uri[k] \notin new}
  /\ additions' = new \ ({SelfUri} \cup KnownUris(publisherLinks \cup pending))
  /\ listed' = new \ {SelfUri} /\ updates' = updates + 1
  /\ UNCHANGED <<pending, publisherLinks, attempts, uri, asked, making, removing,
                 retrying, losses, gaveUp, rpcVars, linkVars, shutVars>>

\* The links pubUpdate has still to drop: drop() on a link that has been dropped
\* and removed meanwhile changes nothing.
ToDrop == {k \in subtractions : k \notin dropping \/ k \in publisherLinks}

\* TransportPublisherLink::drop for a link that is no longer listed.
UpdateDrop(k) ==
  /\ mutex = "update" /\ k \in ToDrop
  /\ dropping' = dropping \cup {k}
  /\ conn' = CloseConnection(k)
  /\ publisherLinks' = publisherLinks \ {k}
  /\ UNCHANGED <<listed, pending, mutex, attempts, uri, making, removing, retrying,
                 losses, gaveUp, needsRetry, timer, handle, updateVars, rpcVars, shutVars>>

\* negotiateConnection: the URI is bad or executeNonBlock fails; or the request
\* is on its way and the RPC server thread is told to watch it.
UpdateNegotiate(u, contacted) ==
  /\ mutex = "update" /\ ToDrop = {}
  /\ asked = 0 /\ u \in additions
  /\ additions' = additions \ {u}
  /\ IF contacted
     THEN /\ attempts < MaxAttempts
          /\ attempts' = attempts + 1
          /\ uri' = [uri EXCEPT ![attempts + 1] = u]
          /\ added' = added \cup {attempts + 1}
          /\ asked' = attempts + 1
          /\ gaveUp' = gaveUp \ {u}
     ELSE /\ gaveUp' = gaveUp \cup {u}
          /\ UNCHANGED <<attempts, uri, added, asked>>
  /\ UNCHANGED <<listed, pending, publisherLinks, mutex, making, removing, retrying,
                 losses, subtractions, updates, connections, linkVars, shutVars>>

\* negotiateConnection: the attempt joins pending_connections_.
UpdatePend ==
  /\ mutex = "update" /\ asked # 0
  /\ pending' = pending \cup {asked}
  /\ asked' = 0
  /\ UNCHANGED <<listed, publisherLinks, mutex, attempts, uri, making, removing, retrying,
                 losses, gaveUp, subtractions, additions, updates, rpcVars, linkVars, shutVars>>

\* pubUpdate returns, and lets go of the links in its local lists.
UpdateReturn ==
  /\ mutex = "update" /\ ToDrop = {}
  /\ additions = {} /\ asked = 0
  /\ mutex' = None /\ subtractions' = {}
  /\ UNCHANGED <<listed, pending, publisherLinks, attempts, uri, making, removing, retrying,
                 losses, gaveUp, additions, asked, updates, rpcVars, linkVars, shutVars>>

-----------------------------------------------------------------------------
(* RobotRPCManager::serverThreadFunc and Subscription::pendingConnectionDone *)

\* The connections added since the last round are watched from now on.
ServerAdd ==
  /\ added # {} /\ making = 0
  /\ connections' = connections \cup added
  /\ added' = {}
  /\ UNCHANGED <<listed, pending, publisherLinks, mutex, attempts, uri, making, removing,
                 retrying, losses, gaveUp, updateVars, linkVars, shutVars>>

\* pendingConnectionDone up to the point where the link has its connection and
\* its listeners; state says what became of the connection, "none" standing for
\* an answer that is an error or offers no protocol, or a UDPROS header without
\* the required fields.
Negotiated(k, state) ==
  /\ pending' = pending \ {k}
  /\ IF state \in {"none", "fails"}
     THEN /\ gaveUp' = gaveUp \cup {uri[k]}
          /\ UNCHANGED <<conn, making, mutex>>
     ELSE /\ making' = k /\ mutex' = "server"
          /\ conn' = [conn EXCEPT ![k] = state]
          /\ gaveUp' = IF state = "unheard" THEN gaveUp \cup {uri[k]} ELSE gaveUp

\* How the connection to u can begin.  A UDPROS link has its header from the
\* answer.
FirstStates(u) == {"none"} \cup (IF u \in UdpUri THEN {"up"} ELSE FirstConnect)

\* Mutation: pendingConnectionDone does not wait for shutdown_mutex_.
PendingConnectionDoneUnlocked(k, state) ==
  /\ k \in connections /\ making = 0 /\ mutex # "server"
  /\ state \in FirstStates(uri[k])
  /\ connections' = connections \ {k}
  /\ IF shuttingDown \/ dropped
     THEN UNCHANGED <<pending, conn, making, mutex, gaveUp>>
     ELSE Negotiated(k, state)
  /\ UNCHANGED <<listed, publisherLinks, attempts, uri, removing, retrying, losses, dropping,
                 needsRetry, timer, handle, added, updateVars, shutVars>>

\* Mutation: an answer is used although the subscription is shutting down.
PendingConnectionDoneLate(k, state) ==
  /\ k \in connections /\ making = 0 /\ mutex = None
  /\ state \in FirstStates(uri[k])
  /\ connections' = connections \ {k}
  /\ Negotiated(k, state)
  /\ UNCHANGED <<listed, publisherLinks, attempts, uri, removing, retrying, losses, dropping,
                 needsRetry, timer, handle, added, updateVars, shutVars>>

\* PendingConnection::check finds the answer; the attempt is dispatched no more.
PendingConnectionDone(k, state) ==
  /\ k \in connections /\ making = 0 /\ mutex = None
  /\ state \in FirstStates(uri[k])
  /\ connections' = connections \ {k}
  /\ IF shuttingDown \/ dropped
     THEN UNCHANGED <<pending, conn, making, mutex, gaveUp>>
     ELSE Negotiated(k, state)
  /\ UNCHANGED <<listed, publisherLinks, attempts, uri, removing, retrying, losses, dropping,
                 needsRetry, timer, handle, added, updateVars, shutVars>>

\* addPublisherLink, and pendingConnectionDone returns.
AddPublisherLink ==
  /\ making # 0
  /\ publisherLinks' = publisherLinks \cup {making}
  /\ making' = 0 /\ mutex' = None
  /\ UNCHANGED <<listed, pending, attempts, uri, removing, retrying, losses, gaveUp,
                 updateVars, rpcVars, linkVars, shutVars>>

-----------------------------------------------------------------------------
(* TransportPublisherLink: the poll thread *)

\* A failure of link k means its publisher is not reached, unless the link had
\* been dropped already.
GivenUp(k) == IF k \in dropping THEN gaveUp ELSE gaveUp \cup {uri[k]}

PollReady(k) == removing = 0 /\ k \in 1..attempts /\ Referenced(k) /\ Open(k)

\* Mutation: retry_timer_handle_ is not reset when the timer is removed.
HeaderReceivedKeepsHandle(k) ==
  /\ PollReady(k) /\ conn[k] = "opening"
  /\ k \in handle => retrying # k
  /\ conn' = [conn EXCEPT ![k] = "up"]
  /\ timer' = timer \ {k}
  /\ UNCHANGED <<listed, pending, publisherLinks, mutex, attempts, uri, making, removing,
                 retrying, losses, gaveUp, dropping, needsRetry, handle, updateVars,
                 rpcVars, shutVars>>

\* onHeaderReceived with a good header.  Removing the timer waits for a running
\* onRetryTimer of the link.
HeaderReceived(k) ==
  /\ PollReady(k) /\ conn[k] = "opening"
  /\ k \in handle => retrying # k
  /\ conn' = [conn EXCEPT ![k] = "up"]
  /\ timer' = timer \ {k} /\ handle' = handle \ {k}
  /\ UNCHANGED <<listed, pending, publisherLinks, mutex, attempts, uri, making, removing,
                 retrying, losses, gaveUp, dropping, needsRetry, updateVars, rpcVars, shutVars>>

\* A bad header, an error header or an impossible message length: drop(), which
\* has closed the connection and not yet removed the link.
PollDrop(k) ==
  /\ PollReady(k)
  /\ dropping' = dropping \cup {k}
  /\ conn' = CloseConnection(k)
  /\ removing' = k
  /\ gaveUp' = GivenUp(k)
  /\ UNCHANGED <<listed, pending, publisherLinks, mutex, attempts, uri, making, retrying,
                 losses, needsRetry, timer, handle, updateVars, rpcVars, shutVars>>

\* removePublisherLink at the end of drop().
PollRemove ==
  /\ removing # 0
  /\ publisherLinks' = publisherLinks \ {removing}
  /\ removing' = 0
  /\ UNCHANGED <<listed, pending, mutex, attempts, uri, making, retrying, losses, gaveUp,
                 updateVars, rpcVars, linkVars, shutVars>>

\* onConnectionDropped(TransportDisconnect): the connection is lost, or a connect
\* under way is refused.  setPeriod reaches a timer only if the manager has it.
ConnectionLost(k) ==
  /\ losses < MaxLosses /\ PollReady(k)
  /\ losses' = losses + 1
  /\ conn' = CloseConnection(k)
  /\ IF k \in dropping
     THEN UNCHANGED <<needsRetry, timer, handle>>
     ELSE /\ needsRetry' = needsRetry \cup {k}
          /\ timer' = IF k \in handle THEN timer ELSE timer \cup {k}
          /\ handle' = handle \cup {k}
  /\ UNCHANGED <<listed, pending, publisherLinks, mutex, attempts, uri, making, removing,
                 retrying, gaveUp, dropping, updateVars, rpcVars, shutVars>>

-----------------------------------------------------------------------------
(* TransportPublisherLink::onRetryTimer: the thread of the internal queue *)

\* Mutation: needs_retry_ is not cleared.
RetryTimerKeepsFlag(k) ==
  /\ retrying = 0 /\ k \in timer /\ Referenced(k)
  /\ k \notin dropping /\ k \in needsRetry
  /\ retrying' = k
  /\ UNCHANGED <<listed, pending, publisherLinks, mutex, attempts, uri, making, removing,
                 losses, gaveUp, conn, dropping, needsRetry, timer, handle, updateVars,
                 rpcVars, shutVars>>

\* The timer fires after next_retry_: needs_retry_ is cleared first.  A call for
\* a link that is being dropped, or needs no retry, does nothing.
RetryTimer(k) ==
  /\ retrying = 0 /\ k \in timer /\ Referenced(k)
  /\ k \notin dropping /\ k \in needsRetry
  /\ needsRetry' = needsRetry \ {k}
  /\ retrying' = k
  /\ UNCHANGED <<listed, pending, publisherLinks, mutex, attempts, uri, making, removing,
                 losses, gaveUp, conn, dropping, timer, handle, updateVars, rpcVars, shutVars>>

\* TCPROS: connect again to the same host and port.  A connect() that fails at
\* once leaves the link in the list with needs_retry_ false.
RetryConnect(outcome) ==
  /\ retrying # 0 /\ uri[retrying] \notin UdpUri
  /\ outcome \in Reconnect
  /\ retrying' = 0
  /\ IF outcome = "fails" THEN UNCHANGED conn
     ELSE conn' = [conn EXCEPT ![retrying] = outcome]
  /\ gaveUp' = IF outcome = "opening" THEN gaveUp ELSE GivenUp(retrying)
  /\ UNCHANGED <<listed, pending, publisherLinks, mutex, attempts, uri, making, removing,
                 losses, dropping, needsRetry, timer, handle, updateVars, rpcVars, shutVars>>

\* UDPROS: no retry, the link leaves the list.
RetryUdp ==
  /\ retrying # 0 /\ uri[retrying] \in UdpUri
  /\ publisherLinks' = publisherLinks \ {retrying}
  /\ gaveUp' = GivenUp(retrying)
  /\ retrying' = 0
  /\ UNCHANGED <<listed, pending, mutex, attempts, uri, making, removing, losses,
                 updateVars, rpcVars, linkVars, shutVars>>

-----------------------------------------------------------------------------
(* Subscription::shutdown *)

ShutdownBegin ==
  /\ shut = "no" /\ mutex = None
  /\ shuttingDown' = TRUE /\ shut' = "locked"
  /\ UNCHANGED <<listed, pending, publisherLinks, mutex, attempts, uri, making, removing,
                 retrying, losses, gaveUp, dropped, closing, updateVars, rpcVars, linkVars>>

\* drop and dropAllConnections: the list is swapped out.
ShutdownSwap ==
  /\ shut = "locked"
  /\ dropped' = TRUE /\ shut' = "dropping"
  /\ closing' = publisherLinks /\ publisherLinks' = {}
  /\ UNCHANGED <<listed, pending, mutex, attempts, uri, making, removing, retrying, losses,
                 gaveUp, shuttingDown, updateVars, rpcVars, linkVars>>

\* Each link is dropped; the last one lets go of the local list.
ShutdownLink ==
  /\ shut = "dropping"
  /\ IF closing \subseteq dropping
     THEN /\ shut' = "done" /\ closing' = {}
          /\ UNCHANGED <<dropping, conn>>
     ELSE \E k \in closing \ dropping :
          /\ dropping' = dropping \cup {k}
          /\ conn' = CloseConnection(k)
          /\ UNCHANGED <<shut, closing>>
  /\ UNCHANGED <<listed, pending, publisherLinks, mutex, attempts, uri, making, removing,
                 retrying, losses, gaveUp, needsRetry, timer, handle, shuttingDown, dropped,
                 updateVars, rpcVars>>

-----------------------------------------------------------------------------
Update ==
  \/ \E new \in SUBSET Uri : PubUpdate(new)
  \/ \E k \in Attempts : UpdateDrop(k)
  \/ \E u \in Uri, contacted \in BOOLEAN : UpdateNegotiate(u, contacted)
  \/ UpdatePend
  \/ UpdateReturn

Server ==
  \/ ServerAdd
  \/ \E k \in Attempts, state \in ConnectOutcomes \cup {"none", "up"} :
       PendingConnectionDone(k, state)
  \/ AddPublisherLink

Poll ==
  \/ \E k \in Attempts : HeaderReceived(k) \/ PollDrop(k) \/ ConnectionLost(k)
  \/ PollRemove

Retry ==
  \/ \E k \in Attempts : RetryTimer(k)
  \/ \E outcome \in ConnectOutcomes : RetryConnect(outcome)
  \/ RetryUdp

Shutdown == ShutdownBegin \/ ShutdownSwap \/ ShutdownLink

Next == Update \/ Server \/ Poll \/ Retry \/ Shutdown

Spec == Init /\ [][Next]_vars

\* pubUpdate and shutdown need not be called and connections need not be lost;
\* what has begun goes on.  The server thread polls its connections and an
\* answer or an error comes for each (executeCheckDone); timers fire; a publisher
\* that accepts a connection sends its header.
FairSpec ==
  /\ Spec
  /\ WF_vars(\E k \in Attempts : UpdateDrop(k))
  /\ WF_vars(\E u \in Uri, contacted \in BOOLEAN : UpdateNegotiate(u, contacted))
  /\ WF_vars(UpdatePend) /\ WF_vars(UpdateReturn)
  /\ WF_vars(ServerAdd) /\ WF_vars(AddPublisherLink) /\ WF_vars(PollRemove)
  /\ \A k \in Attempts :
       /\ WF_vars(\E state \in FirstStates(uri[k]) : PendingConnectionDone(k, state))
       /\ WF_vars(HeaderReceived(k))
       /\ WF_vars(RetryTimer(k))
  /\ WF_vars(\E outcome \in Reconnect : RetryConnect(outcome)) /\ WF_vars(RetryUdp)
  /\ WF_vars(ShutdownSwap) /\ WF_vars(ShutdownLink)

-----------------------------------------------------------------------------
(* Properties *)

Negotiating(k) == k \in pending \/ k = asked \/ k = making

\* A publisher is asked or connected once at a time: pubUpdate counts a publisher
\* as known when it is in publisher_links_ or pending_connections_, and an attempt
\* is in neither list between leaving the second and entering the first.
OneLinkPerPublisher ==
  \A j, k \in 1..attempts :
    (/\ Negotiating(j) \/ j \in publisherLinks
     /\ Negotiating(k) \/ k \in publisherLinks
     /\ uri[j] = uri[k]) => j = k

\* Every entry of pending_connections_ is watched by the RPC server thread, which
\* will take it out: an entry left behind would keep pubUpdate from ever asking
\* that publisher again.  negotiateConnection hands the attempt to the server
\* thread before it inserts the entry.
PendingIsAwaited ==
  ~shuttingDown => \A k \in pending \cup ({asked} \ {0}) : k \in added \cup connections

\* A link that waits for a retry has a timer in the TimerManager, and has no open
\* connection (the assertion on needs_retry_ in onConnectionDropped).
RetryIsScheduled ==
  \A k \in needsRetry : Referenced(k) /\ k \notin dropping => k \in timer /\ ~Open(k)

\* Once shutdown has returned the subscription has no link, whatever
\* pendingConnectionDone and pubUpdate were about to do, and the only link that
\* still exists is one a callback is in.
NothingAfterShutdown ==
  shut = "done" => /\ publisherLinks = {} /\ making = 0
                   /\ \A k \in 1..attempts : Referenced(k) => k \in {removing, retrying}

Up(u) == \E k \in publisherLinks : uri[k] = u /\ conn[k] = "up"

\* In the end every listed publisher has a connected link, unless the last attempt
\* to reach it ended in one of the failures the code gives up at: lost connections
\* and refused connects, in any order with updates, are made up for by retries.
ListedIsServed ==
  <>[](shut # "no" \/ \A u \in listed : Up(u) \/ u \in gaveUp)

=============================================================================
