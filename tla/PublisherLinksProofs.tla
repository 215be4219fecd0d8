------------------------ MODULE PublisherLinksProofs ------------------------
(***************************************************************************)
(* For any publishers and any number of updates, attempts, losses and      *)
(* retries: one link per publisher, no forgotten pending entry, a timer for *)
(* every waiting link, and nothing left after shutdown.                    *)
(*                                                                         *)
(* None of these is inductive.  LinkInv adds what shutdown_mutex_ gives    *)
(* (LockInv: the local variables of pubUpdate and pendingConnectionDone    *)
(* exist only while it is held, and a publisher pubUpdate is about to ask  *)
(* stays unknown meanwhile), that the attempts the server thread watches   *)
(* are exactly the pending ones until shutdown (AwaitInv), that they are   *)
(* not links yet (FreshInv), and how far shutdown is (ShutInv).            *)
(***************************************************************************)
EXTENDS PublisherLinks, TLAPS

Known(k) == Negotiating(k) \/ k \in publisherLinks

LockInv ==
  /\ making # 0 <=> mutex = "server"
  /\ mutex # "update" => asked = 0 /\ additions = {} /\ subtractions = {}
  /\ \A k \in 1..attempts : Known(k) => uri[k] \notin additions

AwaitInv ==
  /\ added \cap connections = {}
  /\ added \cup connections \subseteq pending \cup {asked}

FreshInv ==
  \A k \in Attempts :
    k > attempts \/ k \in added \cup connections
      => conn[k] = "none" /\ k \notin needsRetry /\ k \notin timer /\ ~Referenced(k)

RetryInv ==
  /\ handle = timer
  /\ retrying # 0 => retrying \notin needsRetry /\ ~Open(retrying)

ShutInv ==
  /\ shuttingDown <=> shut # "no"
  /\ shuttingDown => mutex = None
  /\ dropped => shuttingDown
  /\ shut \in {"dropping", "done"} => publisherLinks = {}
  /\ shut # "dropping" => closing = {}

LinkInv ==
  /\ TypeOK /\ LockInv /\ AwaitInv /\ FreshInv /\ RetryInv /\ ShutInv
  /\ OneLinkPerPublisher /\ PendingIsAwaited /\ RetryIsScheduled

-----------------------------------------------------------------------------
USE PublisherLinksAssumption DEF Attempts

\* Nothing has begun in the initial state.
LEMMA InitLinks == Init => LinkInv
<1> SUFFICES ASSUME Init PROVE LinkInv
  OBVIOUS
<1>1. TypeOK
  <2>1. uri \in [Attempts -> Uri \cup {None}]
        /\ conn \in [Attempts -> {"none", "opening", "up", "closed", "unheard"}]
    BY DEF Init
  <2>2. attempts = 0 /\ updates = 0 /\ losses = 0 /\ 1..attempts = {}
    BY DEF Init
  <2>3. 0 \in 0..MaxUpdates /\ 0 \in 0..MaxLosses /\ 0 \in 0..MaxAttempts /\ 0 \in 0..attempts
    BY <2>2
  <2>4. /\ asked = 0 /\ making = 0 /\ removing = 0 /\ retrying = 0
        /\ mutex = None /\ shut = "no" /\ shuttingDown = FALSE /\ dropped = FALSE
    BY DEF Init
  <2>5. /\ listed = {} /\ additions = {} /\ gaveUp = {} /\ pending = {} /\ publisherLinks = {}
        /\ added = {} /\ connections = {} /\ dropping = {} /\ needsRetry = {} /\ timer = {}
        /\ handle = {} /\ subtractions = {} /\ closing = {}
    BY DEF Init
  <2> QED BY <2>1, <2>2, <2>3, <2>4, <2>5 DEF TypeOK
<1>2. LockInv /\ AwaitInv /\ RetryInv /\ ShutInv
  BY DEF Init, LockInv, AwaitInv, RetryInv, ShutInv
<1>3. FreshInv
  BY DEF Init, FreshInv, Referenced
<1>4. OneLinkPerPublisher /\ PendingIsAwaited /\ RetryIsScheduled
  BY DEF Init, OneLinkPerPublisher, PendingIsAwaited, RetryIsScheduled
<1> QED BY <1>1, <1>2, <1>3, <1>4 DEF LinkInv

\* pubUpdate's scans find exactly the publishers that are not known.
LEMMA PubUpdateStep ==
  ASSUME LinkInv, NEW new \in SUBSET Uri, PubUpdate(new)
  PROVE  LinkInv'
<1> USE DEF LinkInv
<1>1. TypeOK'
  <2>1. updates' \in 0..MaxUpdates
    BY DEF TypeOK, PubUpdate
  <2>2. additions' \subseteq Uri /\ listed' \subseteq Uri /\ subtractions' \subseteq 1..attempts
    BY DEF TypeOK, PubUpdate
  <2> QED BY <2>1, <2>2 DEF TypeOK, PubUpdate, updateVars, rpcVars, linkVars, shutVars
<1>2. LockInv'
  BY DEF TypeOK, LockInv, ShutInv, AwaitInv, Known, Negotiating, PubUpdate, KnownUris,
     rpcVars, linkVars, shutVars
<1>3. AwaitInv'
  BY DEF TypeOK, LockInv, AwaitInv, ShutInv, PubUpdate, KnownUris, rpcVars, linkVars,
     shutVars
<1>4. FreshInv'
  BY DEF TypeOK, LockInv, AwaitInv, FreshInv, RetryInv, ShutInv, Referenced, Open,
     PubUpdate, KnownUris, rpcVars, linkVars, shutVars
<1>5. RetryInv'
  BY DEF TypeOK, FreshInv, RetryInv, RetryIsScheduled, Referenced, Open, PubUpdate,
     KnownUris, rpcVars, linkVars, shutVars
<1>6. ShutInv'
  BY DEF TypeOK, LockInv, ShutInv, PubUpdate, KnownUris, rpcVars, linkVars, shutVars
<1>7. OneLinkPerPublisher'
  BY DEF TypeOK, LockInv, AwaitInv, ShutInv, OneLinkPerPublisher, Known, Negotiating,
     PubUpdate, KnownUris, rpcVars, linkVars, shutVars
<1>8. PendingIsAwaited'
  BY DEF TypeOK, LockInv, AwaitInv, PendingIsAwaited, ShutInv, PubUpdate, KnownUris,
     rpcVars, linkVars, shutVars
<1>9. RetryIsScheduled'
  BY DEF TypeOK, FreshInv, RetryInv, RetryIsScheduled, Referenced, Open, PubUpdate,
     KnownUris, rpcVars, linkVars, shutVars
<1> QED BY <1>1, <1>2, <1>3, <1>4, <1>5, <1>6, <1>7, <1>8, <1>9

\* Dropping a link that is no longer listed.
LEMMA UpdateDropStep ==
  ASSUME LinkInv, NEW k \in Attempts, UpdateDrop(k)
  PROVE  LinkInv'
<1> USE DEF LinkInv
<1>1. TypeOK'
  BY DEF TypeOK, UpdateDrop, ToDrop, CloseConnection, updateVars, rpcVars, shutVars
<1>2. LockInv'
  BY DEF TypeOK, LockInv, ShutInv, AwaitInv, Known, Negotiating, UpdateDrop, ToDrop,
     CloseConnection, updateVars, rpcVars, shutVars
<1>3. AwaitInv'
  BY DEF TypeOK, LockInv, AwaitInv, ShutInv, UpdateDrop, ToDrop, CloseConnection,
     updateVars, rpcVars, shutVars
<1>4. FreshInv'
  BY DEF TypeOK, LockInv, AwaitInv, FreshInv, RetryInv, ShutInv, Referenced, Open,
     UpdateDrop, ToDrop, CloseConnection, updateVars, rpcVars, shutVars
<1>5. RetryInv'
  BY DEF TypeOK, FreshInv, RetryInv, RetryIsScheduled, Referenced, Open, UpdateDrop,
     ToDrop, CloseConnection, updateVars, rpcVars, shutVars
<1>6. ShutInv'
  BY DEF TypeOK, LockInv, ShutInv, UpdateDrop, ToDrop, CloseConnection, updateVars,
     rpcVars, shutVars
<1>7. OneLinkPerPublisher'
  BY DEF TypeOK, LockInv, AwaitInv, ShutInv, OneLinkPerPublisher, Known, Negotiating,
     UpdateDrop, ToDrop, CloseConnection, updateVars, rpcVars, shutVars
<1>8. PendingIsAwaited'
  BY DEF TypeOK, LockInv, AwaitInv, PendingIsAwaited, ShutInv, UpdateDrop, ToDrop,
     CloseConnection, updateVars, rpcVars, shutVars
<1>9. RetryIsScheduled'
  BY DEF TypeOK, FreshInv, RetryInv, RetryIsScheduled, Referenced, Open, UpdateDrop,
     ToDrop, CloseConnection, updateVars, rpcVars, shutVars
<1> QED BY <1>1, <1>2, <1>3, <1>4, <1>5, <1>6, <1>7, <1>8, <1>9

\* Asking a publisher makes a fresh attempt.
LEMMA UpdateNegotiateStep ==
  ASSUME LinkInv, NEW u \in Uri, NEW contacted \in BOOLEAN, UpdateNegotiate(u, contacted)
  PROVE  LinkInv'
<1> USE DEF LinkInv
<1>1. TypeOK'
  <2>1. CASE contacted
    <3>1. attempts' \in 0..MaxAttempts /\ attempts' = attempts + 1 /\ attempts \in Nat
      BY <2>1 DEF TypeOK, UpdateNegotiate
    <3>2. \A k \in 1..attempts' : k \in 1..attempts \/ k = attempts + 1
      BY <3>1
    <3>3. uri' \in [Attempts -> Uri \cup {None}] /\ \A k \in 1..attempts' : uri'[k] \in Uri
      BY <2>1, <3>1, <3>2 DEF TypeOK, UpdateNegotiate
    <3>5. /\ 1..attempts \subseteq 1..attempts' /\ 0..attempts \subseteq 0..attempts'
          /\ attempts + 1 \in 1..attempts' /\ attempts + 1 \in 0..attempts'
      BY <3>1
    <3>4. added' \subseteq 1..attempts' /\ asked' \in 0..attempts'
      <4>1. added' = added \cup {attempts + 1} /\ asked' = attempts + 1
        BY <2>1 DEF UpdateNegotiate
      <4> QED BY <3>5, <4>1 DEF TypeOK
    <3> QED BY <2>1, <3>1, <3>3, <3>4, <3>5 DEF TypeOK, UpdateNegotiate, updateVars, rpcVars, linkVars, shutVars
  <2>2. CASE ~contacted
    BY <2>2 DEF TypeOK, UpdateNegotiate, updateVars, rpcVars, linkVars, shutVars
  <2> QED BY <2>1, <2>2
<1>2. LockInv'
  BY DEF TypeOK, LockInv, ShutInv, AwaitInv, Known, Negotiating, UpdateNegotiate, ToDrop,
     linkVars, shutVars
<1>3. AwaitInv'
  <2>1. attempts \in Nat /\ asked = 0 /\ added \subseteq 1..attempts /\ connections \subseteq 1..attempts
    BY DEF TypeOK, UpdateNegotiate
  <2>2. connections' = connections /\ pending' = pending
    BY DEF UpdateNegotiate
  <2>3. added \cup connections \subseteq pending
    BY <2>1 DEF AwaitInv
  <2>4. CASE contacted
    <3>1. added' = added \cup {attempts + 1} /\ asked' = attempts + 1
      BY <2>4 DEF UpdateNegotiate
    <3>2. attempts + 1 \notin connections
      BY <2>1
    <3> QED BY <2>2, <2>3, <3>1, <3>2 DEF AwaitInv
  <2>5. CASE ~contacted
    BY <2>5 DEF AwaitInv, UpdateNegotiate
  <2> QED BY <2>4, <2>5
<1>4. FreshInv'
  BY DEF TypeOK, LockInv, AwaitInv, FreshInv, RetryInv, ShutInv, Referenced, Open,
     UpdateNegotiate, ToDrop, linkVars, shutVars
<1>5. RetryInv'
  BY DEF TypeOK, FreshInv, RetryInv, RetryIsScheduled, Referenced, Open, UpdateNegotiate,
     ToDrop, linkVars, shutVars
<1>6. ShutInv'
  BY DEF TypeOK, LockInv, ShutInv, UpdateNegotiate, ToDrop, linkVars, shutVars
<1>7. OneLinkPerPublisher'
  BY DEF TypeOK, LockInv, AwaitInv, ShutInv, OneLinkPerPublisher, Known, Negotiating,
     UpdateNegotiate, ToDrop, linkVars, shutVars
<1>8. PendingIsAwaited'
  BY DEF TypeOK, LockInv, AwaitInv, PendingIsAwaited, ShutInv, UpdateNegotiate, ToDrop,
     linkVars, shutVars
<1>9. RetryIsScheduled'
  BY DEF TypeOK, FreshInv, RetryInv, RetryIsScheduled, Referenced, Open, UpdateNegotiate,
     ToDrop, linkVars, shutVars
<1> QED BY <1>1, <1>2, <1>3, <1>4, <1>5, <1>6, <1>7, <1>8, <1>9

\* The attempt joins pending_connections_.
LEMMA UpdatePendStep ==
  ASSUME LinkInv, UpdatePend
  PROVE  LinkInv'
<1> USE DEF LinkInv
<1>1. TypeOK'
  BY DEF TypeOK, UpdatePend, rpcVars, linkVars, shutVars
<1>2. LockInv'
  BY DEF TypeOK, LockInv, ShutInv, AwaitInv, Known, Negotiating, UpdatePend, rpcVars,
     linkVars, shutVars
<1>3. AwaitInv'
  BY DEF TypeOK, LockInv, AwaitInv, ShutInv, UpdatePend, rpcVars, linkVars, shutVars
<1>4. FreshInv'
  BY DEF TypeOK, LockInv, AwaitInv, FreshInv, RetryInv, ShutInv, Referenced, Open,
     UpdatePend, rpcVars, linkVars, shutVars
<1>5. RetryInv'
  BY DEF TypeOK, FreshInv, RetryInv, RetryIsScheduled, Referenced, Open, UpdatePend,
     rpcVars, linkVars, shutVars
<1>6. ShutInv'
  BY DEF TypeOK, LockInv, ShutInv, UpdatePend, rpcVars, linkVars, shutVars
<1>7. OneLinkPerPublisher'
  BY DEF TypeOK, LockInv, AwaitInv, ShutInv, OneLinkPerPublisher, Known, Negotiating,
     UpdatePend, rpcVars, linkVars, shutVars
<1>8. PendingIsAwaited'
  BY DEF TypeOK, LockInv, AwaitInv, PendingIsAwaited, ShutInv, UpdatePend, rpcVars,
     linkVars, shutVars
<1>9. RetryIsScheduled'
  BY DEF TypeOK, FreshInv, RetryInv, RetryIsScheduled, Referenced, Open, UpdatePend,
     rpcVars, linkVars, shutVars
<1> QED BY <1>1, <1>2, <1>3, <1>4, <1>5, <1>6, <1>7, <1>8, <1>9

\* pubUpdate returns.
LEMMA UpdateReturnStep ==
  ASSUME LinkInv, UpdateReturn
  PROVE  LinkInv'
<1> USE DEF LinkInv
<1>1. TypeOK'
  BY DEF TypeOK, UpdateReturn, ToDrop, rpcVars, linkVars, shutVars
<1>2. LockInv'
  BY DEF TypeOK, LockInv, ShutInv, AwaitInv, Known, Negotiating, UpdateReturn, ToDrop,
     rpcVars, linkVars, shutVars
<1>3. AwaitInv'
  BY DEF TypeOK, LockInv, AwaitInv, ShutInv, UpdateReturn, ToDrop, rpcVars, linkVars,
     shutVars
<1>4. FreshInv'
  BY DEF TypeOK, LockInv, AwaitInv, FreshInv, RetryInv, ShutInv, Referenced, Open,
     UpdateReturn, ToDrop, rpcVars, linkVars, shutVars
<1>5. RetryInv'
  BY DEF TypeOK, FreshInv, RetryInv, RetryIsScheduled, Referenced, Open, UpdateReturn,
     ToDrop, rpcVars, linkVars, shutVars
<1>6. ShutInv'
  BY DEF TypeOK, LockInv, ShutInv, UpdateReturn, ToDrop, rpcVars, linkVars, shutVars
<1>7. OneLinkPerPublisher'
  BY DEF TypeOK, LockInv, AwaitInv, ShutInv, OneLinkPerPublisher, Known, Negotiating,
     UpdateReturn, ToDrop, rpcVars, linkVars, shutVars
<1>8. PendingIsAwaited'
  BY DEF TypeOK, LockInv, AwaitInv, PendingIsAwaited, ShutInv, UpdateReturn, ToDrop,
     rpcVars, linkVars, shutVars
<1>9. RetryIsScheduled'
  BY DEF TypeOK, FreshInv, RetryInv, RetryIsScheduled, Referenced, Open, UpdateReturn,
     ToDrop, rpcVars, linkVars, shutVars
<1> QED BY <1>1, <1>2, <1>3, <1>4, <1>5, <1>6, <1>7, <1>8, <1>9

\* The server thread takes the added attempts over.
LEMMA ServerAddStep ==
  ASSUME LinkInv, ServerAdd
  PROVE  LinkInv'
<1> USE DEF LinkInv
<1>1. TypeOK'
  BY DEF TypeOK, ServerAdd, updateVars, linkVars, shutVars
<1>2. LockInv'
  BY DEF TypeOK, LockInv, ShutInv, AwaitInv, Known, Negotiating, ServerAdd, updateVars,
     linkVars, shutVars
<1>3. AwaitInv'
  BY DEF TypeOK, LockInv, AwaitInv, ShutInv, ServerAdd, updateVars, linkVars, shutVars
<1>4. FreshInv'
  BY DEF TypeOK, LockInv, AwaitInv, FreshInv, RetryInv, ShutInv, Referenced, Open,
     ServerAdd, updateVars, linkVars, shutVars
<1>5. RetryInv'
  BY DEF TypeOK, FreshInv, RetryInv, RetryIsScheduled, Referenced, Open, ServerAdd,
     updateVars, linkVars, shutVars
<1>6. ShutInv'
  BY DEF TypeOK, LockInv, ShutInv, ServerAdd, updateVars, linkVars, shutVars
<1>7. OneLinkPerPublisher'
  BY DEF TypeOK, LockInv, AwaitInv, ShutInv, OneLinkPerPublisher, Known, Negotiating,
     ServerAdd, updateVars, linkVars, shutVars
<1>8. PendingIsAwaited'
  BY DEF TypeOK, LockInv, AwaitInv, PendingIsAwaited, ShutInv, ServerAdd, updateVars,
     linkVars, shutVars
<1>9. RetryIsScheduled'
  BY DEF TypeOK, FreshInv, RetryInv, RetryIsScheduled, Referenced, Open, ServerAdd,
     updateVars, linkVars, shutVars
<1> QED BY <1>1, <1>2, <1>3, <1>4, <1>5, <1>6, <1>7, <1>8, <1>9

\* An attempt leaves the pending ones and is a link, or nothing.
LEMMA PendingConnectionDoneStep ==
  ASSUME LinkInv, NEW k \in Attempts, NEW state, PendingConnectionDone(k, state)
  PROVE  LinkInv'
<1> USE DEF LinkInv
<1>1. TypeOK'
  <2>1. k \in 1..attempts /\ uri[k] \in Uri
    BY DEF TypeOK, PendingConnectionDone
  <2>2. conn' \in [Attempts -> {"none", "opening", "up", "closed", "unheard"}]
    BY DEF TypeOK, PendingConnectionDone, Negotiated, FirstStates, ConnectOutcomes
  <2>3. /\ pending' \subseteq 1..attempts /\ connections' \subseteq 1..attempts
        /\ making' \in 0..attempts /\ mutex' \in {"update", "server", None} /\ gaveUp' \subseteq Uri
    <3>1. CASE shuttingDown \/ dropped
      BY <3>1 DEF TypeOK, PendingConnectionDone
    <3>2. CASE ~(shuttingDown \/ dropped)
      <4>1. Negotiated(k, state) /\ connections' = connections \ {k}
        BY <3>2 DEF PendingConnectionDone
      <4>2. /\ pending' = pending \ {k} /\ making' \in {making, k} /\ mutex' \in {mutex, "server"}
            /\ gaveUp' \in {gaveUp, gaveUp \cup {uri[k]}}
        BY <4>1 DEF Negotiated
      <4>3. k \in 0..attempts
        BY <2>1
      <4> QED BY <2>1, <4>1, <4>2, <4>3 DEF TypeOK
    <3> QED BY <3>1, <3>2
  <2> QED BY <2>2, <2>3 DEF TypeOK, PendingConnectionDone, updateVars, shutVars
<1>2. LockInv'
  BY DEF TypeOK, LockInv, ShutInv, AwaitInv, Known, Negotiating, PendingConnectionDone,
     Negotiated, FirstStates, updateVars, shutVars
<1>3. AwaitInv'
  BY DEF TypeOK, LockInv, AwaitInv, ShutInv, PendingConnectionDone, Negotiated,
     FirstStates, updateVars, shutVars
<1>4. FreshInv'
  BY DEF TypeOK, LockInv, AwaitInv, FreshInv, RetryInv, ShutInv, Referenced, Open,
     PendingConnectionDone, Negotiated, FirstStates, updateVars, shutVars
<1>5. RetryInv'
  BY DEF TypeOK, FreshInv, RetryInv, RetryIsScheduled, Referenced, Open,
     PendingConnectionDone, Negotiated, FirstStates, updateVars, shutVars
<1>6. ShutInv'
  BY DEF TypeOK, LockInv, ShutInv, PendingConnectionDone, Negotiated, FirstStates,
     updateVars, shutVars
<1>7. OneLinkPerPublisher'
  BY DEF TypeOK, LockInv, AwaitInv, ShutInv, OneLinkPerPublisher, Known, Negotiating,
     PendingConnectionDone, Negotiated, FirstStates, updateVars, shutVars
<1>8. PendingIsAwaited'
  BY DEF TypeOK, LockInv, AwaitInv, PendingIsAwaited, ShutInv, PendingConnectionDone,
     Negotiated, FirstStates, updateVars, shutVars
<1>9. RetryIsScheduled'
  BY DEF TypeOK, FreshInv, RetryInv, RetryIsScheduled, Referenced, Open,
     PendingConnectionDone, Negotiated, FirstStates, updateVars, shutVars
<1> QED BY <1>1, <1>2, <1>3, <1>4, <1>5, <1>6, <1>7, <1>8, <1>9

\* The link joins the list.
LEMMA AddPublisherLinkStep ==
  ASSUME LinkInv, AddPublisherLink
  PROVE  LinkInv'
<1> USE DEF LinkInv
<1>1. TypeOK'
  BY DEF TypeOK, AddPublisherLink, updateVars, rpcVars, linkVars, shutVars
<1>2. LockInv'
  BY DEF TypeOK, LockInv, ShutInv, AwaitInv, Known, Negotiating, AddPublisherLink,
     updateVars, rpcVars, linkVars, shutVars
<1>3. AwaitInv'
  BY DEF TypeOK, LockInv, AwaitInv, ShutInv, AddPublisherLink, updateVars, rpcVars,
     linkVars, shutVars
<1>4. FreshInv'
  BY DEF TypeOK, LockInv, AwaitInv, FreshInv, RetryInv, ShutInv, Referenced, Open,
     AddPublisherLink, updateVars, rpcVars, linkVars, shutVars
<1>5. RetryInv'
  BY DEF TypeOK, FreshInv, RetryInv, RetryIsScheduled, Referenced, Open, AddPublisherLink,
     updateVars, rpcVars, linkVars, shutVars
<1>6. ShutInv'
  BY DEF TypeOK, LockInv, ShutInv, AddPublisherLink, updateVars, rpcVars, linkVars, shutVars
<1>7. OneLinkPerPublisher'
  BY DEF TypeOK, LockInv, AwaitInv, ShutInv, OneLinkPerPublisher, Known, Negotiating,
     AddPublisherLink, updateVars, rpcVars, linkVars, shutVars
<1>8. PendingIsAwaited'
  BY DEF TypeOK, LockInv, AwaitInv, PendingIsAwaited, ShutInv, AddPublisherLink,
     updateVars, rpcVars, linkVars, shutVars
<1>9. RetryIsScheduled'
  BY DEF TypeOK, FreshInv, RetryInv, RetryIsScheduled, Referenced, Open, AddPublisherLink,
     updateVars, rpcVars, linkVars, shutVars
<1> QED BY <1>1, <1>2, <1>3, <1>4, <1>5, <1>6, <1>7, <1>8, <1>9

\* A header ends the retries of a link.
LEMMA HeaderReceivedStep ==
  ASSUME LinkInv, NEW k \in Attempts, HeaderReceived(k)
  PROVE  LinkInv'
<1> USE DEF LinkInv
<1>1. TypeOK'
  BY DEF TypeOK, HeaderReceived, PollReady, updateVars, rpcVars, shutVars
<1>2. LockInv'
  BY DEF TypeOK, LockInv, ShutInv, AwaitInv, Known, Negotiating, HeaderReceived,
     PollReady, updateVars, rpcVars, shutVars
<1>3. AwaitInv'
  BY DEF TypeOK, LockInv, AwaitInv, ShutInv, HeaderReceived, PollReady, updateVars,
     rpcVars, shutVars
<1>4. FreshInv'
  BY DEF TypeOK, LockInv, AwaitInv, FreshInv, RetryInv, ShutInv, Referenced, Open,
     HeaderReceived, PollReady, updateVars, rpcVars, shutVars
<1>5. RetryInv'
  BY DEF TypeOK, FreshInv, RetryInv, RetryIsScheduled, Referenced, Open, HeaderReceived,
     PollReady, updateVars, rpcVars, shutVars
<1>6. ShutInv'
  BY DEF TypeOK, LockInv, ShutInv, HeaderReceived, PollReady, updateVars, rpcVars, shutVars
<1>7. OneLinkPerPublisher'
  BY DEF TypeOK, LockInv, AwaitInv, ShutInv, OneLinkPerPublisher, Known, Negotiating,
     HeaderReceived, PollReady, updateVars, rpcVars, shutVars
<1>8. PendingIsAwaited'
  BY DEF TypeOK, LockInv, AwaitInv, PendingIsAwaited, ShutInv, HeaderReceived, PollReady,
     updateVars, rpcVars, shutVars
<1>9. RetryIsScheduled'
  BY DEF TypeOK, FreshInv, RetryInv, RetryIsScheduled, Referenced, Open, HeaderReceived,
     PollReady, updateVars, rpcVars, shutVars
<1> QED BY <1>1, <1>2, <1>3, <1>4, <1>5, <1>6, <1>7, <1>8, <1>9

\* The poll thread drops a link.
LEMMA PollDropStep ==
  ASSUME LinkInv, NEW k \in Attempts, PollDrop(k)
  PROVE  LinkInv'
<1> USE DEF LinkInv
<1>1. TypeOK'
  BY DEF TypeOK, PollDrop, PollReady, GivenUp, CloseConnection, updateVars, rpcVars,
     shutVars
<1>2. LockInv'
  BY DEF TypeOK, LockInv, ShutInv, AwaitInv, Known, Negotiating, PollDrop, PollReady,
     GivenUp, CloseConnection, updateVars, rpcVars, shutVars
<1>3. AwaitInv'
  BY DEF TypeOK, LockInv, AwaitInv, ShutInv, PollDrop, PollReady, GivenUp,
     CloseConnection, updateVars, rpcVars, shutVars
<1>4. FreshInv'
  BY DEF TypeOK, LockInv, AwaitInv, FreshInv, RetryInv, ShutInv, Referenced, Open,
     PollDrop, PollReady, GivenUp, CloseConnection, updateVars, rpcVars, shutVars
<1>5. RetryInv'
  BY DEF TypeOK, FreshInv, RetryInv, RetryIsScheduled, Referenced, Open, PollDrop,
     PollReady, GivenUp, CloseConnection, updateVars, rpcVars, shutVars
<1>6. ShutInv'
  BY DEF TypeOK, LockInv, ShutInv, PollDrop, PollReady, GivenUp, CloseConnection,
     updateVars, rpcVars, shutVars
<1>7. OneLinkPerPublisher'
  BY DEF TypeOK, LockInv, AwaitInv, ShutInv, OneLinkPerPublisher, Known, Negotiating,
     PollDrop, PollReady, GivenUp, CloseConnection, updateVars, rpcVars, shutVars
<1>8. PendingIsAwaited'
  BY DEF TypeOK, LockInv, AwaitInv, PendingIsAwaited, ShutInv, PollDrop, PollReady,
     GivenUp, CloseConnection, updateVars, rpcVars, shutVars
<1>9. RetryIsScheduled'
  BY DEF TypeOK, FreshInv, RetryInv, RetryIsScheduled, Referenced, Open, PollDrop,
     PollReady, GivenUp, CloseConnection, updateVars, rpcVars, shutVars
<1> QED BY <1>1, <1>2, <1>3, <1>4, <1>5, <1>6, <1>7, <1>8, <1>9

\* The dropped link leaves the list.
LEMMA PollRemoveStep ==
  ASSUME LinkInv, PollRemove
  PROVE  LinkInv'
<1> USE DEF LinkInv
<1>1. TypeOK'
  BY DEF TypeOK, PollRemove, updateVars, rpcVars, linkVars, shutVars
<1>2. LockInv'
  BY DEF TypeOK, LockInv, ShutInv, AwaitInv, Known, Negotiating, PollRemove, updateVars,
     rpcVars, linkVars, shutVars
<1>3. AwaitInv'
  BY DEF TypeOK, LockInv, AwaitInv, ShutInv, PollRemove, updateVars, rpcVars, linkVars,
     shutVars
<1>4. FreshInv'
  BY DEF TypeOK, LockInv, AwaitInv, FreshInv, RetryInv, ShutInv, Referenced, Open,
     PollRemove, updateVars, rpcVars, linkVars, shutVars
<1>5. RetryInv'
  BY DEF TypeOK, FreshInv, RetryInv, RetryIsScheduled, Referenced, Open, PollRemove,
     updateVars, rpcVars, linkVars, shutVars
<1>6. ShutInv'
  BY DEF TypeOK, LockInv, ShutInv, PollRemove, updateVars, rpcVars, linkVars, shutVars
<1>7. OneLinkPerPublisher'
  BY DEF TypeOK, LockInv, AwaitInv, ShutInv, OneLinkPerPublisher, Known, Negotiating,
     PollRemove, updateVars, rpcVars, linkVars, shutVars
<1>8. PendingIsAwaited'
  BY DEF TypeOK, LockInv, AwaitInv, PendingIsAwaited, ShutInv, PollRemove, updateVars,
     rpcVars, linkVars, shutVars
<1>9. RetryIsScheduled'
  BY DEF TypeOK, FreshInv, RetryInv, RetryIsScheduled, Referenced, Open, PollRemove,
     updateVars, rpcVars, linkVars, shutVars
<1> QED BY <1>1, <1>2, <1>3, <1>4, <1>5, <1>6, <1>7, <1>8, <1>9

\* A lost connection schedules a retry.
LEMMA ConnectionLostStep ==
  ASSUME LinkInv, NEW k \in Attempts, ConnectionLost(k)
  PROVE  LinkInv'
<1> USE DEF LinkInv
<1>1. TypeOK'
  <2>1. losses' \in 0..MaxLosses
    BY DEF TypeOK, ConnectionLost
  <2>2. conn' \in [Attempts -> {"none", "opening", "up", "closed", "unheard"}]
    BY DEF TypeOK, ConnectionLost, CloseConnection
  <2>3. needsRetry' \subseteq 1..attempts /\ timer' \subseteq 1..attempts /\ handle' \subseteq 1..attempts
    BY DEF TypeOK, ConnectionLost, PollReady
  <2> QED BY <2>1, <2>2, <2>3 DEF TypeOK, ConnectionLost, updateVars, rpcVars, shutVars
<1>2. LockInv'
  BY DEF TypeOK, LockInv, ShutInv, AwaitInv, Known, Negotiating, ConnectionLost,
     PollReady, CloseConnection, updateVars, rpcVars, shutVars
<1>3. AwaitInv'
  BY DEF TypeOK, LockInv, AwaitInv, ShutInv, ConnectionLost, PollReady, CloseConnection,
     updateVars, rpcVars, shutVars
<1>4. FreshInv'
  BY DEF TypeOK, LockInv, AwaitInv, FreshInv, RetryInv, ShutInv, Referenced, Open,
     ConnectionLost, PollReady, CloseConnection, updateVars, rpcVars, shutVars
<1>5. RetryInv'
  <2>1. retrying # 0 => retrying # k
    BY DEF RetryInv, ConnectionLost, PollReady, Open
  <2>2. handle' = timer'
    BY DEF RetryInv, ConnectionLost
  <2>3. needsRetry' \subseteq needsRetry \cup {k} /\ retrying' = retrying
    BY DEF ConnectionLost
  <2>4. retrying # 0 => conn'[retrying] = conn[retrying]
    BY <2>1 DEF ConnectionLost, CloseConnection, TypeOK
  <2> QED BY <2>1, <2>2, <2>3, <2>4 DEF RetryInv, Open
<1>6. ShutInv'
  BY DEF TypeOK, LockInv, ShutInv, ConnectionLost, PollReady, CloseConnection, updateVars,
     rpcVars, shutVars
<1>7. OneLinkPerPublisher'
  BY DEF TypeOK, LockInv, AwaitInv, ShutInv, OneLinkPerPublisher, Known, Negotiating,
     ConnectionLost, PollReady, CloseConnection, updateVars, rpcVars, shutVars
<1>8. PendingIsAwaited'
  BY DEF TypeOK, LockInv, AwaitInv, PendingIsAwaited, ShutInv, ConnectionLost, PollReady,
     CloseConnection, updateVars, rpcVars, shutVars
<1>9. RetryIsScheduled'
  BY DEF TypeOK, FreshInv, RetryInv, RetryIsScheduled, Referenced, Open, ConnectionLost,
     PollReady, CloseConnection, updateVars, rpcVars, shutVars
<1> QED BY <1>1, <1>2, <1>3, <1>4, <1>5, <1>6, <1>7, <1>8, <1>9

\* The timer fires.
LEMMA RetryTimerStep ==
  ASSUME LinkInv, NEW k \in Attempts, RetryTimer(k)
  PROVE  LinkInv'
<1> USE DEF LinkInv
<1>1. TypeOK'
  BY DEF TypeOK, RetryTimer, updateVars, rpcVars, shutVars
<1>2. LockInv'
  BY DEF TypeOK, LockInv, ShutInv, AwaitInv, Known, Negotiating, RetryTimer, updateVars,
     rpcVars, shutVars
<1>3. AwaitInv'
  BY DEF TypeOK, LockInv, AwaitInv, ShutInv, RetryTimer, updateVars, rpcVars, shutVars
<1>4. FreshInv'
  BY DEF TypeOK, LockInv, AwaitInv, FreshInv, RetryInv, ShutInv, Referenced, Open,
     RetryTimer, updateVars, rpcVars, shutVars
<1>5. RetryInv'
  BY DEF TypeOK, FreshInv, RetryInv, RetryIsScheduled, Referenced, Open, RetryTimer,
     updateVars, rpcVars, shutVars
<1>6. ShutInv'
  BY DEF TypeOK, LockInv, ShutInv, RetryTimer, updateVars, rpcVars, shutVars
<1>7. OneLinkPerPublisher'
  BY DEF TypeOK, LockInv, AwaitInv, ShutInv, OneLinkPerPublisher, Known, Negotiating,
     RetryTimer, updateVars, rpcVars, shutVars
<1>8. PendingIsAwaited'
  BY DEF TypeOK, LockInv, AwaitInv, PendingIsAwaited, ShutInv, RetryTimer, updateVars,
     rpcVars, shutVars
<1>9. RetryIsScheduled'
  BY DEF TypeOK, FreshInv, RetryInv, RetryIsScheduled, Referenced, Open, RetryTimer,
     updateVars, rpcVars, shutVars
<1> QED BY <1>1, <1>2, <1>3, <1>4, <1>5, <1>6, <1>7, <1>8, <1>9

\* The retry connects or fails.
LEMMA RetryConnectStep ==
  ASSUME LinkInv, NEW outcome, RetryConnect(outcome)
  PROVE  LinkInv'
<1> USE DEF LinkInv
<1>1. TypeOK'
  BY DEF TypeOK, RetryConnect, GivenUp, updateVars, rpcVars, shutVars, ConnectOutcomes
<1>2. LockInv'
  BY DEF TypeOK, LockInv, ShutInv, AwaitInv, Known, Negotiating, RetryConnect, GivenUp,
     updateVars, rpcVars, shutVars
<1>3. AwaitInv'
  BY DEF TypeOK, LockInv, AwaitInv, ShutInv, RetryConnect, GivenUp, updateVars, rpcVars,
     shutVars
<1>4. FreshInv'
  BY DEF TypeOK, LockInv, AwaitInv, FreshInv, RetryInv, ShutInv, Referenced, Open,
     RetryConnect, GivenUp, updateVars, rpcVars, shutVars
<1>5. RetryInv'
  BY DEF TypeOK, FreshInv, RetryInv, RetryIsScheduled, Referenced, Open, RetryConnect,
     GivenUp, updateVars, rpcVars, shutVars
<1>6. ShutInv'
  BY DEF TypeOK, LockInv, ShutInv, RetryConnect, GivenUp, updateVars, rpcVars, shutVars
<1>7. OneLinkPerPublisher'
  BY DEF TypeOK, LockInv, AwaitInv, ShutInv, OneLinkPerPublisher, Known, Negotiating,
     RetryConnect, GivenUp, updateVars, rpcVars, shutVars
<1>8. PendingIsAwaited'
  BY DEF TypeOK, LockInv, AwaitInv, PendingIsAwaited, ShutInv, RetryConnect, GivenUp,
     updateVars, rpcVars, shutVars
<1>9. RetryIsScheduled'
  BY DEF TypeOK, FreshInv, RetryInv, RetryIsScheduled, Referenced, Open, RetryConnect,
     GivenUp, updateVars, rpcVars, shutVars
<1> QED BY <1>1, <1>2, <1>3, <1>4, <1>5, <1>6, <1>7, <1>8, <1>9

\* A UDPROS link is removed instead.
LEMMA RetryUdpStep ==
  ASSUME LinkInv, RetryUdp
  PROVE  LinkInv'
<1> USE DEF LinkInv
<1>1. TypeOK'
  BY DEF TypeOK, RetryUdp, GivenUp, updateVars, rpcVars, linkVars, shutVars
<1>2. LockInv'
  BY DEF TypeOK, LockInv, ShutInv, AwaitInv, Known, Negotiating, RetryUdp, GivenUp,
     updateVars, rpcVars, linkVars, shutVars
<1>3. AwaitInv'
  BY DEF TypeOK, LockInv, AwaitInv, ShutInv, RetryUdp, GivenUp, updateVars, rpcVars,
     linkVars, shutVars
<1>4. FreshInv'
  BY DEF TypeOK, LockInv, AwaitInv, FreshInv, RetryInv, ShutInv, Referenced, Open,
     RetryUdp, GivenUp, updateVars, rpcVars, linkVars, shutVars
<1>5. RetryInv'
  BY DEF TypeOK, FreshInv, RetryInv, RetryIsScheduled, Referenced, Open, RetryUdp,
     GivenUp, updateVars, rpcVars, linkVars, shutVars
<1>6. ShutInv'
  BY DEF TypeOK, LockInv, ShutInv, RetryUdp, GivenUp, updateVars, rpcVars, linkVars,
     shutVars
<1>7. OneLinkPerPublisher'
  BY DEF TypeOK, LockInv, AwaitInv, ShutInv, OneLinkPerPublisher, Known, Negotiating,
     RetryUdp, GivenUp, updateVars, rpcVars, linkVars, shutVars
<1>8. PendingIsAwaited'
  BY DEF TypeOK, LockInv, AwaitInv, PendingIsAwaited, ShutInv, RetryUdp, GivenUp,
     updateVars, rpcVars, linkVars, shutVars
<1>9. RetryIsScheduled'
  BY DEF TypeOK, FreshInv, RetryInv, RetryIsScheduled, Referenced, Open, RetryUdp,
     GivenUp, updateVars, rpcVars, linkVars, shutVars
<1> QED BY <1>1, <1>2, <1>3, <1>4, <1>5, <1>6, <1>7, <1>8, <1>9

\* shutdown sets its flag.
LEMMA ShutdownBeginStep ==
  ASSUME LinkInv, ShutdownBegin
  PROVE  LinkInv'
<1> USE DEF LinkInv
<1>1. TypeOK'
  BY DEF TypeOK, ShutdownBegin, updateVars, rpcVars, linkVars
<1>2. LockInv'
  BY DEF TypeOK, LockInv, ShutInv, AwaitInv, Known, Negotiating, ShutdownBegin,
     updateVars, rpcVars, linkVars
<1>3. AwaitInv'
  BY DEF TypeOK, LockInv, AwaitInv, ShutInv, ShutdownBegin, updateVars, rpcVars, linkVars
<1>4. FreshInv'
  BY DEF TypeOK, LockInv, AwaitInv, FreshInv, RetryInv, ShutInv, Referenced, Open,
     ShutdownBegin, updateVars, rpcVars, linkVars
<1>5. RetryInv'
  BY DEF TypeOK, FreshInv, RetryInv, RetryIsScheduled, Referenced, Open, ShutdownBegin,
     updateVars, rpcVars, linkVars
<1>6. ShutInv'
  BY DEF TypeOK, LockInv, ShutInv, ShutdownBegin, updateVars, rpcVars, linkVars
<1>7. OneLinkPerPublisher'
  BY DEF TypeOK, LockInv, AwaitInv, ShutInv, OneLinkPerPublisher, Known, Negotiating,
     ShutdownBegin, updateVars, rpcVars, linkVars
<1>8. PendingIsAwaited'
  BY DEF TypeOK, LockInv, AwaitInv, PendingIsAwaited, ShutInv, ShutdownBegin, updateVars,
     rpcVars, linkVars
<1>9. RetryIsScheduled'
  BY DEF TypeOK, FreshInv, RetryInv, RetryIsScheduled, Referenced, Open, ShutdownBegin,
     updateVars, rpcVars, linkVars
<1> QED BY <1>1, <1>2, <1>3, <1>4, <1>5, <1>6, <1>7, <1>8, <1>9

\* The list is swapped out.
LEMMA ShutdownSwapStep ==
  ASSUME LinkInv, ShutdownSwap
  PROVE  LinkInv'
<1> USE DEF LinkInv
<1>1. TypeOK'
  BY DEF TypeOK, ShutdownSwap, updateVars, rpcVars, linkVars
<1>2. LockInv'
  BY DEF TypeOK, LockInv, ShutInv, AwaitInv, Known, Negotiating, ShutdownSwap, updateVars,
     rpcVars, linkVars
<1>3. AwaitInv'
  BY DEF TypeOK, LockInv, AwaitInv, ShutInv, ShutdownSwap, updateVars, rpcVars, linkVars
<1>4. FreshInv'
  BY DEF TypeOK, LockInv, AwaitInv, FreshInv, RetryInv, ShutInv, Referenced, Open,
     ShutdownSwap, updateVars, rpcVars, linkVars
<1>5. RetryInv'
  BY DEF TypeOK, FreshInv, RetryInv, RetryIsScheduled, Referenced, Open, ShutdownSwap,
     updateVars, rpcVars, linkVars
<1>6. ShutInv'
  BY DEF TypeOK, LockInv, ShutInv, ShutdownSwap, updateVars, rpcVars, linkVars
<1>7. OneLinkPerPublisher'
  BY DEF TypeOK, LockInv, AwaitInv, ShutInv, OneLinkPerPublisher, Known, Negotiating,
     ShutdownSwap, updateVars, rpcVars, linkVars
<1>8. PendingIsAwaited'
  BY DEF TypeOK, LockInv, AwaitInv, PendingIsAwaited, ShutInv, ShutdownSwap, updateVars,
     rpcVars, linkVars
<1>9. RetryIsScheduled'
  BY DEF TypeOK, FreshInv, RetryInv, RetryIsScheduled, Referenced, Open, ShutdownSwap,
     updateVars, rpcVars, linkVars
<1> QED BY <1>1, <1>2, <1>3, <1>4, <1>5, <1>6, <1>7, <1>8, <1>9

\* The links are dropped.
LEMMA ShutdownLinkStep ==
  ASSUME LinkInv, ShutdownLink
  PROVE  LinkInv'
<1> USE DEF LinkInv
<1>1. TypeOK'
  <2>1. CASE closing \subseteq dropping
    BY <2>1 DEF TypeOK, ShutdownLink, updateVars, rpcVars
  <2>2. CASE ~(closing \subseteq dropping)
    <3>1. PICK k \in closing \ dropping : dropping' = dropping \cup {k} /\ conn' = CloseConnection(k)
      BY <2>2 DEF ShutdownLink
    <3>2. conn' \in [Attempts -> {"none", "opening", "up", "closed", "unheard"}] /\ dropping' \subseteq 1..attempts
      BY <3>1 DEF TypeOK, CloseConnection
    <3> QED BY <2>2, <3>2 DEF TypeOK, ShutdownLink, updateVars, rpcVars
  <2> QED BY <2>1, <2>2
<1>2. LockInv'
  BY DEF TypeOK, LockInv, ShutInv, AwaitInv, Known, Negotiating, ShutdownLink,
     CloseConnection, updateVars, rpcVars
<1>3. AwaitInv'
  BY DEF TypeOK, LockInv, AwaitInv, ShutInv, ShutdownLink, CloseConnection, updateVars,
     rpcVars
<1>4. FreshInv'
  BY DEF TypeOK, LockInv, AwaitInv, FreshInv, RetryInv, ShutInv, Referenced, Open,
     ShutdownLink, CloseConnection, updateVars, rpcVars
<1>5. RetryInv'
  BY DEF TypeOK, FreshInv, RetryInv, RetryIsScheduled, Referenced, Open, ShutdownLink,
     CloseConnection, updateVars, rpcVars
<1>6. ShutInv'
  BY DEF TypeOK, LockInv, ShutInv, ShutdownLink, CloseConnection, updateVars, rpcVars
<1>7. OneLinkPerPublisher'
  BY DEF TypeOK, LockInv, AwaitInv, ShutInv, OneLinkPerPublisher, Known, Negotiating,
     ShutdownLink, CloseConnection, updateVars, rpcVars
<1>8. PendingIsAwaited'
  BY DEF TypeOK, LockInv, AwaitInv, PendingIsAwaited, ShutInv, ShutdownLink,
     CloseConnection, updateVars, rpcVars
<1>9. RetryIsScheduled'
  BY DEF TypeOK, FreshInv, RetryInv, RetryIsScheduled, Referenced, Open, ShutdownLink,
     CloseConnection, updateVars, rpcVars
<1> QED BY <1>1, <1>2, <1>3, <1>4, <1>5, <1>6, <1>7, <1>8, <1>9

\* A stuttering step.
LEMMA StutterStep ==
  ASSUME LinkInv, UNCHANGED vars
  PROVE  LinkInv'
<1> USE DEF LinkInv
<1>1. TypeOK'
  BY DEF TypeOK, vars, updateVars, rpcVars, linkVars, shutVars
<1>2. LockInv'
  BY DEF TypeOK, LockInv, ShutInv, AwaitInv, Known, Negotiating, vars, updateVars,
     rpcVars, linkVars, shutVars
<1>3. AwaitInv'
  BY DEF TypeOK, LockInv, AwaitInv, ShutInv, vars, updateVars, rpcVars, linkVars, shutVars
<1>4. FreshInv'
  BY DEF TypeOK, LockInv, AwaitInv, FreshInv, RetryInv, ShutInv, Referenced, Open, vars,
     updateVars, rpcVars, linkVars, shutVars
<1>5. RetryInv'
  BY DEF TypeOK, FreshInv, RetryInv, RetryIsScheduled, Referenced, Open, vars, updateVars,
     rpcVars, linkVars, shutVars
<1>6. ShutInv'
  BY DEF TypeOK, LockInv, ShutInv, vars, updateVars, rpcVars, linkVars, shutVars
<1>7. OneLinkPerPublisher'
  BY DEF TypeOK, LockInv, AwaitInv, ShutInv, OneLinkPerPublisher, Known, Negotiating,
     vars, updateVars, rpcVars, linkVars, shutVars
<1>8. PendingIsAwaited'
  BY DEF TypeOK, LockInv, AwaitInv, PendingIsAwaited, ShutInv, vars, updateVars, rpcVars,
     linkVars, shutVars
<1>9. RetryIsScheduled'
  BY DEF TypeOK, FreshInv, RetryInv, RetryIsScheduled, Referenced, Open, vars, updateVars,
     rpcVars, linkVars, shutVars
<1> QED BY <1>1, <1>2, <1>3, <1>4, <1>5, <1>6, <1>7, <1>8, <1>9

\* Every step of every thread keeps the invariant.
LEMMA NextLinks == LinkInv /\ [Next]_vars => LinkInv'
<1> SUFFICES ASSUME LinkInv, [Next]_vars PROVE LinkInv'
  OBVIOUS
<1>1. CASE Update
  BY <1>1, PubUpdateStep, UpdateDropStep, UpdateNegotiateStep, UpdatePendStep,
     UpdateReturnStep
  DEF Update
<1>2. CASE Server
  BY <1>2, ServerAddStep, PendingConnectionDoneStep, AddPublisherLinkStep DEF Server
<1>3. CASE Poll
  BY <1>3, HeaderReceivedStep, PollDropStep, ConnectionLostStep, PollRemoveStep DEF Poll
<1>4. CASE Retry
  BY <1>4, RetryTimerStep, RetryConnectStep, RetryUdpStep DEF Retry
<1>5. CASE Shutdown
  BY <1>5, ShutdownBeginStep, ShutdownSwapStep, ShutdownLinkStep DEF Shutdown
<1>6. CASE UNCHANGED vars
  BY <1>6, StutterStep
<1> QED BY <1>1, <1>2, <1>3, <1>4, <1>5, <1>6 DEF Next

\* The inductive invariant holds in every reachable state.
THEOREM LinksCorrect == Spec => []LinkInv
BY InitLinks, NextLinks, PTL DEF Spec

\* Every variable keeps its type, the bounds being any numbers.
THEOREM LinksTypes == Spec => []TypeOK
<1>1. LinkInv => TypeOK
  BY DEF LinkInv
<1> QED BY <1>1, LinksCorrect, PTL

\* However updates, answers, losses and retries interleave, a publisher is asked or
\* connected once at a time.
THEOREM LinksOnePerPublisher == Spec => []OneLinkPerPublisher
<1>1. LinkInv => OneLinkPerPublisher
  BY DEF LinkInv
<1> QED BY <1>1, LinksCorrect, PTL

\* No entry of pending_connections_ is ever forgotten by the server thread.
THEOREM LinksAwaited == Spec => []PendingIsAwaited
<1>1. LinkInv => PendingIsAwaited
  BY DEF LinkInv
<1> QED BY <1>1, LinksCorrect, PTL

\* A link that waits for a retry has a timer and no open connection, so the assertion
\* of onConnectionDropped on needs_retry_ never fails.
THEOREM LinksRetry == Spec => []RetryIsScheduled
<1>1. LinkInv => RetryIsScheduled
  BY DEF LinkInv
<1> QED BY <1>1, LinksCorrect, PTL

\* Nothing is left when shutdown has returned, but a link in a running callback.
THEOREM LinksShutdown == Spec => []NothingAfterShutdown
<1>1. LinkInv => NothingAfterShutdown
  BY DEF LinkInv, NothingAfterShutdown, LockInv, ShutInv, TypeOK, Referenced
<1> QED BY <1>1, LinksCorrect, PTL
=============================================================================
