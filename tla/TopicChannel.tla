----------------------------- MODULE TopicChannel -----------------------------
(***************************************************************************)
(* What a subscription promises each of its callbacks, without mutexes,     *)
(* entries or threads: a channel that is opened once and closed once, and   *)
(* while it is open takes the messages of each link in the order of their   *)
(* numbers, hands them over oldest first, and loses a message only when it  *)
(* holds queue_size messages and another one comes, and then the oldest.    *)
(* A closed channel holds nothing and hands over nothing.                   *)
(***************************************************************************)
EXTENDS Integers, Sequences

CONSTANTS
  Subs,   \* the callbacks
  Links,  \* the publisher links
  Msg,    \* records with a link and a seq
  Size    \* queue_size of each callback; 0 or less is unbounded

VARIABLES
  state,    \* of each channel: "new", "open" or "closed"
  pending,  \* what it holds
  got       \* the number of the last message of each link it handed over

channel == <<state, pending, got>>

Init ==
  /\ state = [c \in Subs |-> "new"]
  /\ pending = [c \in Subs |-> <<>>]
  /\ got = [c \in Subs |-> [l \in Links |-> 0]]

Open(c) ==
  /\ state[c] = "new"
  /\ state' = [state EXCEPT ![c] = "open"]
  /\ UNCHANGED <<pending, got>>

Newer(c, m) ==
  /\ got[c][m.link] < m.seq
  /\ \A i \in 1..Len(pending[c]) : pending[c][i].link = m.link => pending[c][i].seq < m.seq

AtLimit(c) == Size[c] > 0 /\ Len(pending[c]) >= Size[c]

Offer(c, m) ==
  /\ state[c] = "open" /\ Newer(c, m)
  /\ pending' = [pending EXCEPT ![c] = Append(IF AtLimit(c) THEN Tail(@) ELSE @, m)]
  /\ UNCHANGED <<state, got>>

Deliver(c) ==
  /\ state[c] = "open" /\ pending[c] # <<>>
  /\ pending' = [pending EXCEPT ![c] = Tail(@)]
  /\ got' = [got EXCEPT ![c][Head(pending[c]).link] = Head(pending[c]).seq]
  /\ UNCHANGED state

Close(c) ==
  /\ state[c] = "open"
  /\ state' = [state EXCEPT ![c] = "closed"]
  /\ pending' = [pending EXCEPT ![c] = <<>>]
  /\ UNCHANGED got

Next == \E c \in Subs :
          \/ Open(c) \/ Deliver(c) \/ Close(c)
          \/ \E m \in Msg : Offer(c, m)

Spec == Init /\ [][Next]_channel
=============================================================================
