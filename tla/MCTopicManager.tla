--------------------------- MODULE MCTopicManager ---------------------------
(* Instances of TopicManager for TLC. *)
EXTENDS TopicManager, TLC

CONSTANTS a, b, p1, p2, q1, q2

\* Each thread owns a publisher and a subscriber; a owns the publishers and b the
\* subscribers.
Mixed == [h \in Handles |-> IF h \in {p1, q1} THEN a ELSE b]
PubsAndSubs == [h \in Handles |-> IF h \in Publishers THEN a ELSE b]

\* q2 takes messages of any type; q1 is for the type of the publishers or for another.
OneAndAny == [h \in Handles |-> IF h = q2 THEN AnyType ELSE 1]
TwoAndAny == [h \in Handles |-> IF h = q2 THEN AnyType ELSE IF h = q1 THEN 2 ELSE 1]
=============================================================================
