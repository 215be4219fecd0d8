-------------------------- MODULE MCPublisherLinks --------------------------
(* Instances of PublisherLinks for TLC. *)
EXTENDS PublisherLinks

CONSTANTS me, tcp, udp
=============================================================================
