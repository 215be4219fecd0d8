--------------------------- MODULE MCCallbackQueue ---------------------------
(* Instances of CallbackQueue for TLC. *)
EXTENDS CallbackQueue, TLC

CONSTANTS s1, s2, u

\* Two spinning threads and one that adds, removes and switches.
SpinnersAndUser ==
  (s1 :> {"callAvailable"}) @@ (s2 :> {"callOne"})
    @@ (u :> {"addCallback", "removeByID", "enable", "disable", "clear"})

\* Two spinning threads and one that adds and removes.
SpinnersAndRemover ==
  (s1 :> {"callAvailable"}) @@ (s2 :> {"callOne"})
    @@ (u :> {"addCallback", "removeByID"})
=============================================================================
