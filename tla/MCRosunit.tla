----------------------------- MODULE MCRosunit ------------------------------
(* Instances of rosunit's monitor and test runner for TLC: two processes   *)
(* of the three kinds for the program that uses the monitor directly, two  *)
(* attempts for the test.                                                  *)
EXTENDS BareTest

CONSTANTS a, b, t1, t2

MCNameOf == (a :> "a" @@ b :> "b" @@ t1 :> "test" @@ t2 :> "test")
MCAttempt == <<t1, t2>>
MCKinds ==
  {k \in [{a, b, t1, t2} -> {"plain", "respawn", "required"}] :
     /\ k[t1] = "plain" /\ k[t2] = "plain"
     /\ <<k[a], k[b]>> \in {<<"plain", "respawn">>, <<"required", "plain">>}}
=============================================================================
