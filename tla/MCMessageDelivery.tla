-------------------------- MODULE MCMessageDelivery --------------------------
(* Instances of MessageDelivery for TLC. *)
EXTENDS MessageDelivery, TLC

CONSTANTS c1, c2, c3, l1, l2, t1, t2

\* Queue sizes: one message, two messages, unbounded.
SizesOneAndMany == (c1 :> 1) @@ (c2 :> 2)
SizesOfThree == (c1 :> 2) @@ (c2 :> 0) @@ (c3 :> 1)

SameType == (c1 :> "a") @@ (c2 :> "a")
OneOfAnotherType == (c1 :> "a") @@ (c2 :> "a") @@ (c3 :> "b")

OutsideRemover == {<<t2, c1>>}
AnyRemover == Threads \X {c1, c2}
=============================================================================
