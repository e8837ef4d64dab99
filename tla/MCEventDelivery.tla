-------------------------- MODULE MCEventDelivery --------------------------
(* Instances of EventDelivery for TLC: the coroutines are interchangeable.  *)
EXTENDS EventDelivery, TLC

TaskSymmetry == Permutations(Tasks)
=============================================================================
