------------------------------ MODULE MCLifecycle ------------------------------
(* One partition of one unit, two workers, two producers and a killer:      *)
(* enough for a worker to die inside, and for a second producer to start on *)
(* what it leaves, or to be met by the killer that knows the first.         *)
EXTENDS Lifecycle, TLC

MCCapacity == 0 :> 1
===============================================================================
