----------------------------- MODULE MCTwoProducers ----------------------------
(* One partition of one unit and a worker of each producer.                 *)
EXTENDS TwoProducers, TLC

MCCapacity == 0 :> 1
===============================================================================
