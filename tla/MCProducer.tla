------------------------------ MODULE MCProducer ------------------------------
(* A producer with two partitions, of two units and of one: two workers of  *)
(* size 1 or 2 can fill it, so that a third is turned away, waits or fits    *)
(* in a partition its algorithm ranks second.                                *)
EXTENDS Producer, TLC

MCCapacity == (0 :> 2) @@ (1 :> 1)

Symmetry == Permutations(Thread)
===============================================================================
