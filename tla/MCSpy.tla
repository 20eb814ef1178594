--------------------------------- MODULE MCSpy ---------------------------------
(* Two workers, a partition that has room for both and one for one of them: *)
(* an object of two entries, whose first may be removed while the spy reads.*)
EXTENDS Spy, TLC

MCCapacity == (0 :> 2) @@ (1 :> 1)

SpySymmetry == Permutations(Thread)
===============================================================================
