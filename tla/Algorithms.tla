------------------------------ MODULE Algorithms ------------------------------
(***************************************************************************)
(* include/algorithms.h and include/algorithms.c: the allocation           *)
(* algorithms and what search_index returns for each of them.              *)
(*                                                                         *)
(* The partitions are numbered from 0 as in the JSON array, free[p] is the *)
(* "free_space" of partition p.  The loop of search_index itself is in     *)
(* module SearchIndex, whose proof shows that it returns what Returns      *)
(* says.                                                                   *)
(***************************************************************************)
EXTENDS Integers

BEST_FIT  == 1
FIRST_FIT == 2
WORST_FIT == 3

(* The values select_algorithm can return: its menu asks again on others.  *)
Algorithm == {BEST_FIT, FIRST_FIT, WORST_FIT}

(* Variant: one unit short still fits.                                     *)
FitsOneShort(free, p, size) == free[p] + 1 >= size

Fits(free, p, size) == free[p] >= size

(* The partitions with room for a process of the given size.               *)
Fitting(free, size) == {p \in DOMAIN free : Fits(free, p, size)}

(* Partition p is preferred to q, or is q: strictly less (best fit) or     *)
(* strictly more (worst fit) room replaces an earlier candidate, so equal  *)
(* candidates are decided by their position.                               *)
Preferred(free, algorithm, p, q) ==
  \/ algorithm = BEST_FIT  /\ free[p] < free[q]
  \/ algorithm = WORST_FIT /\ free[p] > free[q]
  \/ (algorithm = FIRST_FIT \/ free[p] = free[q]) /\ p <= q

(* search_index returns index: -1 when nothing fits, else the fitting      *)
(* partition the algorithm prefers to every other.                         *)
Returns(free, size, algorithm, index) ==
  IF Fitting(free, size) = {}
  THEN index = -1
  ELSE /\ index \in Fitting(free, size)
       /\ \A q \in Fitting(free, size) : Preferred(free, algorithm, index, q)
===============================================================================
