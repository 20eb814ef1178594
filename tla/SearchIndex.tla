----------------------------- MODULE SearchIndex -----------------------------
(***************************************************************************)
(* search_index of include/algorithms.c, one action per iteration of its   *)
(* loop.  Returns of module Algorithms is what it promises.                *)
(***************************************************************************)
EXTENDS Algorithms

CONSTANTS MaxPartitions,   \* bound on the length of the array
          FreeSpaces,      \* the "free_space" values of a document
          Sizes            \* the sizes a process asks for

ASSUME MaxPartitionsAssumption == MaxPartitions \in Nat
ASSUME FreeSpacesAssumption == FreeSpaces \subseteq Int
ASSUME SizesAssumption == Sizes \subseteq Int

VARIABLES n,           \* json_array_get_count(mem_arr)
          free,        \* the "free_space" of each element of mem_arr
          size,        \* process_size
          algorithm,
          i,           \* the loop counter
          index,       \* the candidate so far, -1 for none
          result       \* what was returned, NotReturned before

vars == <<n, free, size, algorithm, i, index, result>>

NotReturned == -2

Init ==
  /\ n \in 0..MaxPartitions
  /\ free \in [0..n-1 -> FreeSpaces]
  /\ size \in Sizes
  /\ algorithm \in Algorithm
  /\ i = 0
  /\ index = -1
  /\ result = NotReturned

Looping == result = NotReturned /\ i < n

(* Variant: every other element is skipped.                                *)
ContinueByTwo == i' = i + 2

Continue == i' = i + 1

(* Variant: the counter is not advanced past an element that does not fit. *)
PassOverStuck ==
  /\ Looping
  /\ ~Fits(free, i, size)
  /\ UNCHANGED vars

(* free_space_actual < process_size: the element is passed over.           *)
PassOver ==
  /\ Looping
  /\ ~Fits(free, i, size)
  /\ Continue
  /\ UNCHANGED <<n, free, size, algorithm, index, result>>

(* Variant: the last of equal candidates is kept instead of the first.     *)
BestFitLastOfEqual ==
  /\ Looping
  /\ algorithm = BEST_FIT
  /\ Fits(free, i, size)
  /\ index' = IF index = -1 \/ free[index] >= free[i] THEN i ELSE index
  /\ Continue
  /\ UNCHANGED <<n, free, size, algorithm, result>>

(* case BEST_FIT: the element replaces no candidate or a larger one.       *)
BestFit ==
  /\ Looping
  /\ algorithm = BEST_FIT
  /\ Fits(free, i, size)
  /\ index' = IF index = -1 \/ free[index] > free[i] THEN i ELSE index
  /\ Continue
  /\ UNCHANGED <<n, free, size, algorithm, result>>

(* case WORST_FIT: the element replaces no candidate or a smaller one.     *)
WorstFit ==
  /\ Looping
  /\ algorithm = WORST_FIT
  /\ Fits(free, i, size)
  /\ index' = IF index = -1 \/ free[index] < free[i] THEN i ELSE index
  /\ Continue
  /\ UNCHANGED <<n, free, size, algorithm, result>>

(* Variant: the break only leaves the switch.                              *)
FirstFitWithoutBreak ==
  /\ Looping
  /\ algorithm = FIRST_FIT
  /\ Fits(free, i, size)
  /\ index' = i
  /\ Continue
  /\ UNCHANGED <<n, free, size, algorithm, result>>

(* case FIRST_FIT: shouldBreak leaves the loop with this element.          *)
FirstFit ==
  /\ Looping
  /\ algorithm = FIRST_FIT
  /\ Fits(free, i, size)
  /\ index' = i
  /\ result' = i
  /\ UNCHANGED <<n, free, size, algorithm, i>>

Return ==
  /\ result = NotReturned
  /\ i = n
  /\ result' = index
  /\ UNCHANGED <<n, free, size, algorithm, i, index>>

Done == result # NotReturned /\ UNCHANGED vars

Next == PassOver \/ BestFit \/ WorstFit \/ FirstFit \/ Return \/ Done

Spec == Init /\ [][Next]_vars /\ WF_vars(Next)
------------------------------------------------------------------------------
(* Types: i counts the elements of the array, index is -1 or the position  *)
(* of one.                                                                 *)
TypeOK ==
  /\ n \in 0..MaxPartitions
  /\ free \in [0..n-1 -> FreeSpaces]
  /\ size \in Sizes
  /\ algorithm \in Algorithm
  /\ i \in 0..n
  /\ index \in -1..n-1
  /\ result \in -2..n-1

(* The partitions the loop has looked at.                                  *)
Seen == {p \in 0..i-1 : Fits(free, p, size)}

(* The loop invariant: the candidate is the answer for the part of the     *)
(* array already seen, so that a prefix, an exact fit (free = size) and a  *)
(* tie between equal partitions are decided as on the whole array.         *)
CandidateIsBest ==
  result = NotReturned =>
    IF Seen = {}
    THEN index = -1
    ELSE /\ algorithm # FIRST_FIT
         /\ index \in Seen
         /\ \A q \in Seen : Preferred(free, algorithm, index, q)

(* What search_index returns is the partition its algorithm names, -1 only *)
(* when no partition of the array has room.                                *)
ResultCorrect ==
  result # NotReturned => Returns(free, size, algorithm, result)

(* The loop ends: search_index returns for every array, the empty one too. *)
Returned == <>(result # NotReturned)
==============================================================================
