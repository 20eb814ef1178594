----------------------------- MODULE ParsonMemory -----------------------------
(***************************************************************************)
(* What JSON_Object and JSON_Array of parson.c have in common: a capacity  *)
(* that doubles, and values on the heap, which are nodes here, without     *)
(* their contents.  Any malloc may fail.  The caller passes live values,   *)
(* and frees only its own.                                                 *)
(***************************************************************************)
EXTENDS Integers

CONSTANTS Value, NoValue,
          StartingCapacity,   \* 15
          MaxCapacity         \* OBJECT_MAX_CAPACITY, 960, or
                              \* ARRAY_MAX_CAPACITY, 122880

ASSUME NoValueAssumption == NoValue \notin Value
ASSUME CapacityAssumption ==
  StartingCapacity \in Nat \ {0} /\ MaxCapacity \in Nat

Slot == 0..MaxCapacity-1

(* A heap h has for each value "free", "loose" (no parent), "owned",       *)
(* "leaked", or "twice" when it was freed again; this is the heap after a  *)
(* call that frees the values in S.                                        *)
Freed(h, S) ==
  [v \in Value |-> IF v \notin S THEN h[v]
                   ELSE IF h[v] = "free" THEN "twice" ELSE "free"]

(* The next capacity.                                                      *)
Grown(c) == IF c * 2 > StartingCapacity THEN c * 2 ELSE StartingCapacity
===============================================================================
