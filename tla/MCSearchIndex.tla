----------------------------- MODULE MCSearchIndex -----------------------------
(* Every array of at most four partitions with 0 to 3 units free, every     *)
(* size of 1 to 4 (one that can never fit included), every algorithm.       *)
EXTENDS SearchIndex

MCFreeSpaces == 0..3
MCSizes == 1..4
================================================================================
