------------------------------ MODULE Partitions ------------------------------
(***************************************************************************)
(* The memory document that producer.c keeps in /tmp/mmapped.bin: a JSON   *)
(* array of partitions with their "free_space" and the "processes" that    *)
(* are in them.  What is computed between reading the text and writing it  *)
(* back is here, as functions of the document.                             *)
(*                                                                         *)
(* An entry of "processes" is abstracted to its "size", 0 standing for no  *)
(* entry: its "delay" is only shown to the user.                           *)
(***************************************************************************)
EXTENDS Algorithms, FiniteSets

CONSTANTS Thread,     \* the thread ids, the keys of "processes"
          N,          \* the number of partitions in schema.json
          Capacity,   \* their "size" in schema.json
          MaxSize     \* the largest process, 10 in worker_thread

ASSUME ThreadAssumption == IsFiniteSet(Thread)
ASSUME NAssumption == N \in Nat
ASSUME CapacityAssumption == Capacity \in [0..N-1 -> Nat]
ASSUME MaxSizeAssumption == MaxSize \in Nat \ {0}

Partition == 0..N-1

Size == 1..MaxSize

Document == [Partition -> [free_space : Int, processes : [Thread -> 0..MaxSize]]]

(* schema.json as init_memory copies it: nothing is taken.                 *)
Schema == [p \in Partition |->
             [free_space |-> Capacity[p], processes |-> [t \in Thread |-> 0]]]

(* The numbers search_index compares.                                      *)
FreeSpaces(doc) == [p \in Partition |-> doc[p].free_space]

Assign(doc, p, t, s) ==
  [doc EXCEPT ![p] = [free_space |-> @.free_space - s,
                      processes  |-> [@.processes EXCEPT ![t] = s]]]

(* Variant: the entry is left in "processes".                              *)
ReturnSpaceOnly(doc, p, t, s) ==
  [doc EXCEPT ![p] = [@ EXCEPT !.free_space = @ + s]]

Return(doc, p, t, s) ==
  [doc EXCEPT ![p] = [free_space |-> @.free_space + s,
                      processes  |-> [@.processes EXCEPT ![t] = 0]]]

(* The units of partition p that its entries account for, one pair per     *)
(* unit.                                                                   *)
Occupied(doc, p) ==
  {u \in Thread \X Size : u[2] <= doc[p].processes[u[1]]}

(* The free space and the entries of every partition add up to its size.   *)
Balanced(doc) ==
  \A p \in Partition :
    doc[p].free_space + Cardinality(Occupied(doc, p)) = Capacity[p]
===============================================================================
