------------------------------ MODULE Allocator ------------------------------
(***************************************************************************)
(* What the worker threads of producer.c promise together, without files,  *)
(* semaphore or log: a process asks once.  In one step it either takes     *)
(* room in the partition its algorithm names, or is turned away because no *)
(* partition has room; in one later step it gives back exactly what it     *)
(* took.  Anything may stop for good at any time.                          *)
(***************************************************************************)
EXTENDS Partitions

VARIABLES memory,        \* the partitions
          phase,         \* of each process: "outside", "inside", "gone"
          process_size,
          mem_index,     \* the partition a process is in
          g_algorithm

vars == <<memory, phase, process_size, mem_index, g_algorithm>>

Init ==
  /\ memory = Schema
  /\ phase = [t \in Thread |-> "outside"]
  /\ process_size \in [Thread -> Size]
  /\ mem_index = [t \in Thread |-> -1]
  /\ g_algorithm \in Algorithm

(* A process is created with the size it asks for.                         *)
Choose(t) ==
  /\ phase[t] = "outside"
  /\ \E s \in Size : process_size' = [process_size EXCEPT ![t] = s]
  /\ UNCHANGED <<memory, phase, mem_index, g_algorithm>>

Enter(t) ==
  /\ phase[t] = "outside"
  /\ \E p \in Partition :
       /\ Returns(FreeSpaces(memory), process_size[t], g_algorithm, p)
       /\ memory' = Assign(memory, p, t, process_size[t])
       /\ mem_index' = [mem_index EXCEPT ![t] = p]
  /\ phase' = [phase EXCEPT ![t] = "inside"]
  /\ UNCHANGED <<process_size, g_algorithm>>

TurnAway(t) ==
  /\ phase[t] = "outside"
  /\ Fitting(FreeSpaces(memory), process_size[t]) = {}
  /\ phase' = [phase EXCEPT ![t] = "gone"]
  /\ UNCHANGED <<memory, process_size, mem_index, g_algorithm>>

Leave(t) ==
  /\ phase[t] = "inside"
  /\ memory' = Return(memory, mem_index[t], t, process_size[t])
  /\ phase' = [phase EXCEPT ![t] = "gone"]
  /\ mem_index' = [mem_index EXCEPT ![t] = -1]
  /\ UNCHANGED <<process_size, g_algorithm>>

Next == \E t \in Thread : Choose(t) \/ Enter(t) \/ TurnAway(t) \/ Leave(t)

Spec == Init /\ [][Next]_vars
===============================================================================
