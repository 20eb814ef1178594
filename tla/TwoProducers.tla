------------------------------ MODULE TwoProducers -----------------------------
(***************************************************************************)
(* Producer started twice: two processes with their own threads, algorithm *)
(* and semaphore, over the same two files and the same log.  Nothing in    *)
(* main prevents it, and sem_init is called with pshared 0 on a variable   *)
(* of the process.                                                         *)
(*                                                                         *)
(* The second process is Other.  A thread belongs to the process that      *)
(* creates it.  Of what two overlapping copies of one file may leave, only *)
(* the outcomes of Producer are kept.                                      *)
(***************************************************************************)
EXTENDS Producer

VARIABLES other_alive, other_main, other_algorithm, other_semaphore,
          other_section, other_stage, other_size, other_index, other_data,
          other_waiting, other_output

Other == INSTANCE Producer WITH
  alive <- other_alive, main <- other_main, g_algorithm <- other_algorithm,
  sem_find_space <- other_semaphore, section <- other_section,
  stage <- other_stage, process_size <- other_size, mem_index <- other_index,
  data <- other_data, data_waiting <- other_waiting, output <- other_output

mine == <<alive, main, g_algorithm, sem_find_space, section, stage, locals,
          output>>
others == <<other_alive, other_main, other_algorithm, other_semaphore,
            other_section, other_stage, other_size, other_index, other_data,
            other_waiting, other_output>>

TwoInit == Init /\ Other!Init

Created(sections) == {t \in Thread : sections[t] # "unborn"}

TwoNext ==
  /\ \/ Next /\ UNCHANGED others
     \/ Other!Next /\ UNCHANGED mine
  /\ Created(section') \cap Created(other_section') = {}

TwoSpec == TwoInit /\ [][TwoNext]_<<vars, others>>

(* The units of partition p that the workers of both processes inside it   *)
(* were given.                                                             *)
UnitsGiven(p) ==
  {u \in Thread \X Size :
     \/ Holding(u[1]) /\ mem_index[u[1]] = p /\ u[2] <= process_size[u[1]]
     \/ /\ Other!Holding(u[1])
        /\ other_index[u[1]] = p /\ u[2] <= other_size[u[1]]}

(* "Para que no haya choques que 2 procesos seleccionen el mismo hueco":   *)
(* the workers inside a partition fit into it.                             *)
NoClash == \A p \in Partition : Cardinality(UnitsGiven(p)) <= Capacity[p]
===============================================================================
