------------------------------- MODULE Lifecycle -------------------------------
(***************************************************************************)
(* initializer.c, producer.c and killer.c one after the other and at the   *)
(* same time: the initializer writes the two files, a producer announces   *)
(* its pid in the shared-memory segment, the killer sends it SIGQUIT and   *)
(* removes the files, and another producer may be started on what is left. *)
(*                                                                         *)
(* A removed file lives on for the threads that have it open: they go on   *)
(* with the variables old_status, old_memory and old_waiting, while the    *)
(* names are free for new files.                                           *)
(*                                                                         *)
(* Assumed of the user: the initializer is run when no producer is alive,  *)
(* and one producer at a time (for two see TwoProducers).  A pid is the    *)
(* number of the producer's life and is not reused.                        *)
(***************************************************************************)
EXTENDS Producer

CONSTANTS Chosen,      \* the algorithms the user picks from the menu
          MaxLives,    \* bound: producers started
          MaxKillers   \* bound: killers started

ASSUME ChosenAssumption == Chosen \subseteq Algorithm
ASSUME MaxLivesAssumption == MaxLives \in Nat
ASSUME MaxKillersAssumption == MaxKillers \in Nat

VARIABLES life,          \* the producers started so far, the pid of the last
          boot,          \* where it is in main: "menu", "segment", "running";
                         \* "none" when its remains have been cleared away
          segment,       \* NoSegment, or the pid in it, 0 when never written
          quit,          \* its SIGQUIT: "none", "pending", "handled"
          lost,          \* the workers that died inside with their producer
          killer,        \* "idle", "prompt", "signalled", "half"
          killer_pid,    \* the pid it read
          killers,       \* the killers started so far
          init_file,     \* the file the initializer is at
          init_stage,    \* "idle", "parse", "stretch", "copy", "open"
          init_linked,   \* its open file still has its name
          init_exit,     \* "running", "ok" (it returned 0), "failed"; "none"
                         \* once a killer or a producer has acted since
          orphan,        \* the threads whose open file was removed
          old_status, old_memory, old_waiting

old == <<orphan, old_status, old_memory, old_waiting>>
process == <<life, boot, lost>>
signal == <<segment, quit>>
killing == <<killer, killer_pid, killers>>
initializing == <<init_file, init_stage, init_linked, init_exit>>
lvars == <<vars, old, process, signal, killing, initializing>>

NoSegment == -1

(* The producer as the threads in orphan see it.                           *)
Old == INSTANCE Producer WITH status <- old_status, memory <- old_memory,
                              waiting <- old_waiting

(* The stages in which a thread has its file open.                         *)
Opened == {"parse", "stretch", "copy"}

Users(f) == {t \in Thread : stage[t] \in Opened /\ FileOf(t) = f}

(* Nothing has been run yet.                                               *)
LInit ==
  /\ alive = FALSE /\ main = "exiting" /\ boot = "none"
  /\ life = 0 /\ lost = {}
  /\ g_algorithm \in Chosen /\ sem_find_space = 1
  /\ status = [f \in File |-> "absent"] /\ memory = Schema /\ waiting = {}
  /\ section = [t \in Thread |-> "unborn"]
  /\ stage = [t \in Thread |-> "idle"]
  /\ process_size = [t \in Thread |-> 1] /\ mem_index = [t \in Thread |-> -1]
  /\ data = [t \in Thread |-> Schema] /\ data_waiting = [t \in Thread |-> {}]
  /\ output = "none" /\ log = <<>>
  /\ segment = NoSegment /\ quit = "none"
  /\ killer = "idle" /\ killer_pid = 0 /\ killers = 0
  /\ init_file = "memory" /\ init_stage = "idle" /\ init_linked = TRUE
  /\ init_exit = "none"
  /\ orphan = {} /\ old_status = status /\ old_memory = memory
  /\ old_waiting = waiting
------------------------------------------------------------------------------
(* producer.c.                                                             *)

(* The kernel clears a process away: its threads, semaphore and open files *)
(* are gone, the segment and the named files stay.  (Nobody reads the log, *)
(* which is cleared to keep the models small.)                             *)
Reap ==
  /\ ~alive /\ boot # "none"
  /\ boot' = "none" /\ main' = "exiting" /\ sem_find_space' = 1
  /\ lost' = lost \cup {t \in Thread : Holding(t)}
  /\ section' = [t \in Thread |->
                   IF section[t] = "unborn" THEN "unborn" ELSE "finished"]
  /\ stage' = [t \in Thread |-> "idle"]
  /\ process_size' = [t \in Thread |-> 1] /\ mem_index' = [t \in Thread |-> -1]
  /\ data' = [t \in Thread |-> Schema] /\ data_waiting' = [t \in Thread |-> {}]
  /\ output' = "none" /\ log' = <<>> /\ quit' = "none" /\ orphan' = {}
  /\ old_status' = status /\ old_memory' = memory /\ old_waiting' = waiting
  /\ UNCHANGED <<alive, g_algorithm, files, life, segment, killing,
                 initializing>>

(* main is called.                                                         *)
StartProducer ==
  /\ ~alive /\ boot = "none" /\ init_stage = "idle" /\ life < MaxLives
  /\ alive' = TRUE /\ life' = life + 1 /\ boot' = "menu" /\ main' = "creating"
  /\ g_algorithm' \in Chosen
  /\ init_exit' = "none"
  /\ UNCHANGED <<sem_find_space, files, section, stage, locals, logging, old,
                 lost, signal, killer, killer_pid, killers, init_file,
                 init_stage, init_linked>>

(* shmget with IPC_CREAT: a new segment is zero, an old one keeps its pid. *)
GetSegment ==
  /\ alive /\ boot = "menu"
  /\ boot' = "segment"
  /\ segment' = IF segment = NoSegment THEN 0 ELSE segment
  /\ UNCHANGED <<vars, old, life, lost, quit, killing, initializing>>

(* Variant: only a new segment is written.                                 *)
WritePidOnce ==
  /\ alive /\ boot = "segment"
  /\ boot' = "running"
  /\ segment' = IF segment = 0 THEN life ELSE segment
  /\ UNCHANGED <<vars, old, life, lost, quit, killing, initializing>>

WritePid ==
  /\ alive /\ boot = "segment"
  /\ boot' = "running"
  /\ segment' = life
  /\ UNCHANGED <<vars, old, life, lost, quit, killing, initializing>>

Create ==
  /\ boot = "running"
  /\ CreateFails \/ \E t \in Thread : CreateThread(t)
  /\ UNCHANGED <<old, process, signal, killing, initializing>>

(* Shmdt, shmctl(IPC_RMID) and exit(3); the workers go on until the end.   *)
SIGQUIT_handler ==
  /\ alive /\ quit = "pending"
  /\ quit' = "handled" /\ main' = "exiting" /\ segment' = NoSegment
  /\ UNCHANGED <<alive, g_algorithm, sem_find_space, files, section, stage,
                 locals, logging, old, process, killing, initializing>>

(* Variant: the handler ends its own thread only, by pthread_exit.          *)
EndAfterWorkers ==
  /\ \/ \A t \in Thread : section[t] \in {"unborn", "finished"}
     \/ \E t \in Thread : section[t] = "exiting"
  /\ Die /\ UNCHANGED <<old, process, signal, killing, initializing>>

EndProducer == Die /\ UNCHANGED <<old, process, signal, killing, initializing>>

WorkerStep(t) ==
  /\ t \notin orphan
  /\ Step(t)
  /\ UNCHANGED <<old, process, signal, killing, initializing>>

(* A step with a file that was removed under the thread.                   *)
OrphanStep(t) ==
  /\ t \in orphan
  /\ Old!Step(t)
  /\ orphan' = IF stage'[t] \in Opened /\ section'[t] = section[t]
               THEN orphan ELSE orphan \ {t}
  /\ UNCHANGED <<files, process, signal, killing, initializing>>
------------------------------------------------------------------------------
(* killer.c.                                                               *)

(* Lines 24-28.  Without a segment shmat gives -1, which is dereferenced:  *)
(* the killer crashes.                                                     *)
StartKiller ==
  /\ killer = "idle" /\ killers < MaxKillers
  /\ killers' = killers + 1
  /\ IF segment = NoSegment
     THEN UNCHANGED <<killer, killer_pid>>
     ELSE killer' = "prompt" /\ killer_pid' = segment
  /\ UNCHANGED <<vars, old, process, signal, initializing>>

(* Line 40, the user has pressed k.  Pid 0 is the killer's own process     *)
(* group: it ends by its own signal.  A pid of an earlier life is nobody's *)
(* any more.                                                               *)
Kill ==
  /\ killer = "prompt"
  /\ killer' = IF killer_pid = 0 THEN "idle" ELSE "signalled"
  /\ quit' = IF alive /\ killer_pid = life /\ quit = "none"
             THEN "pending" ELSE quit
  /\ UNCHANGED <<vars, old, process, segment, killer_pid, killers,
                 initializing>>

(* remove: the name goes, the file stays with those who have it open.      *)
(* Bound: not while a thread still uses the file that an earlier remove    *)
(* took away.                                                              *)
Unlink(f) ==
  /\ Users(f) \cap orphan = {}
  /\ status' = [status EXCEPT ![f] = "absent"]
  /\ init_linked' = (init_linked /\ ~(init_stage \in Opened /\ init_file = f))
  /\ IF status[f] = "absent"
     THEN UNCHANGED old
     ELSE /\ orphan' = orphan \cup Users(f)
          /\ old_status' = [old_status EXCEPT ![f] = status[f]]
          /\ IF f = "memory"
             THEN old_memory' = memory /\ UNCHANGED old_waiting
             ELSE old_waiting' = waiting /\ UNCHANGED old_memory

(* Lines 42-45: delete_memory, then delete_processes_on_waiting and exit.  *)
Delete ==
  /\ \/ killer = "signalled" /\ killer' = "half" /\ Unlink("memory")
     \/ killer = "half" /\ killer' = "idle" /\ Unlink("waiting")
  /\ init_exit' = "none"
  /\ UNCHANGED <<alive, main, g_algorithm, sem_find_space, memory, waiting,
                 section, stage, locals, logging, process, signal, killer_pid,
                 killers, init_file, init_stage>>
------------------------------------------------------------------------------
(* initializer.c: init_memory, then init_memory_processes_on_waiting.      *)

InitUnchanged ==
  UNCHANGED <<alive, main, g_algorithm, sem_find_space, section, stage, locals,
              logging, old, process, signal, killer, killer_pid, killers>>

(* What the initializer writes reaches the file of that name unless it was *)
(* removed since the open.                                                 *)
InitWrites(st) ==
  status' = IF init_linked THEN [status EXCEPT ![init_file] = st] ELSE status

(* open with O_CREAT and O_TRUNC, of the memory file when it is started.   *)
InitOpen ==
  /\ boot = "none" /\ init_stage \in {"idle", "open"}
  /\ init_file' = IF init_stage = "idle" THEN "memory" ELSE "waiting"
  /\ init_stage' = "parse" /\ init_linked' = TRUE
  /\ init_exit' = IF init_stage = "idle" THEN "running" ELSE init_exit
  /\ status' = [status EXCEPT ![init_file'] = "empty"]
  /\ UNCHANGED <<memory, waiting>> /\ InitUnchanged

(* schema.json, or "{}".  There may be no schema.json: exit(1) leaves the  *)
(* memory file empty and the waiting file as it was.                       *)
InitParse ==
  /\ init_stage = "parse"
  /\ \/ init_stage' = "stretch" /\ UNCHANGED init_exit
     \/ init_file = "memory" /\ init_stage' = "idle" /\ init_exit' = "failed"
  /\ UNCHANGED <<files, init_file, init_linked>> /\ InitUnchanged

InitStretch ==
  /\ init_stage = "stretch"
  /\ InitWrites("blank")
  /\ init_stage' = "copy"
  /\ UNCHANGED <<memory, waiting, init_file, init_linked, init_exit>>
  /\ InitUnchanged

(* Variant: a waiting file that exists is left as it is.                   *)
InitCopyUnlessExists ==
  /\ init_stage = "copy"
  /\ InitWrites("json")
  /\ memory' = IF init_linked THEN Schema ELSE memory
  /\ IF status["waiting"] = "absent"
     THEN init_stage' = "open" /\ UNCHANGED init_exit
     ELSE init_stage' = "idle" /\ init_exit' = "ok"
  /\ UNCHANGED <<waiting, init_file, init_linked>> /\ InitUnchanged

(* strcpy, msync, munmap and close; then the other file, or return 0.      *)
InitCopy ==
  /\ init_stage = "copy"
  /\ InitWrites("json")
  /\ IF init_file = "memory"
     THEN /\ init_stage' = "open" /\ UNCHANGED <<waiting, init_exit>>
          /\ memory' = IF init_linked THEN Schema ELSE memory
     ELSE /\ init_stage' = "idle" /\ UNCHANGED memory
          /\ waiting' = IF init_linked THEN {} ELSE waiting
          /\ init_exit' = IF init_exit = "running" THEN "ok" ELSE "none"
  /\ UNCHANGED <<init_file, init_linked>> /\ InitUnchanged

InitStep == InitOpen \/ InitParse \/ InitStretch \/ InitCopy

init_memory == InitStep /\ init_file' = "memory"

init_memory_processes_on_waiting == InitStep /\ init_file' = "waiting"
------------------------------------------------------------------------------
Rest == boot = "none" /\ killer = "idle" /\ init_stage = "idle" /\ UNCHANGED lvars

LNext ==
  \/ StartProducer \/ Reap \/ GetSegment \/ WritePid \/ Create
  \/ SIGQUIT_handler \/ EndProducer
  \/ \E t \in Thread : WorkerStep(t) \/ OrphanStep(t)
  \/ StartKiller \/ Kill \/ Delete
  \/ init_memory \/ init_memory_processes_on_waiting
  \/ Rest

LSpec == LInit /\ [][LNext]_lvars

(* A signal that was sent is handled, and a called exit completes.         *)
FairLSpec == LSpec /\ WF_lvars(SIGQUIT_handler) /\ WF_lvars(EndProducer)
------------------------------------------------------------------------------
(* Types of what Lifecycle adds to Producer.                               *)
LTypeOK ==
  /\ TypeOK
  /\ life \in 0..MaxLives /\ boot \in {"none", "menu", "segment", "running"}
  /\ segment \in {NoSegment} \cup 0..MaxLives
  /\ quit \in {"none", "pending", "handled"}
  /\ lost \subseteq Thread /\ orphan \subseteq Thread
  /\ killer \in {"idle", "prompt", "signalled", "half"}
  /\ killer_pid \in 0..MaxLives /\ killers \in 0..MaxKillers
  /\ init_linked \in BOOLEAN
  /\ init_file \in File /\ init_stage \in {"idle", "open"} \cup Opened
  /\ init_exit \in {"none", "running", "ok", "failed"}
  /\ old_status \in [File -> FileStatus] /\ old_memory \in Document
  /\ old_waiting \subseteq Thread

(* A memory file with a text is the memory file of the workers: whatever   *)
(* was killed, removed, created again or initialized, it has the entries   *)
(* of the workers that are inside, and no others than those of workers     *)
(* that an earlier producer took with it.                                  *)
EntriesSurvive ==
  status["memory"] = "json" =>
    \A t \in Thread, p \in Partition :
      LET inside == Holding(t) /\ mem_index[t] = p
          entry == memory[p].processes[t]
      IN /\ alive /\ inside => entry = process_size[t]
         /\ entry # 0 => inside \/ t \in lost

(* The accounts of the memory file stay balanced over the ends and starts  *)
(* of producers: a restart on the old file finds room missing, never too   *)
(* much of it.                                                             *)
BalancedOverRestarts ==
  Balanced(memory) /\ \A p \in Partition : memory[p].free_space >= 0

(* An initializer that returns 0 leaves both files ready for a producer    *)
(* whatever was there before it, unless a killer that was not done takes   *)
(* one away meanwhile.                                                     *)
(* ("inicializa de manera que los actores encuentren todo listo")          *)
InitializerReady ==
  init_exit = "ok" =>
    /\ status = [f \in File |-> "json"]
    /\ memory = Schema /\ waiting = {}

(* From the moment it creates workers until it handles SIGQUIT, the        *)
(* producer's own pid is what the killer finds in the segment, although    *)
(* the segment outlives a producer that ends in any other way.             *)
SegmentNamesProducer ==
  (alive /\ boot = "running" /\ quit # "handled") => segment = life

(* A producer that was sent SIGQUIT ends, whatever its workers are doing.  *)
KilledProducerEnds == quit = "pending" ~> ~alive

(* "Se encarga de matar todos los procesos que esten en escena": a killer  *)
(* that goes on to delete the files has sent the running producer SIGQUIT. *)
ProducerSignalled ==
  (killer = "half" /\ alive /\ boot = "running") => quit # "none"
===============================================================================
