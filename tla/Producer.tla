------------------------------- MODULE Producer -------------------------------
(***************************************************************************)
(* producer.c: the producer process.  Its main thread creates worker       *)
(* threads; each worker announces itself in the list of waiting processes, *)
(* looks for a partition with room, stays in it for a while and gives the  *)
(* room back.  The list and the partitions are two files that are read and *)
(* rewritten through mmap by steps that other threads see; one semaphore   *)
(* guards everything but the announcement.                                 *)
(*                                                                         *)
(* A worker's position is its section of worker_thread and, within a       *)
(* section that rewrites a file or writes the log, a stage:                *)
(*                                                                         *)
(*   announce   99-106   waiting list: add the thread                      *)
(*   enter      108      sem_wait                                          *)
(*   withdraw   109-116  waiting list: remove the thread                   *)
(*   allocate   118-147  memory: search and take the room                  *)
(*   warn       125-126  log the rejection, sem_post                       *)
(*   asig       148-150  log the assignment, sem_post                      *)
(*   sleep      152                                                        *)
(*   reenter    153      sem_wait                                          *)
(*   release    155-170  memory: give the room back                        *)
(*   devo       171-172  log the return, sem_post                          *)
(*                                                                         *)
(* Local work that no other thread can see happens in the step that reads  *)
(* the file.                                                               *)
(***************************************************************************)
EXTENDS Partitions, Sequences

VARIABLES alive,         \* the process exists
          main,          \* "creating", or "exiting" in exit()
          g_algorithm,
          sem_find_space,
          status,        \* of each file: "absent", "empty" (no bytes),
                         \* "blank" (bytes but no whole text) or "json"
          memory,        \* the last text wholly written to each file
          waiting,
          section,       \* the position of each worker
          stage,
          process_size,  \* the locals of each worker
          mem_index,
          data,          \* the text it has computed for the memory file
          data_waiting,  \* and for the waiting list
          output,        \* the static buffer of strclr
          log            \* the lines of the log file

files == <<status, memory, waiting>>
locals == <<process_size, mem_index, data, data_waiting>>
logging == <<output, log>>
vars == <<alive, main, g_algorithm, sem_find_space, files, section, stage,
          locals, logging>>

File == {"memory", "waiting"}

FileStatus == {"absent", "empty", "blank", "json"}

WaitingSections == {"announce", "withdraw"}
MemorySections == {"allocate", "release"}
LogSections == {"warn", "asig", "devo"}

Section == WaitingSections \cup MemorySections \cup LogSections \cup
  {"unborn", "enter", "sleep", "reenter", "finished", "exiting"}

Stage == {"idle", "open", "parse", "null", "truncate", "stretch", "copy",
          "strclr", "slog", "post"}

Tag == {"none", "WARN", "ASIG", "DEVO"}

(* The strclr tag of each log section.                                     *)
TagOf(sec) ==
  IF sec = "warn" THEN "WARN" ELSE IF sec = "asig" THEN "ASIG" ELSE "DEVO"

FileOf(t) == IF section[t] \in WaitingSections THEN "waiting" ELSE "memory"

(* Between sem_wait and sem_post.                                          *)
Critical(t) == section[t] \in {"withdraw"} \cup MemorySections \cup LogSections

Init ==
  /\ alive = TRUE
  /\ main = "creating"
  /\ g_algorithm \in Algorithm
  /\ sem_find_space = 1
  /\ status = [f \in File |-> "json"]
  /\ memory = Schema
  /\ waiting = {}
  /\ section = [t \in Thread |-> "unborn"]
  /\ stage = [t \in Thread |-> "idle"]
  /\ process_size = [t \in Thread |-> 1]
  /\ mem_index = [t \in Thread |-> -1]
  /\ data = [t \in Thread |-> Schema]
  /\ data_waiting = [t \in Thread |-> {}]
  /\ output = "none"
  /\ log = <<>>

At(t, sec, stg) == alive /\ section[t] = sec /\ stage[t] = stg

GoTo(t, sec, stg) ==
  /\ section' = [section EXCEPT ![t] = sec]
  /\ stage' = [stage EXCEPT ![t] = stg]

Advance(t, stg) == UNCHANGED section /\ stage' = [stage EXCEPT ![t] = stg]

(* A call of exit: the thread goes no further, the others run until the    *)
(* process is gone.  A semaphore the thread holds is not posted.           *)
Exit(t) == GoTo(t, "exiting", "idle")
------------------------------------------------------------------------------
(* main, lines 63-78.                                                      *)

CreateThread(t) ==
  /\ alive /\ main = "creating"
  /\ section[t] = "unborn"
  /\ \E s \in Size : process_size' = [process_size EXCEPT ![t] = s]
  /\ GoTo(t, "announce", "open")
  /\ UNCHANGED <<alive, main, g_algorithm, sem_find_space, files, mem_index,
                 data, data_waiting, logging>>

(* pthread_create fails, at the latest when the stacks of the threads that *)
(* nobody joins have used up the process's mappings: exit(EXIT_FAILURE).   *)
CreateFails ==
  /\ alive /\ main = "creating"
  /\ main' = "exiting"
  /\ UNCHANGED <<alive, g_algorithm, sem_find_space, files, section, stage,
                 locals, logging>>

(* SIGQUIT_handler, sent by the killer: exit(3) in the main thread.        *)
SigQuit ==
  /\ alive /\ main = "creating"
  /\ main' = "exiting"
  /\ UNCHANGED <<alive, g_algorithm, sem_find_space, files, section, stage,
                 locals, logging>>

(* exit, called by main or a worker, ends the process.                     *)
Die ==
  /\ alive
  /\ main = "exiting" \/ \E t \in Thread : section[t] = "exiting"
  /\ alive' = FALSE
  /\ UNCHANGED <<main, g_algorithm, sem_find_space, files, section, stage,
                 locals, logging>>
------------------------------------------------------------------------------
(* read_memory and read_memory_processes_on_waiting.                       *)

(* open and fstat: a missing or an empty file is exit(EXIT_FAILURE).       *)
OpenToRead(t) ==
  /\ alive /\ stage[t] = "open"
  /\ IF status[FileOf(t)] \in {"absent", "empty"}
     THEN Exit(t)
     ELSE Advance(t, "parse")
  /\ UNCHANGED <<alive, main, g_algorithm, sem_find_space, files, locals,
                 logging>>

(* The mapping is touched after another thread cut the file to no bytes:   *)
(* SIGBUS, and the whole process is gone at once.                          *)
TouchTruncated(t) ==
  /\ alive /\ stage[t] \in {"parse", "copy"}
  /\ status[FileOf(t)] = "empty"
  /\ alive' = FALSE
  /\ UNCHANGED <<main, g_algorithm, sem_find_space, files, section, stage,
                 locals, logging>>

(* json_parse_string fails, every parson call on the NULL it returns fails *)
(* as well, and the text to write is NULL.  search_index finds an array of *)
(* no elements: the process is rejected.                                   *)
ParseNothing(t) ==
  /\ alive /\ stage[t] = "parse"
  /\ status[FileOf(t)] = "blank"
  /\ IF section[t] = "allocate"
     THEN GoTo(t, "warn", "strclr")
     ELSE Advance(t, "null")
  /\ UNCHANGED <<alive, main, g_algorithm, sem_find_space, files, locals,
                 logging>>

(* Lines 99-105: json_object_set_null(waiting_object, str_process_id).     *)
ParseAnnounce(t) ==
  /\ At(t, "announce", "parse")
  /\ status["waiting"] = "json"
  /\ data_waiting' = [data_waiting EXCEPT ![t] = waiting \cup {t}]
  /\ Advance(t, "truncate")
  /\ UNCHANGED <<alive, main, g_algorithm, sem_find_space, files,
                 process_size, mem_index, data, logging>>

(* Lines 109-115: json_object_remove(waiting_object, str_process_id).      *)
ParseWithdraw(t) ==
  /\ At(t, "withdraw", "parse")
  /\ status["waiting"] = "json"
  /\ data_waiting' = [data_waiting EXCEPT ![t] = waiting \ {t}]
  /\ Advance(t, "truncate")
  /\ UNCHANGED <<alive, main, g_algorithm, sem_find_space, files,
                 process_size, mem_index, data, logging>>

(* Lines 118-146: search_index, and the room taken from its partition.     *)
ParseAllocate(t) ==
  /\ At(t, "allocate", "parse")
  /\ status["memory"] = "json"
  /\ \E p \in Partition :
       /\ Returns(FreeSpaces(memory), process_size[t], g_algorithm, p)
       /\ mem_index' = [mem_index EXCEPT ![t] = p]
       /\ data' = [data EXCEPT ![t] = Assign(memory, p, t, process_size[t])]
  /\ Advance(t, "truncate")
  /\ UNCHANGED <<alive, main, g_algorithm, sem_find_space, files,
                 process_size, data_waiting, logging>>

(* Variant: only the last partition decides.                               *)
RejectIfLastFull(t) ==
  /\ At(t, "allocate", "parse")
  /\ status["memory"] = "json"
  /\ ~Fits(FreeSpaces(memory), N - 1, process_size[t])
  /\ GoTo(t, "warn", "strclr")
  /\ UNCHANGED <<alive, main, g_algorithm, sem_find_space, files, locals,
                 logging>>

(* Line 123: search_index returned -1.                                     *)
Reject(t) ==
  /\ At(t, "allocate", "parse")
  /\ status["memory"] = "json"
  /\ Returns(FreeSpaces(memory), process_size[t], g_algorithm, -1)
  /\ GoTo(t, "warn", "strclr")
  /\ UNCHANGED <<alive, main, g_algorithm, sem_find_space, files, locals,
                 logging>>

(* Lines 155-169: the room given back to partition mem_index.              *)
ParseRelease(t) ==
  /\ At(t, "release", "parse")
  /\ status["memory"] = "json"
  /\ data' = [data EXCEPT ![t] =
                Return(memory, mem_index[t], t, process_size[t])]
  /\ Advance(t, "truncate")
  /\ UNCHANGED <<alive, main, g_algorithm, sem_find_space, files,
                 process_size, mem_index, data_waiting, logging>>
------------------------------------------------------------------------------
(* write_memory and write_memory_processes_on_waiting.                     *)

SetStatus(f, st) == status' = [status EXCEPT ![f] = st]

(* open with O_TRUNC.                                                      *)
Truncate(t) ==
  /\ alive /\ stage[t] = "truncate"
  /\ SetStatus(FileOf(t), "empty")
  /\ Advance(t, "stretch")
  /\ UNCHANGED <<alive, main, g_algorithm, sem_find_space, memory, waiting,
                 locals, logging>>

(* The same open, then exit(1) because the text is NULL.                   *)
WriteNothing(t) ==
  /\ alive /\ stage[t] = "null"
  /\ SetStatus(FileOf(t), "empty")
  /\ Exit(t)
  /\ UNCHANGED <<alive, main, g_algorithm, sem_find_space, memory, waiting,
                 locals, logging>>

(* lseek and write of one zero byte at the end of the new text.  On a text *)
(* that another thread has completed in between, the byte falls inside it  *)
(* when it is longer; the length of a waiting list follows its ids.        *)
StretchOutcome(t, st) ==
  \/ status[FileOf(t)] # "json" /\ st = "blank"
  \/ /\ status[FileOf(t)] = "json" /\ st = "json"
     /\ FileOf(t) = "waiting" => ~(/\ data_waiting[t] \subseteq waiting
                                  /\ data_waiting[t] # waiting)
  \/ /\ status[FileOf(t)] = "json" /\ st = "blank"
     /\ FileOf(t) = "waiting" => ~(waiting \subseteq data_waiting[t])

Stretch(t) ==
  /\ alive /\ stage[t] = "stretch"
  /\ \E st \in FileStatus :
       StretchOutcome(t, st) /\ SetStatus(FileOf(t), st)
  /\ Advance(t, "copy")
  /\ UNCHANGED <<alive, main, g_algorithm, sem_find_space, memory, waiting,
                 locals, logging>>

(* Another thread has copied its text since, or is about to: bytes of both *)
(* texts may remain, or the file may end within ours.                      *)
Disturbed(t) ==
  \/ status[FileOf(t)] = "json"
  \/ \E u \in Thread \ {t} : stage[u] = "copy" /\ FileOf(u) = FileOf(t)

(* mmap, strcpy, msync, munmap, close: the text is in the file.            *)
CopyOutcome(t, st) == st = "json" \/ (st = "blank" /\ Disturbed(t))

CopyWaiting(t) ==
  /\ alive /\ section[t] \in WaitingSections /\ stage[t] = "copy"
  /\ status["waiting"] # "empty"
  /\ \E st \in FileStatus : CopyOutcome(t, st) /\ SetStatus("waiting", st)
  /\ waiting' = data_waiting[t]
  /\ data_waiting' = [data_waiting EXCEPT ![t] = {}]
  /\ IF section[t] = "announce"
     THEN GoTo(t, "enter", "idle")
     ELSE GoTo(t, "allocate", "open")
  /\ UNCHANGED <<alive, main, g_algorithm, sem_find_space, memory,
                 process_size, mem_index, data, logging>>

(* Variant: a sem_post before slog as well as after it.                    *)
CopyMemoryThenPost(t) ==
  /\ alive /\ section[t] \in MemorySections /\ stage[t] = "copy"
  /\ SetStatus("memory", "json")
  /\ memory' = data[t]
  /\ data' = [data EXCEPT ![t] = Schema]
  /\ sem_find_space' = sem_find_space + 1
  /\ IF section[t] = "allocate"
     THEN GoTo(t, "asig", "strclr")
     ELSE GoTo(t, "devo", "strclr")
  /\ UNCHANGED <<alive, main, g_algorithm, waiting,
                 process_size, mem_index, data_waiting, logging>>

CopyMemory(t) ==
  /\ alive /\ section[t] \in MemorySections /\ stage[t] = "copy"
  /\ status["memory"] # "empty"
  /\ \E st \in FileStatus : CopyOutcome(t, st) /\ SetStatus("memory", st)
  /\ memory' = data[t]
  /\ data' = [data EXCEPT ![t] = Schema]
  /\ IF section[t] = "allocate"
     THEN GoTo(t, "asig", "strclr")
     ELSE GoTo(t, "devo", "strclr")
  /\ UNCHANGED <<alive, main, g_algorithm, sem_find_space, waiting,
                 process_size, mem_index, data_waiting, logging>>
------------------------------------------------------------------------------
(* The semaphore, the sleep and the log of worker_thread.                  *)

(* Variant: the semaphore is tested and not taken.                         *)
SemWaitWithoutTaking(t) ==
  /\ alive /\ section[t] \in {"enter", "reenter"}
  /\ sem_find_space > 0
  /\ IF section[t] = "enter"
     THEN GoTo(t, "withdraw", "open")
     ELSE GoTo(t, "release", "open")
  /\ UNCHANGED <<alive, main, g_algorithm, sem_find_space, files, locals,
                 logging>>

(* Variant: sem_trywait, its result ignored.                               *)
SemWaitTry(t) ==
  /\ alive /\ section[t] \in {"enter", "reenter"}
  /\ sem_find_space' = IF sem_find_space > 0 THEN sem_find_space - 1 ELSE 0
  /\ IF section[t] = "enter"
     THEN GoTo(t, "withdraw", "open")
     ELSE GoTo(t, "release", "open")
  /\ UNCHANGED <<alive, main, g_algorithm, files, locals, logging>>

SemWait(t) ==
  /\ alive /\ section[t] \in {"enter", "reenter"}
  /\ sem_find_space > 0
  /\ sem_find_space' = sem_find_space - 1
  /\ IF section[t] = "enter"
     THEN GoTo(t, "withdraw", "open")
     ELSE GoTo(t, "release", "open")
  /\ UNCHANGED <<alive, main, g_algorithm, files, locals, logging>>

(* Variant: a tag that is in the buffer is not built again.                *)
StrclrOnce(t) ==
  /\ alive /\ stage[t] = "strclr"
  /\ output' = IF output = "none" THEN TagOf(section[t]) ELSE output
  /\ Advance(t, "slog")
  /\ UNCHANGED <<alive, main, g_algorithm, sem_find_space, files, locals, log>>

(* strclr builds the coloured tag in its static buffer, the argument slog  *)
(* is then called with.                                                    *)
Strclr(t) ==
  /\ alive /\ stage[t] = "strclr"
  /\ output' = TagOf(section[t])
  /\ Advance(t, "slog")
  /\ UNCHANGED <<alive, main, g_algorithm, sem_find_space, files, locals, log>>

Slog(t) ==
  /\ alive /\ stage[t] = "slog"
  /\ log' = Append(log, [tag |-> output, event |-> TagOf(section[t]), id |-> t])
  /\ Advance(t, "post")
  /\ UNCHANGED <<alive, main, g_algorithm, sem_find_space, files, locals,
                 output>>

(* Variant: no sem_post on the way out of a rejection.                     *)
SemPostUnlessRejected(t) ==
  /\ alive /\ stage[t] = "post"
  /\ sem_find_space' = IF section[t] = "warn" THEN sem_find_space
                       ELSE sem_find_space + 1
  /\ IF section[t] = "asig"
     THEN GoTo(t, "sleep", "idle")
     ELSE GoTo(t, "finished", "idle")
  /\ UNCHANGED <<alive, main, g_algorithm, files, locals, logging>>

SemPost(t) ==
  /\ alive /\ stage[t] = "post"
  /\ sem_find_space' = sem_find_space + 1
  /\ IF section[t] = "asig"
     THEN GoTo(t, "sleep", "idle")
     ELSE GoTo(t, "finished", "idle")
  /\ UNCHANGED <<alive, main, g_algorithm, files, locals, logging>>

(* Variant: no sem_wait before the room is given back.                     *)
WakeWithoutWait(t) ==
  /\ At(t, "sleep", "idle")
  /\ GoTo(t, "release", "open")
  /\ UNCHANGED <<alive, main, g_algorithm, sem_find_space, files, locals,
                 logging>>

(* sleep(process_delay) is over.                                           *)
Wake(t) ==
  /\ At(t, "sleep", "idle")
  /\ GoTo(t, "reenter", "idle")
  /\ UNCHANGED <<alive, main, g_algorithm, sem_find_space, files, locals,
                 logging>>
------------------------------------------------------------------------------
Step(t) ==
  \/ OpenToRead(t) \/ TouchTruncated(t) \/ ParseNothing(t)
  \/ ParseAnnounce(t) \/ ParseWithdraw(t)
  \/ ParseAllocate(t) \/ Reject(t) \/ ParseRelease(t)
  \/ Truncate(t) \/ WriteNothing(t) \/ Stretch(t)
  \/ CopyWaiting(t) \/ CopyMemory(t)
  \/ SemWait(t) \/ Strclr(t) \/ Slog(t) \/ SemPost(t) \/ Wake(t)

(* A process that is gone stays as it was.                                 *)
Gone == ~alive /\ UNCHANGED vars

Next ==
  \/ \E t \in Thread : CreateThread(t) \/ Step(t)
  \/ CreateFails \/ SigQuit \/ Die
  \/ Gone

(* The kernel runs every thread that can run and completes a called exit;  *)
(* nothing obliges main to create another thread, or to fail.              *)
Fairness == WF_vars(Die) /\ \A t \in Thread : WF_vars(Step(t))

Spec == Init /\ [][Next]_vars
FairSpec == Spec /\ Fairness
------------------------------------------------------------------------------
LogEntry == [tag : Tag, event : Tag, id : Thread]

(* Types of the process, the files, the workers and the log; the semaphore *)
(* is never posted twice for one sem_wait.                                 *)
TypeOK ==
  /\ alive \in BOOLEAN
  /\ main \in {"creating", "exiting"}
  /\ g_algorithm \in Algorithm
  /\ sem_find_space \in {0, 1}
  /\ status \in [File -> FileStatus]
  /\ memory \in Document
  /\ waiting \in SUBSET Thread
  /\ section \in [Thread -> Section]
  /\ stage \in [Thread -> Stage]
  /\ process_size \in [Thread -> Size]
  /\ mem_index \in [Thread -> {-1} \cup Partition]
  /\ data \in [Thread -> Document]
  /\ data_waiting \in [Thread -> SUBSET Thread]
  /\ output \in Tag
  /\ log \in Seq(LogEntry)

(* The stages of each section.                                             *)
StageOK ==
  \A t \in Thread :
    IF section[t] \in WaitingSections \cup MemorySections
    THEN stage[t] \in {"open", "parse", "null", "truncate", "stretch", "copy"}
    ELSE IF section[t] \in LogSections
    THEN stage[t] \in {"strclr", "slog", "post"}
    ELSE stage[t] = "idle"

(* One worker at a time is between sem_wait and sem_post, and the          *)
(* semaphore is then taken: the search for room, the two rewrites of the   *)
(* memory file and the log line are never interleaved with another's.      *)
MutualExclusion ==
  \A t \in Thread : Critical(t) =>
    /\ sem_find_space = 0
    /\ \A u \in Thread : Critical(u) => u = t

(* A worker that reads or writes the memory file finds it whole: it never  *)
(* meets the empty or half written file of another (exit, SIGBUS or a NULL *)
(* text), although write_memory truncates the file in place.               *)
MemoryFileReady ==
  \A t \in Thread : section[t] \in MemorySections =>
    /\ stage[t] \in {"open", "parse", "truncate"} => status["memory"] = "json"
    /\ stage[t] = "stretch" => status["memory"] = "empty"
    /\ stage[t] = "copy" => status["memory"] = "blank"
    /\ stage[t] # "null"

Holding(t) == section[t] \in {"asig", "sleep", "reenter", "release"}

(* The entries of the memory document are those of the workers inside      *)
(* their partition, each with its size, whatever was read before a sleep   *)
(* and rewritten after it: no entry is lost, doubled or left behind.       *)
Reservations ==
  \A t \in Thread, p \in Partition :
    memory[p].processes[t] =
      IF Holding(t) /\ mem_index[t] = p THEN process_size[t] ELSE 0

(* In every partition the free space and the entries add up to its size,   *)
(* and no partition is overcommitted.                                      *)
SpaceConserved ==
  Balanced(memory) /\ \A p \in Partition : memory[p].free_space >= 0

(* The line of the log carries the tag of its event, although strclr       *)
(* returns a static buffer all threads share.                              *)
LogTagsMatch == \A k \in DOMAIN log : log[k].tag = log[k].event

Logged(k, event, t) == \E j \in 1..k : log[j].event = event /\ log[j].id = t

(* The units that the first k lines of the log leave assigned.             *)
LoggedUnits(k) ==
  {u \in Thread \X Size : /\ u[2] <= process_size[u[1]]
                          /\ Logged(k, "ASIG", u[1])
                          /\ ~Logged(k, "DEVO", u[1])}

TotalUnits == UNION {{p} \X (1..Capacity[p]) : p \in Partition}

(* Read from its start, the log never shows more units assigned than the   *)
(* partitions have: assignments and returns are logged in the order in     *)
(* which they happened.                                                    *)
LogNeverOvercommits ==
  \A k \in DOMAIN log : Cardinality(LoggedUnits(k)) <= Cardinality(TotalUnits)

(* A worker that was created finishes, turned away or with its room given  *)
(* back, unless the whole process ends: no worker waits for ever on the    *)
(* semaphore or in a partition.                                            *)
EveryWorkerFinishes ==
  \A t \in Thread :
    section[t] = "announce" ~> (section[t] = "finished" \/ ~alive)

(* The waiting list names the blocked workers: when nobody is rewriting    *)
(* it, exactly those at the first sem_wait are in it.  ("El PID de los     *)
(* procesos que esten bloqueados", for the Espia.)                         *)
WaitingListExact ==
  (alive /\ \A t \in Thread : section[t] \notin WaitingSections \cup {"exiting"})
    => /\ status["waiting"] = "json"
       /\ waiting = {t \in Thread : section[t] = "enter"}

(* "Now the file is ready to be mmapped": after the stretch, the file has  *)
(* its size until the text is copied.                                      *)
WaitingFileReady ==
  \A t \in Thread :
    (alive /\ section[t] \in WaitingSections /\ stage[t] = "copy")
      => status["waiting"] # "empty"

(* The allocator this process implements: a process is inside from the     *)
(* moment its entry is in the memory file.                                 *)
Phase(t) ==
  IF Holding(t) THEN "inside"
  ELSE IF section[t] \in {"warn", "devo", "finished"} THEN "gone"
  ELSE "outside"

Abstract == INSTANCE Allocator WITH
  phase <- [t \in Thread |-> Phase(t)],
  mem_index <- [t \in Thread |-> IF Holding(t) THEN mem_index[t] ELSE -1]

(* The threads, files, semaphore and log together implement the allocator: *)
(* the decision taken on the text read is still the right one when the     *)
(* text is written, a worker is turned away only when nothing fits, and a  *)
(* write moves the entry of its own worker only.                           *)
ImplementsAllocator == Abstract!Spec
===============================================================================
