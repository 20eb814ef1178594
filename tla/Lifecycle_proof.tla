---------------------------- MODULE Lifecycle_proof ----------------------------
(***************************************************************************)
(* The producers, killers and initializers of Lifecycle, for any number of *)
(* workers, partitions, lives and killers.                                 *)
(*                                                                         *)
(* The step of a thread whose file was removed is Old!Step, the step of    *)
(* Producer on other files.  What a step does is therefore summarised      *)
(* without the files it works on (Goes of Producer_proof for the process,  *)
(* Does for the documents); Step and Old!Step are each shown to be within  *)
(* the summary, and everything after that is about the summary.            *)
(*                                                                         *)
(*   LifeControl  types, and mutual exclusion over all the lives;          *)
(*   Lives        who can be where: nobody without a producer, a thread    *)
(*                with a removed memory file only while no other has the   *)
(*                name;                                                    *)
(*   Remains      the documents, of files with and without a name, agree   *)
(*                with the workers inside and with those lost;             *)
(*   Readying     an initializer that nobody disturbs.                     *)
(*                                                                         *)
(* Then the spy, beside one producer, which it does not change, so that    *)
(* the theorems about the producer hold beside it.  The list of entries in *)
(* the order of the text (Listed) follows the document, of which a step    *)
(* writes one entry (OneEntry).  Until the file is written under the parse *)
(* neither changes, and with the document, since it agrees with the        *)
(* workers inside (Reservations), nor does who is inside: what has been    *)
(* read is the document of the moment of the opening (SoFar).              *)
(*                                                                         *)
(* Last, two producers at once.  Second is the other one, with all that is *)
(* shown of a producer.  What holds of a producer by its own semaphore     *)
(* holds of each of the two; what holds of the files does while only one   *)
(* has workers.                                                            *)
(***************************************************************************)
EXTENDS Lifecycle, Spy, TwoProducers, Producer_proof

(* The step of a thread whose file was removed is the same step of the     *)
(* same thread, and moves it as any step does ...                          *)
LEMMA OrphanMoves ==
  ASSUME Control, NEW t \in Thread, Old!Step(t)
  PROVE  Moves(t)
<1>0. /\ section \in [Thread -> Section] /\ stage \in [Thread -> Stage]
      /\ sem_find_space \in {0, 1} /\ stage[t] \in StagesOf(section[t])
  BY DEF Control, TypeOK, StageOK, StagesOf
<1> USE DEF Old!WaitingSections, WaitingSections, MemorySections, LogSections,
            CriticalSections, StagesOf, Old!At, Old!GoTo, Old!Advance, Old!Exit,
            Section, Stage, Moves, Old!FileStatus, FileStatus
<1>1. CASE Old!OpenToRead(t)
  BY <1>1, <1>0 DEF Old!OpenToRead
<1>2. CASE Old!TouchTruncated(t)
  BY <1>2, <1>0 DEF Old!TouchTruncated
<1>3. CASE Old!ParseNothing(t)
  BY <1>3, <1>0 DEF Old!ParseNothing
<1>4. CASE Old!ParseAnnounce(t)
  BY <1>4, <1>0 DEF Old!ParseAnnounce
<1>5. CASE Old!ParseWithdraw(t)
  BY <1>5, <1>0 DEF Old!ParseWithdraw
<1>6. CASE Old!ParseAllocate(t)
  BY <1>6, <1>0 DEF Old!ParseAllocate
<1>7. CASE Old!Reject(t)
  BY <1>7, <1>0 DEF Old!Reject
<1>8. CASE Old!ParseRelease(t)
  BY <1>8, <1>0 DEF Old!ParseRelease
<1>9. CASE Old!Truncate(t)
  BY <1>9, <1>0 DEF Old!Truncate
<1>10. CASE Old!WriteNothing(t)
  BY <1>10, <1>0 DEF Old!WriteNothing
<1>11. CASE Old!Stretch(t)
  BY <1>11, <1>0 DEF Old!Stretch
<1>12. CASE Old!CopyWaiting(t)
  BY <1>12, <1>0 DEF Old!CopyWaiting
<1>13. CASE Old!CopyMemory(t)
  BY <1>13, <1>0 DEF Old!CopyMemory, Old!MemorySections
<1>14. CASE Old!SemWait(t)
  BY <1>14, <1>0 DEF Old!SemWait
<1>15. CASE Old!Strclr(t)
  BY <1>15, <1>0 DEF Old!Strclr
<1>16. CASE Old!Slog(t)
  BY <1>16, <1>0 DEF Old!Slog
<1>17. CASE Old!SemPost(t)
  BY <1>17, <1>0 DEF Old!SemPost
<1>18. CASE Old!Wake(t)
  BY <1>18, <1>0 DEF Old!Wake
<1>19. QED
  BY <1>1, <1>2, <1>3, <1>4, <1>5, <1>6, <1>7, <1>8, <1>9,
     <1>10, <1>11, <1>12, <1>13, <1>14, <1>15, <1>16, <1>17, <1>18 DEF Old!Step

(* Types of the files that have lost their name.                           *)
OldTypes ==
  /\ old_status \in [File -> FileStatus]
  /\ old_memory \in Document
  /\ old_waiting \in SUBSET Thread

(* ... and keeps every type.                                               *)
LEMMA OrphanGoes ==
  ASSUME Control, OldTypes, NEW t \in Thread, Old!Step(t)
  PROVE  Goes(t) /\ OldTypes'
<1>0. Moves(t) /\ OldTypes /\ LocalTypes /\ process_size[t] \in Size
      /\ alive \in BOOLEAN
  BY OrphanMoves DEF Control, TypeOK, LocalTypes
<1> USE DEF Old!WaitingSections, Old!At, Old!SetStatus, Old!FileOf, Old!files,
            Old!locals, Old!logging, Goes, LocalTypes, OldTypes, File,
            Old!FileStatus, FileStatus
<1>1. CASE Old!OpenToRead(t)
  BY <1>1, <1>0 DEF Old!OpenToRead
<1>2. CASE Old!TouchTruncated(t)
  BY <1>2, <1>0 DEF Old!TouchTruncated
<1>3. CASE Old!ParseNothing(t)
  BY <1>3, <1>0 DEF Old!ParseNothing
<1>4. CASE Old!ParseAnnounce(t)
  BY <1>4, <1>0 DEF Old!ParseAnnounce
<1>5. CASE Old!ParseWithdraw(t)
  BY <1>5, <1>0 DEF Old!ParseWithdraw
<1>6. CASE Old!ParseAllocate(t)
  <2>1. PICK p \in Partition :
          /\ mem_index' = [mem_index EXCEPT ![t] = p]
          /\ data' = [data EXCEPT ![t] = Assign(old_memory, p, t, process_size[t])]
    BY <1>6 DEF Old!ParseAllocate, Old!Partition, Partition, Old!Assign, Assign
  <2>2. Assign(old_memory, p, t, process_size[t]) \in Document
    BY <1>0, DocumentTypes
  <2>3. LocalTypes'
    BY <1>6, <1>0, <2>1, <2>2 DEF Old!ParseAllocate
  <2>4. QED
    BY <1>6, <1>0, <2>3 DEF Old!ParseAllocate
<1>7. CASE Old!Reject(t)
  BY <1>7, <1>0 DEF Old!Reject
<1>8. CASE Old!ParseRelease(t)
  <2>1. data' = [data EXCEPT ![t] =
                   Return(old_memory, mem_index[t], t, process_size[t])]
    BY <1>8 DEF Old!ParseRelease, Old!Return, Return
  <2>2. Return(old_memory, mem_index[t], t, process_size[t]) \in Document
    BY <1>0, DocumentTypes
  <2>3. LocalTypes'
    BY <1>8, <1>0, <2>1, <2>2 DEF Old!ParseRelease
  <2>4. QED
    BY <1>8, <1>0, <2>3 DEF Old!ParseRelease
<1>9. CASE Old!Truncate(t)
  BY <1>9, <1>0 DEF Old!Truncate
<1>10. CASE Old!WriteNothing(t)
  BY <1>10, <1>0 DEF Old!WriteNothing
<1>11. CASE Old!Stretch(t)
  BY <1>11, <1>0 DEF Old!Stretch
<1>12. CASE Old!CopyWaiting(t)
  BY <1>12, <1>0 DEF Old!CopyWaiting
<1>13. CASE Old!CopyMemory(t)
  BY <1>13, <1>0, SchemaType DEF Old!CopyMemory, Old!Schema, Schema, Old!Partition, Partition
<1>14. CASE Old!SemWait(t)
  BY <1>14, <1>0 DEF Old!SemWait
<1>15. CASE Old!Strclr(t)
  BY <1>15, <1>0 DEF Old!Strclr, Old!TagOf, Tag, LogEntry
<1>16. CASE Old!Slog(t)
  BY <1>16, <1>0 DEF Old!Slog, Old!TagOf, Tag, LogEntry
<1>17. CASE Old!SemPost(t)
  BY <1>17, <1>0 DEF Old!SemPost
<1>18. CASE Old!Wake(t)
  BY <1>18, <1>0 DEF Old!Wake
<1>19. QED
  BY <1>1, <1>2, <1>3, <1>4, <1>5, <1>6, <1>7, <1>8, <1>9,
     <1>10, <1>11, <1>12, <1>13, <1>14, <1>15, <1>16, <1>17, <1>18 DEF Old!Step

------------------------------------------------------------------------------
(* A step that leaves the workers where they are keeps mutual exclusion.   *)
LEMMA SameSections ==
  ASSUME StageOK, MutualExclusion, UNCHANGED <<section, stage, sem_find_space>>
  PROVE  StageOK' /\ MutualExclusion'
BY DEF StageOK, MutualExclusion, Critical

(* Types of the variables of Lifecycle that Producer does not have.        *)
LifeTypes ==
  /\ life \in 0..MaxLives /\ boot \in {"none", "menu", "segment", "running"}
  /\ segment \in {NoSegment} \cup 0..MaxLives
  /\ quit \in {"none", "pending", "handled"}
  /\ lost \subseteq Thread /\ orphan \subseteq Thread
  /\ killer \in {"idle", "prompt", "signalled", "half"}
  /\ killer_pid \in 0..MaxLives /\ killers \in 0..MaxKillers
  /\ init_linked \in BOOLEAN
  /\ init_file \in File /\ init_stage \in {"idle", "open"} \cup Opened
  /\ init_exit \in {"none", "running", "ok", "failed"}
  /\ OldTypes

(* Types and mutual exclusion, as in Producer, over all the lives.         *)
LifeControl == Control /\ LifeTypes

(* Whatever is started, killed, removed or initialized keeps the types and *)
(* mutual exclusion; the semaphore of a new producer is a new one.         *)
LEMMA LifeControlStep == LifeControl /\ [LNext]_lvars => LifeControl'
<1> SUFFICES ASSUME LifeControl, [LNext]_lvars PROVE LifeControl'
  OBVIOUS
<1>0. Control /\ LifeTypes /\ TypeOK /\ StageOK /\ MutualExclusion
  BY DEF LifeControl, Control
<1> USE DEF old, process, signal, killing, initializing, files, locals, logging
<1>1. CASE StartProducer
  <2>1. Control'
    BY <1>0, <1>1, SameSections, ChosenAssumption DEF StartProducer, TypeOK, Control
  <2>2. LifeTypes'
    BY <1>0, <1>1, MaxLivesAssumption DEF StartProducer, LifeTypes, OldTypes
  <2>3. QED
    BY <2>1, <2>2 DEF LifeControl
<1>2. CASE Reap
  <2>1. TypeOK'
    BY <1>0, <1>2, SchemaType, MaxSizeAssumption
       DEF Reap, TypeOK, Section, Stage, Size, Tag, LogEntry
  <2>2. StageOK' /\ MutualExclusion'
    BY <1>0, <1>2 DEF Reap, TypeOK, StageOK, MutualExclusion, Critical,
                      WaitingSections, MemorySections, LogSections
  <2>3. LifeTypes'
    BY <1>0, <1>2 DEF Reap, LifeTypes, OldTypes, TypeOK
  <2>4. QED
    BY <2>1, <2>2, <2>3 DEF Control, LifeControl
<1>3. CASE GetSegment \/ WritePid \/ StartKiller \/ Kill
  <2>1. Control'
    BY <1>0, <1>3, SameSections
       DEF GetSegment, WritePid, StartKiller, Kill, TypeOK, Control, vars
  <2>2. LifeTypes'
    BY <1>0, <1>3, MaxLivesAssumption, MaxKillersAssumption
       DEF GetSegment, WritePid, StartKiller, Kill, LifeTypes, OldTypes, NoSegment
  <2>3. QED
    BY <2>1, <2>2 DEF LifeControl
<1>4. CASE Create \/ EndProducer
  <2>1. [Next]_vars
    BY <1>4 DEF Create, EndProducer, Next
  <2>2. LifeTypes'
    BY <1>0, <1>4 DEF Create, EndProducer, LifeTypes, OldTypes
  <2>3. QED
    BY <1>0, <2>1, <2>2, ControlStep DEF LifeControl
<1>5. CASE SIGQUIT_handler
  <2>1. Control'
    BY <1>0, <1>5, SameSections DEF SIGQUIT_handler, TypeOK, Control
  <2>2. LifeTypes'
    BY <1>0, <1>5 DEF SIGQUIT_handler, LifeTypes, OldTypes
  <2>3. QED
    BY <2>1, <2>2 DEF LifeControl
<1>6. ASSUME NEW t \in Thread, WorkerStep(t) PROVE LifeControl'
  <2>1. Step(t) /\ [Next]_vars
    BY <1>6 DEF WorkerStep, Next
  <2>2. LifeTypes'
    BY <1>0, <1>6 DEF WorkerStep, LifeTypes, OldTypes
  <2>3. QED
    BY <1>0, <2>1, <2>2, ControlStep DEF LifeControl
<1>7. ASSUME NEW t \in Thread, OrphanStep(t) PROVE LifeControl'
  <2>1. Goes(t) /\ OldTypes'
    BY <1>0, <1>7, OrphanGoes DEF OrphanStep, LifeTypes
  <2>2. Control'
    BY <1>0, <1>7, <2>1, GoesKeepsControl DEF OrphanStep, FileTypes, TypeOK
  <2>3. LifeTypes'
    BY <1>0, <1>7, <2>1 DEF OrphanStep, LifeTypes
  <2>4. QED
    BY <2>2, <2>3 DEF LifeControl
<1>8. CASE Delete
  <2>1. Control'
    BY <1>0, <1>8, SameSections
       DEF Delete, Unlink, TypeOK, Control, File, FileStatus
  <2>2. LifeTypes'
    <3>1. OldTypes' /\ orphan' \subseteq Thread /\ init_linked' \in BOOLEAN
      <4>1. ASSUME NEW f \in File, Unlink(f)
            PROVE  OldTypes' /\ orphan' \subseteq Thread /\ init_linked' \in BOOLEAN
        BY <1>0, <4>1 DEF Unlink, LifeTypes, OldTypes, Users, TypeOK
      <4>2. QED
        BY <1>8, <4>1 DEF Delete, File
    <3>2. QED
      BY <1>0, <1>8, <3>1 DEF Delete, LifeTypes
  <2>3. QED
    BY <2>1, <2>2 DEF LifeControl
<1>9. CASE InitStep
  <2>1. TypeOK'
    BY <1>0, <1>9, SchemaType
       DEF InitStep, InitOpen, InitParse, InitStretch, InitCopy, InitWrites,
           InitUnchanged, TypeOK, LifeTypes, File, FileStatus
  <2>2. Control'
    BY <1>0, <1>9, <2>1, SameSections
       DEF InitStep, InitOpen, InitParse, InitStretch, InitCopy, InitUnchanged,
           Control
  <2>3. LifeTypes'
    <3>1. /\ init_file' \in File /\ init_linked' \in BOOLEAN
          /\ init_stage' \in {"idle", "open"} \cup Opened
          /\ init_exit' \in {"none", "running", "ok", "failed"}
      BY <1>0, <1>9
         DEF InitStep, InitOpen, InitParse, InitStretch, InitCopy, LifeTypes,
             File, Opened
    <3>2. QED
      BY <1>0, <1>9, <3>1
         DEF InitStep, InitOpen, InitParse, InitStretch, InitCopy,
             InitUnchanged, LifeTypes, OldTypes
  <2>4. QED
    BY <2>2, <2>3 DEF LifeControl
<1>10. CASE Rest \/ UNCHANGED lvars
  <2>1. UNCHANGED lvars
    BY <1>10 DEF Rest
  <2>2. Control'
    BY <1>0, <2>1, SameSections DEF lvars, vars, TypeOK, Control
  <2>3. LifeTypes'
    BY <1>0, <2>1 DEF lvars, LifeTypes, OldTypes
  <2>4. QED
    BY <2>2, <2>3 DEF LifeControl
<1>11. QED
  BY <1>1, <1>2, <1>3, <1>4, <1>5, <1>6, <1>7, <1>8, <1>9, <1>10
     DEF LNext, init_memory, init_memory_processes_on_waiting

(* Every variable keeps its type and one worker at a time is in its        *)
(* critical section, in every life.                                        *)
THEOREM LifeControlCorrect == LSpec => []LifeControl
<1>1. LInit => LifeControl
  <2> SUFFICES ASSUME LInit PROVE LifeControl
    OBVIOUS
  <2>1. TypeOK
    <3>1. g_algorithm \in Algorithm /\ 1 \in Size
      BY ChosenAssumption, MaxSizeAssumption DEF LInit, Size
    <3>2. /\ section \in [Thread -> Section] /\ stage \in [Thread -> Stage]
          /\ status \in [File -> FileStatus]
      BY DEF LInit, Section, Stage, FileStatus
    <3>3. /\ alive \in BOOLEAN /\ main \in {"creating", "exiting"}
          /\ g_algorithm \in Algorithm /\ sem_find_space \in {0, 1}
          /\ memory \in Document /\ waiting \in SUBSET Thread
      BY <3>1, SchemaType DEF LInit
    <3>4. /\ process_size \in [Thread -> Size]
          /\ mem_index \in [Thread -> {-1} \cup Partition]
          /\ data \in [Thread -> Document]
          /\ data_waiting \in [Thread -> SUBSET Thread]
      BY <3>1, SchemaType DEF LInit
    <3>5. output \in Tag /\ log \in Seq(LogEntry)
      BY DEF LInit, Tag
    <3>6. QED
      BY <3>2, <3>3, <3>4, <3>5 DEF TypeOK
  <2>2. StageOK /\ MutualExclusion
    BY DEF LInit, StageOK, MutualExclusion, Critical, WaitingSections,
           MemorySections, LogSections
  <2>3. LifeTypes
    BY <2>1, MaxLivesAssumption, MaxKillersAssumption
       DEF LInit, LifeTypes, OldTypes, TypeOK, File
  <2>4. QED
    BY <2>1, <2>2, <2>3 DEF Control, LifeControl
<1>2. QED
  BY <1>1, LifeControlStep, PTL DEF LSpec

(* The types of Lifecycle.                                                 *)
THEOREM LifeTypeCorrect == LSpec => []LTypeOK
<1>1. LifeControl => LTypeOK
  BY DEF LifeControl, Control, LTypeOK, LifeTypes, OldTypes
<1>2. QED
  BY LifeControlCorrect, <1>1, PTL
------------------------------------------------------------------------------
(* No room is counted twice and none is missing below zero.                *)
Sound(doc) == Balanced(doc) /\ \A p \in Partition : doc[p].free_space >= 0

(* The entries of a document are those of the workers in inside, each with *)
(* its size in its partition, and of some of the workers in gone.          *)
Entries(doc, inside, index, size, gone) ==
  \A t \in Thread, p \in Partition :
    IF t \in inside /\ index[t] = p
    THEN doc[p].processes[t] = size[t]
    ELSE doc[p].processes[t] = 0 \/ t \in gone

(* The workers inside.                                                     *)
Insiders == {t \in Thread : Holding(t)}

(* A document agrees with the workers inside.                              *)
Agrees(doc, inside) == Entries(doc, inside, mem_index, process_size, lost)

(* Who is inside once the writer t has copied its text.                    *)
AfterCopy(t) ==
  IF section[t] = "allocate" THEN Insiders \cup {t} ELSE Insiders \ {t}

(* What the writers have computed is right for the workers inside.         *)
Computing ==
  \A t \in Thread :
    /\ Writing(t) => Sound(data[t]) /\ Agrees(data[t], AfterCopy(t))
    /\ Holding(t) \/ Writing(t) => mem_index[t] \in Partition

(* Where the lives of the producers have left the threads.                 *)
Lives ==
  /\ boot = "none" => /\ ~alive /\ orphan = {}
                      /\ \A t \in Thread : section[t] \in {"unborn", "finished"}
  /\ init_stage # "idle" => boot = "none"
  /\ \A t \in lost : section[t] = "finished"
  /\ \A t \in orphan : /\ stage[t] \in Opened
                       /\ section[t] \in MemorySections
                            => status["memory"] = "absent"

(* What a producer may find, and what its workers write, in a memory file  *)
(* with a name or without.                                                 *)
Remains ==
  /\ Sound(memory) /\ Sound(old_memory)
  /\ status["memory"] = "json" => Agrees(memory, Insiders)
  /\ \A t \in orphan :
       (section[t] \in MemorySections /\ stage[t] = "parse"
          /\ old_status["memory"] = "json") => Agrees(old_memory, Insiders)
  /\ Computing

(* A step of worker t on a memory file of status st and document doc that  *)
(* leaves it with status st2 and document doc2 may ...                     *)

(* ... leave the documents as they are,                                    *)
Passes(t, doc, doc2, st, st2) ==
  /\ doc2 = doc /\ UNCHANGED <<mem_index, data>>
  /\ st2 = "json" => st = "json"
  /\ Holding(t)' <=> Holding(t)
  /\ Writing(t)' => Writing(t) /\ section'[t] = section[t]

(* ... end in a call of exit, with no memory file left to return room to,  *)
Quits(t, doc, doc2, st, st2) ==
  /\ doc2 = doc /\ UNCHANGED <<mem_index, data>>
  /\ st2 = "json" => st = "json"
  /\ section[t] \in WaitingSections \cup MemorySections
  /\ section'[t] = "exiting"
  /\ section[t] = "release" => st2 # "json"

(* ... compute the assignment of a partition the algorithm names,          *)
Takes(t, doc, doc2, st) ==
  /\ section[t] = "allocate" /\ stage[t] = "parse" /\ st = "json"
  /\ section'[t] = "allocate" /\ stage'[t] = "truncate" /\ doc2 = doc
  /\ \E p \in Partition :
       /\ Returns(FreeSpaces(doc), process_size[t], g_algorithm, p)
       /\ mem_index' = [mem_index EXCEPT ![t] = p]
       /\ data' = [data EXCEPT ![t] = Assign(doc, p, t, process_size[t])]

(* ... compute the return of its room,                                     *)
Gives(t, doc, doc2, st) ==
  /\ section[t] = "release" /\ stage[t] = "parse" /\ st = "json"
  /\ section'[t] = "release" /\ stage'[t] = "truncate" /\ doc2 = doc
  /\ UNCHANGED mem_index
  /\ data' = [data EXCEPT ![t] = Return(doc, mem_index[t], t, process_size[t])]

(* ... or copy what it has computed to the file.                           *)
Copies(t, doc2) ==
  /\ Writing(t) /\ doc2 = data[t] /\ UNCHANGED mem_index
  /\ \A u \in Thread \ {t} : data'[u] = data[u]
  /\ section'[t] = IF section[t] = "allocate" THEN "asig" ELSE "devo"

(* One of these, and it touches the memory file in its own sections only.  *)
Does(t, doc, doc2, st, st2) ==
  /\ section[t] \notin {"unborn", "finished"}
  /\ section[t] \notin MemorySections => st2 = st
  /\ stage'[t] = "parse" => \/ stage[t] = "open"
                            \/ section'[t] = section[t] /\ stage[t] = "parse"
  /\ \/ Passes(t, doc, doc2, st, st2) \/ Quits(t, doc, doc2, st, st2)
     \/ Takes(t, doc, doc2, st) \/ Gives(t, doc, doc2, st) \/ Copies(t, doc2)

(* A worker does so with the memory file that has the name.                *)
LEMMA WorkerDoes ==
  ASSUME Control, NEW t \in Thread, Step(t)
  PROVE  Does(t, memory, memory', status["memory"], status'["memory"])
<1>0. /\ section \in [Thread -> Section] /\ stage \in [Thread -> Stage]
      /\ stage[t] \in StagesOf(section[t])
      /\ mem_index \in [Thread -> {-1} \cup Partition] /\ data \in [Thread -> Document]
      /\ status \in [File -> FileStatus]
  BY DEF Control, TypeOK, StageOK, StagesOf
<1> USE DEF WaitingSections, MemorySections, LogSections, StagesOf, At, GoTo,
            Advance, Exit, SetStatus, FileOf, files, locals, File, Holding,
            Writing, Does, Passes, Quits
<1>1. CASE OpenToRead(t)
  BY <1>1, <1>0 DEF OpenToRead
<1>2. CASE TouchTruncated(t)
  BY <1>2, <1>0 DEF TouchTruncated
<1>3. CASE ParseNothing(t)
  BY <1>3, <1>0 DEF ParseNothing
<1>4. CASE ParseAnnounce(t)
  BY <1>4, <1>0 DEF ParseAnnounce
<1>5. CASE ParseWithdraw(t)
  BY <1>5, <1>0 DEF ParseWithdraw
<1>6. CASE ParseAllocate(t)
  <2>1. PICK p \in Partition :
          /\ Returns(FreeSpaces(memory), process_size[t], g_algorithm, p)
          /\ mem_index' = [mem_index EXCEPT ![t] = p]
          /\ data' = [data EXCEPT ![t] = Assign(memory, p, t, process_size[t])]
    BY <1>6 DEF ParseAllocate
  <2>2. Takes(t, memory, memory', status["memory"])
    BY <1>6, <1>0, <2>1 DEF ParseAllocate, Takes
  <2>3. QED
    BY <1>6, <1>0, <2>2 DEF ParseAllocate
<1>7. CASE Reject(t)
  BY <1>7, <1>0 DEF Reject
<1>8. CASE ParseRelease(t)
  BY <1>8, <1>0 DEF ParseRelease, Gives
<1>9. CASE Truncate(t)
  BY <1>9, <1>0 DEF Truncate
<1>10. CASE WriteNothing(t)
  BY <1>10, <1>0 DEF WriteNothing
<1>11. CASE Stretch(t)
  BY <1>11, <1>0 DEF Stretch, StretchOutcome
<1>12. CASE CopyWaiting(t)
  BY <1>12, <1>0 DEF CopyWaiting
<1>13. CASE CopyMemory(t)
  BY <1>13, <1>0 DEF CopyMemory, Copies
<1>14. CASE SemWait(t)
  BY <1>14, <1>0 DEF SemWait
<1>15. CASE Strclr(t)
  BY <1>15, <1>0 DEF Strclr
<1>16. CASE Slog(t)
  BY <1>16, <1>0 DEF Slog
<1>17. CASE SemPost(t)
  BY <1>17, <1>0 DEF SemPost
<1>18. CASE Wake(t)
  BY <1>18, <1>0 DEF Wake
<1>19. QED
  BY <1>1, <1>2, <1>3, <1>4, <1>5, <1>6, <1>7, <1>8, <1>9,
     <1>10, <1>11, <1>12, <1>13, <1>14, <1>15, <1>16, <1>17, <1>18 DEF Step

(* The functions of the document are the same whatever file it is in.      *)
LEMMA OldOperators ==
  ASSUME NEW doc, NEW p, NEW t, NEW s, NEW algorithm
  PROVE  /\ Old!Partition = Partition
         /\ Old!Assign(doc, p, t, s) = Assign(doc, p, t, s)
         /\ Old!Return(doc, p, t, s) = Return(doc, p, t, s)
         /\ Old!Returns(Old!FreeSpaces(doc), s, algorithm, p)
              <=> Returns(FreeSpaces(doc), s, algorithm, p)
BY DEF Old!Partition, Partition, Old!Assign, Assign, Old!Return, Return,
       Old!FreeSpaces, FreeSpaces, Old!Returns, Returns, Old!Fitting, Fitting,
       Old!Fits, Fits, Old!Preferred, Preferred, Old!BEST_FIT, BEST_FIT,
       Old!FIRST_FIT, FIRST_FIT, Old!WORST_FIT, WORST_FIT

(* A thread whose file was removed does the same with that file.           *)
LEMMA OrphanDoes ==
  ASSUME Control, OldTypes, NEW t \in Thread, Old!Step(t)
  PROVE  Does(t, old_memory, old_memory', old_status["memory"],
              old_status'["memory"])
<1>0. /\ section \in [Thread -> Section] /\ stage \in [Thread -> Stage]
      /\ stage[t] \in StagesOf(section[t])
      /\ mem_index \in [Thread -> {-1} \cup Partition] /\ data \in [Thread -> Document]
      /\ old_status \in [File -> FileStatus]
  BY DEF Control, TypeOK, StageOK, StagesOf, OldTypes
<1> USE DEF WaitingSections, Old!WaitingSections, MemorySections,
            Old!MemorySections, LogSections, StagesOf, Old!At, Old!GoTo,
            Old!Advance, Old!Exit, Old!SetStatus, Old!FileOf, Old!files,
            Old!locals, File, Holding, Writing, Does, Passes, Quits
<1>1. CASE Old!OpenToRead(t)
  BY <1>1, <1>0 DEF Old!OpenToRead
<1>2. CASE Old!TouchTruncated(t)
  BY <1>2, <1>0 DEF Old!TouchTruncated
<1>3. CASE Old!ParseNothing(t)
  BY <1>3, <1>0 DEF Old!ParseNothing
<1>4. CASE Old!ParseAnnounce(t)
  BY <1>4, <1>0 DEF Old!ParseAnnounce
<1>5. CASE Old!ParseWithdraw(t)
  BY <1>5, <1>0 DEF Old!ParseWithdraw
<1>6. CASE Old!ParseAllocate(t)
  <2>0. PICK p \in Old!Partition :
          /\ Old!Returns(Old!FreeSpaces(old_memory), process_size[t], g_algorithm, p)
          /\ mem_index' = [mem_index EXCEPT ![t] = p]
          /\ data' = [data EXCEPT ![t] = Old!Assign(old_memory, p, t, process_size[t])]
    BY <1>6 DEF Old!ParseAllocate
  <2>1. /\ p \in Partition
        /\ Returns(FreeSpaces(old_memory), process_size[t], g_algorithm, p)
        /\ mem_index' = [mem_index EXCEPT ![t] = p]
        /\ data' = [data EXCEPT ![t] = Assign(old_memory, p, t, process_size[t])]
    BY <2>0, OldOperators
  <2>2. Takes(t, old_memory, old_memory', old_status["memory"])
    BY <1>6, <1>0, <2>1 DEF Old!ParseAllocate, Takes
  <2>3. QED
    BY <1>6, <1>0, <2>2 DEF Old!ParseAllocate
<1>7. CASE Old!Reject(t)
  BY <1>7, <1>0 DEF Old!Reject
<1>8. CASE Old!ParseRelease(t)
  <2>1. data' = [data EXCEPT ![t] =
                   Return(old_memory, mem_index[t], t, process_size[t])]
    BY <1>8 DEF Old!ParseRelease, Old!Return, Return
  <2>2. QED
    BY <1>8, <1>0, <2>1 DEF Old!ParseRelease, Gives
<1>9. CASE Old!Truncate(t)
  BY <1>9, <1>0 DEF Old!Truncate
<1>10. CASE Old!WriteNothing(t)
  BY <1>10, <1>0 DEF Old!WriteNothing
<1>11. CASE Old!Stretch(t)
  BY <1>11, <1>0 DEF Old!Stretch, Old!StretchOutcome
<1>12. CASE Old!CopyWaiting(t)
  BY <1>12, <1>0 DEF Old!CopyWaiting
<1>13. CASE Old!CopyMemory(t)
  BY <1>13, <1>0 DEF Old!CopyMemory, Copies
<1>14. CASE Old!SemWait(t)
  BY <1>14, <1>0 DEF Old!SemWait
<1>15. CASE Old!Strclr(t)
  BY <1>15, <1>0 DEF Old!Strclr
<1>16. CASE Old!Slog(t)
  BY <1>16, <1>0 DEF Old!Slog
<1>17. CASE Old!SemPost(t)
  BY <1>17, <1>0 DEF Old!SemPost
<1>18. CASE Old!Wake(t)
  BY <1>18, <1>0 DEF Old!Wake
<1>19. QED
  BY <1>1, <1>2, <1>3, <1>4, <1>5, <1>6, <1>7, <1>8, <1>9,
     <1>10, <1>11, <1>12, <1>13, <1>14, <1>15, <1>16, <1>17, <1>18 DEF Old!Step
------------------------------------------------------------------------------
(* An assignment that search_index named is sound and adds its worker.     *)
LEMMA TakeAgrees ==
  ASSUME NEW doc \in Document, NEW inside, NEW index, NEW size, NEW gone,
         NEW t \in Thread, t \notin inside, t \notin gone,
         NEW p \in Partition, NEW index2, index2[t] = p,
         \A u \in Thread \ {t} : index2[u] = index[u],
         size[t] \in Size, NEW algorithm,
         Returns(FreeSpaces(doc), size[t], algorithm, p),
         Sound(doc), Entries(doc, inside, index, size, gone)
  PROVE  /\ Sound(Assign(doc, p, t, size[t]))
         /\ Entries(Assign(doc, p, t, size[t]), inside \cup {t}, index2, size, gone)
<1>1. doc[p].processes[t] = 0
  BY DEF Entries
<1>2. Sound(Assign(doc, p, t, size[t]))
  BY <1>1, AssignBalanced, AssignFits DEF Sound
<1>3. ASSUME NEW u \in Thread, NEW q \in Partition
      PROVE  Assign(doc, p, t, size[t])[q].processes[u] =
               IF q = p /\ u = t THEN size[t] ELSE doc[q].processes[u]
  BY Fields
<1>4. QED
  BY <1>2, <1>3 DEF Entries

(* A return is sound and takes away its worker.                            *)
LEMMA GiveAgrees ==
  ASSUME NEW doc \in Document, NEW inside, NEW index, NEW size, NEW gone,
         NEW t \in Thread, t \in inside, index[t] \in Partition,
         size[t] \in Size,
         Sound(doc), Entries(doc, inside, index, size, gone)
  PROVE  /\ Sound(Return(doc, index[t], t, size[t]))
         /\ Entries(Return(doc, index[t], t, size[t]), inside \ {t}, index, size, gone)
<1>1. doc[index[t]].processes[t] = size[t]
  BY DEF Entries
<1>2. Sound(Return(doc, index[t], t, size[t]))
  BY <1>1, ReturnBalanced, ReturnFits DEF Sound
<1>3. ASSUME NEW u \in Thread, NEW q \in Partition
      PROVE  Return(doc, index[t], t, size[t])[q].processes[u] =
               IF q = index[t] /\ u = t THEN 0 ELSE doc[q].processes[u]
  BY Fields
<1>4. QED
  BY <1>2, <1>3 DEF Entries

(* schema.json is sound and has no entries.                                *)
LEMMA SchemaAgrees ==
  ASSUME NEW index, NEW size, NEW gone
  PROVE  Sound(Schema) /\ Entries(Schema, {}, index, size, gone)
<1>1. \A p \in Partition : Schema[p].free_space >= 0
  BY CapacityAssumption DEF Schema, Partition
<1>2. QED
  BY <1>1, SchemaBalanced DEF Sound, Entries, Schema

(* Entries stay right while the workers inside stay where they are.        *)
LEMMA EntriesKept ==
  ASSUME NEW doc, NEW inside, NEW index, NEW size, NEW gone,
         NEW index2, NEW size2, NEW gone2, gone \subseteq gone2,
         \A u \in inside : index2[u] = index[u] /\ size2[u] = size[u],
         Entries(doc, inside, index, size, gone)
  PROVE  Entries(doc, inside, index2, size2, gone2)
BY DEF Entries

(* Nobody inside, and those who were are gone: any entry is right.         *)
LEMMA EntriesGone ==
  ASSUME NEW doc, NEW inside, NEW index, NEW size, NEW gone,
         NEW index2, NEW size2, NEW gone2, gone \cup inside \subseteq gone2,
         Entries(doc, inside, index, size, gone)
  PROVE  Entries(doc, {}, index2, size2, gone2)
BY DEF Entries

(* While worker t is in its critical section no other is.                  *)
LEMMA OthersOutside ==
  ASSUME Control, NEW t \in Thread, section[t] \in CriticalSections
  PROVE  \A u \in Thread \ {t} : /\ section[u] \notin CriticalSections
                                 /\ section[u] \notin MemorySections
                                 /\ ~Writing(u)
BY DEF Control, MutualExclusion, Critical, CriticalSections, Writing

(* The lives stay in order: a thread that is on a removed file is alone    *)
(* with it, and lost threads are not heard of again.                       *)
THEOREM LivesCorrect == LSpec => []Lives
<1>1. LInit => Lives
  BY DEF LInit, Lives, Opened
<1>2. LifeControl /\ Lives /\ [LNext]_lvars => Lives'
  <2> SUFFICES ASSUME LifeControl, Lives, [LNext]_lvars PROVE Lives'
    OBVIOUS
  <2>0. /\ Control /\ OldTypes /\ lost \subseteq Thread /\ orphan \subseteq Thread
        /\ section \in [Thread -> Section] /\ stage \in [Thread -> Stage]
        /\ status \in [File -> FileStatus] /\ init_file \in File
    BY DEF LifeControl, Control, TypeOK, LifeTypes
  <2> USE DEF Lives, old, process, signal, killing, initializing, files, locals,
              logging
  <2>1. CASE StartProducer
    BY <2>1 DEF StartProducer
  <2>2. CASE Reap
    BY <2>2, <2>0 DEF Reap, Holding
  <2>3. CASE GetSegment \/ WritePid \/ StartKiller \/ Kill
    BY <2>3 DEF GetSegment, WritePid, StartKiller, Kill, vars
  <2>4. ASSUME NEW t \in Thread, CreateThread(t),
               UNCHANGED <<old, process, signal, killing, initializing>>
        PROVE  Lives'
    <3>1. t \notin orphan /\ t \notin lost /\ boot # "none"
      BY <2>4, <2>0 DEF CreateThread, Control, StageOK, Opened, WaitingSections,
                        MemorySections, LogSections
    <3>2. QED
      BY <2>4, <2>0, <3>1 DEF CreateThread, GoTo
  <2>5. CASE CreateFails /\ UNCHANGED <<old, process, signal, killing, initializing>>
    BY <2>5 DEF CreateFails
  <2>6. CASE SIGQUIT_handler
    BY <2>6 DEF SIGQUIT_handler
  <2>7. CASE EndProducer
    BY <2>7 DEF EndProducer, Die
  <2>8. ASSUME NEW t \in Thread, WorkerStep(t) PROVE Lives'
    <3>1. /\ Goes(t) /\ t \notin orphan
          /\ Does(t, memory, memory', status["memory"], status'["memory"])
          /\ UNCHANGED <<old, process, signal, killing, initializing>>
      BY <2>8, <2>0, StepGoes, WorkerDoes DEF WorkerStep
    <3>2. alive /\ boot # "none" /\ t \notin lost
      BY <3>1 DEF Goes, Does
    <3>3. \A u \in Thread \ {t} : section'[u] = section[u] /\ stage'[u] = stage[u]
      BY <3>1 DEF Goes, Moves
    <3>4. ASSUME NEW u \in orphan, section[u] \in MemorySections
          PROVE  status'["memory"] = "absent"
      <4>1. section[t] \notin MemorySections
        BY <2>0, <3>1, <3>4, OthersOutside DEF CriticalSections
      <4>2. QED
        BY <3>1, <3>4, <4>1 DEF Does
    <3>5. QED
      BY <2>0, <3>1, <3>2, <3>3, <3>4
  <2>9. ASSUME NEW t \in Thread, OrphanStep(t) PROVE Lives'
    <3>1. /\ Goes(t) /\ section[t] \notin {"unborn", "finished"}
          /\ UNCHANGED <<status, process, signal, killing, initializing>>
          /\ orphan' = IF stage'[t] \in Opened /\ section'[t] = section[t]
                       THEN orphan ELSE orphan \ {t}
      BY <2>9, <2>0, OrphanGoes, OrphanDoes DEF OrphanStep, Does
    <3>2. boot # "none" /\ t \notin lost
      BY <3>1 DEF Goes
    <3>3. \A u \in Thread \ {t} : section'[u] = section[u] /\ stage'[u] = stage[u]
      BY <3>1 DEF Goes, Moves
    <3>4. QED
      BY <2>0, <3>1, <3>2, <3>3
  <2>10. ASSUME NEW f \in File, Unlink(f),
                UNCHANGED <<alive, section, stage, process, init_stage>>
         PROVE  Lives'
    <3>1. orphan' \subseteq orphan \cup Users(f)
      BY <2>10 DEF Unlink
    <3>2. \A t \in Users(f) : /\ t \in Thread /\ stage[t] \in Opened
                              /\ section[t] \in MemorySections <=> f = "memory"
                              /\ section[t] \in WaitingSections <=> f = "waiting"
      BY <2>0 DEF Users, FileOf, MemorySections, WaitingSections, Control, StageOK,
                  Opened, File
    <3>3. status'["memory"] = IF f = "memory" THEN "absent" ELSE status["memory"]
      BY <2>10, <2>0 DEF Unlink, File
    <3>4. boot = "none" => Users(f) = {}
      BY <3>2 DEF MemorySections, WaitingSections, File
    <3>5. QED
      BY <2>10, <3>1, <3>2, <3>3, <3>4 DEF File
  <2>11. CASE InitStep
    BY <2>11 DEF InitStep, InitOpen, InitParse, InitStretch, InitCopy, InitUnchanged
  <2>12. CASE Rest \/ UNCHANGED lvars
    BY <2>12 DEF Rest, lvars, vars
  <2>13. CASE Delete
    BY <2>10, <2>13 DEF Delete, File
  <2>14. QED
    BY <2>1, <2>2, <2>3, <2>4, <2>5, <2>6, <2>7, <2>8, <2>9, <2>11, <2>12, <2>13
       DEF LNext, Create, init_memory, init_memory_processes_on_waiting
<1>3. QED
  BY LifeControlCorrect, <1>1, <1>2, PTL DEF LSpec

(* A step outside the sections of the memory file moves nobody into or out *)
(* of a partition.                                                         *)
LEMMA DoesAside ==
  ASSUME NEW t \in Thread, NEW doc, NEW doc2, NEW st, NEW st2,
         Goes(t), Does(t, doc, doc2, st, st2), section[t] \notin MemorySections
  PROVE  /\ Insiders' = Insiders /\ UNCHANGED <<mem_index, process_size>>
         /\ doc2 = doc /\ st2 = st
<1>1. \/ Passes(t, doc, doc2, st, st2) \/ Quits(t, doc, doc2, st, st2)
  BY DEF Does, Takes, Gives, Copies, Writing, MemorySections
<1>2. \A u \in Thread \ {t} : section'[u] = section[u]
  BY DEF Goes, Moves
<1>3. \A u \in Thread : Holding(u)' <=> Holding(u)
  BY <1>1, <1>2 DEF Passes, Quits, Holding, WaitingSections, MemorySections
<1>4. QED
  BY <1>1, <1>3 DEF Goes, Does, Insiders, Passes, Quits

(* What worker t computes and copies is right, if what it has read is.     *)
LEMMA DoesKeeps ==
  ASSUME Control, NEW t \in Thread, t \notin lost, UNCHANGED lost,
         NEW doc \in Document, NEW doc2, NEW st, NEW st2,
         Goes(t), Does(t, doc, doc2, st, st2), Sound(doc), Computing,
         section[t] \in MemorySections /\ stage[t] = "parse" /\ st = "json"
           => Agrees(doc, Insiders)
  PROVE  /\ Sound(doc2) /\ Computing'
         /\ (st = "json" => Agrees(doc, Insiders))
            => (st2 = "json"
                  => Entries(doc2, Insiders', mem_index', process_size', lost'))
<1>0. /\ UNCHANGED process_size /\ process_size \in [Thread -> Size]
      /\ mem_index \in [Thread -> {-1} \cup Partition]
      /\ data \in [Thread -> Document]
      /\ section \in [Thread -> Section] /\ stage \in [Thread -> Stage]
      /\ \A u \in Thread \ {t} : section'[u] = section[u] /\ stage'[u] = stage[u]
  BY DEF Goes, Moves, Control, TypeOK
<1>1. \A u \in Thread \ {t} : /\ Holding(u)' <=> Holding(u)
                              /\ Writing(u)' <=> Writing(u)
  BY <1>0 DEF Holding, Writing
<1>2. section[t] \in MemorySections => \A u \in Thread \ {t} : ~Writing(u)
  BY OthersOutside DEF CriticalSections
\* Nobody moves into or out of a partition and nothing is computed.
<1>3. ASSUME doc2 = doc, UNCHANGED <<mem_index, data>>, st2 = "json" => st = "json",
             Insiders' = Insiders,
             Writing(t)' => Writing(t) /\ section'[t] = section[t]
      PROVE  /\ Computing'
             /\ (st = "json" => Agrees(doc, Insiders))
                => (st2 = "json"
                      => Entries(doc2, Insiders', mem_index', process_size', lost'))
  <2>1. \A u \in Thread : Writing(u)' => Writing(u) /\ AfterCopy(u)' = AfterCopy(u)
    BY <1>0, <1>1, <1>3 DEF AfterCopy
  <2>2. \A u \in Thread : Holding(u)' => Holding(u)
    BY <1>3 DEF Insiders
  <2>3. Computing'
    BY <1>0, <1>3, <2>1, <2>2 DEF Computing, Agrees
  <2>4. QED
    BY <1>0, <1>3, <2>3 DEF Agrees
<1>4. CASE Passes(t, doc, doc2, st, st2)
  <2>1. Insiders' = Insiders
    BY <1>1, <1>4 DEF Passes, Insiders
  <2>2. QED
    BY <1>3, <1>4, <2>1 DEF Passes
<1>5. CASE Quits(t, doc, doc2, st, st2)
  <2>1. ~Writing(t)' /\ ~Holding(t)'
    BY <1>5 DEF Quits, Writing, Holding, MemorySections
  <2>2. CASE section[t] = "release"
    <3>1. Computing'
      BY <1>0, <1>1, <1>2, <1>5, <2>1, <2>2 DEF Computing, Quits, MemorySections
    <3>2. QED
      BY <1>5, <2>2, <3>1 DEF Quits
  <2>3. CASE section[t] # "release"
    <3>1. ~Holding(t)
      BY <1>5, <2>3 DEF Quits, Holding, WaitingSections, MemorySections
    <3>2. Insiders' = Insiders
      BY <1>1, <2>1, <3>1 DEF Insiders
    <3>3. QED
      BY <1>3, <1>5, <2>1, <3>2 DEF Quits
  <2>4. QED
    BY <2>2, <2>3
<1>6. CASE Takes(t, doc, doc2, st)
  <2>1. PICK p \in Partition :
          /\ Returns(FreeSpaces(doc), process_size[t], g_algorithm, p)
          /\ mem_index' = [mem_index EXCEPT ![t] = p]
          /\ data' = [data EXCEPT ![t] = Assign(doc, p, t, process_size[t])]
    BY <1>6 DEF Takes
  <2>2. /\ section[t] \in MemorySections /\ Agrees(doc, Insiders) /\ doc2 = doc
        /\ ~Holding(t) /\ ~Holding(t)'
        /\ section'[t] = "allocate" /\ stage'[t] = "truncate"
    BY <1>6 DEF Takes, Holding, MemorySections
  <2>3. Insiders' = Insiders /\ t \notin Insiders
    BY <1>1, <2>2 DEF Insiders
  <2>4. /\ mem_index'[t] = p
        /\ \A u \in Thread \ {t} : mem_index'[u] = mem_index[u]
        /\ data'[t] = Assign(doc, p, t, process_size[t])
    BY <1>0, <2>1
  <2>5. /\ Sound(data'[t])
        /\ Entries(data'[t], Insiders \cup {t}, mem_index', process_size, lost)
    <3>1. process_size[t] \in Size /\ Entries(doc, Insiders, mem_index, process_size, lost)
      BY <1>0, <2>2 DEF Agrees
    <3>2. /\ Sound(Assign(doc, p, t, process_size[t]))
          /\ Entries(Assign(doc, p, t, process_size[t]), Insiders \cup {t}, mem_index',
                     process_size, lost)
      BY <2>1, <2>3, <2>4, <3>1, TakeAgrees
    <3>3. QED
      BY <2>4, <3>2
  <2>6. AfterCopy(t)' = Insiders \cup {t}
    BY <2>2, <2>3 DEF AfterCopy
  <2>7. Computing'
    <3>1. \A u \in Thread \ {t} : ~Writing(u)' /\ (Holding(u)' => mem_index'[u] \in Partition)
      BY <1>1, <1>2, <2>2, <2>4 DEF Computing
    <3>2. Sound(data[t])' /\ Agrees(data[t], AfterCopy(t))' /\ mem_index'[t] \in Partition
      BY <1>0, <2>4, <2>5, <2>6 DEF Agrees
    <3>3. QED
      BY <3>1, <3>2 DEF Computing
  <2>8. Entries(doc, Insiders, mem_index', process_size', lost')
    <3>1. \A u \in Insiders : mem_index'[u] = mem_index[u]
      BY <2>3, <2>4 DEF Insiders
    <3>2. QED
      BY <1>0, <2>2, <3>1, EntriesKept DEF Agrees
  <2>9. QED
    BY <2>2, <2>3, <2>7, <2>8
<1>7. CASE Gives(t, doc, doc2, st)
  <2>1. /\ section[t] \in MemorySections /\ Agrees(doc, Insiders) /\ doc2 = doc
        /\ Holding(t) /\ Holding(t)' /\ UNCHANGED mem_index
        /\ section'[t] = "release" /\ stage'[t] = "truncate"
        /\ data'[t] = Return(doc, mem_index[t], t, process_size[t])
    BY <1>0, <1>7 DEF Gives, Holding, MemorySections
  <2>2. Insiders' = Insiders /\ t \in Insiders /\ mem_index[t] \in Partition
    BY <1>1, <2>1 DEF Insiders, Computing
  <2>3. /\ Sound(data'[t])
        /\ Entries(data'[t], Insiders \ {t}, mem_index, process_size, lost)
    <3>1. process_size[t] \in Size /\ Entries(doc, Insiders, mem_index, process_size, lost)
      BY <1>0, <2>1 DEF Agrees
    <3>2. QED
      BY <2>1, <2>2, <3>1, GiveAgrees
  <2>4. AfterCopy(t)' = Insiders \ {t}
    BY <2>1, <2>2 DEF AfterCopy
  <2>5. Computing'
    <3>1. \A u \in Thread \ {t} : ~Writing(u)' /\ (Holding(u)' => mem_index'[u] \in Partition)
      BY <1>1, <1>2, <2>1 DEF Computing
    <3>2. Sound(data[t])' /\ Agrees(data[t], AfterCopy(t))' /\ mem_index'[t] \in Partition
      BY <1>0, <2>1, <2>2, <2>3, <2>4 DEF Agrees
    <3>3. QED
      BY <3>1, <3>2 DEF Computing
  <2>6. QED
    BY <1>0, <2>1, <2>2, <2>5 DEF Agrees
<1>8. CASE Copies(t, doc2)
  <2>1. /\ section[t] \in MemorySections /\ Writing(t) /\ UNCHANGED mem_index
        /\ doc2 = data[t] /\ ~Writing(t)'
        /\ Holding(t)' <=> section[t] = "allocate"
    BY <1>8 DEF Copies, Writing, Holding, MemorySections
  <2>2. Insiders' = AfterCopy(t)
    BY <1>1, <2>1 DEF Insiders, AfterCopy
  <2>3. Sound(doc2) /\ Agrees(doc2, AfterCopy(t)) /\ mem_index[t] \in Partition
    BY <2>1 DEF Computing
  <2>4. Computing'
    BY <1>1, <1>2, <2>1, <2>3 DEF Computing
  <2>5. QED
    BY <1>0, <2>1, <2>2, <2>3, <2>4 DEF Agrees
<1>9. Sound(doc2)
  BY <1>4, <1>5, <1>6, <1>7, <1>8 DEF Does, Passes, Quits, Takes, Gives
<1>10. QED
  BY <1>4, <1>5, <1>6, <1>7, <1>8, <1>9 DEF Does

(* What a producer finds and what its workers write is right, whatever was *)
(* killed, removed, created again or initialized before.                   *)
THEOREM RemainsCorrect == LSpec => []Remains
<1>1. LInit => Remains
  <2> SUFFICES ASSUME LInit PROVE Remains
    OBVIOUS
  <2>1. \A t \in Thread : ~Holding(t) /\ ~Writing(t)
    BY DEF LInit, Holding, Writing, MemorySections
  <2>2. memory = Schema /\ old_memory = Schema /\ status["memory"] = "absent"
        /\ orphan = {}
    BY DEF LInit, File
  <2>3. QED
    BY <2>1, <2>2, SchemaAgrees DEF Remains, Computing
<1>2. LifeControl /\ Lives /\ Remains /\ [LNext]_lvars => Remains'
  <2> SUFFICES ASSUME LifeControl, Lives, Remains, [LNext]_lvars
               PROVE  Remains'
    OBVIOUS
  <2>0. /\ Control /\ OldTypes /\ lost \subseteq Thread /\ orphan \subseteq Thread
        /\ section \in [Thread -> Section] /\ stage \in [Thread -> Stage]
        /\ status \in [File -> FileStatus] /\ init_file \in File
        /\ process_size \in [Thread -> Size] /\ memory \in Document
        /\ mem_index \in [Thread -> {-1} \cup Partition]
        /\ data \in [Thread -> Document] /\ old_memory \in Document
        /\ old_status \in [File -> FileStatus]
    BY DEF LifeControl, Control, TypeOK, LifeTypes, OldTypes
  <2> USE DEF old, process, signal, killing, initializing, files, locals, logging
  \* Nothing Remains is about has changed, or only the algorithm and alive.
  <2>1. ASSUME UNCHANGED <<status, memory, old_memory, old_status, orphan, section,
                           stage, process_size, mem_index, data, lost>>
        PROVE  Remains'
    BY <2>1 DEF Remains, Computing, Agrees, Insiders, AfterCopy, Holding, Writing
  <2>2. CASE StartProducer
    BY <2>1, <2>2 DEF StartProducer
  <2>3. CASE Reap
    <3>1. \A t \in Thread : ~Holding(t)' /\ ~Writing(t)'
      BY <2>3, <2>0 DEF Reap, Holding, Writing, MemorySections
    <3>2. /\ Insiders' = {} /\ lost' = lost \cup Insiders /\ orphan' = {}
          /\ UNCHANGED <<memory, status>> /\ old_memory' = memory
      BY <2>3, <3>1 DEF Reap, Insiders
    <3>3. status["memory"] = "json" => Agrees(memory, Insiders)'
      <4>1. ASSUME status["memory"] = "json"
            PROVE  Entries(memory, {}, mem_index', process_size', lost')
        BY <3>2, <4>1, EntriesGone DEF Remains, Agrees
      <4>2. QED
        BY <3>2, <4>1 DEF Agrees
    <3>4. QED
      BY <3>1, <3>2, <3>3 DEF Remains, Computing
  <2>4. CASE GetSegment \/ WritePid \/ StartKiller \/ Kill
    BY <2>1, <2>4 DEF GetSegment, WritePid, StartKiller, Kill, vars
  <2>5. ASSUME NEW t \in Thread, CreateThread(t),
               UNCHANGED <<old, process, signal, killing, initializing>>
        PROVE  Remains'
    <3>1. /\ UNCHANGED <<status, memory, old_memory, old_status, orphan, mem_index,
                         data, lost>>
          /\ section[t] = "unborn" /\ section'[t] = "announce"
          /\ \A u \in Thread \ {t} : /\ section'[u] = section[u]
                                     /\ stage'[u] = stage[u]
                                     /\ process_size'[u] = process_size[u]
      BY <2>5, <2>0 DEF CreateThread, GoTo
    <3>2. \A u \in Thread : /\ Holding(u)' <=> Holding(u)
                            /\ Writing(u)' <=> Writing(u)
                            /\ Writing(u) => section'[u] = section[u]
      BY <3>1 DEF Holding, Writing, MemorySections
    <3>3. Insiders' = Insiders /\ t \notin Insiders
          /\ \A u \in Thread : Writing(u) => AfterCopy(u)' = AfterCopy(u)
                                             /\ t \notin AfterCopy(u)
      BY <3>1, <3>2 DEF Insiders, AfterCopy, Holding, Writing, MemorySections
    <3>4. \A doc, inside :
            inside \subseteq Thread \ {t} /\ Agrees(doc, inside)
              => Entries(doc, inside, mem_index', process_size', lost')
      BY <3>1 DEF Agrees, Entries
    <3>5. Agrees(memory, Insiders) => Agrees(memory, Insiders)'
      BY <3>1, <3>3, <3>4 DEF Agrees, Insiders
    <3>6. ASSUME NEW u \in orphan, section'[u] \in MemorySections
          PROVE  Agrees(old_memory, Insiders) => Agrees(old_memory, Insiders)'
      BY <3>1, <3>3, <3>4 DEF Agrees, Insiders
    <3>7. Computing'
      <4>1. ASSUME NEW u \in Thread, Writing(u)'
            PROVE  Sound(data[u])' /\ Agrees(data[u], AfterCopy(u))'
        <5>1. Writing(u) /\ AfterCopy(u)' = AfterCopy(u) /\ t \notin AfterCopy(u)
              /\ AfterCopy(u) \subseteq Thread /\ UNCHANGED data
          BY <3>1, <3>2, <3>3, <4>1 DEF AfterCopy, Insiders
        <5>2. Entries(data[u], AfterCopy(u), mem_index', process_size', lost')
          BY <3>4, <5>1 DEF Remains, Computing
        <5>3. QED
          BY <5>1, <5>2 DEF Remains, Computing, Agrees
      <4>2. QED
        BY <3>1, <3>2, <4>1 DEF Remains, Computing
    <3>8. QED
      BY <2>0, <3>1, <3>5, <3>6, <3>7 DEF Remains, MemorySections
  <2>6. CASE CreateFails /\ UNCHANGED <<old, process, signal, killing, initializing>>
    BY <2>1, <2>6 DEF CreateFails
  <2>7. CASE SIGQUIT_handler
    BY <2>1, <2>7 DEF SIGQUIT_handler
  <2>8. CASE EndProducer
    BY <2>1, <2>8 DEF EndProducer, Die
  <2>9. ASSUME NEW t \in Thread, WorkerStep(t) PROVE Remains'
    <3>1. /\ Goes(t) /\ t \notin orphan /\ UNCHANGED <<old, lost>>
          /\ Does(t, memory, memory', status["memory"], status'["memory"])
      BY <2>9, <2>0, StepGoes, WorkerDoes DEF WorkerStep
    <3>2. /\ Sound(memory') /\ Computing'
          /\ status'["memory"] = "json" => Agrees(memory, Insiders)'
      <4>1. /\ Sound(memory) /\ Computing /\ t \notin lost
            /\ status["memory"] = "json" => Agrees(memory, Insiders)
        BY <3>1 DEF Remains, Lives, Does
      <4>2. /\ Sound(memory') /\ Computing'
            /\ status'["memory"] = "json"
                 => Entries(memory', Insiders', mem_index', process_size', lost')
        BY <2>0, <3>1, <4>1, DoesKeeps
      <4>3. QED
        BY <4>2 DEF Agrees
    <3>3. ASSUME NEW u \in orphan', section'[u] \in MemorySections,
                 stage'[u] = "parse", old_status'["memory"] = "json"
          PROVE  Agrees(old_memory, Insiders)'
      <4>1. u \in orphan /\ u # t /\ u \in Thread
        BY <2>0, <3>1, <3>3
      <4>2. section[u] \in MemorySections /\ stage[u] = "parse"
        BY <3>1, <3>3, <4>1 DEF Goes, Moves
      <4>3. Agrees(old_memory, Insiders)
        BY <3>1, <3>3, <4>1, <4>2 DEF Remains
      <4>4. section[t] \notin MemorySections
        BY <2>0, <4>1, <4>2, OthersOutside DEF CriticalSections
      <4>5. Insiders' = Insiders /\ UNCHANGED <<mem_index, process_size>>
        BY <2>0, <3>1, <4>4, DoesAside
      <4>6. QED
        BY <3>1, <4>3, <4>5 DEF Agrees
    <3>4. QED
      BY <3>1, <3>2, <3>3 DEF Remains
  <2>10. ASSUME NEW t \in Thread, OrphanStep(t) PROVE Remains'
    <3>1. /\ Goes(t) /\ t \in orphan
          /\ Does(t, old_memory, old_memory', old_status["memory"],
                  old_status'["memory"])
          /\ UNCHANGED <<memory, status, lost>>
          /\ orphan' = IF stage'[t] \in Opened /\ section'[t] = section[t]
                       THEN orphan ELSE orphan \ {t}
      BY <2>10, <2>0, OrphanGoes, OrphanDoes DEF OrphanStep
    <3>2. /\ Sound(old_memory) /\ Computing /\ t \notin lost
      BY <3>1 DEF Remains, Lives, Does
    <3>3. /\ Sound(old_memory') /\ Computing'
          /\ (old_status["memory"] = "json" => Agrees(old_memory, Insiders))
             => (old_status'["memory"] = "json"
                   => Entries(old_memory', Insiders', mem_index', process_size', lost'))
      <4>1. section[t] \in MemorySections /\ stage[t] = "parse"
              /\ old_status["memory"] = "json" => Agrees(old_memory, Insiders)
        BY <3>1 DEF Remains
      <4>2. QED
        BY <2>0, <3>1, <3>2, <4>1, DoesKeeps
    <3>4. status'["memory"] = "json" => Agrees(memory, Insiders)'
      <4>1. SUFFICES ASSUME status["memory"] = "json"
                     PROVE  Agrees(memory, Insiders)'
        BY <3>1
      <4>2. section[t] \notin MemorySections /\ stage[t] \in Opened
        BY <3>1, <4>1 DEF Lives
      <4>3. Insiders' = Insiders /\ UNCHANGED <<mem_index, process_size>>
        BY <2>0, <3>1, <4>2, DoesAside
      <4>4. QED
        BY <3>1, <4>1, <4>3 DEF Remains, Agrees
    <3>5. ASSUME NEW u \in orphan', section'[u] \in MemorySections,
                 stage'[u] = "parse", old_status'["memory"] = "json"
          PROVE  Agrees(old_memory, Insiders)'
      <4>1. u \in orphan /\ u \in Thread
        BY <2>0, <3>1, <3>5
      <4>2. CASE u = t
        <5>1. section[t] \in MemorySections /\ stage[t] = "parse"
          BY <3>1, <3>5, <4>2 DEF Does, Lives, Opened
        <5>2. old_status["memory"] = "json" => Agrees(old_memory, Insiders)
          BY <3>1, <5>1 DEF Remains
        <5>3. QED
          BY <3>3, <3>5, <5>2 DEF Agrees
      <4>3. CASE u # t
        <5>1. section[u] \in MemorySections /\ stage[u] = "parse"
          BY <3>1, <3>5, <4>1, <4>3 DEF Goes, Moves
        <5>2. section[t] \notin CriticalSections /\ section[t] \notin MemorySections
          BY <2>0, <4>1, <4>3, <5>1, OthersOutside DEF CriticalSections
        <5>3. /\ Insiders' = Insiders /\ UNCHANGED <<mem_index, process_size>>
              /\ old_memory' = old_memory /\ old_status'["memory"] = old_status["memory"]
          BY <2>0, <3>1, <5>2, DoesAside
        <5>4. Agrees(old_memory, Insiders)
          BY <3>5, <4>1, <5>1, <5>3 DEF Remains
        <5>5. QED
          BY <3>1, <5>3, <5>4 DEF Agrees
      <4>4. QED
        BY <4>2, <4>3
    <3>6. QED
      BY <3>1, <3>3, <3>4, <3>5 DEF Remains
  <2>11. ASSUME NEW f \in File, Unlink(f),
                UNCHANGED <<memory, section, stage, process_size, mem_index, data,
                            lost>>
         PROVE  Remains'
    <3>1. /\ Insiders' = Insiders /\ Computing'
          /\ Agrees(memory, Insiders)' <=> Agrees(memory, Insiders)
      BY <2>11 DEF Remains, Computing, Agrees, Insiders, AfterCopy, Holding, Writing
    <3>2. status'["memory"] = "json" => status["memory"] = "json"
      BY <2>11, <2>0 DEF Unlink, File
    <3>3. Sound(old_memory')
      BY <2>11 DEF Unlink, Remains, old
    <3>4. ASSUME NEW t \in orphan', section'[t] \in MemorySections,
                 stage'[t] = "parse", old_status'["memory"] = "json"
          PROVE  Agrees(old_memory, Insiders)'
      <4>1. section[t] \in MemorySections /\ stage[t] = "parse"
        BY <2>11, <3>4
      <4>2. CASE f = "memory" /\ status[f] # "absent"
        <5>1. t \in Thread /\ Users(f) \cap orphan = {}
          BY <2>0, <2>11, <3>4 DEF Unlink, Users
        <5>2. t \in Users(f)
          BY <4>1, <4>2, <5>1 DEF Users, FileOf, Opened, MemorySections, WaitingSections
        <5>3. old_memory' = memory /\ status["memory"] = "json"
          BY <2>0, <2>11, <3>4, <4>2 DEF Unlink
        <5>4. QED
          BY <2>11, <3>1, <5>3 DEF Remains, Agrees
      <4>3. CASE f = "waiting" \/ status[f] = "absent"
        <5>1. old_memory' = old_memory /\ old_status["memory"] = "json"
          BY <2>0, <2>11, <3>4, <4>3 DEF Unlink, File
        <5>2. t \in orphan
          BY <2>0, <2>11, <3>4, <4>1, <4>3
             DEF Unlink, Users, FileOf, File, MemorySections, WaitingSections
        <5>3. Agrees(old_memory, Insiders)
          BY <4>1, <5>1, <5>2 DEF Remains
        <5>4. QED
          BY <2>11, <3>1, <5>1, <5>3 DEF Agrees
      <4>4. QED
        BY <4>2, <4>3 DEF File
    <3>5. QED
      BY <2>11, <3>1, <3>2, <3>3, <3>4 DEF Remains
  <2>12. CASE Delete
    BY <2>11, <2>12 DEF Delete, File
  <2>13. CASE InitStep
    <3>1. orphan = {} /\ orphan' = {} /\ UNCHANGED <<section, stage, mem_index, data,
             process_size, lost, old_memory, old_status>>
          /\ \A t \in Thread : ~Holding(t) /\ ~Writing(t)
      BY <2>13 DEF InitStep, InitOpen, InitParse, InitStretch, InitCopy,
                   InitUnchanged, Lives, Holding, Writing, MemorySections
    <3>2. \A t \in Thread : ~Holding(t)' /\ ~Writing(t)'
      BY <3>1 DEF Holding, Writing
    <3>3. Insiders = {} /\ Insiders' = {}
      BY <3>1, <3>2 DEF Insiders
    <3>4. \/ memory' = Schema
          \/ memory' = memory /\ (status'["memory"] = "json" => status["memory"] = "json")
      BY <2>13, <2>0 DEF InitStep, InitOpen, InitParse, InitStretch, InitCopy,
                         InitWrites, File
    <3>5. Entries(Schema, {}, mem_index, process_size, lost) /\ Sound(Schema)
      BY SchemaAgrees
    <3>6. QED
      BY <3>1, <3>2, <3>3, <3>4, <3>5 DEF Remains, Computing, Agrees
  <2>14. CASE Rest \/ UNCHANGED lvars
    BY <2>1, <2>14 DEF Rest, lvars, vars
  <2>15. QED
    BY <2>2, <2>3, <2>4, <2>5, <2>6, <2>7, <2>8, <2>9, <2>10, <2>12, <2>13, <2>14
       DEF LNext, Create, init_memory, init_memory_processes_on_waiting
<1>3. QED
  BY LifeControlCorrect, LivesCorrect, <1>1, <1>2, PTL DEF LSpec

(* A memory file with a text has the entries of the workers that are       *)
(* inside, over all the lives of the producers.                            *)
THEOREM EntriesAlwaysSurvive == LSpec => []EntriesSurvive
<1>1. Remains => EntriesSurvive
  BY DEF Remains, Agrees, Entries, Insiders, EntriesSurvive
<1>2. QED
  BY RemainsCorrect, <1>1, PTL

(* Free space and entries add up in the memory file, over all the lives.   *)
THEOREM AlwaysBalanced == LSpec => []BalancedOverRestarts
<1>1. Remains => BalancedOverRestarts
  BY DEF Remains, Sound, BalancedOverRestarts
<1>2. QED
  BY RemainsCorrect, <1>1, PTL
------------------------------------------------------------------------------
(* The initializer between its start and its end, while nobody disturbs it:*)
(* no producer is alive, and what it has written is there.                 *)
Readying ==
  /\ init_exit \in {"running", "ok"} => boot = "none"
  /\ init_exit = "running" =>
       /\ init_stage # "idle" /\ init_linked
       /\ init_file = "waiting" \/ init_stage = "open"
            => status["memory"] = "json" /\ memory = Schema
  /\ init_exit = "ok" => init_stage = "idle"
  /\ InitializerReady

(* An initializer that returns 0 has left both files ready: no producer is *)
(* alive to write them, and a killer that takes one away is noted.         *)
THEOREM InitializerAlwaysReady == LSpec => []InitializerReady
<1>1. LInit => Readying
  BY DEF LInit, Readying, InitializerReady
<1>2. LifeControl /\ Lives /\ Readying /\ [LNext]_lvars => Readying'
  <2> SUFFICES ASSUME LifeControl, Lives, Readying, [LNext]_lvars
               PROVE  Readying'
    OBVIOUS
  <2>0. status \in [File -> FileStatus] /\ init_file \in File
    BY DEF LifeControl, Control, TypeOK, LifeTypes
  <2> USE DEF Readying, InitializerReady, old, process, signal, killing,
              initializing, files, locals, logging
  <2>1. CASE StartProducer
    BY <2>1 DEF StartProducer
  <2>2. CASE Reap
    BY <2>2 DEF Reap
  <2>3. CASE GetSegment \/ WritePid \/ StartKiller \/ Kill
    BY <2>3 DEF GetSegment, WritePid, StartKiller, Kill, vars
  <2>4. CASE Create \/ SIGQUIT_handler \/ EndProducer
    BY <2>4 DEF Create, CreateThread, CreateFails, SIGQUIT_handler, EndProducer, Die
  <2>5. ASSUME NEW t \in Thread, WorkerStep(t) \/ OrphanStep(t) PROVE Readying'
    <3>1. Goes(t) /\ UNCHANGED <<process, initializing>>
      BY <2>5, StepGoes, OrphanGoes DEF WorkerStep, OrphanStep, LifeControl, LifeTypes
    <3>2. init_exit \notin {"running", "ok"}
      BY <3>1 DEF Goes, Lives
    <3>3. QED
      BY <3>1, <3>2
  <2>6. CASE Delete
    BY <2>6 DEF Delete
  <2>7. CASE InitOpen
    <3>1. CASE init_stage = "idle"
      BY <2>7, <3>1 DEF InitOpen, InitUnchanged
    <3>2. CASE init_stage = "open"
      <4>1. init_file' = "waiting" /\ status'["memory"] = status["memory"]
        BY <2>7, <2>0, <3>2 DEF InitOpen, File
      <4>2. QED
        BY <2>7, <3>2, <4>1 DEF InitOpen, InitUnchanged
    <3>3. QED
      BY <2>7, <3>1, <3>2 DEF InitOpen
  <2>8. CASE InitParse
    BY <2>8, <2>0 DEF InitParse, InitUnchanged, File
  <2>9. CASE InitStretch
    BY <2>9, <2>0 DEF InitStretch, InitWrites, InitUnchanged, File
  <2>10. CASE InitCopy
    BY <2>10, <2>0 DEF InitCopy, InitWrites, InitUnchanged, File
  <2>11. CASE Rest \/ UNCHANGED lvars
    BY <2>11 DEF Rest, lvars, vars
  <2>12. QED
    BY <2>1, <2>2, <2>3, <2>4, <2>5, <2>6, <2>7, <2>8, <2>9, <2>10, <2>11
       DEF LNext, InitStep, init_memory, init_memory_processes_on_waiting
<1>3. Readying => InitializerReady
  BY DEF Readying
<1>4. QED
  BY LifeControlCorrect, LivesCorrect, <1>1, <1>2, <1>3, PTL DEF LSpec
------------------------------------------------------------------------------
(* The segment names the running producer: whoever started it last wrote   *)
(* its pid there, and only its own handler of SIGQUIT removes it.          *)
THEOREM SegmentAlwaysNamesProducer == LSpec => []SegmentNamesProducer
<1>1. LInit => SegmentNamesProducer
  BY DEF LInit, SegmentNamesProducer
<1>2. LifeControl /\ SegmentNamesProducer /\ [LNext]_lvars => SegmentNamesProducer'
  <2> SUFFICES ASSUME LifeControl, SegmentNamesProducer, [LNext]_lvars
               PROVE  SegmentNamesProducer'
    OBVIOUS
  <2> USE DEF SegmentNamesProducer, old, process, signal, killing, initializing
  <2>1. CASE StartProducer \/ Reap \/ GetSegment \/ WritePid
    BY <2>1 DEF StartProducer, Reap, GetSegment, WritePid, vars
  <2>2. CASE Create \/ SIGQUIT_handler \/ EndProducer
    BY <2>2 DEF Create, CreateThread, CreateFails, SIGQUIT_handler, EndProducer, Die
  <2>3. ASSUME NEW t \in Thread, WorkerStep(t) \/ OrphanStep(t)
        PROVE  SegmentNamesProducer'
    <3>1. Goes(t) /\ UNCHANGED <<process, signal>>
      BY <2>3, StepGoes, OrphanGoes DEF WorkerStep, OrphanStep, LifeControl, LifeTypes
    <3>2. QED
      BY <3>1 DEF Goes
  <2>4. CASE StartKiller \/ Kill \/ Delete
    BY <2>4 DEF StartKiller, Kill, Delete, vars
  <2>5. CASE InitStep
    BY <2>5 DEF InitStep, InitOpen, InitParse, InitStretch, InitCopy, InitUnchanged
  <2>6. CASE Rest \/ UNCHANGED lvars
    BY <2>6 DEF Rest, lvars, vars
  <2>7. QED
    BY <2>1, <2>2, <2>3, <2>4, <2>5, <2>6
       DEF LNext, init_memory, init_memory_processes_on_waiting
<1>3. QED
  BY LifeControlCorrect, <1>1, <1>2, PTL DEF LSpec

-------------------------------------------------------------------------------

(* The spy only reads: beside it the producer does what it does without.   *)
LEMMA SpyOnlyReads == SSpec => Spec
<1>1. SInit => Init
  BY DEF SInit
<1>2. [SNext]_svars => [Next]_vars
  BY DEF SNext, ProducerStep, SpyStep, Choose, SpyOpenFails, SpyOpen,
         SpyTouchOutside, SpyParseNothing, ParseEntry, EndPartition, ParseTorn,
         ShowWaiting, ShowMemory, BackToMenu, svars
<1>3. QED
  BY <1>1, <1>2, PTL DEF SSpec, Spec

(* The entries of a partition are those of its object, each once.          *)
Lists(entries, processes) ==
  /\ \A t \in Thread : processes[t] # 0 <=> \E i \in DOMAIN entries : entries[i] = t
  /\ \A i, j \in DOMAIN entries : entries[i] = entries[j] => i = j

(* The entries after a change are workers ...                              *)
LEMMA ArrangedType ==
  ASSUME NEW entries \in Seq(Thread), NEW processes
  PROVE  Arranged(entries, processes) \in Seq(Thread)
<1> DEFINE gone == {i \in DOMAIN entries : processes[entries[i]] = 0}
           new == {t \in Thread :
                     processes[t] # 0 /\ \A i \in DOMAIN entries : entries[i] # t}
           closed == [i \in 1..(Len(entries) - 1) |->
                        entries[IF i \in gone THEN Len(entries) ELSE i]]
<1>1. CASE new # {}
  <2>1. (CHOOSE t \in new : TRUE) \in Thread
    BY <1>1
  <2>2. Arranged(entries, processes) = Append(entries, CHOOSE t \in new : TRUE)
    BY <1>1 DEF Arranged
  <2>3. QED
    BY <2>1, <2>2
<1>2. CASE new = {} /\ gone = {}
  BY <1>2 DEF Arranged
<1>3. CASE new = {} /\ gone # {}
  <2>1. Arranged(entries, processes) = closed
    BY <1>3 DEF Arranged
  <2>2. Len(entries) \in Nat \ {0} /\ DOMAIN entries = 1..Len(entries)
    BY <1>3
  <2>3. \A i \in 1..(Len(entries) - 1) :
          entries[IF i \in gone THEN Len(entries) ELSE i] \in Thread
    BY <2>2
  <2>4. closed \in [1..(Len(entries) - 1) -> Thread]
    BY <2>3
  <2>5. closed \in Seq(Thread)
    BY <2>2, <2>4
  <2>6. QED
    BY <2>1, <2>5
<1>4. QED
  BY <1>1, <1>2, <1>3

(* ... and are as they were when the object is.                            *)
LEMMA ArrangedSame ==
  ASSUME NEW entries \in Seq(Thread), NEW processes, Lists(entries, processes)
  PROVE  Arranged(entries, processes) = entries
<1>1. {t \in Thread : processes[t] # 0 /\ \A i \in DOMAIN entries : entries[i] # t} = {}
  BY DEF Lists
<1>2. {i \in DOMAIN entries : processes[entries[i]] = 0} = {}
  BY DEF Lists
<1>3. QED
  BY <1>1, <1>2 DEF Arranged

(* A worker that enters or leaves enters or leaves the list.               *)
LEMMA ArrangedLists ==
  ASSUME NEW entries \in Seq(Thread), NEW before, NEW after,
         Lists(entries, before),
         NEW t \in Thread, after[t] # 0 <=> before[t] = 0,
         \A u \in Thread \ {t} : after[u] = before[u]
  PROVE  Lists(Arranged(entries, after), after)
<1> DEFINE gone == {i \in DOMAIN entries : after[entries[i]] = 0}
           new == {u \in Thread :
                     after[u] # 0 /\ \A i \in DOMAIN entries : entries[i] # u}
           n == Len(entries)
<1>0. n \in Nat /\ DOMAIN entries = 1..n /\ \A i \in 1..n : entries[i] \in Thread
  OBVIOUS
<1>1. CASE after[t] # 0
  <2>1. new = {t}
    BY <1>1 DEF Lists
  <2>2. Arranged(entries, after) = Append(entries, t)
    <3>1. (CHOOSE u \in new : TRUE) = t /\ new # {}
      BY <2>1
    <3>2. QED
      BY <3>1 DEF Arranged
  <2> DEFINE longer == Append(entries, t)
  <2>3. /\ DOMAIN longer = 1..(n + 1) /\ longer[n + 1] = t
        /\ \A i \in 1..n : longer[i] = entries[i]
    BY <1>0
  <2>4. \A i \in 1..n : entries[i] # t
    BY <1>0, <1>1 DEF Lists
  <2>5. \A i, j \in 1..(n + 1) : longer[i] = longer[j] => i = j
    BY <1>0, <2>3, <2>4 DEF Lists
  <2>6. ASSUME NEW u \in Thread
        PROVE  after[u] # 0 <=> \E i \in 1..(n + 1) : longer[i] = u
    <3>1. CASE u = t
      BY <1>0, <1>1, <2>3, <3>1
    <3>2. CASE u # t
      <4>1. after[u] # 0 <=> \E i \in 1..n : entries[i] = u
        BY <1>0, <3>2 DEF Lists
      <4>2. QED
        BY <1>0, <2>3, <3>2, <4>1
    <3>3. QED
      BY <3>1, <3>2
  <2>7. QED
    BY <2>2, <2>3, <2>5, <2>6 DEF Lists
<1>2. CASE after[t] = 0
  <2>1. PICK k \in 1..n : entries[k] = t
    BY <1>0, <1>2 DEF Lists
  <2>2. \A i \in 1..n : i # k => entries[i] # t
    BY <1>0, <2>1 DEF Lists
  <2>3. gone = {k}
    BY <1>0, <1>2, <2>1, <2>2 DEF Lists
  <2>4. new = {}
    BY <1>0, <1>2 DEF Lists
  <2> DEFINE closed == [i \in 1..(n - 1) |-> entries[IF i = k THEN n ELSE i]]
  <2>5. Arranged(entries, after) = closed
    <3>1. \A i \in 1..(n - 1) : i \in gone <=> i = k
      BY <2>3
    <3>2. [i \in 1..(n - 1) |-> entries[IF i \in gone THEN n ELSE i]] = closed
      BY <3>1
    <3>3. QED
      BY <2>3, <2>4, <3>2 DEF Arranged
  <2>6. DOMAIN closed = 1..(n - 1)
    OBVIOUS
  <2>7. \A i \in 1..(n - 1) : closed[i] = entries[IF i = k THEN n ELSE i]
    OBVIOUS
  <2> HIDE DEF closed
  <2>8. \A i, j \in 1..(n - 1) : closed[i] = closed[j] => i = j
    <3> SUFFICES ASSUME NEW i \in 1..(n - 1), NEW j \in 1..(n - 1),
                        closed[i] = closed[j]
                 PROVE  i = j
      OBVIOUS
    <3>1. (IF i = k THEN n ELSE i) = (IF j = k THEN n ELSE j)
      BY <1>0, <2>7 DEF Lists
    <3>2. QED
      BY <1>0, <3>1
  <2>9. ASSUME NEW u \in Thread
        PROVE  after[u] # 0 <=> \E i \in 1..(n - 1) : closed[i] = u
    <3>1. CASE u = t
      <4>1. \A i \in 1..(n - 1) : (IF i = k THEN n ELSE i) \in 1..n \ {k}
        BY <1>0, <2>1
      <4>2. QED
        BY <1>2, <2>2, <2>7, <3>1, <4>1
    <3>2. CASE u # t
      <4>1. after[u] # 0 <=> \E i \in 1..n : entries[i] = u
        BY <1>0, <3>2 DEF Lists
      <4>2. ASSUME NEW i \in 1..n, entries[i] = u
            PROVE  \E j \in 1..(n - 1) : closed[j] = u
        <5>1. i # k
          BY <2>1, <3>2, <4>2
        <5>2. CASE i = n
          <6>1. k \in 1..(n - 1)
            <7> HIDE DEF n
            <7>1. n \in Nat /\ k \in 1..n /\ k # n
              BY <1>0, <2>1, <5>1, <5>2
            <7>2. QED
              BY <7>1
          <6>2. closed[k] = u
            BY <2>7, <4>2, <5>2, <6>1
          <6>3. QED
            BY <6>1, <6>2
        <5>3. CASE i # n
          <6>1. i \in 1..(n - 1)
            BY <1>0, <5>3
          <6>2. closed[i] = u
            BY <2>7, <4>2, <5>1, <6>1
          <6>3. QED
            BY <6>1, <6>2
        <5>4. QED
          BY <5>2, <5>3
      <4>3. ASSUME NEW j \in 1..(n - 1), closed[j] = u
            PROVE  \E i \in 1..n : entries[i] = u
        <5>1. (IF j = k THEN n ELSE j) \in 1..n
          BY <1>0
        <5>2. QED
          BY <2>7, <4>3, <5>1
      <4>4. QED
        BY <4>1, <4>2, <4>3
    <3>3. QED
      BY <3>1, <3>2
  <2>10. QED
    BY <2>5, <2>6, <2>8, <2>9 DEF Lists
<1>3. QED
  BY <1>1, <1>2

(* The document with another size, or none, for worker t in partition p.   *)
Changed(p, t) ==
  /\ memory'[p].processes[t] # 0 <=> memory[p].processes[t] = 0
  /\ \A q \in Partition, u \in Thread : (q # p \/ u # t) =>
       memory'[q].processes[u] = memory[q].processes[u]

(* A step writes at most one entry of the memory document, its writer's.   *)
LEMMA OneEntry ==
  ASSUME Control, MemoryFile, Accounts, [Next]_vars
  PROVE  memory' = memory \/ \E p \in Partition, t \in Thread : Changed(p, t)
<1>0. memory \in Document /\ process_size \in [Thread -> Size]
  BY DEF Control, TypeOK
<1>1. ASSUME NEW t \in Thread, CopyMemory(t)
      PROVE  \E p \in Partition : Changed(p, t)
  <2> DEFINE p == mem_index[t]
             s == process_size[t]
  <2>1. /\ memory' = data[t] /\ Computed(t) /\ p \in Partition /\ s \in Size
        /\ section[t] \in {"allocate", "release"}
    BY <1>0, <1>1 DEF CopyMemory, Accounts, Writing, Computed, MemorySections
  <2>2. s # 0
    BY <2>1, MaxSizeAssumption DEF Size
  <2>3. CASE section[t] = "allocate"
    <3>1. memory' = Assign(memory, p, t, s) /\ memory[p].processes[t] = 0
      BY <2>1, <2>3 DEF Computed, Accounts, Reservations, Holding
    <3>2. QED
      BY <1>0, <2>1, <2>2, <3>1, Fields DEF Changed
  <2>4. CASE section[t] = "release"
    <3>1. memory' = Return(memory, p, t, s) /\ memory[p].processes[t] = s
      BY <2>1, <2>4 DEF Computed, Accounts, Reservations, Holding
    <3>2. QED
      BY <1>0, <2>1, <2>2, <3>1, Fields DEF Changed
  <2>5. QED
    BY <2>1, <2>3, <2>4
<1>2. ASSUME NEW t \in Thread, Step(t), ~CopyMemory(t) PROVE memory' = memory
  BY <1>2 DEF Step, OpenToRead, TouchTruncated, ParseNothing, ParseAnnounce,
     ParseWithdraw, ParseAllocate, Reject, ParseRelease, Truncate, WriteNothing,
     Stretch, CopyWaiting, SemWait, Strclr, Slog, SemPost, Wake, files
<1>3. ASSUME NEW t \in Thread, CreateThread(t) PROVE memory' = memory
  BY <1>3 DEF CreateThread, files
<1>4. CASE CreateFails \/ SigQuit \/ Die \/ Gone \/ UNCHANGED vars
  BY <1>4 DEF CreateFails, SigQuit, Die, Gone, vars, files
<1>5. QED
  BY <1>1, <1>2, <1>3, <1>4 DEF Next

(* The spy's variables keep their types.                                   *)
THEOREM SpyTypeCorrect == SSpec => []STypeOK
<1>0. /\ Nothing \in [Partition -> [Thread -> 0..(MaxSize + 1)]]
      /\ Anything \in [Thread -> 0..(MaxSize + 1)]
      /\ NonePassed \in [Partition -> Nat]
  BY MaxSizeAssumption DEF Nothing, Anything, NonePassed
<1>1. SInit => STypeOK
  <2> SUFFICES ASSUME SInit PROVE STypeOK
    OBVIOUS
  <2>1. order \in [Partition -> Seq(Thread)]
    BY DEF SInit
  <2>2. opened \subseteq Thread \X Partition /\ always \subseteq Thread \X Partition
    BY DEF SInit
  <2>3. {opened, always} \subseteq SUBSET (Thread \X Partition)
    BY <2>2
  <2>4. next \in 0..N /\ intact \in 0..N /\ spy_file \in File
    BY NAssumption DEF SInit, File
  <2>5. QED
    BY <1>0, <2>1, <2>3, <2>4 DEF SInit, STypeOK
<1>2. TypeOK /\ STypeOK /\ [SNext]_svars => STypeOK'
  <2> SUFFICES ASSUME TypeOK, STypeOK, [SNext]_svars PROVE STypeOK'
    OBVIOUS
  <2>0. /\ memory \in Document
        /\ Inside \subseteq Thread \X Partition
        /\ Inside' \subseteq Thread \X Partition
        /\ opened \subseteq Thread \X Partition
        /\ always \subseteq Thread \X Partition
    BY DEF TypeOK, STypeOK, Inside
  <2>1. Forgotten => {opened', always'} \subseteq SUBSET (Thread \X Partition)
    <3>1. Forgotten => opened' \subseteq Thread \X Partition /\ always' \subseteq Thread \X Partition
      BY DEF Forgotten
    <3>2. QED
      BY <3>1
  <2>2. Cleared => /\ next' \in 0..N
                   /\ passed' \in [Partition -> Nat]
                   /\ shown' \in [Partition -> [Thread -> 0..(MaxSize + 1)]]
    BY <1>0, NAssumption DEF Cleared
  <2>3. Forgotten => disturbed' \in BOOLEAN /\ intact' \in 0..N
    <3>1. Forgotten => disturbed' = FALSE
      BY DEF Forgotten
    <3>2. Forgotten => intact' \in 0..N
      BY NAssumption DEF Forgotten
    <3>3. QED
      BY <3>1, <3>2
  <2>4. "memory" \in File /\ "waiting" \in File
    BY DEF File
  <2> USE DEF STypeOK, reading, history
  <2>5. CASE ProducerStep
    <3>1. \A p \in Partition : Arranged(order[p], memory'[p].processes) \in Seq(Thread)
      BY ArrangedType
    <3>2. order' \in [Partition -> Seq(Thread)]
      BY <2>5, <3>1 DEF ProducerStep
    <3>3. opened' \subseteq Thread \X Partition /\ always' \subseteq Thread \X Partition
      BY <2>5, <2>0 DEF ProducerStep
    <3>4. {opened', always'} \subseteq SUBSET (Thread \X Partition)
      BY <3>3
    <3>5. disturbed' \in BOOLEAN /\ intact' \in 0..N
      BY <2>5 DEF ProducerStep
    <3>6. QED
      BY <2>5, <3>2, <3>4, <3>5 DEF ProducerStep
  <2>6. CASE Choose("memory") \/ Choose("processes")
    BY <2>6, <2>4 DEF Choose
  <2>7. CASE SpyOpenFails
    BY <2>7 DEF SpyOpenFails
  <2>8. CASE SpyOpen
    <3>1. opened' \subseteq Thread \X Partition /\ always' \subseteq Thread \X Partition
      BY <2>8, <2>0 DEF SpyOpen
    <3>2. {opened', always'} \subseteq SUBSET (Thread \X Partition)
      BY <3>1
    <3>3. QED
      BY <2>8, <3>2 DEF SpyOpen
  <2>9. CASE SpyTouchOutside \/ SpyParseNothing
    BY <2>9, <2>1, <2>2, <2>3 DEF SpyTouchOutside, SpyParseNothing
  <2>10. CASE ParseEntry
    <3>1. next \in Partition
      BY <2>10, NAssumption DEF ParseEntry, Parsing, Partition
    <3> DEFINE t == order[next][passed[next] + 1]
    <3>2. t \in Thread
      <4>1. order[next] \in Seq(Thread) /\ passed[next] \in Nat
        BY <3>1
      <4>2. passed[next] + 1 \in 1..Len(order[next])
        BY <2>10, <4>1 DEF ParseEntry
      <4>3. QED
        BY <4>1, <4>2
    <3>3. memory[next].processes[t] \in 0..(MaxSize + 1)
      BY <2>0, <3>1, <3>2, MaxSizeAssumption DEF Document
    <3>4. shown' = [shown EXCEPT ![next][t] = memory[next].processes[t]]
      BY <2>10 DEF ParseEntry
    <3>5. shown' \in [Partition -> [Thread -> 0..(MaxSize + 1)]]
      BY <3>1, <3>2, <3>3, <3>4
    <3>6. passed' \in [Partition -> Nat]
      BY <2>10, <3>1 DEF ParseEntry
    <3>7. QED
      BY <2>10, <3>5, <3>6 DEF ParseEntry
  <2>11. CASE EndPartition
    BY <2>11, NAssumption DEF EndPartition, Parsing
  <2>12. CASE ParseTorn
    BY <2>12, <1>0, NAssumption DEF ParseTorn
  <2>13. CASE ShowWaiting
    BY <2>13, <2>1, <2>2, <2>3, <2>4 DEF ShowWaiting
  <2>14. CASE ShowMemory
    BY <2>14, <1>0 DEF ShowMemory
  <2>15. CASE BackToMenu
    BY <2>15, <2>1, <2>2, <2>3, <2>4 DEF BackToMenu
  <2>16. CASE UNCHANGED svars
    BY <2>16 DEF svars
  <2>17. QED
    BY <2>5, <2>6, <2>7, <2>8, <2>9, <2>10, <2>11, <2>12, <2>13, <2>14, <2>15,
       <2>16 DEF SNext, SpyStep
<1>3. QED
  BY <1>1, <1>2, SpyOnlyReads, TypeCorrect, PTL DEF SSpec

(* The order of the text is an order of the entries of the document.       *)
Listed == \A p \in Partition : Lists(order[p], memory[p].processes)

(* It stays so, and stays the same while the document does.                *)
LEMMA ListedStep ==
  ASSUME Control, MemoryFile, Accounts, STypeOK, Listed, [SNext]_svars
  PROVE  Listed' /\ (memory' = memory => order' = order)
<1>1. CASE ProducerStep
  <2>1. /\ order \in [Partition -> Seq(Thread)] /\ [Next]_vars
        /\ order' = [p \in Partition |-> Arranged(order[p], memory'[p].processes)]
    BY <1>1 DEF STypeOK, ProducerStep
  <2>2. CASE memory' = memory
    <3>1. \A p \in Partition : Arranged(order[p], memory'[p].processes) = order[p]
      BY <2>1, <2>2, ArrangedSame DEF Listed
    <3>2. order' = order
      BY <2>1, <3>1
    <3>3. QED
      BY <2>2, <3>2 DEF Listed
  <2>3. ASSUME NEW p \in Partition, NEW t \in Thread, Changed(p, t)
        PROVE  Listed'
    <3>1. SUFFICES ASSUME NEW q \in Partition
                   PROVE  Lists(Arranged(order[q], memory'[q].processes),
                                memory'[q].processes)
      BY <2>1 DEF Listed
    <3>2. order[q] \in Seq(Thread) /\ Lists(order[q], memory[q].processes)
      BY <2>1 DEF Listed
    <3>3. CASE q = p
      BY <2>3, <3>2, <3>3, ArrangedLists DEF Changed
    <3>4. CASE q # p
      <4>1. \A u \in Thread : memory'[q].processes[u] = memory[q].processes[u]
        BY <2>3, <3>4 DEF Changed
      <4>2. Lists(order[q], memory'[q].processes)
        BY <3>2, <4>1 DEF Lists
      <4>3. QED
        BY <3>2, <4>2, ArrangedSame
    <3>5. QED
      BY <3>3, <3>4
  <2>4. memory' # memory => \E p \in Partition, t \in Thread : Changed(p, t)
    BY <2>1, OneEntry
  <2>5. QED
    BY <2>2, <2>3, <2>4
<1>2. CASE ~ProducerStep
  <2>1. UNCHANGED <<memory, order>>
    BY <1>2 DEF SNext, SpyStep, Choose, SpyOpenFails, SpyOpen, SpyTouchOutside,
       SpyParseNothing, ParseEntry, EndPartition, ParseTorn, ShowWaiting,
       ShowMemory, BackToMenu, svars, vars, files
  <2>2. QED
    BY <2>1 DEF Listed
<1>3. QED
  BY <1>1, <1>2

(* What an undisturbed parse has read: of every partition the entries it   *)
(* has passed, all of them where it has passed the partition, and the      *)
(* workers inside are those of the moment the file was opened.             *)
SoFar ==
  (spy = "parse" /\ spy_file = "memory" /\ ~disturbed) =>
    /\ opened = Inside
    /\ \A p \in Partition :
         /\ passed[p] <= Len(order[p])
         /\ p < next => passed[p] = Len(order[p])
         /\ \A t \in Thread :
              shown[p][t] = IF \E i \in 1..passed[p] : order[p][i] = t
                            THEN memory[p].processes[t] ELSE 0

(* Before the spy has opened the memory file nothing is read; afterwards   *)
(* only what is behind the parser is called intact, and who was inside has *)
(* its size for good.                                                      *)
Bookkeeping ==
  /\ spy \in {"menu", "open"} =>
       next = 0 /\ passed = NonePassed /\ shown = Nothing /\ ~disturbed
  /\ spy = "parse" /\ spy_file = "waiting" => next = 0
  /\ spy = "parse" /\ disturbed => intact <= next
  /\ \A u \in opened : section[u[1]] # "unborn"

(* The workers inside are in the document, and nobody else is.             *)
LEMMA InsideIsListed ==
  ASSUME Control, Reservations, NEW p \in Partition, NEW t \in Thread
  PROVE  /\ memory[p].processes[t] = IF <<t, p>> \in Inside THEN process_size[t] ELSE 0
         /\ <<t, p>> \in Inside <=> memory[p].processes[t] # 0
<1>1. process_size[t] # 0
  BY MaxSizeAssumption DEF Control, TypeOK, Size
<1>2. <<t, p>> \in Inside <=> Holding(t) /\ mem_index[t] = p
  BY DEF Inside
<1>3. QED
  BY <1>1, <1>2 DEF Reservations

(* A partition that an undisturbed parse has passed is shown as it is.     *)
LEMMA PassedIsExact ==
  ASSUME Control, Reservations, STypeOK, Listed, SoFar,
         spy = "parse", spy_file = "memory", ~disturbed,
         NEW p \in Partition, passed[p] = Len(order[p]), NEW t \in Thread
  PROVE  shown[p][t] = IF <<t, p>> \in opened THEN process_size[t] ELSE 0
<1>1. shown[p][t] = memory[p].processes[t]
  <2>1. order[p] \in Seq(Thread)
    BY DEF STypeOK
  <2>2. DOMAIN order[p] = 1..passed[p]
    BY <2>1
  <2>3. QED
    BY <2>2 DEF SoFar, Listed, Lists
<1>2. QED
  BY <1>1, InsideIsListed DEF SoFar

(* Whatever the workers do meanwhile, what the spy has read before the     *)
(* first of their writes is the picture of the moment it opened the file.  *)
THEOREM SpyExact == SSpec => [](Listed /\ SoFar /\ Bookkeeping /\ ReadIsExact)
<1> DEFINE Inv == Listed /\ SoFar /\ Bookkeeping /\ ReadIsExact
<1>1. SInit => Inv
  <2> SUFFICES ASSUME SInit PROVE Inv
    OBVIOUS
  <2>1. Listed
    BY DEF SInit, Init, Listed, Lists, Schema
  <2>2. SoFar /\ Bookkeeping /\ ReadIsExact
    BY DEF SInit, SoFar, Bookkeeping, ReadIsExact
  <2>3. QED
    BY <2>1, <2>2
<1>2. /\ Control /\ MemoryFile /\ Accounts /\ STypeOK /\ Control' /\ Accounts'
      /\ STypeOK' /\ Inv /\ [SNext]_svars
      => Inv'
  <2> SUFFICES ASSUME Control, MemoryFile, Accounts, STypeOK, Control', Accounts',
                      STypeOK', Inv, [SNext]_svars
               PROVE  Inv'
    OBVIOUS
  <2>0. /\ Listed' /\ (memory' = memory => order' = order)
        /\ Reservations /\ Reservations'
        /\ next \in 0..N /\ N \in Nat /\ Partition = 0..(N - 1)
        /\ opened \subseteq Thread \X Partition
        /\ \A u \in Inside : section[u[1]] # "unborn"
    BY ListedStep, NAssumption DEF Accounts, STypeOK, Partition, Inside, Holding
  <2>1. UNCHANGED vars => /\ Inside' = Inside
                          /\ UNCHANGED <<memory, section, process_size>>
    BY DEF Inside, Holding, vars, locals, files
  <2>2. CASE ProducerStep
    <3>1. /\ UNCHANGED <<request, spy, spy_file, next, passed, shown, opened>>
          /\ [Next]_vars
          /\ spy = "parse" =>
               /\ disturbed' = (disturbed \/ Text(spy_file)' # Text(spy_file))
               /\ intact' = IF disturbed' /\ ~disturbed THEN next ELSE intact
          /\ spy # "parse" => UNCHANGED <<disturbed, intact>>
      BY <2>2 DEF ProducerStep, reading
    <3>2. \A u \in opened : /\ section'[u[1]] # "unborn"
                            /\ process_size'[u[1]] = process_size[u[1]]
      BY <2>0, <3>1, BornOnce DEF Bookkeeping
    <3>3. SoFar'
      <4> SUFFICES ASSUME spy = "parse", spy_file = "memory", ~disturbed'
                   PROVE  SoFar'
        BY <3>1 DEF SoFar
      <4>1. ~disturbed /\ Text("memory")' = Text("memory")
        BY <3>1 DEF STypeOK
      <4>2. memory' = memory /\ order' = order
        BY <2>0, <4>1 DEF Text
      <4>3. ASSUME NEW t \in Thread, NEW p \in Partition
            PROVE  <<t, p>> \in Inside' <=> <<t, p>> \in Inside
        <5>1. <<t, p>> \in Inside' <=> Holding(t)' /\ mem_index'[t] = p
          BY DEF Inside
        <5>2. process_size'[t] # 0
          BY MaxSizeAssumption DEF Control, TypeOK, Size
        <5>3. memory'[p].processes[t] =
                IF Holding(t)' /\ mem_index'[t] = p THEN process_size'[t] ELSE 0
          BY <2>0 DEF Reservations
        <5>4. <<t, p>> \in Inside' <=> memory[p].processes[t] # 0
          BY <4>2, <5>1, <5>2, <5>3
        <5>5. <<t, p>> \in Inside <=> memory[p].processes[t] # 0
          BY <2>0, InsideIsListed
        <5>6. QED
          BY <5>4, <5>5
      <4>4. Inside' = Inside
        BY <4>3 DEF Inside
      <4>5. QED
        BY <3>1, <4>1, <4>2, <4>4 DEF SoFar
    <3>4. Bookkeeping'
      BY <2>0, <3>1, <3>2 DEF Bookkeeping
    <3>5. ReadIsExact'
      <4> SUFFICES ASSUME spy \in {"parse", "shown"}, NEW p \in Partition,
                          NEW t \in Thread, p < next, p < intact'
                   PROVE  shown[p][t] = IF <<t, p>> \in opened THEN process_size'[t] ELSE 0
        BY <3>1 DEF ReadIsExact
      <4>1. p < intact \/ (spy = "parse" /\ ~disturbed)
        BY <3>1
      <4>2. shown[p][t] = IF <<t, p>> \in opened THEN process_size[t] ELSE 0
        <5>1. CASE p < intact
          BY <5>1 DEF ReadIsExact
        <5>2. CASE spy = "parse" /\ ~disturbed
          <6>1. spy_file = "memory"
            BY <2>0, <5>2 DEF Bookkeeping, STypeOK, File
          <6>2. passed[p] = Len(order[p])
            BY <5>2, <6>1 DEF SoFar
          <6>3. QED
            BY <2>0, <5>2, <6>1, <6>2, PassedIsExact
        <5>3. QED
          BY <4>1, <5>1, <5>2
      <4>3. QED
        BY <3>2, <4>2
    <3>6. QED
      BY <2>0, <3>3, <3>4, <3>5
  <2>3. CASE Choose("memory") \/ Choose("processes")
    BY <2>0, <2>1, <2>3 DEF Choose, SoFar, Bookkeeping, ReadIsExact, history
  <2>4. CASE SpyOpenFails
    BY <2>0, <2>1, <2>4 DEF SpyOpenFails, SoFar, Bookkeeping, ReadIsExact, history
  <2>5. CASE SpyOpen
    <3>1. /\ next' = 0 /\ passed' = NonePassed /\ shown' = Nothing /\ ~disturbed'
          /\ opened' = Inside /\ UNCHANGED <<vars, order, spy_file>>
      BY <2>5 DEF SpyOpen, Bookkeeping
    <3>2. SoFar'
      <4>1. \A p \in Partition : order'[p] \in Seq(Thread) /\ Len(order'[p]) \in Nat
        BY DEF STypeOK
      <4>2. \A p \in Partition :
              /\ passed'[p] = 0 /\ ~(p < next')
              /\ \A t \in Thread : shown'[p][t] = 0
        BY <2>0, <3>1 DEF NonePassed, Nothing
      <4>3. QED
        BY <2>1, <3>1, <4>1, <4>2 DEF SoFar
    <3>3. Bookkeeping'
      BY <2>0, <2>1, <2>5, <3>1 DEF Bookkeeping, SpyOpen
    <3>4. ReadIsExact'
      BY <2>0, <3>1 DEF ReadIsExact
    <3>5. QED
      BY <2>0, <3>2, <3>3, <3>4
  <2>6. CASE SpyTouchOutside \/ SpyParseNothing
    <3>1. next' = 0 /\ opened' = {} /\ spy' \in {"shown", "crashed"}
      BY <2>6 DEF SpyTouchOutside, SpyParseNothing, Cleared, Forgotten
    <3>2. QED
      BY <2>0, <3>1 DEF SoFar, Bookkeeping, ReadIsExact
  <2>7. CASE ParseEntry
    <3> DEFINE t == order[next][passed[next] + 1]
               k == passed[next]
    <3>1. /\ spy = "parse" /\ spy_file = "memory" /\ next \in Partition
          /\ UNCHANGED <<vars, order, spy, spy_file, next, disturbed, intact, opened>>
          /\ shown' = [shown EXCEPT ![next][t] = memory[next].processes[t]]
          /\ passed' = [passed EXCEPT ![next] = @ + 1]
          /\ k < Len(order[next])
      BY <2>0, <2>7 DEF ParseEntry, Parsing, history
    <3>2. /\ order[next] \in Seq(Thread) /\ k \in Nat
          /\ passed \in [Partition -> Nat]
          /\ shown \in [Partition -> [Thread -> 0..(MaxSize + 1)]]
      BY <3>1 DEF STypeOK
    <3>3. t \in Thread
      BY <3>1, <3>2
    <3>4. /\ \A p \in Partition \ {next} : shown'[p] = shown[p] /\ passed'[p] = passed[p]
          /\ passed'[next] = k + 1
          /\ \A u \in Thread : shown'[next][u] = IF u = t THEN memory[next].processes[u]
                                                 ELSE shown[next][u]
      BY <3>1, <3>2, <3>3
    <3> HIDE DEF t, k
    <3>5. SoFar'
      <4> SUFFICES ASSUME ~disturbed PROVE SoFar'
        BY <3>1 DEF SoFar
      <4>1. opened' = Inside'
        BY <2>1, <3>1 DEF SoFar
      <4>2. ASSUME NEW p \in Partition
            PROVE  /\ passed'[p] <= Len(order[p])
                   /\ p < next => passed'[p] = Len(order[p])
                   /\ \A u \in Thread :
                        shown'[p][u] = IF \E i \in 1..passed'[p] : order[p][i] = u
                                       THEN memory[p].processes[u] ELSE 0
        <5>1. CASE p # next
          BY <3>1, <3>4, <5>1 DEF SoFar
        <5>2. CASE p = next
          <6>1. k + 1 <= Len(order[next])
            BY <3>1, <3>2 DEF k
          <6>2. ASSUME NEW u \in Thread
                PROVE  (\E i \in 1..(k + 1) : order[next][i] = u)
                         <=> (u = t \/ \E i \in 1..k : order[next][i] = u)
            <7>1. k \in Nat /\ t = order[next][k + 1]
              BY <3>2 DEF t, k
            <7>2. \A i : i \in 1..(k + 1) <=> i \in 1..k \/ i = k + 1
              BY <7>1
            <7>3. QED
              BY <7>1, <7>2
          <6>3. \A u \in Thread :
                  shown[next][u] = IF \E i \in 1..k : order[next][i] = u
                                   THEN memory[next].processes[u] ELSE 0
            BY <3>1 DEF SoFar, k
          <6>4. \A u \in Thread :
                  shown'[next][u] = IF \E i \in 1..(k + 1) : order[next][i] = u
                                    THEN memory[next].processes[u] ELSE 0
            BY <3>4, <6>2, <6>3
          <6>5. QED
            BY <2>0, <3>4, <5>2, <6>1, <6>4
        <5>3. QED
          BY <5>1, <5>2
      <4>3. QED
        BY <2>1, <3>1, <4>1, <4>2 DEF SoFar
    <3>6. Bookkeeping'
      BY <2>1, <3>1 DEF Bookkeeping
    <3>7. ReadIsExact'
      BY <2>0, <2>1, <3>1, <3>4 DEF ReadIsExact
    <3>8. QED
      BY <2>0, <3>5, <3>6, <3>7
  <2>8. CASE EndPartition
    <3>1. /\ spy = "parse" /\ spy_file = "memory" /\ next \in Partition
          /\ UNCHANGED <<vars, order, spy, spy_file, passed, shown, disturbed,
                         intact, opened>>
          /\ next' = next + 1 /\ passed[next] = Len(order[next])
      BY <2>0, <2>8 DEF EndPartition, Parsing, history
    <3>2. SoFar'
      <4>1. \A p \in Partition : p < next + 1 => p < next \/ p = next
        BY <2>0
      <4>2. QED
        BY <2>1, <3>1, <4>1 DEF SoFar
    <3>3. Bookkeeping'
      BY <2>0, <2>1, <3>1 DEF Bookkeeping, STypeOK
    <3>4. ReadIsExact'
      <4> SUFFICES ASSUME NEW p \in Partition, NEW u \in Thread,
                          p < next + 1, p < intact
                   PROVE  shown[p][u] = IF <<u, p>> \in opened THEN process_size[u] ELSE 0
        BY <2>1, <3>1 DEF ReadIsExact
      <4>1. CASE p < next
        BY <3>1, <4>1 DEF ReadIsExact
      <4>2. CASE ~(p < next)
        <5>1. p = next
          BY <2>0, <4>2
        <5>2. ~disturbed
          BY <3>1, <5>1 DEF Bookkeeping, STypeOK
        <5>3. QED
          BY <2>0, <3>1, <5>1, <5>2, PassedIsExact
      <4>3. QED
        BY <4>1, <4>2
    <3>5. QED
      BY <2>0, <3>2, <3>3, <3>4
  <2>9. CASE ParseTorn
    <3>1. /\ spy = "parse" /\ disturbed /\ next' = N
          /\ UNCHANGED <<vars, spy, spy_file, disturbed, intact, opened>>
          /\ \A p \in Partition : p < next => shown'[p] = shown[p]
      BY <2>9 DEF ParseTorn, Parsing, history
    <3>2. SoFar'
      BY <3>1 DEF SoFar
    <3>3. Bookkeeping'
      <4>1. spy_file = "memory"
        BY <2>9 DEF ParseTorn, Parsing
      <4>2. QED
        BY <2>0, <2>1, <3>1, <4>1 DEF Bookkeeping, STypeOK
    <3>4. ReadIsExact'
      <4>1. \A p \in Partition : p < intact => p < next
        BY <2>0, <3>1 DEF Bookkeeping, STypeOK
      <4>2. QED
        BY <2>1, <3>1, <4>1 DEF ReadIsExact
    <3>5. QED
      BY <2>0, <3>2, <3>3, <3>4
  <2>10. CASE ShowWaiting \/ BackToMenu
    <3>1. /\ next' = 0 /\ passed' = NonePassed /\ shown' = Nothing
          /\ ~disturbed' /\ opened' = {} /\ spy' \in {"open", "menu"}
      BY <2>10 DEF ShowWaiting, BackToMenu, Cleared, Forgotten
    <3>2. QED
      BY <2>0, <3>1 DEF SoFar, Bookkeeping, ReadIsExact
  <2>11. CASE ShowMemory
    <3>1. /\ spy = "parse" /\ spy' = "shown"
          /\ UNCHANGED <<vars, next, shown, disturbed, intact, opened>>
      BY <2>11 DEF ShowMemory, history
    <3>2. QED
      BY <2>0, <2>1, <3>1 DEF SoFar, Bookkeeping, ReadIsExact
  <2>12. CASE UNCHANGED svars
    BY <2>0, <2>1, <2>12 DEF svars, reading, history, SoFar, Bookkeeping, ReadIsExact
  <2>13. QED
    BY <2>2, <2>3, <2>4, <2>5, <2>6, <2>7, <2>8, <2>9, <2>10, <2>11, <2>12
       DEF SNext, SpyStep
<1>3. QED
  BY <1>1, <1>2, SpyOnlyReads, ControlCorrect, MemoryFileCorrect, AccountsCorrect,
     SpyTypeCorrect, PTL DEF SSpec

(* What the spy has read before the first write under its parse is right.  *)
THEOREM ReadAlwaysExact == SSpec => []ReadIsExact
BY SpyExact, PTL
------------------------------------------------------------------------------
(* The second producer, with what is shown of one.                         *)
Second == INSTANCE Producer_proof WITH
  alive <- other_alive, main <- other_main, g_algorithm <- other_algorithm,
  sem_find_space <- other_semaphore, section <- other_section,
  stage <- other_stage, process_size <- other_size, mem_index <- other_index,
  data <- other_data, data_waiting <- other_waiting, output <- other_output

(* It is the second producer of TwoProducers.                              *)
LEMMA SecondIsOther ==
  /\ (Other!Init <=> Second!Init)
  /\ (Other!Next <=> Second!Next)
  /\ (Other!MutualExclusion <=> Second!MutualExclusion)
  /\ \A t : (Other!Holding(t) <=> Second!Holding(t))
<1>1. \A free, size, algorithm, index :
        Other!Returns(free, size, algorithm, index) <=> Second!Returns(free, size, algorithm, index)
  BY DEF Other!Returns, Second!Returns, Other!Fitting, Second!Fitting,
         Other!Fits, Second!Fits, Other!Preferred, Second!Preferred,
         Other!BEST_FIT, Second!BEST_FIT, Other!FIRST_FIT, Second!FIRST_FIT,
         Other!WORST_FIT, Second!WORST_FIT
<1>2. \A t : Other!CreateThread(t) <=> Second!CreateThread(t)
  BY DEF Other!CreateThread, Second!CreateThread, Other!GoTo, Second!GoTo,
         Other!Size, Second!Size, Other!files, Second!files, Other!locals,
         Second!locals, Other!logging, Second!logging
<1>3. \A t : Other!OpenToRead(t) <=> Second!OpenToRead(t)
  BY DEF Other!OpenToRead, Second!OpenToRead, Other!FileOf, Second!FileOf,
         Other!Exit, Second!Exit, Other!GoTo, Second!GoTo, Other!Advance,
         Second!Advance, Other!WaitingSections, Second!WaitingSections,
         Other!files, Second!files, Other!locals, Second!locals, Other!logging,
         Second!logging
<1>4. \A t : Other!TouchTruncated(t) <=> Second!TouchTruncated(t)
  BY DEF Other!TouchTruncated, Second!TouchTruncated, Other!FileOf,
         Second!FileOf, Other!WaitingSections, Second!WaitingSections,
         Other!files, Second!files, Other!locals, Second!locals, Other!logging,
         Second!logging
<1>5. \A t : Other!ParseNothing(t) <=> Second!ParseNothing(t)
  BY DEF Other!ParseNothing, Second!ParseNothing, Other!FileOf, Second!FileOf,
         Other!GoTo, Second!GoTo, Other!Advance, Second!Advance,
         Other!WaitingSections, Second!WaitingSections, Other!files,
         Second!files, Other!locals, Second!locals, Other!logging,
         Second!logging
<1>6. \A t : Other!ParseAnnounce(t) <=> Second!ParseAnnounce(t)
  BY DEF Other!ParseAnnounce, Second!ParseAnnounce, Other!At, Second!At,
         Other!Advance, Second!Advance, Other!files, Second!files,
         Other!locals, Second!locals, Other!logging, Second!logging
<1>7. \A t : Other!ParseWithdraw(t) <=> Second!ParseWithdraw(t)
  BY DEF Other!ParseWithdraw, Second!ParseWithdraw, Other!At, Second!At,
         Other!Advance, Second!Advance, Other!files, Second!files,
         Other!locals, Second!locals, Other!logging, Second!logging
<1>8. \A t : Other!ParseAllocate(t) <=> Second!ParseAllocate(t)
  BY <1>1 DEF Other!ParseAllocate, Second!ParseAllocate, Other!At, Second!At,
         Other!Advance, Second!Advance, Other!Partition, Second!Partition,
         Other!FreeSpaces, Second!FreeSpaces, Other!Assign, Second!Assign,
         Other!files, Second!files, Other!locals, Second!locals, Other!logging,
         Second!logging
<1>9. \A t : Other!Reject(t) <=> Second!Reject(t)
  BY <1>1 DEF Other!Reject, Second!Reject, Other!At, Second!At, Other!GoTo,
         Second!GoTo, Other!FreeSpaces, Second!FreeSpaces, Other!Partition,
         Second!Partition, Other!files, Second!files, Other!locals,
         Second!locals, Other!logging, Second!logging
<1>10. \A t : Other!ParseRelease(t) <=> Second!ParseRelease(t)
  BY DEF Other!ParseRelease, Second!ParseRelease, Other!At, Second!At,
         Other!Advance, Second!Advance, Other!Return, Second!Return,
         Other!files, Second!files, Other!locals, Second!locals, Other!logging,
         Second!logging
<1>11. \A t : Other!Truncate(t) <=> Second!Truncate(t)
  BY DEF Other!Truncate, Second!Truncate, Other!SetStatus, Second!SetStatus,
         Other!FileOf, Second!FileOf, Other!Advance, Second!Advance,
         Other!WaitingSections, Second!WaitingSections, Other!files,
         Second!files, Other!locals, Second!locals, Other!logging,
         Second!logging
<1>12. \A t : Other!WriteNothing(t) <=> Second!WriteNothing(t)
  BY DEF Other!WriteNothing, Second!WriteNothing, Other!SetStatus,
         Second!SetStatus, Other!FileOf, Second!FileOf, Other!Exit,
         Second!Exit, Other!GoTo, Second!GoTo, Other!WaitingSections,
         Second!WaitingSections, Other!files, Second!files, Other!locals,
         Second!locals, Other!logging, Second!logging
<1>13. \A t : Other!Stretch(t) <=> Second!Stretch(t)
  BY DEF Other!Stretch, Second!Stretch, Other!FileStatus, Second!FileStatus,
         Other!StretchOutcome, Second!StretchOutcome, Other!SetStatus,
         Second!SetStatus, Other!FileOf, Second!FileOf, Other!Advance,
         Second!Advance, Other!WaitingSections, Second!WaitingSections,
         Other!files, Second!files, Other!locals, Second!locals, Other!logging,
         Second!logging
<1>14. \A t : Other!CopyWaiting(t) <=> Second!CopyWaiting(t)
  BY DEF Other!CopyWaiting, Second!CopyWaiting, Other!FileStatus,
         Second!FileStatus, Other!CopyOutcome, Second!CopyOutcome,
         Other!Disturbed, Second!Disturbed, Other!SetStatus, Second!SetStatus,
         Other!FileOf, Second!FileOf, Other!GoTo, Second!GoTo,
         Other!WaitingSections, Second!WaitingSections, Other!files,
         Second!files, Other!locals, Second!locals, Other!logging,
         Second!logging
<1>15. \A t : Other!CopyMemory(t) <=> Second!CopyMemory(t)
  BY DEF Other!CopyMemory, Second!CopyMemory, Other!FileStatus,
         Second!FileStatus, Other!CopyOutcome, Second!CopyOutcome,
         Other!Disturbed, Second!Disturbed, Other!SetStatus, Second!SetStatus,
         Other!FileOf, Second!FileOf, Other!GoTo, Second!GoTo, Other!Schema,
         Second!Schema, Other!Partition, Second!Partition,
         Other!MemorySections, Second!MemorySections, Other!WaitingSections,
         Second!WaitingSections, Other!files, Second!files, Other!locals,
         Second!locals, Other!logging, Second!logging
<1>16. \A t : Other!SemWait(t) <=> Second!SemWait(t)
  BY DEF Other!SemWait, Second!SemWait, Other!GoTo, Second!GoTo, Other!files,
         Second!files, Other!locals, Second!locals, Other!logging,
         Second!logging
<1>17. \A t : Other!Strclr(t) <=> Second!Strclr(t)
  BY DEF Other!Strclr, Second!Strclr, Other!TagOf, Second!TagOf, Other!Advance,
         Second!Advance, Other!files, Second!files, Other!locals,
         Second!locals, Other!logging, Second!logging
<1>18. \A t : Other!Slog(t) <=> Second!Slog(t)
  BY DEF Other!Slog, Second!Slog, Other!TagOf, Second!TagOf, Other!Advance,
         Second!Advance, Other!files, Second!files, Other!locals,
         Second!locals, Other!logging, Second!logging
<1>19. \A t : Other!SemPost(t) <=> Second!SemPost(t)
  BY DEF Other!SemPost, Second!SemPost, Other!GoTo, Second!GoTo, Other!files,
         Second!files, Other!locals, Second!locals, Other!logging,
         Second!logging
<1>20. \A t : Other!Wake(t) <=> Second!Wake(t)
  BY DEF Other!Wake, Second!Wake, Other!At, Second!At, Other!GoTo, Second!GoTo,
         Other!files, Second!files, Other!locals, Second!locals, Other!logging,
         Second!logging
<1>21. \A t : Other!Step(t) <=> Second!Step(t)
  BY <1>3, <1>4, <1>5, <1>6, <1>7, <1>8, <1>9, <1>10, <1>11, <1>12, <1>13,
     <1>14, <1>15, <1>16, <1>17, <1>18, <1>19, <1>20 DEF Other!Step,
     Second!Step
<1>22. /\ (Other!CreateFails <=> Second!CreateFails)
      /\ (Other!SigQuit <=> Second!SigQuit)
      /\ (Other!Die <=> Second!Die)
      /\ (Other!Gone <=> Second!Gone)
  BY DEF Other!CreateFails, Second!CreateFails, Other!SigQuit, Second!SigQuit,
         Other!Die, Second!Die, Other!Gone, Second!Gone, Other!vars,
         Second!vars, Other!files, Second!files, Other!locals, Second!locals,
         Other!logging, Second!logging
<1>23. Other!Next <=> Second!Next
  BY <1>2, <1>21, <1>22 DEF Other!Next, Second!Next
<1>24. Other!Init <=> Second!Init
  BY DEF Other!Init, Second!Init, Other!File, Second!File, Other!Algorithm,
         Second!Algorithm, Other!BEST_FIT, Second!BEST_FIT, Other!FIRST_FIT,
         Second!FIRST_FIT, Other!WORST_FIT, Second!WORST_FIT, Other!Schema,
         Second!Schema, Other!Partition, Second!Partition
<1>25. Other!MutualExclusion <=> Second!MutualExclusion
  BY DEF Other!MutualExclusion, Second!MutualExclusion, Other!Critical,
         Second!Critical, Other!MemorySections, Second!MemorySections,
         Other!LogSections, Second!LogSections
<1>26. \A t : Other!Holding(t) <=> Second!Holding(t)
  BY DEF Other!Holding, Second!Holding
<1>27. QED
  BY <1>23, <1>24, <1>25, <1>26

(* Its sets are finite and counted as those of the first ...               *)
LEMMA SecondCounts ==
  /\ Second!IsFiniteSet(Thread)
  /\ \A T : Second!Cardinality(T) = Cardinality(T)
<1>1. \A T : Second!IsFiniteSet(T) <=> IsFiniteSet(T)
  BY DEF Second!IsFiniteSet, IsFiniteSet
<1>2. \A T : Second!Cardinality(T) = Cardinality(T)
  BY DEF Second!Cardinality, Cardinality, Second!IsFiniteSet, IsFiniteSet
<1>3. QED
  BY <1>1, <1>2, ThreadAssumption

(* ... so that what is shown of a producer can be cited for it.            *)
LEMMA SecondSteps ==
  /\ Second!Init => Second!Control /\ Second!MemoryFile /\ Second!Accounts
  /\ Second!Control /\ [Second!Next]_(Second!vars) => Second!Control'
  /\ Second!Control /\ Second!MemoryFile /\ [Second!Next]_(Second!vars)
       => Second!MemoryFile'
  /\ Second!Control /\ Second!MemoryFile /\ Second!Accounts
       /\ [Second!Next]_(Second!vars) => Second!Accounts'
  /\ Second!Control /\ [Second!Next]_(Second!vars) /\ Created(other_section') = {}
       => UNCHANGED <<Second!files, other_section, log>>
  /\ memory \in Second!Document /\ Second!Accounts
       => \A p \in Partition : Cardinality(Second!UnitsInside(p)) <= Capacity[p]
<1> USE SecondCounts, NAssumption, CapacityAssumption, MaxSizeAssumption
<1>1. Second!Init => Second!Control /\ Second!MemoryFile /\ Second!Accounts
  BY Second!ControlInit, Second!MemoryFileInit, Second!AccountsInit
<1>2. Second!Control /\ [Second!Next]_(Second!vars) => Second!Control'
  BY Second!ControlStep
<1>3. Second!Control /\ Second!MemoryFile /\ [Second!Next]_(Second!vars)
       => Second!MemoryFile'
  BY Second!MemoryFileStep
<1>4. Second!Control /\ Second!MemoryFile /\ Second!Accounts
       /\ [Second!Next]_(Second!vars) => Second!Accounts'
  BY Second!AccountsStep
<1>5. ASSUME Second!Control, [Second!Next]_(Second!vars), Created(other_section') = {}
      PROVE  UNCHANGED <<Second!files, other_section, log>>
  <2>1. \A t \in Thread : other_section'[t] = "unborn"
    BY <1>5 DEF Created
  <2>2. QED
    BY <1>5, <2>1, Second!NobodyWrites
<1>6. ASSUME memory \in Second!Document, Second!Accounts, NEW p \in Partition
      PROVE  Cardinality(Second!UnitsInside(p)) <= Capacity[p]
  <2>1. p \in Second!Partition
    BY DEF Partition, Second!Partition
  <2>2. QED
    BY <1>6, <2>1, Second!InsideFits
<1>7. QED
  BY <1>1, <1>2, <1>3, <1>4, <1>5, <1>6

(* A step of the second keeps the control of the first: it leaves all but  *)
(* the files and the log alone, and those with their types.                *)
LEMMA OthersKeepControl ==
  ASSUME Control, UNCHANGED mine, Second!Control'
  PROVE  Control'
<1>1. TypeOK'
  BY DEF Control, TypeOK, mine, locals, Second!Control, Second!TypeOK, Second!File,
         Second!FileStatus, Second!Document, Second!Partition, Second!LogEntry,
         Second!Tag, File, FileStatus, Document, Partition, LogEntry, Tag
<1>2. StageOK' /\ MutualExclusion'
  BY DEF Control, StageOK, MutualExclusion, Critical, mine
<1>3. QED
  BY <1>1, <1>2 DEF Control

(* And the other way round.                                                *)
LEMMA OthersKeepSecond ==
  ASSUME Second!Control, UNCHANGED others, Control'
  PROVE  Second!Control'
<1>1. Second!TypeOK'
  BY DEF Control, TypeOK, others, Second!locals, Second!Control, Second!TypeOK, Second!File,
         Second!FileStatus, Second!Document, Second!Partition, Second!LogEntry,
         Second!Tag, File, FileStatus, Document, Partition, LogEntry, Tag,
         Second!Algorithm, Second!Section, Second!Stage, Second!Size
<1>2. Second!StageOK' /\ Second!MutualExclusion'
  BY DEF Second!Control, Second!StageOK, Second!MutualExclusion, Second!Critical, others
<1>3. QED
  BY <1>1, <1>2 DEF Second!Control

(* A step of the two is a step of one, and the other stands still.         *)
LEMMA TwoSteps ==
  ASSUME [TwoNext]_<<vars, others>>
  PROVE  \/ [Next]_vars /\ UNCHANGED others
         \/ [Second!Next]_(Second!vars) /\ UNCHANGED mine
<1>1. CASE Next /\ UNCHANGED others
  BY <1>1
<1>2. CASE Other!Next /\ UNCHANGED mine
  BY <1>2, SecondIsOther
<1>3. CASE UNCHANGED <<vars, others>>
  BY <1>3
<1>4. QED
  BY <1>1, <1>2, <1>3 DEF TwoNext

(* Types, stages and mutual exclusion within each of the two.              *)
LEMMA BothControlled == TwoSpec => [](Control /\ Second!Control)
<1>1. TwoInit => Control /\ Second!Control
  BY ControlInit, SecondSteps, SecondIsOther DEF TwoInit
<1>2. Control /\ Second!Control /\ [TwoNext]_<<vars, others>> => (Control /\ Second!Control)'
  <2> SUFFICES ASSUME Control, Second!Control, [TwoNext]_<<vars, others>>
               PROVE  Control' /\ Second!Control'
    OBVIOUS
  <2>1. CASE [Next]_vars /\ UNCHANGED others
    BY <2>1, ControlStep, OthersKeepSecond
  <2>2. CASE [Second!Next]_(Second!vars) /\ UNCHANGED mine
    BY <2>2, SecondSteps, OthersKeepControl
  <2>3. QED
    BY <2>1, <2>2, TwoSteps
<1>3. QED
  BY <1>1, <1>2, PTL DEF TwoSpec

(* With two producers the workers of each still exclude each other between *)
(* sem_wait and sem_post, whatever the other does to the files: sem_init   *)
(* makes a semaphore for the process.                                      *)
THEOREM EachExcludesItsOwn == TwoSpec => [](MutualExclusion /\ Other!MutualExclusion)
<1>1. Control /\ Second!Control => MutualExclusion /\ Other!MutualExclusion
  BY SecondIsOther DEF Control, Second!Control
<1>2. QED
  BY BothControlled, <1>1, PTL

(* While one of the two has not created a worker, what is shown of the     *)
(* memory file holds for the other.                                        *)
Alone ==
  /\ Created(other_section) = {} => MemoryFile /\ Accounts
  /\ Created(section) = {} => Second!MemoryFile /\ Second!Accounts

(* As long as the second has no workers only the first writes the files,   *)
(* and its own steps keep what they keep when it is the only one.          *)
LEMMA AloneStep ==
  ASSUME Control, Second!Control, Alone, [TwoNext]_<<vars, others>>
  PROVE  Alone'
<1>1. CASE [Next]_vars /\ UNCHANGED others
  <2>1. ASSUME Created(other_section') = {} PROVE MemoryFile' /\ Accounts'
    <3>1. MemoryFile /\ Accounts
      BY <1>1, <2>1 DEF Alone, others
    <3>2. QED
      BY <1>1, <3>1, MemoryFileStep, AccountsStep
  <2>2. ASSUME Created(section') = {} PROVE Second!MemoryFile' /\ Second!Accounts'
    <3>1. UNCHANGED <<files, section, log>>
      BY <1>1, <2>2, NobodyWrites DEF Created
    <3>2. Second!MemoryFile /\ Second!Accounts
      BY <2>2, <3>1 DEF Alone
    <3>3. QED
      BY <1>1, <3>1, <3>2
         DEF files, others, Second!MemoryFile, Second!MemoryFileReady, Second!Rewriting,
             Second!Accounts, Second!Reservations, Second!SpaceConserved,
             Second!Holding, Second!Writing, Second!Computed
  <2>3. QED
    BY <2>1, <2>2 DEF Alone
<1>2. CASE [Second!Next]_(Second!vars) /\ UNCHANGED mine
  <2>1. ASSUME Created(section') = {} PROVE Second!MemoryFile' /\ Second!Accounts'
    <3>1. Second!MemoryFile /\ Second!Accounts
      BY <1>2, <2>1 DEF Alone, mine
    <3>2. QED
      BY <1>2, <3>1, SecondSteps
  <2>2. ASSUME Created(other_section') = {} PROVE MemoryFile' /\ Accounts'
    <3>1. UNCHANGED <<Second!files, other_section, log>>
      BY <1>2, <2>2, SecondSteps
    <3>2. MemoryFile /\ Accounts
      BY <2>2, <3>1 DEF Alone
    <3>3. QED
      BY <1>2, <3>1, <3>2
         DEF Second!files, mine, locals, MemoryFile, MemoryFileReady, Rewriting,
             Accounts, Reservations, SpaceConserved, Holding, Writing, Computed
  <2>3. QED
    BY <2>1, <2>2 DEF Alone
<1>3. QED
  BY <1>1, <1>2, TwoSteps

(* The workers inside a partition fit into it until both producers have    *)
(* created workers: one that waits at its menu, or has ended before it     *)
(* created any, does not disturb the other.                                *)
THEOREM OnlyTogetherTheyClash ==
  TwoSpec => [](NoClash \/ (Created(section) # {} /\ Created(other_section) # {}))
<1>1. TwoInit => Alone
  BY MemoryFileInit, AccountsInit, SecondSteps, SecondIsOther
     DEF TwoInit, Alone
<1>2. TwoSpec => []Alone
  BY <1>1, AloneStep, BothControlled, PTL DEF TwoSpec
<1>3. ASSUME Control, Second!Control, Alone
      PROVE  NoClash \/ (Created(section) # {} /\ Created(other_section) # {})
  <2>1. CASE Created(other_section) = {}
    <3>1. \A u \in Thread : ~Other!Holding(u)
      BY <2>1 DEF Created, Other!Holding
    <3>2. \A p \in Partition : UnitsGiven(p) = UnitsInside(p)
      BY <3>1 DEF UnitsGiven, UnitsInside
    <3>3. memory \in Document /\ Accounts
      BY <1>3, <2>1 DEF Alone, Control, TypeOK
    <3>4. QED
      BY <3>2, <3>3, InsideFits DEF NoClash
  <2>2. CASE Created(section) = {}
    <3>1. \A u \in Thread : ~Holding(u)
      BY <2>2 DEF Created, Holding
    <3>2. \A p \in Partition : UnitsGiven(p) = Second!UnitsInside(p)
      BY <3>1, SecondIsOther DEF UnitsGiven, Second!UnitsInside, Second!Size, Size
    <3>3. memory \in Second!Document /\ Second!Accounts
      BY <1>3, <2>2 DEF Alone, Second!Control, Second!TypeOK
    <3>4. QED
      BY <3>2, <3>3, SecondSteps DEF NoClash
  <2>3. QED
    BY <2>1, <2>2
<1>4. QED
  BY <1>2, <1>3, BothControlled, PTL
===============================================================================
