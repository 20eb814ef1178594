---------------------------- MODULE Producer_proof ----------------------------
(***************************************************************************)
(* The workers of producer.c, for any finite set of them and any           *)
(* partitions.  First the functions of the memory document: their types,   *)
(* their fields, and the balance of the accounts by counting units.  Then  *)
(* five invariants, each proved on top of the ones before:                 *)
(*                                                                         *)
(*   Control     types, the stages of each section, mutual exclusion;      *)
(*   MemoryFile  the memory file is whole except while its one writer is   *)
(*               between O_TRUNC and the end of strcpy;                    *)
(*   Accounts    the document in the file, the text its writer has         *)
(*               computed and the workers inside agree;                    *)
(*   LogTagsMatch, with TagReady: strclr and slog are one critical section;*)
(*   LogNeverOvercommits, with LogFollows: whoever the log shows with room *)
(*               is between its two lines, and inside whenever a line is   *)
(*               written.                                                  *)
(*                                                                         *)
(* From Accounts, the refinement: the copy of the memory file is the step  *)
(* in which the abstract allocator moves, the decision to reject its other *)
(* step, and every other step stutters.                                    *)
(***************************************************************************)
EXTENDS Producer, FiniteSetTheorems, FunctionTheorems, TLAPS

(* Lines 131-143 and 158-167 of producer.c turn a document into a document,*)
(* mem_index = -1 (where parson finds no object) included.                 *)
LEMMA DocumentTypes ==
  ASSUME NEW doc \in Document, NEW p \in {-1} \cup Partition,
         NEW t \in Thread, NEW s \in Size
  PROVE  Assign(doc, p, t, s) \in Document /\ Return(doc, p, t, s) \in Document
<1>1. Size \subseteq 0..MaxSize /\ 0 \in 0..MaxSize /\ Size \subseteq Int
  BY MaxSizeAssumption DEF Size
<1> DEFINE Entry == [free_space : Int, processes : [Thread -> 0..MaxSize]]
<1>2. doc \in [Partition -> Entry]
  BY DEF Document
<1>3. CASE p \in Partition
  <2>1. doc[p].free_space \in Int /\ doc[p].processes \in [Thread -> 0..MaxSize]
    BY <1>2, <1>3
  <2>2. [free_space |-> doc[p].free_space - s,
         processes  |-> [doc[p].processes EXCEPT ![t] = s]] \in Entry
    BY <1>1, <2>1
  <2>3. [free_space |-> doc[p].free_space + s,
         processes  |-> [doc[p].processes EXCEPT ![t] = 0]] \in Entry
    BY <1>1, <2>1
  <2> HIDE DEF Entry
  <2>4. QED
    BY <1>2, <2>2, <2>3 DEF Assign, Return, Document, Entry
<1>4. CASE p = -1
  <2>1. p \notin Partition
    BY <1>4, NAssumption DEF Partition
  <2> HIDE DEF Entry
  <2>2. QED
    BY <1>2, <2>1 DEF Assign, Return, Document, Entry
<1>5. QED
  BY <1>3, <1>4

(* What the initializer writes is a document.                              *)
LEMMA SchemaType == Schema \in Document
BY CapacityAssumption, MaxSizeAssumption DEF Schema, Document, Partition

(* The fields of the document after an assignment or a return.             *)
LEMMA Fields ==
  ASSUME NEW doc \in Document, NEW p \in Partition, NEW t \in Thread,
         NEW s \in Size, NEW q \in Partition, NEW u \in Thread
  PROVE  /\ Assign(doc, p, t, s)[q].free_space =
              IF q = p THEN doc[q].free_space - s ELSE doc[q].free_space
         /\ Return(doc, p, t, s)[q].free_space =
              IF q = p THEN doc[q].free_space + s ELSE doc[q].free_space
         /\ Assign(doc, p, t, s)[q].processes[u] =
              IF q = p /\ u = t THEN s ELSE doc[q].processes[u]
         /\ Return(doc, p, t, s)[q].processes[u] =
              IF q = p /\ u = t THEN 0 ELSE doc[q].processes[u]
BY DEF Assign, Return, Document

(* The units of one process of size s.                                     *)
Units(t, s) == {t} \X (1..s)

(* There are s of them.                                                    *)
LEMMA UnitsCardinality ==
  ASSUME NEW t, NEW s \in Size
  PROVE  IsFiniteSet(Units(t, s)) /\ Cardinality(Units(t, s)) = s
<1>1. s \in Int /\ s >= 1
  BY MaxSizeAssumption DEF Size
<1>2. IsFiniteSet({t}) /\ Cardinality({t}) = 1
  BY FS_Singleton
<1>3. IsFiniteSet(1..s) /\ Cardinality(1..s) = s
  BY <1>1, FS_Interval
<1>4. /\ IsFiniteSet({t} \X (1..s))
      /\ Cardinality({t} \X (1..s)) = Cardinality({t}) * Cardinality(1..s)
  BY <1>2, <1>3, FS_Product
<1>5. Cardinality({t}) * Cardinality(1..s) = s
  BY <1>1, <1>2, <1>3
<1>6. QED
  BY <1>4, <1>5 DEF Units

(* The units a document accounts for can be counted: the workers are       *)
(* finitely many, each of at most MaxSize units.                           *)
LEMMA OccupiedFinite ==
  ASSUME NEW doc, NEW p
  PROVE  IsFiniteSet(Occupied(doc, p)) /\ Cardinality(Occupied(doc, p)) \in Nat
<1>1. IsFiniteSet(Size)
  BY FS_Interval, MaxSizeAssumption DEF Size
<1>2. IsFiniteSet(Thread \X Size)
  BY <1>1, ThreadAssumption, FS_Product
<1>3. Occupied(doc, p) \in SUBSET (Thread \X Size)
  BY DEF Occupied
<1>4. IsFiniteSet(Occupied(doc, p))
  BY <1>2, <1>3, FS_Subset
<1>5. QED
  BY <1>4, FS_CardinalityType

(* An entry of size s that was not there adds s units.                     *)
LEMMA OccupiedAdd ==
  ASSUME NEW doc \in Document, NEW new \in Document, NEW p \in Partition,
         NEW t \in Thread, NEW s \in Size,
         doc[p].processes[t] = 0, new[p].processes[t] = s,
         \A u \in Thread \ {t} : new[p].processes[u] = doc[p].processes[u]
  PROVE  Cardinality(Occupied(new, p)) = Cardinality(Occupied(doc, p)) + s
<1>1. s \in Nat /\ 1..s \subseteq Size /\ Size \subseteq Nat
      /\ \A k \in Size : k >= 1
  BY MaxSizeAssumption DEF Size
<1>2. Occupied(new, p) = Occupied(doc, p) \cup Units(t, s)
  <2>1. ASSUME NEW v \in Occupied(new, p)
        PROVE  v \in Occupied(doc, p) \cup Units(t, s)
    <3>1. PICK u \in Thread, k \in Size : v = <<u, k>> /\ k <= new[p].processes[u]
      BY DEF Occupied
    <3>2. CASE u = t
      <4>1. k \in 1..s
        BY <1>1, <3>1, <3>2
      <4>2. QED
        BY <3>1, <3>2, <4>1 DEF Units
    <3>3. CASE u # t
      BY <3>1, <3>3 DEF Occupied
    <3>4. QED
      BY <3>2, <3>3
  <2>2. ASSUME NEW v \in Occupied(doc, p) PROVE v \in Occupied(new, p)
    <3>1. PICK u \in Thread, k \in Size : v = <<u, k>> /\ k <= doc[p].processes[u]
      BY DEF Occupied
    <3>2. k \in Nat /\ k >= 1
      BY <1>1
    <3>3. u # t
      BY <3>1, <3>2
    <3>4. QED
      BY <3>1, <3>3 DEF Occupied
  <2>3. ASSUME NEW v \in Units(t, s) PROVE v \in Occupied(new, p)
    BY <1>1, <2>3 DEF Occupied, Units
  <2>4. QED
    BY <2>1, <2>2, <2>3
<1>3. Occupied(doc, p) \cap Units(t, s) = {}
  BY <1>1 DEF Occupied, Units
<1>4. Cardinality(Occupied(new, p)) =
        Cardinality(Occupied(doc, p)) + Cardinality(Units(t, s)) - 0
  BY <1>2, <1>3, OccupiedFinite, UnitsCardinality, FS_Union, FS_EmptySet
<1>5. QED
  BY <1>1, <1>4, OccupiedFinite, UnitsCardinality

(* The units of a partition depend on its entries alone: another           *)
(* partition's assignment leaves them as they are.                         *)
LEMMA OccupiedSame ==
  ASSUME NEW doc, NEW new, NEW p,
         \A u \in Thread : new[p].processes[u] = doc[p].processes[u]
  PROVE  Occupied(new, p) = Occupied(doc, p)
BY DEF Occupied

(* A new entry keeps the balance of the document.                          *)
LEMMA AssignBalanced ==
  ASSUME NEW doc \in Document, NEW p \in Partition, NEW t \in Thread,
         NEW s \in Size, Balanced(doc), doc[p].processes[t] = 0
  PROVE  Balanced(Assign(doc, p, t, s))
<1> DEFINE new == Assign(doc, p, t, s)
<1>1. new \in Document
  BY DocumentTypes
<1>2. SUFFICES ASSUME NEW q \in Partition
               PROVE  new[q].free_space + Cardinality(Occupied(new, q)) =
                        Capacity[q]
  BY DEF Balanced
<1>3. doc[q].free_space + Cardinality(Occupied(doc, q)) = Capacity[q]
  BY DEF Balanced
<1>4. /\ new[q].free_space =
           IF q = p THEN doc[q].free_space - s ELSE doc[q].free_space
      /\ \A u \in Thread : new[q].processes[u] =
           IF q = p /\ u = t THEN s ELSE doc[q].processes[u]
  BY Fields
<1>5. doc[q].free_space \in Int /\ s \in Int
      /\ Cardinality(Occupied(doc, q)) \in Int
  BY OccupiedFinite, MaxSizeAssumption DEF Document, Size
<1> HIDE DEF new
<1>6. CASE q = p
  <2>1. Cardinality(Occupied(new, q)) = Cardinality(Occupied(doc, q)) + s
    BY <1>1, <1>4, <1>6, OccupiedAdd
  <2>2. QED
    BY <1>3, <1>4, <1>5, <1>6, <2>1
<1>7. CASE q # p
  BY <1>3, <1>4, <1>7, OccupiedSame
<1>8. QED
  BY <1>6, <1>7

(* Removing an entry with its size keeps the balance as well.              *)
LEMMA ReturnBalanced ==
  ASSUME NEW doc \in Document, NEW p \in Partition, NEW t \in Thread,
         NEW s \in Size, Balanced(doc), doc[p].processes[t] = s
  PROVE  Balanced(Return(doc, p, t, s))
<1> DEFINE new == Return(doc, p, t, s)
<1>1. new \in Document
  BY DocumentTypes
<1>2. SUFFICES ASSUME NEW q \in Partition
               PROVE  new[q].free_space + Cardinality(Occupied(new, q)) =
                        Capacity[q]
  BY DEF Balanced
<1>3. doc[q].free_space + Cardinality(Occupied(doc, q)) = Capacity[q]
  BY DEF Balanced
<1>4. /\ new[q].free_space =
           IF q = p THEN doc[q].free_space + s ELSE doc[q].free_space
      /\ \A u \in Thread : new[q].processes[u] =
           IF q = p /\ u = t THEN 0 ELSE doc[q].processes[u]
  BY Fields
<1>5. /\ doc[q].free_space \in Int /\ s \in Int
      /\ Cardinality(Occupied(new, q)) \in Int
  BY OccupiedFinite, MaxSizeAssumption DEF Document, Size
<1> HIDE DEF new
<1>6. CASE q = p
  <2>1. Cardinality(Occupied(doc, q)) = Cardinality(Occupied(new, q)) + s
    BY <1>1, <1>4, <1>6, OccupiedAdd
  <2>2. QED
    BY <1>3, <1>4, <1>5, <1>6, <2>1
<1>7. CASE q # p
  BY <1>3, <1>4, <1>7, OccupiedSame
<1>8. QED
  BY <1>6, <1>7

(* schema.json is balanced: nothing is in any partition.                   *)
LEMMA SchemaBalanced == Balanced(Schema)
<1> SUFFICES ASSUME NEW p \in Partition
             PROVE  Schema[p].free_space + Cardinality(Occupied(Schema, p)) =
                      Capacity[p]
  BY DEF Balanced
<1>1. Occupied(Schema, p) = {}
  BY MaxSizeAssumption DEF Occupied, Schema, Size
<1>2. Schema[p].free_space = Capacity[p] /\ Capacity[p] \in Nat
  BY CapacityAssumption DEF Schema, Partition
<1>3. QED
  BY <1>1, <1>2, FS_EmptySet
------------------------------------------------------------------------------

(* The semaphore is posted only by the one thread that took it, so its     *)
(* value, the type of sem_find_space, follows from mutual exclusion and is *)
(* proved together with it.                                                *)
Control == TypeOK /\ StageOK /\ MutualExclusion

(* Where a worker has the semaphore, and the stages of each section.       *)
CriticalSections == {"withdraw"} \cup MemorySections \cup LogSections

StagesOf(sec) ==
  IF sec \in WaitingSections \cup MemorySections
  THEN {"open", "parse", "null", "truncate", "stretch", "copy"}
  ELSE IF sec \in LogSections THEN {"strclr", "slog", "post"} ELSE {"idle"}

(* The types of what only worker threads change, and not in the files.     *)
LocalTypes ==
  /\ mem_index \in [Thread -> {-1} \cup Partition]
  /\ data \in [Thread -> Document]
  /\ data_waiting \in [Thread -> SUBSET Thread]
  /\ output \in Tag
  /\ log \in Seq(LogEntry)

(* Where a step of worker t takes it, whatever files it works on: it       *)
(* enters the critical sections only by taking the semaphore, and posts it *)
(* only as it leaves them; nobody is unborn again.                         *)
Moves(t) ==
  /\ section' \in [Thread -> Section] /\ stage' \in [Thread -> Stage]
  /\ \A u \in Thread \ {t} : section'[u] = section[u] /\ stage'[u] = stage[u]
  /\ section'[t] # "unborn" /\ stage'[t] \in StagesOf(section'[t])
  /\ \/ /\ UNCHANGED sem_find_space
        /\ section'[t] \in CriticalSections => section[t] \in CriticalSections
     \/ sem_find_space = 1 /\ sem_find_space' = 0
     \/ /\ section[t] \in CriticalSections /\ section'[t] \notin CriticalSections
        /\ sem_find_space' = sem_find_space + 1

(* The rest of what a step of worker t does to the process.                *)
Goes(t) ==
  /\ alive /\ alive' \in BOOLEAN
  /\ UNCHANGED <<main, g_algorithm, process_size>>
  /\ LocalTypes'
  /\ Moves(t)

(* The types of the two files.                                             *)
FileTypes ==
  /\ status \in [File -> FileStatus]
  /\ memory \in Document
  /\ waiting \in SUBSET Thread

(* Going so keeps at most one worker in the critical sections.             *)
LEMMA GoesKeepsControl ==
  ASSUME Control, NEW t \in Thread, Goes(t), FileTypes'
  PROVE  Control'
<1> USE DEF WaitingSections, MemorySections, LogSections
<1>0. /\ TypeOK /\ StageOK /\ MutualExclusion
      /\ section \in [Thread -> Section] /\ stage \in [Thread -> Stage]
      /\ sem_find_space \in {0, 1}
  BY DEF Control, TypeOK
<1>1. \A u \in Thread : Critical(u) <=> section[u] \in CriticalSections
  BY DEF Critical, CriticalSections
<1>2. \A u \in Thread : Critical(u)' <=> section'[u] \in CriticalSections
  BY DEF Critical, CriticalSections
<1> HIDE DEF WaitingSections, MemorySections, LogSections
<1>3. MutualExclusion' /\ sem_find_space' \in {0, 1}
  BY <1>0, <1>1, <1>2 DEF MutualExclusion, Goes, Moves
<1>4. StageOK'
  BY <1>0 DEF StageOK, StagesOf, Goes, Moves
<1>5. TypeOK'
  BY <1>0, <1>3 DEF Goes, Moves, TypeOK, FileTypes, LocalTypes
<1>6. QED
  BY <1>3, <1>4, <1>5 DEF Control

(* Every step of a worker moves so ...                                     *)
LEMMA StepMoves ==
  ASSUME Control, NEW t \in Thread, Step(t)
  PROVE  Moves(t)
<1>0. /\ section \in [Thread -> Section] /\ stage \in [Thread -> Stage]
      /\ sem_find_space \in {0, 1} /\ stage[t] \in StagesOf(section[t])
  BY DEF Control, TypeOK, StageOK, StagesOf
<1> USE DEF WaitingSections, MemorySections, LogSections, CriticalSections,
            StagesOf, At, GoTo, Advance, Exit, Section, Stage, Moves
<1>1. CASE OpenToRead(t)
  BY <1>1, <1>0 DEF OpenToRead
<1>2. CASE TouchTruncated(t)
  BY <1>2, <1>0 DEF TouchTruncated
<1>3. CASE ParseNothing(t)
  BY <1>3, <1>0 DEF ParseNothing
<1>4. CASE ParseAnnounce(t)
  BY <1>4, <1>0 DEF ParseAnnounce
<1>5. CASE ParseWithdraw(t)
  BY <1>5, <1>0 DEF ParseWithdraw
<1>6. CASE ParseAllocate(t)
  BY <1>6, <1>0 DEF ParseAllocate
<1>7. CASE Reject(t)
  BY <1>7, <1>0 DEF Reject
<1>8. CASE ParseRelease(t)
  BY <1>8, <1>0 DEF ParseRelease
<1>9. CASE Truncate(t)
  BY <1>9, <1>0 DEF Truncate
<1>10. CASE WriteNothing(t)
  BY <1>10, <1>0 DEF WriteNothing
<1>11. CASE Stretch(t)
  BY <1>11, <1>0 DEF Stretch
<1>12. CASE CopyWaiting(t)
  BY <1>12, <1>0 DEF CopyWaiting
<1>13. CASE CopyMemory(t)
  BY <1>13, <1>0 DEF CopyMemory
<1>14. CASE SemWait(t)
  BY <1>14, <1>0 DEF SemWait
<1>15. CASE Strclr(t)
  BY <1>15, <1>0 DEF Strclr
<1>16. CASE Slog(t)
  BY <1>16, <1>0 DEF Slog
<1>17. CASE SemPost(t)
  BY <1>17, <1>0 DEF SemPost
<1>18. CASE Wake(t)
  BY <1>18, <1>0 DEF Wake
<1>19. QED
  BY <1>1, <1>2, <1>3, <1>4, <1>5, <1>6, <1>7, <1>8, <1>9,
     <1>10, <1>11, <1>12, <1>13, <1>14, <1>15, <1>16, <1>17, <1>18 DEF Step

(* ... and keeps the types of everything else.                             *)
LEMMA StepGoes ==
  ASSUME Control, NEW t \in Thread, Step(t)
  PROVE  Goes(t) /\ FileTypes'
<1>0. Moves(t) /\ FileTypes /\ LocalTypes /\ process_size[t] \in Size
      /\ alive \in BOOLEAN
  BY StepMoves DEF Control, TypeOK, FileTypes, LocalTypes
<1> USE DEF WaitingSections, At, SetStatus, FileOf, files, locals, logging,
            Goes, LocalTypes, FileTypes, File, FileStatus
<1>1. CASE OpenToRead(t)
  BY <1>1, <1>0 DEF OpenToRead
<1>2. CASE TouchTruncated(t)
  BY <1>2, <1>0 DEF TouchTruncated
<1>3. CASE ParseNothing(t)
  BY <1>3, <1>0 DEF ParseNothing
<1>4. CASE ParseAnnounce(t)
  BY <1>4, <1>0 DEF ParseAnnounce
<1>5. CASE ParseWithdraw(t)
  BY <1>5, <1>0 DEF ParseWithdraw
<1>6. CASE ParseAllocate(t)
  <2>1. PICK p \in Partition :
          /\ mem_index' = [mem_index EXCEPT ![t] = p]
          /\ data' = [data EXCEPT ![t] = Assign(memory, p, t, process_size[t])]
    BY <1>6 DEF ParseAllocate
  <2>2. Assign(memory, p, t, process_size[t]) \in Document
    BY <1>0, DocumentTypes
  <2>3. LocalTypes'
    BY <1>6, <1>0, <2>1, <2>2 DEF ParseAllocate
  <2>4. QED
    BY <1>6, <1>0, <2>3 DEF ParseAllocate
<1>7. CASE Reject(t)
  BY <1>7, <1>0 DEF Reject
<1>8. CASE ParseRelease(t)
  BY <1>8, <1>0, DocumentTypes DEF ParseRelease
<1>9. CASE Truncate(t)
  BY <1>9, <1>0 DEF Truncate
<1>10. CASE WriteNothing(t)
  BY <1>10, <1>0 DEF WriteNothing
<1>11. CASE Stretch(t)
  BY <1>11, <1>0 DEF Stretch
<1>12. CASE CopyWaiting(t)
  BY <1>12, <1>0 DEF CopyWaiting
<1>13. CASE CopyMemory(t)
  BY <1>13, <1>0, SchemaType DEF CopyMemory
<1>14. CASE SemWait(t)
  BY <1>14, <1>0 DEF SemWait
<1>15. CASE Strclr(t)
  BY <1>15, <1>0 DEF Strclr, TagOf, Tag, LogEntry
<1>16. CASE Slog(t)
  BY <1>16, <1>0 DEF Slog, TagOf, Tag, LogEntry
<1>17. CASE SemPost(t)
  BY <1>17, <1>0 DEF SemPost
<1>18. CASE Wake(t)
  BY <1>18, <1>0 DEF Wake
<1>19. QED
  BY <1>1, <1>2, <1>3, <1>4, <1>5, <1>6, <1>7, <1>8, <1>9,
     <1>10, <1>11, <1>12, <1>13, <1>14, <1>15, <1>16, <1>17, <1>18 DEF Step

(* Types, stages and mutual exclusion are kept by every step.             *)
LEMMA ControlStep == Control /\ [Next]_vars => Control'
<1> SUFFICES ASSUME Control, [Next]_vars PROVE Control'
  OBVIOUS
<1>1. ASSUME NEW t \in Thread, CreateThread(t) PROVE Control'
  BY <1>1 DEF CreateThread, Control, TypeOK, StageOK, MutualExclusion, Critical,
              WaitingSections, MemorySections, LogSections, Section, Stage,
              GoTo, files, logging
<1>2. ASSUME NEW t \in Thread, Step(t) PROVE Control'
  BY <1>2, StepGoes, GoesKeepsControl
<1>3. CASE CreateFails \/ SigQuit \/ Die \/ Gone \/ UNCHANGED vars
  BY <1>3 DEF CreateFails, SigQuit, Die, Gone, vars, Control, TypeOK,
              StageOK, MutualExclusion, Critical, files, locals, logging
<1>4. QED
  BY <1>1, <1>2, <1>3 DEF Next

(* They hold at the start ...                                              *)
LEMMA ControlInit == Init => Control
<1>1. Init => TypeOK
  BY SchemaType, MaxSizeAssumption
     DEF Init, TypeOK, File, FileStatus, Section, Stage, Size, Tag, LogEntry
<1>2. Init => StageOK /\ MutualExclusion
  BY DEF Init, StageOK, MutualExclusion, Critical, WaitingSections,
         MemorySections, LogSections
<1>3. QED
  BY <1>1, <1>2 DEF Control

(* ... and in every reachable state of the producer.                       *)
THEOREM ControlCorrect == Spec => []Control
BY ControlInit, ControlStep, PTL DEF Spec

(* Every variable keeps its type: in particular sem_find_space is 0 or 1.  *)
THEOREM TypeCorrect == Spec => []TypeOK
BY ControlCorrect, PTL DEF Control

(* Only one worker is between sem_wait and sem_post.                       *)
THEOREM Exclusion == Spec => []MutualExclusion
BY ControlCorrect, PTL DEF Control
------------------------------------------------------------------------------
(* Between O_TRUNC and the end of strcpy, the memory file is not whole.    *)
Rewriting(t) == section[t] \in MemorySections /\ stage[t] \in {"stretch", "copy"}

(* Whoever reads the memory file, and who opens it next, finds it whole.   *)
MemoryFile ==
  /\ MemoryFileReady
  /\ (\A t \in Thread : ~Rewriting(t)) => status["memory"] = "json"

(* It is so at the start ...                                               *)
LEMMA MemoryFileInit == Init => MemoryFile
BY DEF Init, MemoryFile, MemoryFileReady, Rewriting, MemorySections, File

(* ... and every step keeps it so: only the worker in the critical section *)
(* rewrites the file, and it leaves after the last copy.                   *)
LEMMA MemoryFileStep == Control /\ MemoryFile /\ [Next]_vars => MemoryFile'
<1> SUFFICES ASSUME Control, MemoryFile, [Next]_vars PROVE MemoryFile'
  OBVIOUS
<1> USE DEF Control, TypeOK, StageOK, MutualExclusion, Critical,
            WaitingSections, MemorySections, LogSections, File,
            At, GoTo, Advance, Exit, SetStatus, FileOf, files,
            MemoryFile, MemoryFileReady, Rewriting
<1>1. ASSUME NEW t \in Thread, CreateThread(t) PROVE MemoryFile'
  BY <1>1 DEF CreateThread
<1>2. ASSUME NEW t \in Thread, OpenToRead(t) PROVE MemoryFile'
  BY <1>2 DEF OpenToRead
<1>3. ASSUME NEW t \in Thread, TouchTruncated(t) PROVE MemoryFile'
  BY <1>3 DEF TouchTruncated
<1>4. ASSUME NEW t \in Thread, ParseNothing(t) PROVE MemoryFile'
  BY <1>4 DEF ParseNothing
<1>5. ASSUME NEW t \in Thread, ParseAnnounce(t) PROVE MemoryFile'
  BY <1>5 DEF ParseAnnounce
<1>6. ASSUME NEW t \in Thread, ParseWithdraw(t) PROVE MemoryFile'
  BY <1>6 DEF ParseWithdraw
<1>7. ASSUME NEW t \in Thread, ParseAllocate(t) PROVE MemoryFile'
  BY <1>7 DEF ParseAllocate
<1>8. ASSUME NEW t \in Thread, Reject(t) PROVE MemoryFile'
  BY <1>8 DEF Reject
<1>9. ASSUME NEW t \in Thread, ParseRelease(t) PROVE MemoryFile'
  BY <1>9 DEF ParseRelease
<1>10. ASSUME NEW t \in Thread, Truncate(t) PROVE MemoryFile'
  BY <1>10 DEF Truncate
<1>11. ASSUME NEW t \in Thread, WriteNothing(t) PROVE MemoryFile'
  BY <1>11 DEF WriteNothing
<1>12. ASSUME NEW t \in Thread, Stretch(t) PROVE MemoryFile'
  <2>1. CASE section[t] \in WaitingSections
    BY <1>12, <2>1 DEF Stretch
  <2>2. CASE section[t] \in MemorySections
    <3>1. status["memory"] = "empty"
      BY <1>12, <2>2 DEF Stretch
    <3>2. status'["memory"] = "blank"
      BY <1>12, <2>2, <3>1 DEF Stretch, StretchOutcome
    <3>3. QED
      BY <1>12, <2>2, <3>2 DEF Stretch
  <2>3. QED
    BY <1>12, <2>1, <2>2 DEF Stretch
<1>13. ASSUME NEW t \in Thread, CopyWaiting(t) PROVE MemoryFile'
  BY <1>13 DEF CopyWaiting, CopyOutcome
<1>14. ASSUME NEW t \in Thread, CopyMemory(t) PROVE MemoryFile'
  BY <1>14 DEF CopyMemory, CopyOutcome, Disturbed
<1>15. ASSUME NEW t \in Thread, SemWait(t) PROVE MemoryFile'
  BY <1>15 DEF SemWait
<1>16. ASSUME NEW t \in Thread, Strclr(t) PROVE MemoryFile'
  BY <1>16 DEF Strclr
<1>17. ASSUME NEW t \in Thread, Slog(t) PROVE MemoryFile'
  BY <1>17 DEF Slog
<1>18. ASSUME NEW t \in Thread, SemPost(t) PROVE MemoryFile'
  BY <1>18 DEF SemPost
<1>19. ASSUME NEW t \in Thread, Wake(t) PROVE MemoryFile'
  BY <1>19 DEF Wake
<1>20. CASE CreateFails \/ SigQuit \/ Die \/ Gone \/ UNCHANGED vars
  BY <1>20 DEF CreateFails, SigQuit, Die, Gone, vars
<1>21. QED
  BY <1>1, <1>2, <1>3, <1>4, <1>5, <1>6, <1>7, <1>8, <1>9, <1>10,
     <1>11, <1>12, <1>13, <1>14, <1>15, <1>16, <1>17, <1>18, <1>19, <1>20 DEF Next, Step

(* The memory file is whole whenever a worker reads it.                    *)
THEOREM MemoryFileCorrect == Spec => []MemoryFile
BY ControlCorrect, MemoryFileInit, MemoryFileStep, PTL DEF Spec

(* No worker ever meets an empty or half written memory file.              *)
THEOREM MemoryFileAlwaysReady == Spec => []MemoryFileReady
BY MemoryFileCorrect, PTL DEF MemoryFile
------------------------------------------------------------------------------
(* The text a worker has computed for the memory file is its change of the *)
(* document that is still in the file, made for the right partition.       *)
Computed(t) ==
  /\ mem_index[t] \in Partition
  /\ section[t] = "allocate" =>
       /\ Returns(FreeSpaces(memory), process_size[t], g_algorithm, mem_index[t])
       /\ data[t] = Assign(memory, mem_index[t], t, process_size[t])
  /\ section[t] = "release" =>
       data[t] = Return(memory, mem_index[t], t, process_size[t])

(* The worker t has computed a text that is not yet in the memory file.    *)
Writing(t) == /\ section[t] \in MemorySections
              /\ stage[t] \in {"truncate", "stretch", "copy"}

(* What has been computed from the text read is right for the text in the  *)
(* file, and that text is right for the workers inside.                    *)
Accounts ==
  /\ Reservations
  /\ SpaceConserved
  /\ \A t \in Thread : Holding(t) => mem_index[t] \in Partition
  /\ \A t \in Thread : Writing(t) => Computed(t)

(* An assignment where search_index said keeps every free space at or      *)
(* above zero.                                                             *)
LEMMA AssignFits ==
  ASSUME NEW doc \in Document, NEW p \in Partition, NEW t \in Thread,
         NEW s \in Size, NEW algorithm,
         Returns(FreeSpaces(doc), s, algorithm, p),
         \A q \in Partition : doc[q].free_space >= 0
  PROVE  \A q \in Partition : Assign(doc, p, t, s)[q].free_space >= 0
<1>1. doc[p].free_space >= s
  <2>1. p # -1
    BY NAssumption DEF Partition
  <2>2. p \in Fitting(FreeSpaces(doc), s)
    BY <2>1 DEF Returns
  <2>3. QED
    BY <2>2 DEF Fitting, Fits, FreeSpaces
<1>2. s \in Int /\ \A q \in Partition : doc[q].free_space \in Int
  BY MaxSizeAssumption DEF Size, Document
<1>3. QED
  BY <1>1, <1>2, Fields

(* A return keeps every free space at or above zero.                       *)
LEMMA ReturnFits ==
  ASSUME NEW doc \in Document, NEW p \in Partition, NEW t \in Thread,
         NEW s \in Size, \A q \in Partition : doc[q].free_space >= 0
  PROVE  \A q \in Partition : Return(doc, p, t, s)[q].free_space >= 0
<1>1. /\ s \in Int /\ s >= 0
      /\ \A q \in Partition : doc[q].free_space \in Int
  BY MaxSizeAssumption DEF Size, Document
<1>2. QED
  BY <1>1, Fields

(* Nothing is taken at the start.                                          *)
LEMMA AccountsInit == Init => Accounts
<1> SUFFICES ASSUME Init PROVE Accounts
  OBVIOUS
<1>1. Reservations
  BY DEF Init, Reservations, Schema, Holding
<1>2. SpaceConserved
  <2>1. \A p \in Partition : Schema[p].free_space >= 0
    BY CapacityAssumption DEF Schema, Partition
  <2>2. QED
    BY <2>1, SchemaBalanced DEF Init, SpaceConserved
<1>3. QED
  BY <1>1, <1>2 DEF Init, Accounts, Holding, Writing, MemorySections

(* The document, the text being written and the workers inside agree after *)
(* every step: the writer is alone, so what it computed from the text it   *)
(* read is still right for the text it replaces.                           *)
LEMMA AccountsStep == Control /\ MemoryFile /\ Accounts /\ [Next]_vars => Accounts'
<1> SUFFICES ASSUME Control, MemoryFile, Accounts, [Next]_vars
             PROVE  Accounts'
  OBVIOUS
<1> USE DEF Control, TypeOK, StageOK, MutualExclusion, Critical,
            WaitingSections, MemorySections, LogSections,
            At, GoTo, Advance, Exit, FileOf, files, locals,
            MemoryFile, MemoryFileReady,
            Accounts, Reservations, SpaceConserved, Holding, Writing, Computed
<1>1. ASSUME NEW t \in Thread, CreateThread(t) PROVE Accounts'
  BY <1>1 DEF CreateThread
<1>2. ASSUME NEW t \in Thread, OpenToRead(t) PROVE Accounts'
  <2>1. CASE section[t] \in WaitingSections
    BY <1>2, <2>1 DEF OpenToRead
  <2>2. CASE section[t] \in MemorySections
    <3>1. Advance(t, "parse")
      BY <1>2, <2>2 DEF OpenToRead
    <3>2. QED
      BY <1>2, <2>2, <3>1 DEF OpenToRead
  <2>3. QED
    BY <1>2, <2>1, <2>2 DEF OpenToRead
<1>3. ASSUME NEW t \in Thread, TouchTruncated(t) PROVE Accounts'
  BY <1>3 DEF TouchTruncated
<1>4. ASSUME NEW t \in Thread, ParseNothing(t) PROVE Accounts'
  BY <1>4 DEF ParseNothing
<1>5. ASSUME NEW t \in Thread, ParseAnnounce(t) PROVE Accounts'
  BY <1>5 DEF ParseAnnounce
<1>6. ASSUME NEW t \in Thread, ParseWithdraw(t) PROVE Accounts'
  BY <1>6 DEF ParseWithdraw
<1>7. ASSUME NEW t \in Thread, ParseAllocate(t) PROVE Accounts'
  <2>1. PICK p \in Partition :
          /\ Returns(FreeSpaces(memory), process_size[t], g_algorithm, p)
          /\ mem_index' = [mem_index EXCEPT ![t] = p]
          /\ data' = [data EXCEPT ![t] = Assign(memory, p, t, process_size[t])]
    BY <1>7 DEF ParseAllocate
  <2>2. Computed(t)'
    BY <1>7, <2>1 DEF ParseAllocate
  <2>3. \A u \in Thread : Holding(u)' = Holding(u) /\ (Holding(u) => u # t)
    BY <1>7 DEF ParseAllocate
  <2>4. \A u \in Thread \ {t} : ~Writing(u)'
    BY <1>7 DEF ParseAllocate
  <2>5. Reservations' /\ SpaceConserved'
    BY <1>7, <2>1, <2>3 DEF ParseAllocate
  <2>6. \A u \in Thread : Holding(u)' => mem_index'[u] \in Partition
    BY <2>1, <2>3
  <2>7. QED
    BY <2>2, <2>4, <2>5, <2>6
<1>8. ASSUME NEW t \in Thread, Reject(t) PROVE Accounts'
  BY <1>8 DEF Reject
<1>9. ASSUME NEW t \in Thread, ParseRelease(t) PROVE Accounts'
  BY <1>9 DEF ParseRelease
<1>10. ASSUME NEW t \in Thread, Truncate(t) PROVE Accounts'
  BY <1>10 DEF Truncate
<1>11. ASSUME NEW t \in Thread, WriteNothing(t) PROVE Accounts'
  BY <1>11 DEF WriteNothing
<1>12. ASSUME NEW t \in Thread, Stretch(t) PROVE Accounts'
  BY <1>12 DEF Stretch
<1>13. ASSUME NEW t \in Thread, CopyWaiting(t) PROVE Accounts'
  BY <1>13 DEF CopyWaiting
<1>14. ASSUME NEW t \in Thread, CopyMemory(t) PROVE Accounts'
  <2>1. memory' = data[t] /\ Computed(t) /\ UNCHANGED <<process_size, mem_index>>
    BY <1>14 DEF CopyMemory
  <2> DEFINE p == mem_index[t]
             s == process_size[t]
  <2>2. p \in Partition /\ s \in Size /\ memory \in Document
    BY <2>1
  <2>3. \A u \in Thread : ~Writing(u)'
    BY <1>14 DEF CopyMemory
  <2>4. \A u \in Thread \ {t} : Holding(u)' = Holding(u)
    BY <1>14 DEF CopyMemory
  <2>5. CASE section[t] = "allocate"
    <3>1. memory' = Assign(memory, p, t, s) /\ Holding(t)' /\ ~Holding(t)
      BY <1>14, <2>1, <2>5 DEF CopyMemory
    <3>2. memory[p].processes[t] = 0
      BY <2>2, <3>1
    <3>3. Reservations'
      BY <2>1, <2>2, <2>4, <3>1, Fields
    <3>4. Balanced(memory')
      BY <2>2, <3>1, <3>2, AssignBalanced
    <3>5. Returns(FreeSpaces(memory), s, g_algorithm, p)
      BY <2>1, <2>5
    <3>6. \A q \in Partition : memory'[q].free_space >= 0
      BY <2>2, <3>1, <3>5, AssignFits
    <3>7. SpaceConserved'
      BY <3>4, <3>6
    <3>8. QED
      BY <2>1, <2>2, <2>3, <2>4, <3>3, <3>7
  <2>6. CASE section[t] = "release"
    <3>1. memory' = Return(memory, p, t, s) /\ ~Holding(t)' /\ Holding(t)
      BY <1>14, <2>1, <2>6 DEF CopyMemory
    <3>2. memory[p].processes[t] = s
      BY <2>2, <3>1
    <3>3. Reservations'
      BY <2>1, <2>2, <2>4, <3>1, Fields
    <3>4. Balanced(memory')
      BY <2>2, <3>1, <3>2, ReturnBalanced
    <3>5. \A q \in Partition : memory'[q].free_space >= 0
      BY <2>2, <3>1, ReturnFits
    <3>6. SpaceConserved'
      BY <3>4, <3>5
    <3>7. QED
      BY <2>1, <2>2, <2>3, <2>4, <3>3, <3>6
  <2>7. QED
    BY <1>14, <2>5, <2>6 DEF CopyMemory
<1>15. ASSUME NEW t \in Thread, SemWait(t) PROVE Accounts'
  BY <1>15 DEF SemWait
<1>16. ASSUME NEW t \in Thread, Strclr(t) PROVE Accounts'
  BY <1>16 DEF Strclr
<1>17. ASSUME NEW t \in Thread, Slog(t) PROVE Accounts'
  BY <1>17 DEF Slog
<1>18. ASSUME NEW t \in Thread, SemPost(t) PROVE Accounts'
  BY <1>18 DEF SemPost
<1>19. ASSUME NEW t \in Thread, Wake(t) PROVE Accounts'
  BY <1>19 DEF Wake
<1>20. CASE CreateFails \/ SigQuit \/ Die \/ Gone \/ UNCHANGED vars
  BY <1>20 DEF CreateFails, SigQuit, Die, Gone, vars
<1>21. QED
  BY <1>1, <1>2, <1>3, <1>4, <1>5, <1>6, <1>7, <1>8, <1>9, <1>10,
     <1>11, <1>12, <1>13, <1>14, <1>15, <1>16, <1>17, <1>18, <1>19, <1>20 DEF Next, Step

(* The document, the text being written and the workers inside agree.      *)
THEOREM AccountsCorrect == Spec => []Accounts
BY ControlCorrect, MemoryFileCorrect, AccountsInit, AccountsStep, PTL DEF Spec

(* The entries of the memory document are exactly the workers inside.      *)
THEOREM ReservationsExact == Spec => []Reservations
BY AccountsCorrect, PTL DEF Accounts

(* Free space and entries add up to the size of every partition, and no    *)
(* partition is overcommitted.                                             *)
THEOREM Conservation == Spec => []SpaceConserved
BY AccountsCorrect, PTL DEF Accounts
------------------------------------------------------------------------------
(* A worker about to call slog finds the tag of its own section in the     *)
(* buffer of strclr.                                                       *)
TagReady ==
  \A t \in Thread :
    stage[t] = "slog" => output = TagOf(section[t])

(* The static buffer of strclr still holds the worker's own tag when slog  *)
(* uses it, because strclr and slog are called under the semaphore.        *)
THEOREM LogTags == Spec => []LogTagsMatch
<1> DEFINE Inv == TagReady /\ LogTagsMatch
<1>1. Init => Inv
  BY DEF Init, TagReady, LogTagsMatch
<1>2. Control /\ Inv /\ [Next]_vars => Inv'
  <2> SUFFICES ASSUME Control, Inv, [Next]_vars PROVE Inv'
    OBVIOUS
  <2> USE DEF Control, TypeOK, StageOK, MutualExclusion, Critical,
              WaitingSections, MemorySections, LogSections,
              At, GoTo, Advance, Exit, logging, TagReady, LogTagsMatch
  <2>1. ASSUME NEW t \in Thread, CreateThread(t) PROVE Inv'
    BY <2>1 DEF CreateThread
  <2>2. ASSUME NEW t \in Thread, OpenToRead(t) PROVE Inv'
    BY <2>2 DEF OpenToRead
  <2>3. ASSUME NEW t \in Thread, TouchTruncated(t) PROVE Inv'
    BY <2>3 DEF TouchTruncated
  <2>4. ASSUME NEW t \in Thread, ParseNothing(t) PROVE Inv'
    BY <2>4 DEF ParseNothing
  <2>5. ASSUME NEW t \in Thread, ParseAnnounce(t) PROVE Inv'
    BY <2>5 DEF ParseAnnounce
  <2>6. ASSUME NEW t \in Thread, ParseWithdraw(t) PROVE Inv'
    BY <2>6 DEF ParseWithdraw
  <2>7. ASSUME NEW t \in Thread, ParseAllocate(t) PROVE Inv'
    BY <2>7 DEF ParseAllocate
  <2>8. ASSUME NEW t \in Thread, Reject(t) PROVE Inv'
    BY <2>8 DEF Reject
  <2>9. ASSUME NEW t \in Thread, ParseRelease(t) PROVE Inv'
    BY <2>9 DEF ParseRelease
  <2>10. ASSUME NEW t \in Thread, Truncate(t) PROVE Inv'
    BY <2>10 DEF Truncate
  <2>11. ASSUME NEW t \in Thread, WriteNothing(t) PROVE Inv'
    BY <2>11 DEF WriteNothing
  <2>12. ASSUME NEW t \in Thread, Stretch(t) PROVE Inv'
    BY <2>12 DEF Stretch
  <2>13. ASSUME NEW t \in Thread, CopyWaiting(t) PROVE Inv'
    BY <2>13 DEF CopyWaiting
  <2>14. ASSUME NEW t \in Thread, CopyMemory(t) PROVE Inv'
    BY <2>14 DEF CopyMemory
  <2>15. ASSUME NEW t \in Thread, SemWait(t) PROVE Inv'
    BY <2>15 DEF SemWait
  <2>16. ASSUME NEW t \in Thread, Strclr(t) PROVE Inv'
    <3>1. \A u \in Thread \ {t} : stage[u] # "slog"
      BY <2>16 DEF Strclr
    <3>2. QED
      BY <2>16, <3>1 DEF Strclr
  <2>17. ASSUME NEW t \in Thread, Slog(t) PROVE Inv'
    <3>1. \A u \in Thread : stage'[u] = "slog" => u # t /\ stage[u] = "slog"
      BY <2>17 DEF Slog
    <3>2. log' = Append(log, [tag |-> output, event |-> TagOf(section[t]), id |-> t])
          /\ output = TagOf(section[t]) /\ UNCHANGED <<output, section>>
      BY <2>17 DEF Slog
    <3> DEFINE line == [tag |-> output, event |-> TagOf(section[t]), id |-> t]
    <3>3. line.tag = line.event
      BY <3>2
    <3>4. \A k \in DOMAIN log' :
            log'[k] = line \/ (k \in DOMAIN log /\ log'[k] = log[k])
      <4>1. log \in Seq(LogEntry) /\ log' = Append(log, line)
        BY <3>2
      <4> HIDE DEF line
      <4>2. /\ Len(log) \in Nat /\ DOMAIN log = 1..Len(log)
            /\ DOMAIN log' = 1..Len(log) + 1
        BY <4>1
      <4>3. \A k \in 1..Len(log) + 1 :
              log'[k] = IF k = Len(log) + 1 THEN line ELSE log[k]
        BY <4>1
      <4>4. QED
        BY <4>2, <4>3
    <3>5. LogTagsMatch'
      BY <3>3, <3>4
    <3>6. QED
      BY <3>1, <3>2, <3>5
  <2>18. ASSUME NEW t \in Thread, SemPost(t) PROVE Inv'
    BY <2>18 DEF SemPost
  <2>19. ASSUME NEW t \in Thread, Wake(t) PROVE Inv'
    BY <2>19 DEF Wake
  <2>20. CASE CreateFails \/ SigQuit \/ Die \/ Gone \/ UNCHANGED vars
    BY <2>20 DEF CreateFails, SigQuit, Die, Gone, vars
  <2>21. QED
    BY <2>1, <2>2, <2>3, <2>4, <2>5, <2>6, <2>7, <2>8, <2>9, <2>10,
       <2>11, <2>12, <2>13, <2>14, <2>15, <2>16, <2>17, <2>18, <2>19, <2>20 DEF Next, Step
<1>3. QED
  BY ControlCorrect, <1>1, <1>2, PTL DEF Spec
------------------------------------------------------------------------------
(* No thread is unborn again, and its size is chosen once.                 *)
LEMMA BornOnce ==
  ASSUME Control, [Next]_vars, NEW t \in Thread, section[t] # "unborn"
  PROVE  section'[t] # "unborn" /\ process_size'[t] = process_size[t]
<1>1. ASSUME NEW u \in Thread, CreateThread(u)
      PROVE  section'[t] # "unborn" /\ process_size'[t] = process_size[t]
  <2>1. t # u
    BY <1>1 DEF CreateThread
  <2>2. QED
    BY <1>1, <2>1 DEF CreateThread, GoTo, Control, TypeOK
<1>2. ASSUME NEW u \in Thread, Step(u)
      PROVE  section'[t] # "unborn" /\ process_size'[t] = process_size[t]
  BY <1>2, StepGoes DEF Goes, Moves
<1>3. CASE CreateFails \/ SigQuit \/ Die \/ Gone \/ UNCHANGED vars
  BY <1>3 DEF CreateFails, SigQuit, Die, Gone, vars, locals
<1>4. QED
  BY <1>1, <1>2, <1>3 DEF Next

(* While no thread is born nobody works on the files.                      *)
LEMMA NobodyWrites ==
  ASSUME Control, [Next]_vars, \A t \in Thread : section'[t] = "unborn"
  PROVE  UNCHANGED <<files, section, log>>
<1>1. ASSUME NEW t \in Thread PROVE ~CreateThread(t)
  <2>1. CreateThread(t) => section'[t] = "announce"
    BY DEF CreateThread, GoTo, Control, TypeOK
  <2>2. QED
    BY <2>1
<1>2. ASSUME NEW t \in Thread PROVE ~Step(t)
  <2>1. section[t] = "unborn"
    BY BornOnce
  <2>2. stage[t] = "idle"
    BY <2>1 DEF Control, StageOK, WaitingSections, MemorySections, LogSections
  <2>3. QED
    BY <2>1, <2>2
       DEF Step, At, OpenToRead, TouchTruncated, ParseNothing, ParseAnnounce,
           ParseWithdraw, ParseAllocate, Reject, ParseRelease, Truncate,
           WriteNothing, Stretch, CopyWaiting, CopyMemory, SemWait, Strclr,
           Slog, SemPost, Wake
<1>3. CASE CreateFails \/ SigQuit \/ Die \/ Gone \/ UNCHANGED vars
  BY <1>3 DEF CreateFails, SigQuit, Die, Gone, vars, files, logging
<1>4. QED
  BY <1>1, <1>2, <1>3 DEF Next

(* The units the workers inside partition p were given.                    *)
UnitsInside(p) ==
  {u \in Thread \X Size : /\ Holding(u[1]) /\ mem_index[u[1]] = p
                          /\ u[2] <= process_size[u[1]]}

(* They fit, since the document has them all and is not overcommitted.     *)
LEMMA InsideFits ==
  ASSUME memory \in Document, Accounts, NEW p \in Partition
  PROVE  Cardinality(UnitsInside(p)) <= Capacity[p]
<1>1. UnitsInside(p) = Occupied(memory, p)
  BY DEF UnitsInside, Occupied, Accounts, Reservations, Size
<1>2. Cardinality(Occupied(memory, p)) \in Nat
  BY OccupiedFinite
<1>3. /\ memory[p].free_space \in Int /\ memory[p].free_space >= 0
      /\ memory[p].free_space + Cardinality(Occupied(memory, p)) = Capacity[p]
  BY DEF Document, Accounts, SpaceConserved, Balanced
<1>4. Capacity[p] \in Nat
  BY CapacityAssumption DEF Partition
<1>5. QED
  BY <1>1, <1>2, <1>3, <1>4

(* The first c numbers are enough to tell the elements of a set of at most *)
(* c apart.                                                                *)
LEMMA Ranks ==
  ASSUME NEW S, IsFiniteSet(S), NEW c \in Nat, Cardinality(S) <= c
  PROVE  \E f \in [S -> 1..c] : \A a, b \in S : f[a] = f[b] => a = b
<1>1. Cardinality(S) \in Nat /\ ExistsBijection(1..Cardinality(S), S)
  BY FS_CardinalityType
<1>2. PICK g : g \in Bijection(1..Cardinality(S), S)
  BY <1>1 DEF ExistsBijection
<1>3. PICK f : f \in Bijection(S, 1..Cardinality(S))
  BY <1>2, Fun_BijInverse
<1>4. f \in [S -> 1..Cardinality(S)] /\ \A a, b \in S : f[a] = f[b] => a = b
  BY <1>3 DEF Bijection, Injection, IsInjective
<1>5. 1..Cardinality(S) \subseteq 1..c
  BY <1>1
<1>6. QED
  BY <1>4, <1>5

(* The partitions have finitely many units.                                *)
LEMMA TotalFinite == IsFiniteSet(TotalUnits)
<1> DEFINE T == {{p} \X (1..Capacity[p]) : p \in Partition}
           f == [p \in Partition |-> {p} \X (1..Capacity[p])]
<1>1. IsFiniteSet(Partition)
  BY NAssumption, FS_Interval DEF Partition
<1>2. f \in Surjection(Partition, T)
  BY DEF Surjection
<1>3. IsFiniteSet(T)
  BY <1>1, <1>2, FS_Surjection
<1>4. ASSUME NEW p \in Partition PROVE IsFiniteSet({p} \X (1..Capacity[p]))
  <2>1. IsFiniteSet({p})
    BY FS_Singleton
  <2>2. 1 \in Int /\ Capacity[p] \in Int
    BY CapacityAssumption DEF Partition
  <2>3. IsFiniteSet(1..Capacity[p])
    BY <2>2, FS_Interval
  <2>4. QED
    BY <2>1, <2>3, FS_Product
<1>5. QED
  BY <1>3, <1>4, FS_UNION DEF TotalUnits

(* What a document without an overcommitted partition accounts for is no   *)
(* more than the partitions have.                                          *)
LEMMA OccupiedFits ==
  ASSUME NEW doc \in Document, Balanced(doc),
         \A p \in Partition : doc[p].free_space >= 0,
         NEW S, \A u \in S : \E p \in Partition : u \in Occupied(doc, p)
  PROVE  IsFiniteSet(S) /\ Cardinality(S) <= Cardinality(TotalUnits)
<1> DEFINE Ranking(p, f) ==
             /\ f \in [Occupied(doc, p) -> 1..Capacity[p]]
             /\ \A a, b \in Occupied(doc, p) : f[a] = f[b] => a = b
           rank == [p \in Partition |-> CHOOSE f : Ranking(p, f)]
           place == [u \in S |-> CHOOSE p \in Partition : u \in Occupied(doc, p)]
           unit == [u \in S |-> <<place[u], rank[place[u]][u]>>]
<1>1. ASSUME NEW p \in Partition PROVE Ranking(p, rank[p])
  <2>1. IsFiniteSet(Occupied(doc, p)) /\ Cardinality(Occupied(doc, p)) \in Nat
    BY OccupiedFinite
  <2>2. Capacity[p] \in Nat /\ doc[p].free_space \in Int
    BY CapacityAssumption DEF Partition, Document
  <2>3. Cardinality(Occupied(doc, p)) <= Capacity[p]
    BY <2>1, <2>2 DEF Balanced
  <2>4. \E f : Ranking(p, f)
    BY <2>1, <2>2, <2>3, Ranks
  <2> HIDE DEF Ranking
  <2>5. QED
    BY <2>4
<1>2. ASSUME NEW u \in S
      PROVE  place[u] \in Partition /\ u \in Occupied(doc, place[u])
  OBVIOUS
<1> HIDE DEF rank, place
<1>3. ASSUME NEW u \in S PROVE unit[u] \in TotalUnits
  BY <1>1, <1>2 DEF TotalUnits
<1>4. ASSUME NEW u \in S, NEW v \in S, unit[u] = unit[v] PROVE u = v
  <2>1. place[u] = place[v] /\ rank[place[u]][u] = rank[place[u]][v]
    BY <1>4
  <2>2. QED
    BY <1>1, <1>2, <2>1
<1>5. unit \in Injection(S, TotalUnits)
  BY <1>3, <1>4 DEF Injection, IsInjective
<1>6. QED
  BY <1>5, TotalFinite, FS_Injection

(* A line of thread t with the event is in the log.                        *)
Has(event, t) == \E k \in DOMAIN log : log[k].event = event /\ log[k].id = t

(* Where a worker is between its line of the assignment and its line of    *)
(* the return.                                                             *)
BetweenLines(t) ==
  \/ section[t] \in {"sleep", "reenter", "release"}
  \/ section[t] = "asig" /\ stage[t] = "post"
  \/ section[t] = "devo" /\ stage[t] # "post"

(* The lines are where the workers are, and each worker logs for itself.   *)
LogFollows ==
  /\ \A k \in DOMAIN log : section[log[k].id] # "unborn"
  /\ \A t \in Thread : Has("ASIG", t) /\ ~Has("DEVO", t) => BetweenLines(t)

(* Only the line of its return takes a worker out from between its lines.  *)
LEMMA BetweenKept ==
  ASSUME Control, MemoryFile, [Next]_vars, NEW t \in Thread, BetweenLines(t),
         ~Slog(t)
  PROVE  BetweenLines(t)'
<1>0. /\ section \in [Thread -> Section] /\ stage \in [Thread -> Stage] /\ StageOK
  BY DEF Control, TypeOK
<1> USE DEF BetweenLines, At, GoTo, Advance, Exit, WaitingSections, MemorySections,
            LogSections
<1>1. ASSUME NEW u \in Thread, CreateThread(u) PROVE BetweenLines(t)'
  BY <1>1, <1>0 DEF CreateThread
<1>2. ASSUME NEW u \in Thread \ {t}, Step(u) PROVE BetweenLines(t)'
  BY <1>2, StepGoes DEF Goes, Moves
<1>3. CASE Step(t)
  <2>1. CASE OpenToRead(t) \/ TouchTruncated(t) \/ ParseNothing(t) \/ WriteNothing(t)
    BY <2>1, <1>0 DEF OpenToRead, TouchTruncated, ParseNothing, WriteNothing,
                      FileOf, StageOK, MemoryFile, MemoryFileReady
  <2>2. CASE ParseAnnounce(t) \/ ParseWithdraw(t) \/ ParseAllocate(t) \/ Reject(t)
             \/ ParseRelease(t)
    BY <2>2, <1>0 DEF ParseAnnounce, ParseWithdraw, ParseAllocate, Reject, ParseRelease
  <2>3. CASE Truncate(t) \/ Stretch(t) \/ CopyWaiting(t) \/ CopyMemory(t)
    BY <2>3, <1>0 DEF Truncate, Stretch, CopyWaiting, CopyMemory, StageOK
  <2>4. CASE SemWait(t) \/ Strclr(t) \/ SemPost(t) \/ Wake(t)
    BY <2>4, <1>0 DEF SemWait, Strclr, SemPost, Wake, StageOK
  <2>5. QED
    BY <1>3, <2>1, <2>2, <2>3, <2>4 DEF Step
<1>4. CASE CreateFails \/ SigQuit \/ Die \/ Gone \/ UNCHANGED vars
  BY <1>4 DEF CreateFails, SigQuit, Die, Gone, vars
<1>5. QED
  BY <1>1, <1>2, <1>3, <1>4 DEF Next

(* Nothing but slog writes the log.                                        *)
LEMMA OnlySlogWrites ==
  ASSUME [Next]_vars
  PROVE  UNCHANGED log \/ \E t \in Thread : Slog(t)
<1>1. ASSUME NEW t \in Thread, Step(t), ~Slog(t) PROVE UNCHANGED log
  BY <1>1 DEF Step, OpenToRead, TouchTruncated, ParseNothing, ParseAnnounce,
       ParseWithdraw, ParseAllocate, Reject, ParseRelease, Truncate, WriteNothing,
       Stretch, CopyWaiting, CopyMemory, SemWait, Strclr, SemPost, Wake, logging
<1>2. QED
  BY <1>1 DEF Next, CreateThread, CreateFails, SigQuit, Die, Gone, vars, logging

(* The log, read up to any line, shows no more assigned than there is: at  *)
(* the moment a line is written, whoever it leaves with room is inside.    *)
THEOREM LogHonest == Spec => []LogNeverOvercommits
<1> DEFINE Inv == LogFollows /\ LogNeverOvercommits
<1>1. Init => Inv
  BY DEF Init, LogFollows, LogNeverOvercommits, Has
<1>2. Control /\ MemoryFile /\ Accounts /\ Accounts' /\ Control' /\ Inv /\ [Next]_vars
        => Inv'
  <2> SUFFICES ASSUME Control, MemoryFile, Accounts, Accounts', Control', Inv,
                      [Next]_vars
               PROVE  Inv'
    OBVIOUS
  <2>0. /\ log \in Seq(LogEntry) /\ DOMAIN log = 1..Len(log) /\ Len(log) \in Nat
        /\ \A k \in DOMAIN log : log[k] \in LogEntry
    BY DEF Control, TypeOK
  <2>1. \A k \in DOMAIN log : section'[log[k].id] # "unborn"
    BY <2>0, BornOnce DEF LogFollows, LogEntry
  \* The lines that are there keep what they show.
  <2>2. ASSUME NEW k \in DOMAIN log, \A j \in 1..k : log'[j] = log[j]
        PROVE  Cardinality(LoggedUnits(k)') <= Cardinality(TotalUnits)
    <3>1. 1..k \subseteq DOMAIN log
      BY <2>0
    <3>2. ASSUME NEW t \in Thread, NEW event
          PROVE  Logged(k, event, t)' <=> Logged(k, event, t)
      BY <2>2 DEF Logged
    <3>3. \A t \in Thread : Logged(k, "ASIG", t) => process_size'[t] = process_size[t]
      BY <3>1, BornOnce DEF Logged, LogFollows
    <3>4. LoggedUnits(k)' = LoggedUnits(k)
      BY <3>2, <3>3 DEF LoggedUnits
    <3>5. QED
      BY <3>4 DEF LogNeverOvercommits
  <2>3. CASE UNCHANGED log
    <3>1. LogNeverOvercommits'
      BY <2>2, <2>3 DEF LogNeverOvercommits
    <3>2. ASSUME NEW t \in Thread, Has("ASIG", t)', ~Has("DEVO", t)'
          PROVE  BetweenLines(t)'
      <4>1. BetweenLines(t)
        BY <2>3, <3>2 DEF LogFollows, Has
      <4>2. ~Slog(t)
        <5>1. SUFFICES ASSUME Slog(t) PROVE FALSE
          OBVIOUS
        <5>2. Len(log') = Len(log) + 1
          BY <2>0, <5>1 DEF Slog
        <5>3. QED
          BY <2>0, <2>3, <5>2
      <4>3. QED
        BY <4>1, <4>2, BetweenKept
    <3>3. QED
      BY <2>1, <2>3, <3>1, <3>2 DEF LogFollows
  <2>4. ASSUME NEW t \in Thread, Slog(t) PROVE Inv'
    <3> DEFINE line == [tag |-> output, event |-> TagOf(section[t]), id |-> t]
               n == Len(log) + 1
    <3>1. /\ DOMAIN log' = 1..n /\ n \in Nat
          /\ \A k \in DOMAIN log : log'[k] = log[k]
          /\ log'[n] = line
      <4>1. log' = Append(log, line)
        BY <2>4 DEF Slog
      <4> HIDE DEF line
      <4>2. QED
        BY <2>0, <4>1
    <3>2. /\ section' = section /\ stage[t] = "slog" /\ stage'[t] = "post"
          /\ UNCHANGED <<memory, process_size, mem_index>>
          /\ \A u \in Thread \ {t} : stage'[u] = stage[u]
          /\ section[t] \in LogSections
      BY <2>4 DEF Slog, Advance, files, locals, Control, TypeOK, StageOK
    <3>3. ASSUME NEW u \in Thread, NEW event
          PROVE  Has(event, u)' <=> Has(event, u) \/ (u = t /\ event = TagOf(section[t]))
      BY <2>0, <3>1 DEF Has
    <3>4. ASSUME NEW u \in Thread, Has("ASIG", u)', ~Has("DEVO", u)'
          PROVE  BetweenLines(u)' /\ Holding(u)'
      <4>1. CASE u = t
        <5>1. section[t] = "asig"
          BY <3>2, <3>3, <3>4, <4>1 DEF LogFollows, BetweenLines, TagOf, LogSections
        <5>2. QED
          BY <3>2, <4>1, <5>1 DEF BetweenLines, Holding
      <4>2. CASE u # t
        <5>1. BetweenLines(u)
          BY <3>3, <3>4, <4>2 DEF LogFollows
        <5>2. section[u] \notin LogSections
          BY <3>2, <4>2 DEF Control, MutualExclusion, Critical
        <5>3. QED
          BY <3>2, <5>1, <5>2 DEF BetweenLines, Holding, LogSections
      <4>3. QED
        BY <4>1, <4>2
    <3>5. LogFollows'
      <4>1. \A k \in DOMAIN log' : section'[log'[k].id] # "unborn"
        <5>1. section[t] # "unborn"
          BY <3>2 DEF LogSections
        <5>2. QED
          BY <2>0, <2>1, <3>1, <3>2, <5>1
      <4>2. QED
        BY <3>4, <4>1 DEF LogFollows
    <3>6. ASSUME NEW k, k = n
          PROVE  Cardinality(LoggedUnits(k)') <= Cardinality(TotalUnits)
      <4>1. ASSUME NEW u \in LoggedUnits(k)'
            PROVE  \E p \in Partition : u \in Occupied(memory', p)
        <5>1. /\ u \in Thread \X Size /\ u[2] <= process_size'[u[1]]
              /\ Logged(k, "ASIG", u[1])' /\ ~Logged(k, "DEVO", u[1])'
          BY <4>1 DEF LoggedUnits
        <5>2. Has("ASIG", u[1])' /\ ~Has("DEVO", u[1])'
          BY <3>1, <3>6, <5>1 DEF Logged, Has
        <5>3. Holding(u[1])'
          BY <3>4, <5>1, <5>2
        <5>4. mem_index'[u[1]] \in Partition
              /\ memory'[mem_index'[u[1]]].processes[u[1]] = process_size'[u[1]]
          BY <5>1, <5>3 DEF Accounts, Reservations
        <5>5. QED
          BY <5>1, <5>4 DEF Occupied
      <4>2. /\ memory' \in Document /\ Balanced(memory')
            /\ \A p \in Partition : memory'[p].free_space >= 0
        BY DEF Control, TypeOK, Accounts, SpaceConserved
      <4>3. QED
        BY <4>1, <4>2, OccupiedFits
    <3>7. LogNeverOvercommits'
      <4>1. \A k \in DOMAIN log' : k = n \/ (k \in DOMAIN log /\ 1..k \subseteq DOMAIN log)
        BY <2>0, <3>1
      <4>2. ASSUME NEW k \in DOMAIN log
            PROVE  Cardinality(LoggedUnits(k)') <= Cardinality(TotalUnits)
        <5>1. \A j \in 1..k : log'[j] = log[j]
          BY <2>0, <3>1
        <5>2. QED
          BY <2>2, <5>1
      <4>3. QED
        BY <3>6, <4>1, <4>2 DEF LogNeverOvercommits
    <3>8. QED
      BY <3>5, <3>7
  <2>5. QED
    BY <2>3, <2>4, OnlySlogWrites
<1>3. QED
  BY ControlCorrect, MemoryFileCorrect, AccountsCorrect, <1>1, <1>2, PTL DEF Spec
------------------------------------------------------------------------------
(* The abstract allocator is about the same documents.                     *)
LEMMA AbstractData ==
  /\ Abstract!Algorithm = Algorithm
  /\ Abstract!Size = Size
  /\ Abstract!Partition = Partition
  /\ Abstract!Schema = Schema
BY DEF Abstract!Algorithm, Algorithm, Abstract!BEST_FIT, BEST_FIT,
       Abstract!FIRST_FIT, FIRST_FIT, Abstract!WORST_FIT, WORST_FIT,
       Abstract!Size, Size, Abstract!Partition, Partition, Abstract!Schema, Schema

(* The abstract allocator searches, assigns and returns with the same      *)
(* functions of the document as worker_thread.                             *)
LEMMA AbstractOperators ==
  ASSUME NEW doc, NEW p, NEW t, NEW s, NEW algorithm
  PROVE  /\ Abstract!FreeSpaces(doc) = FreeSpaces(doc)
         /\ Abstract!Assign(doc, p, t, s) = Assign(doc, p, t, s)
         /\ Abstract!Return(doc, p, t, s) = Return(doc, p, t, s)
         /\ Abstract!Fitting(FreeSpaces(doc), s) = Fitting(FreeSpaces(doc), s)
         /\ Abstract!Returns(FreeSpaces(doc), s, algorithm, p)
              <=> Returns(FreeSpaces(doc), s, algorithm, p)
BY DEF Abstract!FreeSpaces, FreeSpaces, Abstract!Assign, Assign,
       Abstract!Return, Return, Abstract!Returns, Returns,
       Abstract!Fitting, Fitting, Abstract!Fits, Fits,
       Abstract!Preferred, Preferred, Abstract!Partition, Partition,
       Abstract!BEST_FIT, BEST_FIT, Abstract!FIRST_FIT, FIRST_FIT,
       Abstract!WORST_FIT, WORST_FIT

(* A step that moves no worker into, out of or past a partition and leaves *)
(* the document alone is no step of the allocator.                         *)
LEMMA AbstractSame ==
  ASSUME \A u \in Thread : Phase(u)' = Phase(u),
         \A u \in Thread : Holding(u) => mem_index'[u] = mem_index[u],
         \A u \in Thread : Holding(u)' = Holding(u)
  PROVE  /\ [u \in Thread |-> Phase(u)]' = [u \in Thread |-> Phase(u)]
         /\ [u \in Thread |-> IF Holding(u) THEN mem_index[u] ELSE -1]' =
              [u \in Thread |-> IF Holding(u) THEN mem_index[u] ELSE -1]
OBVIOUS

(* Steps that announce, open, truncate, stretch, log, wait or post are no  *)
(* steps of the allocator.                                                 *)
LEMMA AbstractStutter ==
  ASSUME UNCHANGED <<memory, process_size, g_algorithm>>,
         \A u \in Thread : Phase(u)' = Phase(u),
         \A u \in Thread : Holding(u) => mem_index'[u] = mem_index[u],
         \A u \in Thread : Holding(u)' = Holding(u)
  PROVE  UNCHANGED Abstract!vars
BY AbstractSame DEF Abstract!vars

(* The step of one worker t that changes its phase.                        *)
AbstractMove(t, to, index) ==
  /\ Phase(t)' = to
  /\ (IF Holding(t)' THEN mem_index'[t] ELSE -1) = index
  /\ \A u \in Thread \ {t} : /\ Phase(u)' = Phase(u)
                             /\ Holding(u)' = Holding(u)
                             /\ mem_index'[u] = mem_index[u]

(* Such a step is the change of one process of the allocator.              *)
LEMMA AbstractMoves ==
  ASSUME NEW t \in Thread, NEW to, NEW index, AbstractMove(t, to, index)
  PROVE  /\ [u \in Thread |-> Phase(u)]' =
              [[u \in Thread |-> Phase(u)] EXCEPT ![t] = to]
         /\ [u \in Thread |-> IF Holding(u) THEN mem_index[u] ELSE -1]' =
              [[u \in Thread |-> IF Holding(u) THEN mem_index[u] ELSE -1]
                 EXCEPT ![t] = index]
BY DEF AbstractMove

(* The threads, files, semaphore and log implement the abstract allocator: *)
(* a process takes the room its algorithm names in one step, is turned     *)
(* away only when nothing fits, and gives back what it took in one step.   *)
THEOREM Implementation == Spec => ImplementsAllocator
<1>1. Init => Abstract!Init
  <2>1. 1 \in Size
    BY MaxSizeAssumption DEF Size
  <2> SUFFICES ASSUME Init PROVE Abstract!Init
    OBVIOUS
  <2>2. \A t \in Thread : Phase(t) = "outside" /\ ~Holding(t)
    BY DEF Init, Phase, Holding
  <2>3. process_size \in [Thread -> Size]
    BY <2>1 DEF Init
  <2>4. QED
    BY <2>2, <2>3, AbstractData DEF Init, Abstract!Init
<1>2. Control /\ MemoryFile /\ Accounts /\ [Next]_vars
        => [Abstract!Next]_(Abstract!vars)
  <2> SUFFICES ASSUME Control, MemoryFile, Accounts, [Next]_vars
               PROVE  Abstract!Next \/ UNCHANGED Abstract!vars
    OBVIOUS
  <2> USE DEF WaitingSections, MemorySections, LogSections,
              At, GoTo, Advance, Exit, files, locals
  <2>0. /\ section \in [Thread -> Section]
        /\ stage \in [Thread -> Stage]
        /\ mem_index \in [Thread -> {-1} \cup Partition]
        /\ StageOK
    BY DEF Control, TypeOK
  <2>1. ASSUME NEW t \in Thread, CreateThread(t) PROVE Abstract!Next \/ UNCHANGED Abstract!vars
    <3>1. PICK s \in Size : process_size' = [process_size EXCEPT ![t] = s]
      BY <2>1 DEF CreateThread
    <3>2. /\ UNCHANGED <<memory, g_algorithm, mem_index>>
          /\ \A u \in Thread : Phase(u)' = Phase(u)
          /\ \A u \in Thread : Holding(u)' = Holding(u)
          /\ Phase(t) = "outside"
      BY <2>1, <2>0 DEF CreateThread, Phase, Holding
    <3>3. Abstract!Choose(t)
      BY <3>1, <3>2, AbstractSame, AbstractData DEF Abstract!Choose
    <3>4. QED
      BY <3>3 DEF Abstract!Next
  <2>2. ASSUME NEW t \in Thread, OpenToRead(t) PROVE Abstract!Next \/ UNCHANGED Abstract!vars
    <3>1. /\ UNCHANGED <<memory, process_size, g_algorithm, mem_index>>
          /\ \A u \in Thread : Phase(u)' = Phase(u)
          /\ \A u \in Thread : Holding(u)' = Holding(u)
      <4>1. CASE section[t] \in WaitingSections
        BY <2>2, <2>0, <4>1 DEF OpenToRead, Phase, Holding
      <4>2. CASE section[t] \in MemorySections
        <5>1. Advance(t, "parse")
          BY <2>2, <4>2 DEF OpenToRead, FileOf, MemoryFile, MemoryFileReady
        <5>2. QED
          BY <2>2, <2>0, <4>2, <5>1 DEF OpenToRead, Phase, Holding
      <4>3. QED
        BY <2>2, <2>0, <4>1, <4>2 DEF OpenToRead, StageOK
    <3>2. QED
      BY <3>1, AbstractStutter
  <2>3. ASSUME NEW t \in Thread, TouchTruncated(t) PROVE Abstract!Next \/ UNCHANGED Abstract!vars
    <3>1. /\ UNCHANGED <<memory, process_size, g_algorithm>>
          /\ \A u \in Thread : Phase(u)' = Phase(u)
          /\ \A u \in Thread : Holding(u)' = Holding(u)
          /\ \A u \in Thread : Holding(u) => mem_index'[u] = mem_index[u]
      BY <2>3, <2>0 DEF TouchTruncated, Phase, Holding
    <3>2. QED
      BY <3>1, AbstractStutter
  <2>4. ASSUME NEW t \in Thread, ParseNothing(t) PROVE Abstract!Next \/ UNCHANGED Abstract!vars
    <3>1. section[t] \in WaitingSections
      BY <2>4, <2>0 DEF ParseNothing, FileOf, MemoryFile, MemoryFileReady, StageOK
    <3>2. /\ UNCHANGED <<memory, process_size, g_algorithm, mem_index>>
          /\ \A u \in Thread : Phase(u)' = Phase(u)
          /\ \A u \in Thread : Holding(u)' = Holding(u)
      BY <2>4, <2>0, <3>1 DEF ParseNothing, Phase, Holding
    <3>3. QED
      BY <3>2, AbstractStutter
  <2>5. ASSUME NEW t \in Thread, ParseAnnounce(t) PROVE Abstract!Next \/ UNCHANGED Abstract!vars
    <3>1. /\ UNCHANGED <<memory, process_size, g_algorithm>>
          /\ \A u \in Thread : Phase(u)' = Phase(u)
          /\ \A u \in Thread : Holding(u)' = Holding(u)
          /\ \A u \in Thread : Holding(u) => mem_index'[u] = mem_index[u]
      BY <2>5, <2>0 DEF ParseAnnounce, Phase, Holding
    <3>2. QED
      BY <3>1, AbstractStutter
  <2>6. ASSUME NEW t \in Thread, ParseWithdraw(t) PROVE Abstract!Next \/ UNCHANGED Abstract!vars
    <3>1. /\ UNCHANGED <<memory, process_size, g_algorithm>>
          /\ \A u \in Thread : Phase(u)' = Phase(u)
          /\ \A u \in Thread : Holding(u)' = Holding(u)
          /\ \A u \in Thread : Holding(u) => mem_index'[u] = mem_index[u]
      BY <2>6, <2>0 DEF ParseWithdraw, Phase, Holding
    <3>2. QED
      BY <3>1, AbstractStutter
  <2>7. ASSUME NEW t \in Thread, ParseAllocate(t) PROVE Abstract!Next \/ UNCHANGED Abstract!vars
    <3>1. /\ UNCHANGED <<memory, process_size, g_algorithm>>
          /\ \A u \in Thread : Phase(u)' = Phase(u)
          /\ \A u \in Thread : Holding(u)' = Holding(u)
          /\ \A u \in Thread : Holding(u) => mem_index'[u] = mem_index[u]
      BY <2>7, <2>0 DEF ParseAllocate, Phase, Holding
    <3>2. QED
      BY <3>1, AbstractStutter
  <2>8. ASSUME NEW t \in Thread, Reject(t) PROVE Abstract!Next \/ UNCHANGED Abstract!vars
    <3>1. /\ UNCHANGED <<memory, process_size, g_algorithm, mem_index>>
          /\ AbstractMove(t, "gone", -1)
          /\ Phase(t) = "outside" /\ ~Holding(t)
      BY <2>8, <2>0 DEF Reject, AbstractMove, Phase, Holding
    <3>2. \A u \in Thread : Holding(u)' = Holding(u)
      BY <2>8 DEF Reject, Holding
    <3>3. Fitting(FreeSpaces(memory), process_size[t]) = {}
      <4>1. -1 \notin Fitting(FreeSpaces(memory), process_size[t])
        BY NAssumption DEF Fitting, FreeSpaces, Partition
      <4>2. QED
        BY <2>8, <4>1 DEF Reject, Returns
    <3>4. Abstract!TurnAway(t)
      BY <3>1, <3>2, <3>3, AbstractMoves, AbstractOperators
         DEF Abstract!TurnAway
    <3>5. QED
      BY <3>4 DEF Abstract!Next
  <2>9. ASSUME NEW t \in Thread, ParseRelease(t) PROVE Abstract!Next \/ UNCHANGED Abstract!vars
    <3>1. /\ UNCHANGED <<memory, process_size, g_algorithm>>
          /\ \A u \in Thread : Phase(u)' = Phase(u)
          /\ \A u \in Thread : Holding(u)' = Holding(u)
          /\ \A u \in Thread : Holding(u) => mem_index'[u] = mem_index[u]
      BY <2>9, <2>0 DEF ParseRelease, Phase, Holding
    <3>2. QED
      BY <3>1, AbstractStutter
  <2>10. ASSUME NEW t \in Thread, Truncate(t) PROVE Abstract!Next \/ UNCHANGED Abstract!vars
    <3>1. /\ UNCHANGED <<memory, process_size, g_algorithm>>
          /\ \A u \in Thread : Phase(u)' = Phase(u)
          /\ \A u \in Thread : Holding(u)' = Holding(u)
          /\ \A u \in Thread : Holding(u) => mem_index'[u] = mem_index[u]
      BY <2>10, <2>0 DEF Truncate, Phase, Holding
    <3>2. QED
      BY <3>1, AbstractStutter
  <2>11. ASSUME NEW t \in Thread, WriteNothing(t) PROVE Abstract!Next \/ UNCHANGED Abstract!vars
    <3>1. section[t] \in WaitingSections
      BY <2>11, <2>0 DEF WriteNothing, FileOf, MemoryFile, MemoryFileReady, StageOK
    <3>2. /\ UNCHANGED <<memory, process_size, g_algorithm, mem_index>>
          /\ \A u \in Thread : Phase(u)' = Phase(u)
          /\ \A u \in Thread : Holding(u)' = Holding(u)
      BY <2>11, <2>0, <3>1 DEF WriteNothing, Phase, Holding
    <3>3. QED
      BY <3>2, AbstractStutter
  <2>12. ASSUME NEW t \in Thread, Stretch(t) PROVE Abstract!Next \/ UNCHANGED Abstract!vars
    <3>1. /\ UNCHANGED <<memory, process_size, g_algorithm>>
          /\ \A u \in Thread : Phase(u)' = Phase(u)
          /\ \A u \in Thread : Holding(u)' = Holding(u)
          /\ \A u \in Thread : Holding(u) => mem_index'[u] = mem_index[u]
      BY <2>12, <2>0 DEF Stretch, Phase, Holding
    <3>2. QED
      BY <3>1, AbstractStutter
  <2>13. ASSUME NEW t \in Thread, CopyWaiting(t) PROVE Abstract!Next \/ UNCHANGED Abstract!vars
    <3>1. /\ UNCHANGED <<memory, process_size, g_algorithm>>
          /\ \A u \in Thread : Phase(u)' = Phase(u)
          /\ \A u \in Thread : Holding(u)' = Holding(u)
          /\ \A u \in Thread : Holding(u) => mem_index'[u] = mem_index[u]
      BY <2>13, <2>0 DEF CopyWaiting, Phase, Holding
    <3>2. QED
      BY <3>1, AbstractStutter
  <2>14. ASSUME NEW t \in Thread, CopyMemory(t) PROVE Abstract!Next \/ UNCHANGED Abstract!vars
    <3>1. memory' = data[t] /\ Computed(t)
          /\ UNCHANGED <<process_size, mem_index, g_algorithm>>
      BY <2>14 DEF CopyMemory, Accounts, Writing
    <3>2. CASE section[t] = "allocate"
      <4>1. AbstractMove(t, "inside", mem_index[t]) /\ Phase(t) = "outside"
        BY <2>14, <2>0, <3>1, <3>2 DEF CopyMemory, AbstractMove, Phase, Holding
      <4>2. /\ mem_index[t] \in Partition
            /\ Returns(FreeSpaces(memory), process_size[t], g_algorithm,
                       mem_index[t])
            /\ memory' = Assign(memory, mem_index[t], t, process_size[t])
        BY <3>1, <3>2 DEF Computed
      <4>3. /\ [u \in Thread |-> Phase(u)]' =
                 [[u \in Thread |-> Phase(u)] EXCEPT ![t] = "inside"]
            /\ [u \in Thread |-> IF Holding(u) THEN mem_index[u] ELSE -1]' =
                 [[u \in Thread |-> IF Holding(u) THEN mem_index[u] ELSE -1]
                    EXCEPT ![t] = mem_index[t]]
            /\ [u \in Thread |-> Phase(u)][t] = "outside"
        BY <4>1, AbstractMoves
      <4>4. /\ mem_index[t] \in Abstract!Partition
            /\ Abstract!Returns(Abstract!FreeSpaces(memory), process_size[t],
                                g_algorithm, mem_index[t])
            /\ memory' = Abstract!Assign(memory, mem_index[t], t, process_size[t])
        BY <4>2, AbstractData, AbstractOperators
      <4>5. Abstract!Enter(t)
        BY <3>1, <4>3, <4>4 DEF Abstract!Enter
      <4>6. QED
        BY <4>5 DEF Abstract!Next
    <3>3. CASE section[t] = "release"
      <4>1. AbstractMove(t, "gone", -1) /\ Phase(t) = "inside" /\ Holding(t)
        BY <2>14, <2>0, <3>1, <3>3 DEF CopyMemory, AbstractMove, Phase, Holding
      <4>2. memory' = Return(memory, mem_index[t], t, process_size[t])
        BY <3>1, <3>3 DEF Computed
      <4>3. /\ [u \in Thread |-> Phase(u)]' =
                 [[u \in Thread |-> Phase(u)] EXCEPT ![t] = "gone"]
            /\ [u \in Thread |-> IF Holding(u) THEN mem_index[u] ELSE -1]' =
                 [[u \in Thread |-> IF Holding(u) THEN mem_index[u] ELSE -1]
                    EXCEPT ![t] = -1]
            /\ [u \in Thread |-> Phase(u)][t] = "inside"
        BY <4>1, AbstractMoves
      <4>4. /\ [u \in Thread |-> IF Holding(u) THEN mem_index[u] ELSE -1][t] =
                 mem_index[t]
            /\ memory' = Abstract!Return(memory, mem_index[t], t, process_size[t])
        BY <4>1, <4>2, AbstractOperators
      <4>5. Abstract!Leave(t)
        BY <3>1, <4>3, <4>4 DEF Abstract!Leave
      <4>6. QED
        BY <4>5 DEF Abstract!Next
    <3>4. QED
      BY <2>14, <3>2, <3>3 DEF CopyMemory
  <2>15. ASSUME NEW t \in Thread, SemWait(t) PROVE Abstract!Next \/ UNCHANGED Abstract!vars
    <3>1. /\ UNCHANGED <<memory, process_size, g_algorithm>>
          /\ \A u \in Thread : Phase(u)' = Phase(u)
          /\ \A u \in Thread : Holding(u)' = Holding(u)
          /\ \A u \in Thread : Holding(u) => mem_index'[u] = mem_index[u]
      BY <2>15, <2>0 DEF SemWait, Phase, Holding
    <3>2. QED
      BY <3>1, AbstractStutter
  <2>16. ASSUME NEW t \in Thread, Strclr(t) PROVE Abstract!Next \/ UNCHANGED Abstract!vars
    <3>1. /\ UNCHANGED <<memory, process_size, g_algorithm>>
          /\ \A u \in Thread : Phase(u)' = Phase(u)
          /\ \A u \in Thread : Holding(u)' = Holding(u)
          /\ \A u \in Thread : Holding(u) => mem_index'[u] = mem_index[u]
      BY <2>16, <2>0 DEF Strclr, Phase, Holding
    <3>2. QED
      BY <3>1, AbstractStutter
  <2>17. ASSUME NEW t \in Thread, Slog(t) PROVE Abstract!Next \/ UNCHANGED Abstract!vars
    <3>1. /\ UNCHANGED <<memory, process_size, g_algorithm>>
          /\ \A u \in Thread : Phase(u)' = Phase(u)
          /\ \A u \in Thread : Holding(u)' = Holding(u)
          /\ \A u \in Thread : Holding(u) => mem_index'[u] = mem_index[u]
      BY <2>17, <2>0 DEF Slog, Phase, Holding
    <3>2. QED
      BY <3>1, AbstractStutter
  <2>18. ASSUME NEW t \in Thread, SemPost(t) PROVE Abstract!Next \/ UNCHANGED Abstract!vars
    <3>1. section[t] \in LogSections
      BY <2>18, <2>0 DEF SemPost, StageOK
    <3>2. /\ UNCHANGED <<memory, process_size, g_algorithm, mem_index>>
          /\ \A u \in Thread : Phase(u)' = Phase(u)
          /\ \A u \in Thread : Holding(u)' = Holding(u)
      BY <2>18, <2>0, <3>1 DEF SemPost, Phase, Holding
    <3>3. QED
      BY <3>2, AbstractStutter
  <2>19. ASSUME NEW t \in Thread, Wake(t) PROVE Abstract!Next \/ UNCHANGED Abstract!vars
    <3>1. /\ UNCHANGED <<memory, process_size, g_algorithm>>
          /\ \A u \in Thread : Phase(u)' = Phase(u)
          /\ \A u \in Thread : Holding(u)' = Holding(u)
          /\ \A u \in Thread : Holding(u) => mem_index'[u] = mem_index[u]
      BY <2>19, <2>0 DEF Wake, Phase, Holding
    <3>2. QED
      BY <3>1, AbstractStutter
  <2>20. CASE CreateFails \/ SigQuit \/ Die \/ Gone \/ UNCHANGED vars
    <3>1. /\ UNCHANGED <<memory, process_size, g_algorithm, mem_index>>
          /\ \A u \in Thread : Phase(u)' = Phase(u)
          /\ \A u \in Thread : Holding(u)' = Holding(u)
      BY <2>20 DEF CreateFails, SigQuit, Die, Gone, vars, Phase, Holding
    <3>2. QED
      BY <3>1, AbstractStutter
  <2>21. QED
    BY <2>1, <2>2, <2>3, <2>4, <2>5, <2>6, <2>7, <2>8, <2>9, <2>10,
       <2>11, <2>12, <2>13, <2>14, <2>15, <2>16, <2>17, <2>18, <2>19, <2>20 DEF Next, Step
<1>3. QED
  BY ControlCorrect, MemoryFileCorrect, AccountsCorrect, <1>1, <1>2, PTL
     DEF Spec, ImplementsAllocator, Abstract!Spec
===============================================================================
