---------------------------------- MODULE Spy ----------------------------------
(***************************************************************************)
(* spy.c beside a running producer: it opens, maps and parses the two      *)
(* files without the semaphore, at any moment of the workers' rewrites.    *)
(*                                                                         *)
(* The parser runs on the shared mapping itself, so a rewrite may come     *)
(* between any two of its steps.  It is followed through the memory file   *)
(* partition by partition and entry by entry, in the order of the text.    *)
(* After a rewrite it goes on at the same offset of another text, where    *)
(* anything may be: an id or a size put together from two texts, or the    *)
(* rest of another entry.  Only where the two texts line up is it known.   *)
(***************************************************************************)
EXTENDS Producer

VARIABLES order,      \* of the entries in the text of the memory file
          request,    \* of the menu: "none", "memory" (1), "processes" (2)
          spy,        \* "menu", "open", "parse", "shown", "exited", "crashed"
          spy_file,   \* the file it is at
          next,       \* the partition it parses
          passed,     \* how many entries of each partition it has read
          shown,      \* what it puts on the screen of each partition
          disturbed,  \* the file was written since the spy opened it
          intact,     \* how many partitions it had read by then
          opened,     \* who was inside when the spy opened, and where
          always      \* who was inside all the time since then, and where

reading == <<request, spy, spy_file, next, passed, shown>>
history == <<disturbed, intact, opened, always>>
svars == <<vars, order, reading, history>>

Nothing == [p \in Partition |-> [t \in Thread |-> 0]]
Anything == [t \in Thread |-> MaxSize + 1] \* an entry with any number, or none
NonePassed == [p \in Partition |-> 0]

Inside == {u \in Thread \X Partition : Holding(u[1]) /\ mem_index[u[1]] = u[2]}

SInit ==
  /\ Init
  /\ order = [p \in Partition |-> <<>>]
  /\ request = "none" /\ spy = "menu" /\ spy_file = "memory"
  /\ next = 0 /\ passed = NonePassed /\ shown = Nothing
  /\ disturbed = FALSE /\ intact = N /\ opened = {} /\ always = {}

(* A new entry is the last of its object; the last takes the place of one  *)
(* that is removed.                                                        *)
Arranged(entries, processes) ==
  LET gone == {i \in DOMAIN entries : processes[entries[i]] = 0}
      new == {t \in Thread : processes[t] # 0 /\ \A i \in DOMAIN entries : entries[i] # t}
  IN  IF new # {} THEN Append(entries, CHOOSE t \in new : TRUE)
      ELSE IF gone = {} THEN entries
      ELSE [i \in 1..(Len(entries) - 1) |->
              entries[IF i \in gone THEN Len(entries) ELSE i]]

Text(f) == IF f = "memory" THEN <<status[f], memory>> ELSE <<status[f], waiting>>

(* The producer goes on.                                                   *)
ProducerStep ==
  /\ Next
  /\ order' = [p \in Partition |-> Arranged(order[p], memory'[p].processes)]
  /\ UNCHANGED <<reading, opened>>
  /\ IF spy = "parse"
     THEN /\ disturbed' = (disturbed \/ Text(spy_file)' # Text(spy_file))
          /\ intact' = IF disturbed' /\ ~disturbed THEN next ELSE intact
          /\ always' = always \cap Inside'
     ELSE UNCHANGED <<disturbed, intact, always>>
------------------------------------------------------------------------------
(* The screen and the parser before there is anything to show.             *)
Cleared == next' = 0 /\ passed' = NonePassed /\ shown' = Nothing

Forgotten == disturbed' = FALSE /\ intact' = N /\ opened' = {} /\ always' = {}

(* main, lines 20-47: a choice that is not 1 or 2 changes nothing.         *)
Choose(r) ==
  /\ spy = "menu"
  /\ request' = r /\ spy' = "open"
  /\ spy_file' = IF r = "memory" THEN "memory" ELSE "waiting"
  /\ UNCHANGED <<vars, order, next, passed, shown, history>>

(* open, fstat and mmap: a missing or empty file ends the spy.             *)
SpyOpenFails ==
  /\ spy = "open" /\ status[spy_file] \in {"absent", "empty"}
  /\ spy' = "exited"
  /\ UNCHANGED <<vars, order, request, spy_file, next, passed, shown, history>>

SpyOpen ==
  /\ spy = "open" /\ status[spy_file] \notin {"absent", "empty"}
  /\ spy' = "parse"
  /\ opened' = Inside /\ always' = Inside
  /\ UNCHANGED <<vars, order, request, spy_file, next, passed, shown, disturbed,
                 intact>>

(* The file was cut to no bytes since (SIGBUS), or has outgrown the pages  *)
(* that were mapped, or what came of two texts is an object without        *)
(* "processes" (SIGSEGV).                                                  *)
SpyTouchOutside ==
  /\ spy = "parse" /\ (status[spy_file] = "empty" \/ disturbed)
  /\ spy' = "crashed"
  /\ Cleared /\ Forgotten
  /\ UNCHANGED <<vars, order, request, spy_file>>

(* json_parse_string gives NULL and so does the serialization.  puts of    *)
(* NULL is a crash; only spy_on_memory goes on, with no partition to show. *)
SpyParseNothing ==
  /\ spy = "parse" /\ (status[spy_file] = "blank" \/ disturbed)
  /\ spy' = IF request = "processes" /\ spy_file = "memory"
            THEN "shown" ELSE "crashed"
  /\ Cleared /\ Forgotten
  /\ UNCHANGED <<vars, order, request, spy_file>>

(* The offset the parser is at is that of the same place of the text there *)
(* is now: no partition before it has gained or lost an entry.  (Ids and   *)
(* numbers of the two texts may still differ in their digits.)             *)
LinesUp == \A p \in Partition : p < next => passed[p] = Len(order[p])

Parsing ==
  /\ spy = "parse" /\ spy_file = "memory"
  /\ status["memory"] = "json" /\ next < N

(* One round of the loop of parse_object_value on "processes"; a name that *)
(* is there already fails the parse.                                       *)
ParseEntry ==
  /\ Parsing /\ LinesUp
  /\ passed[next] < Len(order[next])
  /\ LET t == order[next][passed[next] + 1]
     IN  /\ shown[next][t] = 0
         /\ shown' = [shown EXCEPT ![next][t] = memory[next].processes[t]]
  /\ passed' = [passed EXCEPT ![next] = @ + 1]
  /\ UNCHANGED <<vars, order, request, spy, spy_file, next, history>>

(* Variant: the last entry of an object ends it before it is read.         *)
EndPartitionEarly ==
  /\ Parsing /\ LinesUp
  /\ Len(order[next]) - passed[next] \in {0, 1}
  /\ next' = next + 1
  /\ UNCHANGED <<vars, order, request, spy, spy_file, passed, shown, history>>

(* Variant: one partition too many, over an element that is not there.     *)
EndPartitionAndOneMore ==
  /\ Parsing /\ LinesUp
  /\ passed[next] = Len(order[next])
  /\ next' = IF next = N - 1 THEN N + 1 ELSE next + 1
  /\ UNCHANGED <<vars, order, request, spy, spy_file, passed, shown, history>>

(* No comma follows: the object ends, and with it the partition.           *)
EndPartition ==
  /\ Parsing /\ LinesUp
  /\ passed[next] = Len(order[next])
  /\ next' = next + 1
  /\ UNCHANGED <<vars, order, request, spy, spy_file, passed, shown, history>>

(* From here on two texts are mixed: an id of one with a size of another,  *)
(* digits of both, an entry or a partition again or not at all.            *)
ParseTorn ==
  /\ Parsing /\ disturbed
  /\ next' = N
  /\ shown' = [p \in Partition |-> IF p < next THEN shown[p] ELSE Anything]
  /\ UNCHANGED <<vars, order, request, spy, spy_file, passed, history>>

(* spy_on_waiting shows its list; spy_on_memory follows.                   *)
ShowWaiting ==
  /\ spy = "parse" /\ spy_file = "waiting" /\ status["waiting"] = "json"
  /\ spy_file' = "memory" /\ spy' = "open"
  /\ Cleared /\ Forgotten
  /\ UNCHANGED <<vars, order, request>>

ShowMemory ==
  /\ spy = "parse" /\ spy_file = "memory" /\ next = N
  /\ spy' = "shown" /\ passed' = NonePassed
  /\ UNCHANGED <<vars, order, request, spy_file, next, shown, history>>

BackToMenu ==
  /\ spy = "shown"
  /\ spy' = "menu" /\ request' = "none" /\ spy_file' = "memory"
  /\ Cleared /\ Forgotten
  /\ UNCHANGED <<vars, order>>

SpyStep ==
  \/ Choose("memory") \/ Choose("processes")
  \/ SpyOpenFails \/ SpyOpen \/ SpyTouchOutside \/ SpyParseNothing
  \/ ParseEntry \/ EndPartition
  \/ ShowWaiting \/ ShowMemory \/ BackToMenu

SNext == ProducerStep \/ SpyStep \/ ParseTorn

SSpec == SInit /\ [][SNext]_svars

(* The behaviours in which nothing is put together from two texts.         *)
WholeEntries == SInit /\ [][ProducerStep \/ SpyStep]_svars
------------------------------------------------------------------------------
(* Types of what Spy adds to Producer.                                     *)
STypeOK ==
  /\ order \in [Partition -> Seq(Thread)]
  /\ request \in {"none", "memory", "processes"}
  /\ spy \in {"menu", "open", "parse", "shown", "exited", "crashed"}
  /\ spy_file \in File /\ next \in 0..N
  /\ passed \in [Partition -> Nat]
  /\ shown \in [Partition -> [Thread -> 0..(MaxSize + 1)]]
  /\ disturbed \in BOOLEAN /\ intact \in 0..N
  /\ {opened, always} \subseteq SUBSET (Thread \X Partition)

(* What the spy has read before the first write under its parse is right:  *)
(* those partitions show exactly the workers that were inside when it      *)
(* opened the file, each with its size.  A parse that nobody disturbs is a *)
(* true picture of all the partitions at one moment.                       *)
ReadIsExact ==
  spy \in {"parse", "shown"} =>
    \A p \in Partition, t \in Thread : p < next /\ p < intact =>
      shown[p][t] = IF <<t, p>> \in opened THEN process_size[t] ELSE 0

(* A worker that was in its partition during the whole reading is shown,   *)
(* unless the parse failed and nothing is.  ("Para las que están ocupadas  *)
(* debe decir el proceso que las ocupa.")                                  *)
InsideAreShown ==
  (spy = "shown" /\ next = N) => \A u \in always : shown[u[2]][u[1]] # 0
===============================================================================
