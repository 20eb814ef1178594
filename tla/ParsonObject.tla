------------------------------ MODULE ParsonObject -----------------------------
(***************************************************************************)
(* JSON_Object of parson.c: parallel arrays of names and values with a     *)
(* count and a capacity.  A new entry goes to the end, a removed one is    *)
(* replaced by the last one, and the arrays double when they are full, up  *)
(* to OBJECT_MAX_CAPACITY; the end of a parse cuts them to the count.      *)
(***************************************************************************)
EXTENDS ParsonMemory

CONSTANTS Name, NoName

ASSUME NoNameAssumption == NoName \notin Name

VARIABLES phase,     \* "parsing", then "ready", then "freed"
          names, values, count, capacity,
          heap       \* of each value, as in ParsonMemory

entries == <<names, values, count>>
ovars == <<phase, entries, capacity, heap>>

Used == 0..count-1

Full == count >= capacity

NoRoom == Full /\ Grown(capacity) > MaxCapacity

Has(n) == \E i \in Used : names[i] = n

Contents == {values[i] : i \in Used}

OInit ==
  /\ phase = "parsing"
  /\ names = [i \in Slot |-> NoName] /\ values = [i \in Slot |-> NoValue]
  /\ count = 0 /\ capacity = 0
  /\ heap = [v \in Value |-> "free"]
------------------------------------------------------------------------------
(* json_object_add and json_object_resize.                                 *)

Add(n, v) ==
  /\ ~NoRoom
  /\ capacity' = IF Full THEN Grown(capacity) ELSE capacity
  /\ names' = [names EXCEPT ![count] = n]
  /\ values' = [values EXCEPT ![count] = v]
  /\ count' = count + 1

(* No room, or one of the mallocs of the arrays or of the name failed.     *)
RefuseAdd ==
  /\ UNCHANGED entries
  /\ capacity' \in {capacity} \cup (IF Full /\ ~NoRoom THEN {Grown(capacity)} ELSE {})
------------------------------------------------------------------------------
(* parse_object_value: any failure frees the object and what it has.       *)

FreeAll ==
  /\ phase' = "freed"
  /\ heap' = Freed(heap, Contents)
  /\ count' = 0
  /\ UNCHANGED <<names, values, capacity>>

(* Variant: a name that is there already is added again.                   *)
ParseEntryUnchecked(n, v) ==
  /\ phase = "parsing" /\ heap[v] = "free"
  /\ Add(n, v) /\ UNCHANGED phase /\ heap' = [heap EXCEPT ![v] = "owned"]

ParseEntry(n, v) ==
  /\ phase = "parsing" /\ heap[v] = "free" /\ ~Has(n)
  /\ Add(n, v) /\ UNCHANGED phase /\ heap' = [heap EXCEPT ![v] = "owned"]

(* The text is wrong, a name comes twice, or an entry is refused.          *)
ParseFails == phase = "parsing" /\ FreeAll

(* Line 700: the arrays are cut to the count, those of an empty object are *)
(* not allocated yet.                                                      *)
Trim ==
  /\ phase = "parsing"
  /\ phase' = "ready" /\ capacity' = count
  /\ UNCHANGED <<entries, heap>>
------------------------------------------------------------------------------
(* The object API.                                                         *)

(* json_value_init_null and the like, and json_value_free by the caller.   *)
Allocate(v) ==
  /\ heap[v] = "free" /\ heap' = [heap EXCEPT ![v] = "loose"]
  /\ UNCHANGED <<phase, entries, capacity>>

FreeLoose(v) ==
  /\ heap[v] = "loose" /\ heap' = Freed(heap, {v})
  /\ UNCHANGED <<phase, entries, capacity>>

(* The old value of the name is freed and v takes its slot.                *)
Replace(n, v) ==
  /\ \E i \in Used :
       /\ names[i] = n
       /\ values' = [values EXCEPT ![i] = v]
       /\ heap' = [Freed(heap, {values[i]}) EXCEPT ![v] = "owned"]
  /\ UNCHANGED <<names, count, capacity>>

(* Lines 1688-1707; a value that has a parent is refused.                  *)
SetValue(n, v) ==
  /\ phase = "ready" /\ heap[v] = "loose"
  /\ \/ Replace(n, v)
     \/ ~Has(n) /\ Add(n, v) /\ heap' = [heap EXCEPT ![v] = "owned"]
     \/ ~Has(n) /\ RefuseAdd /\ UNCHANGED heap
  /\ UNCHANGED phase

(* json_object_set_null and its siblings make the value themselves; one    *)
(* that is refused is not freed.                                           *)
SetNew(n, v) ==
  /\ phase = "ready" /\ heap[v] = "free"
  /\ \/ Replace(n, v)
     \/ ~Has(n) /\ Add(n, v) /\ heap' = [heap EXCEPT ![v] = "owned"]
     \/ ~Has(n) /\ RefuseAdd /\ heap' = [heap EXCEPT ![v] = "leaked"]
  /\ UNCHANGED phase

(* Variant: the entries behind the hole are lost with the last one.        *)
RemoveLast(n) ==
  /\ phase = "ready"
  /\ \E i \in Used : names[i] = n /\ heap' = Freed(heap, {values[i]})
  /\ count' = count - 1
  /\ UNCHANGED <<phase, names, values, capacity>>

(* Variant: the last entry is copied into the hole and stays where it was. *)
RemoveKeepsLast(n) ==
  /\ phase = "ready"
  /\ \E i \in Used :
       /\ names[i] = n
       /\ heap' = Freed(heap, {values[i]})
       /\ names' = [names EXCEPT ![i] = names[count - 1]]
       /\ values' = [values EXCEPT ![i] = values[count - 1]]
  /\ count' = IF count = 1 THEN 0 ELSE count
  /\ UNCHANGED <<phase, capacity>>

json_object_remove(n) ==
  /\ phase = "ready"
  /\ \E i \in Used :
       /\ names[i] = n
       /\ heap' = Freed(heap, {values[i]})
       /\ names' = [names EXCEPT ![i] = names[count - 1]]
       /\ values' = [values EXCEPT ![i] = values[count - 1]]
  /\ count' = count - 1
  /\ UNCHANGED <<phase, capacity>>

(* Variant: the count is not reset.                                        *)
ClearKeepsCount ==
  /\ phase = "ready" /\ heap' = Freed(heap, Contents)
  /\ UNCHANGED <<phase, entries, capacity>>

json_object_clear ==
  /\ phase = "ready" /\ heap' = Freed(heap, Contents) /\ count' = 0
  /\ UNCHANGED <<phase, names, values, capacity>>

json_object_free == phase = "ready" /\ FreeAll

(* A freed object is never used again.                                     *)
Over == phase = "freed" /\ UNCHANGED ovars
------------------------------------------------------------------------------
ONext ==
  \/ \E v \in Value : Allocate(v) \/ FreeLoose(v)
  \/ \E n \in Name, v \in Value :
       ParseEntry(n, v) \/ SetValue(n, v) \/ SetNew(n, v)
  \/ ParseFails \/ Trim
  \/ \E n \in Name : json_object_remove(n)
  \/ json_object_clear \/ json_object_free \/ Over

OSpec == OInit /\ [][ONext]_ovars
------------------------------------------------------------------------------
(* Types; the entries fit into the arrays and the arrays into their        *)
(* maximum, and no value is freed twice.                                   *)
OTypeOK ==
  /\ phase \in {"parsing", "ready", "freed"}
  /\ names \in [Slot -> Name \cup {NoName}]
  /\ values \in [Slot -> Value \cup {NoValue}]
  /\ count \in 0..capacity
  /\ capacity \in 0..MaxCapacity
  /\ heap \in [Value -> {"free", "loose", "owned", "leaked"}]

(* No name is in the object twice, over any sequence of parsing, setting,  *)
(* removing (which moves the last entry) and clearing.                     *)
DistinctNames ==
  \A i, j \in Used : names[i] = names[j] => i = j

(* The object refers to live values only, to each once, and owns exactly   *)
(* those: nothing it shows was freed, nothing is freed with it twice or    *)
(* left behind.                                                            *)
Ownership ==
  /\ \A i \in Used : values[i] \in Value /\ heap[values[i]] = "owned"
  /\ \A i, j \in Used : values[i] = values[j] => i = j
  /\ \A v \in Value : heap[v] = "owned" => v \in Contents

ValueOf(n) == IF Has(n) THEN values[CHOOSE i \in Used : names[i] = n] ELSE NoValue

Mapped == [n \in Name |-> ValueOf(n)]

Map == INSTANCE JsonMap WITH map <- Mapped

(* The arrays implement a map: every call changes the entry it names and   *)
(* no other, however the slots move, grow or are cut.                      *)
ImplementsMap == Map!MapSpec
===============================================================================
