------------------------------ MODULE ParsonArray ------------------------------
(***************************************************************************)
(* JSON_Array of parson.c: an array of values with a count and a capacity. *)
(* Appending doubles the array when it is full, up to ARRAY_MAX_CAPACITY;  *)
(* a removed item is replaced by the last one.                             *)
(***************************************************************************)
EXTENDS ParsonMemory

VARIABLES array_phase,     \* "parsing", then "ready", then "freed"
          items, array_count, array_capacity,
          array_heap       \* of each value, as in ParsonMemory

avars == <<array_phase, items, array_count, array_capacity, array_heap>>

Indexes == 0..array_count-1

ArrayFull == array_count >= array_capacity

NoRoomForItem == ArrayFull /\ Grown(array_capacity) > MaxCapacity

ArrayContents == {items[i] : i \in Indexes}

AInit ==
  /\ array_phase = "parsing"
  /\ items = [i \in Slot |-> NoValue] /\ array_count = 0 /\ array_capacity = 0
  /\ array_heap = [v \in Value |-> "free"]

(* json_array_add: room for one more.                                      *)
AddItem(v) ==
  /\ ~NoRoomForItem
  /\ array_capacity' =
       IF ArrayFull THEN Grown(array_capacity) ELSE array_capacity
  /\ items' = [items EXCEPT ![array_count] = v]
  /\ array_count' = array_count + 1
  /\ array_heap' = [array_heap EXCEPT ![v] = "owned"]

FreeArray ==
  /\ array_phase' = "freed"
  /\ array_heap' = Freed(array_heap, ArrayContents)
  /\ array_count' = 0
  /\ UNCHANGED <<items, array_capacity>>

(* parse_array_value: one more value, a failure, or the end, where the     *)
(* array is cut to its count.                                              *)
ParseItem(v) ==
  /\ array_phase = "parsing" /\ array_heap[v] = "free"
  /\ AddItem(v) /\ UNCHANGED array_phase

ParseArrayFails == array_phase = "parsing" /\ FreeArray

TrimArray ==
  /\ array_phase = "parsing"
  /\ array_phase' = "ready" /\ array_capacity' = array_count
  /\ UNCHANGED <<items, array_count, array_heap>>

AllocateItem(v) ==
  /\ array_heap[v] = "free" /\ array_heap' = [array_heap EXCEPT ![v] = "loose"]
  /\ UNCHANGED <<array_phase, items, array_count, array_capacity>>

(* json_value_free, by the caller.                                         *)
FreeLooseItem(v) ==
  /\ array_heap[v] = "loose" /\ array_heap' = Freed(array_heap, {v})
  /\ UNCHANGED <<array_phase, items, array_count, array_capacity>>

(* A value that has a parent, in this array or elsewhere, is refused.      *)
json_array_append_value(v) ==
  /\ array_phase = "ready" /\ array_heap[v] = "loose"
  /\ AddItem(v) /\ UNCHANGED array_phase

(* json_array_append_string and its siblings make the value and free it    *)
(* again when it is refused.                                               *)
AppendNew(v) ==
  /\ array_phase = "ready" /\ array_heap[v] = "free"
  /\ AddItem(v) /\ UNCHANGED array_phase

(* Variant: the parent of the value is not asked for.                      *)
ReplaceUnchecked(i, v) ==
  /\ array_phase = "ready" /\ i \in Indexes
  /\ array_heap[v] \in {"loose", "owned"}
  /\ array_heap' = [Freed(array_heap, {items[i]}) EXCEPT ![v] = "owned"]
  /\ items' = [items EXCEPT ![i] = v]
  /\ UNCHANGED <<array_phase, array_count, array_capacity>>

json_array_replace_value(i, v) ==
  /\ array_phase = "ready" /\ array_heap[v] = "loose" /\ i \in Indexes
  /\ array_heap' = [Freed(array_heap, {items[i]}) EXCEPT ![v] = "owned"]
  /\ items' = [items EXCEPT ![i] = v]
  /\ UNCHANGED <<array_phase, array_count, array_capacity>>

(* json_array_replace_string and its siblings, in the same way.            *)
ReplaceNew(i, v) ==
  /\ array_phase = "ready" /\ array_heap[v] = "free" /\ i \in Indexes
  /\ array_heap' = [Freed(array_heap, {items[i]}) EXCEPT ![v] = "owned"]
  /\ items' = [items EXCEPT ![i] = v]
  /\ UNCHANGED <<array_phase, array_count, array_capacity>>

(* Variant: the items behind the hole are each moved up by one.            *)
RemoveAndShift(i) ==
  /\ array_phase = "ready" /\ i \in Indexes
  /\ array_heap' = Freed(array_heap, {items[i]})
  /\ items' = [j \in Slot |->
                 IF j \in i..array_count-2 THEN items[j + 1] ELSE items[j]]
  /\ array_count' = array_count - 1
  /\ UNCHANGED <<array_phase, array_capacity>>

json_array_remove(i) ==
  /\ array_phase = "ready" /\ i \in Indexes
  /\ array_heap' = Freed(array_heap, {items[i]})
  /\ items' = [items EXCEPT ![i] = items[array_count - 1]]
  /\ array_count' = array_count - 1
  /\ UNCHANGED <<array_phase, array_capacity>>

(* Variant: the count is not reset.                                        *)
ArrayClearKeepsCount ==
  /\ array_phase = "ready" /\ array_heap' = Freed(array_heap, ArrayContents)
  /\ UNCHANGED <<array_phase, items, array_count, array_capacity>>

json_array_clear ==
  /\ array_phase = "ready"
  /\ array_heap' = Freed(array_heap, ArrayContents) /\ array_count' = 0
  /\ UNCHANGED <<array_phase, items, array_capacity>>

json_array_free == array_phase = "ready" /\ FreeArray

(* A freed array is never used again.                                      *)
ArrayOver == array_phase = "freed" /\ UNCHANGED avars

ANext ==
  \/ \E v \in Value : \/ AllocateItem(v) \/ FreeLooseItem(v)
                      \/ ParseItem(v) \/ json_array_append_value(v)
                      \/ AppendNew(v)
  \/ \E v \in Value, i \in Slot :
       json_array_replace_value(i, v) \/ ReplaceNew(i, v)
  \/ \E i \in Slot : json_array_remove(i)
  \/ ParseArrayFails \/ TrimArray
  \/ json_array_clear \/ json_array_free \/ ArrayOver

ASpec == AInit /\ [][ANext]_avars
------------------------------------------------------------------------------
(* Types; no value is freed twice.                                         *)
ATypeOK ==
  /\ array_phase \in {"parsing", "ready", "freed"}
  /\ items \in [Slot -> Value \cup {NoValue}]
  /\ array_count \in 0..array_capacity /\ array_capacity \in 0..MaxCapacity
  /\ array_heap \in [Value -> {"free", "loose", "owned"}]

(* The array refers to live values only, to each once, and owns exactly    *)
(* those.                                                                  *)
ArrayOwnership ==
  /\ \A i \in Indexes : items[i] \in Value /\ array_heap[items[i]] = "owned"
  /\ \A i, j \in Indexes : items[i] = items[j] => i = j
  /\ \A v \in Value : array_heap[v] = "owned" => v \in ArrayContents

(* "Order of values in array may change", but only so: an item that is not *)
(* freed by a call keeps its index, or is the last one and gets the index  *)
(* of the one freed.                                                       *)
KeepsIndexOrFillsHole ==
  [][\A i \in Indexes :
       array_heap'[items[i]] = "owned" =>
         \/ i < array_count' /\ items'[i] = items[i]
         \/ /\ i = array_count - 1 /\ array_count' = i
            /\ \E j \in 0..array_count'-1 :
                 array_heap'[items[j]] = "free" /\ items'[j] = items[i]]_avars
===============================================================================
