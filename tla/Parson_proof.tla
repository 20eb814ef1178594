----------------------------- MODULE Parson_proof ------------------------------
(***************************************************************************)
(* The objects, arrays and strings of parson.c, for any names and values,  *)
(* any capacities, any sequence of calls and strings of any length.        *)
(*                                                                         *)
(* Objects: the types, DistinctNames and Ownership are inductive together. *)
(* That a value is in one slot only is why the slot that is left empty, or *)
(* taken over, gives a value back once.  With them, an object is a map.    *)
(*                                                                         *)
(* Arrays: the types and ArrayOwnership are inductive together, and        *)
(* KeepsIndexOrFillsHole needs both: an item can be told from the others   *)
(* by its value only because no value is in two slots.                     *)
(*                                                                         *)
(* Strings, ValidIsWritten: for each length of a sequence a lemma says     *)
(* that a code point that is put together from its bytes comes apart into  *)
(* the same bytes, if it is large enough and they are continuation bytes.  *)
(*                                                                         *)
(* EscapesAreValid: process_string and is_valid_utf8 go through their      *)
(* texts from front to back, by functions that call themselves further on. *)
(* BackwardRecursion says that there are such functions and                *)
(* BackwardInduction is how something is shown of them; both are about     *)
(* sets, from the least element a set of natural numbers has.              *)
(***************************************************************************)
EXTENDS Parson, JsonRoundTrip_proof, WellFoundedInduction

ObjectInv == OTypeOK /\ DistinctNames /\ Ownership

(* What Freed does to the values of an object, each of which it owns.      *)
LEMMA FreedOwned ==
  ASSUME OTypeOK, NEW S \in SUBSET Value, \A v \in S : heap[v] # "free"
  PROVE  /\ Freed(heap, S) \in [Value -> {"free", "loose", "owned", "leaked"}]
         /\ \A v \in Value : Freed(heap, S)[v] = IF v \in S THEN "free" ELSE heap[v]
BY DEF OTypeOK, Freed

(* What is owned is what the object refers to.                             *)
LEMMA ContentsOwned ==
  ASSUME ObjectInv
  PROVE  /\ Contents \in SUBSET Value
         /\ \A v \in Value : v \in Contents <=> heap[v] = "owned"
BY DEF ObjectInv, Ownership, Contents

(* A new entry has a slot, in the arrays and below their maximum.          *)
LEMMA AddHasRoom ==
  ASSUME OTypeOK, NEW n, NEW v, Add(n, v)
  PROVE  /\ count \in Slot /\ capacity' \in 0..MaxCapacity /\ count' \in 0..capacity'
         /\ Used' = Used \cup {count} /\ count \notin Used
BY CapacityAssumption DEF OTypeOK, Add, NoRoom, Full, Grown, Slot, Used

(* A new name at the end, with a value nobody owned.                       *)
LEMMA AddKeeps ==
  ASSUME ObjectInv, NEW n \in Name, NEW v \in Value, Add(n, v), ~Has(n),
         heap[v] # "owned", heap' = [heap EXCEPT ![v] = "owned"], UNCHANGED phase
  PROVE  ObjectInv'
<1>0. OTypeOK /\ DistinctNames /\ Ownership
  BY DEF ObjectInv
<1>1. /\ count \in Slot /\ capacity' \in 0..MaxCapacity /\ count' \in 0..capacity'
      /\ Used' = Used \cup {count} /\ count \notin Used
  BY <1>0, AddHasRoom
<1>2. OTypeOK'
  BY <1>0, <1>1 DEF OTypeOK, Add
<1>3. /\ names'[count] = n /\ values'[count] = v
      /\ \A i \in Used : names'[i] = names[i] /\ values'[i] = values[i]
  BY <1>0, <1>1 DEF OTypeOK, Add, Used, Slot
<1>4. DistinctNames'
  BY <1>0, <1>1, <1>3 DEF DistinctNames, Has
<1>5. Ownership'
  BY <1>0, <1>1, <1>3 DEF Ownership, Contents, OTypeOK
<1>6. QED
  BY <1>2, <1>4, <1>5 DEF ObjectInv

(* All entries freed, and the count set to zero.                           *)
LEMMA FreeAllKeeps ==
  ASSUME ObjectInv, heap' = Freed(heap, Contents), count' = 0,
         UNCHANGED <<names, values, capacity>>, phase' \in {"ready", "freed"}
  PROVE  ObjectInv'
<1>1. OTypeOK'
  BY ContentsOwned, FreedOwned DEF ObjectInv, OTypeOK
<1>2. Used' = {}
  BY DEF Used
<1>3. \A v \in Value : heap'[v] # "owned"
  BY ContentsOwned, FreedOwned DEF ObjectInv
<1>4. QED
  BY <1>1, <1>2, <1>3 DEF ObjectInv, DistinctNames, Ownership

(* The value in slot i is freed, v takes the slot.                         *)
LEMMA ReplaceKeeps ==
  ASSUME ObjectInv, NEW n, NEW v \in Value, Replace(n, v), heap[v] # "owned",
         UNCHANGED phase
  PROVE  ObjectInv'
<1>0. OTypeOK /\ DistinctNames /\ Ownership
  BY DEF ObjectInv
<1>1. PICK i \in Used :
        /\ names[i] = n
        /\ values' = [values EXCEPT ![i] = v]
        /\ heap' = [Freed(heap, {values[i]}) EXCEPT ![v] = "owned"]
  BY DEF Replace
<1>2. UNCHANGED <<phase, names, count, capacity>> /\ Used' = Used
  BY DEF Replace, Used
<1>3. values[i] \in Value /\ heap[values[i]] = "owned" /\ i \in Slot
  BY <1>0, <1>1, CapacityAssumption DEF Ownership, OTypeOK, Used, Slot
<1>4. /\ Freed(heap, {values[i]}) \in [Value -> {"free", "loose", "owned", "leaked"}]
      /\ \A w \in Value : Freed(heap, {values[i]})[w] =
            IF w = values[i] THEN "free" ELSE heap[w]
  BY <1>0, <1>3, FreedOwned
<1>5. \A w \in Value : heap'[w] = IF w = v THEN "owned"
                                  ELSE IF w = values[i] THEN "free" ELSE heap[w]
  BY <1>1, <1>4
<1>6. OTypeOK'
  BY <1>0, <1>1, <1>2, <1>4 DEF OTypeOK
<1>7. DistinctNames'
  BY <1>0, <1>2 DEF DistinctNames
<1>8. Used \subseteq Slot
  BY <1>0, CapacityAssumption DEF OTypeOK, Used, Slot
<1>9. \A j \in Used : values'[j] = IF j = i THEN v ELSE values[j]
  BY <1>0, <1>1, <1>8 DEF OTypeOK
<1>10. Ownership'
  <2>1. \A j \in Used : values'[j] \in Value /\ heap'[values'[j]] = "owned"
    BY <1>0, <1>1, <1>5, <1>9 DEF Ownership
  <2>2. \A j, k \in Used : values'[j] = values'[k] => j = k
    BY <1>0, <1>9 DEF Ownership
  <2>3. \A w \in Value : heap'[w] = "owned" => \E j \in Used : w = values'[j]
    <3>1. SUFFICES ASSUME NEW w \in Value, heap'[w] = "owned"
                   PROVE  \E j \in Used : w = values'[j]
      OBVIOUS
    <3>2. CASE w = v
      BY <1>1, <1>3, <1>9, <3>2
    <3>3. CASE w # v
      <4>1. PICK j \in Used : w = values[j]
        BY <1>0, <1>5, <3>1, <3>3 DEF Ownership, Contents
      <4>2. j # i
        BY <1>5, <3>1, <3>3, <4>1
      <4>3. QED
        BY <1>9, <4>1, <4>2
    <3>4. QED
      BY <3>2, <3>3
  <2>4. QED
    BY <1>2, <2>1, <2>2, <2>3 DEF Ownership, Contents
<1>11. QED
  BY <1>6, <1>7, <1>10 DEF ObjectInv

(* The last entry gets into the slot that was left.                        *)
LEMMA RemoveKeeps ==
  ASSUME ObjectInv, NEW n, json_object_remove(n)
  PROVE  ObjectInv'
<1>0. OTypeOK /\ DistinctNames /\ Ownership
  BY DEF ObjectInv
<1>1. PICK i \in Used :
        /\ names[i] = n
        /\ heap' = Freed(heap, {values[i]})
        /\ names' = [names EXCEPT ![i] = names[count - 1]]
        /\ values' = [values EXCEPT ![i] = values[count - 1]]
  BY DEF json_object_remove
<1>2. UNCHANGED <<phase, capacity>> /\ count' = count - 1
  BY DEF json_object_remove
<1>3. /\ Used \subseteq Slot /\ count - 1 \in Used /\ count' \in 0..capacity
      /\ Used' = Used \ {count - 1}
  BY <1>0, <1>1, <1>2, CapacityAssumption DEF OTypeOK, Used, Slot
<1>4. \A j \in Used : /\ names'[j] = IF j = i THEN names[count - 1] ELSE names[j]
                      /\ values'[j] = IF j = i THEN values[count - 1] ELSE values[j]
  BY <1>0, <1>1, <1>3 DEF OTypeOK
<1>5. values[i] \in Value /\ heap[values[i]] = "owned"
  BY <1>0, <1>1 DEF Ownership
<1>6. /\ heap' \in [Value -> {"free", "loose", "owned", "leaked"}]
      /\ \A w \in Value : heap'[w] = IF w = values[i] THEN "free" ELSE heap[w]
  BY <1>0, <1>1, <1>5, FreedOwned
<1>7. OTypeOK'
  BY <1>0, <1>1, <1>2, <1>3, <1>6 DEF OTypeOK
<1>8. DistinctNames'
  BY <1>0, <1>1, <1>3, <1>4 DEF DistinctNames
<1>9. Ownership'
  <2>1. \A j \in Used' : values'[j] \in Value /\ values'[j] # values[i]
                         /\ heap[values'[j]] = "owned"
    BY <1>0, <1>1, <1>3, <1>4 DEF Ownership
  <2>2. \A j, k \in Used' : values'[j] = values'[k] => j = k
    BY <1>0, <1>1, <1>3, <1>4 DEF Ownership
  <2>3. ASSUME NEW w \in Value, heap'[w] = "owned"
        PROVE  \E j \in Used' : w = values'[j]
    <3>1. PICK j \in Used : w = values[j] /\ j # i
      BY <1>0, <1>1, <1>5, <1>6, <2>3 DEF Ownership, Contents
    <3>2. CASE j = count - 1
      BY <1>1, <1>3, <1>4, <3>1, <3>2
    <3>3. CASE j # count - 1
      BY <1>3, <1>4, <3>1, <3>3
    <3>4. QED
      BY <3>2, <3>3
  <2>4. QED
    BY <1>6, <2>1, <2>2, <2>3 DEF Ownership, Contents
<1>10. QED
  BY <1>7, <1>8, <1>9 DEF ObjectInv

(* A value that is not in the object changes hands outside it.             *)
LEMMA OutsideKeeps ==
  ASSUME ObjectInv, UNCHANGED entries, capacity' \in count..MaxCapacity,
         phase' \in {"parsing", "ready", "freed"},
         heap' \in [Value -> {"free", "loose", "owned", "leaked"}],
         \A v \in Value : heap'[v] = "owned" <=> heap[v] = "owned"
  PROVE  ObjectInv'
BY DEF ObjectInv, OTypeOK, DistinctNames, Ownership, Contents, Used, entries

(* A refused entry changes at most the capacity and what is not owned.     *)
LEMMA RefuseKeeps ==
  ASSUME ObjectInv, RefuseAdd, UNCHANGED phase,
         heap' \in [Value -> {"free", "loose", "owned", "leaked"}],
         \A v \in Value : heap'[v] = "owned" <=> heap[v] = "owned"
  PROVE  ObjectInv'
<1>1. capacity' \in count..MaxCapacity
  BY CapacityAssumption
     DEF ObjectInv, OTypeOK, RefuseAdd, Full, NoRoom, Grown
<1>2. QED
  BY <1>1, OutsideKeeps DEF ObjectInv, OTypeOK, RefuseAdd

(* So every step keeps the invariant.                                      *)
LEMMA ObjectStep == ObjectInv /\ [ONext]_ovars => ObjectInv'
<1> SUFFICES ASSUME ObjectInv, [ONext]_ovars PROVE ObjectInv'
  OBVIOUS
<1>0. OTypeOK /\ count \in count..MaxCapacity /\ capacity \in count..MaxCapacity
  BY CapacityAssumption DEF ObjectInv, OTypeOK
<1>1. ASSUME NEW v \in Value, Allocate(v) PROVE ObjectInv'
  BY <1>0, <1>1, OutsideKeeps DEF Allocate, OTypeOK
<1>2. ASSUME NEW v \in Value, FreeLoose(v) PROVE ObjectInv'
  BY <1>0, <1>2, OutsideKeeps, FreedOwned DEF FreeLoose, OTypeOK
<1>3. ASSUME NEW n \in Name, NEW v \in Value, ParseEntry(n, v) PROVE ObjectInv'
  BY <1>3, AddKeeps DEF ParseEntry
<1>4. ASSUME NEW n \in Name, NEW v \in Value, SetValue(n, v) PROVE ObjectInv'
  <2>1. CASE Replace(n, v)
    BY <1>4, <2>1, ReplaceKeeps DEF SetValue
  <2>2. CASE ~Has(n) /\ Add(n, v) /\ heap' = [heap EXCEPT ![v] = "owned"]
    BY <1>4, <2>2, AddKeeps DEF SetValue
  <2>3. CASE RefuseAdd /\ UNCHANGED heap
    BY <1>0, <1>4, <2>3, RefuseKeeps DEF SetValue, OTypeOK
  <2>4. QED
    BY <1>4, <2>1, <2>2, <2>3 DEF SetValue
<1>5. ASSUME NEW n \in Name, NEW v \in Value, SetNew(n, v) PROVE ObjectInv'
  <2>1. CASE Replace(n, v)
    BY <1>5, <2>1, ReplaceKeeps DEF SetNew
  <2>2. CASE ~Has(n) /\ Add(n, v) /\ heap' = [heap EXCEPT ![v] = "owned"]
    BY <1>5, <2>2, AddKeeps DEF SetNew
  <2>3. CASE RefuseAdd /\ heap' = [heap EXCEPT ![v] = "leaked"]
    BY <1>0, <1>5, <2>3, RefuseKeeps DEF SetNew, OTypeOK
  <2>4. QED
    BY <1>5, <2>1, <2>2, <2>3 DEF SetNew
<1>6. CASE ParseFails \/ json_object_free \/ json_object_clear
  BY <1>6, FreeAllKeeps
     DEF ParseFails, json_object_free, json_object_clear, FreeAll
<1>7. CASE Trim
  BY <1>0, <1>7, OutsideKeeps DEF Trim, OTypeOK
<1>8. ASSUME NEW n \in Name, json_object_remove(n) PROVE ObjectInv'
  BY <1>8, RemoveKeeps
<1>9. CASE UNCHANGED ovars
  BY <1>0, <1>9, OutsideKeeps DEF ovars, OTypeOK
<1>10. QED
  BY <1>1, <1>2, <1>3, <1>4, <1>5, <1>6, <1>7, <1>8, <1>9 DEF ONext, Over

(* An object has no name twice, and owns the values it refers to and no    *)
(* other, in every reachable state.                                        *)
THEOREM ObjectCorrect == OSpec => []ObjectInv
<1>1. OInit => ObjectInv
  BY NoValueAssumption, CapacityAssumption
     DEF OInit, ObjectInv, OTypeOK, DistinctNames, Ownership, Contents, Used
<1>2. QED
  BY <1>1, ObjectStep, PTL DEF OSpec

(* The entries fit into the arrays, and no value is freed twice.           *)
THEOREM ObjectTypeCorrect == OSpec => []OTypeOK
BY ObjectCorrect, PTL DEF ObjectInv

(* No sequence of calls brings a name into an object twice.                *)
THEOREM NamesDistinct == OSpec => []DistinctNames
BY ObjectCorrect, PTL DEF ObjectInv

(* Nothing an object refers to was freed, nothing it owns is lost.         *)
THEOREM ValuesOwned == OSpec => []Ownership
BY ObjectCorrect, PTL DEF ObjectInv
------------------------------------------------------------------------------
(* The refinement.                                                         *)

(* Looking up a name finds its value, now and after a step.                *)
LEMMA Lookup ==
  ASSUME DistinctNames
  PROVE  /\ \A i \in Used : ValueOf(names[i]) = values[i]
         /\ \A n : ~Has(n) => ValueOf(n) = NoValue
BY DEF DistinctNames, ValueOf, Has

LEMMA LookupNext ==
  ASSUME DistinctNames'
  PROVE  /\ \A i \in Used' : ValueOf(names[i])' = values'[i]
         /\ \A n : ~Has(n)' => ValueOf(n)' = NoValue
BY DEF DistinctNames, ValueOf, Has
(* The map after an entry got a value, was taken out, or none was touched. *)
LEMMA MapPut ==
  ASSUME ObjectInv, ObjectInv', NEW n \in Name, NEW v,
         \E i \in Used' : names'[i] = n /\ values'[i] = v,
         Used \subseteq Used',
         \A i \in Used : names'[i] = names[i],
         \A i \in Used' : names'[i] # n => i \in Used /\ values'[i] = values[i]
  PROVE  Mapped' = [Mapped EXCEPT ![n] = v]
<1>1. DistinctNames /\ DistinctNames'
  BY DEF ObjectInv
<1>2. ValueOf(n)' = v
  BY <1>1, LookupNext
<1>3. ASSUME NEW m \in Name \ {n} PROVE ValueOf(m)' = ValueOf(m)
  <2>1. CASE Has(m)
    <3>1. PICK i \in Used : names[i] = m
      BY <2>1 DEF Has
    <3>2. ValueOf(m) = values[i]
      BY <1>1, <3>1, Lookup
    <3>3. i \in Used' /\ names'[i] = m /\ values'[i] = values[i]
      BY <3>1, <1>3
    <3>4. ValueOf(m)' = values'[i]
      BY <1>1, <3>3, LookupNext
    <3>5. QED
      BY <3>2, <3>3, <3>4
  <2>2. CASE ~Has(m)
    <3>1. ~Has(m)'
      BY <2>2, <1>3 DEF Has
    <3>2. QED
      BY <1>1, <2>2, <3>1, Lookup, LookupNext
  <2>3. QED
    BY <2>1, <2>2
<1>4. QED
  BY <1>2, <1>3 DEF Mapped

LEMMA MapDrop ==
  ASSUME ObjectInv, NEW n \in Name, json_object_remove(n)
  PROVE  Mapped[n] # NoValue /\ Mapped' = [Mapped EXCEPT ![n] = NoValue]
<1>0. OTypeOK /\ DistinctNames /\ Ownership /\ DistinctNames'
  BY RemoveKeeps DEF ObjectInv
<1>1. PICK i \in Used :
        /\ names[i] = n
        /\ names' = [names EXCEPT ![i] = names[count - 1]]
        /\ values' = [values EXCEPT ![i] = values[count - 1]]
  BY DEF json_object_remove
<1>2. /\ Used \subseteq Slot /\ count - 1 \in Used
      /\ Used' = Used \ {count - 1}
  BY <1>0, <1>1, CapacityAssumption DEF json_object_remove, OTypeOK, Used, Slot
<1>3. \A j \in Used : /\ names'[j] = IF j = i THEN names[count - 1] ELSE names[j]
                      /\ values'[j] = IF j = i THEN values[count - 1] ELSE values[j]
  BY <1>0, <1>1, <1>2 DEF OTypeOK
<1>4. Mapped[n] # NoValue
  BY <1>0, <1>1, Lookup, NoValueAssumption DEF Ownership, Mapped
<1>5. ValueOf(n)' = NoValue
  <2>1. ~Has(n)'
    BY <1>0, <1>1, <1>2, <1>3 DEF Has, DistinctNames
  <2>2. QED
    BY <1>0, <2>1, LookupNext
<1>6. ASSUME NEW m \in Name \ {n} PROVE ValueOf(m)' = ValueOf(m)
  <2>1. CASE Has(m)
    <3>1. PICK j \in Used : names[j] = m /\ j # i
      BY <2>1, <1>1, <1>6 DEF Has
    <3>2. PICK k \in Used' : names'[k] = m /\ values'[k] = values[j]
      <4>1. CASE j = count - 1
        BY <1>1, <1>2, <1>3, <3>1, <4>1
      <4>2. CASE j # count - 1
        BY <1>2, <1>3, <3>1, <4>2
      <4>3. QED
        BY <4>1, <4>2
    <3>3. ValueOf(m) = values[j] /\ ValueOf(m)' = values'[k]
      BY <1>0, <3>1, <3>2, Lookup, LookupNext
    <3>4. QED
      BY <3>2, <3>3
  <2>2. CASE ~Has(m)
    <3>1. ~Has(m)'
      BY <2>2, <1>1, <1>2, <1>3, <1>6 DEF Has
    <3>2. QED
      BY <1>0, <2>2, <3>1, Lookup, LookupNext
  <2>3. QED
    BY <2>1, <2>2
<1>7. Mapped' = [Mapped EXCEPT ![n] = NoValue]
  BY <1>5, <1>6 DEF Mapped
<1>8. QED
  BY <1>4, <1>7

(* All entries were taken out.                                             *)
LEMMA MapDropAll ==
  ASSUME count' = 0
  PROVE  Mapped' = [n \in Name |-> NoValue]
<1>1. \A n : ~Has(n)'
  BY DEF Has, Used
<1>2. QED
  BY <1>1 DEF Mapped, ValueOf

(* The entries stayed.                                                     *)
LEMMA MapSame ==
  ASSUME UNCHANGED entries
  PROVE  Mapped' = Mapped
BY DEF entries, Mapped, ValueOf, Has, Used
(* An added or replaced entry is a Put.                                    *)
LEMMA AddPuts ==
  ASSUME ObjectInv, ObjectInv', NEW n \in Name, NEW v \in Value, Add(n, v), ~Has(n),
         heap[v] \in {"free", "loose"}, heap' = [heap EXCEPT ![v] = "owned"]
  PROVE  Map!Put(n, v)
<1>1. /\ Used' = Used \cup {count} /\ count \in Slot /\ count \notin Used
      /\ Used \subseteq Slot
  BY AddHasRoom, CapacityAssumption DEF ObjectInv, OTypeOK, Used, Slot
<1>2. /\ names'[count] = n /\ values'[count] = v
      /\ \A i \in Used : names'[i] = names[i] /\ values'[i] = values[i]
  BY <1>1 DEF ObjectInv, OTypeOK, Add
<1>3. Mapped' = [Mapped EXCEPT ![n] = v]
  BY <1>1, <1>2, MapPut
<1>4. Mapped[n] = NoValue
  BY Lookup DEF ObjectInv, Mapped
<1>5. heap' = [w \in Value |-> IF w = v THEN "owned"
                              ELSE IF w = Mapped[n] THEN "free" ELSE heap[w]]
  BY <1>4, NoValueAssumption DEF ObjectInv, OTypeOK
<1>6. QED
  BY <1>3, <1>5 DEF Map!Put

(* A replaced value is a Put, freed entries are a Drop or a DropAll.       *)
LEMMA ReplacePuts ==
  ASSUME ObjectInv, ObjectInv', NEW n \in Name, NEW v \in Value, Replace(n, v),
         heap[v] \in {"free", "loose"}
  PROVE  Map!Put(n, v)
<1>0. OTypeOK /\ DistinctNames /\ Ownership
  BY DEF ObjectInv
<1>1. PICK i \in Used :
        /\ names[i] = n
        /\ values' = [values EXCEPT ![i] = v]
        /\ heap' = [Freed(heap, {values[i]}) EXCEPT ![v] = "owned"]
  BY DEF Replace
<1>2. UNCHANGED <<names, count>> /\ Used' = Used /\ Used \subseteq Slot
  BY <1>0, CapacityAssumption DEF Replace, Used, OTypeOK, Slot
<1>3. \A j \in Used : values'[j] = IF j = i THEN v ELSE values[j]
  BY <1>0, <1>1, <1>2 DEF OTypeOK
<1>4. Mapped' = [Mapped EXCEPT ![n] = v]
  BY <1>1, <1>2, <1>3, MapPut
<1>5. Mapped[n] = values[i]
  BY <1>0, <1>1, Lookup DEF Mapped
<1>6. values[i] \in Value /\ heap[values[i]] = "owned"
  BY <1>0, <1>1 DEF Ownership
<1>7. heap' = [w \in Value |-> IF w = v THEN "owned"
                              ELSE IF w = Mapped[n] THEN "free" ELSE heap[w]]
  BY <1>0, <1>1, <1>5, <1>6 DEF Freed, OTypeOK
<1>8. QED
  BY <1>4, <1>7 DEF Map!Put

(* Any change outside the object is one of the map's.                      *)
LEMMA OutsideMaps ==
  ASSUME UNCHANGED entries, NEW v \in Value, NEW s \in {"free", "loose", "leaked"},
         heap[v] # "owned", heap' = [heap EXCEPT ![v] = s]
  PROVE  Map!Elsewhere
BY MapSame DEF Map!Elsewhere

LEMMA DropAllMaps ==
  ASSUME ObjectInv, heap' = Freed(heap, Contents), count' = 0
  PROVE  Map!DropAll
<1>1. heap' = [v \in Value |-> IF heap[v] = "owned" THEN "free" ELSE heap[v]]
  BY ContentsOwned DEF Freed
<1>2. QED
  BY <1>1, MapDropAll DEF Map!DropAll

LEMMA RemoveDrops ==
  ASSUME ObjectInv, NEW n \in Name, json_object_remove(n)
  PROVE  Map!Drop(n)
<1>1. PICK i \in Used : names[i] = n /\ heap' = Freed(heap, {values[i]})
  BY DEF json_object_remove
<1>2. Mapped[n] = values[i]
  BY <1>1, Lookup DEF ObjectInv, Mapped
<1>3. values[i] \in Value /\ heap[values[i]] = "owned"
  BY <1>1 DEF ObjectInv, Ownership
<1>4. heap' = [heap EXCEPT ![Mapped[n]] = "free"]
  BY <1>1, <1>2, <1>3 DEF Freed, ObjectInv, OTypeOK
<1>5. QED
  BY <1>4, MapDrop DEF Map!Drop

(* So every step of the object is one of the map or stutters.              *)
LEMMA MapStep ==
  ASSUME ObjectInv, ObjectInv', [ONext]_ovars
  PROVE  Map!MapNext \/ UNCHANGED <<Mapped, heap>>
<1>0. OTypeOK
  BY DEF ObjectInv
<1>1. ASSUME NEW v \in Value, Allocate(v) PROVE Map!MapNext
  BY <1>1, OutsideMaps DEF Allocate, Map!MapNext
<1>2. ASSUME NEW v \in Value, FreeLoose(v) PROVE Map!MapNext
  <2>1. heap' = [heap EXCEPT ![v] = "free"]
    BY <1>0, <1>2 DEF FreeLoose, Freed, OTypeOK
  <2>2. QED
    BY <1>2, <2>1, OutsideMaps DEF FreeLoose, Map!MapNext
<1>3. ASSUME NEW n \in Name, NEW v \in Value, ParseEntry(n, v) PROVE Map!MapNext
  BY <1>3, AddPuts DEF ParseEntry, Map!MapNext
<1>4. ASSUME NEW n \in Name, NEW v \in Value, SetValue(n, v)
      PROVE  Map!MapNext \/ UNCHANGED <<Mapped, heap>>
  <2>1. CASE Replace(n, v)
    BY <1>4, <2>1, ReplacePuts DEF SetValue, Map!MapNext
  <2>2. CASE ~Has(n) /\ Add(n, v) /\ heap' = [heap EXCEPT ![v] = "owned"]
    BY <1>4, <2>2, AddPuts DEF SetValue, Map!MapNext
  <2>3. CASE RefuseAdd /\ UNCHANGED heap
    BY <2>3, MapSame DEF RefuseAdd
  <2>4. QED
    BY <1>4, <2>1, <2>2, <2>3 DEF SetValue
<1>5. ASSUME NEW n \in Name, NEW v \in Value, SetNew(n, v) PROVE Map!MapNext
  <2>1. CASE Replace(n, v)
    BY <1>5, <2>1, ReplacePuts DEF SetNew, Map!MapNext
  <2>2. CASE ~Has(n) /\ Add(n, v) /\ heap' = [heap EXCEPT ![v] = "owned"]
    BY <1>5, <2>2, AddPuts DEF SetNew, Map!MapNext
  <2>3. CASE RefuseAdd /\ heap' = [heap EXCEPT ![v] = "leaked"]
    BY <1>5, <2>3, OutsideMaps DEF SetNew, RefuseAdd, Map!MapNext
  <2>4. QED
    BY <1>5, <2>1, <2>2, <2>3 DEF SetNew
<1>6. CASE ParseFails \/ json_object_free \/ json_object_clear
  BY <1>6, DropAllMaps
     DEF ParseFails, json_object_free, json_object_clear, FreeAll, Map!MapNext
<1>7. CASE Trim
  BY <1>7, MapSame DEF Trim
<1>8. ASSUME NEW n \in Name, json_object_remove(n) PROVE Map!MapNext
  BY <1>8, RemoveDrops DEF Map!MapNext
<1>9. CASE UNCHANGED ovars
  BY <1>9, MapSame DEF ovars
<1>10. QED
  BY <1>1, <1>2, <1>3, <1>4, <1>5, <1>6, <1>7, <1>8, <1>9 DEF ONext, Over

(* Two parallel arrays with a count, that grow, are cut and are refilled   *)
(* from their end, are a map that owns its values.                         *)
THEOREM ObjectIsMap == OSpec => ImplementsMap
<1>1. OInit => Map!MapInit
  <2>1. OInit => Mapped = [n \in Name |-> NoValue]
    BY DEF OInit, Mapped, ValueOf, Has, Used
  <2>2. QED
    BY <2>1 DEF OInit, Map!MapInit
<1>2. ObjectInv /\ ObjectInv' /\ [ONext]_ovars => [Map!MapNext]_(Map!mapvars)
  BY MapStep DEF Map!mapvars
<1>3. QED
  BY <1>1, <1>2, ObjectCorrect, PTL DEF OSpec, ImplementsMap, Map!MapSpec
------------------------------------------------------------------------------
ArrayInv == ATypeOK /\ ArrayOwnership

HeapState == {"free", "loose", "owned"}

(* What a step may do to the items that are there before it.               *)
KeepsOrFills ==
  \A i \in Indexes :
    array_heap'[items[i]] = "owned" =>
      \/ i < array_count' /\ items'[i] = items[i]
      \/ /\ i = array_count - 1 /\ array_count' = i
         /\ \E j \in 0..array_count'-1 :
              array_heap'[items[j]] = "free" /\ items'[j] = items[i]

(* What Freed does to values that are not free.                            *)
LEMMA FreedLive ==
  ASSUME ATypeOK, NEW S \in SUBSET Value, \A v \in S : array_heap[v] # "free"
  PROVE  /\ Freed(array_heap, S) \in [Value -> HeapState]
         /\ \A v \in Value :
              Freed(array_heap, S)[v] = IF v \in S THEN "free" ELSE array_heap[v]
BY DEF ATypeOK, Freed, HeapState

(* What is owned is what the array refers to.                              *)
LEMMA OwnedAreItems ==
  ASSUME ArrayInv
  PROVE  /\ ArrayContents \in SUBSET Value
         /\ \A v \in Value : v \in ArrayContents <=> array_heap[v] = "owned"
BY DEF ArrayInv, ArrayOwnership, ArrayContents

(* The items are in the array.                                             *)
LEMMA UsedSlots ==
  ASSUME ATypeOK
  PROVE  /\ Indexes \subseteq Slot /\ array_count \in Nat /\ array_capacity \in Nat
         /\ \A i \in Indexes : i \in Nat /\ i < array_count
BY CapacityAssumption DEF ATypeOK, Indexes, Slot

(* An item more, behind the others.                                        *)
LEMMA AddItemKeeps ==
  ASSUME ArrayInv, NEW v \in Value, AddItem(v), array_heap[v] # "owned",
         UNCHANGED array_phase
  PROVE  ArrayInv' /\ KeepsOrFills
<1>0. ATypeOK /\ ArrayOwnership
  BY DEF ArrayInv
<1>1. /\ array_count \in Slot /\ array_capacity' \in 0..MaxCapacity
      /\ array_count' \in 0..array_capacity' /\ array_count' = array_count + 1
      /\ Indexes' = Indexes \cup {array_count} /\ array_count \notin Indexes
  BY <1>0, CapacityAssumption
     DEF ATypeOK, AddItem, NoRoomForItem, ArrayFull, Grown, Slot, Indexes
<1>2. ATypeOK'
  BY <1>0, <1>1 DEF ATypeOK, AddItem
<1>3. items'[array_count] = v /\ \A i \in Indexes : items'[i] = items[i]
  BY <1>0, <1>1, UsedSlots DEF ATypeOK, AddItem
<1>4. \A w \in Value : array_heap'[w] = IF w = v THEN "owned" ELSE array_heap[w]
  BY <1>0 DEF ATypeOK, AddItem
<1>5. ArrayOwnership'
  BY <1>0, <1>1, <1>3, <1>4 DEF ArrayOwnership, ArrayContents
<1>6. KeepsOrFills
  BY <1>0, <1>1, <1>3, UsedSlots DEF KeepsOrFills
<1>7. QED
  BY <1>2, <1>5, <1>6 DEF ArrayInv

(* Everything the array owns is freed.                                     *)
LEMMA FreeItemsKeeps ==
  ASSUME ArrayInv, array_heap' = Freed(array_heap, ArrayContents),
         array_count' = 0,
         UNCHANGED <<items, array_capacity>>, array_phase' \in {"ready", "freed"}
  PROVE  ArrayInv' /\ KeepsOrFills
<1>1. ATypeOK'
  BY OwnedAreItems, FreedLive DEF ArrayInv, ATypeOK, HeapState
<1>2. Indexes' = {}
  BY DEF Indexes
<1>3. \A v \in Value : array_heap'[v] # "owned"
  BY OwnedAreItems, FreedLive DEF ArrayInv
<1>4. KeepsOrFills
  BY <1>3 DEF ArrayInv, ArrayOwnership, KeepsOrFills
<1>5. QED
  BY <1>1, <1>2, <1>3, <1>4 DEF ArrayInv, ArrayOwnership

(* The value in slot i is freed, v takes the slot.                         *)
LEMMA ReplaceItemKeeps ==
  ASSUME ArrayInv, NEW i \in Indexes, NEW v \in Value, array_heap[v] # "owned",
         array_heap' = [Freed(array_heap, {items[i]}) EXCEPT ![v] = "owned"],
         items' = [items EXCEPT ![i] = v],
         UNCHANGED <<array_phase, array_count, array_capacity>>
  PROVE  ArrayInv' /\ KeepsOrFills
<1>0. ATypeOK /\ ArrayOwnership
  BY DEF ArrayInv
<1>1. Indexes' = Indexes /\ i \in Slot
  BY <1>0, UsedSlots DEF Indexes
<1>2. items[i] \in Value /\ array_heap[items[i]] = "owned"
  BY <1>0 DEF ArrayOwnership
<1>3. /\ Freed(array_heap, {items[i]}) \in [Value -> HeapState]
      /\ \A w \in Value : Freed(array_heap, {items[i]})[w] =
            IF w = items[i] THEN "free" ELSE array_heap[w]
  BY <1>0, <1>2, FreedLive
<1>4. \A w \in Value : array_heap'[w] = IF w = v THEN "owned"
                                  ELSE IF w = items[i] THEN "free" ELSE array_heap[w]
  BY <1>3
<1>5. ATypeOK'
  BY <1>0, <1>1, <1>3 DEF ATypeOK, HeapState
<1>6. \A j \in Indexes : items'[j] = IF j = i THEN v ELSE items[j]
  BY <1>0, UsedSlots DEF ATypeOK
<1>7. ArrayOwnership'
  <2>1. \A j \in Indexes : items'[j] \in Value /\ array_heap'[items'[j]] = "owned"
    BY <1>0, <1>4, <1>6 DEF ArrayOwnership
  <2>2. \A j, k \in Indexes : items'[j] = items'[k] => j = k
    BY <1>0, <1>6 DEF ArrayOwnership
  <2>3. ASSUME NEW w \in Value, array_heap'[w] = "owned", w # v
        PROVE  \E j \in Indexes : w = items'[j]
    <3>1. PICK j \in Indexes : w = items[j]
      BY <1>0, <1>4, <2>3 DEF ArrayOwnership, ArrayContents
    <3>2. j # i
      BY <1>4, <2>3, <3>1
    <3>3. QED
      BY <1>6, <3>1, <3>2
  <2>4. v = items'[i]
    BY <1>6
  <2>5. QED
    BY <1>1, <2>1, <2>2, <2>3, <2>4 DEF ArrayOwnership, ArrayContents
<1>8. KeepsOrFills
  <2>1. ASSUME NEW j \in Indexes, array_heap'[items[j]] = "owned"
        PROVE  j < array_count' /\ items'[j] = items[j]
    <3>1. items[j] # items[i]
      BY <1>0, <1>2, <1>4, <2>1 DEF ArrayOwnership
    <3>2. QED
      BY <1>0, <1>6, <3>1, UsedSlots
  <2>2. QED
    BY <2>1 DEF KeepsOrFills
<1>9. QED
  BY <1>5, <1>7, <1>8 DEF ArrayInv

(* The last item gets into the slot that was left.                         *)
LEMMA RemoveItemKeeps ==
  ASSUME ArrayInv, NEW i, json_array_remove(i)
  PROVE  ArrayInv' /\ KeepsOrFills
<1>0. ATypeOK /\ ArrayOwnership
  BY DEF ArrayInv
<1>1. /\ i \in Indexes /\ array_heap' = Freed(array_heap, {items[i]})
      /\ items' = [items EXCEPT ![i] = items[array_count - 1]]
      /\ array_count' = array_count - 1
      /\ UNCHANGED <<array_phase, array_capacity>>
  BY DEF json_array_remove
<1>2. /\ array_count - 1 \in Indexes /\ array_count' \in 0..array_capacity
      /\ Indexes \subseteq Slot
      /\ Indexes' = Indexes \ {array_count - 1}
  BY <1>0, <1>1, CapacityAssumption DEF ATypeOK, Indexes, Slot
<1>3. \A j \in Indexes : items'[j] = IF j = i THEN items[array_count - 1] ELSE items[j]
  BY <1>0, <1>1, <1>2 DEF ATypeOK
<1>4. items[i] \in Value /\ array_heap[items[i]] = "owned"
  BY <1>0, <1>1 DEF ArrayOwnership
<1>5. /\ array_heap' \in [Value -> HeapState]
      /\ \A w \in Value : array_heap'[w] = IF w = items[i] THEN "free" ELSE array_heap[w]
  BY <1>0, <1>1, <1>4, FreedLive
<1>6. ATypeOK'
  BY <1>0, <1>1, <1>2, <1>5 DEF ATypeOK, HeapState
<1>7. ArrayOwnership'
  <2>1. \A j \in Indexes' : items'[j] \in Value /\ items'[j] # items[i]
                         /\ array_heap[items'[j]] = "owned"
    BY <1>0, <1>1, <1>2, <1>3 DEF ArrayOwnership
  <2>2. \A j, k \in Indexes' : items'[j] = items'[k] => j = k
    BY <1>0, <1>1, <1>2, <1>3 DEF ArrayOwnership
  <2>3. ASSUME NEW w \in Value, array_heap'[w] = "owned"
        PROVE  \E j \in Indexes' : w = items'[j]
    <3>1. PICK j \in Indexes : w = items[j] /\ j # i
      BY <1>0, <1>1, <1>4, <1>5, <2>3 DEF ArrayOwnership, ArrayContents
    <3>2. CASE j = array_count - 1
      BY <1>1, <1>2, <1>3, <3>1, <3>2
    <3>3. CASE j # array_count - 1
      BY <1>2, <1>3, <3>1, <3>3
    <3>4. QED
      BY <3>2, <3>3
  <2>4. QED
    BY <1>5, <2>1, <2>2, <2>3 DEF ArrayOwnership, ArrayContents
<1>8. KeepsOrFills
  <2>1. SUFFICES ASSUME NEW k \in Indexes, array_heap'[items[k]] = "owned"
                 PROVE  \/ k < array_count' /\ items'[k] = items[k]
                        \/ /\ k = array_count - 1 /\ array_count' = k
                           /\ \E j \in 0..array_count'-1 :
                                /\ array_heap'[items[j]] = "free"
                                /\ items'[j] = items[k]
    BY DEF KeepsOrFills
  <2>2. k # i
    BY <1>4, <1>5, <2>1
  <2>3. CASE k = array_count - 1
    <3>1. i \in 0..array_count'-1
      BY <1>0, <1>1, <2>2, <2>3, UsedSlots DEF Indexes
    <3>2. array_heap'[items[i]] = "free" /\ items'[i] = items[k]
      BY <1>1, <1>3, <1>4, <1>5, <2>3
    <3>3. QED
      BY <1>1, <2>3, <3>1, <3>2
  <2>4. CASE k # array_count - 1
    BY <1>0, <1>1, <1>3, <2>2, <2>4, UsedSlots
  <2>5. QED
    BY <2>3, <2>4
<1>9. QED
  BY <1>6, <1>7, <1>8 DEF ArrayInv

(* A value that is not in the array changes hands outside it, or the room  *)
(* that is not used is given back.                                         *)
LEMMA OutsideItemsKeeps ==
  ASSUME ArrayInv, UNCHANGED <<items, array_count>>, array_capacity' \in array_count..MaxCapacity,
         array_phase' \in {"parsing", "ready", "freed"},
         array_heap' \in [Value -> HeapState],
         \A v \in Value : array_heap'[v] = "owned" <=> array_heap[v] = "owned"
  PROVE  ArrayInv' /\ KeepsOrFills
<1>1. ArrayInv'
  BY UsedSlots DEF ArrayInv, ATypeOK, ArrayOwnership, ArrayContents, Indexes, HeapState
<1>2. KeepsOrFills
  BY UsedSlots DEF ArrayInv, KeepsOrFills
<1>3. QED
  BY <1>1, <1>2

(* So every step keeps the invariant, and the items as KeepsOrFills says.  *)
LEMMA ArrayStep ==
  ASSUME ArrayInv, [ANext]_avars
  PROVE  ArrayInv' /\ KeepsOrFills
<1>0. /\ ATypeOK /\ array_count \in array_count..MaxCapacity
      /\ array_capacity \in array_count..MaxCapacity
  BY CapacityAssumption DEF ArrayInv, ATypeOK
<1>1. ASSUME NEW v \in Value, AllocateItem(v) PROVE ArrayInv' /\ KeepsOrFills
  BY <1>0, <1>1, OutsideItemsKeeps DEF AllocateItem, ATypeOK, HeapState
<1>2. ASSUME NEW v \in Value, FreeLooseItem(v) PROVE ArrayInv' /\ KeepsOrFills
  BY <1>0, <1>2, OutsideItemsKeeps, FreedLive DEF FreeLooseItem, ATypeOK
<1>3. ASSUME NEW v \in Value,
             ParseItem(v) \/ json_array_append_value(v) \/ AppendNew(v)
      PROVE  ArrayInv' /\ KeepsOrFills
  BY <1>3, AddItemKeeps DEF ParseItem, json_array_append_value, AppendNew
<1>4. ASSUME NEW v \in Value, NEW i \in Slot,
             json_array_replace_value(i, v) \/ ReplaceNew(i, v)
      PROVE  ArrayInv' /\ KeepsOrFills
  BY <1>4, ReplaceItemKeeps DEF json_array_replace_value, ReplaceNew
<1>5. ASSUME NEW i \in Slot, json_array_remove(i)
      PROVE  ArrayInv' /\ KeepsOrFills
  BY <1>5, RemoveItemKeeps
<1>6. CASE ParseArrayFails \/ json_array_free \/ json_array_clear
  BY <1>6, FreeItemsKeeps DEF ParseArrayFails, json_array_free, json_array_clear, FreeArray
<1>7. CASE TrimArray
  BY <1>0, <1>7, OutsideItemsKeeps DEF TrimArray, ATypeOK, HeapState
<1>8. CASE UNCHANGED avars
  BY <1>0, <1>8, OutsideItemsKeeps DEF avars, ATypeOK, HeapState
<1>9. QED
  BY <1>1, <1>2, <1>3, <1>4, <1>5, <1>6, <1>7, <1>8 DEF ANext, ArrayOver

(* The items fit into the array, it refers to live values, to each once,   *)
(* and owns no other, in every reachable state.                            *)
THEOREM ArrayCorrect == ASpec => []ArrayInv
<1>1. AInit => ArrayInv
  BY CapacityAssumption
     DEF AInit, ArrayInv, ATypeOK, ArrayOwnership, ArrayContents, Indexes
<1>2. ArrayInv /\ [ANext]_avars => ArrayInv'
  BY ArrayStep
<1>3. QED
  BY <1>1, <1>2, PTL DEF ASpec

(* The items fit into the array, whose capacity never exceeds the maximum, *)
(* and no value is freed twice.                                            *)
THEOREM ArrayTypeCorrect == ASpec => []ATypeOK
BY ArrayCorrect, PTL DEF ArrayInv

(* Nothing an array refers to was freed, nothing it owns is lost.          *)
THEOREM ItemsOwned == ASpec => []ArrayOwnership
BY ArrayCorrect, PTL DEF ArrayInv

(* "Order of values in array may change", but an item keeps its index or   *)
(* is the last one and fills the hole of the one removed.                  *)
THEOREM IndexKept == ASpec => KeepsIndexOrFillsHole
<1>1. ArrayInv /\ [ANext]_avars => [KeepsOrFills]_avars
  BY ArrayStep
<1>2. QED
  BY ArrayCorrect, <1>1, PTL DEF ASpec, KeepsIndexOrFillsHole, KeepsOrFills
------------------------------------------------------------------------------
(* Bytes, and the first bytes of sequences of each length.                 *)
AnyByte == 1..255
Ascii == 1..127
Lead2 == 194..223
Lead3 == 224..239
Lead4 == 240..244

(* What sequences of two, three and four bytes are the shortest form of.   *)
Code2 == {cp \in Nat : cp >= 128 /\ cp < 2048}
Below3 == {cp \in Nat : cp < 2048}
Code3 == {cp \in Nat : cp >= 2048 /\ cp < 65536}
Code4 == {cp \in Nat : cp >= 65536 /\ cp < 2097152}

(* The code points two, three and four bytes stand for.                    *)
Two(a, b) == (a % 32) * 64 + (b % 64)
Three(a, b, c) == (a % 16) * 4096 + (b % 64) * 64 + (c % 64)
Four(a, b, c, d) ==
  (a % 8) * 262144 + (b % 64) * 4096 + (c % 64) * 64 + (d % 64)

(* The same ranges, for numbers that are known to be of some length.       *)
LEMMA Ranges ==
  ASSUME NEW cp \in Nat
  PROVE  /\ cp < 65536 => (cp \in Code3 <=> cp >= 2048)
         /\ cp < 65536 => cp \in Below3 \cup Code3
         /\ cp < 2097152 => (cp \in Code4 <=> cp >= 65536)
<1>1. cp < 65536 => (cp \in Code3 <=> cp >= 2048)
  BY SMT DEF Code3
<1>2. cp < 65536 => cp \in Below3 \cup Code3
  BY SMT DEF Below3, Code3
<1>3. cp < 2097152 => (cp \in Code4 <=> cp >= 65536)
  BY SMT DEF Code4
<1>4. QED
  BY <1>1, <1>2, <1>3, SMT

(* The length of what is written.                                          *)
LEMMA Utf8Length ==
  ASSUME NEW cp \in Nat
  PROVE  /\ cp < 2048 => Len(Utf8(cp)) \in {1, 2}
         /\ cp < 65536 => Len(Utf8(cp)) \in {1, 2, 3}
BY SMT DEF Utf8

(* Of sequences with their first byte.                                     *)
LEMMA FirstByte ==
  ASSUME NEW a \in AnyByte
  PROVE  /\ num_bytes_in_utf8_sequence(a) \in 0..4
         /\ num_bytes_in_utf8_sequence(a) = 1 => a \in Ascii
         /\ num_bytes_in_utf8_sequence(a) = 2 => a \in Lead2
         /\ num_bytes_in_utf8_sequence(a) = 3 => a \in Lead3
         /\ num_bytes_in_utf8_sequence(a) = 4 => a \in Lead4
BY SMT DEF num_bytes_in_utf8_sequence, IsCont, AnyByte, Ascii, Lead2, Lead3,
           Lead4

(* What a continuation byte carries.                                       *)
LEMMA Carried ==
  ASSUME NEW b \in AnyByte
  PROVE  \E y \in 0..63 : y = b % 64 /\ (IsCont(b) <=> b = 128 + y)
<1>1. PICK y \in 0..63 : y = b % 64
  BY SMT DEF AnyByte
<1>2. IsCont(b) <=> b = 128 + y
  BY <1>1, SMT DEF AnyByte, IsCont
<1>3. QED
  BY <1>1, <1>2, Zenon

(* One, two, three and four bytes that verify_utf8_sequence accepts, and   *)
(* that parse_utf16 writes for the code point they stand for.              *)
LEMMA OneByte ==
  ASSUME NEW a \in Ascii
  PROVE  Utf8(a) = <<a>>
BY SMT DEF Ascii, Utf8

LEMMA TwoBytes ==
  ASSUME NEW a \in Lead2, NEW b \in AnyByte
  PROVE  /\ Two(a, b) \in Code2
         /\ IsCont(b) <=> Utf8(Two(a, b)) = <<a, b>>
<1> USE DEF AnyByte, Lead2
<1>1. PICK cp \in Nat : cp = Two(a, b)
  BY SMT DEF Two
<1>2. PICK y \in 0..63 : y = b % 64
  BY SMT
<1>3. cp = (a - 192) * 64 + y /\ (IsCont(b) <=> b = 128 + y)
  BY <1>1, <1>2, SMT DEF IsCont, Two
<1>4. cp \div 64 = a - 192 /\ cp % 64 = y /\ cp >= 128 /\ cp < 2048
  BY <1>3, SMT
<1>5. Utf8(cp) = <<a, 128 + y>>
  BY <1>4, SMT DEF Utf8
<1>6. cp \in Code2 /\ (IsCont(b) <=> Utf8(cp) = <<a, b>>)
  BY <1>3, <1>4, <1>5, SMT DEF Code2
<1> HIDE DEF AnyByte, Lead2
<1>7. QED
  BY <1>1, <1>6, Zenon

LEMMA ThreeBytes ==
  ASSUME NEW a \in Lead3, NEW b \in AnyByte, NEW c \in AnyByte
  PROVE  /\ Three(a, b, c) \in Below3 \cup Code3
         /\ (IsCont(b) /\ IsCont(c) /\ Three(a, b, c) \in Code3)
              <=> Utf8(Three(a, b, c)) = <<a, b, c>>
<1>1. PICK y \in 0..63 : y = b % 64 /\ (IsCont(b) <=> b = 128 + y)
  BY Carried, Zenon
<1>2. PICK z \in 0..63 : z = c % 64 /\ (IsCont(c) <=> c = 128 + z)
  BY Carried, Zenon
<1> USE DEF AnyByte, Lead3
<1>3. PICK cp \in Nat : cp = Three(a, b, c)
  BY SMT DEF Three
<1>4. cp = (a - 224) * 4096 + y * 64 + z
  <2>1. a % 16 = a - 224
    BY SMT
  <2>2. QED
    BY <1>3, <1>1, <1>2, <2>1, SMT DEF Three
<1>5. cp \div 4096 = a - 224 /\ cp < 65536
  BY <1>4, SMT
<1>6. (cp \div 64) % 64 = y
  <2>1. cp \div 64 = (a - 224) * 64 + y
    BY <1>4, SMT
  <2>2. QED
    BY <2>1, SMT
<1>7. cp % 64 = z
  BY <1>4, SMT
<1>8. cp >= 2048 => Utf8(cp) = <<a, 128 + y, 128 + z>>
  BY <1>5, <1>6, <1>7, SMT DEF Utf8
<1>9. cp < 2048 => Utf8(cp) # <<a, b, c>>
  BY Utf8Length, SMT
<1>10. (IsCont(b) /\ IsCont(c) /\ cp \in Code3) <=> Utf8(cp) = <<a, b, c>>
  <2>1. cp \in Code3 <=> cp >= 2048
    BY <1>3, <1>5, Ranges, SMT
  <2>2. cp >= 2048 =>
          ((IsCont(b) /\ IsCont(c)) <=> Utf8(cp) = <<a, b, c>>)
    BY <1>1, <1>2, <1>8, SMT
  <2>3. QED
    BY <1>9, <2>1, <2>2, SMT
<1>11. cp \in Below3 \cup Code3
  BY <1>3, <1>5, Ranges, SMT
<1> HIDE DEF AnyByte, Lead3
<1>12. QED
  BY <1>3, <1>10, <1>11, Zenon

LEMMA FourBytes ==
  ASSUME NEW a \in Lead4, NEW b \in AnyByte, NEW c \in AnyByte,
         NEW d \in AnyByte
  PROVE  (IsCont(b) /\ IsCont(c) /\ IsCont(d) /\ Four(a, b, c, d) \in Code4)
           <=> Utf8(Four(a, b, c, d)) = <<a, b, c, d>>
<1>1. PICK x \in 0..63 : x = b % 64 /\ (IsCont(b) <=> b = 128 + x)
  BY Carried, Zenon
<1>2. PICK y \in 0..63 : y = c % 64 /\ (IsCont(c) <=> c = 128 + y)
  BY Carried, Zenon
<1>3. PICK z \in 0..63 : z = d % 64 /\ (IsCont(d) <=> d = 128 + z)
  BY Carried, Zenon
<1> USE DEF AnyByte, Lead4
<1>4. PICK cp \in Nat : cp = Four(a, b, c, d)
  BY SMT DEF Four
<1>5. cp = (a - 240) * 262144 + x * 4096 + y * 64 + z
  <2>1. a % 8 = a - 240
    BY SMT
  <2>2. QED
    BY <1>4, <1>1, <1>2, <1>3, <2>1, SMT DEF Four
<1>6. cp \div 262144 = a - 240
  BY <1>5, SMT
<1>7. (cp \div 4096) % 64 = x
  <2>1. cp \div 4096 = (a - 240) * 64 + x
    BY <1>5, SMT
  <2>2. QED
    BY <2>1, SMT
<1>8. (cp \div 64) % 64 = y
  <2>1. cp \div 64 = (a - 240) * 4096 + x * 64 + y
    BY <1>5, SMT
  <2>2. QED
    BY <2>1, SMT
<1>9. cp % 64 = z
  BY <1>5, SMT
<1>10. cp >= 65536 => Utf8(cp) = <<a, 128 + x, 128 + y, 128 + z>>
  BY <1>6, <1>7, <1>8, <1>9, SMT DEF Utf8
<1>11. cp < 65536 => Utf8(cp) # <<a, b, c, d>>
  BY Utf8Length, SMT
<1>12. (IsCont(b) /\ IsCont(c) /\ IsCont(d) /\ cp \in Code4)
         <=> Utf8(cp) = <<a, b, c, d>>
  <2>1. cp \in Code4 <=> cp >= 65536
    <3>1. cp < 2097152
      BY <1>1, <1>5, SMT
    <3>2. QED
      BY <1>4, <3>1, Ranges, SMT
  <2>2. cp >= 65536 =>
          ((IsCont(b) /\ IsCont(c) /\ IsCont(d)) <=> Utf8(cp) = <<a, b, c, d>>)
    BY <1>1, <1>2, <1>3, <1>10, SMT
  <2>3. QED
    BY <1>11, <2>1, <2>2, SMT
<1> HIDE DEF AnyByte, Lead4
<1>13. QED
  BY <1>4, <1>12, Zenon

(* What the bits of a sequence of each length are.                         *)
LEMMA BitsOf ==
  ASSUME NEW b
  PROVE  /\ Bits(b, 1) = b[1]
         /\ Bits(b, 2) = Two(b[1], b[2])
         /\ Bits(b, 3) = Three(b[1], b[2], b[3])
         /\ Bits(b, 4) = Four(b[1], b[2], b[3], b[4])
BY SMT DEF Bits, Two, Three, Four

(* What verify_utf8_sequence asks of the bits of a sequence, as one range. *)
LEMMA Shortest ==
  ASSUME NEW cp, IsScalar(cp)
  PROVE  /\ cp \in Code2 => ~(cp < 128)
         /\ cp \in Below3 \cup Code3 =>
              (cp \in Code3 <=> ~(cp < 2048) /\ ~(cp < 128))
         /\ cp \in Code4 <=> ~(cp < 65536) /\ ~(cp < 2048) /\ ~(cp < 128)
<1>1. cp \in Nat /\ cp <= 1114111
  BY SMT DEF IsScalar
<1>2. cp \in Code2 => ~(cp < 128)
  BY <1>1, SMT DEF Code2
<1>3. cp \in Below3 \cup Code3 => (cp \in Code3 <=> ~(cp < 2048) /\ ~(cp < 128))
  BY <1>1, SMT DEF Below3, Code3
<1>4. cp \in Code4 <=> ~(cp < 65536) /\ ~(cp < 2048) /\ ~(cp < 128)
  BY <1>1, SMT DEF Code4
<1>5. QED
  BY <1>2, <1>3, <1>4, SMT

(* verify_utf8_sequence, with a name for the length.                       *)
LEMMA Verified ==
  ASSUME NEW b, NEW n, n = num_bytes_in_utf8_sequence(b[1])
  PROVE  verify_utf8_sequence(b) <=>
           /\ n \in 1..Len(b) /\ \A i \in 2..n : IsCont(b[i])
           /\ Bits(b, n) < 128 => n = 1
           /\ Bits(b, n) < 2048 => n <= 2
           /\ Bits(b, n) < 65536 => n <= 3
           /\ IsScalar(Bits(b, n))
BY SMT DEF verify_utf8_sequence

(* A short string, byte by byte.                                           *)
LEMMA Tuple ==
  ASSUME NEW S, NEW t \in Seq(S)
  PROVE  /\ Len(t) = 1 => t = <<t[1]>>
         /\ Len(t) = 2 => t = <<t[1], t[2]>>
         /\ Len(t) = 3 => t = <<t[1], t[2], t[3]>>
         /\ Len(t) = 4 => t = <<t[1], t[2], t[3], t[4]>>
<1>1. Len(t) = 1 => t = <<t[1]>>
  BY SMT
<1>2. Len(t) = 2 => t = <<t[1], t[2]>>
  BY SMT
<1>3. Len(t) = 3 => t = <<t[1], t[2], t[3]>>
  BY SMT
<1>4. Len(t) = 4 => t = <<t[1], t[2], t[3], t[4]>>
  BY SMT
<1>5. QED
  BY <1>1, <1>2, <1>3, <1>4, Zenon

(* The first bytes of a longer string.                                     *)
LEMMA Prefix ==
  ASSUME NEW S, NEW b \in Seq(S)
  PROVE  /\ Len(b) >= 1 => SubSeq(b, 1, 1) = <<b[1]>>
         /\ Len(b) >= 2 => SubSeq(b, 1, 2) = <<b[1], b[2]>>
         /\ Len(b) >= 3 => SubSeq(b, 1, 3) = <<b[1], b[2], b[3]>>
         /\ Len(b) >= 4 => SubSeq(b, 1, 4) = <<b[1], b[2], b[3], b[4]>>
<1>1. ASSUME Len(b) >= 1 PROVE SubSeq(b, 1, 1) = <<b[1]>>
  <2> DEFINE t == SubSeq(b, 1, 1)
  <2>1. t \in Seq(S) /\ Len(t) = 1
    BY <1>1, SMT
  <2>2. t[1] = b[1]
    BY <1>1, SMT
  <2> HIDE DEF t
  <2>3. t = <<t[1]>>
    BY <2>1, Tuple, Zenon
  <2>4. QED
    BY <2>2, <2>3, Zenon DEF t
<1>2. ASSUME Len(b) >= 2 PROVE SubSeq(b, 1, 2) = <<b[1], b[2]>>
  <2> DEFINE t == SubSeq(b, 1, 2)
  <2>1. t \in Seq(S) /\ Len(t) = 2
    BY <1>2, SMT
  <2>2. t[1] = b[1] /\ t[2] = b[2]
    BY <1>2, SMT
  <2> HIDE DEF t
  <2>3. t = <<t[1], t[2]>>
    BY <2>1, Tuple, Zenon
  <2>4. QED
    BY <2>2, <2>3, Zenon DEF t
<1>3. ASSUME Len(b) >= 3 PROVE SubSeq(b, 1, 3) = <<b[1], b[2], b[3]>>
  <2> DEFINE t == SubSeq(b, 1, 3)
  <2>1. t \in Seq(S) /\ Len(t) = 3
    BY <1>3, SMT
  <2>2. t[1] = b[1] /\ t[2] = b[2] /\ t[3] = b[3]
    BY <1>3, SMT
  <2> HIDE DEF t
  <2>3. t = <<t[1], t[2], t[3]>>
    BY <2>1, Tuple, Zenon
  <2>4. QED
    BY <2>2, <2>3, Zenon DEF t
<1>4. ASSUME Len(b) >= 4 PROVE SubSeq(b, 1, 4) = <<b[1], b[2], b[3], b[4]>>
  <2> DEFINE t == SubSeq(b, 1, 4)
  <2>1. t \in Seq(S) /\ Len(t) = 4
    BY <1>4, SMT
  <2>2. t[1] = b[1] /\ t[2] = b[2] /\ t[3] = b[3] /\ t[4] = b[4]
    BY <1>4, SMT
  <2> HIDE DEF t
  <2>3. t = <<t[1], t[2], t[3], t[4]>>
    BY <2>1, Tuple, Zenon
  <2>4. QED
    BY <2>2, <2>3, Zenon DEF t
<1>5. QED
  BY <1>1, <1>2, <1>3, <1>4, Zenon

(* What ValidIsWritten says of the bytes of a program, for any of them.    *)
LEMMA SequenceIsWritten ==
  ASSUME NEW S, \A s \in S : s \in AnyByte, NEW b \in Seq(S), b # <<>>,
         NEW n, n = num_bytes_in_utf8_sequence(b[1])
  PROVE  verify_utf8_sequence(b) <=>
           /\ n \in 1..Len(b)
           /\ IsScalar(Bits(b, n))
           /\ SubSeq(b, 1, n) = Utf8(Bits(b, n))
<1>1. Len(b) \in Nat \ {0} /\ \A i \in 1..Len(b) : b[i] \in S
  BY SMT
<1>2. \A i \in 1..Len(b) : b[i] \in AnyByte
  BY <1>1, SMT
<1>3. /\ n \in 0..4
      /\ n = 1 => b[1] \in Ascii
      /\ n = 2 => b[1] \in Lead2
      /\ n = 3 => b[1] \in Lead3
      /\ n = 4 => b[1] \in Lead4
  BY <1>1, <1>2, FirstByte, SMT
<1>4. verify_utf8_sequence(b) <=>
        /\ n \in 1..Len(b) /\ \A i \in 2..n : IsCont(b[i])
        /\ Bits(b, n) < 128 => n = 1
        /\ Bits(b, n) < 2048 => n <= 2
        /\ Bits(b, n) < 65536 => n <= 3
        /\ IsScalar(Bits(b, n))
  BY Verified, SMT
<1>5. CASE n = 1 /\ n \in 1..Len(b)
  <2>4. b[1] \in Ascii
    BY <1>3, <1>5, SMT
  <2>5. Utf8(b[1]) = <<b[1]>>
    BY <2>4, OneByte, Zenon
  <2>1. Bits(b, 1) = b[1]
    BY BitsOf, SMT
  <2>2. SubSeq(b, 1, 1) = <<b[1]>>
    BY <1>1, <1>5, Prefix, SMT
  <2>3. QED
    BY <1>4, <1>5, <2>1, <2>2, <2>4, <2>5, SMT DEF Ascii
<1>6. CASE n = 2 /\ n \in 1..Len(b)
  <2>1. b[1] \in Lead2 /\ b[2] \in AnyByte
    BY <1>2, <1>3, <1>6, SMT
  <2> DEFINE cp == Two(b[1], b[2])
  <2>2. /\ cp \in Code2
        /\ IsCont(b[2]) <=> Utf8(cp) = <<b[1], b[2]>>
    BY <2>1, TwoBytes, Zenon
  <2>6. Bits(b, 2) = cp
    BY BitsOf, SMT
  <2> HIDE DEF cp
  <2>3. SubSeq(b, 1, 2) = <<b[1], b[2]>>
    BY <1>1, <1>6, Prefix, SMT
  <2>4. (\A i \in 2..n : IsCont(b[i])) <=> IsCont(b[2])
    BY <1>6, SMT
  <2>7. /\ Bits(b, n) < 128 => n = 1
        /\ Bits(b, n) < 2048 => n <= 2
        /\ Bits(b, n) < 65536 => n <= 3
        /\ IsScalar(Bits(b, n))
        <=> cp \in Code2 /\ IsScalar(cp)
    BY <1>6, <2>2, <2>6, Shortest, SMT
  <2>5. QED
    BY <1>4, <1>6, <2>2, <2>3, <2>4, <2>6, <2>7, SMT
<1>7. CASE n = 3 /\ n \in 1..Len(b)
  <2>1. b[1] \in Lead3 /\ b[2] \in AnyByte /\ b[3] \in AnyByte
    BY <1>2, <1>3, <1>7, SMT
  <2> DEFINE cp == Three(b[1], b[2], b[3])
  <2>2. /\ cp \in Below3 \cup Code3
        /\ (IsCont(b[2]) /\ IsCont(b[3]) /\ cp \in Code3)
             <=> Utf8(cp) = <<b[1], b[2], b[3]>>
    BY <2>1, ThreeBytes, Zenon
  <2>6. Bits(b, 3) = cp
    BY BitsOf, SMT
  <2> HIDE DEF cp
  <2>3. SubSeq(b, 1, 3) = <<b[1], b[2], b[3]>>
    BY <1>1, <1>7, Prefix, SMT
  <2>4. (\A i \in 2..n : IsCont(b[i])) <=> IsCont(b[2]) /\ IsCont(b[3])
    BY <1>7, SMT
  <2>7. /\ Bits(b, n) < 128 => n = 1
        /\ Bits(b, n) < 2048 => n <= 2
        /\ Bits(b, n) < 65536 => n <= 3
        /\ IsScalar(Bits(b, n))
        <=> cp \in Code3 /\ IsScalar(cp)
    BY <1>7, <2>2, <2>6, Shortest, SMT
  <2>5. QED
    BY <1>4, <1>7, <2>2, <2>3, <2>4, <2>6, <2>7, SMT
<1>8. CASE n = 4 /\ n \in 1..Len(b)
  <2>1. /\ b[1] \in Lead4 /\ b[2] \in AnyByte /\ b[3] \in AnyByte
        /\ b[4] \in AnyByte
    BY <1>2, <1>3, <1>8, SMT
  <2> DEFINE cp == Four(b[1], b[2], b[3], b[4])
  <2>2. (IsCont(b[2]) /\ IsCont(b[3]) /\ IsCont(b[4]) /\ cp \in Code4)
          <=> Utf8(cp) = <<b[1], b[2], b[3], b[4]>>
    BY <2>1, FourBytes, Zenon
  <2>6. Bits(b, 4) = cp
    BY BitsOf, SMT
  <2> HIDE DEF cp
  <2>3. SubSeq(b, 1, 4) = <<b[1], b[2], b[3], b[4]>>
    BY <1>1, <1>8, Prefix, SMT
  <2>4. (\A i \in 2..n : IsCont(b[i]))
          <=> IsCont(b[2]) /\ IsCont(b[3]) /\ IsCont(b[4])
    BY <1>8, SMT
  <2>7. /\ Bits(b, n) < 128 => n = 1
        /\ Bits(b, n) < 2048 => n <= 2
        /\ Bits(b, n) < 65536 => n <= 3
        /\ IsScalar(Bits(b, n))
        <=> cp \in Code4 /\ IsScalar(cp)
    BY <1>8, <2>2, <2>6, Shortest, SMT
  <2>5. QED
    BY <1>4, <1>8, <2>2, <2>3, <2>4, <2>6, <2>7, SMT
<1>9. QED
  BY <1>1, <1>3, <1>4, <1>5, <1>6, <1>7, <1>8, SMT

(* A sequence of bytes is accepted exactly when it is the shortest form of *)
(* a code point, whatever bytes the program passes.                        *)
THEOREM AcceptedIsShortest == USpec => []ValidIsWritten
<1> DEFINE Typed == bytes \in Seq(Byte)
<1>1. UInit => Typed
  BY SMT DEF UInit
<1>2. Typed /\ [UNext]_uvars => Typed'
  <2> SUFFICES ASSUME Typed, [UNext]_uvars PROVE Typed'
    OBVIOUS
  <2>1. ASSUME NEW u \in Unit, WriteEscape(u) PROVE Typed'
    BY <2>1, SMT DEF WriteEscape
  <2>2. ASSUME NEW c \in Byte, GiveByte(c) PROVE Typed'
    BY <2>2, SMT DEF GiveByte
  <2>3. CASE Another
    BY <2>3, SMT DEF Another
  <2>4. CASE UNCHANGED uvars
    BY <2>4, SMT DEF uvars
  <2>5. QED
    BY <2>1, <2>2, <2>3, <2>4, SMT DEF UNext
<1>3. Typed => ValidIsWritten
  <2> SUFFICES ASSUME bytes \in Seq(Byte), bytes # <<>> PROVE ValidIsWritten
    BY SMT DEF ValidIsWritten
  <2>1. \A c \in Byte : c \in AnyByte
    BY ByteAssumption, SMT DEF AnyByte
  <2>2. QED
    BY <2>1, SequenceIsWritten, SMT DEF ValidIsWritten
<1>4. QED
  BY <1>1, <1>2, <1>3, PTL DEF USpec

(* A set of natural numbers has a least element: the library's theorem on  *)
(* well-founded relations, which is about sets and takes no operator.      *)
LEMMA Least ==
  ASSUME NEW S \in SUBSET Nat, S # {}
  PROVE  \E m \in S : \A k \in S : m <= k
<1> DEFINE R == OpToRel(<, Nat)
<1>1. \A x, y \in Nat : y < x => <<y, x>> \in R
  BY DEF OpToRel
<1>2. IsWellFoundedOn(R, Nat)
  BY NatLessThanWellFounded DEF R
<1> HIDE DEF R
<1>3. \E x \in S : \A y \in S : ~(<<y, x>> \in R)
  BY <1>2, WFMin
<1>4. PICK m \in S : \A k \in S : ~(<<k, m>> \in R)
  BY <1>3
<1>5. ASSUME NEW k \in S
      PROVE  m <= k
  <2>1. ~(k < m)
    BY <1>1, <1>4
  <2>2. QED
    BY <2>1
<1>6. QED
  BY <1>5

(* Induction from the end of 1..n+1 to its start, on a set.                *)
LEMMA BackwardInduction ==
  ASSUME NEW n \in Nat, NEW A, n + 1 \in A,
         \A i \in 1..n : (\A j \in i+1..n+1 : j \in A) => i \in A
  PROVE  \A i \in 1..n+1 : i \in A
<1> DEFINE S == {j \in 0..n : n + 1 - j \notin A}
<1>1. SUFFICES S = {}
  <2>1. ASSUME NEW i \in 1..n+1, S = {}
        PROVE  i \in A
    <3>1. n + 1 - i \in 0..n /\ n + 1 - (n + 1 - i) = i
      OBVIOUS
    <3>2. QED
      BY <2>1, <3>1
  <2>2. QED
    BY <2>1
<1>2. ASSUME S # {}
      PROVE  FALSE
  <2>1. PICK m \in S : \A k \in S : m <= k
    <3>1. S \in SUBSET Nat
      OBVIOUS
    <3> HIDE DEF S
    <3>2. QED
      BY <1>2, <3>1, Least
  <2>2. m \in 1..n /\ n + 1 - m \in 1..n /\ n + 1 - m \notin A
    BY <2>1
  <2>3. ASSUME NEW j \in n+1-m+1..n+1
        PROVE  j \in A
    <3>1. n + 1 - j \in 0..n /\ n + 1 - j < m /\ n + 1 - (n + 1 - j) = j
      BY <2>2
    <3>2. QED
      BY <2>1, <2>2, <3>1
  <2>4. QED
    BY <2>2, <2>3
<1>3. QED
  BY <1>2

(* A function that is defined from its end: its last value, and the others  *)
(* each from the one at jump[i], which is later.                           *)
JumpsForward(n, jump) == \A i \in 1..n : jump[i] \in i+1..n+1

Follows(f, k, n, end, jump, combine) ==
  /\ f[n + 1] = end
  /\ \A i \in k..n : f[i] = combine[i][f[jump[i]]]

(* Such a function exists.                                                 *)
LEMMA BackwardRecursion ==
  ASSUME NEW n \in Nat, NEW R, NEW end \in R,
         NEW jump \in [1..n -> Nat], NEW combine \in [1..n -> [R -> R]],
         JumpsForward(n, jump)
  PROVE  \E f \in [1..n+1 -> R] : Follows(f, 1, n, end, jump, combine)
<1> USE DEF JumpsForward, Follows
<1> DEFINE Partial(k) == \E f \in [k..n+1 -> R] :
                            Follows(f, k, n, end, jump, combine)
           A == {k \in 1..n+1 : Partial(k)}
<1>1. n + 1 \in A
  <2> DEFINE f == [i \in n+1..n+1 |-> end]
  <2>1. f \in [n+1..n+1 -> R] /\ f[n + 1] = end /\ n+1..n = {}
    OBVIOUS
  <2>2. Partial(n + 1)
    BY <2>1
  <2>3. QED
    BY <2>2
<1>2. ASSUME NEW k \in 1..n, \A j \in k+1..n+1 : j \in A
      PROVE  k \in A
  <2>1. Partial(k + 1)
    <3>1. k + 1 \in A
      <4>1. k + 1 \in k+1..n+1
        OBVIOUS
      <4> HIDE DEF A
      <4>2. QED
        BY <1>2, <4>1
    <3> HIDE DEF Partial
    <3>2. QED
      BY <3>1
  <2>2. PICK f \in [k+1..n+1 -> R] :
               Follows(f, k + 1, n, end, jump, combine)
    BY <2>1
  <2> DEFINE g == [i \in k..n+1 |->
                     IF i = k THEN combine[k][f[jump[k]]] ELSE f[i]]
  <2>3. f[jump[k]] \in R /\ combine[k][f[jump[k]]] \in R
    BY <2>2
  <2>4. /\ g \in [k..n+1 -> R]
        /\ g[k] = combine[k][f[jump[k]]] /\ \A i \in k+1..n+1 : g[i] = f[i]
    <3>1. k \in k..n+1 /\ \A i \in k+1..n+1 : i \in k..n+1 /\ i # k
      OBVIOUS
    <3>2. \A i \in k..n+1 : i # k => i \in k+1..n+1
      OBVIOUS
    <3>3. \A i \in k..n+1 : (IF i = k THEN combine[k][f[jump[k]]] ELSE f[i]) \in R
      BY <2>2, <2>3, <3>2
    <3>4. QED
      BY <3>1, <3>3
  <2> HIDE DEF g
  <2>5. ASSUME NEW i \in k..n
        PROVE  g[i] = combine[i][g[jump[i]]]
    <3>1. i \in 1..n /\ jump[i] \in k+1..n+1 /\ jump[i] \in k..n+1 /\ jump[i] # k
      BY SMT
    <3>2. g[jump[i]] = f[jump[i]]
      BY <2>4, <3>1
    <3>3. CASE i = k
      BY <2>4, <3>2, <3>3
    <3>4. CASE i # k
      <4>1. g[i] = f[i]
        BY <2>4, <3>4
      <4>2. f[i] = combine[i][f[jump[i]]]
        BY <2>2, <3>4
      <4>3. QED
        BY <3>2, <4>1, <4>2
    <3>5. QED
      BY <3>3, <3>4
  <2>6. g[n + 1] = end
    BY <2>2, <2>4
  <2>7. Partial(k)
    BY <2>4, <2>5, <2>6
  <2>8. QED
    <3> HIDE DEF Partial
    <3> QED BY <2>7
<1>3. 1 \in A
  <2> HIDE DEF A
  <2>1. \A i \in 1..n+1 : i \in A
    BY <1>1, <1>2, BackwardInduction
  <2>2. QED
    BY <2>1
<1>4. QED
  BY <1>3

(* The bytes of a string.                                                  *)
Octet == {n \in Nat : n < 256}

(* What a suffix of a string becomes: whether it was taken, and as what.   *)
Result == [ok : BOOLEAN, bytes : Seq(Octet)]

(* The numbers two, three and four parts of a code point make, and the     *)
(* bytes that carry them.                                                  *)
TwoSum(x, y) == x * 64 + y
ThreeSum(x, y, z) == x * 4096 + y * 64 + z
FourSum(v, x, y, z) == v * 262144 + x * 4096 + y * 64 + z

TwoMarked(x, y) == <<192 + x, 128 + y>>
ThreeMarked(x, y, z) == <<224 + x, 128 + y, 128 + z>>
FourMarked(v, x, y, z) == <<240 + v, 128 + x, 128 + y, 128 + z>>

(* The parts of a code point that takes so many bytes.                     *)
TwoByteForm(cp, x, y) ==
  /\ x \in Nat /\ x >= 2 /\ x < 32 /\ y \in Nat /\ y < 64
  /\ cp = TwoSum(x, y) /\ cp >= 128

ThreeByteForm(cp, x, y, z) ==
  /\ x \in Nat /\ x < 16 /\ y \in Nat /\ y < 64 /\ z \in Nat /\ z < 64
  /\ cp = ThreeSum(x, y, z) /\ cp >= 2048

FourByteForm(cp, v, x, y, z) ==
  /\ v \in Nat /\ v < 5 /\ x \in Nat /\ x < 64
  /\ y \in Nat /\ y < 64 /\ z \in Nat /\ z < 64
  /\ cp = FourSum(v, x, y, z) /\ cp >= 65536

(* The marks of the bytes come off, and the bits are what was put in.      *)
LEMMA TwoPut ==
  ASSUME NEW cp, NEW x, NEW y, TwoByteForm(cp, x, y)
  PROVE  Two(192 + x, 128 + y) = cp
<1>0. x \in Nat /\ x >= 2 /\ x < 32 /\ y \in Nat /\ y < 64
  BY SMT DEF TwoByteForm
<1>1. (192 + x) % 32 = x
  BY <1>0, SMT
<1>2. (128 + y) % 64 = y
  BY <1>0, SMT
<1>3. QED
  BY <1>0, <1>1, <1>2, SMT DEF Two, TwoSum, TwoByteForm

LEMMA ThreePut ==
  ASSUME NEW cp, NEW x, NEW y, NEW z, ThreeByteForm(cp, x, y, z)
  PROVE  Three(224 + x, 128 + y, 128 + z) = cp
<1>0. x \in Nat /\ x < 16 /\ y \in Nat /\ y < 64 /\ z \in Nat /\ z < 64
  BY SMT DEF ThreeByteForm
<1>1. (224 + x) % 16 = x
  BY <1>0, SMT
<1>2. (128 + y) % 64 = y
  BY <1>0, SMT
<1>3. (128 + z) % 64 = z
  BY <1>0, SMT
<1>4. QED
  BY <1>0, <1>1, <1>2, <1>3, SMT DEF Three, ThreeSum, ThreeByteForm

LEMMA FourPut ==
  ASSUME NEW cp, NEW v, NEW x, NEW y, NEW z, FourByteForm(cp, v, x, y, z)
  PROVE  Four(240 + v, 128 + x, 128 + y, 128 + z) = cp
<1>0. /\ v \in Nat /\ v < 5 /\ x \in Nat /\ x < 64
      /\ y \in Nat /\ y < 64 /\ z \in Nat /\ z < 64
  BY SMT DEF FourByteForm
<1>1. (240 + v) % 8 = v
  BY <1>0, SMT
<1>2. (128 + x) % 64 = x
  BY <1>0, SMT
<1>3. (128 + y) % 64 = y
  BY <1>0, SMT
<1>4. (128 + z) % 64 = z
  BY <1>0, SMT
<1>5. QED
  BY <1>0, <1>1, <1>2, <1>3, <1>4, SMT DEF Four, FourSum, FourByteForm

(* Bytes in front of others.                                               *)
LEMMA BytesAhead ==
  ASSUME NEW w \in Seq(Octet), NEW s \in Seq(Octet)
  PROVE  /\ w \o s \in Seq(Octet) /\ Len(w \o s) \in Nat
         /\ Len(w \o s) >= Len(w)
         /\ \A i \in 1..Len(w) : (w \o s)[i] = w[i]
<1> HIDE DEF Octet
<1>1. QED
  BY SMT

(* One to four bytes in front of others.                                   *)
LEMMA FrontOne ==
  ASSUME NEW a \in Octet, NEW s \in Seq(Octet)
  PROVE  LET w == <<a>>
             u == w \o s
         IN /\ w \in Seq(Octet) /\ Len(w) = 1
            /\ u[1] = a
            /\ Len(u) \in Nat /\ Len(u) >= 1
<1> HIDE DEF Octet
<1> DEFINE w == <<a>>
<1>1. w \in Seq(Octet) /\ Len(w) = 1 /\ w[1] = a
  OBVIOUS
<1> HIDE DEF w
<1>2. QED
  BY <1>1, BytesAhead DEF w

LEMMA FrontTwo ==
  ASSUME NEW a \in Octet, NEW b \in Octet, NEW s \in Seq(Octet)
  PROVE  LET w == <<a, b>>
             u == w \o s
         IN /\ w \in Seq(Octet) /\ Len(w) = 2
            /\ u[1] = a /\ u[2] = b
            /\ Len(u) \in Nat /\ Len(u) >= 2
<1> HIDE DEF Octet
<1> DEFINE w == <<a, b>>
<1>1. w \in Seq(Octet) /\ Len(w) = 2 /\ w[1] = a /\ w[2] = b
  OBVIOUS
<1> HIDE DEF w
<1>2. QED
  BY <1>1, BytesAhead DEF w

LEMMA FrontThree ==
  ASSUME NEW a \in Octet, NEW b \in Octet, NEW c \in Octet, NEW s \in Seq(Octet)
  PROVE  LET w == <<a, b, c>>
             u == w \o s
         IN /\ w \in Seq(Octet) /\ Len(w) = 3
            /\ u[1] = a /\ u[2] = b /\ u[3] = c
            /\ Len(u) \in Nat /\ Len(u) >= 3
<1> HIDE DEF Octet
<1> DEFINE w == <<a, b, c>>
<1>1. w \in Seq(Octet) /\ Len(w) = 3 /\ w[1] = a /\ w[2] = b /\ w[3] = c
  OBVIOUS
<1> HIDE DEF w
<1>2. QED
  BY <1>1, BytesAhead DEF w

LEMMA FrontFour ==
  ASSUME NEW a \in Octet, NEW b \in Octet, NEW c \in Octet, NEW d \in Octet,
         NEW s \in Seq(Octet)
  PROVE  LET w == <<a, b, c, d>>
             u == w \o s
         IN /\ w \in Seq(Octet) /\ Len(w) = 4
            /\ u[1] = a /\ u[2] = b /\ u[3] = c /\ u[4] = d
            /\ Len(u) \in Nat /\ Len(u) >= 4
<1> HIDE DEF Octet
<1> DEFINE w == <<a, b, c, d>>
<1>1. /\ w \in Seq(Octet) /\ Len(w) = 4
      /\ w[1] = a /\ w[2] = b /\ w[3] = c /\ w[4] = d
  OBVIOUS
<1> HIDE DEF w
<1>2. QED
  BY <1>1, BytesAhead DEF w

(* What a first byte announces.                                            *)
LEMMA LeadLength ==
  ASSUME NEW a \in Nat
  PROVE  LET n == num_bytes_in_utf8_sequence(a)
         IN /\ a < 128 => n = 1
            /\ a >= 194 /\ a <= 223 => n = 2
            /\ a >= 224 /\ a <= 239 => n = 3
            /\ a >= 240 /\ a <= 244 => n = 4
<1>1. IsCont(a) <=> a >= 128 /\ a <= 191
  BY SMT DEF IsCont
<1>2. QED
  BY <1>1, SMT DEF num_bytes_in_utf8_sequence

(* The bytes after the first.                                              *)
LEMMA ContinuationByte ==
  ASSUME NEW a \in Nat, a >= 128, a <= 191
  PROVE  IsCont(a)
BY SMT DEF IsCont

(* For each length: these are bytes, and verify_utf8_sequence accepts what *)
(* begins with them.                                                       *)
Accepted(w, s, n) ==
  /\ w \in Seq(Octet) /\ Len(w) = n
  /\ verify_utf8_sequence(w \o s)
  /\ num_bytes_in_utf8_sequence((w \o s)[1]) = n

(* The one byte of an ASCII character ...                                  *)
LEMMA OneAccepted ==
  ASSUME NEW cp \in Nat, IsScalar(cp), cp < 128, NEW s \in Seq(Octet)
  PROVE  Accepted(<<cp>>, s, 1)
<1> DEFINE w == <<cp>>
           b == w \o s
<1>1. cp \in Octet
  BY SMT DEF Octet
<1>2. /\ w \in Seq(Octet) /\ Len(w) = 1
      /\ b[1] = cp
      /\ Len(b) \in Nat /\ Len(b) >= 1
  BY <1>1, FrontOne, SMT
<1> HIDE DEF w
<1> HIDE DEF b
<1>3. num_bytes_in_utf8_sequence(b[1]) = 1
  BY <1>2, LeadLength, SMT
<1>4. Bits(b, 1) = cp
  BY <1>2, BitsOf, SMT
<1>5. verify_utf8_sequence(b)
  BY <1>2, <1>3, <1>4, SMT DEF verify_utf8_sequence
<1>6. QED
  BY <1>2, <1>3, <1>5, SMT DEF Accepted, b, w

(* ... and two, three and four marked bytes.                               *)
LEMMA TwoAccepted ==
  ASSUME NEW cp \in Nat, IsScalar(cp), NEW x, NEW y,
         TwoByteForm(cp, x, y), NEW s \in Seq(Octet)
  PROVE  Accepted(TwoMarked(x, y), s, 2)
<1> DEFINE w == TwoMarked(x, y)
           b == w \o s
<1>1. x \in Nat /\ x >= 2 /\ x < 32 /\ y \in Nat /\ y < 64
  BY SMT DEF TwoByteForm
<1>2. cp = TwoSum(x, y) /\ cp >= 128
  BY SMT DEF TwoByteForm
<1>3. 192 + x \in Octet /\ 128 + y \in Octet
  BY <1>1, SMT DEF Octet
<1>4. /\ w \in Seq(Octet) /\ Len(w) = 2
      /\ b[1] = 192 + x /\ b[2] = 128 + y
      /\ Len(b) \in Nat /\ Len(b) >= 2
  BY <1>3, FrontTwo, SMT DEF TwoMarked
<1> HIDE DEF w, b
<1>5. num_bytes_in_utf8_sequence(b[1]) = 2
  <2>1. b[1] \in Nat /\ b[1] >= 194 /\ b[1] <= 223
    BY <1>1, <1>4, SMT
  <2>2. QED
    BY <2>1, LeadLength, SMT
<1>6. Bits(b, 2) = cp
  <2>1. Bits(b, 2) = Two(192 + x, 128 + y)
    BY <1>4, BitsOf, SMT
  <2>2. Two(192 + x, 128 + y) = cp
    BY TwoPut, SMT
  <2>3. QED
    BY <2>1, <2>2, SMT
<1>7. \A i \in 2..2 : IsCont(b[i])
  <2>1. IsCont(128 + y)
    BY <1>1, ContinuationByte, SMT
  <2>2. QED
    BY <1>4, <2>1, SMT
<1>8. verify_utf8_sequence(b)
  <2>1. 2 \in 1..Len(b) /\ IsScalar(Bits(b, 2))
    BY <1>4, <1>6, SMT
  <2>2. ~(Bits(b, 2) < 128)
    BY <1>2, <1>6, SMT
  <2>3. QED
    BY <1>5, <1>7, <2>1, <2>2, SMT DEF verify_utf8_sequence
<1>9. QED
  BY <1>4, <1>5, <1>8, Zenon DEF Accepted, b, w

LEMMA ThreeAccepted ==
  ASSUME NEW cp \in Nat, IsScalar(cp), NEW x, NEW y, NEW z,
         ThreeByteForm(cp, x, y, z), NEW s \in Seq(Octet)
  PROVE  Accepted(ThreeMarked(x, y, z), s, 3)
<1> DEFINE w == ThreeMarked(x, y, z)
           b == w \o s
<1>1. x \in Nat /\ x < 16 /\ y \in Nat /\ y < 64 /\ z \in Nat /\ z < 64
  BY SMT DEF ThreeByteForm
<1>2. cp = ThreeSum(x, y, z) /\ cp >= 2048
  BY SMT DEF ThreeByteForm
<1>3. 224 + x \in Octet /\ 128 + y \in Octet /\ 128 + z \in Octet
  BY <1>1, SMT DEF Octet
<1>4. /\ w \in Seq(Octet) /\ Len(w) = 3
      /\ b[1] = 224 + x /\ b[2] = 128 + y /\ b[3] = 128 + z
      /\ Len(b) \in Nat /\ Len(b) >= 3
  BY <1>3, FrontThree, SMT DEF ThreeMarked
<1> HIDE DEF w, b
<1>5. num_bytes_in_utf8_sequence(b[1]) = 3
  <2>1. b[1] \in Nat /\ b[1] >= 224 /\ b[1] <= 239
    BY <1>1, <1>4, SMT
  <2>2. QED
    BY <2>1, LeadLength, SMT
<1>6. Bits(b, 3) = cp
  <2>1. Bits(b, 3) = Three(224 + x, 128 + y, 128 + z)
    BY <1>4, BitsOf, SMT
  <2>2. Three(224 + x, 128 + y, 128 + z) = cp
    BY ThreePut, SMT
  <2>3. QED
    BY <2>1, <2>2, SMT
<1>7. \A i \in 2..3 : IsCont(b[i])
  <2>1. IsCont(128 + y)
    BY <1>1, ContinuationByte, SMT
  <2>2. IsCont(128 + z)
    BY <1>1, ContinuationByte, SMT
  <2>3. QED
    BY <1>4, <2>1, <2>2, SMT
<1>8. verify_utf8_sequence(b)
  <2>1. 3 \in 1..Len(b) /\ IsScalar(Bits(b, 3))
    BY <1>4, <1>6, SMT
  <2>2. ~(Bits(b, 3) < 128) /\ ~(Bits(b, 3) < 2048)
    BY <1>2, <1>6, SMT
  <2>3. QED
    BY <1>5, <1>7, <2>1, <2>2, SMT DEF verify_utf8_sequence
<1>9. QED
  BY <1>4, <1>5, <1>8, Zenon DEF Accepted, b, w

LEMMA FourAccepted ==
  ASSUME NEW cp \in Nat, IsScalar(cp), NEW v, NEW x, NEW y, NEW z,
         FourByteForm(cp, v, x, y, z), NEW s \in Seq(Octet)
  PROVE  Accepted(FourMarked(v, x, y, z), s, 4)
<1> DEFINE w == FourMarked(v, x, y, z)
           b == w \o s
<1>1. /\ v \in Nat /\ v < 5 /\ x \in Nat /\ x < 64
      /\ y \in Nat /\ y < 64 /\ z \in Nat /\ z < 64
  BY SMT DEF FourByteForm
<1>2. cp = FourSum(v, x, y, z) /\ cp >= 65536
  BY SMT DEF FourByteForm
<1>3. /\ 240 + v \in Octet /\ 128 + x \in Octet
      /\ 128 + y \in Octet /\ 128 + z \in Octet
  BY <1>1, SMT DEF Octet
<1>4. /\ w \in Seq(Octet) /\ Len(w) = 4
      /\ b[1] = 240 + v /\ b[2] = 128 + x /\ b[3] = 128 + y /\ b[4] = 128 + z
      /\ Len(b) \in Nat /\ Len(b) >= 4
  BY <1>3, FrontFour, SMT DEF FourMarked
<1> HIDE DEF w, b
<1>5. num_bytes_in_utf8_sequence(b[1]) = 4
  <2>1. b[1] \in Nat /\ b[1] >= 240 /\ b[1] <= 244
    BY <1>1, <1>4, SMT
  <2>2. QED
    BY <2>1, LeadLength, SMT
<1>6. Bits(b, 4) = cp
  <2>1. Bits(b, 4) = Four(240 + v, 128 + x, 128 + y, 128 + z)
    BY <1>4, BitsOf, SMT
  <2>2. Four(240 + v, 128 + x, 128 + y, 128 + z) = cp
    BY FourPut, SMT
  <2>3. QED
    BY <2>1, <2>2, SMT
<1>7. \A i \in 2..4 : IsCont(b[i])
  <2>1. IsCont(128 + x)
    BY <1>1, ContinuationByte, SMT
  <2>2. IsCont(128 + y)
    BY <1>1, ContinuationByte, SMT
  <2>3. IsCont(128 + z)
    BY <1>1, ContinuationByte, SMT
  <2>4. QED
    BY <1>4, <2>1, <2>2, <2>3, SMT
<1>8. verify_utf8_sequence(b)
  <2>1. 4 \in 1..Len(b) /\ IsScalar(Bits(b, 4))
    BY <1>4, <1>6, SMT
  <2>2. ~(Bits(b, 4) < 128) /\ ~(Bits(b, 4) < 2048) /\ ~(Bits(b, 4) < 65536)
    BY <1>2, <1>6, SMT
  <2>3. QED
    BY <1>5, <1>7, <2>1, <2>2, SMT DEF verify_utf8_sequence
<1>9. QED
  BY <1>4, <1>5, <1>8, Zenon DEF Accepted, b, w

(* A sequence that begins with what was written of a code point is         *)
(* accepted by verify_utf8_sequence, to the length of what was written:    *)
(* the shifts and masks of parse_utf16 take the code point apart.          *)
LEMMA WrittenAccepted ==
  ASSUME NEW cp, IsScalar(cp), NEW s \in Seq(Octet)
  PROVE  \E n \in 1..4 : Accepted(Utf8(cp), s, n)
<1>1. cp \in Nat /\ cp <= 1114111
  BY SMT DEF IsScalar
<1> DEFINE h == cp \div 64
           g == cp \div 4096
           f == cp \div 262144
           x == g % 64
           y == h % 64
           z == cp % 64
<1>2. /\ cp < 128 => Utf8(cp) = <<cp>>
      /\ cp >= 128 /\ cp < 2048 => Utf8(cp) = TwoMarked(h, z)
      /\ cp >= 2048 /\ cp < 65536 => Utf8(cp) = ThreeMarked(g, y, z)
      /\ cp >= 65536 => Utf8(cp) = FourMarked(f, x, y, z)
  <2>1. cp < 128 => Utf8(cp) = <<cp>>
    BY <1>1, SMT DEF Utf8
  <2>2. cp >= 128 /\ cp < 2048 => Utf8(cp) = TwoMarked(h, z)
    BY <1>1, SMT DEF Utf8, TwoMarked
  <2>3. cp >= 2048 /\ cp < 65536 => Utf8(cp) = ThreeMarked(g, y, z)
    BY <1>1, SMT DEF Utf8, ThreeMarked
  <2>4. cp >= 65536 => Utf8(cp) = FourMarked(f, x, y, z)
    BY <1>1, SMT DEF Utf8, FourMarked
  <2> HIDE DEF h, g, f, x, y, z
  <2>5. QED
    BY <2>1, <2>2, <2>3, <2>4, SMT
<1>3. /\ h = cp \div 64 /\ g = cp \div 4096 /\ f = cp \div 262144
      /\ x = g % 64 /\ y = h % 64 /\ z = cp % 64
  OBVIOUS
<1> HIDE DEF h, g, f, x, y, z
<1>4. h \in Nat /\ z \in Nat /\ z < 64 /\ cp = h * 64 + z
  BY <1>1, <1>3, SMT
<1>5. PICK p \in Nat : y \in Nat /\ y < 64 /\ h = p * 64 + y
  BY <1>3, <1>4, SMT
<1>6. cp = p * 4096 + y * 64 + z
  BY <1>4, <1>5, SMT
<1>7. g = p
  BY <1>3, <1>4, <1>5, <1>6, SMT
<1>8. PICK r \in Nat : x \in Nat /\ x < 64 /\ g = r * 64 + x
  <2>1. g \in Nat
    BY <1>5, <1>7, SMT
  <2>2. x = g % 64
    BY <1>3, SMT
  <2>3. QED
    BY <2>1, <2>2, SMT
<1>9. cp = r * 262144 + x * 4096 + y * 64 + z
  BY <1>6, <1>7, <1>8, SMT
<1>10. f = r
  BY <1>3, <1>4, <1>5, <1>8, <1>9, SMT
<1>11. CASE cp < 128
  <2>1. Accepted(<<cp>>, s, 1)
    BY <1>1, <1>11, OneAccepted, SMT
  <2>2. QED
    BY <1>2, <1>11, <2>1, SMT
<1>12. CASE cp >= 128 /\ cp < 2048
  <2>1. TwoByteForm(cp, h, z)
    BY <1>4, <1>12, SMT DEF TwoByteForm, TwoSum
  <2>2. cp \in Nat
    BY <1>1, SMT
  <2>3. Accepted(TwoMarked(h, z), s, 2)
    BY <2>1, <2>2, TwoAccepted, Zenon
  <2>4. QED
    BY <1>2, <1>12, <2>3, SMT
<1>13. CASE cp >= 2048 /\ cp < 65536
  <2>1. ThreeByteForm(cp, g, y, z)
    BY <1>4, <1>5, <1>6, <1>7, <1>13, SMT DEF ThreeByteForm, ThreeSum
  <2>2. cp \in Nat
    BY <1>1, SMT
  <2>3. Accepted(ThreeMarked(g, y, z), s, 3)
    BY <2>1, <2>2, ThreeAccepted, Zenon
  <2>4. QED
    BY <1>2, <1>13, <2>3, SMT
<1>14. CASE cp >= 65536
  <2>1. FourByteForm(cp, f, x, y, z)
    <3>1. f \in Nat /\ f < 5
      BY <1>1, <1>4, <1>5, <1>8, <1>9, <1>10, SMT
    <3>2. QED
      BY <1>4, <1>5, <1>8, <1>9, <1>10, <1>14, <3>1, SMT DEF FourByteForm, FourSum
  <2>2. cp \in Nat
    BY <1>1, SMT
  <2>3. Accepted(FourMarked(f, x, y, z), s, 4)
    BY <2>1, <2>2, FourAccepted, Zenon
  <2>4. QED
    BY <1>2, <1>14, <2>3, SMT
<1>15. QED
  BY <1>1, <1>11, <1>12, <1>13, <1>14, SMT

(* In particular it is bytes, one to four of them.                         *)
LEMMA WrittenBytes ==
  ASSUME NEW cp, IsScalar(cp)
  PROVE  Utf8(cp) \in Seq(Octet) /\ Len(Utf8(cp)) \in 1..4
<1>1. <<>> \in Seq(Octet)
  OBVIOUS
<1>2. PICK n \in 1..4 : Accepted(Utf8(cp), <<>>, n)
  BY <1>1, WrittenAccepted, Zenon
<1>3. QED
  BY <1>2, Zenon DEF Accepted

(* A pair of halves stands for a code point beyond the units.              *)
LEMMA PairIsScalar ==
  ASSUME NEW lead \in Lead, NEW trail \in Trail
  PROVE  IsScalar(Pair(lead, trail))
<1>1. lead \in Int /\ lead >= 55296 /\ lead <= 56319
  BY SMT DEF Lead
<1>2. trail \in Int /\ trail >= 56320 /\ trail <= 57343
  BY SMT DEF Trail
<1>3. /\ Pair(lead, trail) \in Int
      /\ Pair(lead, trail) >= 65536 /\ Pair(lead, trail) <= 1114111
  BY <1>1, <1>2, SMT DEF Pair
<1>4. Pair(lead, trail) \notin Surrogate
  <2> DEFINE p == Pair(lead, trail)
  <2>1. p \in Int /\ p >= 65536
    BY <1>3, SMT
  <2> HIDE DEF p
  <2>2. p \notin Surrogate
    BY <2>1, SMTT(30) DEF Surrogate
  <2>3. QED
    BY <2>2 DEF p
<1>5. QED
  BY <1>3, <1>4, SMT DEF IsScalar

(* A unit that is no half of a pair stands for itself.                     *)
LEMMA UnitIsScalar ==
  ASSUME NEW unit \in CodeUnit, unit \notin Surrogate
  PROVE  IsScalar(unit)
<1>1. unit \in Int /\ unit >= 0 /\ unit <= 65535
  BY SMT DEF CodeUnit
<1>2. QED
  BY <1>1, SMT DEF IsScalar

(* A surrogate is one half of a pair and not the other.                    *)
LEMMA Halves ==
  ASSUME NEW x \in CodeUnit
  PROVE  /\ x \in Surrogate <=> x \in Lead \/ x \in Trail
         /\ ~(x \in Lead /\ x \in Trail)
<1>1. x \in Nat
  BY SMT DEF CodeUnit
<1>2. x \in Surrogate <=> x >= 55296 /\ x <= 57343
  BY <1>1, SMTT(30) DEF Surrogate
<1>3. x \in Lead <=> x >= 55296 /\ x <= 56319
  BY <1>1, SMT DEF Lead
<1>4. x \in Trail <=> x >= 56320 /\ x <= 57343
  BY <1>1, SMT DEF Trail
<1>5. QED
  BY <1>1, <1>2, <1>3, <1>4, SMT

(* ... an escape or a pair of them gives one, and the next is behind it.   *)
LEMMA EscapeWritten ==
  ASSUME NEW u \in Seq(CodeUnit), NEW i \in 1..Len(u)
  PROVE  LET e == parse_utf16(u, i)
         IN /\ e.ok \in BOOLEAN /\ e.bytes \in Seq(Octet)
            /\ e.ok => /\ e.used \in {1, 2} /\ i + e.used \in i+1..Len(u)+1
                       /\ \E cp : IsScalar(cp) /\ e.bytes = Utf8(cp)
<1> DEFINE e == parse_utf16(u, i)
<1>0. u[i] \in CodeUnit /\ Len(u) \in Nat
  OBVIOUS
<1>1. CASE u[i] \notin Surrogate
  <2>1. IsScalar(u[i])
    BY <1>0, <1>1, UnitIsScalar, Zenon
  <2>2. e = [ok |-> TRUE, bytes |-> Utf8(u[i]), used |-> 1]
    BY <1>1 DEF parse_utf16
  <2>3. QED
    BY <1>0, <2>1, <2>2, WrittenBytes
<1>2. CASE u[i] \in Lead /\ i < Len(u) /\ u[i + 1] \in Trail
  <2>1. IsScalar(Pair(u[i], u[i + 1]))
    BY <1>2, PairIsScalar, Zenon
  <2>2. e = [ok |-> TRUE, bytes |-> Utf8(Pair(u[i], u[i + 1])), used |-> 2]
    BY <1>0, <1>2, Halves DEF parse_utf16
  <2>3. QED
    BY <1>0, <1>2, <2>1, <2>2, WrittenBytes
<1>3. CASE /\ u[i] \in Surrogate
           /\ ~(u[i] \in Lead /\ i < Len(u) /\ u[i + 1] \in Trail)
  <2>1. e = [ok |-> FALSE, bytes |-> <<>>, used |-> 0]
    BY <1>3 DEF parse_utf16
  <2>2. QED
    BY <2>1
<1>4. QED
  BY <1>1, <1>2, <1>3

(* The bytes from the i-th on.                                             *)
BytesFrom(b, i) == SubSeq(b, i, Len(b))

(* What is_valid_utf8 computes for each suffix of b.                       *)
ValidFrom(b, g) ==
  /\ g \in [1..Len(b)+1 -> BOOLEAN]
  /\ g[Len(b) + 1]
  /\ \A i \in 1..Len(b) :
       g[i] <=> /\ verify_utf8_sequence(BytesFrom(b, i))
                /\ g[i + num_bytes_in_utf8_sequence(BytesFrom(b, i)[1])]

(* The step of the recursion.                                              *)
ValidBody(b, g, i) ==
  IF i > Len(b) THEN TRUE
  ELSE LET rest == SubSeq(b, i, Len(b))
       IN /\ verify_utf8_sequence(rest)
          /\ g[i + num_bytes_in_utf8_sequence(rest[1])]

(* A sequence that is accepted ends inside the string.                     *)
LEMMA AcceptedFits ==
  ASSUME NEW b \in Seq(Octet), NEW i \in 1..Len(b),
         verify_utf8_sequence(BytesFrom(b, i))
  PROVE  i + num_bytes_in_utf8_sequence(BytesFrom(b, i)[1]) \in i+1..Len(b)+1
<1>1. BytesFrom(b, i) \in Seq(Octet) /\ Len(BytesFrom(b, i)) = Len(b) - i + 1
  <2>1. i \in Int /\ Len(b) \in Int /\ \A j \in i..Len(b) : b[j] \in Octet
    <3>1. Len(b) \in Nat /\ \A j \in 1..Len(b) : b[j] \in Octet
      BY LenProperties, ElementOfSeq
    <3>2. \A j \in i..Len(b) : j \in 1..Len(b)
      BY <3>1
    <3>3. QED
      BY <3>1, <3>2
  <2>2. /\ BytesFrom(b, i) \in Seq(Octet)
        /\ Len(BytesFrom(b, i)) = IF i <= Len(b) THEN Len(b) - i + 1 ELSE 0
    BY <2>1, SubSeqProperties, SMT DEF BytesFrom
  <2>3. QED
    BY <2>2
<1> DEFINE n == num_bytes_in_utf8_sequence(BytesFrom(b, i)[1])
<1>2. n \in 1..Len(BytesFrom(b, i))
  BY DEF verify_utf8_sequence
<1>3. QED
  BY <1>1, <1>2

(* There is a function that does what the recursion says.                  *)
LEMMA ValidExists ==
  ASSUME NEW b \in Seq(Octet)
  PROVE  \E g : g = [i \in 1..Len(b)+1 |-> ValidBody(b, g, i)]
<1> DEFINE n == Len(b)
           accepted(i) == verify_utf8_sequence(BytesFrom(b, i))
           next(i) == i + num_bytes_in_utf8_sequence(BytesFrom(b, i)[1])
           jump == [i \in 1..n |-> IF accepted(i) THEN next(i) ELSE i + 1]
           combine == [i \in 1..n |-> [r \in BOOLEAN |-> accepted(i) /\ r]]
<1>1. \A i \in 1..n : accepted(i) => next(i) \in i+1..n+1
  BY AcceptedFits
<1> HIDE DEF accepted, next
<1>2. /\ jump \in [1..n -> Nat] /\ combine \in [1..n -> [BOOLEAN -> BOOLEAN]]
      /\ JumpsForward(n, jump)
  BY <1>1 DEF JumpsForward
<1>3. PICK g \in [1..n+1 -> BOOLEAN] :
        g[n + 1] = TRUE /\ \A i \in 1..n : g[i] = combine[i][g[jump[i]]]
  <2> DEFINE R == BOOLEAN
             end == TRUE
  <2>1. n \in Nat /\ end \in R /\ combine \in [1..n -> [R -> R]]
    BY <1>2
  <2> HIDE DEF n, jump, combine, R, end
  <2>2. PICK g \in [1..n+1 -> R] : Follows(g, 1, n, end, jump, combine)
    BY <1>2, <2>1, BackwardRecursion
  <2>3. QED
    BY <2>2, Zenon DEF R, end, Follows
<1>4. ASSUME NEW i \in 1..n+1
      PROVE  g[i] = ValidBody(b, g, i)
  <2>1. CASE i = n + 1
    <3>1. i > n
      BY <2>1
    <3>2. ValidBody(b, g, i) = TRUE
      BY <3>1, Zenon DEF ValidBody
    <3>3. QED
      BY <1>3, <2>1, <3>2, Zenon
  <2>2. CASE i \in 1..n
    <3>1. g[i] = combine[i][g[jump[i]]] /\ g[jump[i]] \in BOOLEAN
      BY <1>2, <1>3, <2>2 DEF JumpsForward
    <3>2. combine[i][g[jump[i]]] = (accepted(i) /\ g[jump[i]])
      BY <3>1, <2>2
    <3>3. accepted(i) => jump[i] = next(i)
      BY <2>2
    <3>4. ValidBody(b, g, i) = (accepted(i) /\ g[next(i)])
      <4>1. ~(i > n)
        BY <2>2
      <4>2. QED
        BY <4>1, Zenon DEF ValidBody, accepted, next, BytesFrom
    <3>5. g[i] = (accepted(i) /\ g[jump[i]])
      BY <3>1, <3>2
    <3>6. (accepted(i) /\ g[jump[i]]) = (accepted(i) /\ g[next(i)])
      BY <3>3
    <3>7. QED
      BY <3>4, <3>5, <3>6
  <2>3. QED
    BY <2>1, <2>2
<1>5. g = [i \in 1..n+1 |-> ValidBody(b, g, i)]
  BY <1>3, <1>4
<1>6. QED
  BY <1>5

(* is_valid_utf8 goes from sequence to sequence to the end.                *)
LEMMA ValidComputed ==
  ASSUME NEW b \in Seq(Octet)
  PROVE  \E g : ValidFrom(b, g) /\ is_valid_utf8(b) = g[1]
<1> DEFINE from[i \in 1..Len(b)+1] ==
             IF i > Len(b) THEN TRUE
             ELSE LET rest == SubSeq(b, i, Len(b))
                  IN /\ verify_utf8_sequence(rest)
                     /\ from[i + num_bytes_in_utf8_sequence(rest[1])]
<1>1. is_valid_utf8(b) = from[1]
  BY Zenon DEF is_valid_utf8
<1>2. from = [i \in 1..Len(b)+1 |-> ValidBody(b, from, i)]
  BY ValidExists, Zenon DEF ValidBody
<1> HIDE DEF from
<1>3. \A i \in 1..Len(b)+1 : from[i] = ValidBody(b, from, i)
  BY <1>2, Zenon
<1>4. \A i \in 1..Len(b)+1 : from[i] \in BOOLEAN
  BY <1>3 DEF ValidBody
<1>5. from \in [1..Len(b)+1 -> BOOLEAN]
  BY <1>2, <1>4, SMT
<1>6. from[Len(b) + 1] = TRUE
  <2>1. Len(b) + 1 \in 1..Len(b)+1 /\ Len(b) + 1 > Len(b)
    OBVIOUS
  <2>2. ValidBody(b, from, Len(b) + 1) = TRUE
    BY <2>1, Zenon DEF ValidBody
  <2>3. QED
    BY <1>3, <2>1, <2>2, Zenon
<1>7. ASSUME NEW i \in 1..Len(b)
      PROVE  from[i] <=> /\ verify_utf8_sequence(BytesFrom(b, i))
                         /\ from[i + num_bytes_in_utf8_sequence(BytesFrom(b, i)[1])]
  <2>1. i \in 1..Len(b)+1 /\ ~(i > Len(b))
    OBVIOUS
  <2>2. from[i] = ValidBody(b, from, i)
    BY <1>3, <2>1
  <2>3. QED
    BY <2>1, <2>2 DEF ValidBody, BytesFrom
<1>8. QED
  BY <1>1, <1>5, <1>6, <1>7 DEF ValidFrom

(* Bytes written in front of a string leave its suffixes what they are.    *)
LEMMA RestBehind ==
  ASSUME NEW w \in Seq(Octet), NEW s \in Seq(Octet), NEW i \in 1..Len(s)
  PROVE  BytesFrom(w \o s, i + Len(w)) = BytesFrom(s, i)
<1> DEFINE b == w \o s
<1>1. /\ Len(w) \in Nat /\ Len(s) \in Nat
      /\ b \in Seq(Octet) /\ Len(b) = Len(w) + Len(s)
      /\ \A j \in 1..Len(s) : b[j + Len(w)] = s[j]
  OBVIOUS
<1> HIDE DEF b
<1>2. BytesFrom(b, i + Len(w)) = [j \in 1..Len(s)-i+1 |-> b[i + Len(w) + j - 1]]
  <2>1. Len(b) - (i + Len(w)) + 1 = Len(s) - i + 1
    BY <1>1
  <2>2. QED
    BY <1>1, <2>1 DEF BytesFrom
<1>3. BytesFrom(s, i) = [j \in 1..Len(s)-i+1 |-> s[i + j - 1]]
  BY <1>1 DEF BytesFrom
<1>4. ASSUME NEW j \in 1..Len(s)-i+1
      PROVE  b[i + Len(w) + j - 1] = s[i + j - 1]
  <2>1. i + j - 1 \in 1..Len(s) /\ i + Len(w) + j - 1 = (i + j - 1) + Len(w)
    BY <1>1
  <2>2. QED
    BY <1>1, <2>1
<1>5. QED
  BY <1>2, <1>3, <1>4 DEF b

(* A code point in front of a valid string makes a valid string: what is   *)
(* written of it is one sequence, and behind it everything is as it was.   *)
LEMMA ValidPrepends ==
  ASSUME NEW cp, IsScalar(cp), NEW s \in Seq(Octet), is_valid_utf8(s)
  PROVE  is_valid_utf8(Utf8(cp) \o s)
<1> DEFINE w == Utf8(cp)
           b == w \o s
<1>1. /\ w \in Seq(Octet) /\ b \in Seq(Octet)
      /\ verify_utf8_sequence(b)
      /\ num_bytes_in_utf8_sequence(b[1]) = Len(w)
      /\ Len(w) \in 1..4
      /\ Len(s) \in Nat /\ Len(b) = Len(w) + Len(s)
  <2>1. PICK m \in 1..4 : Accepted(w, s, m)
    BY WrittenAccepted
  <2>2. /\ w \in Seq(Octet) /\ Len(w) = m /\ verify_utf8_sequence(b)
        /\ num_bytes_in_utf8_sequence(b[1]) = m
    BY <2>1 DEF Accepted
  <2> HIDE DEF w
  <2>3. b \in Seq(Octet) /\ Len(s) \in Nat /\ Len(b) = Len(w) + Len(s)
    BY <2>2, SMT
  <2>4. QED
    BY <2>1, <2>2, <2>3, SMT
<1>2. \A i \in 1..Len(s) : BytesFrom(b, i + Len(w)) = BytesFrom(s, i)
  BY <1>1, RestBehind
<1> HIDE DEF w, b
<1>3. PICK g : ValidFrom(s, g) /\ is_valid_utf8(s) = g[1]
  BY ValidComputed
<1>4. PICK h : ValidFrom(b, h) /\ is_valid_utf8(b) = h[1]
  BY <1>1, ValidComputed
<1> DEFINE A == {i \in 1..Len(s)+1 : h[i + Len(w)] <=> g[i]}
<1>5. Len(s) + 1 \in A
  BY <1>1, <1>3, <1>4 DEF ValidFrom
<1>6. ASSUME NEW i \in 1..Len(s), \A j \in i+1..Len(s)+1 : j \in A
      PROVE  i \in A
  <2> DEFINE n == num_bytes_in_utf8_sequence(BytesFrom(s, i)[1])
             accepted == verify_utf8_sequence(BytesFrom(s, i))
  <2>0. n \in 0..4
    BY DEF num_bytes_in_utf8_sequence
  <2>1. accepted => i + n \in i+1..Len(s)+1
    BY AcceptedFits
  <2>2. g[i] <=> accepted /\ g[i + n]
    BY <1>3 DEF ValidFrom
  <2>3. i + Len(w) \in 1..Len(b)
    BY <1>1
  <2>4. h[i + Len(w)] <=> accepted /\ h[i + Len(w) + n]
    BY <1>2, <1>4, <2>3 DEF ValidFrom
  <2> HIDE DEF accepted, n
  <2>5. accepted => (h[i + n + Len(w)] <=> g[i + n])
    BY <1>6, <2>1
  <2>6. accepted => i + n + Len(w) = i + Len(w) + n
    BY <1>1, <2>0
  <2>7. h[i + Len(w)] <=> g[i]
    BY <2>2, <2>4, <2>5, <2>6
  <2>8. QED
    BY <2>7
<1>7. 1 \in A
  <2> HIDE DEF A
  <2>1. 1 \in 1..Len(s)+1
    BY <1>1
  <2>2. QED
    BY <1>1, <1>5, <1>6, <2>1, BackwardInduction
<1>8. BytesFrom(b, 1) = b
  BY <1>1 DEF BytesFrom
<1>9. h[1] <=> verify_utf8_sequence(b) /\ h[1 + Len(w)]
  <2>1. 1 \in 1..Len(b)
    BY <1>1
  <2>2. h[1] <=> /\ verify_utf8_sequence(BytesFrom(b, 1))
                 /\ h[1 + num_bytes_in_utf8_sequence(BytesFrom(b, 1)[1])]
    BY <1>4, <2>1 DEF ValidFrom
  <2>3. QED
    BY <1>1, <1>8, <2>2
<1>10. h[1]
  BY <1>1, <1>3, <1>7, <1>9
<1>11. QED
  BY <1>4, <1>10 DEF w, b

(* No text, and a text that is not taken.                                  *)
Nothing == [ok |-> TRUE, bytes |-> <<>>]
Refused == [ok |-> FALSE, bytes |-> <<>>]

(* What process_string computes for each suffix of u.                      *)
ProcessedFrom(u, f) ==
  /\ f[Len(u) + 1] = Nothing
  /\ \A i \in 1..Len(u) :
       LET e == parse_utf16(u, i)
       IN f[i] = IF ~e.ok THEN Refused
                 ELSE [ok |-> f[i + e.used].ok,
                       bytes |-> e.bytes \o f[i + e.used].bytes]

(* The step of the recursion.                                              *)
ProcessBody(u, f, i) ==
  IF i > Len(u) THEN [ok |-> TRUE, bytes |-> <<>>]
  ELSE LET e == parse_utf16(u, i)
           rest == f[i + e.used]
       IN IF ~e.ok THEN [ok |-> FALSE, bytes |-> <<>>]
          ELSE [ok |-> rest.ok, bytes |-> e.bytes \o rest.bytes]

(* There is a function that does what this recursion says.                 *)
LEMMA ProcessExists ==
  ASSUME NEW u \in Seq(CodeUnit)
  PROVE  \E f : f = [i \in 1..Len(u)+1 |-> ProcessBody(u, f, i)]
<1> DEFINE n == Len(u)
           e(i) == parse_utf16(u, i)
           jump == [i \in 1..n |-> IF e(i).ok THEN i + e(i).used ELSE i + 1]
           joined(i, r) == [ok |-> r.ok, bytes |-> e(i).bytes \o r.bytes]
           combine == [i \in 1..n |-> [r \in Result |->
                         IF e(i).ok THEN joined(i, r) ELSE Refused]]
<1>1. \A i \in 1..n : /\ e(i).ok \in BOOLEAN /\ e(i).bytes \in Seq(Octet)
                      /\ e(i).ok => i + e(i).used \in i+1..n+1
  BY EscapeWritten
<1>2. Nothing \in Result /\ Refused \in Result
  BY DEF Nothing, Refused, Result
<1> HIDE DEF e
<1>3. \A i \in 1..n, r \in Result : joined(i, r) \in Result
  BY <1>1 DEF Result
<1> HIDE DEF joined
<1>4. /\ n \in Nat /\ jump \in [1..n -> Nat]
      /\ combine \in [1..n -> [Result -> Result]]
      /\ JumpsForward(n, jump)
  BY <1>1, <1>2, <1>3 DEF JumpsForward
<1>5. PICK f \in [1..n+1 -> Result] : Follows(f, 1, n, Nothing, jump, combine)
  <2> HIDE DEF n, jump, combine
  <2>1. QED
    BY <1>2, <1>4, BackwardRecursion
<1>6. ASSUME NEW i \in 1..n+1
      PROVE  f[i] = ProcessBody(u, f, i)
  <2>1. CASE i = n + 1
    <3>1. i > n /\ f[i] = Nothing
      BY <1>5, <2>1 DEF Follows
    <3>2. ProcessBody(u, f, i) = Nothing
      BY <3>1, Zenon DEF ProcessBody, Nothing
    <3>3. QED
      BY <3>1, <3>2
  <2>2. CASE i \in 1..n
    <3>1. f[i] = combine[i][f[jump[i]]] /\ f[jump[i]] \in Result
      BY <1>4, <1>5, <2>2 DEF Follows, JumpsForward
    <3>2. ~(i > n)
      BY <2>2
    <3>3. CASE e(i).ok
      <4>1. jump[i] = i + e(i).used
        BY <2>2, <3>3
      <4>2. f[i] = joined(i, f[i + e(i).used])
        BY <2>2, <3>1, <3>3, <4>1
      <4>3. ProcessBody(u, f, i) = joined(i, f[i + e(i).used])
        BY <3>2, <3>3, Zenon DEF ProcessBody, e, joined
      <4>4. QED
        BY <4>2, <4>3
    <3>4. CASE ~e(i).ok
      <4>1. f[i] = Refused
        BY <2>2, <3>1, <3>4
      <4>2. ProcessBody(u, f, i) = Refused
        BY <3>2, <3>4, Zenon DEF ProcessBody, e, Refused
      <4>3. QED
        BY <4>1, <4>2
    <3>5. QED
      BY <3>3, <3>4
  <2>3. QED
    BY <2>1, <2>2
<1>7. f = [i \in 1..n+1 |-> ProcessBody(u, f, i)]
  BY <1>5, <1>6
<1>8. QED
  BY <1>7

(* process_string goes from escape to escape to the end.                   *)
LEMMA ProcessComputed ==
  ASSUME NEW u \in Seq(CodeUnit)
  PROVE  \E f : ProcessedFrom(u, f) /\ process_string(u) = f[1]
<1> DEFINE from[i \in 1..Len(u)+1] ==
             IF i > Len(u) THEN [ok |-> TRUE, bytes |-> <<>>]
             ELSE LET e == parse_utf16(u, i)
                      rest == from[i + e.used]
                  IN IF ~e.ok THEN [ok |-> FALSE, bytes |-> <<>>]
                     ELSE [ok |-> rest.ok, bytes |-> e.bytes \o rest.bytes]
<1>1. process_string(u) = from[1]
  BY Zenon DEF process_string
<1>2. from = [i \in 1..Len(u)+1 |-> ProcessBody(u, from, i)]
  BY ProcessExists, Zenon DEF ProcessBody
<1> HIDE DEF from
<1>3. \A i \in 1..Len(u)+1 : from[i] = ProcessBody(u, from, i)
  BY <1>2, Zenon
<1>4. from[Len(u) + 1] = Nothing
  <2>1. Len(u) + 1 \in 1..Len(u)+1 /\ Len(u) + 1 > Len(u)
    OBVIOUS
  <2>2. ProcessBody(u, from, Len(u) + 1) = Nothing
    BY <2>1, Zenon DEF ProcessBody, Nothing
  <2>3. QED
    BY <1>3, <2>1, <2>2, Zenon
<1>5. ASSUME NEW i \in 1..Len(u)
      PROVE  LET e == parse_utf16(u, i)
             IN from[i] = IF ~e.ok THEN Refused
                          ELSE [ok |-> from[i + e.used].ok,
                                bytes |-> e.bytes \o from[i + e.used].bytes]
  <2>1. i \in 1..Len(u)+1 /\ ~(i > Len(u))
    OBVIOUS
  <2>2. from[i] = ProcessBody(u, from, i)
    BY <1>3, <2>1, Zenon
  <2>3. QED
    BY <2>1, <2>2, Zenon DEF ProcessBody, Refused
<1>6. QED
  BY <1>1, <1>4, <1>5, Zenon DEF ProcessedFrom

(* From the k-th escape on, the halves of pairs are in pairs.              *)
Paired(u, k) ==
  \A i \in k..Len(u) :
    /\ u[i] \in Lead => i < Len(u) /\ u[i + 1] \in Trail
    /\ u[i] \in Trail => i > k /\ u[i - 1] \in Lead

(* An escape is taken, and the pairs behind it are pairs, exactly when     *)
(* the pairs from it on are pairs.                                         *)
LEMMA PairedStep ==
  ASSUME NEW u \in Seq(CodeUnit), NEW i \in 1..Len(u)
  PROVE  LET e == parse_utf16(u, i)
         IN Paired(u, i) <=> e.ok /\ Paired(u, i + e.used)
<1> DEFINE e == parse_utf16(u, i)
<1>0. Len(u) \in Nat /\ \A j \in 1..Len(u) : u[j] \in CodeUnit
  OBVIOUS
<1>1. CASE u[i] \notin Surrogate
  <2>1. e.ok /\ e.used = 1
    BY <1>1 DEF parse_utf16
  <2>2. u[i] \notin Lead /\ u[i] \notin Trail
    BY <1>0, <1>1, Halves
  <2>3. Paired(u, i) => Paired(u, i + 1)
    BY <1>0, <2>2 DEF Paired
  <2>4. Paired(u, i + 1) => Paired(u, i)
    BY <1>0, <2>2 DEF Paired
  <2>5. QED
    BY <2>1, <2>3, <2>4
<1>2. CASE u[i] \in Lead /\ i < Len(u) /\ u[i + 1] \in Trail
  <2>1. e.ok /\ e.used = 2
    BY <1>0, <1>2, Halves DEF parse_utf16
  <2>2. u[i] \notin Trail /\ u[i + 1] \notin Lead
    BY <1>0, <1>2, Halves
  <2>3. Paired(u, i) => Paired(u, i + 2)
    BY <1>0, <1>2, <2>2 DEF Paired
  <2>4. Paired(u, i + 2) => Paired(u, i)
    BY <1>0, <1>2, <2>2 DEF Paired
  <2>5. QED
    BY <2>1, <2>3, <2>4
<1>3. CASE /\ u[i] \in Surrogate
           /\ ~(u[i] \in Lead /\ i < Len(u) /\ u[i + 1] \in Trail)
  <2>1. ~e.ok
    BY <1>3 DEF parse_utf16
  <2>2. u[i] \in Lead \/ u[i] \in Trail
    BY <1>0, <1>3, Halves
  <2>3. ~Paired(u, i)
    BY <1>0, <1>3, <2>2 DEF Paired
  <2>4. QED
    BY <2>1, <2>3
<1>4. QED
  BY <1>1, <1>2, <1>3

(* The fields of a record.                                                 *)
LEMMA Fields ==
  ASSUME NEW r, NEW a, NEW b, r = [ok |-> a, bytes |-> b]
  PROVE  r.ok = a /\ r.bytes = b
OBVIOUS

(* From the end of the text to its start: what is taken is in pairs, and   *)
(* what it becomes is valid.                                               *)
LEMMA StringIsValid ==
  ASSUME NEW u \in Seq(CodeUnit)
  PROVE  LET r == process_string(u)
         IN /\ r.ok <=> Paired(u, 1)
            /\ r.ok => is_valid_utf8(r.bytes)
<1> DEFINE n == Len(u)
<1>0. n \in Nat
  OBVIOUS
<1>1. PICK f : ProcessedFrom(u, f) /\ process_string(u) = f[1]
  BY ProcessComputed
<1> DEFINE Good(i) == /\ f[i] \in Result
                      /\ f[i].ok <=> Paired(u, i)
                      /\ f[i].ok => is_valid_utf8(f[i].bytes)
           A == {i \in 1..n+1 : Good(i)}
<1>2. n + 1 \in A
  <2>1. f[n + 1] = Nothing
    BY <1>1 DEF ProcessedFrom
  <2>2. Nothing \in Result /\ Nothing.ok /\ Nothing.bytes = <<>>
    BY DEF Nothing, Result
  <2>3. Paired(u, n + 1)
    BY <1>0 DEF Paired
  <2>4. is_valid_utf8(<<>>)
    <3>1. <<>> \in Seq(Octet) /\ Len(<<>>) + 1 = 1
      OBVIOUS
    <3>2. PICK g : ValidFrom(<<>>, g) /\ is_valid_utf8(<<>>) = g[1]
      BY <3>1, ValidComputed
    <3>3. QED
      BY <3>1, <3>2 DEF ValidFrom
  <2>5. Good(n + 1)
    BY <2>1, <2>2, <2>3, <2>4
  <2>6. QED
    BY <1>0, <2>5
<1>3. ASSUME NEW i \in 1..n, \A j \in i+1..n+1 : j \in A
      PROVE  i \in A
  <2> DEFINE e == parse_utf16(u, i)
             k == i + e.used
  <2>1. /\ e.ok \in BOOLEAN /\ e.bytes \in Seq(Octet)
        /\ e.ok => k \in i+1..n+1
        /\ e.ok => \E cp : IsScalar(cp) /\ e.bytes = Utf8(cp)
    BY EscapeWritten
  <2>2. Paired(u, i) <=> e.ok /\ Paired(u, k)
    BY PairedStep
  <2>3. f[i] = IF ~e.ok THEN Refused
               ELSE [ok |-> f[k].ok, bytes |-> e.bytes \o f[k].bytes]
    BY <1>1 DEF ProcessedFrom
  <2>4. i \in 1..n+1
    BY <1>0
  <2> HIDE DEF e, k
  <2>5. CASE e.ok
    <3>1. Good(k)
      <4>1. k \in A
        BY <1>3, <2>1, <2>5
      <4> HIDE DEF Good
      <4>2. QED
        BY <4>1
    <3>2. /\ f[k].ok \in BOOLEAN /\ f[k].bytes \in Seq(Octet)
      BY <3>1 DEF Result
    <3>3. f[i] = [ok |-> f[k].ok, bytes |-> e.bytes \o f[k].bytes]
      BY <2>3, <2>5
    <3>4. f[i] \in Result
      BY <2>1, <3>2, <3>3 DEF Result
    <3>5. f[i].ok = f[k].ok /\ f[i].bytes = e.bytes \o f[k].bytes
      <4> DEFINE a == f[k].ok
                 b == e.bytes \o f[k].bytes
                 r == f[i]
      <4>1. r = [ok |-> a, bytes |-> b]
        BY <3>3
      <4> HIDE DEF a, b, r
      <4>2. r.ok = a /\ r.bytes = b
        BY <4>1, Fields
      <4>3. QED
        BY <4>2 DEF a, b, r
    <3>6. f[i].ok <=> Paired(u, i)
      BY <2>2, <2>5, <3>1, <3>5
    <3>7. f[i].ok => is_valid_utf8(f[i].bytes)
      <4>1. PICK cp : IsScalar(cp) /\ e.bytes = Utf8(cp)
        BY <2>1, <2>5
      <4>2. f[k].ok => is_valid_utf8(Utf8(cp) \o f[k].bytes)
        BY <3>1, <3>2, <4>1, ValidPrepends
      <4>3. QED
        BY <3>5, <4>1, <4>2
    <3>8. Good(i)
      BY <3>4, <3>6, <3>7
    <3> HIDE DEF Good
    <3>9. QED
      BY <2>4, <3>8
  <2>6. CASE ~e.ok
    <3>1. f[i] = Refused /\ Refused \in Result /\ ~Refused.ok
      BY <2>3, <2>6 DEF Refused, Result
    <3>2. Good(i)
      BY <2>2, <2>6, <3>1
    <3> HIDE DEF Good
    <3>3. QED
      BY <2>4, <3>2
  <2>7. QED
    BY <2>1, <2>5, <2>6
<1>4. Good(1)
  <2>1. 1 \in A
    <3> HIDE DEF A
    <3>1. 1 \in 1..n+1
      BY <1>0
    <3>2. QED
      BY <1>0, <1>2, <1>3, <3>1, BackwardInduction
  <2> HIDE DEF Good
  <2>2. QED
    BY <2>1
<1>5. QED
  BY <1>1, <1>4

(* The escapes of a text are always units.                                 *)
LEMMA UnitsAlways == USpec => [](units \in Seq(CodeUnit))
<1>1. UInit => units \in Seq(CodeUnit)
  BY DEF UInit
<1>2. Unit \subseteq CodeUnit
  BY UnitAssumption
<1>3. units \in Seq(CodeUnit) /\ [UNext]_uvars => (units \in Seq(CodeUnit))'
  <2>1. SUFFICES ASSUME units \in Seq(CodeUnit), [UNext]_uvars
                 PROVE  units' \in Seq(CodeUnit)
    BY Zenon
  <2>2. ASSUME NEW u \in Unit, WriteEscape(u)
        PROVE  units' \in Seq(CodeUnit)
    BY <1>2, <2>1, <2>2, AppendProperties DEF WriteEscape
  <2>3. ASSUME NEW b \in Byte, GiveByte(b)
        PROVE  units' \in Seq(CodeUnit)
    BY <2>1, <2>3 DEF GiveByte
  <2>4. CASE Another
    BY <2>4 DEF Another
  <2>5. CASE UNCHANGED uvars
    BY <2>1, <2>5 DEF uvars
  <2>6. QED
    BY <2>1, <2>2, <2>3, <2>4, <2>5 DEF UNext
<1>4. QED
  BY <1>1, <1>3, PTL DEF USpec

(* The parser takes exactly the escapes whose halves of pairs are in       *)
(* pairs, however many there are, and what it makes of them is a string    *)
(* that is_valid_utf8 accepts.                                             *)
THEOREM EscapesValid == USpec => []EscapesAreValid
<1>1. units \in Seq(CodeUnit) => EscapesAreValid
  <2>1. ASSUME units \in Seq(CodeUnit)
        PROVE  EscapesAreValid
    <3>1. Paired(units, 1) <=>
            \A i \in DOMAIN units :
              /\ units[i] \in Lead => i < Len(units) /\ units[i + 1] \in Trail
              /\ units[i] \in Trail => i > 1 /\ units[i - 1] \in Lead
      <4>1. DOMAIN units = 1..Len(units)
        BY <2>1
      <4>2. QED
        BY <4>1, Zenon DEF Paired
    <3>2. /\ process_string(units).ok <=> Paired(units, 1)
          /\ process_string(units).ok => is_valid_utf8(process_string(units).bytes)
      BY <2>1, StringIsValid
    <3>3. QED
      BY <3>1, <3>2, Zenon DEF EscapesAreValid
  <2>2. QED
    BY <2>1
<1>2. QED
  BY <1>1, UnitsAlways, PTL
------------------------------------------------------------------------------
(* A program that uses one object uses it as ParsonObject says; likewise   *)
(* for arrays, documents and strings.                                      *)
LEMMA FourUses == PSpec => OSpec /\ ASpec /\ DSpec /\ USpec
<1>1. PInit => OInit /\ AInit /\ DInit /\ UInit
  BY DEF PInit
<1>2. [PNext]_pvars => [ONext]_ovars /\ [ANext]_avars /\ [DNext]_dvars /\ [UNext]_uvars
  <2>1. PNext => [ONext]_ovars /\ [ANext]_avars /\ [DNext]_dvars /\ [UNext]_uvars
    BY DEF PNext
  <2>2. UNCHANGED pvars => UNCHANGED ovars /\ UNCHANGED avars /\ UNCHANGED dvars /\ UNCHANGED uvars
    BY DEF pvars
  <2>3. QED
    BY <2>1, <2>2
<1>3. QED
  BY <1>1, <1>2, PTL DEF PSpec, OSpec, ASpec, DSpec, USpec

(* The types in all four uses: no more entries than there is room for, no  *)
(* value freed twice, no object with a name twice.                         *)
THEOREM ParsonTypeCorrect == PSpec => []PTypeOK
<1>1. OTypeOK /\ ATypeOK /\ DTypeOK => PTypeOK
  BY DEF PTypeOK
<1>2. QED
  BY <1>1, FourUses, ObjectTypeCorrect, ArrayTypeCorrect, DocumentType, PTL

(* Everything that is shown of the four uses holds of a program that has   *)
(* one of them: what was put into an object, an array or a string is kept  *)
(* and owned, and a document and its text correspond.                      *)
THEOREM LibraryCorrect ==
  PSpec => /\ [](DistinctNames /\ Ownership /\ ArrayOwnership)
           /\ [](ParsedIsWritten /\ RoundTrip)
           /\ [](DotsetTouchesItsPath /\ RemoveAndSetBack /\ ValidateAsPromised)
           /\ [](EscapesAreValid /\ ValidIsWritten)
           /\ ImplementsMap /\ KeepsIndexOrFillsHole
BY FourUses, NamesDistinct, ValuesOwned, ItemsOwned, ParsedSafe, RoundTripSafe,
   DotsetSafe, RemoveSafe, ValidateSafe, EscapesValid, AcceptedIsShortest,
   ObjectIsMap, IndexKept, PTL
===============================================================================
