-------------------------------- MODULE JsonMap --------------------------------
(***************************************************************************)
(* What the object functions of parson promise: an object is a map from    *)
(* names to values that owns its values.  A value is "free" (not           *)
(* allocated), "loose" (its maker's), "leaked" (nobody's) or "owned".      *)
(***************************************************************************)
CONSTANTS Name, Value, NoValue

VARIABLES map, heap

mapvars == <<map, heap>>

MapInit ==
  /\ map = [n \in Name |-> NoValue]
  /\ heap = [v \in Value |-> "free"]

(* n gets the value v, which is not in the object; the value it had, if    *)
(* any, is freed.                                                          *)
Put(n, v) ==
  /\ heap[v] \in {"free", "loose"}
  /\ map' = [map EXCEPT ![n] = v]
  /\ heap' = [w \in Value |-> IF w = v THEN "owned"
                              ELSE IF w = map[n] THEN "free" ELSE heap[w]]

Drop(n) ==
  /\ map[n] # NoValue
  /\ map' = [map EXCEPT ![n] = NoValue]
  /\ heap' = [heap EXCEPT ![map[n]] = "free"]

(* Everything the object owns is freed.                                    *)
DropAll ==
  /\ map' = [n \in Name |-> NoValue]
  /\ heap' = [v \in Value |-> IF heap[v] = "owned" THEN "free" ELSE heap[v]]

(* A value outside the object is allocated, freed or lost.                 *)
Elsewhere ==
  /\ UNCHANGED map
  /\ \E v \in Value, s \in {"free", "loose", "leaked"} :
       heap[v] # "owned" /\ heap' = [heap EXCEPT ![v] = s]

MapNext ==
  \/ \E n \in Name, v \in Value : Put(n, v)
  \/ \E n \in Name : Drop(n)
  \/ DropAll \/ Elsewhere

MapSpec == MapInit /\ [][MapNext]_mapvars
===============================================================================
