--------------------------------- MODULE Parson --------------------------------
(***************************************************************************)
(* parson.c in four uses that share no state: one object, one array, one   *)
(* document with its text, one string.  A behaviour is of one of them, so  *)
(* the other properties are those of the four modules.                     *)
(***************************************************************************)
EXTENDS ParsonObject, ParsonArray, JsonDocument, Utf8

VARIABLE use

pvars == <<use, ovars, avars, dvars, uvars>>

PInit ==
  /\ use \in {"object", "array", "document", "string"}
  /\ OInit /\ AInit /\ DInit /\ UInit

PNext ==
  /\ UNCHANGED use
  /\ \/ use = "object" /\ ONext /\ UNCHANGED <<avars, dvars, uvars>>
     \/ use = "array" /\ ANext /\ UNCHANGED <<ovars, dvars, uvars>>
     \/ use = "document" /\ DNext /\ UNCHANGED <<ovars, avars, uvars>>
     \/ use = "string" /\ UNext /\ UNCHANGED <<ovars, avars, dvars>>

PSpec == PInit /\ [][PNext]_pvars
------------------------------------------------------------------------------
(* Types in the four uses.  Of an object and an array: no more entries     *)
(* than they have room for, no more room than the maximum, and no value is *)
(* freed twice.  Of a document: no object in it has a name twice.          *)
PTypeOK == OTypeOK /\ ATypeOK /\ DTypeOK
===============================================================================
