------------------------------ MODULE JsonDocument -----------------------------
(***************************************************************************)
(* A program that reads, changes and writes a JSON document with parson:   *)
(* a text is written token by token and parsed, an object is changed       *)
(* through names with dots, and its text is parsed again.                  *)
(*                                                                         *)
(* A path is the sequence of the names between the dots.  Any malloc of a  *)
(* call may fail.  That the values of the document are owned once is the   *)
(* subject of ParsonObject and ParsonArray.                                *)
(***************************************************************************)
EXTENDS JsonText

CONSTANTS Key,        \* names in objects
          Chunk,      \* the tokens that are written at once
          Leaf,       \* values that are set
          Schemas,    \* values that documents are validated against
          MaxPath,    \* names in a path
          MaxChunks, MaxTokens   \* bounds

ASSUME ChunkAssumption == Chunk \subseteq Text
ASSUME KeyAssumption == Key \subseteq STRING
ASSUME PathAssumption == MaxPath \in 1..MaxLevels-1
ASSUME LeafAssumption == Leaf \subseteq Proper[MaxLevels - MaxPath]
ASSUME SchemasAssumption == Schemas \subseteq Proper[MaxLevels]

VARIABLES text,   \* what was written since the last parse
          chunks, \* its length in chunks
          doc     \* the document, Error when there is none

dvars == <<text, chunks, doc>>

Dotted == Seq(Key) \ {<<>>}
Path == UNION {[1..n -> Key] : n \in 1..MaxPath}
------------------------------------------------------------------------------
(* Changing an object.  The results are the status and the object.         *)

(* json_object_set_value, where nothing fails.                             *)
Set(object, name, v) ==
  IF Get(object, name) = Error THEN Object(Append(object[2], <<name, v>>))
  ELSE Object([i \in DOMAIN object[2] |->
                 IF object[2][i][1] = name THEN <<name, v>> ELSE object[2][i]])

(* Variant: what bears the name of an intermediate object is replaced.     *)
SetBelowReplaces(dotset, object, path, v, granted) ==
  LET name == Head(path)
      child == IF Get(object, name)[1] = "object" THEN Get(object, name)
               ELSE Object(<<>>)
      below == dotset[Tail(path)][child][v][granted - 1]
  IN IF granted = 0 THEN <<FALSE, object>>
     ELSE IF Len(path) = 1 THEN <<TRUE, Set(object, name, v)>>
     ELSE <<below[1], Set(object, name, below[2])>>

(* json_object_dotset_value: at each name but the last the object of that  *)
(* name is entered, or made; the calls down to depth granted get what they *)
(* ask of malloc.  json_object_add refuses a name that is no object's.     *)
SetBelow(dotset, object, path, v, granted) ==
  LET name == Head(path)
      child == IF Get(object, name) = Error THEN Object(<<>>)
               ELSE Get(object, name)
      below == dotset[Tail(path)][child][v][granted - 1]
  IN IF granted = 0 THEN <<FALSE, object>>
     ELSE IF Len(path) = 1 THEN <<TRUE, Set(object, name, v)>>
     ELSE IF child[1] # "object" THEN <<FALSE, object>>
     ELSE <<below[1], Set(object, name, below[2])>>

DotSet[path \in Dotted] ==
  [object \in Tree |-> [v \in Tree |-> [granted \in Nat |->
     SetBelow(DotSet, object, path, v, granted)]]]

(* Variant: the entries behind the removed one are dropped as well.        *)
RemoveRest(object, name) ==
  IF Get(object, name) = Error THEN <<FALSE, object>>
  ELSE LET i == CHOOSE j \in DOMAIN object[2] : object[2][j][1] = name
       IN <<TRUE, Object(SubSeq(object[2], 1, i - 1))>>

(* json_object_remove: the last entry gets into the hole.                  *)
Remove(object, name) ==
  IF Get(object, name) = Error THEN <<FALSE, object>>
  ELSE LET last == Len(object[2])
           i == CHOOSE j \in 1..last : object[2][j][1] = name
       IN <<TRUE, Object(SubSeq([object[2] EXCEPT ![i] = object[2][last]],
                                1, last - 1))>>

DotRemove[path \in Dotted] ==
  [object \in Tree |->
     LET name == Head(path)
         child == Get(object, name)
         below == DotRemove[Tail(path)][child]
     IN IF Len(path) = 1 THEN Remove(object, name)
        ELSE IF child[1] # "object" THEN <<FALSE, object>>
        ELSE <<below[1], Set(object, name, below[2])>>]

DotGet[path \in Dotted] ==
  [object \in Tree \cup {Error} |->
     IF Len(path) = 1 THEN Get(object, Head(path))
     ELSE DotGet[Tail(path)][Get(object, Head(path))]]
------------------------------------------------------------------------------
Fits(v) == v \in Tree /\ Len(json_serialize_to_string(v)) <= MaxTokens

DInit == text = <<>> /\ chunks = 0 /\ doc = Error

Type(c) ==
  /\ doc = Error /\ chunks < MaxChunks
  /\ text' = text \o c /\ chunks' = chunks + 1
  /\ UNCHANGED doc

(* json_parse_string; on NULL the program has no document.                 *)
Parse ==
  /\ doc = Error /\ json_parse_string(text)[1] # Error
  /\ doc' = json_parse_string(text)[1]
  /\ text' = <<>> /\ chunks' = 0

(* The text is given up after a NULL, and another one is written.          *)
NotParsed ==
  /\ doc = Error /\ json_parse_string(text)[1] = Error /\ chunks = MaxChunks
  /\ text' = <<>> /\ chunks' = 0 /\ UNCHANGED doc

json_value_init_object ==
  /\ doc = Error /\ text = <<>>
  /\ doc' = Object(<<>>) /\ UNCHANGED <<text, chunks>>

Dotset(path, v, granted) ==
  /\ doc[1] = "object"
  /\ doc' = DotSet[path][doc][v][granted][2] /\ Fits(doc')
  /\ UNCHANGED <<text, chunks>>

Dotremove(path) ==
  /\ doc[1] = "object"
  /\ doc' = DotRemove[path][doc][2]
  /\ UNCHANGED <<text, chunks>>

(* The document is written and read again, as between a writer and a       *)
(* reader of a file.                                                       *)
Reload ==
  /\ doc # Error
  /\ LET r == json_parse_string(json_serialize_to_string(doc))
     IN doc' = IF r[1] = Error THEN doc ELSE r[1]
  /\ UNCHANGED <<text, chunks>>

DNext ==
  \/ \E c \in Chunk : Type(c)
  \/ Parse \/ NotParsed \/ json_value_init_object \/ Reload
  \/ \E path \in Path, v \in Leaf, granted \in 0..MaxPath : Dotset(path, v, granted)
  \/ \E path \in Path : /\ doc[1] = "object"
                        /\ Dotset(path, json_value_deep_copy[doc], MaxPath)
  \/ \E path \in Path : Dotremove(path)

DSpec == DInit /\ [][DNext]_dvars
------------------------------------------------------------------------------
Names(object) == {object[2][i][1] : i \in DOMAIN object[2]}

(* A document is a value whose objects have no name twice, whatever was    *)
(* parsed, set, removed and copied.                                        *)
DTypeOK ==
  /\ text \in Text
  /\ doc \in Proper[MaxLevels] \cup {Error}

(* A text without its white space, its numbers as they are printed.        *)
Plain[s \in Text] ==
  IF s = <<>> THEN <<>>
  ELSE (CASE s[1] = <<" ">> -> <<>>
          [] s[1][1] \in {"num", "float"} -> <<Printed(s[1][2])>>
          [] OTHER -> <<s[1]>>) \o Plain[Tail(s)]

(* The parser returns what the text says, a value whose own text the text  *)
(* begins with, white space and further decimals aside, and it stops       *)
(* behind it.  A minus without digits is the exception: it is read as a    *)
(* zero.                                                                   *)
ParsedIsWritten ==
  LET r == json_parse_string(text)
  IN (r[1] # Error /\ First(Skip[text]) # <<"-">>) =>
       Plain[text] = json_serialize_to_string(r[1]) \o Plain[r[2]]

(* What is printed of a number that was read from this token: six decimals *)
(* that are all zeros are lost.                                            *)
Settled(token) == IF token[1] = "float" THEN Printed(token[2]) ELSE token

(* Both texts of a document that is not nested too deeply are parsed back, *)
(* to a document that is equal, up to the six decimals, and whose text is  *)
(* the same, but that a number rounded to an integer (1.000000) is now     *)
(* written as one (1); whatever follows the text is left alone.  A deeper  *)
(* document is written all the same, and cannot be read.                   *)
RoundTrip ==
  doc # Error =>
    \A pretty \in BOOLEAN, c \in Chunk :
      LET written == Serialized[doc][0][pretty]
          r == json_parse_string(written \o c)
      IN IF doc \notin Nested[MaxNesting + 1] THEN r[1] = Error
         ELSE /\ r[1] # Error /\ r[2] = c
              /\ json_value_equals[r[1]][doc]
              /\ Serialized[r[1]][0][pretty] = [i \in DOMAIN written |-> Settled(written[i])]

IsBelow(path, q) == Len(q) <= Len(path) /\ SubSeq(path, 1, Len(q)) = q

(* After a dotset that succeeds the path leads to the value and every path *)
(* beside it to what it led to; one that fails, at whatever depth, changes *)
(* no value: it may leave empty objects on its path.                       *)
DotsetTouchesItsPath ==
  doc[1] = "object" =>
    \A path \in Path, v \in Leaf, granted \in 0..MaxPath :
      LET r == DotSet[path][doc][v][granted]
      IN /\ r[1] => DotGet[path][r[2]] = v
         /\ \A q \in Path :
              LET before == DotGet[q][doc]
                  after == DotGet[q][r[2]]
              IN \/ after = before
                 \/ /\ IsBelow(path, q) /\ before[1] \in {"error", "object"}
                    /\ after[1] = "object"
                 \/ r[1] /\ (IsBelow(path, q) \/ IsBelow(q, path))

(* An entry that is removed and set again leaves a document equal to what  *)
(* it was, although the removal moves the last entry of the object.        *)
RemoveAndSetBack ==
  doc[1] = "object" =>
    \A path \in Path :
      LET v == DotGet[path][doc]
          without == DotRemove[path][doc]
      IN IF v = Error THEN without = <<FALSE, doc>>
         ELSE /\ without[1] /\ DotGet[path][without[2]] = Error
              /\ json_value_equals[DotSet[path][without[2]][v][MaxPath][2]][doc]

(* parson.h on validation: the fields of the schema are there with         *)
(* matching types, only the first value of an array in the schema counts,  *)
(* {} and [] validate all objects and arrays, null validates everything.   *)
Matches[schema \in Tree] ==
  [v \in Tree |->
     \/ schema = <<"null">>
     \/ schema[1] = v[1] /\
          CASE v[1] = "object" ->
                 \A k \in Names(schema) :
                   k \in Names(v) /\ Matches[Get(schema, k)][Get(v, k)]
            [] v[1] = "array" ->
                 \A i \in DOMAIN v[2] :
                   schema[2] = <<>> \/ Matches[Head(schema[2])][v[2][i]]
            [] OTHER -> TRUE]

(* json_validate does what the header promises, and what it accepts it     *)
(* accepts with more entries too.                                          *)
ValidateAsPromised ==
  doc # Error =>
    \A schema \in Schemas :
      /\ json_validate[schema][doc] <=> Matches[schema][doc]
      /\ doc[1] = "object" /\ json_validate[schema][doc] =>
           \A k \in Key \ Names(doc), v \in Leaf :
             json_validate[schema][Set(doc, k, v)]
===============================================================================
