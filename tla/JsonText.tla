-------------------------------- MODULE JsonText -------------------------------
(***************************************************************************)
(* Parsing, serializing, copying, comparing and validating in parson.c, as *)
(* functions of values and texts.                                          *)
(*                                                                         *)
(* A value is <<type>> or <<type, contents>>: the items of an array, the   *)
(* <<name, value>> pairs of an object in their order.  A number counts     *)
(* ten-millionths.  Error is the NULL a function returns or is passed.     *)
(*                                                                         *)
(* A text is a sequence of tokens: values that are no containers, <<"num", *)
(* n>> for a number in any form but one; <<"float", n>> for a number in    *)
(* that form, with six decimals, an integer too; punctuation, <<" ">> for  *)
(* white space, <<"-">> for a minus without digits, and <<"broken">> for   *)
(* what starts no value: a string that does not end or has a wrong escape, *)
(* a number with a leading zero, in hexadecimal or out of range, other     *)
(* characters.                                                             *)
(*                                                                         *)
(* A function of parson.c that calls itself is a recursive function here,  *)
(* and its body an operator that is passed the function it calls.          *)
(***************************************************************************)
EXTENDS Integers, Sequences

CONSTANTS MaxNesting,   \* MAX_NESTING, 2048
          MaxLevels,    \* bound: levels of a value that is not parsed
          IntMin,       \* INT_MIN and
          UIntMax       \* UINT_MAX

ASSUME NestingAssumption == MaxNesting \in Nat
ASSUME LevelsAssumption == MaxLevels \in Nat /\ MaxNesting < MaxLevels
ASSUME WidthAssumption == IntMin \in Int /\ UIntMax \in Int

Error == <<"error">>
Object(members) == <<"object", members>>
Array(items) == <<"array", items>>

Scalar == {<<"null">>} \cup ({"bool"} \X BOOLEAN) \cup ({"num"} \X Int)
            \cup ({"str"} \X STRING)

NoNameTwice(members) ==
  \A i, j \in DOMAIN members : members[i][1] = members[j][1] => i = j

(* What is made of values in V; and without a name twice in an object.     *)
ValuesOf(V) ==
  Scalar \cup ({"array"} \X Seq(V)) \cup ({"object"} \X Seq(STRING \X V))

ProperOf(V) ==
  Scalar \cup ({"array"} \X Seq(V))
         \cup ({"object"} \X {m \in Seq(STRING \X V) : NoNameTwice(m)})

(* Values of at most n levels.                                             *)
Nested[n \in Nat] == IF n = 0 THEN {} ELSE ValuesOf(Nested[n - 1])

Proper[n \in Nat] == IF n = 0 THEN {} ELSE ProperOf(Proper[n - 1])

Tree == Nested[MaxLevels]

Token ==
  Scalar \cup ({"float"} \X Int) \cup
  {<<"{">>, <<"}">>, <<"[">>, <<"]">>, <<",">>, <<":">>, <<" ">>, <<"-">>,
   <<"broken">>}

Text == Seq(Token)

(* json_object_get_value: Error also for what is no object.                *)
Get(v, name) ==
  IF v[1] = "object" /\ \E i \in DOMAIN v[2] : v[2][i][1] = name
  THEN v[2][CHOOSE i \in DOMAIN v[2] : v[2][i][1] = name][2]
  ELSE Error
------------------------------------------------------------------------------
(* Parsing.  The result is the value and the tokens that are left.         *)

Failure == <<Error, <<>>>>

(* The first token, <<"end">> at the end of the text.                      *)
First(s) == IF s = <<>> THEN <<"end">> ELSE s[1]

Skip[s \in Text] == IF First(s) = <<" ">> THEN Skip[Tail(s)] ELSE s

(* A container that is being parsed: the tokens ahead, the entries it has  *)
(* got, and whether it is still "open", or "closed" or "failed".           *)
Open(s, got) == [ahead |-> s, got |-> got, state |-> "open"]
Failed == [ahead |-> <<>>, got |-> <<>>, state |-> "failed"]

(* Behind an entry: a comma, or the bracket that ends the container.       *)
Proceed(s, got, bracket) ==
  LET rest == Skip[s]
  IN IF First(rest) = <<",">> THEN Open(Skip[Tail(rest)], got)
     ELSE IF First(rest) = <<bracket>>
     THEN [ahead |-> Tail(rest), got |-> got, state |-> "closed"]
     ELSE Failed

(* Variant: a comma may come before the bracket that ends the array.       *)
NextItemTrailing(parse, c) ==
  LET item == parse[c.ahead]
  IN IF c.state # "open" THEN c
     ELSE IF First(c.ahead) = <<"]">> THEN [c EXCEPT !.state = "closed"]
     ELSE IF item[1] = Error THEN Failed
     ELSE Proceed(item[2], Append(c.got, item[1]), "]")

(* The loop of parse_array_value, once.                                    *)
NextItem(parse, c) ==
  LET item == parse[c.ahead]
  IN IF c.state # "open" THEN c
     ELSE IF item[1] = Error THEN Failed
     ELSE Proceed(item[2], Append(c.got, item[1]), "]")

(* Variant: a name that is there already is taken again.                   *)
NextMemberUnchecked(parse, c) ==
  LET name == First(c.ahead)
      colon == Skip[Tail(c.ahead)]
      value == parse[Tail(colon)]
  IN IF c.state # "open" THEN c
     ELSE IF name[1] # "str" THEN Failed
     ELSE IF First(colon) # <<":">> THEN Failed
     ELSE IF value[1] = Error THEN Failed
     ELSE Proceed(value[2], Append(c.got, <<name[2], value[1]>>), "}")

(* The loop of parse_object_value, once; json_object_add refuses a name    *)
(* that is there already.                                                  *)
NextMember(parse, c) ==
  LET name == First(c.ahead)
      colon == Skip[Tail(c.ahead)]
      value == parse[Tail(colon)]
  IN IF c.state # "open" THEN c
     ELSE IF name[1] # "str" THEN Failed
     ELSE IF First(colon) # <<":">> THEN Failed
     ELSE IF value[1] = Error THEN Failed
     ELSE IF Get(Object(c.got), name[2]) # Error THEN Failed
     ELSE Proceed(value[2], Append(c.got, <<name[2], value[1]>>), "}")

(* The loop of a container of this type.  Every pass takes a token at     *)
(* least, so that it has ended after as many passes as there are tokens.   *)
Entries(type, parse, s) ==
  LET loop[n \in 0..Len(s)] ==
        IF n = 0 THEN Open(s, <<>>)
        ELSE IF type = "array" THEN NextItem(parse, loop[n - 1])
        ELSE NextMember(parse, loop[n - 1])
  IN loop[Len(s)]

parse_array_value(parse, s) ==
  LET r == Skip[Tail(s)]
      end == Entries("array", parse, r)
  IN IF First(r) = <<"]">> THEN <<Array(<<>>), Tail(r)>>
     ELSE IF end.state = "closed" THEN <<Array(end.got), end.ahead>>
     ELSE Failure

parse_object_value(parse, s) ==
  LET r == Skip[Tail(s)]
      end == Entries("object", parse, r)
  IN IF First(r) = <<"}">> THEN <<Object(<<>>), Tail(r)>>
     ELSE IF end.state = "closed" THEN <<Object(end.got), end.ahead>>
     ELSE Failure

(* strtod converts nothing of a minus without digits: zero, and no         *)
(* character is passed.                                                    *)
parse_number_value(s) ==
  IF First(s) = <<"-">> THEN << <<"num", 0>>, s >>
  ELSE << <<"num", s[1][2]>>, Tail(s) >>

(* The parameter parse is parse_value one level deeper.                    *)
ParseValue(parse, nesting, s) ==
  LET r == Skip[s]
      type == First(r)[1]
  IN IF nesting > MaxNesting THEN Failure
     ELSE CASE type = "{" -> parse_object_value(parse, r)
            [] type = "[" -> parse_array_value(parse, r)
            [] type \in {"num", "float", "-"} -> parse_number_value(r)
            [] type \in {"str", "bool", "null"} -> <<r[1], Tail(r)>>
            [] OTHER -> Failure

parse_value[nesting \in Nat] ==
  [s \in Text |-> ParseValue(parse_value[nesting + 1], nesting, s)]

json_parse_string(s) == parse_value[0][s]
------------------------------------------------------------------------------
(* Serializing.                                                            *)

Concat[parts \in Seq(Text)] ==
  IF parts = <<>> THEN <<>> ELSE Head(parts) \o Concat[Tail(parts)]

(* Variant: five decimals.                                                 *)
PrintedShorter(n) ==
  IF n % 10000000 = 0 /\ n \div 10000000 \in IntMin..UIntMax
  THEN <<"num", n>>
  ELSE <<"float", ((n + 50) \div 100) * 100>>

(* An integer within int or unsigned int is printed with %d or %u, other   *)
(* numbers with %f: six decimals.                                          *)
Printed(n) ==
  IF n % 10000000 = 0 /\ n \div 10000000 \in IntMin..UIntMax
  THEN <<"num", n>>
  ELSE <<"float", ((n + 5) \div 10) * 10>>

(* A line break and the indentation.                                       *)
Layout(pretty, level) ==
  IF pretty THEN [i \in 1..level+1 |-> <<" ">>] ELSE <<>>

(* An entry of an array or object, with its layout and comma.              *)
Entry(text, v, i, level, pretty) ==
  Layout(pretty, level + 1)
  \o (IF v[1] = "array" THEN text[v[2][i]][level + 1][pretty]
      ELSE << <<"str", v[2][i][1]>>, <<":">> >>
           \o (IF pretty THEN << <<" ">> >> ELSE <<>>)
           \o text[Get(v, v[2][i][1])][level + 1][pretty])
  \o (IF i < Len(v[2]) THEN << <<",">> >> ELSE <<>>)

(* json_serialize_to_buffer_r; text is the same function of the entries.   *)
Serialize(text, v, level, pretty) ==
  IF v[1] \in {"array", "object"}
  THEN << <<IF v[1] = "array" THEN "[" ELSE "{">> >>
       \o Concat[[i \in DOMAIN v[2] |-> Entry(text, v, i, level, pretty)]]
       \o (IF v[2] = <<>> THEN <<>> ELSE Layout(pretty, level))
       \o << <<IF v[1] = "array" THEN "]" ELSE "}">> >>
  ELSE IF v[1] = "num" THEN <<Printed(v[2])>> ELSE <<v>>

Serialized[v \in Tree] ==
  [level \in Nat |->
    [pretty \in BOOLEAN |-> Serialize(Serialized, v, level, pretty)]]

json_serialize_to_string(v) == Serialized[v][0][FALSE]
json_serialize_to_string_pretty(v) == Serialized[v][0][TRUE]
------------------------------------------------------------------------------
(* Copying, comparing, validating.                                         *)

json_value_deep_copy[v \in Tree] ==
  CASE v[1] = "array" ->
         Array([i \in DOMAIN v[2] |-> json_value_deep_copy[v[2][i]]])
    [] v[1] = "object" ->
         Object([i \in DOMAIN v[2] |->
                   <<v[2][i][1], json_value_deep_copy[Get(v, v[2][i][1])]>>])
    [] OTHER -> v

Close(m, n) == m - n \in -9..9   \* less than EPSILON, 0.000001, apart

Equal(equals, a, b) ==
  /\ a[1] = b[1]
  /\ CASE a[1] = "array" ->
            /\ Len(a[2]) = Len(b[2])
            /\ \A i \in DOMAIN a[2] : equals[a[2][i]][b[2][i]]
       [] a[1] = "object" ->
            /\ Len(a[2]) = Len(b[2])
            /\ \A i \in DOMAIN a[2] :
                 equals[Get(a, a[2][i][1])][Get(b, a[2][i][1])]
       [] a[1] = "num" -> Close(a[2], b[2])
       [] OTHER -> a = b

json_value_equals[a \in Tree] ==
  [b \in Tree \cup {Error} |-> Equal(json_value_equals, a, b)]

(* Variant: only the number of the entries and the types are compared.     *)
ValidateCount(validate, schema, v) ==
  \/ schema[1] = "null"
  \/ /\ schema[1] = v[1]
     /\ schema[1] = "object" => Len(v[2]) >= Len(schema[2])

Validate(validate, schema, v) ==
  /\ v # Error
  /\ \/ schema[1] = "null"
     \/ schema[1] = v[1] /\ schema[1] \notin {"array", "object"}
     \/ /\ schema[1] = "array" /\ v[1] = "array"
        /\ schema[2] # <<>> =>
             \A i \in DOMAIN v[2] : validate[schema[2][1]][v[2][i]]
     \/ /\ schema[1] = "object" /\ v[1] = "object"
        /\ Len(v[2]) >= Len(schema[2])
        /\ \A i \in DOMAIN schema[2] :
             validate[Get(schema, schema[2][i][1])][Get(v, schema[2][i][1])]

json_validate[schema \in Tree] ==
  [v \in Tree \cup {Error} |-> Validate(json_validate, schema, v)]
===============================================================================
