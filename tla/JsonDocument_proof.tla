-------------------------- MODULE JsonDocument_proof ---------------------------
(***************************************************************************)
(* The document of JsonDocument, for any names, texts, values, schemas and *)
(* paths, and for any maximum of the nesting and of the levels.            *)
(*                                                                         *)
(* DTypeOK is inductive: that no object has a name twice is why a name     *)
(* leads to one value, whatever json_object_remove moves.  What calls      *)
(* itself in parson.c is a recursive function in the model; Recursion      *)
(* gives its existence, and each is then known by its equation (NestedIs,  *)
(* CopyIs, ..., ParseIs).  What is shown of values, paths and texts is     *)
(* shown by induction over their levels and lengths (TreeInduction,        *)
(* PathInduction, TextInduction).                                          *)
(***************************************************************************)
EXTENDS JsonDocument, SequenceTheorems, FiniteSetTheorems, FunctionTheorems, TLAPS

(* The recursive functions exist. *)

Only(n) == {n}
NestedStep(f, n) == IF n = 0 THEN {} ELSE ValuesOf(f[n - 1])
ProperStep(f, n) == IF n = 0 THEN {} ELSE ProperOf(f[n - 1])

NestedF == INSTANCE Recursion WITH S <- Nat, Step <- NestedStep, Level <- Only
ProperF == INSTANCE Recursion WITH S <- Nat, Step <- ProperStep, Level <- Only

(* The values of at most so many levels exist, level by level.             *)
LEMMA NestedIs ==
  /\ Nested[0] = {}
  /\ \A n \in Nat : Nested[n + 1] = ValuesOf(Nested[n])
<1>1. NestedF!EveryArgument
  BY DEF NestedF!EveryArgument, Only
<1>2. NestedF!LowerLevels
  <2> SUFFICES ASSUME NEW f, NEW g, NEW n \in Nat, NEW x \in Nat, x \in Only(n),
                      \A m \in 0..n-1 : \A y \in Nat : y \in Only(m) => f[y] = g[y]
               PROVE  NestedStep(f, x) = NestedStep(g, x)
    BY DEF NestedF!LowerLevels
  <2>1. n # 0 => f[n - 1] = g[n - 1]
    BY DEF Only
  <2>2. QED
    BY <2>1 DEF Only, NestedStep
<1>3. \E f : f = [n \in Nat |-> NestedStep(f, n)]
  BY <1>1, <1>2, NestedF!FunctionExists
<1>4. Nested = [n \in Nat |-> NestedStep(Nested, n)]
  BY <1>3, Zenon DEF Nested, NestedStep
<1>5. ASSUME NEW n \in Nat
      PROVE  Nested[n + 1] = ValuesOf(Nested[n])
  <2>1. n + 1 \in Nat /\ n + 1 # 0 /\ n + 1 - 1 = n
    OBVIOUS
  <2>2. Nested[n + 1] = NestedStep(Nested, n + 1)
    BY <1>4, <2>1
  <2>3. QED
    BY <2>1, <2>2 DEF NestedStep
<1>6. QED
  BY <1>4, <1>5 DEF NestedStep

(* So do those without a name twice.                                       *)
LEMMA ProperIs ==
  /\ Proper[0] = {}
  /\ \A n \in Nat : Proper[n + 1] = ProperOf(Proper[n])
<1>1. ProperF!EveryArgument
  BY DEF ProperF!EveryArgument, Only
<1>2. ProperF!LowerLevels
  <2> SUFFICES ASSUME NEW f, NEW g, NEW n \in Nat, NEW x \in Nat, x \in Only(n),
                      \A m \in 0..n-1 : \A y \in Nat : y \in Only(m) => f[y] = g[y]
               PROVE  ProperStep(f, x) = ProperStep(g, x)
    BY DEF ProperF!LowerLevels
  <2>1. n # 0 => f[n - 1] = g[n - 1]
    BY DEF Only
  <2>2. QED
    BY <2>1 DEF Only, ProperStep
<1>3. \E f : f = [n \in Nat |-> ProperStep(f, n)]
  BY <1>1, <1>2, ProperF!FunctionExists
<1>4. Proper = [n \in Nat |-> ProperStep(Proper, n)]
  BY <1>3, Zenon DEF Proper, ProperStep
<1>5. ASSUME NEW n \in Nat
      PROVE  Proper[n + 1] = ProperOf(Proper[n])
  <2>1. n + 1 \in Nat /\ n + 1 # 0 /\ n + 1 - 1 = n
    OBVIOUS
  <2>2. Proper[n + 1] = ProperStep(Proper, n + 1)
    BY <1>4, <2>1
  <2>3. QED
    BY <2>1, <2>2 DEF ProperStep
<1>6. QED
  BY <1>4, <1>5 DEF ProperStep

(* Types of values. *)

(* Arrays and objects are told apart by their type, and from the error.    *)
LEMMA ArrayAndObject ==
  \A c : /\ Array(c)[1] = "array" /\ Array(c)[2] = c
         /\ Object(c)[1] = "object" /\ Object(c)[2] = c
         /\ Array(c) # Error /\ Object(c) # Error
BY DEF Array, Object, Error

(* The types of the values that are no containers.                         *)
LEMMA ScalarType ==
  \A v \in Scalar : v[1] \in {"null", "bool", "num", "str"} /\ v # Error
BY DEF Scalar, Error

(* A value is no container, an array of values or an object of values.     *)
LEMMA Kinds ==
  ASSUME NEW V, NEW v
  PROVE  /\ v \in ValuesOf(V) =>
              \/ v \in Scalar
              \/ v[1] = "array" /\ v = Array(v[2]) /\ v[2] \in Seq(V)
              \/ v[1] = "object" /\ v = Object(v[2]) /\ v[2] \in Seq(STRING \X V)
         /\ v \in ProperOf(V) =>
              \/ v \in Scalar
              \/ v[1] = "array" /\ v = Array(v[2]) /\ v[2] \in Seq(V)
              \/ /\ v[1] = "object" /\ v = Object(v[2])
                 /\ v[2] \in Seq(STRING \X V) /\ NoNameTwice(v[2])
<1>1. v \in {"array"} \X Seq(V) => v[1] = "array" /\ v = Array(v[2]) /\ v[2] \in Seq(V)
  BY DEF Array
<1>2. v \in {"object"} \X Seq(STRING \X V) =>
        v[1] = "object" /\ v = Object(v[2]) /\ v[2] \in Seq(STRING \X V)
  BY DEF Object
<1>3. v \in {"object"} \X {m \in Seq(STRING \X V) : NoNameTwice(m)} =>
        v[1] = "object" /\ v = Object(v[2]) /\ v[2] \in Seq(STRING \X V) /\ NoNameTwice(v[2])
  BY DEF Object
<1>4. QED
  BY <1>1, <1>2, <1>3, Zenon DEF ValuesOf, ProperOf

(* What the parser puts together of values is a value.                     *)
LEMMA Made ==
  ASSUME NEW V
  PROVE  /\ Scalar \subseteq ValuesOf(V) /\ Scalar \subseteq ProperOf(V)
         /\ \A c \in Seq(V) : Array(c) \in ValuesOf(V) /\ Array(c) \in ProperOf(V)
         /\ \A c \in Seq(STRING \X V) :
              Object(c) \in ValuesOf(V) /\ (NoNameTwice(c) => Object(c) \in ProperOf(V))
<1>1. \A c \in Seq(V) : Array(c) \in {"array"} \X Seq(V)
  BY DEF Array
<1>2. \A c \in Seq(STRING \X V) : Object(c) \in {"object"} \X Seq(STRING \X V)
  BY DEF Object
<1>3. \A c \in Seq(STRING \X V) : NoNameTwice(c) =>
         Object(c) \in {"object"} \X {m \in Seq(STRING \X V) : NoNameTwice(m)}
  BY DEF Object
<1>4. QED
  BY <1>1, <1>2, <1>3, Zenon DEF ValuesOf, ProperOf

(* Of more values more values can be made.                                 *)
LEMMA MoreValues ==
  ASSUME NEW V, NEW W, V \subseteq W
  PROVE  /\ ValuesOf(V) \subseteq ValuesOf(W)
         /\ ProperOf(V) \subseteq ProperOf(W)
         /\ ProperOf(V) \subseteq ValuesOf(W)
<1>1. \A c \in Seq(V) : c \in Seq(W)
  BY SeqMonotonic
<1>2. \A c \in Seq(STRING \X V) : c \in Seq(STRING \X W)
  <2>1. STRING \X V \subseteq STRING \X W
    OBVIOUS
  <2>2. QED
    BY <2>1, SeqMonotonic
<1>3. ASSUME NEW v \in ValuesOf(V)
      PROVE  v \in ValuesOf(W)
  <2>1. CASE v \in Scalar
    BY <2>1, Made
  <2>2. CASE v = Array(v[2]) /\ v[2] \in Seq(V)
    BY <1>1, <2>2, Made
  <2>3. CASE v = Object(v[2]) /\ v[2] \in Seq(STRING \X V)
    BY <1>2, <2>3, Made
  <2>4. QED
    BY <2>1, <2>2, <2>3, Kinds
<1>4. ASSUME NEW v \in ProperOf(V)
      PROVE  v \in ProperOf(W) /\ v \in ValuesOf(W)
  <2>1. CASE v \in Scalar
    BY <2>1, Made
  <2>2. CASE v = Array(v[2]) /\ v[2] \in Seq(V)
    BY <1>1, <2>2, Made
  <2>3. CASE v = Object(v[2]) /\ v[2] \in Seq(STRING \X V) /\ NoNameTwice(v[2])
    BY <1>2, <2>3, Made
  <2>4. QED
    BY <2>1, <2>2, <2>3, Kinds
<1>5. QED
  BY <1>3, <1>4

(* A value with proper entries and entries of few levels is a proper one   *)
(* of few levels.                                                          *)
LEMMA BothValues ==
  ASSUME NEW V, NEW W
  PROVE  ProperOf(V) \cap ValuesOf(W) \subseteq ProperOf(V \cap W)
<1> SUFFICES ASSUME NEW v \in ProperOf(V), v \in ValuesOf(W)
             PROVE  v \in ProperOf(V \cap W)
  OBVIOUS
<1>1. CASE v \in Scalar
  BY <1>1, Made
<1>2. CASE v[1] = "array"
  <2>1. v = Array(v[2]) /\ v[2] \in Seq(V) /\ v[2] \in Seq(W)
    BY <1>2, Kinds, ScalarType
  <2>2. \A i \in 1..Len(v[2]) : v[2][i] \in V \cap W
    BY <2>1
  <2>3. v[2] \in Seq(V \cap W)
    BY <2>1, <2>2
  <2>4. QED
    BY <2>1, <2>3, Made
<1>3. CASE v[1] = "object"
  <2>1. /\ v = Object(v[2]) /\ v[2] \in Seq(STRING \X V)
        /\ v[2] \in Seq(STRING \X W) /\ NoNameTwice(v[2])
    BY <1>3, Kinds, ScalarType
  <2>2. \A i \in 1..Len(v[2]) : v[2][i] \in STRING \X (V \cap W)
    BY <2>1
  <2>3. v[2] \in Seq(STRING \X (V \cap W))
    BY <2>1, <2>2
  <2>4. QED
    BY <2>1, <2>3, Made
<1>4. QED
  BY <1>1, <1>2, <1>3, Kinds

(* The levels from above.                                                  *)
LEMMA LevelBelow ==
  \A n \in Nat : n # 0 =>
    /\ n - 1 \in Nat
    /\ Nested[n] = ValuesOf(Nested[n - 1])
    /\ Proper[n] = ProperOf(Proper[n - 1])
<1> SUFFICES ASSUME NEW n \in Nat, n # 0
             PROVE  /\ n - 1 \in Nat
                    /\ Nested[n] = ValuesOf(Nested[n - 1])
                    /\ Proper[n] = ProperOf(Proper[n - 1])
  OBVIOUS
<1>1. n - 1 \in Nat /\ n - 1 + 1 = n
  OBVIOUS
<1>2. Nested[n - 1 + 1] = ValuesOf(Nested[n - 1]) /\ Proper[n - 1 + 1] = ProperOf(Proper[n - 1])
  BY <1>1, NestedIs, ProperIs
<1>3. QED
  BY <1>1, <1>2

(* The error is no value.                                                  *)
LEMMA NoErrorValue ==
  \A n \in Nat : Error \notin Nested[n] /\ Error \notin Proper[n]
<1> TAKE n \in Nat
<1>1. CASE n = 0
  BY <1>1, NestedIs, ProperIs
<1>2. CASE n # 0
  <2>1. Nested[n] = ValuesOf(Nested[n - 1]) /\ Proper[n] = ProperOf(Proper[n - 1])
    BY <1>2, LevelBelow
  <2>2. Error[1] # "array" /\ Error[1] # "object" /\ Error \notin Scalar
    BY ScalarType DEF Error
  <2>3. \A V : Error \notin ValuesOf(V) /\ Error \notin ProperOf(V)
    BY <2>2, Kinds
  <2>4. QED
    BY <2>1, <2>3
<1>3. QED
  BY <1>1, <1>2

(* A value of some levels is one of more levels.                           *)
LEMMA NextLevel ==
  \A n \in Nat : Nested[n] \subseteq Nested[n + 1] /\ Proper[n] \subseteq Proper[n + 1]
                 /\ Proper[n] \subseteq Nested[n]
<1> DEFINE A == {n \in Nat : Nested[n] \subseteq Nested[n + 1] /\ Proper[n] \subseteq Proper[n + 1]
                             /\ Proper[n] \subseteq Nested[n]}
<1>1. 0 \in A
  BY NestedIs, ProperIs
<1>2. ASSUME NEW n \in A
      PROVE  n + 1 \in A
  <2>1. /\ n + 1 \in Nat /\ Nested[n] \subseteq Nested[n + 1]
        /\ Proper[n] \subseteq Proper[n + 1] /\ Proper[n] \subseteq Nested[n]
    OBVIOUS
  <2>2. /\ Nested[n + 1] = ValuesOf(Nested[n]) /\ Nested[n + 1 + 1] = ValuesOf(Nested[n + 1])
        /\ Proper[n + 1] = ProperOf(Proper[n]) /\ Proper[n + 1 + 1] = ProperOf(Proper[n + 1])
    BY <2>1, NestedIs, ProperIs
  <2>3. ValuesOf(Nested[n]) \subseteq ValuesOf(Nested[n + 1])
    BY <2>1, MoreValues
  <2>4. ProperOf(Proper[n]) \subseteq ProperOf(Proper[n + 1])
    BY <2>1, MoreValues
  <2>5. ProperOf(Proper[n]) \subseteq ValuesOf(Nested[n])
    BY <2>1, MoreValues, Zenon
  <2>6. QED
    BY <2>1, <2>2, <2>3, <2>4, <2>5
<1>3. A = Nat
  <2> HIDE DEF A
  <2>1. A \in SUBSET Nat
    BY DEF A
  <2>2. QED
    BY <1>1, <1>2, <2>1, NestedF!Upward
<1>4. QED
  BY <1>3

(* The same for any two levels.                                            *)
LEMMA Levels ==
  \A m, n \in Nat : m <= n => Nested[m] \subseteq Nested[n] /\ Proper[m] \subseteq Proper[n]
<1> SUFFICES ASSUME NEW m \in Nat
             PROVE  \A n \in Nat : m <= n => Nested[m] \subseteq Nested[n] /\ Proper[m] \subseteq Proper[n]
  OBVIOUS
<1> DEFINE B == {n \in Nat : m <= n => Nested[m] \subseteq Nested[n] /\ Proper[m] \subseteq Proper[n]}
<1>1. 0 \in B
  OBVIOUS
<1>2. ASSUME NEW n \in B
      PROVE  n + 1 \in B
  <2>1. n \in Nat /\ Nested[n] \subseteq Nested[n + 1] /\ Proper[n] \subseteq Proper[n + 1]
    BY NextLevel
  <2>2. m <= n + 1 => m <= n \/ m = n + 1
    BY <2>1
  <2>3. QED
    BY <2>1, <2>2
<1>3. B = Nat
  <2> HIDE DEF B
  <2>1. B \in SUBSET Nat
    BY DEF B
  <2>2. QED
    BY <1>1, <1>2, <2>1, NestedF!Upward
<1>4. QED
  BY <1>3

(* Proper values are values.                                               *)
LEMMA ProperIsNested ==
  \A n \in Nat : Proper[n] \subseteq Nested[n]
BY NextLevel

(* How many levels a proper value has does not depend on its being proper. *)
LEMMA ProperOfLevels ==
  \A m, n \in Nat : Proper[m] \cap Nested[n] \subseteq Proper[n]
<1> DEFINE A == {n \in Nat : \A m \in Nat : Proper[m] \cap Nested[n] \subseteq Proper[n]}
<1>1. 0 \in A
  BY NestedIs
<1>2. ASSUME NEW n \in A
      PROVE  n + 1 \in A
  <2> SUFFICES ASSUME NEW m \in Nat, m # 0
               PROVE  Proper[m] \cap Nested[n + 1] \subseteq Proper[n + 1]
    BY ProperIs
  <2>1. m - 1 \in Nat /\ Proper[m] = ProperOf(Proper[m - 1])
    BY LevelBelow
  <2>2. Nested[n + 1] = ValuesOf(Nested[n]) /\ Proper[n + 1] = ProperOf(Proper[n])
    BY NestedIs, ProperIs
  <2>3. Proper[m - 1] \cap Nested[n] \subseteq Proper[n]
    BY <2>1
  <2>4. ProperOf(Proper[m - 1] \cap Nested[n]) \subseteq ProperOf(Proper[n])
    BY <2>3, MoreValues
  <2>5. QED
    BY <2>1, <2>2, <2>4, BothValues
<1>3. A = Nat
  <2> HIDE DEF A
  <2>1. A \in SUBSET Nat
    BY DEF A
  <2>2. QED
    BY <1>1, <1>2, <2>1, NestedF!Upward
<1>4. QED
  BY <1>3

(* The items of an array are one level lower.                              *)
LEMMA ArrayValue ==
  ASSUME NEW n \in Nat, NEW v, v[1] = "array"
  PROVE  /\ v \in Proper[n] => v[2] \in Seq(Proper[n - 1]) /\ n - 1 \in Nat /\ v = Array(v[2])
         /\ v \in Nested[n] => v[2] \in Seq(Nested[n - 1]) /\ n - 1 \in Nat /\ v = Array(v[2])
<1>1. v \notin Scalar
  BY ScalarType
<1>2. CASE n = 0
  BY <1>2, NestedIs, ProperIs
<1>3. CASE n # 0
  <2>1. n - 1 \in Nat /\ Nested[n] = ValuesOf(Nested[n - 1]) /\ Proper[n] = ProperOf(Proper[n - 1])
    BY <1>3, LevelBelow
  <2> DEFINE V == Nested[n - 1]
             P == Proper[n - 1]
  <2>2. Nested[n] = ValuesOf(V) /\ Proper[n] = ProperOf(P)
    BY <2>1
  <2> HIDE DEF V, P
  <2>3. v \in ValuesOf(V) => v = Array(v[2]) /\ v[2] \in Seq(V)
    BY <1>1, Kinds
  <2>4. v \in ProperOf(P) => v = Array(v[2]) /\ v[2] \in Seq(P)
    BY <1>1, Kinds
  <2>5. QED
    BY <2>1, <2>2, <2>3, <2>4 DEF V, P
<1>4. QED
  BY <1>2, <1>3

(* The values of an object are one level lower.                            *)
LEMMA ObjectValue ==
  ASSUME NEW n \in Nat, NEW v, v[1] = "object"
  PROVE  /\ v \in Proper[n] => /\ v[2] \in Seq(STRING \X Proper[n - 1]) /\ NoNameTwice(v[2])
                               /\ n - 1 \in Nat /\ v = Object(v[2])
         /\ v \in Nested[n] => v[2] \in Seq(STRING \X Nested[n - 1]) /\ n - 1 \in Nat /\ v = Object(v[2])
<1>1. v \notin Scalar
  BY ScalarType
<1>2. CASE n = 0
  BY <1>2, NestedIs, ProperIs
<1>3. CASE n # 0
  <2>1. n - 1 \in Nat /\ Nested[n] = ValuesOf(Nested[n - 1]) /\ Proper[n] = ProperOf(Proper[n - 1])
    BY <1>3, LevelBelow
  <2> DEFINE V == Nested[n - 1]
             P == Proper[n - 1]
  <2>2. Nested[n] = ValuesOf(V) /\ Proper[n] = ProperOf(P)
    BY <2>1
  <2> HIDE DEF V, P
  <2>3. v \in ValuesOf(V) => v = Object(v[2]) /\ v[2] \in Seq(STRING \X V)
    BY <1>1, Kinds
  <2>4. v \in ProperOf(P) => v = Object(v[2]) /\ v[2] \in Seq(STRING \X P) /\ NoNameTwice(v[2])
    BY <1>1, Kinds
  <2>5. QED
    BY <2>1, <2>2, <2>3, <2>4 DEF V, P
<1>4. QED
  BY <1>2, <1>3

(* A value is an array, an object or no container.                         *)
LEMMA ThreeKinds ==
  \A n \in Nat : \A v \in Nested[n] :
    v[1] = "array" \/ v[1] = "object" \/ v \in Scalar
<1> TAKE n \in Nat
<1>1. n # 0 => \A v \in Nested[n] : v[1] = "array" \/ v[1] = "object" \/ v \in Scalar
  <2> SUFFICES ASSUME n # 0, NEW v \in Nested[n]
               PROVE  v[1] = "array" \/ v[1] = "object" \/ v \in Scalar
    OBVIOUS
  <2>1. v \in ValuesOf(Nested[n - 1])
    BY LevelBelow
  <2>2. QED
    BY <2>1, Kinds
<1>2. QED
  BY <1>1, NestedIs

(* Objects: what json_object_get_value finds, sets and removes. *)

Named(members, name) == \E i \in DOMAIN members : members[i][1] = name

(* json_object_get_value finds the value of a name that is there, and no   *)
(* other.                                                                  *)
LEMMA GetIs ==
  ASSUME NEW members, NEW name
  PROVE  /\ ~Named(members, name) => Get(Object(members), name) = Error
         /\ NoNameTwice(members) =>
              \A i \in DOMAIN members : members[i][1] = name =>
                Get(Object(members), name) = members[i][2]
         /\ Named(members, name) =>
              \E i \in DOMAIN members :
                 members[i][1] = name /\ Get(Object(members), name) = members[i][2]
<1> DEFINE v == Object(members)
           i0 == CHOOSE i \in DOMAIN members : members[i][1] = name
<1>1. v[1] = "object" /\ v[2] = members
  BY ArrayAndObject
<1> HIDE DEF v
<1>2. ~Named(members, name) => Get(v, name) = Error
  BY <1>1 DEF Get, Named
<1>3. Named(members, name) => i0 \in DOMAIN members /\ members[i0][1] = name /\ Get(v, name) = members[i0][2]
  BY <1>1 DEF Get, Named
<1> HIDE DEF i0
<1>4. ASSUME NoNameTwice(members), NEW i \in DOMAIN members, members[i][1] = name
      PROVE  Get(v, name) = members[i][2]
  <2>1. Named(members, name)
    BY <1>4 DEF Named
  <2>2. i0 = i
    BY <1>3, <1>4, <2>1 DEF NoNameTwice
  <2>3. QED
    BY <1>3, <2>1, <2>2
<1>5. QED
  BY <1>2, <1>3, <1>4 DEF v

(* Without a name twice it finds each entry by its name.                   *)
LEMMA GetEntry ==
  ASSUME NEW members, NoNameTwice(members)
  PROVE  \A i \in DOMAIN members : Get(Object(members), members[i][1]) = members[i][2]
BY GetIs

(* In what is no object it finds nothing.                                  *)
LEMMA GetNone ==
  ASSUME NEW v, v[1] # "object", NEW name
  PROVE  Get(v, name) = Error
BY DEF Get

(* What Get returns, of an object whose values are in V *)
LEMMA GetValue ==
  ASSUME NEW V, Error \notin V, NEW members \in Seq(STRING \X V), NEW name
  PROVE  /\ Get(Object(members), name) \in V \cup {Error}
         /\ Get(Object(members), name) = Error <=> ~Named(members, name)
<1>1. \A i \in DOMAIN members : members[i][2] \in V
  BY LenProperties
<1>2. QED
  BY <1>1, GetIs

(* What it finds is one level lower.                                       *)
LEMMA GetLevel ==
  ASSUME NEW n \in Nat, NEW v, NEW name, Get(v, name) # Error
  PROVE  /\ v[1] = "object"
         /\ v \in Nested[n] => n - 1 \in Nat /\ Get(v, name) \in Nested[n - 1]
         /\ v \in Proper[n] => n - 1 \in Nat /\ Get(v, name) \in Proper[n - 1]
<1>1. v[1] = "object"
  BY GetNone
<1>2. ASSUME v \in Nested[n]
      PROVE  n - 1 \in Nat /\ Get(v, name) \in Nested[n - 1]
  <2>1. v[2] \in Seq(STRING \X Nested[n - 1]) /\ n - 1 \in Nat /\ v = Object(v[2])
    BY <1>1, <1>2, ObjectValue
  <2>2. Error \notin Nested[n - 1]
    BY <2>1, NoErrorValue
  <2>3. Get(Object(v[2]), name) \in Nested[n - 1] \cup {Error}
    BY <2>1, <2>2, GetValue
  <2>4. QED
    BY <2>1, <2>3
<1>3. ASSUME v \in Proper[n]
      PROVE  n - 1 \in Nat /\ Get(v, name) \in Proper[n - 1]
  <2>1. v[2] \in Seq(STRING \X Proper[n - 1]) /\ n - 1 \in Nat /\ v = Object(v[2])
    BY <1>1, <1>3, ObjectValue
  <2>2. Error \notin Proper[n - 1]
    BY <2>1, NoErrorValue
  <2>3. Get(Object(v[2]), name) \in Proper[n - 1] \cup {Error}
    BY <2>1, <2>2, GetValue
  <2>4. QED
    BY <2>1, <2>3
<1>4. QED
  BY <1>1, <1>2, <1>3

(* A pair is made of its two parts.                                        *)
LEMMA Pairs ==
  ASSUME NEW A, NEW B, NEW p \in A \X B
  PROVE  p[1] \in A /\ p[2] \in B /\ p = <<p[1], p[2]>>
OBVIOUS

(* json_object_set_value changes one entry, or adds it at the end; no name *)
(* gets there twice.                                                       *)
LEMMA SetIs ==
  ASSUME NEW V, Error \notin V, NEW members \in Seq(STRING \X V), NoNameTwice(members),
         NEW name, name \in STRING, NEW w \in V
  PROVE  \E after \in Seq(STRING \X V) :
           /\ Set(Object(members), name, w) = Object(after)
           /\ NoNameTwice(after)
           /\ Len(after) = IF Named(members, name) THEN Len(members) ELSE Len(members) + 1
           /\ Get(Object(after), name) = w
           /\ \A other : other # name => Get(Object(after), other) = Get(Object(members), other)
           /\ w = Get(Object(members), name) => after = members
<1> DEFINE o == Object(members)
<1>1. Len(members) \in Nat /\ DOMAIN members = 1..Len(members)
      /\ \A i \in 1..Len(members) : members[i] \in STRING \X V
  BY LenProperties
<1>2. CASE ~Named(members, name)
  <2> DEFINE after == Append(members, <<name, w>>)
  <2>1. /\ after \in Seq(STRING \X V) /\ Len(after) = Len(members) + 1
        /\ DOMAIN after = 1..Len(members) + 1 /\ after[Len(members) + 1] = <<name, w>>
        /\ \A i \in 1..Len(members) : after[i] = members[i]
        /\ after[Len(members) + 1][1] = name /\ after[Len(members) + 1][2] = w
    <3>1. <<name, w>> \in STRING \X V /\ <<name, w>>[1] = name /\ <<name, w>>[2] = w
      OBVIOUS
    <3> DEFINE e == <<name, w>>
    <3>2. e \in STRING \X V
      BY <3>1
    <3> HIDE DEF e
    <3>3. /\ Append(members, e) \in Seq(STRING \X V) /\ Len(Append(members, e)) = Len(members) + 1
          /\ Append(members, e)[Len(members) + 1] = e
          /\ \A i \in 1..Len(members) : Append(members, e)[i] = members[i]
      BY <3>2, AppendProperties
    <3>4. DOMAIN Append(members, e) = 1..Len(members) + 1
      BY <3>3, LenProperties
    <3>5. QED
      BY <3>1, <3>3, <3>4 DEF e
  <2>2. Set(o, name, w) = Object(after)
    BY <1>2, GetIs, ArrayAndObject DEF Set
  <2> HIDE DEF after
  <2>3. \A i \in DOMAIN after : i = Len(members) + 1 \/ i \in 1..Len(members)
    BY <1>1, <2>1
  <2>4. NoNameTwice(after)
    BY <1>1, <1>2, <2>1, <2>3 DEF NoNameTwice, Named
  <2>5. Get(Object(after), name) = w
    <3>1. Len(members) + 1 \in DOMAIN after
      BY <1>1, <2>1
    <3>2. \A i \in DOMAIN after : after[i][1] = name => Get(Object(after), name) = after[i][2]
      BY <2>4, GetIs
    <3>3. QED
      BY <2>1, <3>1, <3>2
  <2>6. ASSUME NEW other, other # name
        PROVE  Get(Object(after), other) = Get(o, other)
    <3>1. CASE ~Named(members, other)
      <4>1. ~Named(after, other)
        <5> SUFFICES ASSUME NEW i \in DOMAIN after, after[i][1] = other
                     PROVE  FALSE
          BY DEF Named
        <5>1. i \in DOMAIN members /\ members[i][1] = other
          BY <1>1, <2>1, <2>3, <2>6
        <5>2. QED
          BY <3>1, <5>1 DEF Named
      <4>2. QED
        BY <3>1, <4>1, GetIs
    <3>2. CASE Named(members, other)
      <4>1. PICK i \in DOMAIN members : members[i][1] = other
        BY <3>2 DEF Named
      <4>2. i \in DOMAIN after /\ after[i] = members[i]
        BY <1>1, <2>1
      <4>3. QED
        BY <2>4, <4>1, <4>2, GetIs
    <3>3. QED
      BY <3>1, <3>2
  <2>7. w # Get(o, name)
    BY <1>2, GetIs
  <2>8. QED
    BY <1>2, <2>1, <2>2, <2>4, <2>5, <2>6, <2>7
<1>3. CASE Named(members, name)
  <2> DEFINE after == [i \in DOMAIN members |->
                         IF members[i][1] = name THEN <<name, w>> ELSE members[i]]
  <2>1. /\ after \in Seq(STRING \X V) /\ Len(after) = Len(members) /\ DOMAIN after = DOMAIN members
        /\ \A i \in DOMAIN members : after[i] = IF members[i][1] = name THEN <<name, w>> ELSE members[i]
    <3>1. <<name, w>> \in STRING \X V
      OBVIOUS
    <3> DEFINE e(i) == IF members[i][1] = name THEN <<name, w>> ELSE members[i]
    <3>2. \A i \in 1..Len(members) : e(i) \in STRING \X V
      BY <1>1, <3>1
    <3>3. after = [i \in 1..Len(members) |-> e(i)]
      BY <1>1
    <3> HIDE DEF e
    <3>4. after \in Seq(STRING \X V) /\ DOMAIN after = 1..Len(members)
      BY <1>1, <3>2, <3>3, IsASeq
    <3>5. Len(after) = Len(members)
      <4> HIDE DEF after
      <4>1. QED
        BY <1>1, <3>4, LenProperties
    <3>6. QED
      BY <1>1, <3>3, <3>4, <3>5 DEF e
  <2>2. Set(o, name, w) = Object(after)
    <3>1. Get(o, name) # Error
      BY <1>3, GetValue
    <3>2. o[2] = members
      BY ArrayAndObject
    <3>3. QED
      BY <3>1, <3>2 DEF Set
  <2> HIDE DEF after
  <2>3. \A i \in DOMAIN members : after[i][1] = members[i][1]
    <3> TAKE i \in DOMAIN members
    <3>1. <<name, w>>[1] = name
      OBVIOUS
    <3>2. CASE members[i][1] = name
      BY <2>1, <3>1, <3>2
    <3>3. CASE members[i][1] # name
      BY <2>1, <3>3
    <3>4. QED
      BY <3>2, <3>3
  <2>4. NoNameTwice(after)
    BY <2>1, <2>3 DEF NoNameTwice
  <2>5. Get(Object(after), name) = w
    <3>1. PICK i \in DOMAIN members : members[i][1] = name
      BY <1>3 DEF Named
    <3>2. i \in DOMAIN after /\ after[i] = <<name, w>>
      BY <2>1, <3>1
    <3>3. after[i][1] = name /\ after[i][2] = w
      BY <3>2
    <3>4. QED
      BY ZenonT(60), <2>4, <3>2, <3>3, GetIs
  <2>6. ASSUME NEW other, other # name
        PROVE  Get(Object(after), other) = Get(o, other)
    <3>1. CASE ~Named(members, other)
      <4>1. ~Named(after, other)
        BY <2>1, <2>3, <3>1 DEF Named
      <4>2. QED
        BY <3>1, <4>1, GetIs
    <3>2. CASE Named(members, other)
      <4>1. PICK i \in DOMAIN members : members[i][1] = other
        BY <3>2 DEF Named
      <4>2. i \in DOMAIN after /\ after[i] = members[i]
        BY <2>1, <2>6, <4>1
      <4>3. QED
        BY <2>4, <4>1, <4>2, GetIs
    <3>3. QED
      BY <3>1, <3>2
  <2>7. ASSUME w = Get(o, name)
        PROVE  after = members
    <3>1. \A i \in DOMAIN members : members[i][1] = name => members[i] = <<name, w>>
      <4> SUFFICES ASSUME NEW i \in DOMAIN members, members[i][1] = name
                   PROVE  members[i] = <<name, w>>
        OBVIOUS
      <4>1. Get(Object(members), members[i][1]) = members[i][2]
        BY GetEntry, Zenon
      <4>2. members[i] \in STRING \X V
        BY <1>1
      <4>3. members[i] = <<members[i][1], members[i][2]>>
        BY <4>2, Pairs
      <4>4. QED
        BY <2>7, <4>1, <4>3
    <3>2. \A i \in 1..Len(members) : after[i] = members[i]
      BY <1>1, <2>1, <3>1
    <3>3. QED
      BY <2>1, <3>2, SeqEqual
  <2>8. QED
    BY <1>3, <2>1, <2>2, <2>4, <2>5, <2>6, <2>7
<1>4. QED
  BY <1>2, <1>3

(* json_object_remove takes one entry out and leaves all others, whatever  *)
(* it moves.                                                               *)
LEMMA RemoveIs ==
  ASSUME NEW V, Error \notin V, NEW members \in Seq(STRING \X V), NoNameTwice(members),
         NEW name
  PROVE  IF Named(members, name)
         THEN \E after \in Seq(STRING \X V) :
                /\ Remove(Object(members), name) = <<TRUE, Object(after)>>
                /\ NoNameTwice(after)
                /\ Len(after) = Len(members) - 1
                /\ Get(Object(after), name) = Error
                /\ \A other : other # name => Get(Object(after), other) = Get(Object(members), other)
         ELSE Remove(Object(members), name) = <<FALSE, Object(members)>>
<1>1. Len(members) \in Nat /\ DOMAIN members = 1..Len(members)
      /\ \A i \in 1..Len(members) : members[i] \in STRING \X V
  BY LenProperties
<1>2. CASE ~Named(members, name)
  BY <1>2, GetIs DEF Remove
<1>3. CASE Named(members, name)
  <2> DEFINE last == Len(members)
             hole == CHOOSE j \in 1..last : members[j][1] = name
             filled == [members EXCEPT ![hole] = members[last]]
             after == SubSeq(filled, 1, last - 1)
  <2>1. hole \in 1..last /\ members[hole][1] = name /\ last \in Nat /\ last # 0
    BY <1>1, <1>3 DEF Named
  <2>2. Remove(Object(members), name) = <<TRUE, Object(after)>>
    <3>1. Get(Object(members), name) # Error
      BY <1>3, GetValue
    <3>2. Object(members)[2] = members
      BY ArrayAndObject
    <3>3. QED
      BY <3>1, <3>2 DEF Remove
  <2> HIDE DEF hole
  <2>3. /\ filled \in Seq(STRING \X V) /\ Len(filled) = last
        /\ \A j \in 1..last : filled[j] = IF j = hole THEN members[last] ELSE members[j]
    <3> DEFINE e == members[last]
    <3>1. e \in STRING \X V
      BY <1>1, <2>1
    <3> HIDE DEF e
    <3>2. /\ [members EXCEPT ![hole] = e] \in Seq(STRING \X V)
          /\ Len([members EXCEPT ![hole] = e]) = Len(members)
          /\ \A j \in 1..Len(members) : [members EXCEPT ![hole] = e][j] = IF j = hole THEN e ELSE members[j]
      BY <2>1, <3>1, ExceptSeq
    <3>3. QED
      BY <3>2 DEF e
  <2> HIDE DEF filled
  <2>4. /\ after \in Seq(STRING \X V) /\ Len(after) = last - 1
        /\ \A j \in 1..last-1 : after[j] = IF j = hole THEN members[last] ELSE members[j]
    <3>1. \A j \in 1..last-1 : filled[j] \in STRING \X V
      BY <2>1, <2>3
    <3>2. last - 1 \in Int /\ 1 \in Int /\ last - 1 \in Nat
      BY <2>1
    <3>3. /\ after \in Seq(STRING \X V)
          /\ Len(after) = IF 1 <= last - 1 THEN last - 1 - 1 + 1 ELSE 0
          /\ \A j \in 1..last-1-1+1 : after[j] = filled[1+j-1]
      BY <3>1, <3>2, SubSeqProperties
    <3>4. \A j \in 1..last-1 : 1 + j - 1 = j /\ j \in 1..last-1-1+1 /\ j \in 1..last
      BY <3>2
    <3>5. QED
      BY <3>2, <3>3, <3>4, <2>3
  <2> HIDE DEF after
  <2>5. DOMAIN after = 1..last-1
    BY <2>4, LenProperties
  <2> DEFINE from(j) == IF j = hole THEN last ELSE j
  <2>6. \A j \in DOMAIN after : /\ from(j) \in DOMAIN members /\ after[j] = members[from(j)]
                                /\ from(j) # hole
    BY <1>1, <2>1, <2>4, <2>5
  <2>7. \A j, k \in DOMAIN after : from(j) = from(k) => j = k
    BY <2>1, <2>5
  <2>8. \A i \in DOMAIN members : i # hole => \E j \in DOMAIN after : from(j) = i
    <3> SUFFICES ASSUME NEW i \in DOMAIN members, i # hole
                 PROVE  \E j \in DOMAIN after : from(j) = i
      OBVIOUS
    <3>1. CASE i = last
      <4>1. hole \in DOMAIN after /\ from(hole) = i
        BY <2>1, <2>5, <3>1
      <4>2. QED
        BY <4>1
    <3>2. CASE i # last
      <4>1. i \in DOMAIN after /\ from(i) = i
        BY <1>1, <2>1, <2>5, <3>2
      <4>2. QED
        BY <4>1
    <3>3. QED
      BY <3>1, <3>2
  <2> HIDE DEF from
  <2>9. NoNameTwice(after)
    <3> SUFFICES ASSUME NEW j \in DOMAIN after, NEW k \in DOMAIN after, after[j][1] = after[k][1]
                 PROVE  j = k
      BY DEF NoNameTwice
    <3>1. members[from(j)][1] = members[from(k)][1]
      BY <2>6
    <3>2. from(j) = from(k)
      BY <2>6, <3>1 DEF NoNameTwice
    <3>3. QED
      BY <2>7, <3>2
  <2>10. ~Named(after, name)
    <3> SUFFICES ASSUME NEW j \in DOMAIN after, after[j][1] = name
                 PROVE  FALSE
      BY DEF Named
    <3>1. members[from(j)][1] = members[hole][1]
      BY <2>1, <2>6
    <3>2. from(j) = hole
      BY <1>1, <2>1, <2>6, <3>1 DEF NoNameTwice
    <3>3. QED
      BY <2>6, <3>2
  <2>11. ASSUME NEW other, other # name
         PROVE  Get(Object(after), other) = Get(Object(members), other)
    <3>1. CASE ~Named(members, other)
      <4>1. ~Named(after, other)
        BY <2>6, <3>1 DEF Named
      <4>2. QED
        BY <3>1, <4>1, GetIs
    <3>2. CASE Named(members, other)
      <4>1. PICK i \in DOMAIN members : members[i][1] = other
        BY <3>2 DEF Named
      <4>2. PICK j \in DOMAIN after : from(j) = i
        BY <2>1, <2>8, <2>11, <4>1
      <4>3. after[j] = members[i]
        BY <2>6, <4>2
      <4>4. QED
        BY <2>9, <4>1, <4>3, GetIs
    <3>3. QED
      BY <3>1, <3>2
  <2>12. Get(Object(after), name) = Error
    BY <2>10, GetIs
  <2>13. QED
    BY <1>3, <2>2, <2>4, <2>9, <2>11, <2>12
<1>4. QED
  BY <1>2, <1>3

(* Functions of the entries. *)

Children(v) ==
  IF v[1] = "array" THEN {v[2][i] : i \in DOMAIN v[2]}
  ELSE IF v[1] = "object" THEN {Get(v, v[2][i][1]) : i \in DOMAIN v[2]}
  ELSE {}

(* The entries of a value are one level lower.                             *)
LEMMA ChildLevel ==
  ASSUME NEW n \in Nat, NEW v, NEW c \in Children(v)
  PROVE  /\ v \in Nested[n] => n - 1 \in Nat /\ c \in Nested[n - 1]
         /\ v \in Proper[n] => n - 1 \in Nat /\ c \in Proper[n - 1]
<1>1. CASE v[1] = "array"
  <2>1. \E i \in DOMAIN v[2] : c = v[2][i]
    BY <1>1 DEF Children
  <2>2. ASSUME v \in Nested[n]
        PROVE  n - 1 \in Nat /\ c \in Nested[n - 1]
    <3>1. n - 1 \in Nat /\ v[2] \in Seq(Nested[n - 1])
      BY <1>1, <2>2, ArrayValue
    <3>2. QED
      BY <2>1, <3>1
  <2>3. ASSUME v \in Proper[n]
        PROVE  n - 1 \in Nat /\ c \in Proper[n - 1]
    <3>1. n - 1 \in Nat /\ v[2] \in Seq(Proper[n - 1])
      BY <1>1, <2>3, ArrayValue
    <3>2. QED
      BY <2>1, <3>1
  <2>4. QED
    BY <2>2, <2>3
<1>2. CASE v[1] = "object"
  <2>1. PICK i \in DOMAIN v[2] : c = Get(v, v[2][i][1])
    BY <1>2 DEF Children
  <2>2. ASSUME v \in Nested[n]
        PROVE  n - 1 \in Nat /\ c \in Nested[n - 1]
    <3> DEFINE V == Nested[n - 1]
    <3>1. n - 1 \in Nat /\ v[2] \in Seq(STRING \X V) /\ v = Object(v[2])
      BY <1>2, <2>2, ObjectValue
    <3>2. Error \notin V
      BY <3>1, NoErrorValue
    <3> HIDE DEF V
    <3>3. Named(v[2], v[2][i][1])
      BY DEF Named
    <3>4. Get(Object(v[2]), v[2][i][1]) \in V
      BY <3>1, <3>2, <3>3, GetValue
    <3>5. QED
      BY <2>1, <3>1, <3>4 DEF V
  <2>3. ASSUME v \in Proper[n]
        PROVE  n - 1 \in Nat /\ c \in Proper[n - 1]
    <3> DEFINE V == Proper[n - 1]
    <3>1. n - 1 \in Nat /\ v[2] \in Seq(STRING \X V) /\ v = Object(v[2])
      BY <1>2, <2>3, ObjectValue
    <3>2. Error \notin V
      BY <3>1, NoErrorValue
    <3> HIDE DEF V
    <3>3. Named(v[2], v[2][i][1])
      BY DEF Named
    <3>4. Get(Object(v[2]), v[2][i][1]) \in V
      BY <3>1, <3>2, <3>3, GetValue
    <3>5. QED
      BY <2>1, <3>1, <3>4 DEF V
  <2>4. QED
    BY <2>2, <2>3
<1>3. QED
  BY <1>1, <1>2 DEF Children

(* The entries of a value that may be written may be written.              *)
LEMMA ChildInTree ==
  \A v \in Tree : \A c \in Children(v) : c \in Tree
<1> SUFFICES ASSUME NEW v \in Tree, NEW c \in Children(v)
             PROVE  c \in Tree
  OBVIOUS
<1>1. MaxLevels \in Nat
  BY LevelsAssumption
<1>2. MaxLevels - 1 \in Nat /\ c \in Nested[MaxLevels - 1]
  BY <1>1, ChildLevel DEF Tree
<1>3. MaxLevels - 1 <= MaxLevels
  BY <1>1
<1>4. QED
  BY <1>1, <1>2, <1>3, Levels DEF Tree

(* Values of few enough levels may be written.                             *)
LEMMA InTree ==
  /\ MaxLevels \in Nat
  /\ \A n \in Nat : n <= MaxLevels => Nested[n] \subseteq Tree /\ Proper[n] \subseteq Tree
  /\ Error \notin Tree
<1>1. MaxLevels \in Nat
  BY LevelsAssumption
<1>2. QED
  BY <1>1, Levels, ProperIsNested, NoErrorValue DEF Tree

(* The recursive functions of values: the right-hand sides, and the        *)
(* instances that say that they exist.                                     *)
InLevel(n) == Nested[n]

(* f and g agree on the children of x, if they do at lower levels.         *)
LEMMA AgreeOnChildren ==
  ASSUME NEW f, NEW g, NEW n \in Nat, NEW x \in Tree, x \in InLevel(n),
         \A m \in 0..n-1 : \A y \in Tree : y \in InLevel(m) => f[y] = g[y]
  PROVE  \A c \in Children(x) : f[c] = g[c]
<1> SUFFICES ASSUME NEW c \in Children(x)
             PROVE  f[c] = g[c]
  OBVIOUS
<1>1. n - 1 \in Nat /\ c \in Nested[n - 1]
  BY ChildLevel DEF InLevel
<1>2. c \in Tree
  BY ChildInTree
<1>3. n - 1 \in 0..n-1
  BY <1>1
<1>4. QED
  BY <1>1, <1>2, <1>3 DEF InLevel

(* Every value that may be written has a level.                            *)
LEMMA EveryTree ==
  \A x \in Tree : \E n \in Nat : x \in InLevel(n)
BY InTree DEF InLevel, Tree

CopyStep(f, v) ==
  CASE v[1] = "array" -> Array([i \in DOMAIN v[2] |-> f[v[2][i]]])
    [] v[1] = "object" ->
         Object([i \in DOMAIN v[2] |-> <<v[2][i][1], f[Get(v, v[2][i][1])]>>])
    [] OTHER -> v

EqualsStep(f, a) == [b \in Tree \cup {Error} |-> Equal(f, a, b)]

ValidateStep(f, schema) == [v \in Tree \cup {Error} |-> Validate(f, schema, v)]

CopyF == INSTANCE Recursion WITH S <- Tree, Step <- CopyStep, Level <- InLevel
EqualsF == INSTANCE Recursion WITH S <- Tree, Step <- EqualsStep, Level <- InLevel
ValidateF == INSTANCE Recursion WITH S <- Tree, Step <- ValidateStep, Level <- InLevel

(* json_value_deep_copy, by the copies of the entries.                     *)
LEMMA CopyIs ==
  \A v \in Tree : json_value_deep_copy[v] = CopyStep(json_value_deep_copy, v)
<1>1. CopyF!EveryArgument
  BY EveryTree DEF CopyF!EveryArgument
<1>2. CopyF!LowerLevels
  <2> SUFFICES ASSUME NEW f, NEW g, NEW n \in Nat, NEW x \in Tree, x \in InLevel(n),
                      \A m \in 0..n-1 : \A y \in Tree : y \in InLevel(m) => f[y] = g[y]
               PROVE  CopyStep(f, x) = CopyStep(g, x)
    BY DEF CopyF!LowerLevels
  <2>1. \A c \in Children(x) : f[c] = g[c]
    BY AgreeOnChildren
  <2>2. CASE x[1] = "array"
    <3>1. \A i \in DOMAIN x[2] : f[x[2][i]] = g[x[2][i]]
      BY <2>1, <2>2 DEF Children
    <3>2. QED
      BY <2>2, <3>1 DEF CopyStep
  <2>3. CASE x[1] = "object"
    <3>1. \A i \in DOMAIN x[2] : f[Get(x, x[2][i][1])] = g[Get(x, x[2][i][1])]
      BY <2>1, <2>3 DEF Children
    <3>2. QED
      BY <2>3, <3>1 DEF CopyStep
  <2>4. QED
    BY <2>2, <2>3 DEF CopyStep
<1>3. \E f : f = [v \in Tree |-> CopyStep(f, v)]
  BY <1>1, <1>2, CopyF!FunctionExists
<1>4. json_value_deep_copy = [v \in Tree |-> CopyStep(json_value_deep_copy, v)]
  BY <1>3, Zenon DEF json_value_deep_copy, CopyStep
<1>5. QED
  BY <1>4

(* json_value_equals, by the comparison of the entries.                    *)
LEMMA EqualsIs ==
  \A a \in Tree : \A b \in Tree \cup {Error} :
    json_value_equals[a][b] = Equal(json_value_equals, a, b)
<1>1. EqualsF!EveryArgument
  BY EveryTree DEF EqualsF!EveryArgument
<1>2. EqualsF!LowerLevels
  <2> SUFFICES ASSUME NEW f, NEW g, NEW n \in Nat, NEW x \in Tree, x \in InLevel(n),
                      \A m \in 0..n-1 : \A y \in Tree : y \in InLevel(m) => f[y] = g[y]
               PROVE  EqualsStep(f, x) = EqualsStep(g, x)
    BY DEF EqualsF!LowerLevels
  <2>1. \A c \in Children(x) : f[c] = g[c]
    BY AgreeOnChildren
  <2>2. ASSUME NEW b
        PROVE  Equal(f, x, b) = Equal(g, x, b)
    <3>1. CASE x[1] = "array"
      <4>1. \A i \in DOMAIN x[2] : f[x[2][i]] = g[x[2][i]]
        BY <2>1, <3>1 DEF Children
      <4>2. QED
        BY <3>1, <4>1 DEF Equal
    <3>2. CASE x[1] = "object"
      <4>1. \A i \in DOMAIN x[2] : f[Get(x, x[2][i][1])] = g[Get(x, x[2][i][1])]
        BY <2>1, <3>2 DEF Children
      <4>2. QED
        BY <3>2, <4>1 DEF Equal
    <3>3. QED
      BY <3>1, <3>2 DEF Equal
  <2>3. QED
    BY <2>2 DEF EqualsStep
<1>3. \E f : f = [a \in Tree |-> EqualsStep(f, a)]
  BY <1>1, <1>2, EqualsF!FunctionExists
<1>4. json_value_equals = [a \in Tree |-> EqualsStep(json_value_equals, a)]
  BY <1>3, Zenon DEF json_value_equals, EqualsStep
<1>5. QED
  BY <1>4 DEF EqualsStep

(* json_validate, by the validation of the entries.                        *)
LEMMA ValidateIs ==
  \A schema \in Tree : \A v \in Tree \cup {Error} :
    json_validate[schema][v] = Validate(json_validate, schema, v)
<1>1. ValidateF!EveryArgument
  BY EveryTree DEF ValidateF!EveryArgument
<1>2. ValidateF!LowerLevels
  <2> SUFFICES ASSUME NEW f, NEW g, NEW n \in Nat, NEW x \in Tree, x \in InLevel(n),
                      \A m \in 0..n-1 : \A y \in Tree : y \in InLevel(m) => f[y] = g[y]
               PROVE  ValidateStep(f, x) = ValidateStep(g, x)
    BY DEF ValidateF!LowerLevels
  <2>1. \A c \in Children(x) : f[c] = g[c]
    BY AgreeOnChildren
  <2>2. ASSUME NEW v
        PROVE  Validate(f, x, v) = Validate(g, x, v)
    <3>1. CASE x[1] = "array"
      <4>1. x[2] # <<>> => f[x[2][1]] = g[x[2][1]]
        <5>1. x[2] \in Seq(Nested[n - 1])
          BY <3>1, ArrayValue DEF InLevel
        <5>2. x[2] # <<>> => 1 \in DOMAIN x[2]
          BY <5>1, EmptySeq, LenProperties
        <5>3. QED
          BY <2>1, <3>1, <5>2 DEF Children
      <4>2. QED
        BY <3>1, <4>1 DEF Validate
    <3>2. CASE x[1] = "object"
      <4>1. \A i \in DOMAIN x[2] : f[Get(x, x[2][i][1])] = g[Get(x, x[2][i][1])]
        BY <2>1, <3>2 DEF Children
      <4>2. QED
        BY <3>2, <4>1 DEF Validate
    <3>3. QED
      BY <3>1, <3>2 DEF Validate
  <2>3. QED
    BY <2>2 DEF ValidateStep
<1>3. \E f : f = [schema \in Tree |-> ValidateStep(f, schema)]
  BY <1>1, <1>2, ValidateF!FunctionExists
<1>4. json_validate = [schema \in Tree |-> ValidateStep(json_validate, schema)]
  BY <1>3, Zenon DEF json_validate, ValidateStep
<1>5. QED
  BY <1>4 DEF ValidateStep

Match(f, schema, v) ==
  \/ schema = <<"null">>
  \/ schema[1] = v[1] /\
       CASE v[1] = "object" ->
              \A k \in Names(schema) :
                k \in Names(v) /\ f[Get(schema, k)][Get(v, k)]
         [] v[1] = "array" ->
              \A i \in DOMAIN v[2] :
                schema[2] = <<>> \/ f[Head(schema[2])][v[2][i]]
         [] OTHER -> TRUE

MatchesStep(f, schema) == [v \in Tree |-> Match(f, schema, v)]

MatchesF == INSTANCE Recursion WITH S <- Tree, Step <- MatchesStep, Level <- InLevel

(* What the header promises, by what it promises of the entries.           *)
LEMMA MatchesIs ==
  \A schema \in Tree : \A v \in Tree :
    Matches[schema][v] = Match(Matches, schema, v)
<1>1. MatchesF!EveryArgument
  BY EveryTree DEF MatchesF!EveryArgument
<1>2. MatchesF!LowerLevels
  <2> SUFFICES ASSUME NEW f, NEW g, NEW n \in Nat, NEW x \in Tree, x \in InLevel(n),
                      \A m \in 0..n-1 : \A y \in Tree : y \in InLevel(m) => f[y] = g[y]
               PROVE  MatchesStep(f, x) = MatchesStep(g, x)
    BY DEF MatchesF!LowerLevels
  <2>1. \A c \in Children(x) : f[c] = g[c]
    BY AgreeOnChildren
  <2>2. ASSUME NEW v
        PROVE  Match(f, x, v) = Match(g, x, v)
    <3>1. CASE x[1] = "array"
      <4>1. x[2] # <<>> => f[Head(x[2])] = g[Head(x[2])]
        <5>1. x[2] \in Seq(Nested[n - 1])
          BY <3>1, ArrayValue DEF InLevel
        <5>2. x[2] # <<>> => 1 \in DOMAIN x[2] /\ Head(x[2]) = x[2][1]
          BY <5>1, EmptySeq, LenProperties
        <5>3. QED
          BY <2>1, <3>1, <5>2 DEF Children
      <4>2. QED
        BY <3>1, <4>1 DEF Match
    <3>2. CASE x[1] = "object"
      <4>1. \A i \in DOMAIN x[2] : f[Get(x, x[2][i][1])] = g[Get(x, x[2][i][1])]
        BY <2>1, <3>2 DEF Children
      <4>2. \A k \in Names(x) : f[Get(x, k)] = g[Get(x, k)]
        BY <4>1 DEF Names
      <4>3. QED
        BY <3>2, <4>2 DEF Match
    <3>3. QED
      BY <3>1, <3>2 DEF Match
  <2>3. QED
    BY <2>2 DEF MatchesStep
<1>3. \E f : f = [schema \in Tree |-> MatchesStep(f, schema)]
  BY <1>1, <1>2, MatchesF!FunctionExists
<1>4. Matches = [schema \in Tree |-> MatchesStep(Matches, schema)]
  BY <1>3, Zenon DEF Matches, MatchesStep, Match
<1>5. QED
  BY <1>4 DEF MatchesStep

SerializeStep(f, v) ==
  [level \in Nat |-> [pretty \in BOOLEAN |-> Serialize(f, v, level, pretty)]]

SerializeF == INSTANCE Recursion WITH S <- Tree, Step <- SerializeStep, Level <- InLevel

(* Serializing, by the texts of the entries.                               *)
LEMMA SerializedIs ==
  \A v \in Tree : \A level \in Nat : \A pretty \in BOOLEAN :
    Serialized[v][level][pretty] = Serialize(Serialized, v, level, pretty)
<1>1. SerializeF!EveryArgument
  BY EveryTree DEF SerializeF!EveryArgument
<1>2. SerializeF!LowerLevels
  <2> SUFFICES ASSUME NEW f, NEW g, NEW n \in Nat, NEW x \in Tree, x \in InLevel(n),
                      \A m \in 0..n-1 : \A y \in Tree : y \in InLevel(m) => f[y] = g[y]
               PROVE  SerializeStep(f, x) = SerializeStep(g, x)
    BY DEF SerializeF!LowerLevels
  <2>1. \A c \in Children(x) : f[c] = g[c]
    BY AgreeOnChildren
  <2>2. ASSUME NEW level, NEW pretty
        PROVE  Serialize(f, x, level, pretty) = Serialize(g, x, level, pretty)
    <3>1. CASE x[1] \in {"array", "object"}
      <4>1. ASSUME NEW i \in DOMAIN x[2]
            PROVE  Entry(f, x, i, level, pretty) = Entry(g, x, i, level, pretty)
        <5>1. CASE x[1] = "array"
          <6>1. f[x[2][i]] = g[x[2][i]]
            BY <2>1, <5>1 DEF Children
          <6>2. QED
            BY <5>1, <6>1 DEF Entry
        <5>2. CASE x[1] = "object"
          <6>1. f[Get(x, x[2][i][1])] = g[Get(x, x[2][i][1])]
            BY <2>1, <5>2 DEF Children
          <6>2. QED
            BY <5>2, <6>1 DEF Entry
        <5>3. QED
          BY <3>1, <5>1, <5>2
      <4>2. [i \in DOMAIN x[2] |-> Entry(f, x, i, level, pretty)]
              = [i \in DOMAIN x[2] |-> Entry(g, x, i, level, pretty)]
        BY <4>1
      <4>3. QED
        BY <4>2 DEF Serialize
    <3>2. CASE x[1] \notin {"array", "object"}
      BY <3>2 DEF Serialize
    <3>3. QED
      BY <3>1, <3>2
  <2>3. QED
    BY <2>2 DEF SerializeStep
<1>3. \E f : f = [v \in Tree |-> SerializeStep(f, v)]
  BY <1>1, <1>2, SerializeF!FunctionExists
<1>4. Serialized = [v \in Tree |-> SerializeStep(Serialized, v)]
  BY <1>3, Zenon DEF Serialized, SerializeStep
<1>5. ASSUME NEW v \in Tree
      PROVE  Serialized[v] = SerializeStep(Serialized, v)
  BY <1>4
<1>6. ASSUME NEW v \in Tree, NEW level \in Nat, NEW pretty \in BOOLEAN
      PROVE  SerializeStep(Serialized, v)[level][pretty] = Serialize(Serialized, v, level, pretty)
  <2>1. SerializeStep(Serialized, v)[level] = [p \in BOOLEAN |-> Serialize(Serialized, v, level, p)]
    BY DEF SerializeStep
  <2>2. QED
    BY <2>1
<1>7. QED
  BY <1>5, <1>6

(* deep copy is the identity on proper values *)
LEMMA CopyIsSame ==
  \A v \in Proper[MaxLevels] : json_value_deep_copy[v] = v
<1> DEFINE A == {n \in Nat : \A v \in Proper[n] : v \in Tree => json_value_deep_copy[v] = v}
<1>1. 0 \in A
  BY ProperIs
<1>2. ASSUME NEW n \in A
      PROVE  n + 1 \in A
  <2>1. n \in Nat /\ n + 1 \in Nat /\ n + 1 - 1 = n
    OBVIOUS
  <2> SUFFICES ASSUME NEW v \in Proper[n + 1], v \in Tree
               PROVE  json_value_deep_copy[v] = v
    BY <2>1
  <2>2. \A c \in Children(v) : json_value_deep_copy[c] = c
    BY <2>1, ChildLevel, ChildInTree
  <2>3. CASE v[1] = "array"
    <3>1. \A i \in DOMAIN v[2] : json_value_deep_copy[v[2][i]] = v[2][i]
      BY <2>2, <2>3 DEF Children
    <3>2. v[2] \in Seq(Proper[n]) /\ v = Array(v[2])
      BY <2>1, <2>3, ArrayValue
    <3>3. [i \in DOMAIN v[2] |-> json_value_deep_copy[v[2][i]]] = v[2]
      BY <3>1, <3>2
    <3>4. QED
      BY <2>3, <3>2, <3>3, CopyIs DEF CopyStep
  <2>4. CASE v[1] = "object"
    <3>1. \A i \in DOMAIN v[2] : json_value_deep_copy[Get(v, v[2][i][1])] = Get(v, v[2][i][1])
      BY <2>2, <2>4 DEF Children
    <3>2. v[2] \in Seq(STRING \X Proper[n]) /\ v = Object(v[2]) /\ NoNameTwice(v[2])
      <4>1. v[2] \in Seq(STRING \X Proper[n + 1 - 1]) /\ v = Object(v[2]) /\ NoNameTwice(v[2])
        <5> DEFINE k == n + 1
        <5>1. k \in Nat /\ v \in Proper[k]
          BY <2>1
        <5> HIDE DEF k
        <5>2. v[2] \in Seq(STRING \X Proper[k - 1]) /\ v = Object(v[2]) /\ NoNameTwice(v[2])
          BY <2>4, <5>1, ObjectValue
        <5>3. QED
          BY <5>2 DEF k
      <4>2. QED
        BY <2>1, <4>1
    <3>3. \A i \in DOMAIN v[2] : Get(v, v[2][i][1]) = v[2][i][2]
      BY <3>2, GetEntry
    <3>4. \A i \in DOMAIN v[2] : v[2][i] = <<v[2][i][1], v[2][i][2]>>
      BY <3>2, Pairs, LenProperties
    <3>5. [i \in DOMAIN v[2] |-> <<v[2][i][1], json_value_deep_copy[Get(v, v[2][i][1])]>>] = v[2]
      <4>1. \A i \in DOMAIN v[2] : <<v[2][i][1], json_value_deep_copy[Get(v, v[2][i][1])]>> = v[2][i]
        BY <3>1, <3>3, <3>4, Zenon
      <4>2. v[2] = [i \in DOMAIN v[2] |-> v[2][i]]
        BY <3>2
      <4>3. QED
        BY <4>1, <4>2, Zenon
    <3>6. QED
      BY <2>4, <3>2, <3>5, CopyIs DEF CopyStep
  <2>5. CASE v[1] # "array" /\ v[1] # "object"
    BY <2>5, CopyIs DEF CopyStep
  <2>6. QED
    BY <2>3, <2>4, <2>5
<1>3. A = Nat
  <2> HIDE DEF A
  <2>1. A \in SUBSET Nat
    BY DEF A
  <2>2. QED
    BY <1>1, <1>2, <2>1, CopyF!Upward
<1>4. QED
  BY <1>3, InTree

(* Paths. *)

OfLength(n) == {path \in Dotted : Len(path) = n}

DotSetStep(f, path) ==
  [object \in Tree |-> [v \in Tree |-> [granted \in Nat |->
     SetBelow(f, object, path, v, granted)]]]

RemoveBelow(f, path, object) ==
  LET name == Head(path)
      child == Get(object, name)
      below == f[Tail(path)][child]
  IN IF Len(path) = 1 THEN Remove(object, name)
     ELSE IF child[1] # "object" THEN <<FALSE, object>>
     ELSE <<below[1], Set(object, name, below[2])>>

DotRemoveStep(f, path) == [object \in Tree |-> RemoveBelow(f, path, object)]

GetBelow(f, path, object) ==
  IF Len(path) = 1 THEN Get(object, Head(path))
  ELSE f[Tail(path)][Get(object, Head(path))]

DotGetStep(f, path) == [object \in Tree \cup {Error} |-> GetBelow(f, path, object)]

DotSetF == INSTANCE Recursion WITH S <- Dotted, Step <- DotSetStep, Level <- OfLength
DotRemoveF == INSTANCE Recursion WITH S <- Dotted, Step <- DotRemoveStep, Level <- OfLength
DotGetF == INSTANCE Recursion WITH S <- Dotted, Step <- DotGetStep, Level <- OfLength

(* A path has a first name and, unless it is one name long, a shorter      *)
(* rest.                                                                   *)
LEMMA PathLength ==
  \A path \in Dotted :
    /\ Len(path) \in Nat \ {0} /\ path \in OfLength(Len(path))
    /\ Head(path) \in Key /\ Head(path) \in STRING
    /\ Len(path) # 1 => Tail(path) \in Dotted /\ Len(Tail(path)) = Len(path) - 1
<1> SUFFICES ASSUME NEW path \in Dotted
             PROVE  /\ Len(path) \in Nat \ {0} /\ path \in OfLength(Len(path))
                    /\ Head(path) \in Key /\ Head(path) \in STRING
                    /\ Len(path) # 1 => Tail(path) \in Dotted /\ Len(Tail(path)) = Len(path) - 1
  OBVIOUS
<1>1. path \in Seq(Key) /\ path # <<>>
  BY DEF Dotted
<1>2. Len(path) \in Nat \ {0}
  BY <1>1, EmptySeq
<1>3. Head(path) \in Key /\ Tail(path) \in Seq(Key) /\ Len(Tail(path)) = Len(path) - 1
  BY <1>1, HeadTailProperties
<1>4. Len(path) # 1 => Tail(path) # <<>>
  BY <1>2, <1>3, EmptySeq
<1>5. QED
  BY <1>2, <1>3, <1>4, KeyAssumption DEF Dotted, OfLength

(* f and g agree on the rest of a path, if they do on shorter ones.        *)
LEMMA AgreeOnTail ==
  ASSUME NEW f, NEW g, NEW n \in Nat, NEW x \in Dotted, x \in OfLength(n),
         \A m \in 0..n-1 : \A y \in Dotted : y \in OfLength(m) => f[y] = g[y]
  PROVE  Len(x) # 1 => f[Tail(x)] = g[Tail(x)]
<1> SUFFICES ASSUME Len(x) # 1
             PROVE  f[Tail(x)] = g[Tail(x)]
  OBVIOUS
<1>1. Len(x) = n
  BY DEF OfLength
<1>2. Tail(x) \in Dotted /\ Len(Tail(x)) = n - 1
  BY <1>1, PathLength
<1>3. n - 1 \in 0..n-1
  BY <1>1, <1>2, PathLength
<1>4. Tail(x) \in OfLength(n - 1)
  BY <1>2 DEF OfLength
<1>5. QED
  BY <1>2, <1>3, <1>4

(* Every path has a length.                                                *)
LEMMA EveryPath ==
  \A x \in Dotted : \E n \in Nat : x \in OfLength(n)
BY PathLength

(* json_object_dotset_value, by the call for the rest of the path.         *)
LEMMA DotSetIs ==
  \A path \in Dotted : \A object \in Tree : \A v \in Tree : \A granted \in Nat :
    DotSet[path][object][v][granted] = SetBelow(DotSet, object, path, v, granted)
<1>1. DotSetF!EveryArgument
  BY EveryPath DEF DotSetF!EveryArgument
<1>2. DotSetF!LowerLevels
  <2> SUFFICES ASSUME NEW f, NEW g, NEW n \in Nat, NEW x \in Dotted, x \in OfLength(n),
                      \A m \in 0..n-1 : \A y \in Dotted : y \in OfLength(m) => f[y] = g[y]
               PROVE  DotSetStep(f, x) = DotSetStep(g, x)
    BY DEF DotSetF!LowerLevels
  <2>1. Len(x) # 1 => f[Tail(x)] = g[Tail(x)]
    BY AgreeOnTail
  <2>2. ASSUME NEW object, NEW v, NEW granted
        PROVE  SetBelow(f, object, x, v, granted) = SetBelow(g, object, x, v, granted)
    BY <2>1 DEF SetBelow
  <2> DEFINE to(h, object, v) == [granted \in Nat |-> SetBelow(h, object, x, v, granted)]
             of(h, object) == [v \in Tree |-> to(h, object, v)]
  <2>3. ASSUME NEW object, NEW v
        PROVE  to(f, object, v) = to(g, object, v)
    BY <2>2
  <2>4. DotSetStep(f, x) = [object \in Tree |-> of(f, object)]
        /\ DotSetStep(g, x) = [object \in Tree |-> of(g, object)]
    BY Zenon DEF DotSetStep
  <2> HIDE DEF to
  <2>5. ASSUME NEW object
        PROVE  of(f, object) = of(g, object)
    BY <2>3
  <2> HIDE DEF of
  <2>6. QED
    BY <2>4, <2>5
<1>3. \E f : f = [path \in Dotted |-> DotSetStep(f, path)]
  BY <1>1, <1>2, DotSetF!FunctionExists
<1>4. DotSet = [path \in Dotted |-> DotSetStep(DotSet, path)]
  BY <1>3, Zenon DEF DotSet, DotSetStep
<1>5. ASSUME NEW path \in Dotted
      PROVE  DotSet[path] = DotSetStep(DotSet, path)
  BY <1>4
<1>6. ASSUME NEW path \in Dotted, NEW object \in Tree, NEW v \in Tree, NEW granted \in Nat
      PROVE  DotSetStep(DotSet, path)[object][v][granted] = SetBelow(DotSet, object, path, v, granted)
  <2>1. DotSetStep(DotSet, path)[object] =
          [w \in Tree |-> [k \in Nat |-> SetBelow(DotSet, object, path, w, k)]]
    BY DEF DotSetStep
  <2>2. DotSetStep(DotSet, path)[object][v] = [k \in Nat |-> SetBelow(DotSet, object, path, v, k)]
    BY <2>1
  <2>3. QED
    BY <2>2
<1>7. QED
  BY <1>5, <1>6

(* json_object_dotremove, by the call for the rest of the path.            *)
LEMMA DotRemoveIs ==
  \A path \in Dotted : \A object \in Tree :
    DotRemove[path][object] = RemoveBelow(DotRemove, path, object)
<1>1. DotRemoveF!EveryArgument
  BY EveryPath DEF DotRemoveF!EveryArgument
<1>2. DotRemoveF!LowerLevels
  <2> SUFFICES ASSUME NEW f, NEW g, NEW n \in Nat, NEW x \in Dotted, x \in OfLength(n),
                      \A m \in 0..n-1 : \A y \in Dotted : y \in OfLength(m) => f[y] = g[y]
               PROVE  DotRemoveStep(f, x) = DotRemoveStep(g, x)
    BY DEF DotRemoveF!LowerLevels
  <2>1. Len(x) # 1 => f[Tail(x)] = g[Tail(x)]
    BY AgreeOnTail
  <2>2. ASSUME NEW object
        PROVE  RemoveBelow(f, x, object) = RemoveBelow(g, x, object)
    BY <2>1 DEF RemoveBelow
  <2>3. QED
    BY <2>2, Zenon DEF DotRemoveStep
<1>3. \E f : f = [path \in Dotted |-> DotRemoveStep(f, path)]
  BY <1>1, <1>2, DotRemoveF!FunctionExists
<1>4. DotRemove = [path \in Dotted |-> DotRemoveStep(DotRemove, path)]
  BY <1>3, Zenon DEF DotRemove, DotRemoveStep, RemoveBelow
<1>5. QED
  BY <1>4 DEF DotRemoveStep

(* json_object_dotget_value, by the call for the rest of the path.         *)
LEMMA DotGetIs ==
  \A path \in Dotted : \A object \in Tree \cup {Error} :
    DotGet[path][object] = GetBelow(DotGet, path, object)
<1>1. DotGetF!EveryArgument
  BY EveryPath DEF DotGetF!EveryArgument
<1>2. DotGetF!LowerLevels
  <2> SUFFICES ASSUME NEW f, NEW g, NEW n \in Nat, NEW x \in Dotted, x \in OfLength(n),
                      \A m \in 0..n-1 : \A y \in Dotted : y \in OfLength(m) => f[y] = g[y]
               PROVE  DotGetStep(f, x) = DotGetStep(g, x)
    BY DEF DotGetF!LowerLevels
  <2>1. Len(x) # 1 => f[Tail(x)] = g[Tail(x)]
    BY AgreeOnTail
  <2>2. ASSUME NEW object
        PROVE  GetBelow(f, x, object) = GetBelow(g, x, object)
    BY <2>1 DEF GetBelow
  <2>3. QED
    BY <2>2, Zenon DEF DotGetStep
<1>3. \E f : f = [path \in Dotted |-> DotGetStep(f, path)]
  BY <1>1, <1>2, DotGetF!FunctionExists
<1>4. DotGet = [path \in Dotted |-> DotGetStep(DotGet, path)]
  BY <1>3, Zenon DEF DotGet, DotGetStep, GetBelow
<1>5. QED
  BY <1>4 DEF DotGetStep

(* What holds of a path if it holds of its rest holds of all paths.        *)
LEMMA PathInduction ==
  ASSUME NEW A, \A path \in Dotted : (Len(path) # 1 => Tail(path) \in A) => path \in A
  PROVE  Dotted \subseteq A
<1> DEFINE B == {n \in Nat : \A path \in Dotted : Len(path) = n => path \in A}
<1>1. 0 \in B
  BY PathLength
<1>2. ASSUME NEW n \in B
      PROVE  n + 1 \in B
  <2>1. n \in Nat /\ n + 1 \in Nat /\ \A path \in Dotted : Len(path) = n => path \in A
    OBVIOUS
  <2>2. ASSUME NEW path \in Dotted, Len(path) = n + 1
        PROVE  path \in A
    <3>1. Len(path) # 1 => Tail(path) \in Dotted /\ Len(Tail(path)) = n + 1 - 1
      <4>1. Len(path) # 1 => Tail(path) \in Dotted /\ Len(Tail(path)) = Len(path) - 1
        BY PathLength
      <4>2. QED
        BY <2>2, <4>1
    <3>2. n + 1 - 1 = n
      BY <2>1
    <3>3. QED
      BY <2>1, <3>1, <3>2
  <2>3. QED
    BY <2>1, <2>2
<1>3. B = Nat
  <2> HIDE DEF B
  <2>1. B \in SUBSET Nat
    BY DEF B
  <2>2. QED
    BY <1>1, <1>2, <2>1, CopyF!Upward
<1>4. QED
  BY <1>3, PathLength

(* What holds of a value if it holds of its entries holds of all values.   *)
LEMMA TreeInduction ==
  ASSUME NEW A, \A v \in Tree : (\A c \in Children(v) : c \in A) => v \in A
  PROVE  Tree \subseteq A
<1> DEFINE B == {n \in Nat : \A v \in Nested[n] : v \in Tree => v \in A}
<1>1. 0 \in B
  BY NestedIs
<1>2. ASSUME NEW n \in B
      PROVE  n + 1 \in B
  <2>1. n \in Nat /\ n + 1 \in Nat /\ n + 1 - 1 = n /\ \A v \in Nested[n] : v \in Tree => v \in A
    OBVIOUS
  <2>2. ASSUME NEW v \in Nested[n + 1], v \in Tree
        PROVE  v \in A
    <3>1. \A c \in Children(v) : c \in Nested[n]
      BY <2>1, ChildLevel
    <3>2. \A c \in Children(v) : c \in A
      BY <2>1, <2>2, <3>1, ChildInTree
    <3>3. QED
      BY <2>2, <3>2
  <2>3. QED
    BY <2>1, <2>2
<1>3. B = Nat
  <2> HIDE DEF B
  <2>1. B \in SUBSET Nat
    BY DEF B
  <2>2. QED
    BY <1>1, <1>2, <2>1, CopyF!Upward
<1>4. QED
  BY <1>3, InTree DEF Tree

(* Setting a name: the object keeps its level and every other name its     *)
(* value.                                                                  *)
LEMMA SetObject ==
  ASSUME NEW a \in Nat, NEW o \in Proper[a], o[1] = "object",
         NEW name, name \in STRING, NEW w \in Proper[a - 1]
  PROVE  /\ Set(o, name, w) \in Proper[a]
         /\ Set(o, name, w)[1] = "object"
         /\ Get(Set(o, name, w), name) = w
         /\ \A other : other # name => Get(Set(o, name, w), other) = Get(o, other)
         /\ w = Get(o, name) => Set(o, name, w) = o
         /\ Len(Set(o, name, w)[2]) = IF Get(o, name) = Error THEN Len(o[2]) + 1 ELSE Len(o[2])
<1> DEFINE V == Proper[a - 1]
           members == o[2]
<1>1. /\ members \in Seq(STRING \X V) /\ NoNameTwice(members)
      /\ a - 1 \in Nat /\ o = Object(members)
  BY ObjectValue
<1>2. Error \notin V
  BY <1>1, NoErrorValue
<1>3. a # 0 /\ Proper[a] = ProperOf(V)
  BY <1>1, LevelBelow
<1>4. w \in V
  OBVIOUS
<1> HIDE DEF V, members
<1>5. PICK after \in Seq(STRING \X V) :
           /\ Set(Object(members), name, w) = Object(after)
           /\ NoNameTwice(after)
           /\ Len(after) = IF Named(members, name) THEN Len(members) ELSE Len(members) + 1
           /\ Get(Object(after), name) = w
           /\ \A other : other # name => Get(Object(after), other) = Get(Object(members), other)
           /\ w = Get(Object(members), name) => after = members
  BY <1>1, <1>2, <1>4, SetIs
<1>6. Object(after) \in ProperOf(V)
  BY <1>5, Made
<1>7. Named(members, name) <=> Get(o, name) # Error
  BY <1>1, <1>2, GetValue
<1>8. Set(o, name, w)[2] = after /\ Set(o, name, w)[1] = "object"
  BY <1>1, <1>5, ArrayAndObject
<1>9. QED
  BY <1>1, <1>3, <1>5, <1>6, <1>7, <1>8 DEF members

(* Removing a name: the object keeps its level and every other name its    *)
(* value.                                                                  *)
LEMMA RemoveObject ==
  ASSUME NEW a \in Nat, NEW o \in Proper[a], o[1] = "object", NEW name
  PROVE  /\ Get(o, name) = Error => Remove(o, name) = <<FALSE, o>>
         /\ Get(o, name) # Error =>
              /\ Remove(o, name)[1] = TRUE
              /\ Remove(o, name)[2] \in Proper[a]
              /\ Remove(o, name)[2][1] = "object"
              /\ Get(Remove(o, name)[2], name) = Error
              /\ \A other : other # name => Get(Remove(o, name)[2], other) = Get(o, other)
              /\ Len(Remove(o, name)[2][2]) = Len(o[2]) - 1
<1> DEFINE V == Proper[a - 1]
           members == o[2]
<1>1. /\ members \in Seq(STRING \X V) /\ NoNameTwice(members)
      /\ a - 1 \in Nat /\ o = Object(members)
  BY ObjectValue
<1>2. Error \notin V
  BY <1>1, NoErrorValue
<1>3. a # 0 /\ Proper[a] = ProperOf(V)
  BY <1>1, LevelBelow
<1> HIDE DEF V, members
<1>4. Named(members, name) <=> Get(o, name) # Error
  BY <1>1, <1>2, GetValue
<1>5. CASE Get(o, name) # Error
  <2>1. PICK after \in Seq(STRING \X V) :
                /\ Remove(Object(members), name) = <<TRUE, Object(after)>>
                /\ NoNameTwice(after)
                /\ Len(after) = Len(members) - 1
                /\ Get(Object(after), name) = Error
                /\ \A other : other # name => Get(Object(after), other) = Get(Object(members), other)
    BY <1>1, <1>2, <1>4, <1>5, RemoveIs
  <2>2. Object(after) \in ProperOf(V)
    BY <2>1, Made
  <2>3. Remove(o, name)[1] = TRUE /\ Remove(o, name)[2] = Object(after)
    BY <1>1, <2>1
  <2>4. Object(after)[2] = after /\ Object(after)[1] = "object"
    BY ArrayAndObject
  <2>5. QED
    BY <1>1, <1>3, <1>5, <2>1, <2>2, <2>3, <2>4 DEF members
<1>6. CASE Get(o, name) = Error
  BY <1>1, <1>2, <1>4, <1>6, RemoveIs
<1>7. QED
  BY <1>5, <1>6

(* An object of at most a levels. *)
Objects(a) == {o \in Proper[a] : o[1] = "object" /\ o \in Tree}

(* An object without entries, as json_value_init_object returns it.        *)
LEMMA EmptyObject ==
  /\ \A a \in Nat : a # 0 => Object(<<>>) \in Proper[a]
  /\ Object(<<>>) \in Tree /\ Object(<<>>)[1] = "object" /\ Object(<<>>) # Error
  /\ \A name : Get(Object(<<>>), name) = Error
<1>1. ASSUME NEW a \in Nat, a # 0
      PROVE  Object(<<>>) \in Proper[a]
  <2> DEFINE V == Proper[a - 1]
  <2>1. Proper[a] = ProperOf(V)
    BY <1>1, LevelBelow
  <2> HIDE DEF V
  <2>2. <<>> \in Seq(STRING \X V) /\ NoNameTwice(<<>>)
    BY DEF NoNameTwice
  <2>3. QED
    BY <2>1, <2>2, Made
<1>2. Object(<<>>) \in Tree
  <2>1. MaxLevels # 0 /\ MaxLevels \in Nat /\ MaxLevels <= MaxLevels
    BY LevelsAssumption, NestingAssumption
  <2>2. QED
    BY <1>1, <2>1, InTree
<1>3. \A name : ~Named(<<>>, name)
  BY DEF Named
<1>4. QED
  BY <1>1, <1>2, <1>3, ArrayAndObject, GetIs

(* The child that a path leads to first, or one that is made.              *)
Child(o, path) ==
  IF Get(o, Head(path)) = Error THEN Object(<<>>) ELSE Get(o, Head(path))

(* The object that a path enters, or that is made for it.                  *)
LEMMA ChildOfObject ==
  ASSUME NEW a \in Nat, NEW o \in Objects(a), NEW path \in Dotted
  PROVE  /\ Child(o, path) \in Tree
         /\ a - 1 \in Nat
         /\ a - 1 # 0 => Child(o, path) \in Proper[a - 1]
         /\ Get(o, Head(path)) # Error => Child(o, path) = Get(o, Head(path))
<1>1. a - 1 \in Nat
  BY ObjectValue DEF Objects
<1>2. CASE Get(o, Head(path)) = Error
  BY <1>1, <1>2, EmptyObject DEF Child
<1>3. CASE Get(o, Head(path)) # Error
  <2> DEFINE c == Get(o, Head(path))
  <2>1. c \in Proper[a - 1]
    BY <1>3, GetLevel DEF Objects
  <2>2. c \in Nested[MaxLevels - 1] /\ MaxLevels - 1 \in Nat /\ MaxLevels - 1 <= MaxLevels
    BY <1>3, GetLevel, InTree DEF Objects, Tree
  <2>3. c \in Tree
    BY SMTT(30), <2>2, InTree
  <2>4. QED
    BY <1>1, <1>3, <2>1, <2>3 DEF Child
<1>4. QED
  BY <1>2, <1>3

(* What DotSet does, in terms of the rest of the path.                     *)
LEMMA DotSetCases ==
  ASSUME NEW path \in Dotted, NEW o \in Tree, NEW v \in Tree, NEW granted \in Nat
  PROVE  LET name == Head(path)
             child == Child(o, path)
             below == DotSet[Tail(path)][child][v][granted - 1]
         IN DotSet[path][o][v][granted] =
              IF granted = 0 THEN <<FALSE, o>>
              ELSE IF Len(path) = 1 THEN <<TRUE, Set(o, name, v)>>
              ELSE IF child[1] # "object" THEN <<FALSE, o>>
              ELSE <<below[1], Set(o, name, below[2])>>
BY ZenonT(60), DotSetIs DEF SetBelow, Child

(* What a dotset must leave behind.                                        *)
SetsProperly(path) ==
  \A a, b, granted \in Nat : \A o \in Objects(a) : \A v \in Proper[b] :
    b + Len(path) <= a /\ v \in Tree =>
      /\ DotSet[path][o][v][granted][1] \in BOOLEAN
      /\ DotSet[path][o][v][granted][2] \in Proper[a]
      /\ DotSet[path][o][v][granted][2][1] = "object"

(* What json_object_dotset_value leaves behind is proper, whether or not   *)
(* it succeeds, if the value is low enough for the path.                   *)
LEMMA DotSetType ==
  \A path \in Dotted : SetsProperly(path)
<1> DEFINE A == {path \in Dotted : SetsProperly(path)}
<1>1. ASSUME NEW path \in Dotted, Len(path) # 1 => Tail(path) \in A
      PROVE  path \in A
  <2> SUFFICES ASSUME NEW a \in Nat, NEW b \in Nat, NEW granted \in Nat,
                      NEW o \in Objects(a), NEW v \in Proper[b],
                      b + Len(path) <= a, v \in Tree
               PROVE  /\ DotSet[path][o][v][granted][1] \in BOOLEAN
                      /\ DotSet[path][o][v][granted][2] \in Proper[a]
                      /\ DotSet[path][o][v][granted][2][1] = "object"
    BY DEF SetsProperly
  <2> DEFINE name == Head(path)
             child == Child(o, path)
             below == DotSet[Tail(path)][child][v][granted - 1]
             r == DotSet[path][o][v][granted]
  <2>1. o \in Tree /\ o \in Proper[a] /\ o[1] = "object"
    BY DEF Objects
  <2>2. r = IF granted = 0 THEN <<FALSE, o>>
            ELSE IF Len(path) = 1 THEN <<TRUE, Set(o, name, v)>>
            ELSE IF child[1] # "object" THEN <<FALSE, o>>
            ELSE <<below[1], Set(o, name, below[2])>>
    BY ZenonT(60), <2>1, DotSetCases
  <2>3. /\ child \in Tree /\ a - 1 \in Nat
        /\ a - 1 # 0 => child \in Proper[a - 1]
    BY ChildOfObject
  <2>4. name \in STRING /\ Len(path) \in Nat \ {0}
    BY PathLength
  <2> HIDE DEF name, child, below, r
  <2>5. CASE granted = 0 \/ (Len(path) # 1 /\ child[1] # "object")
    <3>1. r[1] = FALSE /\ r[2] = o
      BY <2>2, <2>5
    <3>2. QED
      BY <2>1, <3>1 DEF r
  <2>6. CASE granted # 0 /\ Len(path) = 1
    <3>1. r[1] = TRUE /\ r[2] = Set(o, name, v)
      BY <2>2, <2>6
    <3>2. b <= a - 1
      BY <2>3, <2>6
    <3>3. v \in Proper[a - 1]
      BY <2>3, <3>2, Levels
    <3>4. Set(o, name, v) \in Proper[a] /\ Set(o, name, v)[1] = "object"
      BY <2>1, <2>4, <3>3, SetObject
    <3>5. QED
      BY <3>1, <3>4 DEF r
  <2>7. CASE granted # 0 /\ Len(path) # 1 /\ child[1] = "object"
    <3>1. r[1] = below[1] /\ r[2] = Set(o, name, below[2])
      BY <2>2, <2>7
    <3>2. Len(Tail(path)) = Len(path) - 1 /\ Tail(path) \in Dotted
      BY <2>7, PathLength
    <3>3. b + Len(Tail(path)) <= a - 1 /\ a - 1 # 0 /\ granted - 1 \in Nat
      BY <2>3, <2>4, <2>7, <3>2
    <3>4. child \in Objects(a - 1)
      BY <2>3, <2>7, <3>3 DEF Objects
    <3>5. SetsProperly(Tail(path))
      BY <1>1, <2>7
    <3>6. below[1] \in BOOLEAN /\ below[2] \in Proper[a - 1]
      BY <2>3, <3>3, <3>4, <3>5 DEF SetsProperly, below
    <3>7. Set(o, name, below[2]) \in Proper[a] /\ Set(o, name, below[2])[1] = "object"
      BY <2>1, <2>4, <3>6, SetObject
    <3>8. QED
      BY <3>1, <3>6, <3>7 DEF r
  <2>8. QED
    BY <2>5, <2>6, <2>7
<1> HIDE DEF A
<1>2. Dotted \subseteq A
  BY <1>1, PathInduction
<1>3. QED
  BY <1>2 DEF A

(* What json_object_dotremove leaves behind is proper.                     *)
LEMMA DotRemoveType ==
  \A path \in Dotted : \A a \in Nat : \A o \in Objects(a) :
    /\ DotRemove[path][o][1] \in BOOLEAN
    /\ DotRemove[path][o][2] \in Proper[a]
    /\ DotRemove[path][o][2][1] = "object"
<1> DEFINE Good(path) ==
             \A a \in Nat : \A o \in Objects(a) :
               /\ DotRemove[path][o][1] \in BOOLEAN
               /\ DotRemove[path][o][2] \in Proper[a]
               /\ DotRemove[path][o][2][1] = "object"
           A == {path \in Dotted : Good(path)}
<1>1. ASSUME NEW path \in Dotted, Len(path) # 1 => Tail(path) \in A
      PROVE  path \in A
  <2> SUFFICES ASSUME NEW a \in Nat, NEW o \in Objects(a)
               PROVE  /\ DotRemove[path][o][1] \in BOOLEAN
                      /\ DotRemove[path][o][2] \in Proper[a]
                      /\ DotRemove[path][o][2][1] = "object"
    OBVIOUS
  <2>0. Len(path) # 1 => Good(Tail(path))
    BY <1>1
  <2> HIDE DEF Good
  <2> DEFINE name == Head(path)
             child == Get(o, name)
             below == DotRemove[Tail(path)][child]
             r == DotRemove[path][o]
  <2>1. o \in Tree /\ o \in Proper[a] /\ o[1] = "object"
    BY DEF Objects
  <2>2. r = IF Len(path) = 1 THEN Remove(o, name)
            ELSE IF child[1] # "object" THEN <<FALSE, o>>
            ELSE <<below[1], Set(o, name, below[2])>>
    BY <2>1, DotRemoveIs DEF RemoveBelow
  <2>3. name \in STRING /\ Len(path) \in Nat \ {0}
    BY PathLength
  <2> HIDE DEF name, child, below, r
  <2>4. CASE Len(path) = 1
    <3>1. r = Remove(o, name)
      BY <2>2, <2>4
    <3>2. CASE Get(o, name) = Error
      <4>1. Remove(o, name) = <<FALSE, o>>
        BY <2>1, <3>2, RemoveObject
      <4>2. r[1] = FALSE /\ r[2] = o
        BY <3>1, <4>1
      <4>3. QED
        BY <2>1, <4>2 DEF r
    <3>3. CASE Get(o, name) # Error
      <4>1. /\ Remove(o, name)[1] = TRUE /\ Remove(o, name)[2] \in Proper[a]
            /\ Remove(o, name)[2][1] = "object"
        BY <2>1, <3>3, RemoveObject
      <4>2. QED
        BY <3>1, <4>1 DEF r
    <3>4. QED
      BY <3>2, <3>3
  <2>5. CASE Len(path) # 1 /\ child[1] # "object"
    <3>1. r[1] = FALSE /\ r[2] = o
      BY <2>2, <2>5
    <3>2. QED
      BY <2>1, <3>1 DEF r
  <2>6. CASE Len(path) # 1 /\ child[1] = "object"
    <3>1. r[1] = below[1] /\ r[2] = Set(o, name, below[2])
      BY <2>2, <2>6
    <3>2. Get(o, name) # Error
      BY <2>6 DEF Error, child
    <3>3. Child(o, path) = child
      BY <3>2 DEF Child, child, name
    <3>4. child \in Tree /\ a - 1 \in Nat /\ child \in Proper[a - 1]
      BY <2>1, <3>2, <3>3, ChildOfObject, GetLevel DEF child
    <3>5. child \in Objects(a - 1)
      BY <2>6, <3>4 DEF Objects
    <3>6. below[1] \in BOOLEAN /\ below[2] \in Proper[a - 1]
      BY <2>0, <2>6, <3>4, <3>5 DEF Good, below
    <3>7. Set(o, name, below[2]) \in Proper[a] /\ Set(o, name, below[2])[1] = "object"
      BY <2>1, <2>3, <3>6, SetObject
    <3>8. QED
      BY <3>1, <3>6, <3>7 DEF r
  <2>7. QED
    BY <2>4, <2>5, <2>6
<1> HIDE DEF A
<1>2. Dotted \subseteq A
  BY <1>1, PathInduction
<1>3. QED
  BY <1>2 DEF A

(* Texts. *)

(* What holds of a text if it holds of its rest holds of all texts.        *)
LEMMA TextInduction ==
  ASSUME NEW A, \A s \in Text : (s # <<>> => Tail(s) \in A) => s \in A
  PROVE  Text \subseteq A
<1> DEFINE B == {n \in Nat : \A s \in Text : Len(s) = n => s \in A}
<1>0. \A s \in Text : /\ Len(s) \in Nat /\ (s # <<>> <=> Len(s) # 0)
                      /\ s # <<>> => Tail(s) \in Text /\ Len(Tail(s)) = Len(s) - 1
  BY EmptySeq, LenProperties, HeadTailProperties DEF Text
<1>1. 0 \in B
  BY <1>0
<1>2. ASSUME NEW n \in B
      PROVE  n + 1 \in B
  <2>1. n \in Nat /\ n + 1 \in Nat /\ n + 1 - 1 = n /\ \A s \in Text : Len(s) = n => s \in A
    OBVIOUS
  <2>2. ASSUME NEW s \in Text, Len(s) = n + 1
        PROVE  s \in A
    <3>1. s # <<>> => Tail(s) \in Text /\ Len(Tail(s)) = n
      BY <1>0, <2>1, <2>2
    <3>2. QED
      BY <2>1, <3>1
  <2>3. QED
    BY <2>1, <2>2
<1>3. B = Nat
  <2> HIDE DEF B
  <2>1. B \in SUBSET Nat
    BY DEF B
  <2>2. QED
    BY <1>1, <1>2, <2>1, CopyF!Upward
<1>4. QED
  BY <1>0, <1>3

(* The recursive functions of texts.                                       *)
SkipStep(f, s) == IF First(s) = <<" ">> THEN f[Tail(s)] ELSE s

TextOfLength(n) == {s \in Text : Len(s) = n}

SkipF == INSTANCE Recursion WITH S <- Text, Step <- SkipStep, Level <- TextOfLength

(* A text that is not empty has a first token and a rest.                  *)
LEMMA TextFacts ==
  \A s \in Text :
    /\ Len(s) \in Nat
    /\ s = <<>> <=> Len(s) = 0
    /\ First(s) # <<"end">> => s # <<>>
    /\ s # <<>> => /\ Tail(s) \in Text /\ Len(Tail(s)) = Len(s) - 1
                   /\ First(s) = s[1] /\ s[1] \in Token
<1> TAKE s \in Text
<1>1. s \in Seq(Token)
  BY DEF Text
<1>2. Len(s) \in Nat /\ (s = <<>> <=> Len(s) = 0)
  BY <1>1, EmptySeq, LenProperties
<1>3. s # <<>> => Tail(s) \in Text /\ Len(Tail(s)) = Len(s) - 1 /\ s[1] \in Token
  BY <1>1, <1>2, HeadTailProperties DEF Text
<1>4. QED
  BY <1>2, <1>3 DEF First

(* Two functions that agree on shorter texts agree on the rest of a text.  *)
LEMMA AgreeOnRest ==
  ASSUME NEW f, NEW g, NEW n \in Nat, NEW x \in Text, x \in TextOfLength(n),
         \A m \in 0..n-1 : \A y \in Text : y \in TextOfLength(m) => f[y] = g[y]
  PROVE  x # <<>> => f[Tail(x)] = g[Tail(x)]
<1> SUFFICES ASSUME x # <<>>
             PROVE  f[Tail(x)] = g[Tail(x)]
  OBVIOUS
<1>1. Len(x) = n
  BY DEF TextOfLength
<1>2. Tail(x) \in Text /\ Len(Tail(x)) = n - 1 /\ n # 0
  BY <1>1, TextFacts
<1>3. n - 1 \in 0..n-1
  BY <1>2
<1>4. Tail(x) \in TextOfLength(n - 1)
  BY <1>2 DEF TextOfLength
<1>5. QED
  BY <1>2, <1>3, <1>4

(* Every text has a length.                                                *)
LEMMA EveryText ==
  \A x \in Text : \E n \in Nat : x \in TextOfLength(n)
BY TextFacts DEF TextOfLength

(* Skipping white space, token by token.                                   *)
LEMMA SkipIs ==
  \A s \in Text : Skip[s] = IF First(s) = <<" ">> THEN Skip[Tail(s)] ELSE s
<1>1. SkipF!EveryArgument
  BY EveryText DEF SkipF!EveryArgument
<1>2. SkipF!LowerLevels
  <2> SUFFICES ASSUME NEW f, NEW g, NEW n \in Nat, NEW x \in Text, x \in TextOfLength(n),
                      \A m \in 0..n-1 : \A y \in Text : y \in TextOfLength(m) => f[y] = g[y]
               PROVE  SkipStep(f, x) = SkipStep(g, x)
    BY DEF SkipF!LowerLevels
  <2>1. x # <<>> => f[Tail(x)] = g[Tail(x)]
    BY AgreeOnRest
  <2>2. First(x) = <<" ">> => x # <<>>
    <3>1. <<" ">> # <<"end">>
      OBVIOUS
    <3>2. QED
      BY <3>1, TextFacts
  <2>3. QED
    BY <2>1, <2>2 DEF SkipStep
<1>3. \E f : f = [s \in Text |-> SkipStep(f, s)]
  BY <1>1, <1>2, SkipF!FunctionExists
<1>4. Skip = [s \in Text |-> SkipStep(Skip, s)]
  BY <1>3, Zenon DEF Skip, SkipStep
<1>5. QED
  BY <1>4 DEF SkipStep

(* What is left begins with no white space and is no longer.               *)
LEMMA SkipType ==
  \A s \in Text : Skip[s] \in Text /\ First(Skip[s]) # <<" ">> /\ Len(Skip[s]) <= Len(s)
<1> DEFINE A == {s \in Text : Skip[s] \in Text /\ First(Skip[s]) # <<" ">> /\ Len(Skip[s]) <= Len(s)}
<1>1. ASSUME NEW s \in Text, s # <<>> => Tail(s) \in A
      PROVE  s \in A
  <2>1. CASE First(s) = <<" ">>
    <3>1. s # <<>>
      <4>1. <<" ">> # <<"end">>
        OBVIOUS
      <4>2. QED
        BY <2>1, <4>1, TextFacts
    <3>2. Skip[s] = Skip[Tail(s)] /\ Tail(s) \in A /\ Len(Tail(s)) = Len(s) - 1 /\ Len(s) \in Nat
      BY <1>1, <2>1, <3>1, SkipIs, TextFacts
    <3>3. Skip[s] \in Text /\ First(Skip[s]) # <<" ">> /\ Len(Skip[s]) <= Len(s) - 1
      BY <3>2
    <3>4. Len(Skip[s]) \in Nat
      BY <3>3, TextFacts
    <3>5. Len(Skip[s]) <= Len(s)
      <4>1. Len(s) \in Nat /\ Len(Skip[s]) <= Len(s) - 1
        BY <3>2, <3>3
      <4>2. QED
        BY <3>4, <4>1
    <3>6. QED
      BY <3>3, <3>5
  <2>2. CASE First(s) # <<" ">>
    <3>1. Skip[s] = s /\ Len(s) \in Nat
      BY <2>2, SkipIs, TextFacts
    <3>2. Len(s) <= Len(s)
      BY <3>1
    <3>3. QED
      BY <2>2, <3>1, <3>2
  <2>3. QED
    BY <2>1, <2>2
<1> HIDE DEF A
<1>2. Text \subseteq A
  BY <1>1, TextInduction
<1>3. QED
  BY <1>2 DEF A

(* Tokens that are no values.                                              *)
Marks == {"{", "}", "[", "]", ",", ":", " ", "-", "broken"}

(* The type of a token that is a type only.                                *)
LEMMA Single ==
  \A x : <<x>>[1] = x
OBVIOUS

(* The tokens are the values that are no containers, the numbers with six  *)
(* decimals and the marks.                                                 *)
LEMMA Tokens ==
  \A t \in Token :
    /\ t \in Scalar \/ t[1] = "float" \/ t[1] \in Marks
    /\ t[1] \in Marks => t = <<t[1]>>
    /\ t[1] \in {"num", "str", "bool", "null"} => t \in Scalar
    /\ t[1] = "str" => t[2] \in STRING
    /\ t[1] \in {"num", "float"} => t[2] \in Int
    /\ t[1] # "end"
<1> TAKE t \in Token
<1>1. CASE t \in Scalar
  <2>1. /\ t[1] = "str" => t[2] \in STRING
        /\ t[1] = "num" => t[2] \in Int
    BY <1>1 DEF Scalar
  <2>2. t[1] \notin Marks /\ t[1] # "end" /\ t[1] # "float"
    BY <1>1, ScalarType DEF Marks
  <2>3. QED
    BY <1>1, <2>1, <2>2
<1>2. CASE t \in {"float"} \X Int
  <2>1. t[1] = "float" /\ t[2] \in Int
    BY <1>2
  <2>2. QED
    BY <2>1 DEF Marks
<1>3. CASE t \notin Scalar /\ t \notin {"float"} \X Int
  <2>1. t \in {<<"{">>, <<"}">>, <<"[">>, <<"]">>, <<",">>, <<":">>, <<" ">>,
               <<"-">>, <<"broken">>}
    BY <1>3 DEF Token
  <2>2. PICK x \in Marks : t = <<x>>
    BY <2>1, Zenon DEF Marks
  <2>3. t[1] \in Marks /\ t = <<t[1]>>
    BY <2>2, Single
  <2>4. t[1] \notin {"num", "str", "bool", "null", "float"} /\ t[1] # "end"
    BY <2>3 DEF Marks
  <2>5. QED
    BY <2>3, <2>4
<1>4. QED
  BY <1>1, <1>2, <1>3

(* What the first token is. *)
LEMMA Firsts ==
  \A s \in Text :
    /\ First(s)[1] = "end" <=> s = <<>>
    /\ \A x \in Marks : First(s) = <<x>> <=> First(s)[1] = x
    /\ s # <<>> => First(s) = s[1] /\ First(s) \in Token
<1> TAKE s \in Text
<1>1. <<"end">>[1] = "end"
  BY Single
<1>2. \A x \in Marks : x # "end"
  BY DEF Marks
<1>3. CASE s = <<>>
  <2>1. First(s) = <<"end">>
    BY <1>3 DEF First
  <2>2. QED
    BY <1>1, <1>2, <1>3, <2>1, Single
<1>4. CASE s # <<>>
  <2>1. First(s) = s[1] /\ First(s) \in Token
    BY <1>4, TextFacts
  <2>2. QED
    BY <1>2, <1>4, <2>1, Single, Tokens
<1>5. QED
  BY <1>3, <1>4

(* Parsers: what they may return when values are in R.                     *)
Parser(R) == [Text -> (R \cup {Error}) \X Text]

LoopOf(type, parse, s, loop, m) ==
  loop = [n \in 0..m |->
        IF n = 0 THEN Open(s, <<>>)
        ELSE IF type = "array" THEN NextItem(parse, loop[n - 1])
        ELSE NextMember(parse, loop[n - 1])]

(* The passes of a loop exist, however many.                               *)
LEMMA LoopExists ==
  ASSUME NEW type, NEW parse, NEW s
  PROVE  \A m \in Nat : \E loop : LoopOf(type, parse, s, loop, m)
<1> DEFINE Pass(c) == IF type = "array" THEN NextItem(parse, c) ELSE NextMember(parse, c)
           Fine(h, m) == h = [n \in 0..m |-> IF n = 0 THEN Open(s, <<>>) ELSE Pass(h[n - 1])]
           A == {m \in Nat : \E h : Fine(h, m)}
<1>1. ASSUME NEW h, NEW m, Fine(h, m)
      PROVE  LoopOf(type, parse, s, h, m)
  BY <1>1 DEF LoopOf
<1> HIDE DEF Pass
<1>2. 0 \in A
  <2> DEFINE h == [n \in 0..0 |-> Open(s, <<>>)]
  <2>1. Fine(h, 0)
    OBVIOUS
  <2>2. QED
    BY <2>1
<1>3. ASSUME NEW m \in A
      PROVE  m + 1 \in A
  <2>1. PICK h : Fine(h, m)
    OBVIOUS
  <2> DEFINE g == [n \in 0..m+1 |-> IF n <= m THEN h[n] ELSE Pass(h[m])]
  <2>2. \A n \in 0..m+1 : g[n] = IF n = 0 THEN Open(s, <<>>) ELSE Pass(g[n - 1])
    <3> TAKE n \in 0..m+1
    <3>1. CASE n \in 0..m
      <4>1. g[n] = h[n] /\ h[n] = IF n = 0 THEN Open(s, <<>>) ELSE Pass(h[n - 1])
        BY <2>1, <3>1
      <4>2. n # 0 => g[n - 1] = h[n - 1]
        BY <3>1
      <4>3. QED
        BY <4>1, <4>2
    <3>2. CASE n = m + 1
      <4>1. n - 1 = m /\ n # 0 /\ m \in 0..m+1 /\ g[m] = h[m] /\ g[n] = Pass(h[m])
        BY <3>2
      <4>2. QED
        BY <4>1
    <3>3. QED
      BY <3>1, <3>2
  <2>3. Fine(g, m + 1)
    <3>1. g = [n \in 0..m+1 |-> g[n]]
      OBVIOUS
    <3> HIDE DEF g
    <3>2. QED
      BY <2>2, <3>1
  <2>4. m + 1 \in Nat /\ \E k : Fine(k, m + 1)
    <3> HIDE DEF g, Fine
    <3>1. QED
      BY <2>3
  <2>5. QED
    BY <2>4
<1>4. A = Nat
  <2> HIDE DEF A
  <2>1. A \in SUBSET Nat
    BY DEF A
  <2>2. QED
    BY <1>2, <1>3, <2>1, CopyF!Upward
<1>5. QED
  BY <1>1, <1>4

(* An indexed invariant of the passes holds of their result.               *)
LEMMA EntriesInvariant ==
  ASSUME NEW type, NEW parse, NEW s \in Text, NEW Q,
         Open(s, <<>>) \in Q[0],
         \A k \in 1..Len(s) : \A c \in Q[k - 1] :
           /\ type = "array" => NextItem(parse, c) \in Q[k]
           /\ type # "array" => NextMember(parse, c) \in Q[k]
  PROVE  Entries(type, parse, s) \in Q[Len(s)]
<1> DEFINE loop == CHOOSE loop : LoopOf(type, parse, s, loop, Len(s))
<1>1. Len(s) \in Nat
  BY TextFacts
<1>2. LoopOf(type, parse, s, loop, Len(s))
  BY <1>1, LoopExists
<1>3. Entries(type, parse, s) = loop[Len(s)]
  BY Zenon DEF Entries, LoopOf
<1> HIDE DEF loop
<1> DEFINE A == {n \in Nat : n <= Len(s) => loop[n] \in Q[n]}
<1>4. ASSUME NEW n \in 0..Len(s)
      PROVE  loop[n] = IF n = 0 THEN Open(s, <<>>)
                       ELSE IF type = "array" THEN NextItem(parse, loop[n - 1])
                       ELSE NextMember(parse, loop[n - 1])
  BY <1>2 DEF LoopOf
<1>5. 0 \in A
  <2>1. 0 \in 0..Len(s)
    BY <1>1
  <2>2. loop[0] = Open(s, <<>>)
    BY <1>4, <2>1
  <2>3. QED
    BY <2>2
<1>6. ASSUME NEW n \in A
      PROVE  n + 1 \in A
  <2> SUFFICES ASSUME n + 1 <= Len(s)
               PROVE  loop[n + 1] \in Q[n + 1]
    OBVIOUS
  <2>1. /\ n \in Nat /\ n <= Len(s) /\ n + 1 \in 0..Len(s) /\ n + 1 # 0 /\ n + 1 - 1 = n
        /\ n + 1 \in 1..Len(s)
    BY <1>1
  <2>2. loop[n] \in Q[n + 1 - 1]
    BY <2>1
  <2>3. loop[n + 1] = IF type = "array" THEN NextItem(parse, loop[n]) ELSE NextMember(parse, loop[n])
    BY <1>4, <2>1
  <2>4. QED
    BY <2>1, <2>2, <2>3
<1>7. A = Nat
  <2> HIDE DEF A
  <2>1. A \in SUBSET Nat
    BY DEF A
  <2>2. QED
    BY <1>5, <1>6, <2>1, CopyF!Upward
<1>8. QED
  BY <1>1, <1>3, <1>7

(* The state of a container being parsed, whose entries are in G.          *)
States(G) == [ahead : Text, got : G, state : {"open", "closed", "failed"}]

(* Behind an entry the container is open, closed or has failed.            *)
LEMMA ProceedType ==
  ASSUME NEW G, <<>> \in G, NEW s \in Text, NEW got \in G, NEW bracket \in Marks
  PROVE  Proceed(s, got, bracket) \in States(G)
<1> DEFINE rest == Skip[s]
<1>1. rest \in Text
  BY SkipType
<1> HIDE DEF rest
<1>2. Proceed(s, got, bracket) = IF First(rest) = <<",">> THEN Open(Skip[Tail(rest)], got)
     ELSE IF First(rest) = <<bracket>>
     THEN [ahead |-> Tail(rest), got |-> got, state |-> "closed"]
     ELSE Failed
  BY DEF Proceed, rest
<1>3. First(rest) = <<",">> \/ First(rest) = <<bracket>> => Tail(rest) \in Text
  <2>1. "," \in Marks /\ \A x \in Marks : x # "end"
    BY DEF Marks
  <2>2. First(rest) = <<",">> \/ First(rest) = <<bracket>> => First(rest)[1] # "end"
    BY ZenonT(60), <1>1, <2>1, Firsts
  <2>3. QED
    BY <1>1, <2>2, Firsts, TextFacts
<1>4. First(rest) = <<",">> => Skip[Tail(rest)] \in Text
  BY <1>3, SkipType
<1>5. <<>> \in Text
  BY DEF Text
<1>6. CASE First(rest) = <<",">>
  <2>1. Open(Skip[Tail(rest)], got) \in States(G)
    BY <1>4, <1>6 DEF States, Open
  <2>2. QED
    BY <1>2, <1>6, <2>1
<1>7. CASE First(rest) # <<",">> /\ First(rest) = <<bracket>>
  <2>1. [ahead |-> Tail(rest), got |-> got, state |-> "closed"] \in States(G)
    BY <1>3, <1>7 DEF States
  <2>2. QED
    BY <1>2, <1>7, <2>1
<1>8. CASE First(rest) # <<",">> /\ First(rest) # <<bracket>>
  <2>1. Failed \in States(G)
    BY <1>5 DEF States, Failed
  <2>2. QED
    BY <1>2, <1>8, <2>1
<1>9. QED
  BY <1>6, <1>7, <1>8

(* A member whose name is not there can be appended.                       *)
LEMMA AppendMember ==
  ASSUME NEW V, NEW members \in Seq(STRING \X V), NoNameTwice(members),
         NEW e \in STRING \X V, ~Named(members, e[1])
  PROVE  /\ Append(members, e) \in Seq(STRING \X V)
         /\ NoNameTwice(Append(members, e))
<1> DEFINE after == Append(members, e)
<1>1. Len(members) \in Nat /\ DOMAIN members = 1..Len(members)
  BY LenProperties
<1>2. /\ after \in Seq(STRING \X V) /\ Len(after) = Len(members) + 1
      /\ after[Len(members) + 1] = e
      /\ \A i \in 1..Len(members) : after[i] = members[i]
  BY AppendProperties
<1>3. DOMAIN after = 1..Len(members) + 1
  BY <1>2, LenProperties
<1> HIDE DEF after
<1>4. \A i \in DOMAIN after : i = Len(members) + 1 \/ i \in DOMAIN members
  BY <1>1, <1>3
<1>5. \A i \in DOMAIN members : members[i][1] # e[1]
  BY DEF Named
<1>6. NoNameTwice(after)
  BY <1>1, <1>2, <1>4, <1>5 DEF NoNameTwice
<1>7. QED
  BY <1>2, <1>6 DEF after

(* Members without a name twice.                                           *)
ObjectMembers(R) == {m \in Seq(STRING \X R) : NoNameTwice(m)}

(* One pass of the loop of parse_array_value.                              *)
LEMMA NextItemType ==
  ASSUME NEW R, Error \notin R, NEW parse \in Parser(R), NEW c \in States(Seq(R))
  PROVE  NextItem(parse, c) \in States(Seq(R))
<1> DEFINE item == parse[c.ahead]
<1>1. c.ahead \in Text /\ c.got \in Seq(R)
  BY DEF States
<1>2. item[1] \in R \cup {Error} /\ item[2] \in Text
  BY <1>1 DEF Parser
<1> HIDE DEF item
<1>3. NextItem(parse, c) = IF c.state # "open" THEN c
     ELSE IF item[1] = Error THEN Failed
     ELSE Proceed(item[2], Append(c.got, item[1]), "]")
  BY DEF NextItem, item
<1>4. Failed \in States(Seq(R))
  BY DEF Failed, States, Text
<1>5. item[1] # Error => Proceed(item[2], Append(c.got, item[1]), "]") \in States(Seq(R))
  <2>1. item[1] # Error => Append(c.got, item[1]) \in Seq(R)
    BY <1>1, <1>2
  <2>2. <<>> \in Seq(R) /\ "]" \in Marks
    BY DEF Marks
  <2>3. QED
    BY <1>2, <2>1, <2>2, ProceedType
<1>6. QED
  BY <1>3, <1>4, <1>5

(* One pass of the loop of parse_object_value: no name gets there twice.   *)
LEMMA NextMemberType ==
  ASSUME NEW R, Error \notin R, NEW parse \in Parser(R), NEW c \in States(ObjectMembers(R))
  PROVE  NextMember(parse, c) \in States(ObjectMembers(R))
<1> DEFINE name == First(c.ahead)
           colon == Skip[Tail(c.ahead)]
           value == parse[Tail(colon)]
<1>1. c.ahead \in Text /\ c.got \in ObjectMembers(R)
  BY DEF States
<1>2. name[1] = "str" => name[2] \in STRING /\ Tail(c.ahead) \in Text
  BY <1>1, Firsts, Tokens, TextFacts
<1>3. name[1] = "str" => colon \in Text
  BY <1>2, SkipType
<1>4. name[1] = "str" /\ First(colon) = <<":">> => Tail(colon) \in Text
  <2>1. ":" \in Marks /\ ":" # "end"
    BY DEF Marks
  <2>2. QED
    BY <1>3, <2>1, Firsts, TextFacts
<1>5. name[1] = "str" /\ First(colon) = <<":">> => value[1] \in R \cup {Error} /\ value[2] \in Text
  BY <1>4 DEF Parser
<1> HIDE DEF name, colon, value
<1>6. NextMember(parse, c) = IF c.state # "open" THEN c
     ELSE IF name[1] # "str" THEN Failed
     ELSE IF First(colon) # <<":">> THEN Failed
     ELSE IF value[1] = Error THEN Failed
     ELSE IF Get(Object(c.got), name[2]) # Error THEN Failed
     ELSE Proceed(value[2], Append(c.got, <<name[2], value[1]>>), "}")
  BY DEF NextMember, name, colon, value
<1>7. <<>> \in ObjectMembers(R)
  BY DEF ObjectMembers, NoNameTwice
<1>8. Failed \in States(ObjectMembers(R))
  BY <1>7 DEF Failed, States, Text
<1>9. ASSUME name[1] = "str", First(colon) = <<":">>, value[1] # Error,
             Get(Object(c.got), name[2]) = Error
      PROVE  Proceed(value[2], Append(c.got, <<name[2], value[1]>>), "}")
               \in States(ObjectMembers(R))
  <2>1. Append(c.got, <<name[2], value[1]>>) \in ObjectMembers(R)
    <3> DEFINE e == <<name[2], value[1]>>
    <3>1. e \in STRING \X R /\ e[1] = name[2]
      BY <1>2, <1>5, <1>9
    <3>2. c.got \in Seq(STRING \X R) /\ NoNameTwice(c.got)
      BY <1>1 DEF ObjectMembers
    <3>3. ~Named(c.got, name[2])
      BY <1>9, <3>2, GetValue
    <3> HIDE DEF e
    <3>4. Append(c.got, e) \in Seq(STRING \X R) /\ NoNameTwice(Append(c.got, e))
      BY <3>1, <3>2, <3>3, AppendMember
    <3>5. QED
      BY <3>4 DEF e, ObjectMembers
  <2>2. "}" \in Marks
    BY DEF Marks
  <2>3. QED
    BY <1>5, <1>7, <1>9, <2>1, <2>2, ProceedType
<1>10. QED
  BY <1>6, <1>8, <1>9
------------------------------------------------------------------------------
(* What texts are made of.                                                 *)
LEMMA TokensOfText ==
  /\ Scalar \subseteq Token
  /\ \A x \in Marks : <<x>> \in Token
  /\ \A n \in STRING : <<"str", n>> \in Token
  /\ \A n \in Int : <<"num", n>> \in Scalar /\ <<"float", n>> \in Token
  /\ <<>> \in Text
  /\ \A t \in Token : <<t>> \in Text
  /\ \A s, t \in Text : s \o t \in Text
<1>1. Scalar \subseteq Token
  BY DEF Token
<1>2. ASSUME NEW x \in Marks
      PROVE  <<x>> \in Token
  BY DEF Token, Marks
<1>3. ASSUME NEW n \in STRING
      PROVE  <<"str", n>> \in Token
  BY DEF Token, Scalar
<1>4. ASSUME NEW n \in Int
      PROVE  <<"num", n>> \in Scalar /\ <<"float", n>> \in Token
  BY DEF Scalar, Token
<1>5. \A s, t \in Text : s \o t \in Text
  BY ConcatProperties DEF Text
<1>6. <<>> \in Text /\ \A t \in Token : <<t>> \in Text
  BY DEF Text
<1>7. QED
  BY <1>1, <1>2, <1>3, <1>4, <1>5, <1>6

(* A failure is a result.                                                  *)
LEMMA FailureType ==
  ASSUME NEW W
  PROVE  Failure \in (W \cup {Error}) \X Text
<1>1. <<>> \in Text
  BY TokensOfText
<1> DEFINE e == Error
           nothing == <<>>
<1>2. e \in W \cup {Error} /\ nothing \in Text
  BY <1>1
<1>3. Failure = <<e, nothing>>
  BY DEF Failure
<1> HIDE DEF e, nothing
<1>4. QED
  BY <1>2, <1>3

(* The loops, when they have ended.                                        *)
LEMMA EntriesType ==
  ASSUME NEW R, Error \notin R, NEW parse \in Parser(R), NEW s \in Text
  PROVE  /\ Entries("array", parse, s) \in States(Seq(R))
         /\ Entries("object", parse, s) \in States(ObjectMembers(R))
<1>1. Entries("array", parse, s) \in States(Seq(R))
  <2> DEFINE Q == [k \in Nat |-> States(Seq(R))]
  <2>1. Open(s, <<>>) \in Q[0]
    BY DEF Open, States
  <2>2. ASSUME NEW k \in 1..Len(s), NEW c \in Q[k - 1]
        PROVE  NextItem(parse, c) \in Q[k]
    <3>1. k \in Nat /\ k - 1 \in Nat
      BY TextFacts
    <3>2. Q[k] = States(Seq(R)) /\ Q[k - 1] = States(Seq(R))
      BY <3>1
    <3> HIDE DEF Q
    <3>3. QED
      BY <2>2, <3>2, NextItemType
  <2>3. Len(s) \in Nat
    BY TextFacts
  <2>4. Q[Len(s)] = States(Seq(R))
    BY <2>3
  <2> HIDE DEF Q
  <2>5. Entries("array", parse, s) \in Q[Len(s)]
    BY <2>1, <2>2, EntriesInvariant
  <2>6. QED
    BY <2>4, <2>5
<1>2. Entries("object", parse, s) \in States(ObjectMembers(R))
  <2> DEFINE Q == [k \in Nat |-> States(ObjectMembers(R))]
  <2>0. <<>> \in ObjectMembers(R)
    BY DEF ObjectMembers, NoNameTwice
  <2>1. Open(s, <<>>) \in Q[0]
    BY <2>0 DEF Open, States
  <2>2. ASSUME NEW k \in 1..Len(s), NEW c \in Q[k - 1]
        PROVE  NextMember(parse, c) \in Q[k]
    <3>1. k \in Nat /\ k - 1 \in Nat
      BY TextFacts
    <3>2. Q[k] = States(ObjectMembers(R)) /\ Q[k - 1] = States(ObjectMembers(R))
      BY <3>1
    <3> HIDE DEF Q
    <3>3. QED
      BY <2>2, <3>2, NextMemberType
  <2>3. Len(s) \in Nat
    BY TextFacts
  <2>4. Q[Len(s)] = States(ObjectMembers(R))
    BY <2>3
  <2> HIDE DEF Q
  <2>5. Entries("object", parse, s) \in Q[Len(s)]
    BY <2>1, <2>2, EntriesInvariant
  <2>6. QED
    BY <2>4, <2>5
<1>3. QED
  BY <1>1, <1>2

(* parse_array_value returns an array or the error.                        *)
LEMMA ParseArrayType ==
  ASSUME NEW R, Error \notin R, NEW parse \in Parser(R), NEW s \in Text, s # <<>>
  PROVE  parse_array_value(parse, s) \in (ProperOf(R) \cup {Error}) \X Text
<1> DEFINE r == Skip[Tail(s)]
           end == Entries("array", parse, r)
<1>1. r \in Text
  BY SkipType, TextFacts
<1>2. end \in States(Seq(R))
  BY <1>1, EntriesType
<1>3. First(r) = <<"]">> => Tail(r) \in Text
  <2>1. "]" \in Marks /\ "]" # "end"
    BY DEF Marks
  <2>2. QED
    BY <1>1, <2>1, Firsts, TextFacts
<1> HIDE DEF r, end
<1>4. parse_array_value(parse, s) =
        IF First(r) = <<"]">> THEN <<Array(<<>>), Tail(r)>>
        ELSE IF end.state = "closed" THEN <<Array(end.got), end.ahead>>
        ELSE Failure
  BY DEF parse_array_value, r, end
<1>5. First(r) = <<"]">> => <<Array(<<>>), Tail(r)>> \in (ProperOf(R) \cup {Error}) \X Text
  <2>1. <<>> \in Seq(R)
    OBVIOUS
  <2>2. Array(<<>>) \in ProperOf(R)
    BY <2>1, Made
  <2>3. QED
    BY <1>3, <2>2
<1>6. <<Array(end.got), end.ahead>> \in (ProperOf(R) \cup {Error}) \X Text
  <2>1. end.got \in Seq(R) /\ end.ahead \in Text
    BY <1>2 DEF States
  <2>2. Array(end.got) \in ProperOf(R)
    BY <2>1, Made
  <2>3. QED
    BY <2>1, <2>2
<1>7. Failure \in (ProperOf(R) \cup {Error}) \X Text
  BY FailureType
<1>8. QED
  BY <1>4, <1>5, <1>6, <1>7

(* parse_object_value returns an object or the error.                      *)
LEMMA ParseObjectType ==
  ASSUME NEW R, Error \notin R, NEW parse \in Parser(R), NEW s \in Text, s # <<>>
  PROVE  parse_object_value(parse, s) \in (ProperOf(R) \cup {Error}) \X Text
<1> DEFINE r == Skip[Tail(s)]
           end == Entries("object", parse, r)
<1>1. r \in Text
  BY SkipType, TextFacts
<1>2. end \in States(ObjectMembers(R))
  BY <1>1, EntriesType
<1>3. First(r) = <<"}">> => Tail(r) \in Text
  <2>1. "}" \in Marks /\ "}" # "end"
    BY DEF Marks
  <2> HIDE DEF r
  <2>2. First(r) = <<"}">> => r # <<>>
    BY ZenonT(60), <1>1, <2>1, Firsts
  <2>3. QED
    BY <1>1, <2>2, TextFacts
<1> HIDE DEF r, end
<1>4. parse_object_value(parse, s) =
        IF First(r) = <<"}">> THEN <<Object(<<>>), Tail(r)>>
        ELSE IF end.state = "closed" THEN <<Object(end.got), end.ahead>>
        ELSE Failure
  BY DEF parse_object_value, r, end
<1>5. First(r) = <<"}">> => <<Object(<<>>), Tail(r)>> \in (ProperOf(R) \cup {Error}) \X Text
  <2>1. <<>> \in Seq(STRING \X R) /\ NoNameTwice(<<>>)
    BY DEF NoNameTwice
  <2>2. Object(<<>>) \in ProperOf(R)
    BY <2>1, Made
  <2>3. QED
    BY <1>3, <2>2
<1>6. <<Object(end.got), end.ahead>> \in (ProperOf(R) \cup {Error}) \X Text
  <2>1. end.got \in Seq(STRING \X R) /\ NoNameTwice(end.got) /\ end.ahead \in Text
    BY <1>2 DEF States, ObjectMembers
  <2>2. Object(end.got) \in ProperOf(R)
    BY <2>1, Made
  <2>3. QED
    BY <2>1, <2>2
<1>7. Failure \in (ProperOf(R) \cup {Error}) \X Text
  BY FailureType
<1>8. QED
  BY <1>4, <1>5, <1>6, <1>7

(* parse_number_value returns a number.                                    *)
LEMMA ParseNumberType ==
  ASSUME NEW R, NEW s \in Text, s # <<>>, First(s)[1] \in {"num", "float", "-"}
  PROVE  parse_number_value(s) \in (ProperOf(R) \cup {Error}) \X Text
<1>1. First(s) \in Token /\ First(s) = s[1] /\ Tail(s) \in Text
  BY TextFacts
<1>2. \A n \in Int : <<"num", n>> \in Scalar
  BY DEF Scalar
<1>3. First(s) # <<"-">> => s[1][2] \in Int
  BY <1>1, Tokens DEF Marks
<1>4. Scalar \subseteq ProperOf(R)
  BY Made
<1>5. <<"num", 0>> \in ProperOf(R) /\ s \in Text
  BY <1>2, <1>4
<1>6. CASE First(s) = <<"-">>
  <2>1. parse_number_value(s) = << <<"num", 0>>, s >>
    BY <1>6 DEF parse_number_value
  <2>2. QED
    BY <1>5, <2>1
<1>7. CASE First(s) # <<"-">>
  <2>1. parse_number_value(s) = << <<"num", s[1][2]>>, Tail(s) >>
    BY <1>7 DEF parse_number_value
  <2>2. <<"num", s[1][2]>> \in ProperOf(R)
    BY <1>2, <1>3, <1>4, <1>7
  <2>3. Tail(s) \in Text
    BY <1>1
  <2>4. \A v \in ProperOf(R), u \in Text :
           <<v, u>> \in (ProperOf(R) \cup {Error}) \X Text
    OBVIOUS
  <2>5. QED
    BY <2>1, <2>2, <2>3, <2>4, Zenon
<1>8. QED
  BY <1>6, <1>7

(* parse_value returns a value one level higher than those it is made of.  *)
LEMMA ParseValueType ==
  ASSUME NEW R, Error \notin R, NEW parse \in Parser(R), NEW nesting, NEW s \in Text
  PROVE  ParseValue(parse, nesting, s) \in (ProperOf(R) \cup {Error}) \X Text
<1> DEFINE r == Skip[s]
           type == First(r)[1]
<1>1. r \in Text
  BY SkipType
<1>2. type # "end" => r # <<>>
  BY <1>1, Firsts
<1> HIDE DEF r
<1>3. Failure \in (ProperOf(R) \cup {Error}) \X Text
  BY FailureType
<1>4. type = "{" => parse_object_value(parse, r) \in (ProperOf(R) \cup {Error}) \X Text
  BY <1>1, <1>2, ParseObjectType
<1>5. type = "[" => parse_array_value(parse, r) \in (ProperOf(R) \cup {Error}) \X Text
  BY <1>1, <1>2, ParseArrayType
<1>6. type \in {"num", "float", "-"} => parse_number_value(r) \in (ProperOf(R) \cup {Error}) \X Text
  BY <1>1, <1>2, ParseNumberType
<1>7. type \in {"str", "bool", "null"} => <<r[1], Tail(r)>> \in (ProperOf(R) \cup {Error}) \X Text
  <2> SUFFICES ASSUME type \in {"str", "bool", "null"}
               PROVE  <<r[1], Tail(r)>> \in (ProperOf(R) \cup {Error}) \X Text
    OBVIOUS
  <2>1. r # <<>>
    BY <1>2
  <2>2. r[1] \in Token /\ First(r) = r[1] /\ Tail(r) \in Text
    BY <1>1, <2>1, TextFacts
  <2>3. r[1] \in Scalar
    BY <2>2, Tokens
  <2>4. Scalar \subseteq ProperOf(R)
    BY Made
  <2>5. QED
    BY <2>2, <2>3, <2>4
<1>8. ParseValue(parse, nesting, s) =
        IF nesting > MaxNesting THEN Failure
        ELSE CASE type = "{" -> parse_object_value(parse, r)
               [] type = "[" -> parse_array_value(parse, r)
               [] type \in {"num", "float", "-"} -> parse_number_value(r)
               [] type \in {"str", "bool", "null"} -> <<r[1], Tail(r)>>
               [] OTHER -> Failure
  BY DEF ParseValue, r
<1> HIDE DEF type
<1>9. QED
  BY <1>3, <1>4, <1>5, <1>6, <1>7, <1>8

(* parse_value depends on itself one level deeper, up to the maximum of    *)
(* the nesting.                                                            *)
ParseStep(f, nesting) == [s \in Text |-> ParseValue(f[nesting + 1], nesting, s)]
Nearer(n) == {k \in Nat : k + n > MaxNesting}

ParseF == INSTANCE Recursion WITH S <- Nat, Step <- ParseStep, Level <- Nearer

(* parse_value, by parse_value one level deeper.                           *)
LEMMA ParseIs ==
  \A k \in Nat : parse_value[k] = [s \in Text |-> ParseValue(parse_value[k + 1], k, s)]
<1>1. ParseF!EveryArgument
  <2> SUFFICES ASSUME NEW x \in Nat
               PROVE  \E n \in Nat : x \in Nearer(n)
    BY DEF ParseF!EveryArgument
  <2>1. MaxNesting + 1 \in Nat /\ x + (MaxNesting + 1) > MaxNesting
    BY NestingAssumption
  <2>2. QED
    BY <2>1 DEF Nearer
<1>2. ParseF!LowerLevels
  <2> SUFFICES ASSUME NEW f, NEW g, NEW n \in Nat, NEW x \in Nat, x \in Nearer(n),
                      \A m \in 0..n-1 : \A y \in Nat : y \in Nearer(m) => f[y] = g[y]
               PROVE  ParseStep(f, x) = ParseStep(g, x)
    BY DEF ParseF!LowerLevels
  <2>1. x <= MaxNesting => f[x + 1] = g[x + 1]
    <3> SUFFICES ASSUME x <= MaxNesting
                 PROVE  f[x + 1] = g[x + 1]
      OBVIOUS
    <3>1. n - 1 \in 0..n-1 /\ x + 1 \in Nat /\ x + 1 + (n - 1) > MaxNesting
      BY NestingAssumption DEF Nearer
    <3>2. QED
      BY <3>1 DEF Nearer
  <2>2. ASSUME NEW s
        PROVE  ParseValue(f[x + 1], x, s) = ParseValue(g[x + 1], x, s)
    <3>1. CASE x <= MaxNesting
      BY <2>1, <3>1
    <3>2. CASE x > MaxNesting
      BY <3>2 DEF ParseValue
    <3>3. QED
      BY <3>1, <3>2, NestingAssumption
  <2>3. QED
    BY <2>2 DEF ParseStep
<1>3. \E f : f = [k \in Nat |-> ParseStep(f, k)]
  BY <1>1, <1>2, ParseF!FunctionExists
<1>4. parse_value = [k \in Nat |-> ParseStep(parse_value, k)]
  BY <1>3, Zenon DEF parse_value, ParseStep
<1>5. ASSUME NEW k \in Nat
      PROVE  parse_value[k] = ParseStep(parse_value, k)
  BY <1>4
<1>6. QED
  BY <1>5 DEF ParseStep

(* parse_value with d levels left *)
LEMMA ParserType ==
  \A d, k \in Nat : k + d > MaxNesting => parse_value[k] \in Parser(Proper[d])
<1> DEFINE Good(d) == \A k \in Nat : k + d > MaxNesting => parse_value[k] \in Parser(Proper[d])
           A == {d \in Nat : Good(d)}
<1>1. ASSUME NEW k \in Nat, NEW R, \A s \in Text :
                ParseValue(parse_value[k + 1], k, s) \in (R \cup {Error}) \X Text
      PROVE  parse_value[k] \in Parser(R)
  <2> DEFINE f == [s \in Text |-> ParseValue(parse_value[k + 1], k, s)]
  <2>1. f \in Parser(R)
    BY <1>1 DEF Parser
  <2>2. parse_value[k] = f
    BY ParseIs
  <2> HIDE DEF f
  <2>3. QED
    BY <2>1, <2>2
<1>2. 0 \in A
  <2> SUFFICES ASSUME NEW k \in Nat, k > MaxNesting
               PROVE  parse_value[k] \in Parser(Proper[0])
    OBVIOUS
  <2>1. Failure \in (Proper[0] \cup {Error}) \X Text
    BY FailureType
  <2>2. \A s \in Text : ParseValue(parse_value[k + 1], k, s) = Failure
    BY DEF ParseValue
  <2>3. QED
    BY <1>1, <2>1, <2>2
<1>3. ASSUME NEW d \in A
      PROVE  d + 1 \in A
  <2>1. d \in Nat /\ Good(d) /\ d + 1 \in Nat
    OBVIOUS
  <2> HIDE DEF A
  <2> SUFFICES ASSUME NEW k \in Nat, k + (d + 1) > MaxNesting
               PROVE  parse_value[k] \in Parser(Proper[d + 1])
    BY <2>1 DEF A
  <2>2. k + 1 \in Nat /\ (k + 1) + d > MaxNesting
    BY <2>1, NestingAssumption
  <2>3. parse_value[k + 1] \in Parser(Proper[d])
    BY <2>1, <2>2
  <2>4. Error \notin Proper[d] /\ Proper[d + 1] = ProperOf(Proper[d])
    BY <2>1, NoErrorValue, ProperIs
  <2>5. \A s \in Text :
           ParseValue(parse_value[k + 1], k, s) \in (ProperOf(Proper[d]) \cup {Error}) \X Text
    BY <2>3, <2>4, ParseValueType
  <2>6. QED
    BY <1>1, <2>4, <2>5
<1>4. A = Nat
  <2> HIDE DEF A
  <2>1. A \in SUBSET Nat
    BY DEF A
  <2>2. QED
    BY <1>2, <1>3, <2>1, CopyF!Upward
<1>5. QED
  BY <1>4

(* What json_parse_string returns is proper, and of no more levels than    *)
(* the maximum of the nesting allows.                                      *)
LEMMA ParsedType ==
  \A s \in Text :
    /\ json_parse_string(s)[1] \in Proper[MaxLevels] \cup {Error}
    /\ json_parse_string(s)[1] \in Proper[MaxNesting + 1] \cup {Error}
    /\ json_parse_string(s)[2] \in Text
<1> TAKE s \in Text
<1> DEFINE d == MaxNesting + 1
<1>1. d \in Nat /\ 0 + d > MaxNesting /\ d <= MaxLevels /\ MaxLevels \in Nat
  BY NestingAssumption, LevelsAssumption
<1> HIDE DEF d
<1>2. parse_value[0] \in Parser(Proper[d])
  BY <1>1, ParserType
<1>3. Proper[d] \subseteq Proper[MaxLevels]
  BY <1>1, Levels
<1>4. parse_value[0][s] \in (Proper[d] \cup {Error}) \X Text
  BY <1>2 DEF Parser
<1>5. QED
  BY <1>3, <1>4 DEF json_parse_string, d
(* The paths of the runs are paths.                                        *)
LEMMA PathIsDotted ==
  \A path \in Path : path \in Dotted /\ Len(path) \in 1..MaxPath
<1> SUFFICES ASSUME NEW n \in 1..MaxPath, NEW path \in [1..n -> Key]
             PROVE  path \in Dotted /\ Len(path) \in 1..MaxPath
  BY DEF Path
<1>1. n \in Nat /\ n # 0
  BY InTree, PathAssumption
<1>2. path \in Seq(Key) /\ Len(path) = n
  BY <1>1
<1>3. path # <<>>
  BY <1>1, <1>2, EmptySeq
<1>4. QED
  BY <1>2, <1>3 DEF Dotted

(* The values that are set are low enough for the paths.                   *)
LEMMA LeafType ==
  /\ MaxPath \in Nat /\ MaxPath # 0 /\ MaxLevels - MaxPath \in Nat /\ MaxLevels - MaxPath # 0
  /\ \A v \in Leaf : v \in Proper[MaxLevels - MaxPath] /\ v \in Proper[MaxLevels] /\ v \in Tree
<1>1. /\ MaxLevels \in Nat /\ MaxPath \in Nat /\ MaxPath # 0 /\ MaxLevels - MaxPath \in Nat
      /\ MaxLevels - MaxPath # 0 /\ MaxLevels - MaxPath <= MaxLevels /\ MaxLevels <= MaxLevels
  BY LevelsAssumption, PathAssumption
<1>2. \A v \in Leaf : v \in Proper[MaxLevels - MaxPath]
  BY LeafAssumption
<1>3. Proper[MaxLevels - MaxPath] \subseteq Proper[MaxLevels] /\ Proper[MaxLevels] \subseteq Tree
  BY <1>1, Levels, InTree
<1>4. QED
  BY <1>1, <1>2, <1>3

(* The text of a value. *)

ConcatStep(f, parts) == IF parts = <<>> THEN <<>> ELSE Head(parts) \o f[Tail(parts)]
PartsOfLength(n) == {parts \in Seq(Text) : Len(parts) = n}

ConcatF == INSTANCE Recursion WITH S <- Seq(Text), Step <- ConcatStep, Level <- PartsOfLength

(* Joining parts, from the first on.                                       *)
LEMMA ConcatIs ==
  \A parts \in Seq(Text) :
    Concat[parts] = IF parts = <<>> THEN <<>> ELSE Head(parts) \o Concat[Tail(parts)]
<1>1. ConcatF!EveryArgument
  BY LenProperties DEF ConcatF!EveryArgument, PartsOfLength
<1>2. ConcatF!LowerLevels
  <2> SUFFICES ASSUME NEW f, NEW g, NEW n \in Nat, NEW x \in Seq(Text), x \in PartsOfLength(n),
                      \A m \in 0..n-1 : \A y \in Seq(Text) : y \in PartsOfLength(m) => f[y] = g[y]
               PROVE  ConcatStep(f, x) = ConcatStep(g, x)
    BY DEF ConcatF!LowerLevels
  <2>1. x # <<>> => f[Tail(x)] = g[Tail(x)]
    <3> SUFFICES ASSUME x # <<>>
                 PROVE  f[Tail(x)] = g[Tail(x)]
      OBVIOUS
    <3>1. Tail(x) \in Seq(Text) /\ Len(Tail(x)) = n - 1 /\ n # 0
      BY EmptySeq, HeadTailProperties DEF PartsOfLength
    <3>2. n - 1 \in 0..n-1 /\ Tail(x) \in PartsOfLength(n - 1)
      BY <3>1 DEF PartsOfLength
    <3>3. QED
      BY <3>1, <3>2
  <2>2. QED
    BY <2>1 DEF ConcatStep
<1>3. \E f : f = [parts \in Seq(Text) |-> ConcatStep(f, parts)]
  BY <1>1, <1>2, ConcatF!FunctionExists
<1>4. Concat = [parts \in Seq(Text) |-> ConcatStep(Concat, parts)]
  BY <1>3, Zenon DEF Concat, ConcatStep
<1>5. QED
  BY <1>4 DEF ConcatStep

(* What holds of parts if it holds without the first holds of all.         *)
LEMMA PartsInduction ==
  ASSUME NEW A, \A parts \in Seq(Text) : (parts # <<>> => Tail(parts) \in A) => parts \in A
  PROVE  Seq(Text) \subseteq A
<1> DEFINE B == {n \in Nat : \A s \in Seq(Text) : Len(s) = n => s \in A}
<1>0. \A s \in Seq(Text) : /\ Len(s) \in Nat /\ (s # <<>> <=> Len(s) # 0)
                      /\ s # <<>> => Tail(s) \in Seq(Text) /\ Len(Tail(s)) = Len(s) - 1
  BY EmptySeq, LenProperties, HeadTailProperties
<1>1. 0 \in B
  BY <1>0
<1>2. ASSUME NEW n \in B
      PROVE  n + 1 \in B
  <2>1. n \in Nat /\ n + 1 \in Nat /\ n + 1 - 1 = n /\ \A s \in Seq(Text) : Len(s) = n => s \in A
    OBVIOUS
  <2>2. ASSUME NEW s \in Seq(Text), Len(s) = n + 1
        PROVE  s \in A
    <3>1. s # <<>> => Tail(s) \in Seq(Text) /\ Len(Tail(s)) = n
      BY <1>0, <2>1, <2>2
    <3>2. QED
      BY <2>1, <3>1
  <2>3. QED
    BY <2>1, <2>2
<1>3. B = Nat
  <2> HIDE DEF B
  <2>1. B \in SUBSET Nat
    BY DEF B
  <2>2. QED
    BY <1>1, <1>2, <2>1, CopyF!Upward
<1>4. QED
  BY <1>0, <1>3

(* Parts of texts joined are a text.                                       *)
LEMMA ConcatType ==
  \A parts \in Seq(Text) : Concat[parts] \in Text
<1> DEFINE A == {parts \in Seq(Text) : Concat[parts] \in Text}
<1>1. ASSUME NEW parts \in Seq(Text), parts # <<>> => Tail(parts) \in A
      PROVE  parts \in A
  <2>1. CASE parts = <<>>
    BY <2>1, ConcatIs, TokensOfText
  <2>2. CASE parts # <<>>
    <3>1. Head(parts) \in Text /\ Concat[Tail(parts)] \in Text
      BY <1>1, <2>2, HeadTailProperties
    <3>2. Head(parts) \o Concat[Tail(parts)] \in Text
      BY <3>1, ConcatProperties DEF Text
    <3>3. QED
      BY <2>2, <3>2, ConcatIs
  <2>3. QED
    BY <2>1, <2>2
<1> HIDE DEF A
<1>2. Seq(Text) \subseteq A
  BY <1>1, PartsInduction
<1>3. QED
  BY <1>2 DEF A
(* The layout is a text.                                                   *)
LEMMA LayoutType ==
  \A pretty \in BOOLEAN, level \in Nat : Layout(pretty, level) \in Text
<1> TAKE pretty \in BOOLEAN, level \in Nat
<1>1. <<" ">> \in Token /\ <<>> \in Text
  BY TokensOfText DEF Marks
<1> DEFINE space == <<" ">>
<1> HIDE DEF space
<1>2. level + 1 \in Nat /\ space \in Token
  <2>1. space \in Token
    BY <1>1, Zenon DEF space
  <2>2. QED
    BY <2>1
<1>3. [i \in 1..level+1 |-> space] \in Seq(Token)
  BY <1>2
<1>4. QED
  BY <1>1, <1>3 DEF Layout, Text, space

(* A number is printed as a number.                                        *)
LEMMA PrintedType ==
  \A n \in Int : /\ Printed(n) \in Token
                 /\ Printed(n)[1] \in {"num", "float"} /\ Printed(n)[2] \in Int
<1> TAKE n \in Int
<1>1. \/ Printed(n) = <<"num", n>>
      \/ Printed(n) = <<"float", ((n + 5) \div 10) * 10>>
  BY DEF Printed
<1>2. ((n + 5) \div 10) * 10 \in Int
  OBVIOUS
<1>3. CASE Printed(n) = <<"num", n>>
  <2>1. Scalar \subseteq Token
    BY DEF Token
  <2>2. <<"num", n>> \in Scalar
    BY TokensOfText
  <2>3. QED
    BY <1>3, <2>1, <2>2
<1>4. CASE Printed(n) = <<"float", ((n + 5) \div 10) * 10>>
  <2>1. \A k \in Int : <<"float", k>> \in Token
    BY TokensOfText
  <2>2. Printed(n) \in Token
    BY <1>2, <1>4, <2>1
  <2>3. Printed(n)[1] = "float" /\ Printed(n)[2] \in Int
    BY <1>2, <1>4
  <2>4. QED
    BY <2>2, <2>3
<1>5. QED
  BY <1>1, <1>3, <1>4

(* The text of an entry is a text if that of its value is.                 *)
LEMMA EntryType ==
  ASSUME NEW v \in Tree, v[1] = "array" \/ v[1] = "object", NEW i \in DOMAIN v[2],
         NEW level \in Nat, NEW pretty \in BOOLEAN,
         \A c \in Children(v) : Serialized[c][level + 1][pretty] \in Text
  PROVE  Entry(Serialized, v, i, level, pretty) \in Text
<1> DEFINE before == Layout(pretty, level + 1)
           comma == IF i < Len(v[2]) THEN << <<",">> >> ELSE <<>>
           name == << <<"str", v[2][i][1]>>, <<":">> >>
           space == IF pretty THEN << <<" ">> >> ELSE <<>>
           item == Serialized[v[2][i]][level + 1][pretty]
           value == Serialized[Get(v, v[2][i][1])][level + 1][pretty]
<1>1. before \in Text
  BY LayoutType
<1>2. comma \in Text
  <2>1. <<",">> \in Token
    BY TokensOfText DEF Marks
  <2>2. QED
    BY <2>1, TokensOfText
<1>3. space \in Text
  <2>1. <<" ">> \in Token
    BY TokensOfText DEF Marks
  <2>2. QED
    BY <2>1, TokensOfText
<1>4. v[1] = "array" => item \in Text
  BY DEF Children
<1>5. v[1] = "object" => value \in Text
  BY DEF Children
<1>6. v[1] = "object" => name \in Text
  <2> SUFFICES ASSUME v[1] = "object"
               PROVE  name \in Text
    OBVIOUS
  <2>1. v[2] \in Seq(STRING \X Nested[MaxLevels - 1])
    BY InTree, ObjectValue DEF Tree
  <2>2. v[2][i][1] \in STRING
    BY <2>1
  <2>3. <<"str", v[2][i][1]>> \in Token /\ <<":">> \in Token
    BY <2>2, TokensOfText DEF Marks
  <2>4. \A s, t \in Token : <<s, t>> \in Seq(Token)
    OBVIOUS
  <2>5. QED
    BY <2>3, <2>4 DEF Text
<1> HIDE DEF before, comma, name, space, item, value
<1>7. Entry(Serialized, v, i, level, pretty) =
        before \o (IF v[1] = "array" THEN item ELSE name \o space \o value) \o comma
  BY Zenon DEF Entry, before, comma, name, space, item, value
<1>8. v[1] = "object" => name \o space \o value \in Text
  BY <1>3, <1>5, <1>6, TokensOfText
<1>9. (IF v[1] = "array" THEN item ELSE name \o space \o value) \in Text
  BY <1>4, <1>8
<1>10. QED
  BY <1>1, <1>2, <1>7, <1>9, TokensOfText

(* The texts of a value: texts, and not empty.                             *)
Writes(v) ==
  \A level \in Nat, pretty \in BOOLEAN : Serialized[v][level][pretty] \in Text

(* Every value that may be written has a text, of one token at least.      *)
LEMMA SerializedType ==
  \A v \in Tree : Writes(v)
<1> DEFINE A == {v \in Tree : Writes(v)}
<1>1. ASSUME NEW v \in Tree, \A c \in Children(v) : c \in A
      PROVE  v \in A
  <2> SUFFICES ASSUME NEW level \in Nat, NEW pretty \in BOOLEAN
               PROVE  Serialized[v][level][pretty] \in Text
    BY DEF Writes
  <2>1. Serialized[v][level][pretty] = Serialize(Serialized, v, level, pretty)
    BY SerializedIs
  <2>2. CASE v[1] = "array" \/ v[1] = "object"
    <3> DEFINE parts == [i \in DOMAIN v[2] |-> Entry(Serialized, v, i, level, pretty)]
               first == << <<IF v[1] = "array" THEN "[" ELSE "{">> >>
               last == << <<IF v[1] = "array" THEN "]" ELSE "}">> >>
               behind == IF v[2] = <<>> THEN <<>> ELSE Layout(pretty, level)
    <3>1. \A c \in Children(v) : Serialized[c][level + 1][pretty] \in Text
      BY <1>1 DEF Writes
    <3>2. \A i \in DOMAIN v[2] : Entry(Serialized, v, i, level, pretty) \in Text
      BY <2>2, <3>1, EntryType
    <3>3. v[2] \in Seq(Nested[MaxLevels - 1]) \/ v[2] \in Seq(STRING \X Nested[MaxLevels - 1])
      BY <2>2, InTree, ArrayValue, ObjectValue DEF Tree
    <3>4. Len(v[2]) \in Nat /\ DOMAIN v[2] = 1..Len(v[2])
      BY <3>3, LenProperties
    <3>5. parts \in Seq(Text)
      BY <3>2, <3>4
    <3>6. Concat[parts] \in Text
      BY <3>5, ConcatType
    <3>7. first \in Text /\ last \in Text
      <4>1. <<"[">> \in Token /\ <<"{">> \in Token /\ <<"]">> \in Token /\ <<"}">> \in Token
        BY TokensOfText DEF Marks
      <4>2. QED
        BY <4>1, TokensOfText
    <3>8. behind \in Text
      BY LayoutType, TokensOfText
    <3> HIDE DEF parts, first, last, behind
    <3>9. Serialize(Serialized, v, level, pretty) = first \o Concat[parts] \o behind \o last
      BY <2>2 DEF Serialize, parts, first, last, behind
    <3>10. QED
      BY <2>1, <3>6, <3>7, <3>8, <3>9, TokensOfText
  <2>3. CASE v[1] # "array" /\ v[1] # "object"
    <3>1. v \in Scalar
      BY <2>3, InTree, ThreeKinds DEF Tree
    <3>2. v[1] = "num" => v[2] \in Int
      BY <3>1 DEF Scalar
    <3>3. v[1] = "num" => Printed(v[2]) \in Token
      BY <3>2, PrintedType
    <3>4. Serialize(Serialized, v, level, pretty) =
            IF v[1] = "num" THEN <<Printed(v[2])>> ELSE <<v>>
      BY <2>3 DEF Serialize
    <3>5. QED
      BY <2>1, <3>1, <3>3, <3>4, TokensOfText
  <2>4. QED
    BY <2>2, <2>3
<1> HIDE DEF A
<1>2. Tree \subseteq A
  BY <1>1, TreeInduction
<1>3. QED
  BY <1>2 DEF A
------------------------------------------------------------------------------
(* Before anything is parsed there is no document.                         *)
THEOREM DocumentInit == DInit => DTypeOK
BY DEF DInit, DTypeOK, Text

(* Parsing, setting, removing, copying and reloading leave a proper        *)
(* document.                                                               *)
THEOREM DocumentStep == DTypeOK /\ [DNext]_dvars => DTypeOK'
<1> SUFFICES ASSUME DTypeOK, [DNext]_dvars
             PROVE  DTypeOK'
  OBVIOUS
<1> DEFINE Docs == Proper[MaxLevels] \cup {Error}
<1>1. text \in Text /\ doc \in Docs
  BY DEF DTypeOK
<1>2. MaxLevels \in Nat
  BY InTree
<1>3. ASSUME doc[1] = "object"
      PROVE  doc \in Objects(MaxLevels) /\ doc \in Tree /\ doc # Error
  <2>1. doc # Error
    BY <1>3 DEF Error
  <2>2. doc \in Proper[MaxLevels] /\ MaxLevels <= MaxLevels
    BY <1>1, <1>2, <2>1
  <2>3. doc \in Tree
    BY <1>2, <2>2, InTree
  <2>4. QED
    BY <1>3, <2>1, <2>2, <2>3 DEF Objects
<1>4. ASSUME NEW c \in Chunk, Type(c)
      PROVE  DTypeOK'
  <2>1. c \in Text
    BY ChunkAssumption
  <2>2. text \o c \in Text
    BY <1>1, <2>1, ConcatProperties DEF Text
  <2>3. QED
    BY <1>1, <1>4, <2>2 DEF Type, DTypeOK
<1>5. CASE Parse
  BY <1>1, <1>5, ParsedType DEF Parse, DTypeOK, Text
<1>6. CASE NotParsed
  BY <1>1, <1>6 DEF NotParsed, DTypeOK, Text
<1>7. CASE json_value_init_object
  <2>1. Object(<<>>) \in Proper[MaxLevels]
    BY LevelsAssumption, NestingAssumption, EmptyObject
  <2>2. QED
    BY <1>1, <1>7, <2>1 DEF json_value_init_object, DTypeOK
<1>8. ASSUME NEW path \in Path, NEW v \in Proper[MaxLevels], v \in Tree,
             NEW granted \in Nat, Dotset(path, v, granted)
      PROVE  DTypeOK'
  <2>1. path \in Dotted
    BY <1>8, PathIsDotted
  <2>2. doc \in Objects(MaxLevels)
    BY <1>3, <1>8 DEF Dotset
  <2> DEFINE a == MaxLevels + Len(path)
  <2>3. a \in Nat /\ MaxLevels <= a /\ MaxLevels + Len(path) <= a
    BY <1>2, <2>1, PathLength
  <2> HIDE DEF a
  <2>4. doc \in Objects(a)
    BY <1>2, <2>2, <2>3, Levels DEF Objects
  <2>5. DotSet[path][doc][v][granted][2] \in Proper[a]
    BY <1>2, <1>8, <2>1, <2>3, <2>4, DotSetType DEF SetsProperly
  <2>6. doc' \in Proper[a] \cap Nested[MaxLevels] /\ text' = text
    BY <1>8, <2>5 DEF Dotset, Fits, Tree
  <2>7. doc' \in Proper[MaxLevels]
    BY <1>2, <2>3, <2>6, ProperOfLevels
  <2>8. QED
    BY <1>1, <2>6, <2>7 DEF DTypeOK
<1>9. ASSUME NEW path \in Path, NEW v \in Leaf, NEW granted \in 0..MaxPath, Dotset(path, v, granted)
      PROVE  DTypeOK'
  <2>1. v \in Proper[MaxLevels] /\ v \in Tree
    BY LeafType
  <2>2. granted \in Nat
    BY PathAssumption
  <2>3. QED
    BY <1>8, <1>9, <2>1, <2>2
<1>10. ASSUME NEW path \in Path, doc[1] = "object", Dotset(path, json_value_deep_copy[doc], MaxPath)
       PROVE  DTypeOK'
  <2>1. doc \in Tree /\ doc \in Proper[MaxLevels]
    BY <1>3, <1>10 DEF Objects
  <2>2. json_value_deep_copy[doc] = doc
    BY <2>1, CopyIsSame
  <2>3. MaxPath \in Nat
    BY PathAssumption, <1>2
  <2>4. QED
    BY <1>8, <1>10, <2>1, <2>2, <2>3
<1>11. ASSUME NEW path \in Path, Dotremove(path)
       PROVE  DTypeOK'
  <2>1. path \in Dotted
    BY <1>11, PathIsDotted
  <2>2. doc \in Objects(MaxLevels)
    BY <1>3, <1>11 DEF Dotremove
  <2>3. DotRemove[path][doc][2] \in Proper[MaxLevels]
    BY <1>2, <2>1, <2>2, DotRemoveType
  <2>4. QED
    BY <1>1, <1>11, <2>3 DEF Dotremove, DTypeOK
<1>12. CASE Reload
  <2> DEFINE written == json_serialize_to_string(doc)
  <2>1. doc \in Tree
    BY <1>1, <1>2, <1>12, InTree DEF Reload
  <2>2. written \in Text
    BY <2>1, SerializedType DEF Writes, json_serialize_to_string
  <2>3. json_parse_string(written)[1] \in Docs
    BY <2>2, ParsedType
  <2>4. QED
    BY <1>1, <1>12, <2>3 DEF Reload, DTypeOK
<1>13. CASE UNCHANGED dvars
  BY <1>1, <1>13 DEF dvars, DTypeOK
<1>14. QED
  BY <1>4, <1>5, <1>6, <1>7, <1>9, <1>10, <1>11, <1>12, <1>13 DEF DNext
------------------------------------------------------------------------------
(* No object in a document ever has a name twice, and no document more     *)
(* levels than the parser and the paths allow, whatever was parsed, set,   *)
(* removed and copied.                                                     *)
THEOREM DocumentType == DSpec => []DTypeOK
BY DocumentInit, DocumentStep, PTL DEF DSpec

(* A path into what has no names leads nowhere.                            *)
LEMMA DotGetNone ==
  \A q \in Dotted : \A x \in Tree \cup {Error} :
    (\A name : Get(x, name) = Error) => DotGet[q][x] = Error
<1> DEFINE A == {q \in Dotted : DotGet[q][Error] = Error}
<1>0. \A name : Get(Error, name) = Error
  BY DEF Get, Error
<1>1. ASSUME NEW q \in Dotted, Len(q) # 1 => Tail(q) \in A
      PROVE  q \in A
  BY <1>0, <1>1, DotGetIs DEF GetBelow
<1> HIDE DEF A
<1>2. Dotted \subseteq A
  BY <1>1, PathInduction
<1>3. \A q \in Dotted : DotGet[q][Error] = Error
  BY <1>2 DEF A
<1> SUFFICES ASSUME NEW q \in Dotted, NEW x \in Tree \cup {Error}, \A name : Get(x, name) = Error
             PROVE  DotGet[q][x] = Error
  OBVIOUS
<1>4. DotGet[q][x] = GetBelow(DotGet, q, x)
  BY DotGetIs
<1>5. CASE Len(q) = 1
  BY <1>4, <1>5 DEF GetBelow
<1>6. CASE Len(q) # 1
  <2>1. Tail(q) \in Dotted
    BY <1>6, PathLength
  <2>2. QED
    BY <1>3, <1>4, <1>6, <2>1 DEF GetBelow
<1>7. QED
  BY <1>5, <1>6

(* What is found in a value may be written.                                *)
LEMMA GetInTree ==
  \A x \in Tree : \A name : Get(x, name) \in Tree \cup {Error}
<1> SUFFICES ASSUME NEW x \in Tree, NEW name, Get(x, name) # Error
             PROVE  Get(x, name) \in Tree
  OBVIOUS
<1>1. MaxLevels - 1 \in Nat /\ Get(x, name) \in Nested[MaxLevels - 1] /\ MaxLevels - 1 <= MaxLevels
  BY InTree, GetLevel DEF Tree
<1>2. QED
  BY <1>1, InTree

(* A path is below another one if it begins with its names.                *)
LEMMA BelowIs ==
  ASSUME NEW path \in Dotted, NEW q \in Dotted
  PROVE  IsBelow(path, q) <=> Len(q) <= Len(path) /\ \A i \in 1..Len(q) : path[i] = q[i]
<1>1. path \in Seq(Key) /\ q \in Seq(Key) /\ Len(path) \in Nat /\ Len(q) \in Nat
  BY LenProperties DEF Dotted
<1>2. CASE Len(q) <= Len(path)
  <2> DEFINE part == SubSeq(path, 1, Len(q))
  <2>1. \A i \in 1..Len(q) : path[i] \in Key
    BY <1>1, <1>2
  <2>2. /\ part \in Seq(Key) /\ Len(part) = Len(q)
        /\ \A i \in 1..Len(q) : part[i] = path[i]
    <3>1. 1 \in Int /\ Len(q) \in Int
      BY <1>1
    <3>2. /\ part \in Seq(Key) /\ Len(part) = IF 1 <= Len(q) THEN Len(q) - 1 + 1 ELSE 0
          /\ \A i \in 1..Len(q)-1+1 : part[i] = path[1 + i - 1]
      BY <2>1, <3>1, SubSeqProperties
    <3>3. \A i \in 1..Len(q) : i \in 1..Len(q)-1+1 /\ 1 + i - 1 = i
      BY <1>1
    <3>4. (IF 1 <= Len(q) THEN Len(q) - 1 + 1 ELSE 0) = Len(q)
      BY <1>1
    <3>5. QED
      BY <3>2, <3>3, <3>4
  <2> HIDE DEF part
  <2>3. part = q <=> \A i \in 1..Len(q) : path[i] = q[i]
    <3>1. (\A i \in 1..Len(q) : path[i] = q[i]) => part = q
      BY <1>1, <2>2, SeqEqual
    <3>2. QED
      BY <2>2, <3>1
  <2>4. QED
    BY <1>2, <2>3 DEF IsBelow, part
<1>3. CASE ~(Len(q) <= Len(path))
  BY <1>3 DEF IsBelow
<1>4. QED
  BY <1>2, <1>3

(* Paths with the same first name, and their rests.                        *)
LEMMA BelowTail ==
  ASSUME NEW path \in Dotted, NEW q \in Dotted, Head(path) = Head(q)
  PROVE  /\ Len(q) = 1 => IsBelow(path, q)
         /\ Len(path) = 1 => IsBelow(q, path)
         /\ Len(path) # 1 /\ Len(q) # 1 =>
              /\ IsBelow(Tail(path), Tail(q)) => IsBelow(path, q)
              /\ IsBelow(Tail(q), Tail(path)) => IsBelow(q, path)
<1>1. /\ path \in Seq(Key) /\ q \in Seq(Key) /\ Len(path) \in Nat \ {0} /\ Len(q) \in Nat \ {0}
      /\ path # <<>> /\ q # <<>>
  BY PathLength DEF Dotted
<1>2. path[1] = q[1]
  BY <1>1
<1>3. Len(q) = 1 => IsBelow(path, q)
  BY <1>1, <1>2, BelowIs
<1>4. Len(path) = 1 => IsBelow(q, path)
  BY <1>1, <1>2, BelowIs
<1>5. ASSUME Len(path) # 1, Len(q) # 1
      PROVE  /\ IsBelow(Tail(path), Tail(q)) => IsBelow(path, q)
             /\ IsBelow(Tail(q), Tail(path)) => IsBelow(q, path)
  <2> DEFINE p1 == Tail(path)
             q1 == Tail(q)
  <2>1. p1 \in Dotted /\ q1 \in Dotted /\ Len(p1) = Len(path) - 1 /\ Len(q1) = Len(q) - 1
    BY <1>5, PathLength
  <2>2. \A i \in 1..Len(path) : i # 1 => i - 1 \in 1..Len(p1) /\ path[i] = p1[i - 1]
    <3> SUFFICES ASSUME NEW i \in 1..Len(path), i # 1
                 PROVE  i - 1 \in 1..Len(p1) /\ path[i] = p1[i - 1]
      OBVIOUS
    <3>1. i - 1 \in 1..Len(p1) /\ i - 1 + 1 = i
      BY <1>1, <2>1
    <3>2. p1[i - 1] = path[i - 1 + 1]
      BY <1>1, <3>1, HeadTailProperties
    <3>3. QED
      BY <3>1, <3>2
  <2>3. \A i \in 1..Len(q) : i # 1 => i - 1 \in 1..Len(q1) /\ q[i] = q1[i - 1]
    <3> SUFFICES ASSUME NEW i \in 1..Len(q), i # 1
                 PROVE  i - 1 \in 1..Len(q1) /\ q[i] = q1[i - 1]
      OBVIOUS
    <3>1. i - 1 \in 1..Len(q1) /\ i - 1 + 1 = i
      BY <1>1, <2>1
    <3>2. q1[i - 1] = q[i - 1 + 1]
      BY <1>1, <3>1, HeadTailProperties
    <3>3. QED
      BY <3>1, <3>2
  <2> HIDE DEF p1, q1
  <2>4. ASSUME IsBelow(p1, q1)
        PROVE  IsBelow(path, q)
    <3>1. Len(q1) <= Len(p1) /\ \A i \in 1..Len(q1) : p1[i] = q1[i]
      BY <2>1, <2>4, BelowIs
    <3>2. Len(q) <= Len(path)
      BY <1>1, <2>1, <3>1
    <3>3. \A i \in 1..Len(q) : i \in 1..Len(path)
      BY <1>1, <3>2
    <3>4. \A i \in 1..Len(q) : path[i] = q[i]
      BY <1>2, <2>2, <2>3, <3>1, <3>3
    <3>5. QED
      BY <3>2, <3>4, BelowIs
  <2>5. ASSUME IsBelow(q1, p1)
        PROVE  IsBelow(q, path)
    <3>1. Len(p1) <= Len(q1) /\ \A i \in 1..Len(p1) : q1[i] = p1[i]
      BY <2>1, <2>5, BelowIs
    <3>2. Len(path) <= Len(q)
      BY <1>1, <2>1, <3>1
    <3>3. \A i \in 1..Len(path) : i \in 1..Len(q)
      BY <1>1, <3>2
    <3>4. \A i \in 1..Len(path) : q[i] = path[i]
      BY <1>2, <2>2, <2>3, <3>1, <3>3
    <3>5. QED
      BY <3>2, <3>4, BelowIs
  <2>6. QED
    BY <2>4, <2>5 DEF p1, q1
<1>6. QED
  BY <1>3, <1>4, <1>5
------------------------------------------------------------------------------
(* What DotsetTouchesItsPath allows for the values a path q leads to.      *)
Touched(ok, path, q, before, after) ==
  \/ after = before
  \/ IsBelow(path, q) /\ before[1] \in {"error", "object"} /\ after[1] = "object"
  \/ ok /\ (IsBelow(path, q) \/ IsBelow(q, path))

(* The same as a property of a path, for the induction over it.            *)
Touches(path) ==
  \A a, b, granted \in Nat : \A o \in Objects(a) : \A v \in Proper[b] :
    b + Len(path) <= a /\ v \in Tree /\ a <= MaxLevels =>
      /\ DotSet[path][o][v][granted][1] => DotGet[path][DotSet[path][o][v][granted][2]] = v
      /\ \A q \in Dotted :
           Touched(DotSet[path][o][v][granted][1], path, q,
                   DotGet[q][o], DotGet[q][DotSet[path][o][v][granted][2]])

(* What a dotset may do to a path, seen from one name further up.          *)
LEMMA TouchedBelow ==
  ASSUME NEW path \in Dotted, NEW q \in Dotted, Head(path) = Head(q),
         Len(path) # 1, Len(q) # 1, NEW ok, NEW before, NEW after,
         Touched(ok, Tail(path), Tail(q), before, after)
  PROVE  Touched(ok, path, q, before, after)
BY BelowTail DEF Touched

(* A path leads where it did if its first name does.                       *)
LEMMA GetHead ==
  ASSUME NEW q \in Dotted, NEW o \in Tree, NEW p \in Tree,
         Get(p, Head(q)) = Get(o, Head(q))
  PROVE  DotGet[q][p] = DotGet[q][o]
BY SMTT(30), DotGetIs DEF GetBelow

(* DotsetTouchesItsPath for paths of any length: by induction over the     *)
(* path, with the objects entered and made on the way.                     *)
LEMMA SetTouches ==
  \A path \in Dotted : Touches(path)
<1> DEFINE A == {path \in Dotted : Touches(path)}
<1>1. ASSUME NEW path \in Dotted, Len(path) # 1 => Tail(path) \in A
      PROVE  path \in A
  <2> SUFFICES ASSUME NEW a \in Nat, NEW b \in Nat, NEW granted \in Nat,
                      NEW o \in Objects(a), NEW v \in Proper[b],
                      b + Len(path) <= a, v \in Tree, a <= MaxLevels
               PROVE  /\ DotSet[path][o][v][granted][1] =>
                           DotGet[path][DotSet[path][o][v][granted][2]] = v
                      /\ \A q \in Dotted :
                           Touched(DotSet[path][o][v][granted][1], path, q,
                                   DotGet[q][o], DotGet[q][DotSet[path][o][v][granted][2]])
    BY ZenonT(60) DEF Touches
  <2> DEFINE name == Head(path)
             child == Child(o, path)
             below == DotSet[Tail(path)][child][v][granted - 1]
             r == DotSet[path][o][v][granted]
  <2>1. o \in Tree /\ o \in Proper[a] /\ o[1] = "object"
    BY DEF Objects
  <2>2. r = IF granted = 0 THEN <<FALSE, o>>
            ELSE IF Len(path) = 1 THEN <<TRUE, Set(o, name, v)>>
            ELSE IF child[1] # "object" THEN <<FALSE, o>>
            ELSE <<below[1], Set(o, name, below[2])>>
    BY ZenonT(60), <2>1, DotSetCases
  <2>3. /\ child \in Tree /\ a - 1 \in Nat
        /\ a - 1 # 0 => child \in Proper[a - 1]
        /\ Get(o, name) # Error => child = Get(o, name)
        /\ Get(o, name) = Error => child = Object(<<>>)
    BY ChildOfObject DEF Child
  <2>4. name \in STRING /\ Len(path) \in Nat \ {0}
    BY PathLength
  <2>5. r[2] \in Tree
    <3>1. r[2] \in Proper[a]
      BY DotSetType DEF SetsProperly
    <3>2. QED
      BY <3>1, InTree
  <2>6. \A x \in Tree : DotGet[path][x] = GetBelow(DotGet, path, x)
    BY DotGetIs
  <2> HIDE DEF name, child, below, r
  <2>7. CASE granted = 0 \/ (Len(path) # 1 /\ child[1] # "object")
    <3>1. r[1] = FALSE /\ r[2] = o
      BY <2>2, <2>7
    <3>2. QED
      BY <3>1 DEF r, Touched
  <2>8. CASE granted # 0 /\ Len(path) = 1
    <3>1. r[1] = TRUE /\ r[2] = Set(o, name, v)
      BY <2>2, <2>8
    <3>2. b <= a - 1
      BY <2>3, <2>8
    <3>3. v \in Proper[a - 1]
      BY <2>3, <3>2, Levels
    <3>4. Get(r[2], name) = v /\ \A other : other # name => Get(r[2], other) = Get(o, other)
      BY <2>1, <2>4, <3>1, <3>3, SetObject
    <3>5. DotGet[path][r[2]] = v
      BY <2>5, <2>6, <2>8, <3>4 DEF GetBelow, name
    <3>6. ASSUME NEW q \in Dotted
          PROVE  Touched(r[1], path, q, DotGet[q][o], DotGet[q][r[2]])
      <4>1. CASE Head(q) = name
        <5>1. IsBelow(q, path)
          BY <2>8, <4>1, BelowTail DEF name
        <5>2. QED
          BY <3>1, <5>1 DEF Touched
      <4>2. CASE Head(q) # name
        <5>1. DotGet[q][r[2]] = DotGet[q][o]
          BY <2>1, <2>5, <3>4, <4>2, GetHead
        <5>2. QED
          BY <5>1 DEF Touched
      <4>3. QED
        BY <4>1, <4>2
    <3>7. QED
      BY <3>5, <3>6 DEF r
  <2>9. CASE granted # 0 /\ Len(path) # 1 /\ child[1] = "object"
    <3>1. r[1] = below[1] /\ r[2] = Set(o, name, below[2])
      BY <2>2, <2>9
    <3>2. Len(Tail(path)) = Len(path) - 1 /\ Tail(path) \in Dotted
      BY <2>9, PathLength
    <3>3. b + Len(Tail(path)) <= a - 1 /\ a - 1 # 0 /\ granted - 1 \in Nat /\ a - 1 <= MaxLevels
      BY <2>3, <2>4, <2>9, <3>2, InTree
    <3>4. child \in Objects(a - 1)
      BY <2>3, <2>9, <3>3 DEF Objects
    <3>5. Touches(Tail(path)) /\ SetsProperly(Tail(path))
      BY <1>1, <2>9, <3>2, DotSetType
    <3>6. below[2] \in Proper[a - 1] /\ below[2][1] = "object" /\ below[2] \in Tree
      <4>1. below[2] \in Proper[a - 1] /\ below[2][1] = "object"
        BY SMTT(30), <2>3, <3>3, <3>4, <3>5 DEF SetsProperly, below
      <4>2. QED
        BY <2>3, <3>3, <4>1, InTree
    <3>7. /\ below[1] => DotGet[Tail(path)][below[2]] = v
          /\ \A q \in Dotted : Touched(below[1], Tail(path), q, DotGet[q][child], DotGet[q][below[2]])
      BY <2>3, <3>3, <3>4, <3>5 DEF Touches, below
    <3>8. /\ Get(r[2], name) = below[2]
          /\ \A other : other # name => Get(r[2], other) = Get(o, other)
          /\ r[2][1] = "object"
      BY <2>1, <2>4, <3>1, <3>6, SetObject
    <3>9. DotGet[path][r[2]] = DotGet[Tail(path)][below[2]]
      BY <2>5, <2>6, <2>9, <3>8 DEF GetBelow, name
    <3>10. ASSUME NEW q \in Dotted
           PROVE  Touched(r[1], path, q, DotGet[q][o], DotGet[q][r[2]])
      <4>1. CASE Head(q) # name
        <5>1. DotGet[q][r[2]] = DotGet[q][o]
          BY <2>1, <2>5, <3>8, <4>1, GetHead
        <5>2. QED
          BY <5>1 DEF Touched
      <4>2. CASE Head(q) = name /\ Len(q) = 1
        <5>1. IsBelow(path, q)
          BY <4>2, BelowTail DEF name
        <5>2. DotGet[q][r[2]] = below[2] /\ DotGet[q][o] = Get(o, name)
          BY <2>1, <2>5, <3>8, <4>2, DotGetIs DEF GetBelow
        <5>3. Get(o, name)[1] \in {"error", "object"}
          BY <2>3, <2>9 DEF Error
        <5>4. QED
          BY <3>6, <5>1, <5>2, <5>3 DEF Touched
      <4>3. CASE Head(q) = name /\ Len(q) # 1
        <5>1. Tail(q) \in Dotted
          BY <4>3, PathLength
        <5>2. DotGet[q][r[2]] = DotGet[Tail(q)][below[2]] /\ DotGet[q][o] = DotGet[Tail(q)][Get(o, name)]
          BY <2>1, <2>5, <3>8, <4>3, DotGetIs DEF GetBelow
        <5>3. DotGet[Tail(q)][Get(o, name)] = DotGet[Tail(q)][child]
          <6>1. CASE Get(o, name) # Error
            BY <2>3, <6>1
          <6>2. CASE Get(o, name) = Error
            <7>1. child = Object(<<>>) /\ Get(o, name) \in Tree \cup {Error}
              BY <2>3, <6>2
            <7>2. DotGet[Tail(q)][child] = Error
              BY <2>3, <5>1, <7>1, EmptyObject, DotGetNone
            <7>3. \A other : Get(Error, other) = Error
              BY DEF Get, Error
            <7>4. DotGet[Tail(q)][Error] = Error
              BY <5>1, <7>3, DotGetNone
            <7>5. QED
              BY <6>2, <7>2, <7>4
          <6>3. QED
            BY <6>1, <6>2
        <5>4. Touched(r[1], Tail(path), Tail(q), DotGet[q][o], DotGet[q][r[2]])
          BY <3>1, <3>7, <5>1, <5>2, <5>3
        <5>5. QED
          BY <2>9, <4>3, <5>4, TouchedBelow DEF name
      <4>4. QED
        BY <4>1, <4>2, <4>3
    <3>11. QED
      BY <3>1, <3>7, <3>9, <3>10 DEF r
  <2>10. QED
    BY SMTT(30), <2>7, <2>8, <2>9
<1> HIDE DEF A
<1>2. Dotted \subseteq A
  BY <1>1, PathInduction
<1>3. QED
  BY <1>2 DEF A

(* The values of the document, its leaves and its paths.                   *)
LEMMA DocumentObjects ==
  ASSUME DTypeOK, doc[1] = "object"
  PROVE  /\ doc \in Objects(MaxLevels) /\ doc \in Tree
         /\ MaxLevels - MaxPath \in Nat
         /\ \A v \in Leaf : v \in Proper[MaxLevels - MaxPath] /\ v \in Tree /\ v # Error
         /\ \A path \in Path : path \in Dotted /\ MaxLevels - MaxPath + Len(path) <= MaxLevels
<1>1. MaxLevels \in Nat /\ MaxPath \in Nat /\ MaxLevels - MaxPath \in Nat
  BY LevelsAssumption, PathAssumption
<1>2. doc \in Proper[MaxLevels] /\ doc \in Tree
  <2>1. doc # Error
    BY DEF Error
  <2>2. QED
    BY <1>1, <2>1, InTree DEF DTypeOK
<1>3. \A v \in Leaf : v \in Proper[MaxLevels - MaxPath] /\ v \in Tree /\ v # Error
  BY <1>1, LeafType, InTree
<1>4. \A path \in Path : path \in Dotted /\ MaxLevels - MaxPath + Len(path) <= MaxLevels
  BY <1>1, PathIsDotted
<1>5. QED
  BY <1>1, <1>2, <1>3, <1>4 DEF Objects

(* json_object_dotset_value touches what is on its path only, for any      *)
(* document, names, values and length of the path.                         *)
THEOREM DotsetSafe == DSpec => []DotsetTouchesItsPath
<1>1. DTypeOK => DotsetTouchesItsPath
  <2> SUFFICES ASSUME DTypeOK, doc[1] = "object",
                      NEW path \in Path, NEW v \in Leaf, NEW granted \in 0..MaxPath
               PROVE  LET r == DotSet[path][doc][v][granted]
                      IN /\ r[1] => DotGet[path][r[2]] = v
                         /\ \A q \in Path :
                              LET before == DotGet[q][doc]
                                  after == DotGet[q][r[2]]
                              IN \/ after = before
                                 \/ /\ IsBelow(path, q) /\ before[1] \in {"error", "object"}
                                    /\ after[1] = "object"
                                 \/ r[1] /\ (IsBelow(path, q) \/ IsBelow(q, path))
    BY DEF DotsetTouchesItsPath
  <2> DEFINE r == DotSet[path][doc][v][granted]
             b == MaxLevels - MaxPath
  <2>1. /\ doc \in Objects(MaxLevels) /\ b \in Nat /\ v \in Proper[b] /\ v \in Tree
        /\ path \in Dotted /\ b + Len(path) <= MaxLevels
        /\ MaxLevels \in Nat /\ MaxLevels <= MaxLevels /\ granted \in Nat
    BY DocumentObjects, LevelsAssumption
  <2> HIDE DEF b
  <2>2. Touches(path)
    BY SMTT(30), <2>1, SetTouches
  <2>3. /\ r[1] => DotGet[path][r[2]] = v
        /\ \A q \in Dotted : Touched(r[1], path, q, DotGet[q][doc], DotGet[q][r[2]])
    BY <2>1, <2>2 DEF Touches
  <2> HIDE DEF r
  <2>4. \A q \in Path : q \in Dotted
    BY DocumentObjects
  <2>5. QED
    BY SMTT(30), <2>3, <2>4 DEF Touched, r
<1>2. QED
  BY <1>1, DocumentType, PTL
------------------------------------------------------------------------------
(* The members of an object, by position and by name.                      *)
LEMMA ObjectMembersOf ==
  \A x \in Tree : x[1] = "object" =>
    /\ x = Object(x[2]) /\ Len(x[2]) \in Nat /\ DOMAIN x[2] = 1..Len(x[2])
    /\ \A k : k \in Names(x) <=> Get(x, k) # Error
    /\ \A k : Get(x, k) \in Tree \cup {Error}
    /\ \A i \in DOMAIN x[2] : Get(x, x[2][i][1]) \in Tree /\ Get(x, x[2][i][1]) \in Children(x)
<1> SUFFICES ASSUME NEW x \in Tree, x[1] = "object"
             PROVE  /\ x = Object(x[2]) /\ Len(x[2]) \in Nat /\ DOMAIN x[2] = 1..Len(x[2])
                    /\ \A k : k \in Names(x) <=> Get(x, k) # Error
                    /\ \A k : Get(x, k) \in Tree \cup {Error}
                    /\ \A i \in DOMAIN x[2] :
                         Get(x, x[2][i][1]) \in Tree /\ Get(x, x[2][i][1]) \in Children(x)
  OBVIOUS
<1> DEFINE m == x[2]
           V == Nested[MaxLevels - 1]
<1>1. x \in Nested[MaxLevels] /\ MaxLevels \in Nat
  BY InTree DEF Tree
<1>2. m \in Seq(STRING \X V) /\ MaxLevels - 1 \in Nat /\ x = Object(m)
  BY <1>1, ObjectValue
<1>3. Error \notin V
  BY <1>2, NoErrorValue
<1>4. Len(m) \in Nat /\ DOMAIN m = 1..Len(m)
  BY <1>2, LenProperties
<1> HIDE DEF V, m
<1>5. \A k : Get(Object(m), k) = Error <=> ~Named(m, k)
  BY <1>2, <1>3, GetValue
<1>6. \A k : k \in Names(x) <=> Named(m, k)
  BY DEF Names, Named, m
<1>7. \A k : Get(x, k) \in Tree \cup {Error}
  BY GetInTree
<1>8. \A i \in DOMAIN x[2] : Get(x, x[2][i][1]) \in Children(x)
  BY DEF Children
<1>9. QED
  BY <1>2, <1>4, <1>5, <1>6, <1>7, <1>8, ChildInTree DEF m

(* Each name of one object is one of another, which then has as many       *)
(* entries at least.                                                       *)
LEMMA AsManyNames ==
  ASSUME NEW s \in Tree, NEW v \in Tree, s[1] = "object", v[1] = "object",
         NoNameTwice(s[2]), Names(s) \subseteq Names(v)
  PROVE  Len(v[2]) >= Len(s[2])
<1>1. Len(s[2]) \in Nat /\ DOMAIN s[2] = 1..Len(s[2]) /\ Len(v[2]) \in Nat /\ DOMAIN v[2] = 1..Len(v[2])
  BY ObjectMembersOf
<1> DEFINE I == 1..Len(s[2])
           J == 1..Len(v[2])
           place(i) == CHOOSE j \in J : v[2][j][1] = s[2][i][1]
           f == [i \in I |-> place(i)]
<1>2. \A i \in I : \E j \in J : v[2][j][1] = s[2][i][1]
  <2> SUFFICES ASSUME NEW i \in I
               PROVE  \E j \in J : v[2][j][1] = s[2][i][1]
    OBVIOUS
  <2>1. s[2][i][1] \in Names(v)
    BY <1>1 DEF Names
  <2>2. QED
    BY <1>1, <2>1 DEF Names
<1>3. \A i \in I : place(i) \in J /\ v[2][place(i)][1] = s[2][i][1]
  BY <1>2
<1> HIDE DEF place
<1>4. f \in [I -> J]
  BY <1>3
<1>5. \A i, j \in I : i # j => f[i] # f[j]
  <2> SUFFICES ASSUME NEW i \in I, NEW j \in I, f[i] = f[j]
               PROVE  i = j
    OBVIOUS
  <2>1. place(i) = place(j)
    OBVIOUS
  <2>2. s[2][i][1] = s[2][j][1] /\ i \in DOMAIN s[2] /\ j \in DOMAIN s[2]
    BY <1>1, <1>3, <2>1
  <2>3. QED
    BY <2>2 DEF NoNameTwice
<1>6. f \in [I -> J] /\ IsFiniteSet(I) /\ IsFiniteSet(J)
      /\ Cardinality(I) = Len(s[2]) /\ Cardinality(J) = Len(v[2])
  <2>1. \A n \in Nat : IsFiniteSet(1..n) /\ Cardinality(1..n) = n
    <3> TAKE n \in Nat
    <3>1. 1 \in Int /\ n \in Int
      OBVIOUS
    <3>2. IsFiniteSet(1..n) /\ Cardinality(1..n) = IF 1 > n THEN 0 ELSE n - 1 + 1
      BY <3>1, FS_Interval
    <3>3. (IF 1 > n THEN 0 ELSE n - 1 + 1) = n
      OBVIOUS
    <3>4. QED
      BY <3>2, <3>3
  <2>2. QED
    BY <1>1, <1>4, <2>1
<1> HIDE DEF f, I, J
<1>7. ASSUME Cardinality(J) < Cardinality(I)
      PROVE  FALSE
  <2>1. \E i, j \in I : i # j /\ f[i] = f[j]
    BY <1>6, <1>7, FS_PigeonHole
  <2>2. QED
    BY <1>5, <2>1
<1>8. QED
  BY <1>1, <1>6, <1>7

(* json_validate is what parson.h says of it, for a schema whose objects   *)
(* have no name twice.                                                     *)
Promised(s) ==
  \A n \in Nat : s \in Proper[n] => \A v \in Tree : json_validate[s][v] <=> Matches[s][v]

(* json_validate is what the header promises, by induction over the        *)
(* schema.                                                                 *)
LEMMA ValidateMatches ==
  \A s \in Tree : Promised(s)
<1> DEFINE A == {s \in Tree : Promised(s)}
<1>1. ASSUME NEW s \in Tree, \A c \in Children(s) : c \in A
      PROVE  s \in A
  <2> SUFFICES ASSUME NEW n \in Nat, s \in Proper[n], NEW v \in Tree
               PROVE  json_validate[s][v] <=> Matches[s][v]
    BY DEF Promised
  <2>1. /\ json_validate[s][v] = Validate(json_validate, s, v)
        /\ Matches[s][v] = Match(Matches, s, v)
        /\ v # Error
    BY ValidateIs, MatchesIs, InTree
  <2>2. ASSUME NEW c \in Children(s), NEW w \in Tree
        PROVE  json_validate[c][w] <=> Matches[c][w]
    <3>1. Promised(c)
      BY <1>1
    <3>2. n - 1 \in Nat /\ c \in Proper[n - 1]
      BY ChildLevel
    <3>3. QED
      BY <3>1, <3>2 DEF Promised
  <2>3. s[1] = "null" <=> s = <<"null">>
    <3>1. s[1] = "null" => s \in Scalar
      <4>1. s \in Nested[MaxLevels] /\ MaxLevels \in Nat
        BY InTree DEF Tree
      <4>2. QED
        BY <4>1, ThreeKinds
    <3>2. s[1] = "null" => s = <<"null">>
      BY <3>1 DEF Scalar
    <3>3. QED
      BY <3>2, Single
  <2>4. CASE s[1] = "null"
    BY <2>1, <2>3, <2>4 DEF Validate, Match
  <2>5. CASE s[1] \notin {"null", "array", "object"}
    <3>1. Validate(json_validate, s, v) <=> s[1] = v[1]
      BY <2>1, <2>5 DEF Validate
    <3>2. Match(Matches, s, v) <=> s[1] = v[1]
      BY <2>3, <2>5 DEF Match
    <3>3. QED
      BY SMTT(30), <2>1, <3>1, <3>2
  <2>6. CASE s[1] = "array"
    <3>1. Validate(json_validate, s, v) <=>
            v[1] = "array" /\ (s[2] # <<>> => \A i \in DOMAIN v[2] : json_validate[s[2][1]][v[2][i]])
      BY <2>1, <2>6 DEF Validate
    <3>2. Match(Matches, s, v) <=>
            v[1] = "array" /\ \A i \in DOMAIN v[2] : s[2] = <<>> \/ Matches[Head(s[2])][v[2][i]]
      BY <2>3, <2>6 DEF Match
    <3>3. ASSUME v[1] = "array", s[2] # <<>>, NEW i \in DOMAIN v[2]
          PROVE  json_validate[s[2][1]][v[2][i]] <=> Matches[Head(s[2])][v[2][i]]
      <4>1. v[2][i] \in Children(v)
        BY <3>3 DEF Children
      <4>2. v[2][i] \in Tree
        BY <4>1, ChildInTree
      <4>3. s[2] \in Seq(Proper[n - 1])
        BY <2>6, ArrayValue
      <4>4. 1 \in DOMAIN s[2] /\ Head(s[2]) = s[2][1]
        <5>1. Len(s[2]) \in Nat /\ Len(s[2]) # 0 /\ DOMAIN s[2] = 1..Len(s[2])
          BY <3>3, <4>3, EmptySeq, LenProperties
        <5>2. QED
          BY <4>3, <5>1
      <4>5. s[2][1] \in Children(s)
        BY <2>6, <4>4 DEF Children
      <4>6. QED
        BY <2>2, <4>2, <4>4, <4>5
    <3>4. QED
      BY <2>1, <3>1, <3>2, <3>3
  <2>7. CASE s[1] = "object"
    <3>1. Validate(json_validate, s, v) <=>
            /\ v[1] = "object" /\ Len(v[2]) >= Len(s[2])
            /\ \A i \in DOMAIN s[2] :
                 json_validate[Get(s, s[2][i][1])][Get(v, s[2][i][1])]
      BY <2>1, <2>7 DEF Validate
    <3>2. Match(Matches, s, v) <=>
            /\ v[1] = "object"
            /\ \A k \in Names(s) : k \in Names(v) /\ Matches[Get(s, k)][Get(v, k)]
      BY <2>3, <2>7 DEF Match
    <3>3. CASE v[1] # "object"
      BY <2>1, <3>1, <3>2, <3>3
    <3>4. CASE v[1] = "object"
      <4>1. ASSUME NEW k \in Names(s)
            PROVE  json_validate[Get(s, k)][Get(v, k)]
                     <=> k \in Names(v) /\ Matches[Get(s, k)][Get(v, k)]
        <5>1. PICK i \in DOMAIN s[2] : k = s[2][i][1]
          BY DEF Names
        <5>2. Get(s, k) \in Children(s) /\ Get(s, k) \in Tree
          BY <2>7, <5>1, ObjectMembersOf
        <5>3. k \in Names(v) <=> Get(v, k) # Error
          BY <3>4, ObjectMembersOf
        <5>4. Get(v, k) \in Tree \cup {Error}
          BY <3>4, ObjectMembersOf
        <5>5. Get(v, k) = Error => ~json_validate[Get(s, k)][Get(v, k)]
          BY <5>2, ValidateIs DEF Validate
        <5>6. QED
          BY <2>2, <5>2, <5>3, <5>4, <5>5
      <4>2. NoNameTwice(s[2])
        BY <2>7, ObjectValue
      <4>3. Names(s) \subseteq Names(v) => Len(v[2]) >= Len(s[2])
        BY <2>7, <3>4, <4>2, AsManyNames
      <4>4. \A k : k \in Names(s) <=> \E i \in DOMAIN s[2] : k = s[2][i][1]
        BY DEF Names
      <4>5. (\A i \in DOMAIN s[2] : json_validate[Get(s, s[2][i][1])][Get(v, s[2][i][1])])
              <=> \A k \in Names(s) : json_validate[Get(s, k)][Get(v, k)]
        BY <4>4
      <4>6. QED
        BY <2>1, <3>1, <3>2, <3>4, <4>1, <4>3, <4>5
    <3>5. QED
      BY <3>3, <3>4
  <2>8. QED
    BY <2>4, <2>5, <2>6, <2>7
<1> HIDE DEF A
<1>2. Tree \subseteq A
  BY <1>1, TreeInduction
<1>3. QED
  BY <1>2 DEF A

(* A value that is accepted still is with another entry.                   *)
LEMMA MatchesMore ==
  ASSUME NEW s \in Tree, NEW v \in Proper[MaxLevels], v[1] = "object", Matches[s][v],
         NEW k, k \in STRING, k \notin Names(v), NEW w \in Proper[MaxLevels - 1]
  PROVE  Set(v, k, w) \in Tree /\ Matches[s][Set(v, k, w)]
<1> DEFINE u == Set(v, k, w)
<1>1. MaxLevels \in Nat /\ v \in Tree /\ MaxLevels <= MaxLevels
  BY InTree
<1>2. u \in Proper[MaxLevels] /\ u[1] = "object" /\ \A other : other # k => Get(u, other) = Get(v, other)
  BY <1>1, SetObject
<1>3. u \in Tree
  BY <1>1, <1>2, InTree
<1> HIDE DEF u
<1>4. /\ Matches[s][v] = Match(Matches, s, v)
      /\ Matches[s][u] = Match(Matches, s, u)
  BY <1>1, <1>3, MatchesIs
<1>5. CASE s = <<"null">>
  BY <1>3, <1>4, <1>5 DEF Match, u
<1>6. CASE s # <<"null">>
  <2>1. s[1] = "object" /\ \A n \in Names(s) : n \in Names(v) /\ Matches[Get(s, n)][Get(v, n)]
    BY <1>4, <1>6 DEF Match
  <2>2. ASSUME NEW n \in Names(s)
        PROVE  n \in Names(u) /\ Matches[Get(s, n)][Get(u, n)]
    <3>1. n \in Names(v) /\ n # k
      BY <2>1
    <3>2. Get(u, n) = Get(v, n) /\ Get(v, n) # Error
      BY <1>1, <1>2, <3>1, ObjectMembersOf
    <3>3. n \in Names(u)
      BY <1>2, <1>3, <3>2, ObjectMembersOf
    <3>4. QED
      BY <2>1, <3>2, <3>3
  <2>3. Match(Matches, s, u)
    BY <1>2, <2>1, <2>2 DEF Match
  <2>4. QED
    BY <1>3, <1>4, <2>3 DEF u
<1>7. QED
  BY <1>5, <1>6

(* json_validate does what parson.h promises, for any schemas and          *)
(* documents.                                                              *)
THEOREM ValidateSafe == DSpec => []ValidateAsPromised
<1>1. DTypeOK => ValidateAsPromised
  <2> SUFFICES ASSUME DTypeOK, doc # Error, NEW schema \in Schemas
               PROVE  /\ json_validate[schema][doc] <=> Matches[schema][doc]
                      /\ doc[1] = "object" /\ json_validate[schema][doc] =>
                           \A k \in Key \ Names(doc), v \in Leaf :
                             json_validate[schema][Set(doc, k, v)]
    BY DEF ValidateAsPromised
  <2>1. MaxLevels \in Nat /\ doc \in Proper[MaxLevels] /\ doc \in Tree
    BY InTree DEF DTypeOK
  <2>2. schema \in Proper[MaxLevels] /\ schema \in Tree
    BY <2>1, SchemasAssumption, InTree
  <2>3. \A v \in Tree : json_validate[schema][v] <=> Matches[schema][v]
    BY <2>1, <2>2, ValidateMatches DEF Promised
  <2>4. ASSUME doc[1] = "object", json_validate[schema][doc], NEW k \in Key \ Names(doc), NEW v \in Leaf
        PROVE  json_validate[schema][Set(doc, k, v)]
    <3>1. v \in Proper[MaxLevels - 1]
      <4>1. MaxLevels - MaxPath \in Nat /\ MaxLevels - 1 \in Nat /\ MaxLevels - MaxPath <= MaxLevels - 1
        BY LevelsAssumption, PathAssumption
      <4>2. QED
        BY <4>1, LeafType, Levels
    <3>2. k \in STRING /\ k \notin Names(doc)
      BY KeyAssumption
    <3>3. Set(doc, k, v) \in Tree /\ Matches[schema][Set(doc, k, v)]
      BY <2>1, <2>2, <2>3, <2>4, <3>1, <3>2, MatchesMore
    <3>4. QED
      BY <2>3, <3>3
  <2>5. QED
    BY <2>1, <2>3, <2>4
<1>2. QED
  BY <1>1, DocumentType, PTL
------------------------------------------------------------------------------
(* Every value equals itself.                                              *)
LEMMA EqualsItself ==
  \A v \in Tree : json_value_equals[v][v]
<1> DEFINE A == {v \in Tree : json_value_equals[v][v]}
<1>1. ASSUME NEW v \in Tree, \A c \in Children(v) : c \in A
      PROVE  v \in A
  <2>1. json_value_equals[v][v] = Equal(json_value_equals, v, v)
    BY EqualsIs
  <2>2. \A c \in Children(v) : json_value_equals[c][c]
    BY <1>1
  <2>3. CASE v[1] = "array"
    <3>1. \A i \in DOMAIN v[2] : json_value_equals[v[2][i]][v[2][i]]
      BY <2>2, <2>3 DEF Children
    <3>2. QED
      BY <2>1, <2>3, <3>1 DEF Equal
  <2>4. CASE v[1] = "object"
    <3>1. \A i \in DOMAIN v[2] : json_value_equals[Get(v, v[2][i][1])][Get(v, v[2][i][1])]
      BY <2>2, <2>4 DEF Children
    <3>2. QED
      BY <2>1, <2>4, <3>1 DEF Equal
  <2>5. CASE v[1] = "num"
    <3>1. v \in Scalar
      <4>1. v \in Nested[MaxLevels] /\ MaxLevels \in Nat
        BY InTree DEF Tree
      <4>2. QED
        BY <2>5, <4>1, ThreeKinds
    <3>2. v[2] \in Int
      BY <2>5, <3>1 DEF Scalar
    <3>3. Close(v[2], v[2])
      BY <3>2 DEF Close
    <3>4. QED
      BY <2>1, <2>5, <3>3 DEF Equal
  <2>6. CASE v[1] \notin {"array", "object", "num"}
    BY <2>1, <2>6 DEF Equal
  <2>7. QED
    BY <2>3, <2>4, <2>5, <2>6
<1> HIDE DEF A
<1>2. Tree \subseteq A
  BY <1>1, TreeInduction
<1>3. QED
  BY <1>2 DEF A

(* Objects of the same length are equal if what the names of the first     *)
(* lead to is.                                                             *)
LEMMA EqualObjects ==
  ASSUME NEW u \in Tree, NEW o \in Tree, u[1] = "object", o[1] = "object",
         Len(u[2]) = Len(o[2]),
         \A k : Get(u, k) # Error => json_value_equals[Get(u, k)][Get(o, k)]
  PROVE  json_value_equals[u][o]
<1>1. json_value_equals[u][o] = Equal(json_value_equals, u, o)
  BY EqualsIs
<1>2. \A i \in DOMAIN u[2] : json_value_equals[Get(u, u[2][i][1])][Get(o, u[2][i][1])]
  <2>1. \A i \in DOMAIN u[2] : Get(u, u[2][i][1]) # Error
    BY SMTT(30), ObjectMembersOf, InTree
  <2>2. QED
    BY <2>1
<1>3. QED
  BY <1>1, <1>2 DEF Equal

(* What is not beside the path is removed, and may be set again.           *)
SetsBack(path) ==
  \A a, granted \in Nat : \A o \in Objects(a) :
    a <= MaxLevels /\ Len(path) <= granted =>
      /\ DotGet[path][o] = Error => DotRemove[path][o] = <<FALSE, o>>
      /\ DotGet[path][o] # Error =>
           /\ a - Len(path) \in Nat /\ DotGet[path][o] \in Proper[a - Len(path)]
           /\ DotRemove[path][o][1] = TRUE
           /\ DotGet[path][DotRemove[path][o][2]] = Error
           /\ json_value_equals[DotSet[path][DotRemove[path][o][2]]
                                      [DotGet[path][o]][granted][2]][o]

(* RemoveAndSetBack for paths of any length: by induction over the path.   *)
LEMMA RemovedIsSetBack ==
  \A path \in Dotted : SetsBack(path)
<1> DEFINE A == {path \in Dotted : SetsBack(path)}
<1>1. ASSUME NEW path \in Dotted, Len(path) # 1 => Tail(path) \in A
      PROVE  path \in A
  <2> DEFINE name == Head(path)
             rest == Tail(path)
  <2> SUFFICES ASSUME NEW a \in Nat, NEW granted \in Nat, NEW o \in Objects(a),
                      a <= MaxLevels, Len(path) <= granted
               PROVE  /\ DotGet[path][o] = Error => DotRemove[path][o] = <<FALSE, o>>
                      /\ DotGet[path][o] # Error =>
                           /\ a - Len(path) \in Nat /\ DotGet[path][o] \in Proper[a - Len(path)]
                           /\ DotRemove[path][o][1] = TRUE
                           /\ DotGet[path][DotRemove[path][o][2]] = Error
                           /\ json_value_equals[DotSet[path][DotRemove[path][o][2]]
                                                      [DotGet[path][o]][granted][2]][o]
    BY DEF SetsBack
  <2> DEFINE v == DotGet[path][o]
             without == DotRemove[path][o]
             p == without[2]
             back == DotSet[path][p][v][granted]
             child == Get(o, name)
  <2>1. o \in Tree /\ o \in Proper[a] /\ o[1] = "object"
    BY DEF Objects
  <2>2. name \in STRING /\ Len(path) \in Nat \ {0} /\ granted # 0
    <3>1. name \in STRING /\ Len(path) \in Nat \ {0}
      BY PathLength
    <3>2. QED
      BY <3>1
  <2>3. p \in Proper[a] /\ p[1] = "object" /\ p \in Tree
    <3>1. p \in Proper[a] /\ p[1] = "object"
      BY DotRemoveType
    <3>2. QED
      BY <3>1, InTree
  <2>4. /\ DotGet[path][o] = GetBelow(DotGet, path, o)
        /\ DotGet[path][p] = GetBelow(DotGet, path, p)
        /\ without = RemoveBelow(DotRemove, path, o)
    BY <2>1, <2>3, DotGetIs, DotRemoveIs
  <2>5. /\ child # Error => a - 1 \in Nat /\ child \in Proper[a - 1]
        /\ child \in Tree \cup {Error}
    BY <2>1, GetLevel, GetInTree
  <2>6. \A x \in Proper[a - 1] : a - 1 \in Nat => x \in Tree
    <3>1. a - 1 \in Nat => a - 1 <= MaxLevels
      BY SMTT(30), InTree
    <3>2. QED
      BY <3>1, InTree
  <2>7. CASE Len(path) = 1
    <3>1. v = child /\ without = Remove(o, name) /\ DotGet[path][p] = Get(p, name)
      BY <2>4, <2>7 DEF GetBelow, RemoveBelow
    <3> HIDE DEF name, child, without, p, v, back
    <3>2. CASE v = Error
      <4>1. without = <<FALSE, o>>
        BY <2>1, <3>1, <3>2, RemoveObject DEF child
      <4>2. QED
        BY <3>2, <4>1 DEF v, without
    <3>3. CASE v # Error
      <4>1. /\ without[1] = TRUE /\ Get(p, name) = Error
            /\ \A other : other # name => Get(p, other) = Get(o, other)
            /\ Len(p[2]) = Len(o[2]) - 1
        <5> DEFINE u == Remove(o, name)
        <5>1. Get(o, name) # Error
          BY <3>1, <3>3 DEF child
        <5>2. /\ u[1] = TRUE /\ Get(u[2], name) = Error
              /\ \A other : other # name => Get(u[2], other) = Get(o, other)
              /\ Len(u[2][2]) = Len(o[2]) - 1
          BY ZenonT(60), <2>1, <5>1, RemoveObject
        <5>3. u = without /\ p = without[2]
          BY <3>1 DEF p
        <5> HIDE DEF u
        <5>4. QED
          BY <5>2, <5>3
      <4>2. a - 1 \in Nat /\ v \in Proper[a - 1] /\ v \in Tree
        BY <2>5, <2>6, <3>1, <3>3
      <4>3. back[2] = Set(p, name, v)
        <5>1. back = SetBelow(DotSet, p, path, v, granted)
          BY <2>3, <4>2, DotSetIs DEF back
        <5>2. QED
          BY <2>2, <2>7, <5>1 DEF SetBelow, name
      <4>4. /\ back[2] \in Proper[a] /\ back[2][1] = "object"
            /\ Get(back[2], name) = v
            /\ \A other : other # name => Get(back[2], other) = Get(p, other)
            /\ Len(back[2][2]) = Len(p[2]) + 1
        BY <2>2, <2>3, <4>1, <4>2, <4>3, SetObject
      <4>5. back[2] \in Tree
        BY <4>4, InTree
      <4>6. \A k : Get(back[2], k) = Get(o, k)
        BY <3>1, <4>1, <4>4 DEF child
      <4>7. \A k : Get(back[2], k) # Error => json_value_equals[Get(back[2], k)][Get(o, k)]
        <5>1. \A k : Get(o, k) \in Tree \cup {Error}
          BY <2>1, GetInTree
        <5>2. QED
          BY <4>6, <5>1, EqualsItself
      <4>8. Len(back[2][2]) = Len(o[2])
        <5>1. Len(o[2]) \in Nat
          BY <2>1, ObjectMembersOf
        <5>2. QED
          BY <4>1, <4>4, <5>1
      <4>9. json_value_equals[back[2]][o]
        BY <2>1, <4>4, <4>5, <4>7, <4>8, EqualObjects
      <4>10. QED
        BY <2>7, <3>1, <3>3, <4>1, <4>2, <4>9 DEF v, without, p, back
    <3>4. QED
      BY <3>2, <3>3
  <2>8. CASE Len(path) # 1
    <3>1. rest \in Dotted /\ Len(rest) = Len(path) - 1 /\ SetsBack(rest)
      BY <1>1, <2>8, PathLength
    <3>2. v = DotGet[rest][child] /\ DotGet[path][p] = DotGet[rest][Get(p, name)]
      BY <2>4, <2>8 DEF GetBelow
    <3> DEFINE below == DotRemove[rest][child]
    <3>3. without = IF child[1] # "object" THEN <<FALSE, o>> ELSE <<below[1], Set(o, name, below[2])>>
      BY <2>4, <2>8 DEF RemoveBelow
    <3> HIDE DEF name, rest, child, without, p, v, back, below
    <3>4. CASE child[1] # "object"
      <4>1. v = Error
        <5>1. \A k : Get(child, k) = Error
          BY <3>4, GetNone
        <5>2. QED
          BY <2>5, <3>1, <3>2, <5>1, DotGetNone
      <4>2. QED
        BY <3>3, <3>4, <4>1 DEF v, without
    <3>5. CASE child[1] = "object"
      <4>1. child # Error /\ a - 1 \in Nat /\ child \in Proper[a - 1] /\ child \in Tree
        <5>1. Error[1] # "object"
          BY DEF Error
        <5>2. QED
          BY <2>5, <3>5, <5>1
      <4>2. child \in Objects(a - 1) /\ a - 1 <= MaxLevels /\ granted - 1 \in Nat
            /\ Len(rest) <= granted - 1
        <5>1. a - 1 <= MaxLevels /\ granted - 1 \in Nat /\ Len(rest) <= granted - 1
          BY <2>2, <3>1, <4>1, InTree
        <5>2. QED
          BY <3>5, <4>1, <5>1 DEF Objects
      <4>3. CASE v = Error
        <5>1. below = <<FALSE, child>>
          BY <3>1, <3>2, <4>1, <4>2, <4>3 DEF SetsBack, below
        <5>2. Set(o, name, child) = o
          BY <2>1, <2>2, <4>1, SetObject DEF child
        <5>3. without = <<FALSE, o>>
          BY SMTT(30), <3>3, <3>5, <5>1, <5>2
        <5>4. QED
          BY <4>3, <5>3 DEF v, without
      <4>4. CASE v # Error
        <5>1. /\ a - 1 - Len(rest) \in Nat /\ v \in Proper[a - 1 - Len(rest)]
              /\ below[1] = TRUE /\ DotGet[rest][below[2]] = Error
              /\ json_value_equals[DotSet[rest][below[2]][v][granted - 1][2]][child]
          <6> DEFINE n == a - 1
                     g == granted - 1
          <6>1. n \in Nat /\ g \in Nat /\ child \in Objects(n) /\ n <= MaxLevels /\ Len(rest) <= g
            BY <4>1, <4>2
          <6>2. DotGet[rest][child] # Error /\ v = DotGet[rest][child]
            BY <3>2, <4>4
          <6> HIDE DEF n, g
          <6>3. /\ n - Len(rest) \in Nat /\ DotGet[rest][child] \in Proper[n - Len(rest)]
                /\ DotRemove[rest][child][1] = TRUE
                /\ DotGet[rest][DotRemove[rest][child][2]] = Error
                /\ json_value_equals[DotSet[rest][DotRemove[rest][child][2]]
                                           [DotGet[rest][child]][g][2]][child]
            BY <3>1, <6>1, <6>2, Zenon DEF SetsBack
          <6>4. QED
            BY <6>2, <6>3 DEF below, n, g
        <5> DEFINE b == a - Len(path)
                   again == DotSet[rest][below[2]][v][granted - 1][2]
        <5>2. a - 1 - Len(rest) = b /\ b + Len(rest) <= a - 1 /\ b <= MaxLevels
          BY <2>2, <3>1, InTree
        <5>3. b \in Nat /\ v \in Proper[b] /\ v \in Tree
          <6>1. b \in Nat /\ v \in Proper[b]
            BY <5>1, <5>2
          <6>2. QED
            BY <5>2, <6>1, InTree
        <5>4. below[2] \in Proper[a - 1] /\ below[2][1] = "object" /\ below[2] \in Tree
          <6>1. below[2] \in Proper[a - 1] /\ below[2][1] = "object"
            BY SMTT(30), <3>1, <4>1, <4>2, DotRemoveType DEF below
          <6>2. QED
            BY <2>6, <4>1, <6>1
        <5>5. without[1] = TRUE /\ p = Set(o, name, below[2])
          BY <3>3, <3>5, <5>1 DEF p
        <5>6. /\ Get(p, name) = below[2]
              /\ \A other : other # name => Get(p, other) = Get(o, other)
              /\ Len(p[2]) = Len(o[2])
          BY SMTT(30), <2>1, <2>2, <4>1, <5>4, <5>5, SetObject DEF child
        <5>7. DotGet[path][p] = Error
          BY <3>2, <5>1, <5>6
        <5> HIDE DEF b
        <5>8. again \in Proper[a - 1]
          <6>1. SetsProperly(rest) /\ below[2] \in Objects(a - 1)
            BY <3>1, <5>4, DotSetType DEF Objects
          <6>2. QED
            BY <4>1, <4>2, <5>2, <5>3, <6>1 DEF SetsProperly
        <5>9. again \in Tree
          BY <2>6, <4>1, <5>8
        <5> HIDE DEF again
        <5>10. below[2] # Error
          BY <5>4, InTree
        <5>11. back[2] = Set(p, name, again)
          <6>1. back = SetBelow(DotSet, p, path, v, granted)
            BY SMTT(30), <2>3, <5>3, DotSetIs DEF back
          <6>2. back = <<DotSet[rest][below[2]][v][granted - 1][1], Set(p, name, again)>>
            BY <2>2, <2>8, <5>4, <5>6, <5>10, <6>1 DEF SetBelow, name, rest, again
          <6>3. QED
            BY <6>2
        <5>12. /\ back[2] \in Proper[a] /\ back[2][1] = "object"
               /\ Get(back[2], name) = again
               /\ \A other : other # name => Get(back[2], other) = Get(p, other)
               /\ Len(back[2][2]) = Len(p[2])
          BY <2>2, <2>3, <5>6, <5>8, <5>10, <5>11, SetObject
        <5>13. back[2] \in Tree
          BY <5>12, InTree
        <5>14. \A k : Get(back[2], k) # Error => json_value_equals[Get(back[2], k)][Get(o, k)]
          <6>1. \A k : Get(o, k) \in Tree \cup {Error}
            BY <2>1, GetInTree
          <6>2. json_value_equals[again][child]
            BY <5>1 DEF again
          <6>3. \A k : k # name => Get(back[2], k) = Get(o, k)
            BY <5>6, <5>12
          <6>4. \A k : k # name => (Get(back[2], k) # Error => json_value_equals[Get(back[2], k)][Get(o, k)])
            BY <6>1, <6>3, EqualsItself
          <6>5. json_value_equals[Get(back[2], name)][Get(o, name)]
            BY <5>12, <6>2 DEF child
          <6>6. QED
            BY <6>4, <6>5
        <5>15. json_value_equals[back[2]][o]
          BY <2>1, <5>6, <5>12, <5>13, <5>14, EqualObjects
        <5>16. QED
          BY ZenonT(60), <4>4, <5>3, <5>5, <5>7, <5>15 DEF v, without, p, back, b
      <4>5. QED
        BY <4>3, <4>4
    <3>6. QED
      BY <3>4, <3>5
  <2>9. QED
    BY ZenonT(60), <2>7, <2>8
<1> HIDE DEF A
<1>2. Dotted \subseteq A
  BY <1>1, PathInduction
<1>3. QED
  BY <1>2 DEF A

(* Removing an entry and setting it again restores the document, for any   *)
(* document and path, although json_object_remove moves the last entry.    *)
THEOREM RemoveSafe == DSpec => []RemoveAndSetBack
<1>1. DTypeOK => RemoveAndSetBack
  <2> SUFFICES ASSUME DTypeOK, doc[1] = "object", NEW path \in Path
               PROVE  LET v == DotGet[path][doc]
                          without == DotRemove[path][doc]
                      IN IF v = Error THEN without = <<FALSE, doc>>
                         ELSE /\ without[1] /\ DotGet[path][without[2]] = Error
                              /\ json_value_equals[DotSet[path][without[2]][v][MaxPath][2]][doc]
    BY DEF RemoveAndSetBack
  <2>1. /\ doc \in Objects(MaxLevels) /\ path \in Dotted /\ Len(path) <= MaxPath
        /\ MaxLevels \in Nat /\ MaxLevels <= MaxLevels /\ MaxPath \in Nat
    BY DocumentObjects, PathIsDotted, LeafType, LevelsAssumption
  <2>2. SetsBack(path)
    BY <2>1, RemovedIsSetBack
  <2>3. QED
    BY ZenonT(60), <2>1, <2>2 DEF SetsBack
<1>2. QED
  BY <1>1, DocumentType, PTL
================================================================================
