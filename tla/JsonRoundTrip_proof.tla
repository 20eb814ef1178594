-------------------------- MODULE JsonRoundTrip_proof --------------------------
(***************************************************************************)
(* The parser and the serializer of JsonText are inverse to each other,    *)
(* for values of any shape and texts of any length.                        *)
(*                                                                         *)
(* Text to value: an honest parser has passed the text of what it returns, *)
(* up to white space and decimals.  Each pass of a loop keeps that up      *)
(* (ReadItem, ReadMember), and parse_value is honest if parse_value one    *)
(* level deeper is (HonestStep).                                           *)
(*                                                                         *)
(* Value to text: a parser reads back a value when it returns one like it, *)
(* and leaves what follows.  The text of a container is cut into what is   *)
(* ahead of its entries (RestAhead); each pass over it reads back one      *)
(* entry, or fails at one with too many levels (ItemBack, MemberBack);     *)
(* parse_value reads back one level more than parse_value one level deeper *)
(* (StepBack).  The text of what was read is the text it was read from,    *)
(* settled token by token (SettleConcat, LikeContainer): a number with six *)
(* zeros behind the point is an integer, and is written as one from then   *)
(* on.                                                                     *)
(***************************************************************************)
EXTENDS JsonDocument_proof

(* Texts that are joined.                                                  *)
LEMMA TextJoin ==
  /\ \A s, t, u \in Text : (s \o t) \o u = s \o (t \o u)
  /\ \A s \in Text : <<>> \o s = s /\ s \o <<>> = s
  /\ \A s, t \in Text : s \o t \in Text /\ Len(s \o t) = Len(s) + Len(t)
BY SMTT(30), ConcatAssociative, ConcatEmptySeq, ConcatProperties DEF Text

(* A token in front of a text.                                             *)
LEMMA OneToken ==
  ASSUME NEW t \in Token, NEW s \in Text
  PROVE  /\ <<t>> \o s \in Text /\ <<t>> \o s # <<>>
         /\ First(<<t>> \o s) = t /\ Tail(<<t>> \o s) = s
         /\ Len(<<t>> \o s) = Len(s) + 1
<1> DEFINE one == <<t>>
           x == one \o s
<1>1. one \in Seq(Token) /\ Len(one) = 1 /\ one[1] = t /\ s \in Seq(Token)
  BY DEF Text
<1> HIDE DEF one
<1>2. /\ x \in Seq(Token) /\ Len(x) = 1 + Len(s) /\ Len(s) \in Nat
      /\ \A i \in 1..1 + Len(s) : x[i] = IF i <= 1 THEN one[i] ELSE s[i - 1]
  <2>1. /\ x \in Seq(Token) /\ Len(x) = Len(one) + Len(s)
        /\ \A i \in 1..Len(one) + Len(s) :
             x[i] = IF i <= Len(one) THEN one[i] ELSE s[i - Len(one)]
    BY <1>1, ConcatProperties
  <2>2. QED
    BY <1>1, <2>1, LenProperties
<1> HIDE DEF x
<1>3. x # <<>> /\ x[1] = t
  <2>1. 1 \in 1..1+Len(s)
    BY <1>2
  <2>2. x[1] = t
    BY <1>1, <1>2, <2>1
  <2>3. Len(x) # 0
    BY <1>2
  <2>4. QED
    BY <1>2, <2>2, <2>3, EmptySeq
<1>4. Tail(x) = s
  <2>1. Tail(x) \in Seq(Token) /\ Len(Tail(x)) = Len(s) /\ \A i \in 1..Len(Tail(x)) : Tail(x)[i] = x[i + 1]
    BY <1>2, <1>3, HeadTailProperties
  <2>2. \A i \in 1..Len(s) : Tail(x)[i] = s[i]
    <3> SUFFICES ASSUME NEW i \in 1..Len(s)
                 PROVE  Tail(x)[i] = s[i]
      OBVIOUS
    <3>1. i + 1 \in 1..1+Len(s) /\ ~(i + 1 <= 1) /\ i + 1 - 1 = i
      BY <1>2
    <3>2. QED
      BY <1>2, <2>1, <3>1
  <2>3. QED
    BY <1>1, <2>1, <2>2, SeqEqual
<1>5. QED
  BY <1>2, <1>3, <1>4 DEF First, Text, x, one

(* A text is its first token and its rest.                                 *)
LEMMA FirstAndRest ==
  \A s \in Text : s # <<>> => s = <<First(s)>> \o Tail(s)
<1> SUFFICES ASSUME NEW s \in Text, s # <<>>
             PROVE  s = <<First(s)>> \o Tail(s)
  OBVIOUS
<1> DEFINE t == First(s)
           x == <<t>> \o Tail(s)
<1>1. t = s[1] /\ t \in Token /\ Tail(s) \in Text /\ Len(Tail(s)) = Len(s) - 1 /\ Len(s) \in Nat
  BY TextFacts
<1>2. /\ x \in Text /\ x # <<>> /\ First(x) = t /\ Tail(x) = Tail(s) /\ Len(x) = Len(Tail(s)) + 1
  BY <1>1, OneToken
<1> HIDE DEF t, x
<1>3. Len(x) = Len(s) /\ s \in Seq(Token) /\ x \in Seq(Token) /\ x[1] = t
  BY <1>1, <1>2, TextFacts DEF Text
<1>4. \A i \in 1..Len(s) : x[i] = s[i]
  <2> SUFFICES ASSUME NEW i \in 1..Len(s), i # 1
               PROVE  x[i] = s[i]
    BY <1>1, <1>3
  <2>1. i - 1 \in 1..Len(Tail(s)) /\ i - 1 + 1 = i
    BY <1>1
  <2>2. Tail(x)[i - 1] = x[i - 1 + 1]
    BY <1>2, <1>3, <2>1, HeadTailProperties
  <2>3. Tail(s)[i - 1] = s[i - 1 + 1]
    BY <1>3, <2>1, HeadTailProperties
  <2>4. QED
    BY <1>2, <2>1, <2>2, <2>3
<1>5. QED
  BY <1>3, <1>4, SeqEqual DEF x, t

(* The tokens that a proof names.                                          *)
LEMMA SomeTokens ==
  /\ \A x \in Marks : <<x>> \in Token /\ <<x>>[1] = x /\ << <<x>> >> \in Text
  /\ {"{", "}", "[", "]", ",", ":", " ", "-"} \subseteq Marks
  /\ \A t \in Token : \A x \in Marks : t = <<x>> <=> t[1] = x
  /\ \A n \in STRING : <<"str", n>> \in Token
  /\ \A n \in Int : <<"num", n>> \in Token /\ <<"float", n>> \in Token
<1>1. \A x \in Marks : <<x>> \in Token /\ << <<x>> >> \in Text
  BY TokensOfText
<1>2. \A n \in STRING : <<"str", n>> \in Token
  BY TokensOfText
<1>3. \A n \in Int : <<"num", n>> \in Token /\ <<"float", n>> \in Token
  BY TokensOfText
<1>4. \A t \in Token : \A x \in Marks : t[1] = x => t = <<x>>
  BY Tokens
<1>5. {"{", "}", "[", "]", ",", ":", " ", "-"} \subseteq Marks
  BY DEF Marks
<1>6. QED
  BY <1>1, <1>2, <1>3, <1>4, <1>5, Single

(* Skipping stops at a token that is no white space, and passes one that   *)
(* is.                                                                     *)
LEMMA SkipToken ==
  ASSUME NEW t \in Token, NEW s \in Text
  PROVE  /\ t[1] # " " => Skip[<<t>> \o s] = <<t>> \o s
         /\ t[1] = " " => Skip[<<t>> \o s] = Skip[s]
<1> DEFINE x == <<t>> \o s
<1>1. x \in Text /\ First(x) = t /\ Tail(x) = s
  BY OneToken
<1> HIDE DEF x
<1>2. t = <<" ">> <=> t[1] = " "
  <2>1. " " \in Marks
    BY DEF Marks
  <2>2. QED
    BY <2>1, SomeTokens
<1>3. QED
  BY <1>1, <1>2, SkipIs DEF x

(* Skipping twice skips no more than skipping once.                        *)
LEMMA SkipTwice ==
  \A s \in Text : Skip[Skip[s]] = Skip[s]
BY SkipType, SkipIs

(* The layout is white space: skipping passes it.                          *)
LEMMA SkipLayout ==
  \A pretty \in BOOLEAN, level \in Nat, s \in Text :
    Skip[Layout(pretty, level) \o s] = Skip[s]
<1> SUFFICES ASSUME NEW s \in Text
             PROVE  \A pretty \in BOOLEAN, level \in Nat : Skip[Layout(pretty, level) \o s] = Skip[s]
  OBVIOUS
<1> DEFINE space == <<" ">>
           spaces(n) == [i \in 1..n |-> space]
           A == {n \in Nat : Skip[spaces(n) \o s] = Skip[s]}
<1>0. space \in Token /\ space[1] = " "
  <2>1. " " \in Marks
    BY DEF Marks
  <2>2. QED
    BY <2>1, SomeTokens
<1>1. \A pretty \in BOOLEAN, level \in Nat :
        Layout(pretty, level) = IF pretty THEN spaces(level + 1) ELSE <<>>
  BY DEF Layout
<1> HIDE DEF space
<1>2. 0 \in A
  <2>1. spaces(0) = <<>>
    OBVIOUS
  <2>2. QED
    BY <2>1, TextJoin
<1>3. ASSUME NEW n \in A
      PROVE  n + 1 \in A
  <2>0. n \in Nat /\ n + 1 \in Nat /\ Skip[spaces(n) \o s] = Skip[s]
    OBVIOUS
  <2> HIDE DEF A
  <2>1. spaces(n) \in Text /\ spaces(n) \in Seq(Token) /\ spaces(n + 1) \in Seq(Token)
        /\ Len(spaces(n)) = n /\ Len(spaces(n + 1)) = n + 1
    <3>1. \A k \in Nat : spaces(k) \in Seq(Token) /\ Len(spaces(k)) = k
      <4>1. space \in Token
        BY <1>0
      <4>2. \A k \in Nat : [i \in 1..k |-> space] \in Seq(Token) /\ Len([i \in 1..k |-> space]) = k
        BY <4>1
      <4>3. QED
        BY <4>2
    <3> HIDE DEF spaces
    <3>2. QED
      BY <2>0, <3>1 DEF Text
  <2>2. spaces(n + 1) = <<space>> \o spaces(n)
    <3> DEFINE one == <<space>>
               x == one \o spaces(n)
    <3>1. one \in Seq(Token) /\ Len(one) = 1 /\ one[1] = space
      <4>1. space \in Token
        BY <1>0
      <4>2. QED
        BY <4>1
    <3>2. \A i \in 1..n : spaces(n)[i] = space
      OBVIOUS
    <3>3. \A i \in 1..n+1 : spaces(n + 1)[i] = space
      OBVIOUS
    <3> DEFINE most == spaces(n)
               all == spaces(n + 1)
    <3>4. most \in Seq(Token) /\ Len(most) = n /\ all \in Seq(Token) /\ Len(all) = n + 1
          /\ (\A i \in 1..n : most[i] = space) /\ \A i \in 1..n+1 : all[i] = space
      BY <2>1, <3>2, <3>3
    <3> HIDE DEF one, most, all, spaces
    <3>5. /\ one \o most \in Seq(Token) /\ Len(one \o most) = 1 + n
          /\ \A i \in 1..1 + n : (one \o most)[i] = IF i <= 1 THEN one[i] ELSE most[i - 1]
      <4>1. /\ one \o most \in Seq(Token) /\ Len(one \o most) = Len(one) + Len(most)
            /\ \A i \in 1..Len(one) + Len(most) :
                 (one \o most)[i] = IF i <= Len(one) THEN one[i] ELSE most[i - Len(one)]
        BY <3>1, <3>4, ConcatProperties
      <4>2. QED
        BY <2>0, <3>1, <3>4, <4>1
    <3>6. \A i \in 1..n+1 : (one \o most)[i] = space
      <4> SUFFICES ASSUME NEW i \in 1..n+1
                   PROVE  (one \o most)[i] = space
        OBVIOUS
      <4>1. i \in 1..1+n /\ (i <= 1 => i = 1) /\ (~(i <= 1) => i - 1 \in 1..n)
        BY <2>0
      <4>2. QED
        BY <3>1, <3>4, <3>5, <4>1
    <3>7. all = one \o most
      <4>1. Len(one \o most) = Len(all)
        BY <3>4, <3>5
      <4>2. \A i \in 1..Len(all) : all[i] = (one \o most)[i]
        BY <3>4, <3>6
      <4>3. QED
        BY <3>4, <3>5, <4>1, <4>2, SeqEqual
    <3>8. QED
      BY <3>7 DEF one, most, all
  <2> HIDE DEF spaces
  <2>3. spaces(n + 1) \o s = <<space>> \o (spaces(n) \o s)
    <3> DEFINE one == <<space>>
               most == spaces(n)
    <3>1. one \in Text /\ most \in Text
      BY <1>0, <2>1, TokensOfText
    <3>2. spaces(n + 1) = one \o most
      BY <2>2
    <3> HIDE DEF one, most
    <3>3. (one \o most) \o s = one \o (most \o s)
      BY <3>1, TextJoin
    <3>4. QED
      BY <3>2, <3>3 DEF one, most
  <2>4. spaces(n) \o s \in Text
    BY <2>1, TextJoin
  <2>5. Skip[spaces(n + 1) \o s] = Skip[spaces(n) \o s]
    BY <1>0, <2>3, <2>4, SkipToken
  <2>6. QED
    BY <2>0, <2>5 DEF A
<1>4. A = Nat
  <2> HIDE DEF A
  <2>1. A \in SUBSET Nat
    BY DEF A
  <2>2. QED
    BY <1>2, <1>3, <2>1, CopyF!Upward
<1> HIDE DEF spaces
<1>5. \A pretty \in BOOLEAN, level \in Nat : Skip[Layout(pretty, level) \o s] = Skip[s]
  <2> SUFFICES ASSUME NEW pretty \in BOOLEAN, NEW level \in Nat
               PROVE  Skip[Layout(pretty, level) \o s] = Skip[s]
    OBVIOUS
  <2>1. level + 1 \in A
    <3> HIDE DEF A
    <3>1. QED
      BY <1>4
  <2>2. QED
    BY <1>1, <2>1, TextJoin
<1>6. QED
  BY <1>5

(* The plain form of a text.                                               *)
PlainToken(t) ==
  CASE t = <<" ">> -> <<>>
    [] t[1] \in {"num", "float"} -> <<Printed(t[2])>>
    [] OTHER -> <<t>>

PlainStep(f, s) == IF s = <<>> THEN <<>> ELSE PlainToken(s[1]) \o f[Tail(s)]

PlainF == INSTANCE Recursion WITH S <- Text, Step <- PlainStep, Level <- TextOfLength

(* Plain, token by token.                                                  *)
LEMMA PlainIs ==
  \A s \in Text : Plain[s] = PlainStep(Plain, s)
<1>1. PlainF!EveryArgument
  BY EveryText DEF PlainF!EveryArgument
<1>2. PlainF!LowerLevels
  <2> SUFFICES ASSUME NEW f, NEW g, NEW n \in Nat, NEW x \in Text, x \in TextOfLength(n),
                      \A m \in 0..n-1 : \A y \in Text : y \in TextOfLength(m) => f[y] = g[y]
               PROVE  PlainStep(f, x) = PlainStep(g, x)
    BY DEF PlainF!LowerLevels
  <2>1. x # <<>> => f[Tail(x)] = g[Tail(x)]
    BY AgreeOnRest
  <2>2. QED
    BY <2>1 DEF PlainStep
<1>3. \E f : f = [s \in Text |-> PlainStep(f, s)]
  BY <1>1, <1>2, PlainF!FunctionExists
<1>4. Plain = [s \in Text |-> PlainStep(Plain, s)]
  BY <1>3, Zenon DEF Plain, PlainStep, PlainToken
<1>5. QED
  BY <1>4

(* What is kept of a token.                                                *)
LEMMA PlainTokenType ==
  \A t \in Token : /\ PlainToken(t) \in Text
                   /\ t[1] = " " => PlainToken(t) = <<>>
                   /\ t[1] \notin {" ", "num", "float"} => PlainToken(t) = <<t>>
                   /\ t[1] \in {"num", "float"} => PlainToken(t) = <<Printed(t[2])>>
<1> TAKE t \in Token
<1>1. t = <<" ">> <=> t[1] = " "
  <2>1. " " \in Marks
    BY DEF Marks
  <2>2. QED
    BY <2>1, SomeTokens
<1>2. t[1] \in {"num", "float"} => <<Printed(t[2])>> \in Text
  <2>1. t[1] \in {"num", "float"} => t[2] \in Int
    BY Tokens
  <2>2. t[1] \in {"num", "float"} => Printed(t[2]) \in Token
    BY <2>1, PrintedType
  <2>3. QED
    BY <2>2, TokensOfText
<1>3. <<t>> \in Text /\ <<>> \in Text
  BY TokensOfText
<1>4. CASE t[1] = " "
  BY <1>1, <1>3, <1>4 DEF PlainToken
<1>5. CASE t[1] \in {"num", "float"}
  BY <1>1, <1>2, <1>5 DEF PlainToken
<1>6. CASE t[1] \notin {" ", "num", "float"}
  BY <1>1, <1>3, <1>6 DEF PlainToken
<1>7. QED
  BY <1>4, <1>5, <1>6

(* What is kept of a text is a text.                                       *)
LEMMA PlainType ==
  \A s \in Text : Plain[s] \in Text
<1> DEFINE A == {s \in Text : Plain[s] \in Text}
<1>1. ASSUME NEW s \in Text, s # <<>> => Tail(s) \in A
      PROVE  s \in A
  <2>1. CASE s = <<>>
    BY <2>1, PlainIs, TokensOfText DEF PlainStep
  <2>2. CASE s # <<>>
    <3>1. Plain[s] = PlainToken(s[1]) \o Plain[Tail(s)]
      BY <2>2, PlainIs DEF PlainStep
    <3>2. PlainToken(s[1]) \in Text /\ Plain[Tail(s)] \in Text
      BY <1>1, <2>2, TextFacts, PlainTokenType
    <3>3. QED
      BY <3>1, <3>2, TextJoin
  <2>3. QED
    BY <2>1, <2>2
<1> HIDE DEF A
<1>2. Text \subseteq A
  BY <1>1, TextInduction
<1>3. QED
  BY <1>2 DEF A

(* A token in front of a text, without white space and decimals.           *)
LEMMA PlainOfToken ==
  ASSUME NEW t \in Token, NEW s \in Text
  PROVE  Plain[<<t>> \o s] = PlainToken(t) \o Plain[s]
<1> DEFINE x == <<t>> \o s
<1>1. x \in Text /\ x # <<>> /\ First(x) = t /\ Tail(x) = s
  BY OneToken
<1> HIDE DEF x
<1>2. x[1] = t
  BY <1>1, TextFacts
<1>3. QED
  BY <1>1, <1>2, PlainIs DEF PlainStep, x

(* The same from the text.                                                 *)
LEMMA PlainOfFirst ==
  ASSUME NEW s \in Text, s # <<>>
  PROVE  Plain[s] = PlainToken(First(s)) \o Plain[Tail(s)]
BY PlainIs, TextFacts DEF PlainStep

(* Skipping loses nothing that is kept.                                    *)
LEMMA PlainOfSkip ==
  \A s \in Text : Plain[Skip[s]] = Plain[s]
<1> DEFINE A == {s \in Text : Plain[Skip[s]] = Plain[s]}
<1>1. ASSUME NEW s \in Text, s # <<>> => Tail(s) \in A
      PROVE  s \in A
  <2>0. " " \in Marks /\ " " # "end"
    BY DEF Marks
  <2>1. CASE First(s) # <<" ">>
    BY <2>1, SkipIs
  <2>2. CASE First(s) = <<" ">>
    <3>1. First(s)[1] = " " /\ s # <<>>
      BY <2>0, <2>2, Firsts
    <3>2. Skip[s] = Skip[Tail(s)] /\ Plain[Skip[Tail(s)]] = Plain[Tail(s)]
      BY <1>1, <2>2, <3>1, SkipIs
    <3>3. Plain[s] = <<>> \o Plain[Tail(s)]
      BY <3>1, PlainOfFirst, PlainTokenType, TextFacts
    <3>4. Tail(s) \in Text
      BY <3>1, TextFacts
    <3>5. QED
      BY <3>2, <3>3, <3>4, PlainType, TextJoin
  <2>3. QED
    BY <2>1, <2>2
<1> HIDE DEF A
<1>2. Text \subseteq A
  BY <1>1, TextInduction
<1>3. QED
  BY <1>2 DEF A
------------------------------------------------------------------------------
(* Joining three texts.                                                    *)
LEMMA TextAssoc ==
  ASSUME NEW s, NEW t, NEW u, s \in Text, t \in Text, u \in Text
  PROVE  (s \o t) \o u = s \o (t \o u)
BY TextJoin

(* Joining four texts.                                                     *)
LEMMA TextAssoc4 ==
  ASSUME NEW s, NEW t, NEW u, NEW w, s \in Text, t \in Text, u \in Text, w \in Text
  PROVE  ((s \o t) \o u) \o w = s \o (t \o (u \o w))
<1>1. s \o t \in Text /\ u \o w \in Text
  BY TextJoin
<1> DEFINE x == s \o t
           y == u \o w
<1>2. x \in Text /\ y \in Text
  BY <1>1
<1> HIDE DEF x
<1>3. (x \o u) \o w = x \o y
  BY <1>2, TextAssoc
<1> HIDE DEF y
<1>4. (s \o t) \o y = s \o (t \o y)
  BY <1>2, TextAssoc
<1>5. QED
  BY <1>3, <1>4 DEF x, y

(* Two tokens, joined from one and one.                                    *)
LEMMA TwoTokens ==
  ASSUME NEW s \in Token, NEW t \in Token
  PROVE  <<s, t>> \in Text /\ <<s, t>> = <<s>> \o <<t>>
<1> DEFINE x == <<s>>
           y == <<t>>
           z == <<s, t>>
<1>1. x \in Seq(Token) /\ y \in Seq(Token) /\ z \in Seq(Token)
      /\ Len(x) = 1 /\ Len(y) = 1 /\ Len(z) = 2
      /\ x[1] = s /\ y[1] = t /\ z[1] = s /\ z[2] = t
  OBVIOUS
<1> HIDE DEF x, y, z
<1>2. /\ x \o y \in Seq(Token) /\ Len(x \o y) = Len(x) + Len(y)
      /\ \A i \in 1..Len(x) + Len(y) :
           (x \o y)[i] = IF i <= Len(x) THEN x[i] ELSE y[i - Len(x)]
  BY <1>1, ConcatProperties
<1>3. Len(x \o y) = 2 /\ (x \o y)[1] = s /\ (x \o y)[2] = t
  BY <1>1, <1>2
<1>4. \A i \in 1..Len(z) : z[i] = (x \o y)[i]
  BY <1>1, <1>3
<1>5. z = x \o y
  BY <1>1, <1>2, <1>3, <1>4, SeqEqual
<1>6. QED
  BY <1>1, <1>5 DEF x, y, z, Text

(* One more part at the end.                                               *)
LEMMA ConcatAppend ==
  ASSUME NEW p \in Text
  PROVE  \A parts \in Seq(Text) : Concat[Append(parts, p)] = Concat[parts] \o p
<1> DEFINE A == {parts \in Seq(Text) : Concat[Append(parts, p)] = Concat[parts] \o p}
<1>1. ASSUME NEW parts \in Seq(Text), parts # <<>> => Tail(parts) \in A
      PROVE  parts \in A
  <2> DEFINE all == Append(parts, p)
  <2>1. all \in Seq(Text) /\ all # <<>>
    BY AppendProperties
  <2>2. /\ Head(all) = IF parts = <<>> THEN p ELSE Head(parts)
        /\ Tail(all) = IF parts = <<>> THEN <<>> ELSE Append(Tail(parts), p)
    BY HeadTailAppend
  <2> HIDE DEF all
  <2>3. Concat[all] = Head(all) \o Concat[Tail(all)]
    BY <2>1, ConcatIs
  <2>4. CASE parts = <<>>
    <3>1. Concat[<<>>] = <<>>
      BY <2>4, ConcatIs
    <3>2. Concat[all] = p \o <<>> /\ Concat[parts] \o p = <<>> \o p
      BY <2>2, <2>3, <2>4, <3>1
    <3>3. QED
      BY <3>2, TextJoin DEF all
  <2>5. CASE parts # <<>>
    <3>1. Head(parts) \in Text /\ Tail(parts) \in Seq(Text)
      BY <2>5, HeadTailProperties
    <3>2. Concat[Tail(parts)] \in Text
      BY <3>1, ConcatType
    <3>3. Concat[Append(Tail(parts), p)] = Concat[Tail(parts)] \o p
      BY <1>1, <2>5
    <3>4. Concat[all] = Head(parts) \o (Concat[Tail(parts)] \o p)
      BY <2>2, <2>3, <2>5, <3>3
    <3>5. Concat[parts] = Head(parts) \o Concat[Tail(parts)]
      BY <2>5, ConcatIs
    <3>6. (Head(parts) \o Concat[Tail(parts)]) \o p = Head(parts) \o (Concat[Tail(parts)] \o p)
      BY ZenonT(60), <3>1, <3>2, TextJoin
    <3>7. QED
      BY <3>4, <3>5, <3>6 DEF all
  <2>6. QED
    BY <2>4, <2>5
<1> HIDE DEF A
<1>2. Seq(Text) \subseteq A
  BY <1>1, PartsInduction
<1>3. QED
  BY <1>2 DEF A

(* The text of a container, taken apart.                                   *)
Container(v) == v[1] = "array" \/ v[1] = "object"
Opens(v) == <<IF v[1] = "array" THEN "[" ELSE "{">>
Closes(v) == <<IF v[1] = "array" THEN "]" ELSE "}">>
Parts(v, level, pretty) == [i \in DOMAIN v[2] |-> Entry(Serialized, v, i, level, pretty)]
Behind(v, level, pretty) ==
  (IF v[2] = <<>> THEN <<>> ELSE Layout(pretty, level)) \o <<Closes(v)>>

(* The brackets of containers.                                             *)
LEMMA BracketTokens ==
  \A v : Opens(v) \in Token /\ Closes(v) \in Token
         /\ Opens(v)[1] = (IF v[1] = "array" THEN "[" ELSE "{")
         /\ Closes(v)[1] = (IF v[1] = "array" THEN "]" ELSE "}")
<1> TAKE v
<1>1. \A x \in {"{", "}", "[", "]"} : <<x>> \in Token /\ <<x>>[1] = x
  BY SomeTokens
<1> DEFINE o == IF v[1] = "array" THEN "[" ELSE "{"
           c == IF v[1] = "array" THEN "]" ELSE "}"
<1>2. o \in {"{", "}", "[", "]"} /\ c \in {"{", "}", "[", "]"}
  OBVIOUS
<1>3. Opens(v) = <<o>> /\ Closes(v) = <<c>>
  BY DEF Opens, Closes
<1>4. <<o>> \in Token /\ <<o>>[1] = o /\ <<c>> \in Token /\ <<c>>[1] = c
  <2> HIDE DEF o, c
  <2>1. QED
    BY <1>1, <1>2
<1>5. QED
  BY <1>3, <1>4

(* The text of a container: its bracket, its entries and the other         *)
(* bracket.                                                                *)
LEMMA ContainerText ==
  ASSUME NEW v \in Tree, Container(v), NEW level \in Nat, NEW pretty \in BOOLEAN
  PROVE  /\ Len(v[2]) \in Nat /\ DOMAIN v[2] = 1..Len(v[2]) /\ (v[2] = <<>> <=> Len(v[2]) = 0)
         /\ Parts(v, level, pretty) \in Seq(Text) /\ Len(Parts(v, level, pretty)) = Len(v[2])
         /\ \A i \in 1..Len(v[2]) :
              Parts(v, level, pretty)[i] = Entry(Serialized, v, i, level, pretty)
         /\ Concat[Parts(v, level, pretty)] \in Text /\ Behind(v, level, pretty) \in Text
         /\ Serialized[v][level][pretty] =
              <<Opens(v)>> \o (Concat[Parts(v, level, pretty)] \o Behind(v, level, pretty))
<1>1. Serialized[v][level][pretty] = Serialize(Serialized, v, level, pretty)
  BY SerializedIs
<1>2. \A c \in Children(v) : Serialized[c][level + 1][pretty] \in Text
  BY ChildInTree, SerializedType DEF Writes
<1>3. \A i \in DOMAIN v[2] : Entry(Serialized, v, i, level, pretty) \in Text
  BY <1>2, EntryType DEF Container
<1>4. v[2] \in Seq(Nested[MaxLevels - 1]) \/ v[2] \in Seq(STRING \X Nested[MaxLevels - 1])
  BY InTree, ArrayValue, ObjectValue DEF Tree, Container
<1>5. Len(v[2]) \in Nat /\ DOMAIN v[2] = 1..Len(v[2])
  BY <1>4, LenProperties
<1>6. v[2] = <<>> <=> Len(v[2]) = 0
  BY <1>4, <1>5, EmptySeq
<1> DEFINE parts == Parts(v, level, pretty)
           space == IF v[2] = <<>> THEN <<>> ELSE Layout(pretty, level)
           one == <<Opens(v)>>
           last == <<Closes(v)>>
<1>7. parts \in Seq(Text) /\ Len(parts) = Len(v[2])
      /\ \A i \in 1..Len(v[2]) : parts[i] = Entry(Serialized, v, i, level, pretty)
  BY <1>3, <1>5 DEF Parts
<1>8. Concat[parts] \in Text
  BY <1>7, ConcatType
<1>9. one \in Text /\ last \in Text
  BY BracketTokens, TokensOfText
<1>10. space \in Text
  BY LayoutType, TokensOfText
<1>11. Serialize(Serialized, v, level, pretty) = one \o Concat[parts] \o space \o last
  BY DEF Serialize, Parts, Opens, Closes, Container
<1>12. Behind(v, level, pretty) = space \o last
  BY DEF Behind
<1> HIDE DEF parts, space, one, last
<1>13. space \o last \in Text
  BY <1>9, <1>10, TextJoin
<1>14. one \o Concat[parts] \o space \o last = one \o (Concat[parts] \o (space \o last))
  <2> DEFINE body == Concat[parts]
  <2>1. one \in Text /\ body \in Text /\ space \in Text /\ last \in Text
    BY <1>8, <1>9, <1>10
  <2> HIDE DEF body
  <2> DEFINE two == one \o body
             end == space \o last
  <2>4. two \in Text /\ end \in Text
    BY <1>13, <2>1, TextJoin
  <2> HIDE DEF two
  <2>5. (two \o space) \o last = two \o end
    BY <2>1, <2>4, TextAssoc
  <2> HIDE DEF end
  <2>6. (one \o body) \o end = one \o (body \o end)
    BY <2>1, <2>4, TextAssoc
  <2>2. ((one \o body) \o space) \o last = one \o (body \o (space \o last))
    BY <2>5, <2>6 DEF two, end
  <2>3. QED
    BY <2>2 DEF body
<1>15. Serialized[v][level][pretty] = one \o (Concat[parts] \o Behind(v, level, pretty))
  BY <1>1, <1>11, <1>12, <1>14
<1>16. QED
  BY <1>5, <1>6, <1>7, <1>8, <1>12, <1>13, <1>15 DEF parts, one

(* The token that a scalar is written as, and the scalar that it tells.    *)
Wording(v) == IF v[1] = "num" THEN Printed(v[2]) ELSE v
Told(v) == IF v[1] = "num" THEN <<"num", Printed(v[2])[2]>> ELSE v

(* The text of a value that is no container: one token.                    *)
LEMMA ScalarText ==
  ASSUME NEW v \in Tree, ~Container(v)
  PROVE  /\ v \in Scalar /\ Told(v) \in Scalar /\ Told(v)[1] = v[1]
         /\ Wording(v) \in Token
         /\ v[1] = "num" => v[2] \in Int /\ Wording(v)[1] \in {"num", "float"}
         /\ v[1] # "num" => Wording(v) = v
         /\ \A level \in Nat, pretty \in BOOLEAN : Serialized[v][level][pretty] = <<Wording(v)>>
<1>1. v \in Scalar
  <2>1. v \in Nested[MaxLevels] /\ MaxLevels \in Nat
    BY InTree DEF Tree
  <2>2. QED
    BY <2>1, ThreeKinds DEF Container
<1>2. v[1] = "num" => v[2] \in Int
  BY <1>1 DEF Scalar
<1>3. CASE v[1] = "num"
  <2>1. /\ Printed(v[2]) \in Token /\ Printed(v[2])[1] \in {"num", "float"}
        /\ Printed(v[2])[2] \in Int
    BY <1>2, <1>3, PrintedType
  <2>2. \A n \in Int : <<"num", n>> \in Scalar
    BY TokensOfText
  <2>3. Told(v) = <<"num", Printed(v[2])[2]>> /\ Wording(v) = Printed(v[2])
    BY <1>3 DEF Told, Wording
  <2>4. Told(v) \in Scalar /\ Told(v)[1] = v[1]
    BY <1>3, <2>1, <2>2, <2>3
  <2>5. \A level \in Nat, pretty \in BOOLEAN : Serialized[v][level][pretty] = <<Wording(v)>>
    BY <1>3, SerializedIs DEF Serialize, Wording
  <2>6. QED
    BY <1>1, <1>2, <1>3, <2>1, <2>3, <2>4, <2>5
<1>4. CASE v[1] # "num"
  <2>1. Told(v) = v /\ Wording(v) = v
    BY <1>4 DEF Told, Wording
  <2>2. v \in Token
    BY <1>1, TokensOfText
  <2>3. \A level \in Nat, pretty \in BOOLEAN : Serialized[v][level][pretty] = <<Wording(v)>>
    BY <1>4, SerializedIs DEF Serialize, Wording, Container
  <2>4. QED
    BY <1>1, <1>4, <2>1, <2>2, <2>3
<1>5. QED
  BY <1>3, <1>4

(* What stands at a place of a container.                                  *)
ChildAt(v, i) == IF v[1] = "array" THEN v[2][i] ELSE v[2][i][2]
Tidy(v) == v \in Tree /\ \E n \in Nat : v \in Proper[n]

(* The entries of a proper value: each is proper, and found by its name.   *)
LEMMA ChildOfTidy ==
  ASSUME NEW v, Tidy(v), Container(v)
  PROVE  /\ v[1] = "object" => NoNameTwice(v[2])
         /\ \A i \in DOMAIN v[2] :
              /\ ChildAt(v, i) \in Children(v) /\ Tidy(ChildAt(v, i))
              /\ v[1] = "object" =>
                   /\ v[2][i][1] \in STRING /\ Get(v, v[2][i][1]) = ChildAt(v, i)
                   /\ v[2][i] = <<v[2][i][1], ChildAt(v, i)>>
<1>1. PICK n \in Nat : v \in Proper[n]
  BY DEF Tidy
<1>2. v \in Tree
  BY DEF Tidy
<1>3. \A c \in Children(v) : Tidy(c)
  BY <1>1, <1>2, ChildLevel, ChildInTree DEF Tidy
<1>4. CASE v[1] = "array"
  BY <1>3, <1>4 DEF Children, ChildAt
<1>5. CASE v[1] = "object"
  <2>1. v[2] \in Seq(STRING \X Proper[n - 1]) /\ NoNameTwice(v[2]) /\ v = Object(v[2])
    BY <1>1, <1>5, ObjectValue
  <2> DEFINE m == v[2]
             P == Proper[n - 1]
  <2>2. m \in Seq(STRING \X P) /\ NoNameTwice(m) /\ v = Object(m)
    BY <2>1
  <2> HIDE DEF m, P
  <2>3. \A i \in DOMAIN m : Get(v, m[i][1]) = m[i][2]
    BY <2>2, GetEntry
  <2>4. \A i \in DOMAIN m : m[i] \in STRING \X P
    BY <2>2, LenProperties
  <2>5. \A i \in DOMAIN m : m[i][1] \in STRING /\ m[i] = <<m[i][1], m[i][2]>>
    BY <2>4, Pairs
  <2>6. \A i \in DOMAIN m : ChildAt(v, i) = m[i][2]
    BY <1>5 DEF ChildAt, m
  <2>7. \A i \in DOMAIN m : Get(v, m[i][1]) \in Children(v)
    BY SMTT(30), <1>5 DEF Children, m
  <2>8. QED
    BY <1>3, <1>5, <2>2, <2>3, <2>5, <2>6, <2>7 DEF m
<1>6. QED
  BY <1>4, <1>5 DEF Container

(* What is written before a value.                                         *)
Label(v, i, pretty) ==
  IF v[1] = "array" THEN <<>>
  ELSE << <<"str", v[2][i][1]>> >>
       \o (<< <<":">> >> \o (IF pretty THEN << <<" ">> >> ELSE <<>>))
Comma(i, n) == IF i < n THEN << <<",">> >> ELSE <<>>

(* The text of an entry: layout, label, value and comma.                   *)
LEMMA EntryText ==
  ASSUME NEW v, Tidy(v), Container(v), NEW i \in DOMAIN v[2],
         NEW level \in Nat, NEW pretty \in BOOLEAN
  PROVE  /\ Label(v, i, pretty) \in Text /\ Comma(i, Len(v[2])) \in Text
         /\ Serialized[ChildAt(v, i)][level + 1][pretty] \in Text
         /\ Entry(Serialized, v, i, level, pretty) =
              Layout(pretty, level + 1)
              \o (Label(v, i, pretty)
                  \o (Serialized[ChildAt(v, i)][level + 1][pretty] \o Comma(i, Len(v[2]))))
<1> DEFINE before == Layout(pretty, level + 1)
           comma == Comma(i, Len(v[2]))
           name == << <<"str", v[2][i][1]>> >>
           colon == << <<":">> >>
           both == << <<"str", v[2][i][1]>>, <<":">> >>
           space == IF pretty THEN << <<" ">> >> ELSE <<>>
           value == Serialized[ChildAt(v, i)][level + 1][pretty]
           label == Label(v, i, pretty)
<1>0. ":" \in Marks /\ " " \in Marks /\ "," \in Marks
  BY DEF Marks
<1>1. before \in Text /\ comma \in Text /\ space \in Text /\ colon \in Text
  <2>1. << <<":">> >> \in Text /\ << <<" ">> >> \in Text /\ << <<",">> >> \in Text /\ <<>> \in Text
    BY <1>0, SomeTokens, TokensOfText
  <2>2. comma \in Text
    <3> DEFINE none == <<>>
               one == << <<",">> >>
    <3>1. none \in Text /\ one \in Text
      BY <2>1
    <3>2. comma = one \/ comma = none
      BY DEF Comma
    <3> HIDE DEF none, one, comma
    <3>3. QED
      BY <3>1, <3>2
  <2>3. before \in Text
    BY LayoutType
  <2>4. space \in Text
    <3> DEFINE none == <<>>
               one == << <<" ">> >>
    <3>1. none \in Text /\ one \in Text
      BY <2>1
    <3>2. space = one \/ space = none
      OBVIOUS
    <3> HIDE DEF none, one, space
    <3>3. QED
      BY <3>1, <3>2
  <2>5. colon \in Text
    BY <2>1
  <2> HIDE DEF before, comma, space, colon
  <2>6. QED
    BY <2>2, <2>3, <2>4, <2>5
<1>2. value \in Text
  BY ChildOfTidy, SerializedType DEF Tidy, Writes
<1>3. v[1] # "array" => name \in Text /\ both \in Text /\ both = name \o colon
  <2> SUFFICES ASSUME v[1] # "array"
               PROVE  name \in Text /\ both \in Text /\ both = name \o colon
    OBVIOUS
  <2> DEFINE s == <<"str", v[2][i][1]>>
             c == <<":">>
  <2>1. s \in Token /\ c \in Token
    <3>1. v[2][i][1] \in STRING
      BY ChildOfTidy DEF Container
    <3>2. QED
      BY <1>0, <3>1, SomeTokens
  <2>2. name = <<s>> /\ colon = <<c>> /\ both = <<s, c>>
    OBVIOUS
  <2> HIDE DEF s, c, name, colon, both
  <2>3. <<s>> \in Text /\ <<s, c>> \in Text /\ <<s, c>> = <<s>> \o <<c>>
    BY <2>1, TwoTokens, TokensOfText
  <2>4. QED
    BY <2>2, <2>3
<1>4. label = IF v[1] = "array" THEN <<>> ELSE name \o (colon \o space)
  BY DEF Label
<1>5. label \in Text
  <2> HIDE DEF name, colon, both, space, label, comma, before, value
  <2>1. colon \o space \in Text
    BY <1>1, TextJoin
  <2>2. v[1] # "array" => label \in Text
    BY <1>3, <1>4, <2>1, TextJoin
  <2>3. v[1] = "array" => label \in Text
    BY <1>4, TokensOfText
  <2>4. QED
    BY <2>2, <2>3
<1>6. Entry(Serialized, v, i, level, pretty) =
        before \o (IF v[1] = "array" THEN value ELSE both \o space \o value) \o comma
  <2>1. v[1] = "array" => ChildAt(v, i) = v[2][i]
    BY DEF ChildAt
  <2>2. v[1] # "array" => ChildAt(v, i) = Get(v, v[2][i][1])
    BY ChildOfTidy DEF Container
  <2>3. QED
    BY <2>1, <2>2, Zenon DEF Entry, Comma
<1> HIDE DEF before, comma, name, colon, both, space, value, label
<1>7. (IF v[1] = "array" THEN value ELSE both \o space \o value) = label \o value
  <2>1. CASE v[1] = "array"
    BY <1>2, <1>4, <2>1, TextJoin
  <2>2. CASE v[1] # "array"
    <3>1. both \o space = name \o (colon \o space)
      <4> HIDE DEF name, colon, both, space
      <4>1. name \in Text /\ colon \in Text /\ space \in Text
        BY <1>1, <1>3, <2>2
      <4>2. (name \o colon) \o space = name \o (colon \o space)
        BY SMTT(30), <4>1, TextAssoc
      <4>3. QED
        BY <1>3, <2>2, <4>2
    <3>2. QED
      BY <1>4, <2>2, <3>1
  <2>3. QED
    BY <2>1, <2>2
<1>8. (before \o (label \o value)) \o comma = before \o (label \o (value \o comma))
  <2>1. label \o value \in Text
    BY <1>2, <1>5, TextJoin
  <2>2. (before \o (label \o value)) \o comma = before \o ((label \o value) \o comma)
    BY SMTT(30), <1>1, <2>1, TextAssoc
  <2>3. (label \o value) \o comma = label \o (value \o comma)
    BY SMTT(30), <1>1, <1>2, <1>5, TextJoin
  <2>4. QED
    BY <2>2, <2>3
<1>9. QED
  BY <1>1, <1>2, <1>5, <1>6, <1>7, <1>8 DEF before, comma, value, label

(* Without layout a text is the same at every level.                       *)
Flat(v) == Serialized[v][0][FALSE]

(* Without layout the text does not depend on the level.                   *)
LEMMA FlatLevel ==
  \A v \in Tree : \A level \in Nat : Serialized[v][level][FALSE] = Flat(v)
<1> DEFINE A == {v \in Tree : \A level \in Nat : Serialized[v][level][FALSE] = Flat(v)}
<1>1. ASSUME NEW v \in Tree, \A c \in Children(v) : c \in A
      PROVE  v \in A
  <2> SUFFICES ASSUME NEW level \in Nat
               PROVE  Serialized[v][level][FALSE] = Flat(v)
    OBVIOUS
  <2>1. FALSE \in BOOLEAN /\ 0 \in Nat /\ 0 + 1 \in Nat /\ level + 1 \in Nat
    OBVIOUS
  <2>2. \A c \in Children(v), l \in Nat : Serialized[c][l][FALSE] = Flat(c)
    BY <1>1
  <2>3. CASE Container(v)
    <3>1. /\ Serialized[v][level][FALSE] =
              <<Opens(v)>> \o (Concat[Parts(v, level, FALSE)] \o Behind(v, level, FALSE))
          /\ Serialized[v][0][FALSE] =
              <<Opens(v)>> \o (Concat[Parts(v, 0, FALSE)] \o Behind(v, 0, FALSE))
      BY <2>1, <2>3, ContainerText
    <3>2. \A l : Layout(FALSE, l) = <<>>
      BY DEF Layout
    <3>3. Behind(v, level, FALSE) = Behind(v, 0, FALSE)
      BY <3>2 DEF Behind
    <3>4. ASSUME NEW i \in DOMAIN v[2]
          PROVE  Entry(Serialized, v, i, level, FALSE) = Entry(Serialized, v, i, 0, FALSE)
      <4>1. CASE v[1] = "array"
        <5>1. v[2][i] \in Children(v)
          BY <4>1 DEF Children
        <5>2. Serialized[v[2][i]][level + 1][FALSE] = Serialized[v[2][i]][0 + 1][FALSE]
          BY <2>1, <2>2, <5>1
        <5>3. QED
          BY <3>2, <4>1, <5>2 DEF Entry
      <4>2. CASE v[1] = "object"
        <5>1. Get(v, v[2][i][1]) \in Children(v)
          BY <4>2 DEF Children
        <5>2. Serialized[Get(v, v[2][i][1])][level + 1][FALSE] = Serialized[Get(v, v[2][i][1])][0 + 1][FALSE]
          BY <2>1, <2>2, <5>1
        <5>3. QED
          BY <3>2, <4>2, <5>2 DEF Entry
      <4>3. QED
        BY <2>3, <4>1, <4>2 DEF Container
    <3>5. Parts(v, level, FALSE) = Parts(v, 0, FALSE)
      BY <3>4 DEF Parts
    <3>6. QED
      BY <3>1, <3>3, <3>5 DEF Flat
  <2>4. CASE ~Container(v)
    <3>1. \A l \in Nat : Serialized[v][l][FALSE] = <<Wording(v)>>
      BY <2>4, ScalarText
    <3>2. Serialized[v][level][FALSE] = Serialized[v][0][FALSE]
      BY <3>1
    <3>3. QED
      BY <3>2 DEF Flat
  <2>5. QED
    BY <2>3, <2>4
<1> HIDE DEF A
<1>2. Tree \subseteq A
  BY <1>1, TreeInduction
<1>3. QED
  BY <1>2 DEF A
------------------------------------------------------------------------------
(* An entry as it is written, with its name in an object.                  *)
Piece(type, e) ==
  IF type = "array" THEN Flat(e)
  ELSE << <<"str", e[1]>> >> \o (<< <<":">> >> \o Flat(e[2]))

(* Entries with a comma behind each, and with commas between them.         *)
Begun(type, got) ==
  Concat[[i \in DOMAIN got |-> Piece(type, got[i]) \o << <<",">> >>]]
Done(type, got) ==
  Concat[[i \in DOMAIN got |-> Piece(type, got[i]) \o Comma(i, Len(got))]]

(* Commas are texts.                                                       *)
LEMMA CommaText ==
  /\ << <<",">> >> \in Text
  /\ \A i, n \in Nat : Comma(i, n) \in Text
<1>1. << <<",">> >> \in Text /\ <<>> \in Text
  <2>1. "," \in Marks
    BY DEF Marks
  <2>2. QED
    BY <2>1, SomeTokens, TokensOfText
<1> DEFINE one == << <<",">> >>
           none == <<>>
<1>2. one \in Text /\ none \in Text
  BY <1>1
<1>3. \A i, n : Comma(i, n) = one \/ Comma(i, n) = none
  BY DEF Comma
<1> HIDE DEF one, none
<1>4. \A i, n : Comma(i, n) \in Text
  BY <1>2, <1>3
<1>5. QED
  BY <1>1, <1>4

(* One more entry at the end of those that are joined.                     *)
LEMMA Joined ==
  ASSUME NEW type, NEW U, \A x \in U : Piece(type, x) \in Text,
         NEW got \in Seq(U), NEW e \in U
  PROVE  /\ Begun(type, got) \in Text
         /\ Begun(type, Append(got, e)) = Begun(type, got) \o (Piece(type, e) \o << <<",">> >>)
         /\ Done(type, Append(got, e)) = Begun(type, got) \o Piece(type, e)
<1> DEFINE n == Len(got)
           all == Append(got, e)
           comma == << <<",">> >>
           last == Piece(type, e)
           parts == [i \in 1..n |-> Piece(type, got[i]) \o comma]
           more == [i \in 1..n+1 |-> Piece(type, all[i]) \o comma]
           done == [i \in 1..n+1 |-> Piece(type, all[i]) \o Comma(i, n + 1)]
<1>1. n \in Nat /\ DOMAIN got = 1..n /\ \A i \in 1..n : got[i] \in U
  BY LenProperties
<1>2. /\ all \in Seq(U) /\ Len(all) = n + 1 /\ all[n + 1] = e
      /\ \A i \in 1..n : all[i] = got[i]
  BY AppendProperties
<1>3. DOMAIN all = 1..n+1 /\ \A i \in 1..n+1 : all[i] \in U
  BY <1>2, LenProperties
<1>4. comma \in Text /\ last \in Text
  BY CommaText
<1>5. /\ Begun(type, got) = Concat[parts] /\ Begun(type, all) = Concat[more]
      /\ Done(type, all) = Concat[done]
  BY <1>1, <1>2, <1>3 DEF Begun, Done
<1>6. /\ \A i \in 1..n : Comma(i, n + 1) = comma
      /\ Comma(n + 1, n + 1) = <<>>
  <2>1. (\A i \in 1..n : i < n + 1) /\ ~(n + 1 < n + 1)
    BY <1>1
  <2>2. QED
    BY <2>1, Zenon DEF Comma
<1> HIDE DEF n, all, comma, last
<1>7. \A x \in U : Piece(type, x) \o comma \in Text
  BY <1>4, TextJoin
<1>8. parts \in Seq(Text) /\ Len(parts) = n
  <2>1. \A i \in 1..n : Piece(type, got[i]) \o comma \in Text
    BY <1>1, <1>7
  <2>2. QED
    BY <1>1, <2>1
<1>9. more \in Seq(Text) /\ Len(more) = n + 1
  <2>1. \A i \in 1..n+1 : Piece(type, all[i]) \o comma \in Text
    BY <1>3, <1>7
  <2>2. \A k \in Nat : \A f : (\A i \in 1..k : f[i] \in Text) =>
          [i \in 1..k |-> f[i]] \in Seq(Text) /\ Len([i \in 1..k |-> f[i]]) = k
    OBVIOUS
  <2>3. n + 1 \in Nat /\ (\A i \in 1..n+1 : more[i] \in Text) /\ more = [i \in 1..n+1 |-> more[i]]
    BY <1>1, <2>1
  <2> HIDE DEF more
  <2>4. QED
    BY <2>2, <2>3
<1>10. done \in Seq(Text) /\ Len(done) = n + 1
  <2>1. n + 1 \in Nat /\ \A i \in 1..n+1 : i \in Nat
    BY <1>1
  <2>2. \A i \in 1..n+1 : Piece(type, all[i]) \o Comma(i, n + 1) \in Text
    BY <1>3, <2>1, CommaText, TextJoin
  <2>3. \A k \in Nat : \A f : (\A i \in 1..k : f[i] \in Text) =>
          [i \in 1..k |-> f[i]] \in Seq(Text) /\ Len([i \in 1..k |-> f[i]]) = k
    OBVIOUS
  <2>4. (\A i \in 1..n+1 : done[i] \in Text) /\ done = [i \in 1..n+1 |-> done[i]]
    BY <2>2
  <2> HIDE DEF done
  <2>5. QED
    BY <2>1, <2>3, <2>4
<1>11. /\ \A i \in 1..n : parts[i] = more[i] /\ parts[i] = done[i]
       /\ more[n + 1] = last \o comma /\ done[n + 1] = last
  <2>1. \A i \in 1..n : i \in 1..n+1 /\ all[i] = got[i] /\ Comma(i, n + 1) = comma
    BY <1>1, <1>2, <1>6
  <2>2. \A i \in 1..n : parts[i] = more[i] /\ parts[i] = done[i]
    BY <2>1
  <2>3. n + 1 \in 1..n+1
    BY <1>1
  <2>4. more[n + 1] = last \o comma
    BY <1>2, <2>3 DEF last
  <2>5. done[n + 1] = last \o <<>>
    BY <1>2, <1>6, <2>3 DEF last
  <2>6. last \o <<>> = last
    BY <1>4, TextJoin
  <2>7. QED
    BY <2>2, <2>4, <2>5, <2>6
<1> HIDE DEF parts, more, done
<1>12. ASSUME NEW p \in Text, NEW x \in Seq(Text), Len(x) = n + 1,
              \A i \in 1..n : parts[i] = x[i], x[n + 1] = p
       PROVE  x = Append(parts, p)
  <2> DEFINE y == Append(parts, p)
  <2>1. /\ y \in Seq(Text) /\ Len(y) = n + 1 /\ y[n + 1] = p
        /\ \A i \in 1..n : y[i] = parts[i]
    BY <1>8, AppendProperties
  <2> HIDE DEF y
  <2>2. \A i \in 1..n+1 : i \in 1..n \/ i = n + 1
    BY <1>1
  <2>3. \A i \in 1..Len(x) : x[i] = y[i]
    BY <1>12, <2>1, <2>2
  <2>4. QED
    BY <1>12, <2>1, <2>3, SeqEqual DEF y
<1>13. more = Append(parts, last \o comma) /\ done = Append(parts, last)
  <2>1. last \o comma \in Text
    BY <1>4, TextJoin
  <2>2. QED
    BY <1>4, <1>9, <1>10, <1>11, <1>12, <2>1
<1>14. Concat[more] = Concat[parts] \o (last \o comma) /\ Concat[done] = Concat[parts] \o last
  <2>1. last \o comma \in Text
    BY <1>4, TextJoin
  <2>2. QED
    BY <1>4, <1>8, <1>13, <2>1, ConcatAppend
<1>15. Concat[parts] \in Text
  BY <1>8, ConcatType
<1>16. QED
  BY <1>5, <1>14, <1>15 DEF all, comma, last

(* No entries, joined.                                                     *)
LEMMA NothingJoined ==
  \A type : Begun(type, <<>>) = <<>> /\ Done(type, <<>>) = <<>>
<1> TAKE type
<1>1. <<>> \in Seq(Text)
  OBVIOUS
<1>2. Concat[<<>>] = <<>>
  BY <1>1, ConcatIs
<1>3. /\ [i \in DOMAIN <<>> |-> Piece(type, <<>>[i]) \o << <<",">> >>] = <<>>
      /\ [i \in DOMAIN <<>> |-> Piece(type, <<>>[i]) \o Comma(i, Len(<<>>))] = <<>>
  OBVIOUS
<1>4. QED
  BY <1>2, <1>3 DEF Begun, Done

(* The pieces of a tidy container are its text.                            *)
LEMMA PieceType ==
  /\ \A e : Tidy(e) => Piece("array", e) \in Text
  /\ \A e : e[1] \in STRING /\ Tidy(e[2]) => Piece("object", e) \in Text
<1>1. \A e : Tidy(e) => Flat(e) \in Text
  BY SerializedType DEF Tidy, Writes, Flat
<1>2. ASSUME NEW e, e[1] \in STRING, Tidy(e[2])
      PROVE  Piece("object", e) \in Text
  <2> DEFINE name == << <<"str", e[1]>> >>
             colon == << <<":">> >>
             value == Flat(e[2])
  <2>1. colon \in Text
    <3>1. ":" \in Marks
      BY DEF Marks
    <3>2. QED
      BY <3>1, SomeTokens
  <2>2. name \in Text
    BY <1>2, SomeTokens, TokensOfText
  <2>3. value \in Text
    BY <1>1, <1>2
  <2>4. Piece("object", e) = name \o (colon \o value)
    BY DEF Piece
  <2> HIDE DEF name, colon, value
  <2>5. colon \o value \in Text
    BY <2>1, <2>3, TextJoin
  <2>6. QED
    BY <2>2, <2>4, <2>5, TextJoin
<1>3. QED
  BY <1>1, <1>2 DEF Piece

(* The text of a container without layout, with commas between its         *)
(* entries.                                                                *)
LEMMA FlatContainer ==
  ASSUME NEW v, Tidy(v), Container(v)
  PROVE  /\ Done(v[1], v[2]) \in Text
         /\ Flat(v) = <<Opens(v)>> \o (Done(v[1], v[2]) \o <<Closes(v)>>)
<1>0. FALSE \in BOOLEAN /\ 0 \in Nat /\ 0 + 1 \in Nat /\ v \in Tree
  BY DEF Tidy
<1>1. /\ DOMAIN v[2] = 1..Len(v[2]) /\ Len(v[2]) \in Nat
      /\ Concat[Parts(v, 0, FALSE)] \in Text
      /\ Flat(v) = <<Opens(v)>> \o (Concat[Parts(v, 0, FALSE)] \o Behind(v, 0, FALSE))
  BY <1>0, ContainerText DEF Flat
<1>2. \A l : Layout(FALSE, l) = <<>>
  BY DEF Layout
<1>3. Behind(v, 0, FALSE) = <<Closes(v)>>
  <2> DEFINE last == <<Closes(v)>>
  <2>1. last \in Text
    BY BracketTokens, TokensOfText
  <2>2. Behind(v, 0, FALSE) = <<>> \o last
    BY <1>2 DEF Behind
  <2> HIDE DEF last
  <2>3. <<>> \o last = last
    BY <2>1, TextJoin
  <2>4. QED
    BY <2>2, <2>3 DEF last
<1>4. ASSUME NEW i \in DOMAIN v[2]
      PROVE  Entry(Serialized, v, i, 0, FALSE) = Piece(v[1], v[2][i]) \o Comma(i, Len(v[2]))
  <2> DEFINE comma == Comma(i, Len(v[2]))
             label == Label(v, i, FALSE)
             value == Serialized[ChildAt(v, i)][0 + 1][FALSE]
             piece == Piece(v[1], v[2][i])
  <2>1. /\ label \in Text /\ comma \in Text /\ value \in Text
        /\ Entry(Serialized, v, i, 0, FALSE) =
             Layout(FALSE, 0 + 1) \o (label \o (value \o comma))
    BY <1>0, EntryText
  <2>2. Tidy(ChildAt(v, i))
    BY ChildOfTidy
  <2>3. value = Flat(ChildAt(v, i))
    BY <1>0, <2>2, FlatLevel DEF Tidy
  <2>4. piece = label \o value
    <3>1. CASE v[1] = "array"
      <4>1. piece = value
        BY <2>3, <3>1 DEF Piece, ChildAt
      <4>2. label = <<>>
        BY <3>1 DEF Label
      <4> HIDE DEF piece, label, value
      <4>3. QED
        BY <2>1, <4>1, <4>2, TextJoin
    <3>2. CASE v[1] # "array"
      <4> DEFINE name == << <<"str", v[2][i][1]>> >>
                 colon == << <<":">> >>
      <4>1. v[2][i][1] \in STRING
        BY <3>2, ChildOfTidy DEF Container
      <4>2. name \in Text
        BY <4>1, SomeTokens, TokensOfText
      <4>3. colon \in Text
        <5>1. ":" \in Marks
          BY DEF Marks
        <5>2. QED
          BY <5>1, SomeTokens
      <4>4. piece = name \o (colon \o value)
        BY <2>3, <3>2 DEF Piece, ChildAt
      <4>5. label = name \o (colon \o <<>>)
        BY <3>2 DEF Label
      <4> HIDE DEF piece, label, value, name, colon
      <4>6. label = name \o colon
        BY <4>3, <4>5, TextJoin
      <4>7. (name \o colon) \o value = name \o (colon \o value)
        BY <2>1, <4>2, <4>3, TextAssoc
      <4>8. QED
        BY <4>4, <4>6, <4>7
    <3>3. QED
      BY <3>1, <3>2
  <2> HIDE DEF label, value, comma, piece
  <2>5. Entry(Serialized, v, i, 0, FALSE) = label \o (value \o comma)
    <3>1. label \o (value \o comma) \in Text
      BY <2>1, TextJoin
    <3> DEFINE rest == label \o (value \o comma)
    <3>2. Entry(Serialized, v, i, 0, FALSE) = <<>> \o rest
      BY <1>2, <2>1
    <3> HIDE DEF rest
    <3>3. <<>> \o rest = rest
      BY <3>1, TextJoin DEF rest
    <3>4. QED
      BY <3>2, <3>3 DEF rest
  <2>6. (label \o value) \o comma = label \o (value \o comma)
    BY <2>1, TextAssoc
  <2>7. QED
    BY <2>4, <2>5, <2>6 DEF comma, piece
<1>5. Parts(v, 0, FALSE) = [i \in DOMAIN v[2] |-> Piece(v[1], v[2][i]) \o Comma(i, Len(v[2]))]
  BY <1>4 DEF Parts
<1>6. QED
  BY <1>1, <1>3, <1>5 DEF Done
------------------------------------------------------------------------------
(* The brackets that end a container.                                      *)
Ends == {"]", "}"}

(* What a parser makes of a text is what the text says.                    *)
Honest(parse) ==
  \A s \in Text : parse[s][1] # Error =>
    /\ First(Skip[s]) # <<"-">> => Plain[s] = Flat(parse[s][1]) \o Plain[parse[s][2]]
    /\ First(Skip[s]) = <<"-">> => parse[s][2] = Skip[s]

(* What has been read of a container that begins with s.                   *)
HasRead(type, s, c, bracket) ==
  /\ c.state = "open" => Plain[s] = Begun(type, c.got) \o Plain[c.ahead]
  /\ c.state = "closed" =>
       Plain[s] = Done(type, c.got) \o (<< <<bracket>> >> \o Plain[c.ahead])

ItemsRead(s, c) == HasRead("array", s, c, "]")
MembersRead(s, c) == HasRead("object", s, c, "}")

(* A mark is kept.                                                         *)
LEMMA PlainMark ==
  ASSUME NEW s \in Text, NEW x \in Marks, x # " ", First(s) = <<x>>
  PROVE  /\ s # <<>> /\ Tail(s) \in Text
         /\ Plain[s] = << <<x>> >> \o Plain[Tail(s)]
<1>0. x # "end" /\ x # "num" /\ x # "float"
  BY DEF Marks
<1>1. First(s)[1] = x
  BY Firsts
<1>2. s # <<>> /\ First(s) \in Token /\ Tail(s) \in Text
  BY <1>0, <1>1, Firsts, TextFacts
<1>3. PlainToken(First(s)) = <<First(s)>>
  BY <1>0, <1>1, <1>2, PlainTokenType
<1>4. QED
  BY <1>2, <1>3, PlainOfFirst

(* Behind an entry: what is passed is a comma or a bracket, and white      *)
(* space.                                                                  *)
LEMMA PlainProceed ==
  ASSUME NEW s \in Text, NEW got, NEW bracket \in Ends
  PROVE  /\ Proceed(s, got, bracket).state = "open" =>
              /\ Proceed(s, got, bracket).got = got /\ Proceed(s, got, bracket).ahead \in Text
              /\ Plain[s] = << <<",">> >> \o Plain[Proceed(s, got, bracket).ahead]
         /\ Proceed(s, got, bracket).state = "closed" =>
              /\ Proceed(s, got, bracket).got = got /\ Proceed(s, got, bracket).ahead \in Text
              /\ Plain[s] = << <<bracket>> >> \o Plain[Proceed(s, got, bracket).ahead]
         /\ First(s) = <<"-">> => Proceed(s, got, bracket).state = "failed"
<1> DEFINE rest == Skip[s]
           c == Proceed(s, got, bracket)
<1>1. rest \in Text /\ Plain[rest] = Plain[s]
  BY SkipType, PlainOfSkip
<1>2. First(s) = <<"-">> => First(rest) = <<"-">>
  <2>1. First(s) = <<"-">> => First(s) # <<" ">>
    <3>1. "-" \in Marks /\ " " \in Marks /\ "-" # " "
      BY DEF Marks
    <3>2. QED
      BY <3>1, Firsts
  <2>2. QED
    BY <2>1, SkipIs
<1>3. /\ "," \in Marks /\ bracket \in Marks /\ "-" \in Marks /\ bracket # " " /\ bracket # ","
      /\ bracket # "-" /\ "," # " " /\ "," # "-"
  BY DEF Marks, Ends
<1>4. c = IF First(rest) = <<",">> THEN Open(Skip[Tail(rest)], got)
          ELSE IF First(rest) = <<bracket>>
          THEN [ahead |-> Tail(rest), got |-> got, state |-> "closed"]
          ELSE Failed
  BY DEF Proceed
<1> HIDE DEF rest, c
<1>5. CASE First(rest) = <<",">>
  <2>1. c.state = "open" /\ c.got = got /\ c.ahead = Skip[Tail(rest)]
    BY <1>4, <1>5 DEF Open
  <2>2. Tail(rest) \in Text /\ Plain[rest] = << <<",">> >> \o Plain[Tail(rest)]
    BY <1>1, <1>3, <1>5, PlainMark
  <2>3. c.ahead \in Text /\ Plain[c.ahead] = Plain[Tail(rest)]
    BY <2>1, <2>2, SkipType, PlainOfSkip
  <2>4. First(rest) # <<"-">>
    BY <1>1, <1>3, <1>5, Firsts
  <2>5. QED
    BY <1>1, <1>2, <2>1, <2>2, <2>3, <2>4 DEF c
<1>6. CASE First(rest) # <<",">> /\ First(rest) = <<bracket>>
  <2>1. c.state = "closed" /\ c.got = got /\ c.ahead = Tail(rest)
    BY <1>4, <1>6
  <2>2. Tail(rest) \in Text /\ Plain[rest] = << <<bracket>> >> \o Plain[Tail(rest)]
    BY <1>1, <1>3, <1>6, PlainMark
  <2>3. First(rest) # <<"-">>
    <3>1. First(rest)[1] = bracket
      BY <1>1, <1>3, <1>6, Firsts
    <3>2. First(rest) = <<"-">> => First(rest)[1] = "-"
      BY <1>1, <1>3, Firsts
    <3>3. QED
      BY <1>3, <3>1, <3>2
  <2>4. QED
    BY <1>1, <1>2, <2>1, <2>2, <2>3 DEF c
<1>7. CASE First(rest) # <<",">> /\ First(rest) # <<bracket>>
  <2>1. c.state = "failed"
    BY <1>4, <1>7 DEF Failed
  <2>2. QED
    BY <2>1 DEF c
<1>8. QED
  BY <1>5, <1>6, <1>7

(* \o under another name, for the steps that need no more than JoinIs.     *)
Join(s, t) == s \o t

(* Joining is associative, and adds the lengths.                           *)
LEMMA JoinIs ==
  /\ \A s, t \in Text : Join(s, t) \in Text /\ Len(Join(s, t)) = Len(s) + Len(t)
  /\ \A s, t, u \in Text : Join(Join(s, t), u) = Join(s, Join(t, u))
  /\ \A s \in Text : Join(<<>>, s) = s
BY TextJoin DEF Join

(* Four texts joined, in other groups.                                     *)
LEMMA Regroup ==
  ASSUME NEW s, NEW t, NEW u, NEW w, s \in Text, t \in Text, u \in Text, w \in Text
  PROVE  /\ Join(s, Join(t, Join(u, w))) = Join(Join(s, Join(t, u)), w)
         /\ Join(s, Join(t, Join(u, w))) = Join(Join(s, t), Join(u, w))
BY JoinIs

(* One more entry.                                                         *)
LEMMA ReadOn ==
  ASSUME NEW type, NEW U, \A x \in U : Piece(type, x) \in Text,
         NEW s \in Text, NEW ahead \in Text, NEW got \in Seq(U), NEW e \in U,
         NEW rest \in Text, NEW bracket \in Ends,
         Plain[s] = Begun(type, got) \o Plain[ahead],
         Plain[ahead] = Piece(type, e) \o Plain[rest]
  PROVE  HasRead(type, s, Proceed(rest, Append(got, e), bracket), bracket)
<1> DEFINE more == Append(got, e)
           c == Proceed(rest, more, bracket)
           begun == Begun(type, got)
           piece == Piece(type, e)
           comma == << <<",">> >>
           last == << <<bracket>> >>
           p == Plain[c.ahead]
<1>1. begun \in Text /\ piece \in Text
  BY Joined
<1>2. comma \in Text /\ last \in Text
  <2>1. bracket \in Marks
    BY DEF Marks, Ends
  <2>2. QED
    BY <2>1, CommaText, SomeTokens
<1>3. /\ Begun(type, more) = begun \o (piece \o comma)
      /\ Done(type, more) = begun \o piece
  BY Joined
<1> HIDE DEF more
<1>4. /\ c.state = "open" => /\ c.got = more /\ c.ahead \in Text
                             /\ Plain[rest] = comma \o p
      /\ c.state = "closed" => /\ c.got = more /\ c.ahead \in Text
                               /\ Plain[rest] = last \o p
  BY PlainProceed
<1>5. Plain[s] = begun \o (piece \o Plain[rest])
  OBVIOUS
<1>50. c.ahead \in Text => p \in Text
  BY PlainType
<1> HIDE DEF c, begun, piece, comma, last, p
<1>51. /\ c.state = "open" => Plain[rest] = Join(comma, p)
       /\ c.state = "closed" => Plain[rest] = Join(last, p)
       /\ Begun(type, more) = Join(begun, Join(piece, comma))
       /\ Done(type, more) = Join(begun, piece)
       /\ Plain[s] = Join(begun, Join(piece, Plain[rest]))
  BY <1>3, <1>4, <1>5 DEF Join
<1>6. CASE c.state = "open"
  <2>1. p \in Text /\ Plain[s] = Join(begun, Join(piece, Join(comma, p)))
    BY <1>4, <1>50, <1>51, <1>6
  <2>2. Plain[s] = Join(Join(begun, Join(piece, comma)), p)
    BY <1>1, <1>2, <2>1, Regroup
  <2>3. Plain[s] = Begun(type, c.got) \o Plain[c.ahead]
    BY <1>4, <1>51, <1>6, <2>2 DEF p, Join
  <2>4. QED
    BY <1>6, <2>3 DEF HasRead, c, more
<1>7. CASE c.state = "closed"
  <2>1. p \in Text /\ Plain[s] = Join(begun, Join(piece, Join(last, p)))
    BY <1>4, <1>50, <1>51, <1>7
  <2>2. Plain[s] = Join(Join(begun, piece), Join(last, p))
    BY <1>1, <1>2, <2>1, Regroup
  <2>3. Plain[s] = Done(type, c.got) \o (last \o Plain[c.ahead])
    BY <1>4, <1>51, <1>7, <2>2 DEF p, Join
  <2>4. QED
    BY <1>7, <2>3 DEF HasRead, c, last, more
<1>8. CASE c.state \notin {"open", "closed"}
  BY <1>8 DEF HasRead, c, more
<1>9. QED
  BY <1>6, <1>7, <1>8

(* A value in Proper[d] may be written.                                    *)
LEMMA TidyLevel ==
  ASSUME NEW d \in Nat, d <= MaxLevels
  PROVE  /\ \A v \in Proper[d] : Tidy(v)
         /\ \A x \in Proper[d] : Piece("array", x) \in Text
         /\ \A x \in STRING \X Proper[d] : Piece("object", x) \in Text
<1>1. \A v \in Proper[d] : Tidy(v)
  BY InTree DEF Tidy
<1>2. QED
  BY <1>1, PieceType

(* One pass over an array keeps track of what it has passed.               *)
LEMMA ReadItem ==
  ASSUME NEW d \in Nat, d <= MaxLevels, NEW parse \in Parser(Proper[d]), Honest(parse),
         NEW s \in Text, NEW c \in States(Seq(Proper[d])), ItemsRead(s, c)
  PROVE  ItemsRead(s, NextItem(parse, c))
<1> DEFINE item == parse[c.ahead]
           next == Proceed(item[2], Append(c.got, item[1]), "]")
           U == Proper[d]
<1>1. c.ahead \in Text /\ c.got \in Seq(U)
  BY DEF States
<1>2. item[1] \in U \cup {Error} /\ item[2] \in Text
  BY <1>1 DEF Parser
<1>3. item[1] # Error =>
        /\ First(Skip[c.ahead]) # <<"-">> => Plain[c.ahead] = Flat(item[1]) \o Plain[item[2]]
        /\ First(Skip[c.ahead]) = <<"-">> => item[2] = Skip[c.ahead]
  BY <1>1 DEF Honest
<1>4. \A x \in U : Piece("array", x) \in Text
  BY TidyLevel
<1>5. NextItem(parse, c) = IF c.state # "open" THEN c
                           ELSE IF item[1] = Error THEN Failed ELSE next
  BY DEF NextItem
<1> HIDE DEF item, next, U
<1>6. CASE c.state # "open"
  BY <1>5, <1>6
<1>7. CASE c.state = "open" /\ item[1] = Error
  <2>1. NextItem(parse, c).state = "failed"
    BY <1>5, <1>7 DEF Failed
  <2>2. QED
    BY <2>1 DEF HasRead, ItemsRead
<1>8. CASE c.state = "open" /\ item[1] # Error
  <2>1. NextItem(parse, c) = next
    BY <1>5, <1>8
  <2>2. CASE First(Skip[c.ahead]) = <<"-">>
    <3>1. First(item[2]) = <<"-">>
      BY <1>3, <1>8, <2>2
    <3>2. next.state = "failed"
      BY <1>2, <3>1, PlainProceed DEF next, Ends
    <3>3. QED
      BY <2>1, <3>2 DEF HasRead, ItemsRead
  <2>3. CASE First(Skip[c.ahead]) # <<"-">>
    <3>1. Plain[s] = Begun("array", c.got) \o Plain[c.ahead]
      BY <1>8 DEF HasRead, ItemsRead
    <3>2. Plain[c.ahead] = Piece("array", item[1]) \o Plain[item[2]]
      BY <1>3, <1>8, <2>3 DEF Piece
    <3>3. item[1] \in U
      BY <1>2, <1>8
    <3>4. ItemsRead(s, next)
      BY <1>1, <1>2, <1>4, <3>1, <3>2, <3>3, ReadOn DEF Ends, ItemsRead, next
    <3>5. QED
      BY <2>1, <3>4
  <2>4. QED
    BY <2>2, <2>3
<1>9. QED
  BY <1>6, <1>7, <1>8

(* A string is its type and its characters.                                *)
LEMMA StringToken ==
  ASSUME NEW t \in Scalar, t[1] = "str"
  PROVE  t = <<"str", t[2]>>
<1>1. t = <<"null">> \/ t \in {"bool"} \X BOOLEAN \/ t \in {"num"} \X Int \/ t \in {"str"} \X STRING
  BY DEF Scalar
<1>2. t # <<"null">>
  BY Single
<1>3. t \notin {"bool"} \X BOOLEAN /\ t \notin {"num"} \X Int
  OBVIOUS
<1>4. t \in {"str"} \X STRING
  BY <1>1, <1>2, <1>3
<1>5. QED
  BY <1>4

(* One pass over an object keeps track of what it has passed.              *)
LEMMA ReadMember ==
  ASSUME NEW d \in Nat, d <= MaxLevels, NEW parse \in Parser(Proper[d]), Honest(parse),
         NEW s \in Text, NEW c \in States(ObjectMembers(Proper[d])),
         MembersRead(s, c)
  PROVE  MembersRead(s, NextMember(parse, c))
<1> DEFINE t == First(c.ahead)
           colon == Skip[Tail(c.ahead)]
           value == parse[Tail(colon)]
           e == <<t[2], value[1]>>
           next == Proceed(value[2], Append(c.got, e), "}")
           R == Proper[d]
           U == STRING \X R
<1>0. ":" \in Marks /\ ":" # " " /\ ":" # "end"
  BY DEF Marks
<1>1. c.ahead \in Text /\ c.got \in Seq(U)
  BY DEF States, ObjectMembers
<1>2. NextMember(parse, c) = IF c.state # "open" THEN c
     ELSE IF t[1] # "str" THEN Failed
     ELSE IF First(colon) # <<":">> THEN Failed
     ELSE IF value[1] = Error THEN Failed
     ELSE IF Get(Object(c.got), t[2]) # Error THEN Failed
     ELSE next
  BY DEF NextMember
<1>3. \A x \in U : Piece("object", x) \in Text
  BY TidyLevel
<1>4. t[1] = "str" => /\ t \in Token /\ t[2] \in STRING /\ t = <<"str", t[2]>>
                      /\ c.ahead # <<>> /\ Tail(c.ahead) \in Text
                      /\ colon \in Text /\ Plain[colon] = Plain[Tail(c.ahead)]
  <2> SUFFICES ASSUME t[1] = "str"
               PROVE  /\ t \in Token /\ t[2] \in STRING /\ t = <<"str", t[2]>>
                      /\ c.ahead # <<>> /\ Tail(c.ahead) \in Text
                      /\ colon \in Text /\ Plain[colon] = Plain[Tail(c.ahead)]
    OBVIOUS
  <2>1. t \in Token /\ c.ahead # <<>>
    BY <1>1, Firsts
  <2>2. t \in Scalar /\ t[2] \in STRING
    BY <2>1, Tokens
  <2>3. t = <<"str", t[2]>>
    BY <2>2, StringToken
  <2>4. Tail(c.ahead) \in Text
    BY <1>1, <2>1, TextFacts
  <2>5. QED
    BY <2>1, <2>2, <2>3, <2>4, SkipType, PlainOfSkip
<1> HIDE DEF colon
<1>5. t[1] = "str" /\ First(colon) = <<":">> =>
        /\ Tail(colon) \in Text /\ Plain[colon] = << <<":">> >> \o Plain[Tail(colon)]
  BY <1>0, <1>4, PlainMark
<1>6. t[1] = "str" /\ First(colon) = <<":">> =>
        value[1] \in R \cup {Error} /\ value[2] \in Text
  BY <1>5 DEF Parser
<1>7. t[1] = "str" /\ First(colon) = <<":">> /\ value[1] # Error =>
        /\ First(Skip[Tail(colon)]) # <<"-">> =>
             Plain[Tail(colon)] = Flat(value[1]) \o Plain[value[2]]
        /\ First(Skip[Tail(colon)]) = <<"-">> => value[2] = Skip[Tail(colon)]
  BY <1>5 DEF Honest
<1> HIDE DEF t, value, e, next, R, U
<1>8. CASE c.state # "open"
  BY <1>2, <1>8
<1>9. CASE c.state = "open" /\ NextMember(parse, c) = Failed
  <2>1. NextMember(parse, c).state = "failed"
    <3>1. Failed.state = "failed"
      BY DEF Failed
    <3>2. QED
      BY <1>9, <3>1
  <2>2. QED
    BY <2>1 DEF HasRead, MembersRead
<1>10. CASE /\ c.state = "open" /\ t[1] = "str" /\ First(colon) = <<":">> /\ value[1] # Error
            /\ NextMember(parse, c) = next
  <2>1. CASE First(Skip[Tail(colon)]) = <<"-">>
    <3>1. First(value[2]) = <<"-">> /\ value[2] \in Text
      BY <1>6, <1>7, <1>10, <2>1
    <3>2. next.state = "failed"
      BY <3>1, PlainProceed DEF next, Ends
    <3>3. QED
      BY <1>10, <3>2 DEF HasRead, MembersRead
  <2>2. CASE First(Skip[Tail(colon)]) # <<"-">>
    <3> DEFINE name == << <<"str", t[2]>> >>
               mark == << <<":">> >>
               flat == Flat(value[1])
               p == Plain[value[2]]
    <3>1. Plain[s] = Begun("object", c.got) \o Plain[c.ahead]
      BY <1>10 DEF HasRead, MembersRead
    <3>2. value[1] \in R /\ value[2] \in Text /\ t[2] \in STRING
      BY <1>4, <1>6, <1>10
    <3>3. e \in U /\ e[1] = t[2] /\ e[2] = value[1]
      BY <3>2 DEF e, U
    <3>4. p \in Text /\ flat \in Text
      <4>1. Tidy(value[1])
        BY <3>2, TidyLevel DEF R
      <4>2. QED
        BY <3>2, <4>1, PlainType, SerializedType DEF Tidy, Writes, Flat
    <3>5. name \in Text /\ mark \in Text
      BY <1>0, <3>2, SomeTokens, TokensOfText
    <3>6. Plain[c.ahead] = name \o Plain[Tail(c.ahead)]
      <4>1. PlainToken(t) = <<t>>
        BY <1>4, <1>10, PlainTokenType
      <4>2. Plain[c.ahead] = PlainToken(t) \o Plain[Tail(c.ahead)]
        BY <1>1, <1>4, <1>10, PlainOfFirst DEF t
      <4>3. <<t>> = name
        BY <1>4, <1>10
      <4>4. QED
        BY <4>1, <4>2, <4>3
    <3>7. Piece("object", e) = name \o (mark \o flat)
      BY <3>3 DEF Piece
    <3> HIDE DEF name, mark, flat, p
    <3>8. Plain[Tail(c.ahead)] = mark \o (flat \o p)
      BY <1>4, <1>5, <1>7, <1>10, <2>2 DEF mark, flat, p
    <3>9. Plain[c.ahead] = Piece("object", e) \o p
      <4>1. name \in Text /\ mark \in Text /\ flat \in Text /\ p \in Text
        BY <3>4, <3>5
      <4>2. Plain[c.ahead] = Join(name, Join(mark, Join(flat, p)))
        BY <3>6, <3>8 DEF Join
      <4>3. Plain[c.ahead] = Join(Join(name, Join(mark, flat)), p)
        BY <4>1, <4>2, Regroup
      <4>4. QED
        BY <3>7, <4>3 DEF Join
    <3>10. MembersRead(s, next)
      BY <1>1, <1>3, <3>1, <3>2, <3>3, <3>9, ReadOn DEF Ends, MembersRead, next, p
    <3>11. QED
      BY <1>10, <3>10
  <2>3. QED
    BY <2>1, <2>2
<1>11. QED
  BY <1>2, <1>8, <1>9, <1>10
------------------------------------------------------------------------------
(* The loops have passed the text of what they got.                        *)
LEMMA ReadEntries ==
  ASSUME NEW d \in Nat, d <= MaxLevels, NEW parse \in Parser(Proper[d]), Honest(parse),
         NEW s \in Text
  PROVE  /\ ItemsRead(s, Entries("array", parse, s))
         /\ MembersRead(s, Entries("object", parse, s))
<1>0. Len(s) \in Nat
  BY TextFacts
<1>1. /\ \A type : Plain[s] = Begun(type, <<>>) \o Plain[s]
      /\ Open(s, <<>>).state = "open" /\ Open(s, <<>>).ahead = s /\ Open(s, <<>>).got = <<>>
  <2>1. Plain[s] = <<>> \o Plain[s]
    BY PlainType, TextJoin
  <2>2. QED
    BY <2>1, NothingJoined DEF Open
<1>2. ItemsRead(s, Entries("array", parse, s))
  <2> DEFINE G == {c \in States(Seq(Proper[d])) : ItemsRead(s, c)}
             Q == [k \in Nat |-> G]
  <2>1. Open(s, <<>>) \in G
    <3>1. Open(s, <<>>) \in States(Seq(Proper[d]))
      BY DEF Open, States
    <3>2. ItemsRead(s, Open(s, <<>>))
      BY <1>1 DEF ItemsRead, HasRead
    <3>3. QED
      BY <3>1, <3>2
  <2>2. ASSUME NEW c \in G
        PROVE  NextItem(parse, c) \in G
    <3>1. Error \notin Proper[d]
      BY NoErrorValue
    <3>2. NextItem(parse, c) \in States(Seq(Proper[d]))
      BY <3>1, NextItemType
    <3>3. ItemsRead(s, NextItem(parse, c))
      BY ReadItem
    <3>4. QED
      BY <3>2, <3>3
  <2> HIDE DEF G
  <2>3. \A k \in Nat : Q[k] = G
    OBVIOUS
  <2>4. 0 \in Nat /\ \A k \in 1..Len(s) : k \in Nat /\ k - 1 \in Nat
    BY <1>0
  <2> HIDE DEF Q
  <2>5. Entries("array", parse, s) \in Q[Len(s)]
    BY <2>1, <2>2, <2>3, <2>4, EntriesInvariant
  <2>6. QED
    BY <1>0, <2>3, <2>5 DEF G
<1>3. MembersRead(s, Entries("object", parse, s))
  <2> DEFINE G == {c \in States(ObjectMembers(Proper[d])) : MembersRead(s, c)}
             Q == [k \in Nat |-> G]
  <2>1. Open(s, <<>>) \in G
    <3>1. <<>> \in ObjectMembers(Proper[d])
      BY DEF ObjectMembers, NoNameTwice
    <3>2. Open(s, <<>>) \in States(ObjectMembers(Proper[d]))
      BY <3>1 DEF Open, States
    <3>3. MembersRead(s, Open(s, <<>>))
      BY <1>1 DEF MembersRead, HasRead
    <3>4. QED
      BY <3>2, <3>3
  <2>2. ASSUME NEW c \in G
        PROVE  NextMember(parse, c) \in G
    <3>1. Error \notin Proper[d]
      BY NoErrorValue
    <3>2. NextMember(parse, c) \in States(ObjectMembers(Proper[d]))
      BY <3>1, NextMemberType
    <3>3. MembersRead(s, NextMember(parse, c))
      BY ReadMember
    <3>4. QED
      BY <3>2, <3>3
  <2> HIDE DEF G
  <2>3. \A k \in Nat : Q[k] = G
    OBVIOUS
  <2>4. 0 \in Nat /\ \A k \in 1..Len(s) : k \in Nat /\ k - 1 \in Nat
    BY <1>0
  <2> HIDE DEF Q
  <2>5. Entries("object", parse, s) \in Q[Len(s)]
    BY <2>1, <2>2, <2>3, <2>4, EntriesInvariant
  <2>6. QED
    BY <1>0, <2>3, <2>5 DEF G
<1>4. QED
  BY <1>2, <1>3

(* A container whose brackets and entries were read.                       *)
LEMMA ReadContainer ==
  ASSUME NEW v, Tidy(v), Container(v), NEW s \in Text, NEW r \in Text, NEW ahead \in Text,
         First(s) = Opens(v), r = Skip[Tail(s)],
         Plain[r] = Done(v[1], v[2]) \o (<<Closes(v)>> \o Plain[ahead])
  PROVE  Plain[s] = Flat(v) \o Plain[ahead]
<1> DEFINE one == <<Opens(v)>>
           last == <<Closes(v)>>
           done == Done(v[1], v[2])
           p == Plain[ahead]
<1>1. one \in Text /\ last \in Text
  BY BracketTokens, TokensOfText
<1>2. done \in Text /\ Flat(v) = Join(one, Join(done, last))
  BY FlatContainer DEF Join
<1>3. p \in Text
  BY PlainType
<1>4. s # <<>> /\ PlainToken(First(s)) = one /\ Tail(s) \in Text
  <2>1. Opens(v) \in Token /\ Opens(v)[1] \in {"[", "{"}
    BY BracketTokens
  <2>2. s # <<>>
    <3>1. {"[", "{"} \subseteq Marks /\ "end" \notin {"[", "{"}
      BY DEF Marks
    <3>2. First(s)[1] # "end"
      BY <2>1, <3>1
    <3>3. QED
      BY <3>2, Firsts
  <2>3. PlainToken(Opens(v)) = <<Opens(v)>>
    BY <2>1, PlainTokenType
  <2>4. QED
    BY <2>2, <2>3, TextFacts
<1>5. Plain[s] = Join(one, Plain[r])
  <2>1. Plain[s] = one \o Plain[Tail(s)]
    BY <1>4, PlainOfFirst
  <2>2. Plain[r] = Plain[Tail(s)]
    BY <1>4, PlainOfSkip
  <2>3. QED
    BY <2>1, <2>2 DEF Join
<1>6. Plain[r] = Join(done, Join(last, p))
  BY DEF Join
<1> HIDE DEF one, last, done, p
<1>7. Plain[s] = Join(one, Join(done, Join(last, p)))
  BY <1>5, <1>6
<1>8. Plain[s] = Join(Join(one, Join(done, last)), p)
  BY <1>1, <1>2, <1>3, <1>7, Regroup
<1>9. QED
  BY <1>2, <1>8 DEF Join, p

(* Proper values of few enough levels may be written.                      *)
LEMMA TidyProper ==
  ASSUME NEW d \in Nat, d + 1 <= MaxLevels
  PROVE  \A v \in ProperOf(Proper[d]) : Tidy(v)
<1>1. d + 1 \in Nat /\ Proper[d + 1] = ProperOf(Proper[d])
  BY ProperIs
<1> DEFINE e == d + 1
<1>2. e \in Nat /\ e <= MaxLevels /\ Proper[e] = ProperOf(Proper[d])
  BY <1>1
<1> HIDE DEF e
<1>3. \A v \in Proper[e] : Tidy(v)
  BY <1>2, TidyLevel
<1>4. QED
  BY <1>2, <1>3

(* parse_array_value has passed the text of the array it returns.          *)
LEMMA ReadArray ==
  ASSUME NEW d \in Nat, d + 1 <= MaxLevels, NEW parse \in Parser(Proper[d]), Honest(parse),
         NEW s \in Text, First(s) = <<"[">>, parse_array_value(parse, s)[1] # Error
  PROVE  Plain[s] = Flat(parse_array_value(parse, s)[1]) \o Plain[parse_array_value(parse, s)[2]]
<1> DEFINE r == Skip[Tail(s)]
           end == Entries("array", parse, r)
           P == Proper[d]
<1>0. d <= MaxLevels /\ Error \notin P
  BY LevelsAssumption, NestingAssumption, NoErrorValue
<1>1. s # <<>> /\ r \in Text
  <2>1. "[" \in Marks /\ "[" # "end"
    BY DEF Marks
  <2>2. s # <<>>
    BY <2>1, Firsts
  <2>3. QED
    BY <2>2, SkipType, TextFacts
<1>2. end \in States(Seq(P)) /\ ItemsRead(r, end)
  BY <1>0, <1>1, EntriesType, ReadEntries
<1> HIDE DEF r, end
<1>3. parse_array_value(parse, s) =
        IF First(r) = <<"]">> THEN <<Array(<<>>), Tail(r)>>
        ELSE IF end.state = "closed" THEN <<Array(end.got), end.ahead>>
        ELSE Failure
  BY DEF parse_array_value, r, end
<1>4. ASSUME NEW got \in Seq(P)
      PROVE  /\ Tidy(Array(got)) /\ Container(Array(got)) /\ Array(got)[1] = "array"
             /\ Array(got)[2] = got
             /\ Opens(Array(got)) = <<"[">> /\ Closes(Array(got)) = <<"]">>
  <2>1. Array(got) \in ProperOf(P)
    BY Made
  <2>2. Array(got)[1] = "array" /\ Array(got)[2] = got
    BY DEF Array
  <2>3. QED
    BY <2>1, <2>2, TidyProper DEF Container, Opens, Closes
<1>45. ASSUME NEW v, Tidy(v), Container(v), v[1] = "array", Opens(v) = <<"[">>,
              Closes(v) = <<"]">>, NEW ahead \in Text,
              Plain[r] = Done("array", v[2]) \o (<< <<"]">> >> \o Plain[ahead])
       PROVE  Plain[s] = Flat(v) \o Plain[ahead]
  <2>1. First(s) = Opens(v) /\ r = Skip[Tail(s)] /\ r \in Text
    BY <1>1, <1>45 DEF r
  <2>2. Plain[r] = Done(v[1], v[2]) \o (<<Closes(v)>> \o Plain[ahead])
    BY <1>45
  <2>3. QED
    BY <1>45, <2>1, <2>2, ReadContainer, Zenon
<1>5. CASE First(r) = <<"]">>
  <2>1. Tail(r) \in Text /\ Plain[r] = << <<"]">> >> \o Plain[Tail(r)]
    <3>1. "]" \in Marks /\ "]" # " "
      BY DEF Marks
    <3>2. QED
      BY <1>1, <1>5, <3>1, PlainMark
  <2> DEFINE v == Array(<<>>)
             rest == << <<"]">> >> \o Plain[Tail(r)]
  <2>2. /\ Tidy(v) /\ Container(v) /\ v[1] = "array" /\ v[2] = <<>>
        /\ Opens(v) = <<"[">> /\ Closes(v) = <<"]">>
    <3>1. <<>> \in Seq(P)
      OBVIOUS
    <3>2. QED
      BY <1>4, <3>1
  <2>3. Plain[r] = Done("array", v[2]) \o (<< <<"]">> >> \o Plain[Tail(r)])
    <3>1. rest \in Text
      BY <1>1, <2>1, PlainType
    <3>2. rest = <<>> \o rest
      BY <3>1, TextJoin
    <3>3. QED
      BY <2>1, <2>2, <3>2, NothingJoined
  <2> HIDE DEF v
  <2>4. Plain[s] = Flat(v) \o Plain[Tail(r)]
    BY <1>45, <2>1, <2>2, <2>3
  <2>5. QED
    BY <1>3, <1>5, <2>4 DEF v
<1>6. CASE First(r) # <<"]">> /\ end.state = "closed"
  <2> DEFINE got == end.got
             v == Array(got)
  <2>1. got \in Seq(P) /\ end.ahead \in Text
    BY <1>2 DEF States
  <2>2. /\ Tidy(v) /\ Container(v) /\ v[1] = "array" /\ v[2] = got
        /\ Opens(v) = <<"[">> /\ Closes(v) = <<"]">>
    BY <1>4, <2>1
  <2>3. Plain[r] = Done("array", got) \o (<< <<"]">> >> \o Plain[end.ahead])
    BY <1>2, <1>6 DEF ItemsRead, HasRead
  <2> HIDE DEF v
  <2>4. Plain[r] = Done("array", v[2]) \o (<< <<"]">> >> \o Plain[end.ahead])
    BY <2>2, <2>3
  <2>5. Plain[s] = Flat(v) \o Plain[end.ahead]
    BY <1>45, <2>1, <2>2, <2>4
  <2>6. parse_array_value(parse, s)[1] = v /\ parse_array_value(parse, s)[2] = end.ahead
    BY <1>3, <1>6 DEF v
  <2>7. QED
    BY <2>5, <2>6
<1>7. CASE First(r) # <<"]">> /\ end.state # "closed"
  <2>1. parse_array_value(parse, s)[1] = Error
    BY <1>3, <1>7 DEF Failure
  <2>2. QED
    BY <2>1
<1>8. QED
  BY <1>5, <1>6, <1>7
------------------------------------------------------------------------------
(* The provers do not take these as literals.                              *)
Brace == "{"
EndBrace == "}"

(* parse_object_value has passed the text of the object it returns.        *)
LEMMA ReadObject ==
  ASSUME NEW d \in Nat, d + 1 <= MaxLevels, NEW parse \in Parser(Proper[d]), Honest(parse),
         NEW s \in Text, First(s) = <<Brace>>, parse_object_value(parse, s)[1] # Error
  PROVE  Plain[s] = Flat(parse_object_value(parse, s)[1]) \o Plain[parse_object_value(parse, s)[2]]
<1> DEFINE r == Skip[Tail(s)]
           end == Entries("object", parse, r)
           P == Proper[d]
<1>0. d <= MaxLevels /\ Error \notin P
  BY LevelsAssumption, NestingAssumption, NoErrorValue
<1>1. s # <<>> /\ r \in Text
  <2>1. Brace \in Marks /\ Brace # "end"
    BY DEF Marks, Brace, EndBrace
  <2>2. s # <<>>
    BY <2>1, Firsts
  <2>3. QED
    BY <2>2, SkipType, TextFacts
<1>2. end \in States(ObjectMembers(P)) /\ MembersRead(r, end)
  BY <1>0, <1>1, EntriesType, ReadEntries
<1> HIDE DEF r, end
<1>3. parse_object_value(parse, s) =
        IF First(r) = <<EndBrace>> THEN <<Object(<<>>), Tail(r)>>
        ELSE IF end.state = "closed" THEN <<Object(end.got), end.ahead>>
        ELSE Failure
  BY DEF parse_object_value, r, end, Brace, EndBrace
<1>4. ASSUME NEW got \in ObjectMembers(P)
      PROVE  /\ Tidy(Object(got)) /\ Container(Object(got)) /\ Object(got)[1] = "object"
             /\ Object(got)[2] = got
             /\ Opens(Object(got)) = <<Brace>> /\ Closes(Object(got)) = <<EndBrace>>
  <2>1. Object(got) \in ProperOf(P)
    BY Made DEF ObjectMembers
  <2>2. Object(got)[1] = "object" /\ Object(got)[2] = got
    BY DEF Object, Brace, EndBrace
  <2>3. QED
    BY <2>1, <2>2, TidyProper DEF Container, Opens, Closes, Brace, EndBrace
<1>45. ASSUME NEW v, Tidy(v), Container(v), v[1] = "object", Opens(v) = <<Brace>>,
              Closes(v) = <<EndBrace>>, NEW ahead \in Text,
              Plain[r] = Done("object", v[2]) \o (<< <<EndBrace>> >> \o Plain[ahead])
       PROVE  Plain[s] = Flat(v) \o Plain[ahead]
  <2>1. First(s) = Opens(v) /\ r = Skip[Tail(s)] /\ r \in Text
    BY <1>1, <1>45 DEF r
  <2>2. Plain[r] = Done(v[1], v[2]) \o (<<Closes(v)>> \o Plain[ahead])
    BY <1>45
  <2>3. QED
    BY <1>45, <2>1, <2>2, ReadContainer, Zenon
<1>5. CASE First(r) = <<EndBrace>>
  <2>1. Tail(r) \in Text /\ Plain[r] = << <<EndBrace>> >> \o Plain[Tail(r)]
    <3>1. EndBrace \in Marks /\ EndBrace # " "
      BY DEF Marks, Brace, EndBrace
    <3>2. QED
      BY <1>1, <1>5, <3>1, PlainMark
  <2> DEFINE v == Object(<<>>)
             rest == << <<EndBrace>> >> \o Plain[Tail(r)]
  <2>2. /\ Tidy(v) /\ Container(v) /\ v[1] = "object" /\ v[2] = <<>>
        /\ Opens(v) = <<Brace>> /\ Closes(v) = <<EndBrace>>
    <3>1. <<>> \in ObjectMembers(P)
      BY DEF ObjectMembers, NoNameTwice
    <3>2. QED
      BY <1>4, <3>1
  <2>3. Plain[r] = Done("object", v[2]) \o (<< <<EndBrace>> >> \o Plain[Tail(r)])
    <3>1. rest \in Text
      BY <1>1, <2>1, PlainType
    <3>2. rest = <<>> \o rest
      BY <3>1, TextJoin
    <3>3. QED
      BY <2>1, <2>2, <3>2, NothingJoined
  <2> HIDE DEF v
  <2>4. Plain[s] = Flat(v) \o Plain[Tail(r)]
    BY <1>45, <2>1, <2>2, <2>3
  <2>5. QED
    BY <1>3, <1>5, <2>4 DEF v
<1>6. CASE First(r) # <<EndBrace>> /\ end.state = "closed"
  <2> DEFINE got == end.got
             v == Object(got)
  <2>1. got \in ObjectMembers(P) /\ end.ahead \in Text
    BY <1>2 DEF States
  <2>2. /\ Tidy(v) /\ Container(v) /\ v[1] = "object" /\ v[2] = got
        /\ Opens(v) = <<Brace>> /\ Closes(v) = <<EndBrace>>
    BY <1>4, <2>1
  <2>3. Plain[r] = Done("object", got) \o (<< <<EndBrace>> >> \o Plain[end.ahead])
    BY <1>2, <1>6 DEF MembersRead, HasRead, Brace, EndBrace
  <2> HIDE DEF v
  <2>4. Plain[r] = Done("object", v[2]) \o (<< <<EndBrace>> >> \o Plain[end.ahead])
    BY <2>2, <2>3
  <2>5. Plain[s] = Flat(v) \o Plain[end.ahead]
    BY <1>45, <2>1, <2>2, <2>4
  <2>6. parse_object_value(parse, s)[1] = v /\ parse_object_value(parse, s)[2] = end.ahead
    BY <1>3, <1>6 DEF v
  <2>7. QED
    BY <2>5, <2>6
<1>7. CASE First(r) # <<EndBrace>> /\ end.state # "closed"
  <2>1. parse_object_value(parse, s)[1] = Error
    BY <1>3, <1>7 DEF Failure
  <2>2. QED
    BY <2>1
<1>8. QED
  BY <1>5, <1>6, <1>7

(* parse_value has passed the text of the value it returns, if parse_value *)
(* one level deeper has.                                                   *)
LEMMA HonestStep ==
  ASSUME NEW d \in Nat, d + 1 <= MaxLevels, NEW parse \in Parser(Proper[d]), Honest(parse),
         NEW k \in Nat, NEW s \in Text, ParseValue(parse, k, s)[1] # Error
  PROVE  /\ First(Skip[s]) # <<"-">> =>
              Plain[s] = Flat(ParseValue(parse, k, s)[1]) \o Plain[ParseValue(parse, k, s)[2]]
         /\ First(Skip[s]) = <<"-">> => ParseValue(parse, k, s)[2] = Skip[s]
<1> DEFINE r == Skip[s]
           t == First(r)
           type == t[1]
           read == ParseValue(parse, k, s)
<1>1. r \in Text /\ Plain[r] = Plain[s]
  BY SkipType, PlainOfSkip
<1>2. /\ type # "end" => r # <<>> /\ t \in Token /\ r[1] = t /\ Tail(r) \in Text
      /\ t = <<"-">> <=> type = "-"
      /\ t = <<Brace>> <=> type = Brace
      /\ t = <<"[">> <=> type = "["
  <2>1. {"-", Brace, "["} \subseteq Marks
    BY DEF Marks, Brace, EndBrace
  <2>2. QED
    BY <1>1, <2>1, Firsts, TextFacts
<1> HIDE DEF r
<1>3. read = IF k > MaxNesting THEN Failure
        ELSE CASE type = Brace -> parse_object_value(parse, r)
               [] type = "[" -> parse_array_value(parse, r)
               [] type \in {"num", "float", "-"} -> parse_number_value(r)
               [] type \in {"str", "bool", "null"} -> <<r[1], Tail(r)>>
               [] OTHER -> Failure
  BY DEF ParseValue, r, Brace, EndBrace
<1>4. Failure[1] = Error
  BY DEF Failure
<1> HIDE DEF t, type, read
<1>5. k <= MaxNesting
  BY <1>3, <1>4, NestingAssumption DEF read
<1>55. Brace # "[" /\ Brace # "-" /\ Brace # "num" /\ Brace # "float" /\ Brace # "str"
       /\ Brace # "bool" /\ Brace # "null"
  BY DEF Brace
<1>6. CASE type = Brace
  <2>1. read = parse_object_value(parse, r) /\ t = <<Brace>> /\ t # <<"-">>
    BY <1>2, <1>3, <1>5, <1>55, <1>6, NestingAssumption
  <2>2. Plain[r] = Flat(read[1]) \o Plain[read[2]]
    BY <1>1, <2>1, ReadObject DEF read, t
  <2>3. QED
    BY <1>1, <2>1, <2>2 DEF read, t, r
<1>7. CASE type = "["
  <2>1. read = parse_array_value(parse, r) /\ t = <<"[">> /\ t # <<"-">>
    BY <1>2, <1>3, <1>5, <1>7, NestingAssumption
  <2>2. Plain[r] = Flat(read[1]) \o Plain[read[2]]
    BY <1>1, <2>1, ReadArray DEF read, t
  <2>3. QED
    BY <1>1, <2>1, <2>2 DEF read, t, r
<1>8. CASE type = "-"
  <2>1. read = parse_number_value(r) /\ t = <<"-">>
    BY <1>2, <1>3, <1>5, <1>8, NestingAssumption
  <2>2. read[2] = r
    BY <2>1 DEF parse_number_value, t
  <2>3. QED
    BY <2>1, <2>2 DEF read, t, r
<1>9. CASE type \in {"num", "float", "str", "bool", "null"}
  <2> DEFINE v == IF type \in {"num", "float"} THEN <<"num", t[2]>> ELSE t
  <2>1. t # <<"-">> /\ read = <<v, Tail(r)>>
    <3>1. t # <<"-">> /\ r[1] = t
      BY <1>2, <1>9
    <3>2. parse_number_value(r) = << <<"num", t[2]>>, Tail(r) >>
      BY <3>1 DEF parse_number_value, t
    <3>3. CASE type \in {"num", "float"}
      BY <1>3, <1>5, <1>55, <3>1, <3>2, <3>3, NestingAssumption
    <3>4. CASE type \in {"str", "bool", "null"}
      BY <1>3, <1>5, <1>55, <3>1, <3>4, NestingAssumption
    <3>5. QED
      BY <1>9, <3>3, <3>4
  <2>2. v \in Scalar /\ v \in Tree /\ ~Container(v)
    <3>1. ASSUME type \in {"num", "float"}
          PROVE  v \in Scalar
      <4>1. t[2] \in Int
        BY <1>2, <3>1, Tokens DEF type
      <4>2. \A n \in Int : <<"num", n>> \in Scalar
        BY TokensOfText
      <4>3. v = <<"num", t[2]>>
        BY <3>1
      <4>4. QED
        BY <4>1, <4>2, <4>3
    <3>2. ASSUME type \in {"str", "bool", "null"}
          PROVE  v \in Scalar
      <4>1. v = t
        BY <3>2
      <4>2. t \in Scalar
        BY <1>2, <3>2, Tokens DEF type
      <4>3. QED
        BY <4>1, <4>2
    <3>3. v \in Scalar
      BY <1>9, <3>1, <3>2
    <3> HIDE DEF v
    <3>4. v \in Tree
      BY <3>3, Made, TidyProper DEF Tidy
    <3>5. QED
      BY <3>3, <3>4, ScalarType DEF Container
  <2>3. Flat(v) = <<Wording(v)>>
    BY <2>2, ScalarText DEF Flat
  <2>4. PlainToken(t) = <<Wording(v)>>
    <3>1. CASE type \in {"num", "float"}
      <4>1. PlainToken(t) = <<Printed(t[2])>>
        BY <1>2, <3>1, PlainTokenType DEF type
      <4>2. v = <<"num", t[2]>>
        BY <3>1
      <4>3. QED
        BY <4>1, <4>2 DEF Wording
    <3>2. CASE type \in {"str", "bool", "null"}
      <4>1. PlainToken(t) = <<t>>
        BY <1>2, <3>2, PlainTokenType DEF type
      <4>2. v = t /\ t[1] # "num"
        BY <3>2 DEF type
      <4>3. QED
        BY <4>1, <4>2 DEF Wording
    <3>3. QED
      BY <1>9, <3>1, <3>2
  <2> HIDE DEF v
  <2>5. Plain[r] = Flat(v) \o Plain[Tail(r)]
    BY <1>1, <1>2, <1>9, <2>3, <2>4, PlainOfFirst DEF t
  <2>6. read[1] = v /\ read[2] = Tail(r)
    BY <2>1
  <2>7. QED
    BY <1>1, <2>1, <2>5, <2>6 DEF read, t, r
<1>10. CASE type \notin {Brace, "[", "-", "num", "float", "str", "bool", "null"}
  <2>1. read = Failure
    BY <1>3, <1>5, <1>10
  <2>2. QED
    BY <1>4, <2>1 DEF read
<1>11. QED
  BY <1>6, <1>7, <1>8, <1>9, <1>10

(* parse_value at any nesting has passed the text of what it returns.      *)
LEMMA HonestParser ==
  \A d \in Nat : d <= MaxLevels =>
    \A k \in Nat : k + d > MaxNesting => Honest(parse_value[k])
<1> DEFINE Good(d) == d <= MaxLevels =>
                        \A k \in Nat : k + d > MaxNesting => Honest(parse_value[k])
           A == {d \in Nat : Good(d)}
<1>1. ASSUME NEW k \in Nat,
             \A s \in Text : ParseValue(parse_value[k + 1], k, s)[1] # Error =>
               /\ First(Skip[s]) # <<"-">> =>
                    Plain[s] = Flat(ParseValue(parse_value[k + 1], k, s)[1])
                                 \o Plain[ParseValue(parse_value[k + 1], k, s)[2]]
               /\ First(Skip[s]) = <<"-">> => ParseValue(parse_value[k + 1], k, s)[2] = Skip[s]
      PROVE  Honest(parse_value[k])
  <2>1. \A s \in Text : parse_value[k][s] = ParseValue(parse_value[k + 1], k, s)
    BY ParseIs
  <2>2. QED
    BY <1>1, <2>1 DEF Honest
<1>2. 0 \in A
  <2> SUFFICES ASSUME NEW k \in Nat, k > MaxNesting
               PROVE  Honest(parse_value[k])
    OBVIOUS
  <2>1. \A s \in Text : ParseValue(parse_value[k + 1], k, s)[1] = Error
    BY DEF ParseValue, Failure
  <2>2. QED
    BY <1>1, <2>1
<1>3. ASSUME NEW d \in A
      PROVE  d + 1 \in A
  <2>1. d \in Nat /\ Good(d) /\ d + 1 \in Nat
    OBVIOUS
  <2> HIDE DEF A
  <2> SUFFICES ASSUME d + 1 <= MaxLevels, NEW k \in Nat, k + (d + 1) > MaxNesting
               PROVE  Honest(parse_value[k])
    BY <2>1 DEF A
  <2>2. k + 1 \in Nat /\ (k + 1) + d > MaxNesting /\ d <= MaxLevels
    BY <2>1, NestingAssumption, LevelsAssumption
  <2>3. parse_value[k + 1] \in Parser(Proper[d]) /\ Honest(parse_value[k + 1])
    BY <2>1, <2>2, ParserType
  <2> DEFINE parse == parse_value[k + 1]
  <2>4. parse \in Parser(Proper[d]) /\ Honest(parse)
    BY <2>3
  <2> HIDE DEF parse, Good
  <2>5. \A s \in Text : ParseValue(parse, k, s)[1] # Error =>
               /\ First(Skip[s]) # <<"-">> =>
                    Plain[s] = Flat(ParseValue(parse, k, s)[1])
                                 \o Plain[ParseValue(parse, k, s)[2]]
               /\ First(Skip[s]) = <<"-">> => ParseValue(parse, k, s)[2] = Skip[s]
    BY <2>1, <2>4, HonestStep
  <2>6. QED
    BY <1>1, <2>5 DEF parse
<1>4. A = Nat
  <2> HIDE DEF A
  <2>1. A \in SUBSET Nat
    BY DEF A
  <2>2. QED
    BY <1>2, <1>3, <2>1, CopyF!Upward
<1>5. QED
  BY <1>4

(* What json_parse_string returns is what the text says, for texts of any  *)
(* tokens and length.                                                      *)
THEOREM ParsedSafe == DSpec => []ParsedIsWritten
<1>1. DTypeOK => ParsedIsWritten
  <2> SUFFICES ASSUME text \in Text
               PROVE  ParsedIsWritten
    BY DEF DTypeOK
  <2> DEFINE d == MaxNesting + 1
  <2>1. d \in Nat /\ d <= MaxLevels /\ 0 + d > MaxNesting /\ 0 \in Nat
    BY NestingAssumption, LevelsAssumption
  <2> HIDE DEF d
  <2>2. Honest(parse_value[0])
    BY <2>1, HonestParser
  <2>3. QED
    BY <2>2 DEF Honest, ParsedIsWritten, json_parse_string, json_serialize_to_string, Flat
<1>2. QED
  BY <1>1, DocumentType, PTL
------------------------------------------------------------------------------
(* A token joined in front of a text.                                      *)
LEMMA JoinToken ==
  ASSUME NEW t \in Token, NEW s \in Text
  PROVE  /\ <<t>> \in Text
         /\ Join(<<t>>, s) \in Text /\ Join(<<t>>, s) # <<>>
         /\ First(Join(<<t>>, s)) = t /\ Tail(Join(<<t>>, s)) = s
         /\ Len(Join(<<t>>, s)) = Len(s) + 1
         /\ t[1] # " " => Skip[Join(<<t>>, s)] = Join(<<t>>, s)
         /\ t[1] = " " => Skip[Join(<<t>>, s)] = Skip[s]
BY OneToken, SkipToken, TokensOfText DEF Join

(* The parts behind the first i.                                           *)
From(parts, i) == Concat[SubSeq(parts, i + 1, Len(parts))]

(* The parts from one on are that one and those behind it.                 *)
LEMMA FromParts ==
  ASSUME NEW parts \in Seq(Text)
  PROVE  /\ From(parts, 0) = Concat[parts]
         /\ From(parts, Len(parts)) = <<>>
         /\ \A i \in 0..Len(parts) : From(parts, i) \in Text
         /\ \A i \in 0..Len(parts)-1 : From(parts, i) = Join(parts[i + 1], From(parts, i + 1))
<1> DEFINE n == Len(parts)
<1>0. n \in Nat /\ \A i \in 1..n : parts[i] \in Text
  BY LenProperties
<1>1. SubSeq(parts, 0 + 1, n) = parts
  BY SubSeqFull
<1>2. SubSeq(parts, n + 1, n) = <<>> /\ <<>> \in Seq(Text)
  <2>1. n + 1 \in Int /\ n \in Int /\ n < n + 1
    BY <1>0
  <2> HIDE DEF n
  <2>2. QED
    BY <2>1, SubSeqEmpty
<1>3. Concat[<<>>] = <<>>
  BY <1>2, ConcatIs
<1>4. ASSUME NEW i \in 0..n
      PROVE  SubSeq(parts, i + 1, n) \in Seq(Text)
  <2>1. i + 1 \in Int /\ n \in Int /\ \A j \in i+1..n : parts[j] \in Text
    BY <1>0
  <2> HIDE DEF n
  <2>2. QED
    BY <2>1, SubSeqProperties
<1>5. ASSUME NEW i \in 0..n-1
      PROVE  From(parts, i) = Join(parts[i + 1], From(parts, i + 1))
  <2> DEFINE m == i + 1
             s == SubSeq(parts, m, n)
  <2>1. m \in 1..n /\ n \in m..n /\ i \in 0..n /\ m \in Nat
    BY <1>0
  <2>2. s \in Seq(Text)
    BY <1>4, <2>1
  <2> HIDE DEF m
  <2>3. Head(s) = parts[m] /\ Tail(s) = SubSeq(parts, m + 1, n)
    BY <2>1, HeadTailOfSubSeq
  <2>4. s # <<>>
    <3>1. \A j \in m..n : parts[j] \in Text
      BY <1>0, <2>1
    <3>2. m \in Int /\ n \in Int /\ m <= n
      BY <1>0, <2>1
    <3> HIDE DEF n
    <3>3. Len(s) = n - m + 1
      BY <3>1, <3>2, SubSeqProperties
    <3>4. Len(s) # 0
      BY <3>2, <3>3
    <3>5. QED
      BY <2>2, <3>4, EmptySeq
  <2> HIDE DEF s
  <2>5. Concat[s] = Head(s) \o Concat[Tail(s)]
    BY <2>2, <2>4, ConcatIs
  <2>6. From(parts, i) = Concat[s] /\ From(parts, m) = Concat[SubSeq(parts, m + 1, n)]
    BY DEF From, s, m
  <2>7. From(parts, i) = Join(parts[m], From(parts, m))
    BY <2>3, <2>5, <2>6 DEF Join
  <2>8. QED
    BY <2>7 DEF m
<1>6. \A i \in 0..n : From(parts, i) \in Text
  BY <1>4, ConcatType DEF From
<1>7. QED
  BY <1>1, <1>2, <1>3, <1>5, <1>6 DEF From

(* What the text of a value begins with.                                   *)
Starts == {"null", "bool", "num", "float", "str", "[", "{"}

(* No text of a value begins with what ends or separates entries.          *)
LEMMA StartsAre ==
  /\ \A x \in Starts : x # " " /\ x # "]" /\ x # EndBrace /\ x # "-" /\ x # "end"
  /\ "str" \in Starts
BY DEF Starts, EndBrace

(* What the text of a value begins with; it is not empty, and not skipped. *)
LEMMA StartOfText ==
  ASSUME NEW v \in Tree, NEW level \in Nat, NEW pretty \in BOOLEAN, NEW s \in Text
  PROVE  /\ Join(Serialized[v][level][pretty], s) \in Text
         /\ First(Join(Serialized[v][level][pretty], s))[1] \in Starts
         /\ Len(Join(Serialized[v][level][pretty], s)) > Len(s)
         /\ Skip[Join(Serialized[v][level][pretty], s)] = Join(Serialized[v][level][pretty], s)
<1> DEFINE w == Serialized[v][level][pretty]
<1>1. w \in Text /\ Len(s) \in Nat
  BY SerializedType, TextFacts DEF Writes
<1>2. \E t \in Token, u \in Text : t[1] \in Starts /\ w = Join(<<t>>, u)
  <2>1. CASE Container(v)
    <3> DEFINE u == Join(Concat[Parts(v, level, pretty)], Behind(v, level, pretty))
    <3>1. u \in Text /\ w = Join(<<Opens(v)>>, u)
      BY <2>1, ContainerText, JoinIs DEF Join
    <3>2. Opens(v) \in Token /\ Opens(v)[1] \in Starts
      BY BracketTokens DEF Starts
    <3> HIDE DEF u, w
    <3>3. QED
      BY <3>1, <3>2
  <2>2. CASE ~Container(v)
    <3>1. /\ Wording(v) \in Token /\ w = <<Wording(v)>> /\ v \in Scalar
          /\ v[1] = "num" => Wording(v)[1] \in {"num", "float"}
          /\ v[1] # "num" => Wording(v) = v
      BY <2>2, ScalarText
    <3>2. Wording(v)[1] \in Starts
      BY <3>1, ScalarType DEF Starts
    <3>3. <<>> \in Text /\ Join(<<Wording(v)>>, <<>>) = <<Wording(v)>>
      BY <3>1, TextJoin, TokensOfText DEF Join
    <3> HIDE DEF w
    <3>4. QED
      BY <3>1, <3>2, <3>3
  <2>3. QED
    BY <2>1, <2>2
<1> HIDE DEF w
<1>3. PICK t \in Token, u \in Text : t[1] \in Starts /\ w = Join(<<t>>, u)
  BY <1>2
<1> DEFINE us == Join(u, s)
<1>4. us \in Text /\ Len(us) = Len(u) + Len(s) /\ Len(u) \in Nat
  BY JoinIs, TextFacts
<1>5. Join(w, s) = Join(<<t>>, us)
  <2> DEFINE one == <<t>>
  <2>1. one \in Text
    BY <1>3, TokensOfText
  <2> HIDE DEF one
  <2>2. Join(Join(one, u), s) = Join(one, us)
    BY <2>1, JoinIs
  <2>3. QED
    BY <1>3, <2>2 DEF one
<1> HIDE DEF us
<1>6. /\ Join(<<t>>, us) \in Text /\ First(Join(<<t>>, us)) = t /\ Len(Join(<<t>>, us)) = Len(us) + 1
      /\ t[1] # " " => Skip[Join(<<t>>, us)] = Join(<<t>>, us)
  BY <1>4, JoinToken
<1>7. Len(us) + 1 > Len(s)
  BY <1>1, <1>4
<1>8. QED
  BY <1>3, <1>5, <1>6, <1>7, StartsAre DEF w
------------------------------------------------------------------------------
(* What is ahead behind the first i entries of a container that is         *)
(* followed by c.                                                          *)
Rest(v, level, pretty, c, i) ==
  Join(From(Parts(v, level, pretty), i), Join(Behind(v, level, pretty), c))

(* The text of an entry behind its layout and its label.                   *)
ValueAhead(v, level, pretty, c, i) ==
  Join(Serialized[ChildAt(v, i)][level + 1][pretty],
       Join(Comma(i, Len(v[2])), Rest(v, level, pretty, c, i)))

(* The number of the entries of a container.                               *)
LEMMA LengthOf ==
  ASSUME NEW v, Tidy(v), Container(v)
  PROVE  Len(v[2]) \in Nat /\ DOMAIN v[2] = 1..Len(v[2]) /\ (v[2] = <<>> <=> Len(v[2]) = 0)
BY ContainerText DEF Tidy

(* The text of a container and what follows: a bracket and the rest.       *)
LEMMA ContainerRest ==
  ASSUME NEW v, Tidy(v), Container(v), NEW level \in Nat, NEW pretty \in BOOLEAN,
         NEW c \in Text
  PROVE  /\ Join(Serialized[v][level][pretty], c) = Join(<<Opens(v)>>, Rest(v, level, pretty, c, 0))
         /\ Join(<<Closes(v)>>, c) \in Text
         /\ Skip[Rest(v, level, pretty, c, Len(v[2]))] = Join(<<Closes(v)>>, c)
         /\ \A i \in 0..Len(v[2]) : Rest(v, level, pretty, c, i) \in Text
<1> DEFINE n == Len(v[2])
           parts == Parts(v, level, pretty)
           behind == Behind(v, level, pretty)
           one == <<Opens(v)>>
           last == <<Closes(v)>>
           space == IF v[2] = <<>> THEN <<>> ELSE Layout(pretty, level)
<1>1. /\ n \in Nat /\ (v[2] = <<>> <=> n = 0) /\ parts \in Seq(Text) /\ Len(parts) = n
      /\ Concat[parts] \in Text /\ behind \in Text
      /\ Serialized[v][level][pretty] = Join(one, Join(Concat[parts], behind))
  BY ContainerText DEF Tidy, Join
<1>2. one \in Text /\ last \in Text /\ Closes(v) \in Token /\ Closes(v)[1] # " "
  <2>1. Closes(v)[1] # " "
    BY BracketTokens
  <2>2. QED
    BY <2>1, BracketTokens, TokensOfText
<1>3. behind = Join(space, last) /\ space \in Text
  BY LayoutType, TokensOfText DEF Behind, Join
<1>4. Skip[Join(behind, c)] = Join(last, c)
  <2>1. Join(last, c) \in Text /\ Skip[Join(last, c)] = Join(last, c)
    BY <1>2, JoinToken
  <2>2. Join(behind, c) = Join(space, Join(last, c))
    <3> HIDE DEF space, last, behind
    <3>1. QED
      BY <1>2, <1>3, JoinIs
  <2>3. CASE v[2] = <<>>
    <3>1. space = <<>>
      BY <2>3
    <3> HIDE DEF space, last, behind
    <3>2. QED
      BY <2>1, <2>2, <3>1, JoinIs
  <2>4. CASE v[2] # <<>>
    <3>1. space = Layout(pretty, level)
      BY <2>4
    <3> HIDE DEF space, last, behind
    <3> DEFINE rest == Join(last, c)
    <3>2. rest \in Text /\ Join(behind, c) = Layout(pretty, level) \o rest
      BY <2>1, <2>2, <3>1 DEF Join
    <3> HIDE DEF rest
    <3>3. Skip[Layout(pretty, level) \o rest] = Skip[rest]
      BY <3>2, SkipLayout
    <3>4. QED
      BY <2>1, <3>2, <3>3 DEF rest
  <2>5. QED
    BY <2>3, <2>4
<1> HIDE DEF n, parts, behind, one, last, space
<1>5. /\ From(parts, 0) = Concat[parts] /\ From(parts, n) = <<>>
      /\ \A i \in 0..n : From(parts, i) \in Text
  BY <1>1, FromParts
<1> DEFINE end == Join(behind, c)
<1>6. end \in Text
  BY <1>1, JoinIs
<1> HIDE DEF end
<1>7. \A i : Rest(v, level, pretty, c, i) = Join(From(parts, i), end)
  BY DEF Rest, parts, behind, end
<1>8. \A i \in 0..n : Rest(v, level, pretty, c, i) \in Text
  BY <1>5, <1>6, <1>7, JoinIs
<1>9. Rest(v, level, pretty, c, n) = end
  BY <1>5, <1>6, <1>7, JoinIs
<1>10. Join(Serialized[v][level][pretty], c) = Join(one, Rest(v, level, pretty, c, 0))
  <2> DEFINE body == Concat[parts]
             both == Join(body, behind)
  <2>1. body \in Text /\ both \in Text
    BY <1>1, JoinIs
  <2>2. Serialized[v][level][pretty] = Join(one, both)
    BY <1>1
  <2> HIDE DEF body
  <2>3. Join(both, c) = Join(body, end)
    BY <1>1, <2>1, JoinIs DEF end
  <2> HIDE DEF both
  <2>4. Join(Join(one, both), c) = Join(one, Join(both, c))
    BY ZenonT(60), <1>2, <2>1, JoinIs
  <2>5. Rest(v, level, pretty, c, 0) = Join(body, end)
    BY <1>5, <1>7 DEF body
  <2>6. QED
    BY <2>2, <2>3, <2>4, <2>5
<1>11. QED
  BY <1>2, <1>4, <1>8, <1>9, <1>10, JoinIs DEF n, one, last, end

(* What is ahead of an entry: layout, its label, its value, a comma and    *)
(* the rest.                                                               *)
LEMMA RestAhead ==
  ASSUME NEW v, Tidy(v), Container(v), NEW level \in Nat, NEW pretty \in BOOLEAN,
         NEW c \in Text, NEW i \in 1..Len(v[2])
  PROVE  /\ ValueAhead(v, level, pretty, c, i) \in Text
         /\ Join(Comma(i, Len(v[2])), Rest(v, level, pretty, c, i)) \in Text
         /\ Label(v, i, pretty) \in Text
         /\ Len(ValueAhead(v, level, pretty, c, i)) > Len(Rest(v, level, pretty, c, i))
         /\ Skip[Rest(v, level, pretty, c, i - 1)] =
              Skip[Join(Label(v, i, pretty), ValueAhead(v, level, pretty, c, i))]
<1> DEFINE n == Len(v[2])
           parts == Parts(v, level, pretty)
           end == Join(Behind(v, level, pretty), c)
           comma == Comma(i, n)
           label == Label(v, i, pretty)
           value == Serialized[ChildAt(v, i)][level + 1][pretty]
           layout == Layout(pretty, level + 1)
           from == From(parts, i)
           rest == Rest(v, level, pretty, c, i)
           ahead == ValueAhead(v, level, pretty, c, i)
<1>1. n \in Nat /\ i \in DOMAIN v[2] /\ i - 1 \in 0..n-1 /\ i - 1 + 1 = i /\ i \in 0..n
      /\ i - 1 \in 0..n /\ i \in Nat
  BY LengthOf
<1>2. /\ label \in Text /\ comma \in Text /\ value \in Text
      /\ Entry(Serialized, v, i, level, pretty) = Join(layout, Join(label, Join(value, comma)))
  BY <1>1, EntryText DEF Join
<1>3. layout \in Text
  BY LayoutType
<1>4. /\ parts \in Seq(Text) /\ Len(parts) = n
      /\ parts[i] = Entry(Serialized, v, i, level, pretty) /\ end \in Text
  <2> DEFINE behind == Behind(v, level, pretty)
  <2>1. /\ parts \in Seq(Text) /\ Len(parts) = n
        /\ parts[i] = Entry(Serialized, v, i, level, pretty) /\ behind \in Text
    BY <1>1, ContainerText DEF Tidy
  <2> HIDE DEF behind
  <2>2. Join(behind, c) \in Text
    BY <2>1, JoinIs
  <2>3. QED
    BY <2>1, <2>2 DEF behind
<1>5. rest \in Text
  BY <1>1, ContainerRest
<1>6. ahead = Join(value, Join(comma, rest))
  BY DEF ValueAhead
<1>7. ChildAt(v, i) \in Tree
  BY <1>1, ChildOfTidy DEF Tidy
<1>8. Join(comma, rest) \in Text /\ Len(Join(comma, rest)) = Len(comma) + Len(rest)
      /\ Len(comma) \in Nat /\ Len(rest) \in Nat
  <2> HIDE DEF comma, rest
  <2>1. QED
    BY <1>2, <1>5, JoinIs, TextFacts
<1>9. ahead \in Text /\ Len(ahead) > Len(Join(comma, rest))
  <2> DEFINE inner == level + 1
             child == ChildAt(v, i)
             behind == Join(comma, rest)
  <2>1. inner \in Nat /\ child \in Tree /\ behind \in Text
    BY <1>7, <1>8
  <2>2. ahead = Join(Serialized[child][inner][pretty], behind)
    BY <1>6
  <2> HIDE DEF inner, child, behind, ahead
  <2>3. ahead \in Text /\ Len(ahead) > Len(behind)
    BY <2>1, <2>2, StartOfText
  <2>4. QED
    BY <2>3 DEF behind
<1> HIDE DEF n, parts, end
<1>10. /\ rest = Join(from, end) /\ Rest(v, level, pretty, c, i - 1) = Join(From(parts, i - 1), end)
       /\ from \in Text
  BY <1>1, <1>4, FromParts DEF Rest, parts, end
<1>11. From(parts, i - 1) = Join(parts[i], from)
  BY <1>1, <1>4, FromParts
<1> HIDE DEF comma, label, value, layout, from, rest, ahead
<1>12. Rest(v, level, pretty, c, i - 1) = Join(layout, Join(label, ahead))
  <2> DEFINE vc == Join(value, comma)
             lvc == Join(label, vc)
             entry == Join(layout, lvc)
  <2>1. vc \in Text /\ lvc \in Text /\ entry \in Text
    BY <1>2, <1>3, JoinIs
  <2>2. Rest(v, level, pretty, c, i - 1) = Join(Join(entry, from), end)
    BY <1>2, <1>4, <1>10, <1>11
  <2>3. Join(vc, rest) = ahead
    BY <1>2, <1>5, <1>6, JoinIs
  <2> HIDE DEF vc
  <2>4. Join(lvc, rest) = Join(label, Join(vc, rest))
    BY <1>2, <1>5, <2>1, JoinIs
  <2> HIDE DEF lvc
  <2>5. Join(entry, rest) = Join(layout, Join(lvc, rest))
    BY <1>3, <1>5, <2>1, JoinIs
  <2> HIDE DEF entry
  <2>6. Join(Join(entry, from), end) = Join(entry, rest)
    BY <1>4, <1>10, <2>1, JoinIs
  <2>7. QED
    BY <2>2, <2>3, <2>4, <2>5, <2>6
<1>13. Skip[Rest(v, level, pretty, c, i - 1)] = Skip[Join(label, ahead)]
  <2> DEFINE t == Join(label, ahead)
  <2>1. t \in Text
    BY <1>2, <1>9, JoinIs
  <2> HIDE DEF t
  <2>2. Rest(v, level, pretty, c, i - 1) = Layout(pretty, level + 1) \o t
    BY <1>12 DEF layout, Join, t
  <2>3. level + 1 \in Nat
    OBVIOUS
  <2>4. Skip[Layout(pretty, level + 1) \o t] = Skip[t]
    BY <2>1, <2>3, SkipLayout
  <2>5. QED
    BY <2>2, <2>4 DEF t
<1>14. Len(ahead) > Len(rest)
  <2>1. Len(ahead) \in Nat
    BY <1>9, TextFacts
  <2>2. QED
    BY <1>8, <1>9, <2>1
<1>15. QED
  BY <1>2, <1>8, <1>9, <1>13, <1>14 DEF n, comma, label, ahead, rest
------------------------------------------------------------------------------
(* Behind an entry there is a comma, or the bracket and what follows.      *)
LEMMA ProceedOn ==
  ASSUME NEW v, Tidy(v), Container(v), NEW level \in Nat, NEW pretty \in BOOLEAN,
         NEW c \in Text, NEW i \in 1..Len(v[2]), NEW got, NEW bracket, Closes(v) = <<bracket>>,
         NEW s, s = Join(Comma(i, Len(v[2])), Rest(v, level, pretty, c, i))
  PROVE  /\ i < Len(v[2]) =>
              Proceed(s, got, bracket) = Open(Skip[Rest(v, level, pretty, c, i)], got)
         /\ i = Len(v[2]) =>
              /\ Proceed(s, got, bracket).state = "closed"
              /\ Proceed(s, got, bracket).got = got /\ Proceed(s, got, bracket).ahead = c
<1> DEFINE n == Len(v[2])
           rest == Rest(v, level, pretty, c, i)
           x == Skip[s]
<1>1. n \in Nat /\ i \in 0..n
  BY LengthOf
<1>2. rest \in Text
  BY <1>1, ContainerRest
<1>3. Proceed(s, got, bracket) =
        IF First(x) = <<",">> THEN Open(Skip[Tail(x)], got)
        ELSE IF First(x) = <<bracket>>
        THEN [ahead |-> Tail(x), got |-> got, state |-> "closed"]
        ELSE Failed
  BY DEF Proceed
<1>4. "," \in Marks /\ "," # " "
  BY DEF Marks
<1>5. CASE i < n
  <2> DEFINE comma == <<",">>
  <2>1. comma \in Token /\ comma[1] # " "
    BY <1>4, SomeTokens
  <2>2. s = Join(<<comma>>, rest)
    BY <1>5 DEF Comma
  <2> HIDE DEF comma, rest, x
  <2>3. Skip[s] = s /\ First(s) = comma /\ Tail(s) = rest
    <3>1. rest \in Text /\ comma \in Token
      BY <1>2, <2>1 DEF rest
    <3>2. /\ First(Join(<<comma>>, rest)) = comma /\ Tail(Join(<<comma>>, rest)) = rest
          /\ comma[1] # " " => Skip[Join(<<comma>>, rest)] = Join(<<comma>>, rest)
      BY <3>1, JoinToken
    <3>3. QED
      BY <2>1, <2>2, <3>2
  <2>4. First(x) = comma /\ Tail(x) = rest
    BY <2>3 DEF x
  <2>5. Proceed(s, got, bracket) = Open(Skip[rest], got)
    BY <1>3, <2>4 DEF comma
  <2>6. QED
    BY <1>1, <1>5, <2>5 DEF n, rest
<1>6. CASE i = n
  <2> DEFINE last == Closes(v)
  <2>1. last \in Token /\ last[1] # " " /\ last[1] # ","
    BY BracketTokens
  <2>2. s = rest /\ Skip[rest] = Join(<<last>>, c)
    <3>0. ~(i < n)
      BY <1>1, <1>6
    <3>1. Comma(i, n) = <<>>
      BY <3>0 DEF Comma
    <3>2. Join(<<>>, rest) = rest
      <4> HIDE DEF rest
      <4>1. QED
        BY <1>2, JoinIs
    <3>3. QED
      BY <1>6, <3>1, <3>2, ContainerRest
  <2> HIDE DEF last, rest
  <2>3. First(x) = last /\ Tail(x) = c
    <3>1. First(Join(<<last>>, c)) = last /\ Tail(Join(<<last>>, c)) = c
      BY <2>1, JoinToken
    <3>2. x = Join(<<last>>, c)
      BY <2>2 DEF x, rest
    <3>3. QED
      BY <3>1, <3>2
  <2> HIDE DEF x
  <2>4. First(x) # <<",">> /\ First(x) = <<bracket>>
    BY <2>1, <2>3, Single DEF last
  <2>5. Proceed(s, got, bracket) = [ahead |-> c, got |-> got, state |-> "closed"]
    BY <1>3, <2>3, <2>4
  <2>6. QED
    BY <1>1, <1>6, <2>5 DEF n
<1>7. QED
  BY <1>5, <1>6

(* White space in front of a value makes no difference.                    *)
LEMMA SameParse ==
  ASSUME NEW k \in Nat, NEW s \in Text, NEW t \in Text, Skip[s] = Skip[t]
  PROVE  parse_value[k][s] = parse_value[k][t]
<1>1. \A x \in Text : parse_value[k][x] = ParseValue(parse_value[k + 1], k, x)
  BY ParseIs
<1>2. ParseValue(parse_value[k + 1], k, s) = ParseValue(parse_value[k + 1], k, t)
  BY DEF ParseValue
<1>3. QED
  BY <1>1, <1>2

(* The text that is written again of what was read from a text.            *)
Settle(s) == [i \in DOMAIN s |-> Settled(s[i])]

(* A number with decimals settles as a number, other tokens as they are.   *)
LEMMA SettledType ==
  \A t \in Token : Settled(t) \in Token /\ (t[1] # "float" => Settled(t) = t)
<1> TAKE t \in Token
<1>1. CASE t[1] = "float"
  <2>1. t[2] \in Int
    BY <1>1, Tokens
  <2>2. QED
    BY <1>1, <2>1, PrintedType DEF Settled
<1>2. CASE t[1] # "float"
  BY <1>2 DEF Settled
<1>3. QED
  BY <1>1, <1>2

(* Settling goes token by token.                                           *)
LEMMA SettleIs ==
  \A s \in Text : /\ s \in Seq(Token) /\ Settle(s) \in Seq(Token) /\ Settle(s) \in Text
                  /\ Len(s) \in Nat /\ Len(Settle(s)) = Len(s)
                  /\ \A i \in 1..Len(s) : Settle(s)[i] = Settled(s[i]) /\ s[i] \in Token
<1> TAKE s \in Text
<1>1. s \in Seq(Token) /\ Len(s) \in Nat /\ DOMAIN s = 1..Len(s) /\ \A i \in 1..Len(s) : s[i] \in Token
  BY LenProperties DEF Text
<1>2. \A i \in 1..Len(s) : Settled(s[i]) \in Token
  BY <1>1, SettledType
<1> DEFINE n == Len(s)
           value(i) == Settled(s[i])
           x == [i \in 1..n |-> value(i)]
<1>3. n \in Nat /\ \A i \in 1..n : value(i) \in Token
  BY <1>1, <1>2
<1>4. Settle(s) = x
  BY <1>1 DEF Settle
<1>5. \A i \in 1..n : value(i) = Settled(s[i])
  OBVIOUS
<1> HIDE DEF n, value
<1>6. x \in Seq(Token) /\ Len(x) = n /\ \A i \in 1..n : x[i] = value(i)
  BY <1>3
<1> HIDE DEF x
<1>7. QED
  BY <1>1, <1>4, <1>5, <1>6 DEF Text, n

(* A text without decimals settles as it is.                               *)
LEMMA SettleSame ==
  ASSUME NEW s \in Text, \A i \in 1..Len(s) : s[i][1] # "float"
  PROVE  Settle(s) = s
<1>1. /\ s \in Seq(Token) /\ Settle(s) \in Seq(Token) /\ Len(Settle(s)) = Len(s)
      /\ \A i \in 1..Len(s) : Settle(s)[i] = Settled(s[i]) /\ s[i] \in Token
  BY SettleIs
<1>2. \A i \in 1..Len(s) : s[i] = Settle(s)[i]
  BY <1>1, SettledType
<1> DEFINE x == Settle(s)
<1>3. x \in Seq(Token) /\ Len(x) = Len(s) /\ \A i \in 1..Len(s) : s[i] = x[i]
  BY <1>1, <1>2
<1> HIDE DEF x
<1>4. x = s
  BY <1>1, <1>3, SeqEqual
<1>5. QED
  BY <1>4 DEF x

(* A single token settles by itself.                                       *)
LEMMA SettleToken ==
  /\ Settle(<<>>) = <<>>
  /\ \A t \in Token : Settle(<<t>>) = <<Settled(t)>>
  /\ \A t \in Token : t[1] # "float" => Settle(<<t>>) = <<t>>
<1>1. Settle(<<>>) = <<>>
  BY DEF Settle
<1>2. ASSUME NEW t \in Token
      PROVE  Settle(<<t>>) = <<Settled(t)>>
  <2> DEFINE u == Settled(t)
  <2>1. Settle(<<t>>) = [i \in 1..1 |-> u]
    BY DEF Settle
  <2> HIDE DEF u
  <2>2. [i \in 1..1 |-> u] = <<u>>
    OBVIOUS
  <2>3. QED
    BY <2>1, <2>2 DEF u
<1>3. \A t \in Token : t[1] # "float" => Settled(t) = t
  BY SettledType
<1>4. QED
  BY <1>1, <1>2, <1>3

(* Joined texts settle each by itself.                                     *)
LEMMA SettleJoin ==
  ASSUME NEW s, s \in Text, NEW t, t \in Text
  PROVE  Settle(s \o t) = Settle(s) \o Settle(t)
<1> DEFINE u == Settle(s)
           w == Settle(t)
           both == s \o t
           x == Settle(both)
<1>1. both \in Text
  BY TextJoin
<1>2. /\ s \in Seq(Token) /\ u \in Seq(Token) /\ Len(s) \in Nat /\ Len(u) = Len(s)
      /\ \A i \in 1..Len(s) : u[i] = Settled(s[i])
  BY SettleIs
<1>3. /\ t \in Seq(Token) /\ w \in Seq(Token) /\ Len(t) \in Nat /\ Len(w) = Len(t)
      /\ \A i \in 1..Len(t) : w[i] = Settled(t[i])
  BY SettleIs
<1>4. /\ x \in Seq(Token) /\ Len(x) = Len(both)
      /\ \A i \in 1..Len(both) : x[i] = Settled(both[i])
  <2> HIDE DEF both
  <2>1. QED
    BY <1>1, SettleIs
<1> HIDE DEF u, w, x
<1>5. /\ Len(both) = Len(s) + Len(t)
      /\ \A i \in 1..Len(s) + Len(t) : both[i] = IF i <= Len(s) THEN s[i] ELSE t[i - Len(s)]
  BY <1>2, <1>3, ConcatProperties
<1>6. /\ u \o w \in Seq(Token) /\ Len(u \o w) = Len(u) + Len(w)
      /\ \A i \in 1..Len(u) + Len(w) : (u \o w)[i] = IF i <= Len(u) THEN u[i] ELSE w[i - Len(u)]
  <2>1. u \in Seq(Token) /\ w \in Seq(Token)
    BY <1>2, <1>3
  <2>2. QED
    BY <2>1, ConcatProperties
<1> HIDE DEF both
<1> DEFINE y == u \o w
<1>7. /\ y \in Seq(Token) /\ Len(y) = Len(s) + Len(t)
      /\ \A i \in 1..Len(s) + Len(t) : y[i] = IF i <= Len(s) THEN u[i] ELSE w[i - Len(s)]
  BY <1>2, <1>3, <1>6
<1> HIDE DEF y
<1>8. ASSUME NEW i \in 1..Len(s) + Len(t)
      PROVE  x[i] = y[i]
  <2>1. CASE i <= Len(s)
    <3>1. i \in 1..Len(s)
      BY <1>2, <2>1
    <3>2. x[i] = Settled(both[i]) /\ both[i] = s[i] /\ y[i] = u[i]
      BY <1>4, <1>5, <1>7, <2>1
    <3>3. QED
      BY <1>2, <3>1, <3>2
  <2>2. CASE ~(i <= Len(s))
    <3>1. i - Len(s) \in 1..Len(t)
      BY <1>2, <1>3, <2>2
    <3>2. x[i] = Settled(both[i]) /\ both[i] = t[i - Len(s)] /\ y[i] = w[i - Len(s)]
      BY <1>4, <1>5, <1>7, <2>2
    <3>3. QED
      BY <1>3, <3>1, <3>2
  <2>3. QED
    BY <2>1, <2>2
<1>9. x = y
  BY <1>4, <1>5, <1>7, <1>8, SeqEqual
<1>10. QED
  BY <1>9 DEF x, y, u, w, both

(* Parts that settle one by one settle when they are joined.               *)
LEMMA SettleConcat ==
  ASSUME NEW p, p \in Seq(Text), NEW q, q \in Seq(Text), Len(q) = Len(p),
         \A i \in 1..Len(p) : q[i] = Settle(p[i])
  PROVE  Concat[q] = Settle(Concat[p])
<1> DEFINE n == Len(p)
           A == {k \in Nat : k <= n => From(q, n - k) = Settle(From(p, n - k))}
<1>1. /\ From(p, 0) = Concat[p] /\ From(p, n) = <<>>
      /\ \A i \in 0..n : From(p, i) \in Text
      /\ \A i \in 0..n-1 : From(p, i) = Join(p[i + 1], From(p, i + 1))
  BY FromParts
<1>2. /\ From(q, 0) = Concat[q] /\ From(q, n) = <<>>
      /\ \A i \in 0..n-1 : From(q, i) = Join(q[i + 1], From(q, i + 1))
  BY FromParts
<1>3. n \in Nat /\ \A i \in 1..n : p[i] \in Text /\ q[i] = Settle(p[i])
  BY LenProperties
<1> HIDE DEF n
<1>4. 0 \in A
  <2>1. n - 0 = n
    BY <1>3
  <2>2. QED
    BY <1>1, <1>2, <2>1, SettleToken
<1>5. ASSUME NEW k \in A
      PROVE  k + 1 \in A
  <2>1. k \in Nat /\ k + 1 \in Nat /\ (k <= n => From(q, n - k) = Settle(From(p, n - k)))
    OBVIOUS
  <2> HIDE DEF A
  <2> SUFFICES ASSUME k + 1 <= n
               PROVE  From(q, n - (k + 1)) = Settle(From(p, n - (k + 1)))
    BY <2>1 DEF A
  <2> DEFINE i == n - (k + 1)
  <2>2. i \in 0..n-1 /\ i + 1 \in 1..n /\ n - k = i + 1 /\ i + 1 \in 0..n /\ k <= n
    BY <1>3, <2>1
  <2> HIDE DEF i
  <2>3. /\ From(p, i) = p[i + 1] \o From(p, i + 1) /\ From(q, i) = q[i + 1] \o From(q, i + 1)
        /\ p[i + 1] \in Text /\ From(p, i + 1) \in Text /\ q[i + 1] = Settle(p[i + 1])
    BY <1>1, <1>2, <1>3, <2>2 DEF Join
  <2>4. From(q, i + 1) = Settle(From(p, i + 1))
    BY <2>1, <2>2
  <2>5. Settle(p[i + 1] \o From(p, i + 1)) = Settle(p[i + 1]) \o Settle(From(p, i + 1))
    BY <2>3, SettleJoin
  <2>6. QED
    BY <2>3, <2>4, <2>5 DEF i
<1>6. A = Nat
  <2> HIDE DEF A
  <2>1. A \in SUBSET Nat
    BY DEF A
  <2>2. QED
    BY <1>4, <1>5, <2>1, CopyF!Upward
<1>7. n \in A
  <2> HIDE DEF A
  <2>1. QED
    BY <1>3, <1>6
<1>8. n - n = 0 /\ n <= n
  BY <1>3
<1>9. QED
  BY <1>1, <1>2, <1>7, <1>8

(* What is written around the values settles as it is.                     *)
LEMMA SettleMarks ==
  /\ \A x \in Marks : Settle(<< <<x>> >>) = << <<x>> >>
  /\ \A n \in STRING : Settle(<< <<"str", n>> >>) = << <<"str", n>> >>
<1>1. \A x \in Marks : <<x>> \in Token /\ <<x>>[1] = x /\ x # "float"
  BY SomeTokens DEF Marks
<1>2. \A n \in STRING : <<"str", n>> \in Token /\ <<"str", n>>[1] # "float"
  BY SomeTokens
<1>3. \A t \in Token : t[1] # "float" => Settle(<<t>>) = <<t>>
  BY SettleToken
<1>4. ASSUME NEW x \in Marks
      PROVE  Settle(<< <<x>> >>) = << <<x>> >>
  BY <1>1, <1>3
<1>5. ASSUME NEW n \in STRING
      PROVE  Settle(<< <<"str", n>> >>) = << <<"str", n>> >>
  BY <1>2, <1>3
<1>6. QED
  BY <1>4, <1>5

(* So does the layout.                                                     *)
LEMMA SettleLayout ==
  \A pretty \in BOOLEAN, level \in Nat : Settle(Layout(pretty, level)) = Layout(pretty, level)
<1> TAKE pretty \in BOOLEAN, level \in Nat
<1> DEFINE space == <<" ">>
           s == Layout(pretty, level)
<1>1. space[1] # "float"
  BY Single
<1>2. s = IF pretty THEN [i \in 1..level+1 |-> space] ELSE <<>>
  BY DEF Layout
<1> HIDE DEF space
<1>3. s \in Text
  BY LayoutType
<1> HIDE DEF s
<1>4. \A i \in 1..Len(s) : s[i][1] # "float"
  <2>1. CASE pretty
    BY <1>1, <1>2, <2>1
  <2>2. CASE ~pretty
    BY <1>2, <2>2
  <2>3. QED
    BY <2>1, <2>2
<1>5. QED
  BY <1>3, <1>4, SettleSame DEF s

(* So does what stands before and behind a value, and behind a container.  *)
LEMMA SettleAround ==
  ASSUME NEW v, Tidy(v), Container(v), NEW i \in DOMAIN v[2], NEW level \in Nat, NEW pretty \in BOOLEAN
  PROVE  /\ Settle(Label(v, i, pretty)) = Label(v, i, pretty)
         /\ Settle(Comma(i, Len(v[2]))) = Comma(i, Len(v[2]))
<1>1. ":" \in Marks /\ " " \in Marks /\ "," \in Marks
  BY DEF Marks
<1>2. Settle(<<>>) = <<>> /\ <<>> \in Text
  BY SettleToken, TokensOfText
<1> DEFINE name == << <<"str", v[2][i][1]>> >>
           colon == << <<":">> >>
           space == << <<" ">> >>
           comma == << <<",">> >>
           gap == IF pretty THEN space ELSE <<>>
<1>3. /\ Settle(colon) = colon /\ Settle(space) = space /\ Settle(comma) = comma
      /\ colon \in Text /\ space \in Text
  BY <1>1, SettleMarks, SomeTokens
<1>4. v[1] # "array" => Settle(name) = name /\ name \in Text
  <2>1. v[1] # "array" => v[2][i][1] \in STRING
    BY ChildOfTidy DEF Container
  <2>2. \A n \in STRING : << <<"str", n>> >> \in Text
    BY SomeTokens, TokensOfText
  <2>3. QED
    BY <2>1, <2>2, SettleMarks
<1>5. Label(v, i, pretty) = IF v[1] = "array" THEN <<>> ELSE name \o (colon \o gap)
  BY DEF Label
<1>6. Comma(i, Len(v[2])) = IF i < Len(v[2]) THEN comma ELSE <<>>
  BY DEF Comma
<1> HIDE DEF name, colon, space, comma
<1>7. gap \in Text /\ Settle(gap) = gap
  BY <1>2, <1>3
<1> HIDE DEF gap
<1>8. colon \o gap \in Text /\ Settle(colon \o gap) = colon \o gap
  <2>1. Settle(colon \o gap) = Settle(colon) \o Settle(gap)
    BY ZenonT(60), <1>3, <1>7, SettleJoin
  <2>2. QED
    BY <1>3, <1>7, <2>1, TextJoin
<1> DEFINE rest == colon \o gap
<1>9. rest \in Text /\ Settle(rest) = rest
  BY <1>8
<1> HIDE DEF rest
<1>10. v[1] # "array" => Settle(name \o rest) = name \o rest
  <2>1. v[1] # "array" => Settle(name \o rest) = Settle(name) \o Settle(rest)
    BY ZenonT(60), <1>4, <1>9, SettleJoin
  <2>2. QED
    BY <1>4, <1>9, <2>1
<1>11. Settle(Label(v, i, pretty)) = Label(v, i, pretty)
  <2>1. CASE v[1] = "array"
    BY <1>2, <1>5, <2>1
  <2>2. CASE v[1] # "array"
    BY <1>5, <1>10, <2>2 DEF rest
  <2>3. QED
    BY <2>1, <2>2
<1>12. Settle(Comma(i, Len(v[2]))) = Comma(i, Len(v[2]))
  BY <1>2, <1>3, <1>6
<1>13. QED
  BY <1>11, <1>12

(* What begins and ends a container settles as it is.                      *)
LEMMA SettleEnds ==
  ASSUME NEW v, NEW level \in Nat, NEW pretty \in BOOLEAN
  PROVE  /\ Settle(<<Opens(v)>>) = <<Opens(v)>>
         /\ Settle(Behind(v, level, pretty)) = Behind(v, level, pretty)
<1>1. /\ Opens(v) \in Token /\ Opens(v)[1] # "float"
      /\ Closes(v) \in Token /\ Closes(v)[1] # "float"
  BY BracketTokens
<1> DEFINE last == <<Closes(v)>>
           space == IF v[2] = <<>> THEN <<>> ELSE Layout(pretty, level)
<1>2. Settle(last) = last /\ last \in Text
  BY <1>1, SettleToken, TokensOfText
<1>3. Settle(space) = space /\ space \in Text
  BY SettleToken, SettleLayout, LayoutType, TokensOfText
<1>4. Behind(v, level, pretty) = space \o last
  BY DEF Behind
<1> HIDE DEF last, space
<1>5. Settle(space \o last) = space \o last
  <2>1. Settle(space \o last) = Settle(space) \o Settle(last)
    BY ZenonT(60), <1>2, <1>3, SettleJoin
  <2>2. QED
    BY <1>2, <1>3, <2>1
<1>6. QED
  BY <1>1, <1>4, <1>5, SettleToken

(* A value that is another one with its numbers as they are printed: its   *)
(* texts are those of the other one, settled.                              *)
Like(w, v) ==
  /\ Tidy(w) /\ json_value_equals[w][v]
  /\ \A level \in Nat, pretty \in BOOLEAN :
       Serialized[w][level][pretty] = Settle(Serialized[v][level][pretty])

(* A number is printed to less than epsilon, without decimals only when it *)
(* has none.                                                               *)
LEMMA PrintedIs ==
  \A n \in Int : /\ Printed(n)[2] - n \in -9..9
                 /\ Printed(n)[1] = "num" => Printed(n) = <<"num", n>>
<1> TAKE n \in Int
<1>1. \/ Printed(n) = <<"num", n>>
      \/ Printed(n) = <<"float", ((n + 5) \div 10) * 10>>
  BY DEF Printed
<1>2. ((n + 5) \div 10) * 10 - n \in -9..9 /\ n - n \in -9..9
  OBVIOUS
<1>3. QED
  BY <1>1, <1>2

(* Values that are no containers may be written.                           *)
LEMMA ScalarsAreTidy ==
  \A v \in Scalar : Tidy(v)
<1>1. 0 \in Nat /\ 0 + 1 <= MaxLevels
  BY LevelsAssumption, NestingAssumption
<1>2. QED
  BY <1>1, TidyProper, Made

(* What is read of the text of a value that is no container is like it.    *)
LEMMA LikeScalar ==
  ASSUME NEW v, Tidy(v), ~Container(v)
  PROVE  Like(Told(v), v)
<1> DEFINE w == Told(v)
<1>1. v \in Tree /\ v \in Scalar /\ w \in Scalar /\ w[1] = v[1] /\ (v[1] = "num" => v[2] \in Int)
  BY ScalarText DEF Tidy
<1>2. w \in Tree /\ ~Container(w) /\ Tidy(w)
  BY <1>1, ScalarsAreTidy DEF Container, Tidy
<1>3. v[1] = "num" => w[2] = Printed(v[2])[2]
  BY DEF Told
<1>4. v[1] # "num" => w = v
  BY DEF Told
<1>5. Wording(v) \in Token /\ Wording(w) = Settled(Wording(v))
  <2>1. Wording(v) \in Token
    BY <1>1, ScalarText
  <2>2. CASE v[1] = "num"
    <3> DEFINE p == Printed(v[2])
    <3>1. p[1] \in {"num", "float"} /\ (p[1] = "num" => p = <<"num", v[2]>>)
      BY <1>1, <2>2, PrintedIs, PrintedType
    <3>2. Wording(v) = p /\ Wording(w) = Printed(p[2])
      BY <1>1, <1>3, <2>2 DEF Wording
    <3> HIDE DEF p
    <3>3. CASE p[1] = "num"
      <4>1. Settled(p) = p /\ p[2] = v[2]
        BY <3>1, <3>3 DEF Settled
      <4>2. QED
        BY <2>1, <3>2, <4>1 DEF p
    <3>4. CASE p[1] = "float"
      BY <2>1, <3>2, <3>4 DEF Settled
    <3>5. QED
      BY <3>1, <3>3, <3>4
  <2>3. CASE v[1] # "num"
    <3>1. Wording(v) = v /\ Wording(w) = v
      BY <1>4, <2>3 DEF Wording
    <3>2. v[1] # "float"
      BY <1>1, ScalarType
    <3>3. QED
      BY <2>1, <3>1, <3>2 DEF Settled
  <2>4. QED
    BY <2>2, <2>3
<1>6. json_value_equals[w][v]
  <2>1. json_value_equals[w][v] = Equal(json_value_equals, w, v)
    BY <1>1, <1>2, EqualsIs
  <2>2. v[1] = "num" => Close(w[2], v[2])
    BY <1>1, <1>3, PrintedIs DEF Close
  <2> HIDE DEF w
  <2>3. v[1] # "array" /\ v[1] # "object"
    BY DEF Container
  <2>4. CASE v[1] = "num"
    BY <1>1, <2>1, <2>2, <2>4 DEF Equal
  <2>5. CASE v[1] # "num"
    BY <1>1, <1>4, <2>1, <2>3, <2>5 DEF Equal
  <2>6. QED
    BY <2>4, <2>5
<1>7. ASSUME NEW level \in Nat, NEW pretty \in BOOLEAN
      PROVE  Serialized[w][level][pretty] = Settle(Serialized[v][level][pretty])
  <2>1. Serialized[w][level][pretty] = <<Wording(w)>>
    <3> HIDE DEF w
    <3>1. QED
      BY <1>2, ScalarText
  <2>2. Serialized[v][level][pretty] = <<Wording(v)>>
    BY <1>1, ScalarText
  <2>3. Settle(<<Wording(v)>>) = <<Settled(Wording(v))>>
    BY <1>5, SettleToken
  <2>4. QED
    BY <1>5, <2>1, <2>2, <2>3
<1>8. QED
  BY <1>2, <1>6, <1>7 DEF Like

(* Containers with like entries under the same names are alike.            *)
LEMMA LikeContainer ==
  ASSUME NEW v, Tidy(v), Container(v), NEW w, Tidy(w), w[1] = v[1], Len(w[2]) = Len(v[2]),
         \A i \in 1..Len(v[2]) : /\ Like(ChildAt(w, i), ChildAt(v, i))
                                 /\ v[1] = "object" => w[2][i][1] = v[2][i][1]
  PROVE  Like(w, v)
<1>1. Container(w) /\ w \in Tree /\ v \in Tree
  BY DEF Container, Tidy
<1>2. /\ Len(v[2]) \in Nat /\ DOMAIN v[2] = 1..Len(v[2]) /\ DOMAIN w[2] = 1..Len(v[2])
      /\ v[2] = <<>> <=> w[2] = <<>>
  BY <1>1, LengthOf
<1>3. json_value_equals[w][v]
  <2>1. json_value_equals[w][v] = Equal(json_value_equals, w, v)
    BY <1>1, EqualsIs
  <2>2. \A i \in DOMAIN w[2] : json_value_equals[ChildAt(w, i)][ChildAt(v, i)]
    BY <1>2 DEF Like
  <2>3. CASE v[1] = "array"
    <3>1. \A i \in DOMAIN w[2] : json_value_equals[w[2][i]][v[2][i]]
      BY <2>2, <2>3 DEF ChildAt
    <3>2. QED
      BY <2>1, <2>3, <3>1 DEF Equal
  <2>4. CASE v[1] = "object"
    <3>1. \A i \in DOMAIN w[2] : Get(w, w[2][i][1]) = ChildAt(w, i)
      BY <1>1, <2>4, ChildOfTidy
    <3>2. \A i \in DOMAIN v[2] : Get(v, v[2][i][1]) = ChildAt(v, i)
      BY <2>4, ChildOfTidy
    <3>3. \A i \in DOMAIN w[2] : w[2][i][1] = v[2][i][1] /\ i \in DOMAIN v[2]
      BY <1>2, <2>4
    <3>4. \A i \in DOMAIN w[2] : json_value_equals[Get(w, w[2][i][1])][Get(v, w[2][i][1])]
      BY <2>2, <3>1, <3>2, <3>3
    <3>5. QED
      BY <2>1, <2>4, <3>4 DEF Equal
  <2>5. QED
    BY <2>3, <2>4 DEF Container
<1>4. ASSUME NEW level \in Nat, NEW pretty \in BOOLEAN
      PROVE  Serialized[w][level][pretty] = Settle(Serialized[v][level][pretty])
  <2> DEFINE p == Parts(v, level, pretty)
             q == Parts(w, level, pretty)
             n == Len(v[2])
             one == <<Opens(v)>>
             behind == Behind(v, level, pretty)
  <2>1. /\ p \in Seq(Text) /\ Len(p) = n /\ Concat[p] \in Text /\ behind \in Text
        /\ \A i \in 1..n : p[i] = Entry(Serialized, v, i, level, pretty)
        /\ Serialized[v][level][pretty] = one \o (Concat[p] \o behind)
    BY <1>1, ContainerText
  <2>2. /\ q \in Seq(Text) /\ Len(q) = n
        /\ \A i \in 1..n : q[i] = Entry(Serialized, w, i, level, pretty)
        /\ Serialized[w][level][pretty] = <<Opens(w)>> \o (Concat[q] \o Behind(w, level, pretty))
    <3>1. Container(w) /\ w \in Tree /\ Len(w[2]) = n
      BY <1>1
    <3> HIDE DEF n
    <3>2. /\ q \in Seq(Text) /\ Len(q) = Len(w[2])
          /\ \A i \in 1..Len(w[2]) : q[i] = Entry(Serialized, w, i, level, pretty)
          /\ Serialized[w][level][pretty] = <<Opens(w)>> \o (Concat[q] \o Behind(w, level, pretty))
      BY <3>1, ContainerText
    <3> HIDE DEF q
    <3>3. QED
      BY <3>1, <3>2
  <2>3. Behind(w, level, pretty) = behind /\ <<Opens(w)>> = one
    BY <1>2 DEF Behind, Opens, Closes
  <2>4. ASSUME NEW i \in 1..n
        PROVE  Entry(Serialized, w, i, level, pretty) = Settle(Entry(Serialized, v, i, level, pretty))
    <3> DEFINE layout == Layout(pretty, level + 1)
               label == Label(v, i, pretty)
               comma == Comma(i, Len(v[2]))
               value == Serialized[ChildAt(v, i)][level + 1][pretty]
    <3>1. i \in DOMAIN v[2] /\ i \in DOMAIN w[2] /\ level + 1 \in Nat
      BY <1>2
    <3>2. Label(w, i, pretty) = label /\ Comma(i, Len(w[2])) = comma
      <4>1. CASE v[1] = "array"
        BY <4>1 DEF Label
      <4>2. CASE v[1] = "object"
        BY <2>4, <4>2 DEF Label
      <4>3. QED
        BY <4>1, <4>2 DEF Container
    <3>3. Serialized[ChildAt(w, i)][level + 1][pretty] = Settle(value)
      BY <2>4, <3>1 DEF Like
    <3>4. Entry(Serialized, w, i, level, pretty) = layout \o (label \o (Settle(value) \o comma))
      BY <1>1, <3>1, <3>2, <3>3, EntryText
    <3>5. /\ Entry(Serialized, v, i, level, pretty) = layout \o (label \o (value \o comma))
          /\ label \in Text /\ comma \in Text /\ value \in Text
      BY <3>1, EntryText
    <3>6. layout \in Text /\ Settle(layout) = layout
      BY <3>1, LayoutType, SettleLayout
    <3>7. Settle(label) = label /\ Settle(comma) = comma
      BY <3>1, SettleAround
    <3> HIDE DEF layout, label, comma, value
    <3> DEFINE vc == value \o comma
    <3>8. vc \in Text /\ Settle(vc) = Settle(value) \o comma
      <4>1. Settle(value \o comma) = Settle(value) \o Settle(comma)
        BY ZenonT(60), <3>5, SettleJoin
      <4>2. QED
        BY <3>5, <3>7, <4>1, TextJoin
    <3> HIDE DEF vc
    <3> DEFINE lvc == label \o vc
    <3>9. lvc \in Text /\ Settle(lvc) = label \o Settle(vc)
      <4>1. Settle(label \o vc) = Settle(label) \o Settle(vc)
        BY ZenonT(60), <3>5, <3>8, SettleJoin
      <4>2. QED
        BY <3>5, <3>7, <3>8, <4>1, TextJoin
    <3> HIDE DEF lvc
    <3>10. Settle(layout \o lvc) = layout \o Settle(lvc)
      BY <3>6, <3>9, SettleJoin
    <3>11. QED
      BY <3>4, <3>5, <3>8, <3>9, <3>10 DEF vc, lvc
  <2>5. one \in Text /\ Settle(one) = one /\ Settle(behind) = behind
    BY SettleEnds, BracketTokens, TokensOfText
  <2>6. \A i \in 1..n : q[i] = Settle(p[i])
    BY <2>1, <2>2, <2>4
  <2> HIDE DEF p, q, n, one, behind
  <2>7. Concat[q] = Settle(Concat[p])
    BY <2>1, <2>2, <2>6, SettleConcat
  <2> DEFINE body == Concat[p]
             rest == body \o behind
  <2>8. body \in Text /\ rest \in Text
    BY <2>1, TextJoin
  <2>9. Concat[q] = Settle(body) /\ Serialized[v][level][pretty] = one \o rest
    BY <2>1, <2>7
  <2> HIDE DEF body
  <2>10. Settle(rest) = Settle(body) \o behind
    BY <2>1, <2>5, <2>8, SettleJoin
  <2> HIDE DEF rest
  <2>11. Settle(one \o rest) = one \o Settle(rest)
    BY <2>5, <2>8, SettleJoin
  <2>12. QED
    BY <2>2, <2>3, <2>9, <2>10, <2>11
<1>5. QED
  BY <1>3, <1>4 DEF Like
------------------------------------------------------------------------------
(* What the parser sees of an item, and of a member: its name, a colon and *)
(* the value behind white space.                                           *)
LEMMA ItemAhead ==
  ASSUME NEW v, Tidy(v), v[1] = "array", NEW level \in Nat, NEW pretty \in BOOLEAN,
         NEW c \in Text, NEW i \in 1..Len(v[2])
  PROVE  /\ Skip[Rest(v, level, pretty, c, i - 1)] = ValueAhead(v, level, pretty, c, i)
         /\ First(ValueAhead(v, level, pretty, c, i))[1] \in Starts
<1> DEFINE rest == Join(Comma(i, Len(v[2])), Rest(v, level, pretty, c, i))
           child == ChildAt(v, i)
           inner == level + 1
           ahead == ValueAhead(v, level, pretty, c, i)
<1>1. Container(v) /\ i \in DOMAIN v[2]
  BY LengthOf DEF Container
<1>2. /\ ahead \in Text /\ rest \in Text
      /\ Skip[Rest(v, level, pretty, c, i - 1)] = Skip[Join(Label(v, i, pretty), ahead)]
  BY <1>1, RestAhead
<1>3. child \in Tree /\ inner \in Nat
  BY <1>1, ChildOfTidy DEF Tidy
<1>4. ahead = Join(Serialized[child][inner][pretty], rest)
  BY DEF ValueAhead
<1>5. Label(v, i, pretty) = <<>>
  BY DEF Label
<1> HIDE DEF rest, child, inner, ahead
<1>6. First(ahead)[1] \in Starts /\ Skip[ahead] = ahead
  BY <1>2, <1>3, <1>4, StartOfText
<1>7. Join(<<>>, ahead) = ahead
  BY <1>2, JoinIs
<1>8. QED
  BY <1>2, <1>5, <1>6, <1>7 DEF ahead

(* What the parser sees of a member: its name, a colon, white space and    *)
(* the value.                                                              *)
LEMMA MemberAhead ==
  ASSUME NEW v, Tidy(v), v[1] = "object", NEW level \in Nat, NEW pretty \in BOOLEAN,
         NEW c \in Text, NEW i \in 1..Len(v[2]),
         NEW a, a = Skip[Rest(v, level, pretty, c, i - 1)]
  PROVE  /\ a \in Text /\ Tail(a) \in Text
         /\ First(a) = <<"str", v[2][i][1]>>
         /\ First(Skip[Tail(a)]) = <<":">> /\ Tail(Skip[Tail(a)]) \in Text
         /\ Skip[Tail(Skip[Tail(a)])] = Skip[ValueAhead(v, level, pretty, c, i)]
         /\ Len(a) > Len(Rest(v, level, pretty, c, i))
<1> DEFINE name == <<"str", v[2][i][1]>>
           colon == <<":">>
           blank == <<" ">>
           space == IF pretty THEN <<blank>> ELSE <<>>
           ahead == ValueAhead(v, level, pretty, c, i)
           behind == Join(space, ahead)
           second == Join(<<colon>>, behind)
<1>1. Container(v) /\ i \in DOMAIN v[2] /\ v[2][i][1] \in STRING
  BY LengthOf, ChildOfTidy DEF Container
<1>2. /\ ahead \in Text /\ Rest(v, level, pretty, c, i) \in Text
      /\ Len(ahead) > Len(Rest(v, level, pretty, c, i))
      /\ a = Skip[Join(Label(v, i, pretty), ahead)]
  <2>1. i \in 0..Len(v[2])
    BY <1>1, LengthOf
  <2>2. QED
    BY <1>1, <2>1, RestAhead, ContainerRest
<1>3. Label(v, i, pretty) = Join(<<name>>, Join(<<colon>>, space))
  BY DEF Label, Join
<1>4. name \in Token /\ name[1] # " " /\ colon \in Token /\ colon[1] # " " /\ colon[1] = ":"
      /\ blank \in Token /\ blank[1] = " "
  BY <1>1, SomeTokens
<1>5. <<name>> \in Text /\ <<colon>> \in Text /\ <<blank>> \in Text /\ <<>> \in Text
  BY <1>4, TokensOfText
<1>6. space = <<blank>> \/ space = <<>>
  OBVIOUS
<1> HIDE DEF name, colon, blank, space, ahead
<1>7. behind \in Text /\ Len(behind) >= Len(ahead) /\ Skip[behind] = Skip[ahead]
  <2>1. CASE space = <<blank>>
    <3>1. Join(<<blank>>, ahead) \in Text /\ Len(Join(<<blank>>, ahead)) = Len(ahead) + 1
          /\ (blank[1] = " " => Skip[Join(<<blank>>, ahead)] = Skip[ahead])
      BY <1>2, <1>4, JoinToken
    <3>2. Len(ahead) \in Nat
      BY <1>2, TextFacts
    <3>3. behind = Join(<<blank>>, ahead)
      BY <2>1
    <3> HIDE DEF behind
    <3>4. behind \in Text /\ Len(behind) = Len(ahead) + 1 /\ Skip[behind] = Skip[ahead]
      BY <1>4, <3>1, <3>3
    <3>5. QED
      BY <3>2, <3>4
  <2>2. CASE space = <<>>
    <3>1. Join(<<>>, ahead) = ahead /\ Len(ahead) \in Nat
      BY <1>2, JoinIs, TextFacts
    <3>2. QED
      BY <1>2, <2>2, <3>1
  <2>3. QED
    BY <1>6, <2>1, <2>2
<1>8. Join(Label(v, i, pretty), ahead) = Join(<<name>>, second)
  <2> DEFINE one == <<name>>
             two == <<colon>>
             both == Join(two, space)
  <2>1. one \in Text /\ two \in Text /\ space \in Text
    BY <1>5, <1>6
  <2> HIDE DEF one, two
  <2>2. both \in Text /\ Join(both, ahead) = Join(two, Join(space, ahead))
    BY <1>2, <2>1, JoinIs
  <2> HIDE DEF both
  <2>3. Join(Join(one, both), ahead) = Join(one, Join(both, ahead))
    BY <1>2, <2>1, <2>2, JoinIs
  <2>4. QED
    BY <1>3, <2>2, <2>3 DEF one, two, both
<1> HIDE DEF behind
<1>9. /\ second \in Text /\ First(second) = colon /\ Tail(second) = behind
      /\ Len(second) = Len(behind) + 1 /\ (colon[1] # " " => Skip[second] = second)
  BY <1>4, <1>7, JoinToken
<1> HIDE DEF second
<1>10. /\ Join(<<name>>, second) \in Text /\ First(Join(<<name>>, second)) = name
       /\ Tail(Join(<<name>>, second)) = second
       /\ Len(Join(<<name>>, second)) = Len(second) + 1
       /\ (name[1] # " " => Skip[Join(<<name>>, second)] = Join(<<name>>, second))
  BY <1>4, <1>9, JoinToken
<1>11. a = Join(<<name>>, second)
  BY <1>2, <1>4, <1>8, <1>10
<1>12. Tail(a) = second /\ Skip[Tail(a)] = second /\ Tail(Skip[Tail(a)]) = behind
  BY <1>4, <1>9, <1>10, <1>11
<1>13. Len(a) > Len(Rest(v, level, pretty, c, i))
  <2>1. Len(behind) \in Nat /\ Len(ahead) \in Nat /\ Len(Rest(v, level, pretty, c, i)) \in Nat
    BY <1>2, <1>7, TextFacts
  <2>2. Len(a) = Len(behind) + 1 + 1
    BY <1>9, <1>10, <1>11
  <2>3. QED
    BY <1>2, <1>7, <2>1, <2>2 DEF ahead
<1>14. QED
  BY <1>4, <1>7, <1>9, <1>10, <1>11, <1>12, <1>13 DEF name, colon, ahead

(* What is read of an entry's place.                                       *)
EntryOf(v, got, i) == IF v[1] = "array" THEN got[i] ELSE got[i][2]

(* The first j entries have been read back.                                *)
LikeSoFar(v, d, j, got) ==
  /\ Len(got) = j
  /\ \A i \in 1..j : /\ ChildAt(v, i) \in Nested[d] /\ Like(EntryOf(v, got, i), ChildAt(v, i))
                     /\ v[1] = "object" => got[i][1] = v[2][i][1]

(* One more entry that was read back.                                      *)
LEMMA LikeOneMore ==
  ASSUME NEW v, NEW d, NEW j \in Nat, NEW U, NEW got \in Seq(U), LikeSoFar(v, d, j, got),
         NEW e \in U, NEW x, x = (IF v[1] = "array" THEN e ELSE e[2]),
         ChildAt(v, j + 1) \in Nested[d], Like(x, ChildAt(v, j + 1)),
         v[1] = "object" => e[1] = v[2][j + 1][1]
  PROVE  LikeSoFar(v, d, j + 1, Append(got, e))
<1> DEFINE more == Append(got, e)
<1>1. Len(got) = j /\ Len(more) = j + 1 /\ more[j + 1] = e /\ \A i \in 1..j : more[i] = got[i]
  BY AppendProperties DEF LikeSoFar
<1> HIDE DEF more
<1>2. ASSUME NEW i \in 1..j+1
      PROVE  /\ ChildAt(v, i) \in Nested[d] /\ Like(EntryOf(v, more, i), ChildAt(v, i))
             /\ v[1] = "object" => more[i][1] = v[2][i][1]
  <2>1. CASE i \in 1..j
    <3>1. more[i] = got[i]
      BY <1>1, <2>1
    <3>2. EntryOf(v, more, i) = EntryOf(v, got, i)
      BY <3>1 DEF EntryOf
    <3>3. QED
      BY <2>1, <3>1, <3>2 DEF LikeSoFar
  <2>2. CASE i = j + 1
    <3>1. EntryOf(v, more, i) = x
      BY <1>1, <2>2 DEF EntryOf
    <3>2. QED
      BY <1>1, <2>2, <3>1
  <2>3. QED
    BY <2>1, <2>2
<1>3. QED
  BY <1>1, <1>2 DEF LikeSoFar, more
------------------------------------------------------------------------------
(* What a parser whose values have d levels makes of the text of v.        *)
BackFrom(r, v, c, d) ==
  /\ v \in Nested[d] => r[1] # Error /\ r[2] = c /\ Like(r[1], v)
  /\ v \notin Nested[d] => r[1] = Error

(* A parser that does so for every value, with any layout and whatever     *)
(* follows.                                                                *)
ReadsBack(parse, d) ==
  \A v : Tidy(v) =>
    \A level \in Nat, pretty \in BOOLEAN, c \in Text :
      BackFrom(parse[Join(Serialized[v][level][pretty], c)], v, c, d)

(* A container after j passes over its own text.                           *)
AsWritten(v, level, pretty, c, d, j, e) ==
  /\ e.state = "failed" => \E i \in 1..Len(v[2]) : ChildAt(v, i) \notin Nested[d]
  /\ e.state = "open" =>
       /\ j < Len(v[2]) /\ e.ahead = Skip[Rest(v, level, pretty, c, j)]
       /\ Len(e.ahead) + j <= Len(Skip[Rest(v, level, pretty, c, 0)])
       /\ LikeSoFar(v, d, j, e.got)
  /\ e.state = "closed" => e.ahead = c /\ LikeSoFar(v, d, Len(v[2]), e.got)

(* What follows an entry that was read back.                               *)
LEMMA ProceedBack ==
  ASSUME NEW v, Tidy(v), Container(v), NEW level \in Nat, NEW pretty \in BOOLEAN,
         NEW c \in Text, NEW d, NEW i \in 1..Len(v[2]), NEW more, LikeSoFar(v, d, i, more),
         NEW bracket, Closes(v) = <<bracket>>,
         NEW s, s = Join(Comma(i, Len(v[2])), Rest(v, level, pretty, c, i)),
         NEW b \in Nat, b + (i - 1) <= Len(Skip[Rest(v, level, pretty, c, 0)]),
         Len(Rest(v, level, pretty, c, i)) < b
  PROVE  AsWritten(v, level, pretty, c, d, i, Proceed(s, more, bracket))
<1> DEFINE n == Len(v[2])
           rest == Rest(v, level, pretty, c, i)
           first == Rest(v, level, pretty, c, 0)
           next == Proceed(s, more, bracket)
<1>1. n \in Nat /\ i \in 0..n /\ 0 \in 0..n
  BY LengthOf
<1>2. rest \in Text /\ first \in Text
  BY <1>1, ContainerRest
<1>3. /\ i < n => next = Open(Skip[rest], more)
      /\ i = n => next.state = "closed" /\ next.got = more /\ next.ahead = c
  BY SMTT(30), ProceedOn
<1>4. CASE i < n
  <2>1. next.state = "open" /\ next.ahead = Skip[rest] /\ next.got = more
    BY <1>3, <1>4 DEF Open
  <2> HIDE DEF next, rest, first
  <2>2. Len(Skip[rest]) <= Len(rest) /\ Skip[rest] \in Text /\ Skip[first] \in Text
    BY <1>2, SkipType
  <2>3. Len(Skip[rest]) \in Nat /\ Len(rest) \in Nat /\ Len(Skip[first]) \in Nat
    BY <1>2, <2>2, TextFacts
  <2>4. Len(rest) < b /\ b + (i - 1) <= Len(Skip[first])
    BY DEF rest, first
  <2>5. Len(next.ahead) + i <= Len(Skip[first])
    BY <2>1, <2>2, <2>3, <2>4
  <2>6. QED
    BY <1>4, <2>1, <2>5 DEF AsWritten, next, rest, first
<1>5. CASE i = n
  <2>1. next.state = "closed" /\ next.got = more /\ next.ahead = c
    BY <1>3, <1>5
  <2> HIDE DEF next
  <2>2. QED
    BY <1>5, <2>1 DEF AsWritten, next
<1>6. QED
  BY <1>1, <1>4, <1>5

(* One pass over the text of an array reads an item back, or fails at one  *)
(* that is too high.                                                       *)
LEMMA ItemBack ==
  ASSUME NEW d \in Nat, NEW parse \in Parser(Proper[d]), ReadsBack(parse, d),
         NEW v, Tidy(v), v[1] = "array", NEW level \in Nat, NEW pretty \in BOOLEAN,
         NEW c \in Text, NEW i \in Nat, i # 0, NEW e \in States(Seq(Proper[d])),
         AsWritten(v, level, pretty, c, d, i - 1, e)
  PROVE  AsWritten(v, level, pretty, c, d, i, NextItem(parse, e))
<1> DEFINE item == parse[e.ahead]
           U == Proper[d]
           n == Len(v[2])
           child == ChildAt(v, i)
           inner == level + 1
           after == Join(Comma(i, n), Rest(v, level, pretty, c, i))
           rest == Rest(v, level, pretty, c, i)
<1>1. e.ahead \in Text /\ e.got \in Seq(U)
  BY DEF States
<1>2. item[1] \in U \cup {Error}
  BY <1>1 DEF Parser
<1>3. NextItem(parse, e) = IF e.state # "open" THEN e
     ELSE IF item[1] = Error THEN Failed
     ELSE Proceed(item[2], Append(e.got, item[1]), "]")
  BY DEF NextItem
<1>4. CASE e.state # "open"
  BY <1>3, <1>4 DEF AsWritten
<1>5. CASE e.state = "open"
  <2>1. /\ i - 1 < n /\ e.ahead = Skip[Rest(v, level, pretty, c, i - 1)]
        /\ Len(e.ahead) + (i - 1) <= Len(Skip[Rest(v, level, pretty, c, 0)])
        /\ LikeSoFar(v, d, i - 1, e.got)
    BY <1>5 DEF AsWritten
  <2>2. Container(v) /\ n \in Nat /\ i \in 1..n /\ i \in DOMAIN v[2] /\ inner \in Nat /\ i - 1 \in Nat
    <3>1. Container(v) /\ n \in Nat
      BY LengthOf DEF Container
    <3>2. i \in 1..n
      BY <2>1, <3>1
    <3>3. QED
      BY <3>1, <3>2, LengthOf
  <2>3. e.ahead = ValueAhead(v, level, pretty, c, i)
    BY <2>1, <2>2, ItemAhead
  <2>4. Tidy(child)
    BY <2>2, ChildOfTidy
  <2>5. after \in Text /\ Len(e.ahead) > Len(rest)
    BY <2>2, <2>3, RestAhead
  <2>6. item = parse[Join(Serialized[child][inner][pretty], after)]
    BY <2>3 DEF ValueAhead
  <2> HIDE DEF item, child, inner, after, n
  <2>7. BackFrom(item, child, after, d)
    BY <2>2, <2>4, <2>5, <2>6 DEF ReadsBack
  <2>8. CASE child \notin Nested[d]
    <3>1. NextItem(parse, e) = Failed
      BY <1>3, <1>5, <2>7, <2>8 DEF BackFrom
    <3>2. QED
      BY <2>2, <2>8, <3>1 DEF Failed, AsWritten, child, n
  <2>9. CASE child \in Nested[d]
    <3>1. item[1] # Error /\ item[2] = after /\ Like(item[1], child)
      BY <2>7, <2>9 DEF BackFrom
    <3> DEFINE got == e.got
               x == item[1]
               more == Append(got, x)
               j == i - 1
    <3>2. x \in U /\ got \in Seq(U) /\ j \in Nat /\ LikeSoFar(v, d, j, got) /\ j + 1 = i
      BY <1>1, <1>2, <2>1, <2>2, <3>1
    <3>3. Like(x, ChildAt(v, i)) /\ ChildAt(v, i) \in Nested[d] /\ v[1] # "object"
      BY <2>9, <3>1 DEF child
    <3> HIDE DEF got, x, j, U
    <3>4. LikeSoFar(v, d, i, more)
      <4>1. ChildAt(v, j + 1) \in Nested[d] /\ Like(x, ChildAt(v, j + 1))
        BY <3>2, <3>3
      <4>2. x = (IF v[1] = "array" THEN x ELSE x[2])
        OBVIOUS
      <4>3. LikeSoFar(v, d, j + 1, Append(got, x))
        BY <3>2, <3>3, <4>1, <4>2, LikeOneMore
      <4>4. QED
        BY <3>2, <4>3
    <3>5. NextItem(parse, e) = Proceed(after, more, "]")
      BY <1>3, <1>5, <3>1 DEF got, x
    <3> DEFINE b == Len(e.ahead)
    <3>6. b \in Nat /\ b + (i - 1) <= Len(Skip[Rest(v, level, pretty, c, 0)]) /\ Len(rest) < b
      BY <1>1, <2>1, <2>5, TextFacts
    <3>7. Closes(v) = <<"]">>
      BY DEF Closes
    <3> HIDE DEF b, more
    <3>8. AsWritten(v, level, pretty, c, d, i, Proceed(after, more, "]"))
      BY SMTT(30), <2>2, <3>4, <3>6, <3>7, ProceedBack DEF after, n
    <3>9. QED
      BY <3>5, <3>8
  <2>10. QED
    BY <2>8, <2>9
<1>6. QED
  BY <1>4, <1>5
------------------------------------------------------------------------------
(* A function of texts that takes no notice of white space before a value. *)
SkipsFirst(parse) ==
  \A s, t \in Text : Skip[s] = Skip[t] => parse[s] = parse[t]

(* One pass over the text of an object reads a member back: its name is    *)
(* not there yet.                                                          *)
LEMMA MemberBack ==
  ASSUME NEW d \in Nat, NEW parse \in Parser(Proper[d]), ReadsBack(parse, d), SkipsFirst(parse),
         NEW v, Tidy(v), v[1] = "object", NEW level \in Nat, NEW pretty \in BOOLEAN,
         NEW c \in Text, NEW i \in Nat, i # 0, NEW e \in States(ObjectMembers(Proper[d])),
         AsWritten(v, level, pretty, c, d, i - 1, e)
  PROVE  AsWritten(v, level, pretty, c, d, i, NextMember(parse, e))
<1> DEFINE name == First(e.ahead)
           colon == Skip[Tail(e.ahead)]
           value == parse[Tail(colon)]
           P == Proper[d]
           U == STRING \X P
           n == Len(v[2])
           child == ChildAt(v, i)
           inner == level + 1
           after == Join(Comma(i, n), Rest(v, level, pretty, c, i))
           rest == Rest(v, level, pretty, c, i)
<1>1. e.ahead \in Text /\ e.got \in Seq(U) /\ NoNameTwice(e.got)
  BY DEF States, ObjectMembers
<1>3. NextMember(parse, e) = IF e.state # "open" THEN e
     ELSE IF name[1] # "str" THEN Failed
     ELSE IF First(colon) # <<":">> THEN Failed
     ELSE IF value[1] = Error THEN Failed
     ELSE IF Get(Object(e.got), name[2]) # Error THEN Failed
     ELSE Proceed(value[2], Append(e.got, <<name[2], value[1]>>), EndBrace)
  BY DEF NextMember, EndBrace
<1>4. CASE e.state # "open"
  BY <1>3, <1>4 DEF AsWritten
<1>5. CASE e.state = "open"
  <2>1. /\ i - 1 < n /\ e.ahead = Skip[Rest(v, level, pretty, c, i - 1)]
        /\ Len(e.ahead) + (i - 1) <= Len(Skip[Rest(v, level, pretty, c, 0)])
        /\ LikeSoFar(v, d, i - 1, e.got)
    BY <1>5 DEF AsWritten
  <2>2. Container(v) /\ n \in Nat /\ i \in 1..n /\ i \in DOMAIN v[2] /\ inner \in Nat /\ i - 1 \in Nat
    <3>1. Container(v) /\ n \in Nat
      BY LengthOf DEF Container
    <3>2. i \in 1..n
      BY <2>1, <3>1
    <3>3. QED
      BY <3>1, <3>2, LengthOf
  <2>3. /\ name = <<"str", v[2][i][1]>> /\ First(colon) = <<":">> /\ Tail(colon) \in Text
        /\ Skip[Tail(colon)] = Skip[ValueAhead(v, level, pretty, c, i)]
        /\ Len(e.ahead) > Len(rest)
    BY SMTT(30), <2>1, <2>2, MemberAhead
  <2>4. Tidy(child) /\ v[2][i][1] \in STRING /\ NoNameTwice(v[2])
    BY <2>2, ChildOfTidy
  <2>5. after \in Text /\ ValueAhead(v, level, pretty, c, i) \in Text
    BY <2>2, RestAhead
  <2>6. value = parse[Join(Serialized[child][inner][pretty], after)]
    <3>1. value = parse[ValueAhead(v, level, pretty, c, i)]
      BY <2>3, <2>5 DEF SkipsFirst
    <3>2. QED
      BY <3>1 DEF ValueAhead
  <2>7. value[1] \in P \cup {Error}
    BY <2>3 DEF Parser
  <2> DEFINE label == v[2][i][1]
  <2>8. name[1] = "str" /\ name[2] = label /\ label \in STRING
    BY <2>3, <2>4
  <2>9. Get(Object(e.got), label) = Error
    <3>1. Len(e.got) = i - 1 /\ \A k \in 1..i-1 : e.got[k][1] = v[2][k][1]
      BY <2>1 DEF LikeSoFar
    <3>2. DOMAIN e.got = 1..i-1
      BY <1>1, <3>1, LenProperties
    <3>3. ASSUME NEW k \in DOMAIN e.got
          PROVE  e.got[k][1] # label
      <4>1. k \in 1..i-1 /\ k # i /\ k \in 1..n
        BY <2>2, <3>2
      <4>2. k \in DOMAIN v[2]
        BY <2>2, <4>1, LengthOf
      <4>3. v[2][k][1] # v[2][i][1]
        BY <2>2, <2>4, <4>1, <4>2 DEF NoNameTwice
      <4>4. QED
        BY <3>1, <4>1, <4>3
    <3>4. ~Named(e.got, label)
      BY <3>3 DEF Named
    <3>5. QED
      BY <3>4, GetIs
  <2>10. NextMember(parse, e) =
           IF value[1] = Error THEN Failed
           ELSE Proceed(value[2], Append(e.got, <<label, value[1]>>), EndBrace)
    BY <1>3, <1>5, <2>3, <2>8, <2>9
  <2> HIDE DEF value, child, inner, after, n, label, name, colon
  <2>11. BackFrom(value, child, after, d)
    BY <2>2, <2>4, <2>5, <2>6 DEF ReadsBack
  <2>12. CASE child \notin Nested[d]
    <3>1. NextMember(parse, e) = Failed
      BY <2>10, <2>11, <2>12 DEF BackFrom
    <3>2. QED
      BY <2>2, <2>12, <3>1 DEF Failed, AsWritten, child, n
  <2>13. CASE child \in Nested[d]
    <3>1. value[1] # Error /\ value[2] = after /\ Like(value[1], child)
      BY <2>11, <2>13 DEF BackFrom
    <3> DEFINE got == e.got
               x == value[1]
               pair == <<label, x>>
               more == Append(got, pair)
               j == i - 1
    <3>2. x \in P /\ got \in Seq(U) /\ j \in Nat /\ LikeSoFar(v, d, j, got) /\ j + 1 = i
      BY <1>1, <2>1, <2>2, <2>7, <3>1
    <3>3. Like(x, ChildAt(v, i)) /\ ChildAt(v, i) \in Nested[d] /\ label = v[2][i][1]
      BY <2>13, <3>1 DEF child, label
    <3>4. NextMember(parse, e) = Proceed(after, more, EndBrace)
      BY <2>10, <3>1
    <3> HIDE DEF got, x, j, P
    <3>5. pair \in U /\ pair[1] = label /\ pair[2] = x
      BY <2>8, <3>2
    <3> HIDE DEF pair, U
    <3>6. LikeSoFar(v, d, i, more)
      <4>1. ChildAt(v, j + 1) \in Nested[d] /\ Like(x, ChildAt(v, j + 1))
            /\ pair[1] = v[2][j + 1][1]
        BY <3>2, <3>3, <3>5
      <4>2. x = (IF v[1] = "array" THEN pair ELSE pair[2])
        BY <3>5
      <4>3. LikeSoFar(v, d, j + 1, Append(got, pair))
        BY <3>2, <3>5, <4>1, <4>2, LikeOneMore
      <4>4. QED
        BY <3>2, <4>3
    <3> DEFINE b == Len(e.ahead)
    <3>7. b \in Nat /\ b + (i - 1) <= Len(Skip[Rest(v, level, pretty, c, 0)]) /\ Len(rest) < b
      BY <1>1, <2>1, <2>3, TextFacts
    <3>8. Closes(v) = <<EndBrace>>
      BY DEF Closes, EndBrace
    <3> HIDE DEF b, more
    <3>9. AsWritten(v, level, pretty, c, d, i, Proceed(after, more, EndBrace))
      BY <2>2, <3>6, <3>7, <3>8, ProceedBack DEF after, n
    <3>10. QED
      BY <3>4, <3>9
  <2>14. QED
    BY <2>12, <2>13
<1>6. QED
  BY <1>4, <1>5

(* The loop over the entries of a container that has some.                 *)
LEMMA EntriesBack ==
  ASSUME NEW d \in Nat, NEW parse \in Parser(Proper[d]), ReadsBack(parse, d), SkipsFirst(parse),
         NEW v, Tidy(v), Container(v), v[2] # <<>>, NEW level \in Nat, NEW pretty \in BOOLEAN,
         NEW c \in Text, NEW s \in Text, s = Skip[Rest(v, level, pretty, c, 0)]
  PROVE  /\ v[1] = "array" =>
              /\ Entries("array", parse, s) \in States(Seq(Proper[d]))
              /\ AsWritten(v, level, pretty, c, d, Len(s), Entries("array", parse, s))
         /\ v[1] = "object" =>
              /\ Entries("object", parse, s) \in States(ObjectMembers(Proper[d]))
              /\ AsWritten(v, level, pretty, c, d, Len(s), Entries("object", parse, s))
<1> DEFINE n == Len(v[2])
           start == Open(s, <<>>)
<1>1. n \in Nat /\ n # 0 /\ 0 < n
  BY LengthOf
<1>2. Len(s) \in Nat /\ Error \notin Proper[d] /\ "array" # "object"
  BY TextFacts, NoErrorValue
<1>3. start.state = "open" /\ start.ahead = s /\ start.got = <<>>
  BY DEF Open
<1>4. AsWritten(v, level, pretty, c, d, 0, start)
  <2>1. LikeSoFar(v, d, 0, <<>>)
    BY DEF LikeSoFar
  <2>2. Len(s) + 0 <= Len(Skip[Rest(v, level, pretty, c, 0)])
    BY <1>2
  <2> HIDE DEF start
  <2>3. QED
    BY <1>1, <1>3, <2>1, <2>2 DEF AsWritten
<1>5. ASSUME v[1] = "array"
      PROVE  /\ Entries("array", parse, s) \in States(Seq(Proper[d]))
             /\ AsWritten(v, level, pretty, c, d, Len(s), Entries("array", parse, s))
  <2> DEFINE G(k) == {e \in States(Seq(Proper[d])) : AsWritten(v, level, pretty, c, d, k, e)}
             Q == [k \in Nat |-> G(k)]
  <2>1. start \in G(0)
    BY <1>4 DEF Open, States
  <2>2. ASSUME NEW k \in 1..Len(s), NEW e \in G(k - 1)
        PROVE  NextItem(parse, e) \in G(k)
    <3>1. k \in Nat /\ k # 0 /\ e \in States(Seq(Proper[d])) /\ AsWritten(v, level, pretty, c, d, k - 1, e)
      BY <1>2
    <3>2. NextItem(parse, e) \in States(Seq(Proper[d]))
      BY <1>2, <3>1, NextItemType
    <3>3. AsWritten(v, level, pretty, c, d, k, NextItem(parse, e))
      BY <1>5, <3>1, ItemBack
    <3>4. QED
      BY <3>2, <3>3
  <2> HIDE DEF G
  <2>3. \A k \in Nat : Q[k] = G(k)
    OBVIOUS
  <2>4. 0 \in Nat /\ \A k \in 1..Len(s) : k \in Nat /\ k - 1 \in Nat
    BY <1>2
  <2> HIDE DEF Q
  <2>5. Entries("array", parse, s) \in Q[Len(s)]
    BY <2>1, <2>2, <2>3, <2>4, EntriesInvariant
  <2>6. QED
    BY <1>2, <2>3, <2>5 DEF G
<1>6. ASSUME v[1] = "object"
      PROVE  /\ Entries("object", parse, s) \in States(ObjectMembers(Proper[d]))
             /\ AsWritten(v, level, pretty, c, d, Len(s), Entries("object", parse, s))
  <2> DEFINE G(k) == {e \in States(ObjectMembers(Proper[d])) : AsWritten(v, level, pretty, c, d, k, e)}
             Q == [k \in Nat |-> G(k)]
  <2>1. start \in G(0)
    <3>1. <<>> \in ObjectMembers(Proper[d])
      BY DEF ObjectMembers, NoNameTwice
    <3>2. QED
      BY <1>4, <3>1 DEF Open, States
  <2>2. ASSUME NEW k \in 1..Len(s), NEW e \in G(k - 1)
        PROVE  NextMember(parse, e) \in G(k)
    <3>1. k \in Nat /\ k # 0 /\ e \in States(ObjectMembers(Proper[d])) /\ AsWritten(v, level, pretty, c, d, k - 1, e)
      BY <1>2
    <3>2. NextMember(parse, e) \in States(ObjectMembers(Proper[d]))
      BY <1>2, <3>1, NextMemberType
    <3>3. AsWritten(v, level, pretty, c, d, k, NextMember(parse, e))
      BY <1>6, <3>1, MemberBack
    <3>4. QED
      BY <3>2, <3>3
  <2> HIDE DEF G
  <2>3. \A k \in Nat : Q[k] = G(k)
    OBVIOUS
  <2>4. 0 \in Nat /\ \A k \in 1..Len(s) : k \in Nat /\ k - 1 \in Nat
    BY <1>2
  <2> HIDE DEF Q
  <2>5. Entries("object", parse, s) \in Q[Len(s)]
    BY <1>2, <2>1, <2>2, <2>3, <2>4, EntriesInvariant
  <2>6. QED
    BY <1>2, <2>3, <2>5 DEF G
<1>7. QED
  BY <1>5, <1>6
------------------------------------------------------------------------------
(* A container is one level higher than its highest entry.                 *)
LEMMA LevelOfContainer ==
  ASSUME NEW v, Tidy(v), Container(v), NEW d \in Nat
  PROVE  /\ v = (IF v[1] = "array" THEN Array(v[2]) ELSE Object(v[2]))
         /\ v \in Nested[d + 1] => \A i \in 1..Len(v[2]) : ChildAt(v, i) \in Nested[d]
         /\ (\A i \in 1..Len(v[2]) : ChildAt(v, i) \in Nested[d]) => v \in Nested[d + 1]
<1> DEFINE n == Len(v[2])
           V == Nested[d]
           e == d + 1
<1>1. n \in Nat /\ DOMAIN v[2] = 1..n
  BY LengthOf
<1>2. e \in Nat /\ e - 1 = d /\ Nested[e] = ValuesOf(V)
  BY NestedIs
<1>3. \A i \in 1..n : ChildAt(v, i) \in Children(v)
  BY <1>1, ChildOfTidy
<1> HIDE DEF e
<1>4. v \in Nested[e] => \A i \in 1..n : ChildAt(v, i) \in V
  <2> SUFFICES ASSUME v \in Nested[e], NEW i \in 1..n
               PROVE  ChildAt(v, i) \in V
    OBVIOUS
  <2> DEFINE child == ChildAt(v, i)
  <2>1. child \in Children(v)
    BY <1>3
  <2> HIDE DEF child
  <2>2. child \in Nested[e - 1]
    BY <1>2, <2>1, ChildLevel
  <2>3. QED
    BY <1>2, <2>2 DEF child
<1>5. PICK m \in Nat : v \in Proper[m]
  BY DEF Tidy
<1>6. CASE v[1] = "array"
  <2>1. v = Array(v[2]) /\ v[2] \in Seq(Proper[m - 1])
    BY <1>5, <1>6, ArrayValue
  <2>2. (\A i \in 1..n : ChildAt(v, i) \in V) => v[2] \in Seq(V)
    <3>1. (\A i \in 1..n : ChildAt(v, i) \in V) => \A i \in 1..n : v[2][i] \in V
      BY <1>6 DEF ChildAt
    <3> DEFINE items == v[2]
    <3>2. items \in Seq(Proper[m - 1]) /\ n = Len(items)
      BY <2>1
    <3> HIDE DEF items
    <3>3. (\A i \in 1..Len(items) : items[i] \in V) => items \in Seq(V)
      BY <3>2
    <3>4. QED
      BY <3>1, <3>3 DEF items
  <2>3. QED
    BY <1>2, <1>4, <1>6, <2>1, <2>2, Made DEF e
<1>7. CASE v[1] = "object"
  <2>1. v = Object(v[2]) /\ v[2] \in Seq(STRING \X Proper[m - 1])
    BY <1>5, <1>7, ObjectValue
  <2>2. (\A i \in 1..n : ChildAt(v, i) \in V) => v[2] \in Seq(STRING \X V)
    <3>1. \A i \in 1..n : v[2][i] = <<v[2][i][1], ChildAt(v, i)>> /\ v[2][i][1] \in STRING
      BY <1>1, <1>7, ChildOfTidy
    <3>2. (\A i \in 1..n : ChildAt(v, i) \in V) => \A i \in 1..n : v[2][i] \in STRING \X V
      <4> SUFFICES ASSUME NEW i \in 1..n, ChildAt(v, i) \in V
                   PROVE  v[2][i] \in STRING \X V
        OBVIOUS
      <4> DEFINE name == v[2][i][1]
                 child == ChildAt(v, i)
                 pair == v[2][i]
      <4>1. pair = <<name, child>> /\ name \in STRING /\ child \in V
        BY <3>1
      <4> HIDE DEF name, child, pair, V
      <4>2. pair \in STRING \X V
        BY <4>1
      <4>3. QED
        BY <4>2 DEF pair
    <3> DEFINE members == v[2]
               U == STRING \X V
    <3>3. members \in Seq(STRING \X Proper[m - 1]) /\ n = Len(members)
      BY <2>1
    <3> HIDE DEF members, U
    <3>4. (\A i \in 1..Len(members) : members[i] \in U) => members \in Seq(U)
      BY <3>3
    <3>5. QED
      BY <3>2, <3>4 DEF members, U
  <2>3. v[1] # "array"
    BY <1>7
  <2>4. QED
    BY <1>2, <1>4, <2>1, <2>2, <2>3, Made DEF e
<1>8. QED
  BY <1>6, <1>7 DEF Container

(* When all entries were read back, so was the container.                  *)
LEMMA LikeAll ==
  ASSUME NEW v, Tidy(v), Container(v), NEW d \in Nat, d + 1 <= MaxLevels,
         NEW got, LikeSoFar(v, d, Len(v[2]), got)
  PROVE  /\ v \in Nested[d + 1]
         /\ v[1] = "array" /\ got \in Seq(Proper[d]) => Like(Array(got), v)
         /\ v[1] = "object" /\ got \in ObjectMembers(Proper[d]) => Like(Object(got), v)
<1> DEFINE n == Len(v[2])
<1>1. /\ Len(got) = n /\ \A i \in 1..n : ChildAt(v, i) \in Nested[d]
      /\ \A i \in 1..n : /\ Like(EntryOf(v, got, i), ChildAt(v, i))
                         /\ v[1] = "object" => got[i][1] = v[2][i][1]
  BY DEF LikeSoFar
<1>2. v \in Nested[d + 1]
  BY <1>1, LevelOfContainer
<1>3. ASSUME NEW w, Tidy(w), w[1] = v[1], w[2] = got
      PROVE  Like(w, v)
  <2>1. \A i \in 1..n : ChildAt(w, i) = EntryOf(v, got, i)
    BY <1>3 DEF ChildAt, EntryOf
  <2>2. \A i \in 1..n : /\ Like(ChildAt(w, i), ChildAt(v, i))
                        /\ v[1] = "object" => w[2][i][1] = v[2][i][1]
    BY <1>1, <1>3, <2>1
  <2>3. Len(w[2]) = Len(v[2])
    BY <1>1, <1>3
  <2>4. QED
    BY <1>3, <2>2, <2>3, LikeContainer
<1>4. ASSUME v[1] = "array", got \in Seq(Proper[d])
      PROVE  Like(Array(got), v)
  <2> DEFINE w == Array(got)
             P == Proper[d]
  <2>1. w[1] = "array" /\ w[2] = got
    BY ArrayAndObject
  <2>2. got \in Seq(P)
    BY <1>4
  <2>3. Tidy(w)
    <3>1. \A x \in ProperOf(P) : Tidy(x)
      BY TidyProper
    <3> HIDE DEF P
    <3>2. w \in ProperOf(P)
      BY <2>2, Made
    <3>3. QED
      BY <3>1, <3>2
  <2> HIDE DEF w
  <2>4. QED
    BY <1>3, <1>4, <2>1, <2>3 DEF w
<1>5. ASSUME v[1] = "object", got \in ObjectMembers(Proper[d])
      PROVE  Like(Object(got), v)
  <2> DEFINE w == Object(got)
             P == Proper[d]
  <2>1. w[1] = "object" /\ w[2] = got
    BY ArrayAndObject
  <2>2. got \in Seq(STRING \X P) /\ NoNameTwice(got)
    BY <1>5 DEF ObjectMembers
  <2>3. Tidy(w)
    <3>1. \A x \in ProperOf(P) : Tidy(x)
      BY TidyProper
    <3> HIDE DEF P
    <3>2. w \in ProperOf(P)
      BY <2>2, Made
    <3>3. QED
      BY <3>1, <3>2
  <2> HIDE DEF w
  <2>4. QED
    BY <1>3, <1>5, <2>1, <2>3 DEF w
<1>6. QED
  BY <1>2, <1>4, <1>5
------------------------------------------------------------------------------
(* What is ahead of an entry begins with a value or a name.                *)
LEMMA AheadStarts ==
  ASSUME NEW v, Tidy(v), Container(v), NEW level \in Nat, NEW pretty \in BOOLEAN,
         NEW c \in Text, NEW i \in 1..Len(v[2])
  PROVE  First(Skip[Rest(v, level, pretty, c, i - 1)])[1] \in Starts
<1>1. CASE v[1] = "array"
  <2>1. /\ Skip[Rest(v, level, pretty, c, i - 1)] = ValueAhead(v, level, pretty, c, i)
        /\ First(ValueAhead(v, level, pretty, c, i))[1] \in Starts
    BY <1>1, ItemAhead
  <2>2. QED
    BY <2>1
<1>2. CASE v[1] = "object"
  <2> DEFINE a == Skip[Rest(v, level, pretty, c, i - 1)]
  <2>1. /\ First(a) = <<"str", v[2][i][1]>> /\ First(Skip[Tail(a)]) = <<":">>
        /\ Tail(Skip[Tail(a)]) \in Text
        /\ Skip[Tail(Skip[Tail(a)])] = Skip[ValueAhead(v, level, pretty, c, i)]
        /\ Len(a) > Len(Rest(v, level, pretty, c, i))
    BY <1>2, MemberAhead
  <2> HIDE DEF a
  <2>2. First(a)[1] = "str"
    BY <2>1
  <2>3. QED
    BY <2>2, StartsAre DEF a
<1>3. QED
  BY <1>1, <1>2 DEF Container

(* The text of a container is read back, if parse_value one level deeper   *)
(* reads back the entries.                                                 *)
LEMMA ContainerBack ==
  ASSUME NEW d \in Nat, d + 1 <= MaxLevels, NEW parse \in Parser(Proper[d]),
         ReadsBack(parse, d), SkipsFirst(parse),
         NEW v, Tidy(v), Container(v), NEW level \in Nat, NEW pretty \in BOOLEAN,
         NEW c \in Text, NEW s, s = Join(Serialized[v][level][pretty], c)
  PROVE  /\ v[1] = "array" => BackFrom(parse_array_value(parse, s), v, c, d + 1)
         /\ v[1] = "object" => BackFrom(parse_object_value(parse, s), v, c, d + 1)
<1> DEFINE n == Len(v[2])
           first == Rest(v, level, pretty, c, 0)
           r == Skip[Tail(s)]
           items == Entries("array", parse, r)
           members == Entries("object", parse, r)
<1>1. n \in Nat /\ (v[2] = <<>> <=> n = 0) /\ 0 \in 0..n
  BY LengthOf
<1>2. first \in Text /\ r = Skip[first]
  <2> DEFINE opens == Opens(v)
  <2>1. first \in Text /\ s = Join(<<opens>>, first) /\ opens \in Token
    BY <1>1, ContainerRest, BracketTokens
  <2> HIDE DEF opens, first
  <2>2. Tail(Join(<<opens>>, first)) = first
    BY <2>1, JoinToken
  <2>3. QED
    BY <2>1, <2>2
<1>3. r \in Text
  BY <1>2, SkipType
<1>4. /\ parse_array_value(parse, s) =
           IF First(r) = <<"]">> THEN <<Array(<<>>), Tail(r)>>
           ELSE IF items.state = "closed" THEN <<Array(items.got), items.ahead>>
           ELSE Failure
      /\ parse_object_value(parse, s) =
           IF First(r) = <<EndBrace>> THEN <<Object(<<>>), Tail(r)>>
           ELSE IF members.state = "closed" THEN <<Object(members.got), members.ahead>>
           ELSE Failure
  BY DEF parse_array_value, parse_object_value, EndBrace
<1>5. /\ v = (IF v[1] = "array" THEN Array(v[2]) ELSE Object(v[2]))
      /\ v \in Nested[d + 1] <=> \A i \in 1..n : ChildAt(v, i) \in Nested[d]
  BY LevelOfContainer
<1>6. Failure[1] = Error
  BY DEF Failure
<1>7. /\ v[1] = "array" => Closes(v) = <<"]">>
      /\ v[1] = "object" => Closes(v) = <<EndBrace>>
  BY DEF Closes, EndBrace
<1> HIDE DEF r, items, members
<1>8. CASE v[2] = <<>>
  <2>1. First(r) = Closes(v) /\ Tail(r) = c
    <3> DEFINE last == Closes(v)
    <3>1. r = Join(<<last>>, c) /\ last \in Token
      <4>1. r = Join(<<last>>, c)
        BY ZenonT(60), <1>1, <1>2, <1>8, ContainerRest
      <4>2. last \in Token
        BY BracketTokens
      <4>3. QED
        BY <4>1, <4>2
    <3> HIDE DEF last
    <3>2. First(Join(<<last>>, c)) = last /\ Tail(Join(<<last>>, c)) = c
      BY <3>1, JoinToken
    <3>3. QED
      BY <3>1, <3>2 DEF last
  <2>2. v \in Nested[d + 1]
    BY <1>1, <1>5, <1>8
  <2>3. Like(v, v)
    <3>1. \A i \in 1..Len(v[2]) : FALSE
      BY <1>1, <1>8
    <3>2. QED
      BY <3>1, LikeContainer
  <2>4. v # Error
    BY <1>5, ArrayAndObject DEF Container
  <2>5. v[1] = "array" => parse_array_value(parse, s) = <<v, c>>
    BY <1>4, <1>5, <1>7, <1>8, <2>1
  <2>6. v[1] = "object" => parse_object_value(parse, s) = <<v, c>>
    BY <1>4, <1>5, <1>7, <1>8, <2>1
  <2>7. BackFrom(<<v, c>>, v, c, d + 1)
    BY <2>2, <2>3, <2>4 DEF BackFrom
  <2>8. QED
    BY <2>5, <2>6, <2>7
<1>9. CASE v[2] # <<>>
  <2>1. 1 \in 1..n /\ 1 - 1 = 0 /\ Len(r) \in Nat
    BY <1>1, <1>3, <1>9, TextFacts
  <2>2. First(r) # Closes(v)
    <3>1. Closes(v)[1] = "]" \/ Closes(v)[1] = EndBrace
      BY <1>7, Single DEF Container
    <3>2. First(r)[1] \in Starts
      <4> DEFINE i == 1
      <4>1. i \in 1..n /\ i - 1 = 0
        BY <2>1
      <4> HIDE DEF i
      <4>2. First(Skip[Rest(v, level, pretty, c, i - 1)])[1] \in Starts
        BY <4>1, AheadStarts
      <4>3. QED
        BY <1>2, <4>1, <4>2
    <3>3. QED
      BY <3>1, <3>2, StartsAre
  <2>3. /\ v[1] = "array" => items \in States(Seq(Proper[d])) /\ AsWritten(v, level, pretty, c, d, Len(r), items)
        /\ v[1] = "object" => /\ members \in States(ObjectMembers(Proper[d]))
                              /\ AsWritten(v, level, pretty, c, d, Len(r), members)
    BY <1>2, <1>3, <1>9, EntriesBack DEF items, members
  <2>4. ASSUME NEW e, e.ahead \in Text, e.state \in {"open", "closed", "failed"},
               AsWritten(v, level, pretty, c, d, Len(r), e)
        PROVE  /\ e.state # "open"
               /\ e.state = "closed" => e.ahead = c /\ LikeSoFar(v, d, n, e.got)
               /\ e.state = "failed" => v \notin Nested[d + 1]
    <3>1. e.state # "open"
      <4> SUFFICES ASSUME e.state = "open" PROVE FALSE
        OBVIOUS
      <4>1. /\ Len(r) < n /\ e.ahead = Skip[Rest(v, level, pretty, c, Len(r))]
            /\ Len(e.ahead) + Len(r) <= Len(r)
        BY <1>2, <2>4 DEF AsWritten
      <4>2. Len(e.ahead) \in Nat /\ (e.ahead = <<>> <=> Len(e.ahead) = 0)
        BY <2>4, TextFacts
      <4>3. e.ahead = <<>>
        BY <2>1, <4>1, <4>2
      <4> DEFINE i == Len(r) + 1
      <4>4. i \in 1..n /\ i - 1 = Len(r)
        BY <1>1, <2>1, <4>1
      <4> HIDE DEF i
      <4>5. First(e.ahead)[1] = "end"
        BY <2>4, <4>3, Firsts
      <4>6. First(e.ahead)[1] \in Starts
        <5>1. First(Skip[Rest(v, level, pretty, c, i - 1)])[1] \in Starts
          BY <4>4, AheadStarts
        <5>2. QED
          BY <4>1, <4>4, <5>1
      <4>7. QED
        BY <4>5, <4>6, StartsAre
    <3>2. e.state = "closed" => e.ahead = c /\ LikeSoFar(v, d, n, e.got)
      BY <2>4 DEF AsWritten
    <3>3. e.state = "failed" => v \notin Nested[d + 1]
      BY <1>5, <2>4 DEF AsWritten
    <3>4. QED
      BY <2>4, <3>1, <3>2, <3>3
  <2>5. CASE v[1] = "array"
    <3>1. /\ items.ahead \in Text /\ items.state \in {"open", "closed", "failed"}
          /\ items.got \in Seq(Proper[d])
      BY <2>3, <2>5 DEF States
    <3>2. parse_array_value(parse, s) = IF items.state = "closed" THEN <<Array(items.got), items.ahead>>
                                        ELSE Failure
      BY <1>4, <1>7, <2>2, <2>5
    <3>3. CASE items.state = "closed"
      <4>1. items.ahead = c /\ LikeSoFar(v, d, n, items.got)
        BY <2>3, <2>4, <2>5, <3>1, <3>3
      <4>2. v \in Nested[d + 1] /\ Like(Array(items.got), v)
        BY <2>5, <3>1, <4>1, LikeAll
      <4>3. parse_array_value(parse, s) = <<Array(items.got), c>> /\ Array(items.got) # Error
        BY <3>2, <3>3, <4>1, ArrayAndObject
      <4>4. QED
        BY <2>5, <4>2, <4>3 DEF BackFrom
    <3>4. CASE items.state # "closed"
      <4>1. v \notin Nested[d + 1]
        BY <2>3, <2>4, <2>5, <3>1, <3>4
      <4>2. QED
        BY <1>6, <2>5, <3>2, <3>4, <4>1 DEF BackFrom
    <3>5. QED
      BY <3>3, <3>4
  <2>6. CASE v[1] = "object"
    <3>1. /\ members.ahead \in Text /\ members.state \in {"open", "closed", "failed"}
          /\ members.got \in ObjectMembers(Proper[d])
      BY <2>3, <2>6 DEF States
    <3>2. parse_object_value(parse, s) =
            IF members.state = "closed" THEN <<Object(members.got), members.ahead>> ELSE Failure
      BY <1>4, <1>7, <2>2, <2>6
    <3>3. CASE members.state = "closed"
      <4>1. members.ahead = c /\ LikeSoFar(v, d, n, members.got)
        BY <2>3, <2>4, <2>6, <3>1, <3>3
      <4>2. v \in Nested[d + 1] /\ Like(Object(members.got), v)
        BY <2>6, <3>1, <4>1, LikeAll
      <4>3. parse_object_value(parse, s) = <<Object(members.got), c>> /\ Object(members.got) # Error
        BY <3>2, <3>3, <4>1, ArrayAndObject
      <4>4. QED
        BY <2>6, <4>2, <4>3 DEF BackFrom
    <3>4. CASE members.state # "closed"
      <4>1. v \notin Nested[d + 1]
        BY <2>3, <2>4, <2>6, <3>1, <3>4
      <4>2. QED
        BY <1>6, <2>6, <3>2, <3>4, <4>1 DEF BackFrom
    <3>5. QED
      BY <3>3, <3>4
  <2>7. QED
    BY <2>5, <2>6 DEF Container
<1>10. QED
  BY <1>8, <1>9
------------------------------------------------------------------------------
(* One level of the parser reads back what has one level more.             *)
LEMMA StepBack ==
  ASSUME NEW d \in Nat, d + 1 <= MaxLevels, NEW parse \in Parser(Proper[d]),
         ReadsBack(parse, d), SkipsFirst(parse), NEW k \in Nat, k <= MaxNesting,
         NEW v, Tidy(v), NEW level \in Nat, NEW pretty \in BOOLEAN, NEW c \in Text
  PROVE  BackFrom(ParseValue(parse, k, Join(Serialized[v][level][pretty], c)), v, c, d + 1)
<1> DEFINE s == Join(Serialized[v][level][pretty], c)
           t == First(s)
           type == t[1]
           read == ParseValue(parse, k, s)
<1>1. v \in Tree
  BY DEF Tidy
<1>2. s \in Text /\ Skip[s] = s
  BY <1>1, StartOfText
<1>3. read = CASE type = Brace -> parse_object_value(parse, s)
               [] type = "[" -> parse_array_value(parse, s)
               [] type \in {"num", "float", "-"} -> parse_number_value(s)
               [] type \in {"str", "bool", "null"} -> <<s[1], Tail(s)>>
               [] OTHER -> Failure
  <2> HIDE DEF s
  <2>1. ~(k > MaxNesting)
    BY NestingAssumption
  <2>2. QED
    BY <1>2, <2>1 DEF ParseValue, Brace
<1>4. CASE Container(v)
  <2>1. t = Opens(v)
    <3> DEFINE opens == Opens(v)
               first == Rest(v, level, pretty, c, 0)
    <3>1. Len(v[2]) \in Nat
      BY <1>4, LengthOf
    <3>2. 0 \in 0..Len(v[2])
      BY <3>1
    <3>3. first \in Text /\ s = Join(<<opens>>, first) /\ opens \in Token
      BY <1>4, <3>2, ContainerRest, BracketTokens
    <3> HIDE DEF opens, first, s
    <3>4. First(Join(<<opens>>, first)) = opens
      BY <3>3, JoinToken
    <3>5. QED
      BY <3>3, <3>4 DEF opens
  <2>2. s = Join(Serialized[v][level][pretty], c)
    OBVIOUS
  <2> HIDE DEF s, read, type, t
  <2>3. CASE v[1] = "array"
    <3>1. type = "["
      BY <2>1, <2>3, BracketTokens DEF type
    <3>2. read = parse_array_value(parse, s)
      <4>1. Brace # "["
        BY DEF Brace
      <4>2. QED
        BY <1>3, <3>1, <4>1
    <3>3. BackFrom(parse_array_value(parse, s), v, c, d + 1)
      BY <1>4, <2>2, <2>3, ContainerBack
    <3>4. QED
      BY <3>2, <3>3 DEF read, s
  <2>4. CASE v[1] = "object"
    <3>1. type = Brace
      BY <2>1, <2>4, BracketTokens DEF type, Brace
    <3>2. read = parse_object_value(parse, s)
      <4>1. /\ Brace # "[" /\ Brace # "num" /\ Brace # "float" /\ Brace # "-" /\ Brace # "str"
            /\ Brace # "bool" /\ Brace # "null"
        BY DEF Brace
      <4>2. QED
        BY <1>3, <3>1, <4>1
    <3>3. BackFrom(parse_object_value(parse, s), v, c, d + 1)
      BY <1>4, <2>2, <2>4, ContainerBack
    <3>4. QED
      BY <3>2, <3>3 DEF read, s
  <2>5. QED
    BY <1>4, <2>3, <2>4 DEF Container
<1>5. CASE ~Container(v)
  <2> DEFINE w == Told(v)
             u == Wording(v)
  <2>1. /\ v \in Scalar /\ u \in Token /\ Serialized[v][level][pretty] = <<u>>
        /\ v[1] = "num" => u[1] \in {"num", "float"}
        /\ v[1] # "num" => u = v
    BY <1>1, <1>5, ScalarText
  <2>2. Like(w, v)
    BY <1>5, LikeScalar
  <2>3. v[1] \in {"null", "bool", "num", "str"} /\ w # Error
    <3>1. w \in Scalar
      BY <1>1, <1>5, ScalarText
    <3> HIDE DEF w
    <3>2. QED
      BY <2>1, <3>1, ScalarType
  <2>4. v \in Nested[d + 1]
    <3>1. Nested[d + 1] = ValuesOf(Nested[d])
      BY NestedIs
    <3>2. Scalar \subseteq ValuesOf(Nested[d])
      BY Made
    <3>3. QED
      BY <2>1, <3>1, <3>2
  <2>5. /\ v[1] = "num" => w = <<"num", u[2]>>
        /\ v[1] # "num" => w = u
    BY DEF Told, Wording
  <2> HIDE DEF w, u
  <2>6. First(Join(<<u>>, c)) = u /\ Tail(Join(<<u>>, c)) = c /\ Join(<<u>>, c) # <<>>
    BY <2>1, JoinToken
  <2>7. t = u /\ Tail(s) = c /\ s # <<>>
    BY <2>1, <2>6
  <2> HIDE DEF s
  <2>8. s[1] = u /\ type = u[1]
    BY <1>2, <2>7, TextFacts
  <2> HIDE DEF read, type
  <2>9. read = <<w, c>>
    <3>1. /\ Brace # "num" /\ Brace # "float" /\ Brace # "str" /\ Brace # "bool" /\ Brace # "null"
      BY DEF Brace
    <3>2. CASE v[1] = "num"
      <4>1. u[1] \in {"num", "float"} /\ w = <<"num", u[2]>>
        BY <2>1, <2>5, <3>2
      <4>2. u # <<"-">>
        BY <4>1, Single
      <4>3. parse_number_value(s) = <<w, c>>
        BY <2>7, <2>8, <4>1, <4>2 DEF parse_number_value
      <4>4. QED
        BY <1>3, <2>8, <3>1, <4>1, <4>3
    <3>3. CASE v[1] # "num"
      <4>1. u = w /\ u[1] \in {"null", "bool", "str"}
        BY <2>1, <2>3, <2>5, <3>3
      <4>2. QED
        BY <1>3, <2>7, <2>8, <3>1, <4>1
    <3>4. QED
      BY <3>2, <3>3
  <2>10. BackFrom(<<w, c>>, v, c, d + 1)
    BY <2>2, <2>3, <2>4 DEF BackFrom
  <2>11. QED
    BY <2>9, <2>10 DEF read, s
<1>6. QED
  BY <1>4, <1>5

(* parse_value reads back the values of as many levels as its nesting      *)
(* leaves, and fails for higher ones.                                      *)
LEMMA ParserReadsBack ==
  \A d \in Nat : d <= MaxLevels =>
    \A k \in Nat : k + d = MaxNesting + 1 => ReadsBack(parse_value[k], d)
<1> DEFINE Good(d) == d <= MaxLevels =>
                        \A k \in Nat : k + d = MaxNesting + 1 => ReadsBack(parse_value[k], d)
           A == {d \in Nat : Good(d)}
<1>1. \A k \in Nat : \A s \in Text : parse_value[k][s] = ParseValue(parse_value[k + 1], k, s)
  BY ParseIs
<1>2. \A v : Tidy(v) => \A level \in Nat, pretty \in BOOLEAN, c \in Text :
         Join(Serialized[v][level][pretty], c) \in Text
  BY StartOfText DEF Tidy
<1>3. 0 \in A
  <2> SUFFICES ASSUME NEW k \in Nat, k = MaxNesting + 1
               PROVE  ReadsBack(parse_value[k], 0)
    OBVIOUS
  <2>1. k > MaxNesting
    BY NestingAssumption
  <2>2. \A s \in Text : parse_value[k][s][1] = Error
    <3>1. \A s \in Text : ParseValue(parse_value[k + 1], k, s)[1] = Error
      BY <2>1 DEF ParseValue, Failure
    <3>2. QED
      BY <1>1, <3>1
  <2>3. \A v : v \notin Nested[0]
    BY NestedIs
  <2>4. QED
    BY <1>2, <2>2, <2>3 DEF ReadsBack, BackFrom
<1>4. ASSUME NEW d \in A
      PROVE  d + 1 \in A
  <2>1. d \in Nat /\ Good(d) /\ d + 1 \in Nat
    OBVIOUS
  <2> HIDE DEF A
  <2> SUFFICES ASSUME d + 1 <= MaxLevels, NEW k \in Nat, k + (d + 1) = MaxNesting + 1
               PROVE  ReadsBack(parse_value[k], d + 1)
    BY <2>1 DEF A
  <2>2. k + 1 \in Nat /\ (k + 1) + d = MaxNesting + 1 /\ (k + 1) + d > MaxNesting
        /\ d <= MaxLevels /\ k <= MaxNesting
    BY <2>1, NestingAssumption, LevelsAssumption
  <2> DEFINE parse == parse_value[k + 1]
  <2>3. parse \in Parser(Proper[d]) /\ ReadsBack(parse, d) /\ SkipsFirst(parse)
    BY <2>1, <2>2, ParserType, SameParse DEF SkipsFirst
  <2>4. \A s \in Text : parse_value[k][s] = ParseValue(parse, k, s)
    BY <1>1
  <2> HIDE DEF parse, Good
  <2> SUFFICES ASSUME NEW v, Tidy(v), NEW level \in Nat, NEW pretty \in BOOLEAN, NEW c \in Text
               PROVE  BackFrom(parse_value[k][Join(Serialized[v][level][pretty], c)], v, c, d + 1)
    BY DEF ReadsBack
  <2>5. BackFrom(ParseValue(parse, k, Join(Serialized[v][level][pretty], c)), v, c, d + 1)
    BY <2>1, <2>2, <2>3, StepBack
  <2>6. QED
    BY <1>2, <2>4, <2>5
<1>5. A = Nat
  <2> HIDE DEF A
  <2>1. A \in SUBSET Nat
    BY DEF A
  <2>2. QED
    BY <1>3, <1>4, <2>1, CopyF!Upward
<1>6. QED
  BY <1>5

(* json_parse_string reads back both texts of every document that is not   *)
(* nested too deeply, as a document that is equal and whose text is the    *)
(* same but for the decimals of numbers rounded to integers; it refuses    *)
(* the deeper ones, whatever follows the text.                             *)
THEOREM RoundTripSafe == DSpec => []RoundTrip
<1>1. DTypeOK => RoundTrip
  <2> SUFFICES ASSUME DTypeOK, doc # Error, NEW pretty \in BOOLEAN, NEW c \in Chunk
               PROVE  /\ doc \notin Nested[MaxNesting + 1] =>
                           json_parse_string(Serialized[doc][0][pretty] \o c)[1] = Error
                      /\ doc \in Nested[MaxNesting + 1] =>
                           /\ json_parse_string(Serialized[doc][0][pretty] \o c)[1] # Error
                           /\ json_parse_string(Serialized[doc][0][pretty] \o c)[2] = c
                           /\ json_value_equals[json_parse_string(Serialized[doc][0][pretty] \o c)[1]][doc]
                           /\ Serialized[json_parse_string(Serialized[doc][0][pretty] \o c)[1]][0][pretty] =
                                Settle(Serialized[doc][0][pretty])
    BY DEF RoundTrip, Settle
  <2> DEFINE d == MaxNesting + 1
             r == parse_value[0][Join(Serialized[doc][0][pretty], c)]
             zero == 0
  <2>1. d \in Nat /\ d <= MaxLevels /\ zero + d = MaxNesting + 1 /\ zero \in Nat
    BY NestingAssumption, LevelsAssumption
  <2>2. Tidy(doc) /\ c \in Text
    BY LevelsAssumption, ChunkAssumption, TidyLevel DEF DTypeOK
  <2>3. r = json_parse_string(Serialized[doc][0][pretty] \o c)
    BY DEF json_parse_string, Join
  <2>4. r = parse_value[zero][Join(Serialized[doc][zero][pretty], c)]
    OBVIOUS
  <2> HIDE DEF d, r, zero
  <2>5. ReadsBack(parse_value[zero], d)
    BY <2>1, ParserReadsBack
  <2>6. BackFrom(r, doc, c, d)
    BY <2>1, <2>2, <2>4, <2>5 DEF ReadsBack
  <2>7. doc \notin Nested[d] => r[1] = Error
    BY <2>6 DEF BackFrom
  <2>8. doc \in Nested[d] => r[1] # Error /\ r[2] = c /\ Like(r[1], doc)
    BY <2>6 DEF BackFrom
  <2>9. Like(r[1], doc) => /\ json_value_equals[r[1]][doc]
                           /\ Serialized[r[1]][0][pretty] = Settle(Serialized[doc][0][pretty])
    BY DEF Like
  <2>10. QED
    BY <2>3, <2>7, <2>8, <2>9 DEF d
<1>2. QED
  BY <1>1, DocumentType, PTL
================================================================================
