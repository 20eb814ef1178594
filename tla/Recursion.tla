-------------------------------- MODULE Recursion ------------------------------
(***************************************************************************)
(* A recursive function exists if its arguments can be put in levels such  *)
(* that its value at one depends on those at lower levels only.  Without   *)
(* that nothing is known of f[x \in S] == ..., which stands for a CHOOSE.  *)
(*                                                                         *)
(* S is the domain, Step(f, x) the right-hand side and Level(n) the        *)
(* arguments of level n.  A module about a recursive function instantiates *)
(* this one with them.                                                     *)
(***************************************************************************)
EXTENDS Integers, WellFoundedInduction, TLAPS

CONSTANTS S, Step(_, _), Level(_)

EveryArgument == \A x \in S : \E n \in Nat : x \in Level(n)

(* The value at level n, when f and g agree on the levels below.           *)
LowerLevels ==
  \A f, g : \A n \in Nat :
    (\A m \in 0..n-1 : \A y \in S : y \in Level(m) => f[y] = g[y])
      => \A x \in S : x \in Level(n) => Step(f, x) = Step(g, x)

(* The function after n rounds, from one that says nothing.                *)
IsRound(h, n) ==
  h = [k \in 0..n |-> [x \in S |-> IF k = 0 THEN x ELSE Step(h[k - 1], x)]]

(* What holds at zero and from each number to the next.                    *)
LEMMA Upward ==
  ASSUME NEW A \in SUBSET Nat, 0 \in A, \A n \in A : n + 1 \in A
  PROVE  A = Nat
<1> DEFINE R == OpToRel(<, Nat)
           B == Nat \ A
<1> SUFFICES ASSUME B # {} PROVE FALSE
  OBVIOUS
<1>1. \A x, y \in Nat : y < x => <<y, x>> \in R
  BY DEF OpToRel
<1>2. IsWellFoundedOn(R, Nat)
  BY NatLessThanWellFounded DEF R
<1>3. B \in SUBSET Nat
  OBVIOUS
<1> HIDE DEF R, B
<1>4. PICK m \in B : \A k \in B : ~(<<k, m>> \in R)
  BY <1>2, <1>3, WFMin
<1>5. m \in Nat /\ m # 0
  BY <1>3 DEF B
<1>6. m - 1 \notin B
  <2>1. m - 1 \in Nat /\ m - 1 < m
    BY <1>5
  <2>2. <<m - 1, m>> \in R
    BY <1>1, <1>5, <2>1
  <2>3. QED
    BY <1>4, <2>2
<1>7. m - 1 \in A
  BY <1>5, <1>6 DEF B
<1>8. m - 1 + 1 \in A
  BY <1>7
<1>9. QED
  BY <1>5, <1>8 DEF B

LEMMA Rounds == \A n \in Nat : \E h : IsRound(h, n)
<1> DEFINE A == {n \in Nat : \E h : IsRound(h, n)}
<1>1. 0 \in A
  <2> DEFINE h == [k \in 0..0 |-> [x \in S |-> x]]
  <2>1. IsRound(h, 0)
    BY DEF IsRound
  <2>2. QED
    BY <2>1
<1>2. ASSUME NEW n \in A
      PROVE  n + 1 \in A
  <2>1. PICK h : IsRound(h, n)
    OBVIOUS
  <2> DEFINE g == [k \in 0..n+1 |->
                     IF k <= n THEN h[k] ELSE [x \in S |-> Step(h[n], x)]]
  <2>2. \A k \in 0..n : g[k] = [x \in S |-> IF k = 0 THEN x ELSE Step(g[k - 1], x)]
    <3> TAKE k \in 0..n
    <3>1. g[k] = h[k] /\ h[k] = [x \in S |-> IF k = 0 THEN x ELSE Step(h[k - 1], x)]
      BY <2>1 DEF IsRound
    <3>2. k # 0 => g[k - 1] = h[k - 1]
      OBVIOUS
    <3>3. QED
      BY <3>1, <3>2
  <2>3. g[n + 1] = [x \in S |-> IF n + 1 = 0 THEN x ELSE Step(g[n], x)]
    OBVIOUS
  <2> HIDE DEF g
  <2>4. \A k \in 0..n+1 : g[k] = [x \in S |-> IF k = 0 THEN x ELSE Step(g[k - 1], x)]
    <3> TAKE k \in 0..n+1
    <3>1. CASE k \in 0..n
      BY <2>2, <3>1
    <3>2. CASE k = n + 1
      <4>1. k - 1 = n
        BY <3>2
      <4>2. QED
        BY <2>3, <3>2, <4>1
    <3>3. QED
      BY <3>1, <3>2
  <2>5. IsRound(g, n + 1)
    <3>1. g = [k \in 0..n+1 |-> g[k]]
      BY DEF g
    <3>2. QED
      BY <2>4, <3>1 DEF IsRound
  <2>6. QED
    BY <2>5
<1>3. QED
  BY <1>1, <1>2, Upward

(* Rounds are the same however far they go.                                *)
LEMMA SameRounds ==
  ASSUME NEW n \in Nat, NEW m \in Nat, NEW g, NEW h,
         IsRound(g, n), IsRound(h, m)
  PROVE  \A k \in Nat : k <= n /\ k <= m => g[k] = h[k]
<1> DEFINE A == {k \in Nat : k <= n /\ k <= m => g[k] = h[k]}
<1>1. ASSUME NEW k \in Nat, k <= n, k <= m
      PROVE  /\ g[k] = [x \in S |-> IF k = 0 THEN x ELSE Step(g[k - 1], x)]
             /\ h[k] = [x \in S |-> IF k = 0 THEN x ELSE Step(h[k - 1], x)]
  <2>1. k \in 0..n /\ k \in 0..m
    BY <1>1
  <2>2. QED
    BY <2>1, Zenon DEF IsRound
<1>2. 0 \in A
  BY <1>1
<1>3. ASSUME NEW k \in A
      PROVE  k + 1 \in A
  <2> SUFFICES ASSUME k + 1 <= n, k + 1 <= m
               PROVE  g[k + 1] = h[k + 1]
    OBVIOUS
  <2>1. g[k] = h[k] /\ k + 1 # 0 /\ k + 1 - 1 = k /\ k + 1 \in Nat
    OBVIOUS
  <2>2. /\ g[k + 1] = [x \in S |-> IF k + 1 = 0 THEN x ELSE Step(g[k + 1 - 1], x)]
        /\ h[k + 1] = [x \in S |-> IF k + 1 = 0 THEN x ELSE Step(h[k + 1 - 1], x)]
    BY <1>1, <2>1
  <2>3. QED
    BY <2>1, <2>2
<1>4. A = Nat
  BY <1>2, <1>3, Upward
<1>5. QED
  BY <1>4

(* All the rounds.                                                         *)
LEMMA AllRounds ==
  \E h : \A x \in S, n \in Nat : h[n + 1][x] = Step(h[n], x)
<1> DEFINE round(n) == CHOOSE h : IsRound(h, n)
           h == [n \in Nat |-> round(n)[n]]
<1>1. ASSUME NEW n \in Nat
      PROVE  IsRound(round(n), n)
  BY Rounds
<1> HIDE DEF round
<1>2. ASSUME NEW n \in Nat, NEW x \in S
      PROVE  h[n + 1][x] = Step(h[n], x)
  <2>1. round(n + 1)[n] = round(n)[n]
    BY <1>1, SameRounds
  <2>2. round(n + 1)[n + 1][x] = Step(round(n + 1)[n], x)
    <3>1. IsRound(round(n + 1), n + 1)
      BY <1>1
    <3>2. n + 1 \in 0..n+1 /\ n + 1 # 0 /\ n + 1 - 1 = n
      OBVIOUS
    <3>3. QED
      BY <3>1, <3>2 DEF IsRound
  <2>3. QED
    BY <2>1, <2>2
<1> HIDE DEF h
<1>3. QED
  BY <1>2

(* At an argument of some level the rounds no longer change from the round *)
(* after that level on; the function takes those values.                   *)
THEOREM FunctionExists ==
  ASSUME EveryArgument, LowerLevels
  PROVE  \E f : f = [x \in S |-> Step(f, x)]
<1>1. PICK h : \A x \in S, n \in Nat : h[n + 1][x] = Step(h[n], x)
  BY AllRounds
<1> DEFINE Stable(n) ==
             \A x \in S, m \in Nat : x \in Level(n) /\ m >= n => h[m + 1][x] = h[n + 1][x]
           A == {n \in Nat : \A k \in 0..n-1 : Stable(k)}
<1>2. ASSUME NEW n \in Nat, \A k \in 0..n-1 : Stable(k)
      PROVE  Stable(n)
  <2> SUFFICES ASSUME NEW x \in S, NEW m \in Nat, x \in Level(n), m >= n
               PROVE  h[m + 1][x] = h[n + 1][x]
    OBVIOUS
  <2>1. ASSUME NEW k \in 0..n-1, NEW y \in S, y \in Level(k)
        PROVE  h[m][y] = h[n][y]
    <3>1. /\ m - 1 \in Nat /\ n - 1 \in Nat /\ m - 1 >= k /\ n - 1 >= k /\ k \in Nat
          /\ m - 1 + 1 = m /\ n - 1 + 1 = n
      OBVIOUS
    <3>2. h[m - 1 + 1][y] = h[k + 1][y] /\ h[n - 1 + 1][y] = h[k + 1][y]
      BY <1>2, <2>1, <3>1
    <3>3. QED
      BY <3>1, <3>2
  <2>2. Step(h[m], x) = Step(h[n], x)
    BY <2>1 DEF LowerLevels
  <2>3. QED
    BY <1>1, <2>2
<1>3. \A n \in Nat : Stable(n)
  <2>1. 0 \in A
    OBVIOUS
  <2>2. ASSUME NEW n \in A
        PROVE  n + 1 \in A
    <3>1. n \in Nat /\ Stable(n) /\ \A k \in 0..n-1 : Stable(k)
      BY <1>2
    <3> HIDE DEF Stable
    <3>2. QED
      BY <3>1
  <2> HIDE DEF Stable
  <2>3. A = Nat
    BY <2>1, <2>2, Upward
  <2>4. ASSUME NEW n \in Nat
        PROVE  Stable(n)
    <3>1. n + 1 \in A /\ n \in 0..n+1-1
      <4>1. n + 1 \in Nat /\ n \in 0..n+1-1
        OBVIOUS
      <4> HIDE DEF A
      <4>2. QED
        BY <2>3, <4>1
    <3>2. QED
      BY <3>1
  <2>5. QED
    BY <2>4
<1> DEFINE level(x) == CHOOSE n \in Nat : x \in Level(n)
           f == [x \in S |-> h[level(x) + 1][x]]
<1>4. ASSUME NEW x \in S
      PROVE  level(x) \in Nat /\ x \in Level(level(x))
  BY DEF EveryArgument
<1> HIDE DEF level
<1>5. ASSUME NEW x \in S, NEW n \in Nat, x \in Level(n)
      PROVE  f[x] = h[n + 1][x]
  <2>1. PICK m \in Nat : m >= n /\ m >= level(x)
    <3>1. n + level(x) \in Nat /\ n + level(x) >= n /\ n + level(x) >= level(x)
      BY <1>4
    <3>2. QED
      BY <3>1
  <2>2. h[m + 1][x] = h[n + 1][x] /\ h[m + 1][x] = h[level(x) + 1][x]
    BY <1>3, <1>4, <1>5, <2>1
  <2>3. QED
    BY <2>2
<1>6. ASSUME NEW x \in S
      PROVE  f[x] = Step(f, x)
  <2> DEFINE n == level(x)
  <2>1. n \in Nat /\ x \in Level(n)
    BY <1>4
  <2> HIDE DEF n
  <2>2. f[x] = Step(h[n], x)
    BY <1>1, <1>5, <2>1
  <2>3. ASSUME NEW k \in 0..n-1, NEW y \in S, y \in Level(k)
        PROVE  f[y] = h[n][y]
    <3>1. n - 1 \in Nat /\ n - 1 >= k /\ k \in Nat /\ n - 1 + 1 = n
      BY <2>1
    <3>2. f[y] = h[k + 1][y]
      BY <1>5, <2>3, <3>1
    <3>3. h[n - 1 + 1][y] = h[k + 1][y]
      BY <1>3, <2>3, <3>1
    <3>4. QED
      BY <3>1, <3>2, <3>3
  <2> HIDE DEF f
  <2>4. Step(f, x) = Step(h[n], x)
    BY <2>1, <2>3 DEF LowerLevels
  <2>5. QED
    BY <2>2, <2>4
<1>7. f = [x \in S |-> f[x]]
  OBVIOUS
<1> HIDE DEF f
<1>8. f = [x \in S |-> Step(f, x)]
  BY <1>6, <1>7
<1>9. QED
  BY <1>8
===============================================================================
