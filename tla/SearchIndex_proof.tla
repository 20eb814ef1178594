--------------------------- MODULE SearchIndex_proof ---------------------------
(***************************************************************************)
(* search_index returns the partition its algorithm names, for arrays of   *)
(* any length and any contents.  The inductive invariant is the type       *)
(* invariant with CandidateIsBest and ResultCorrect: each iteration        *)
(* extends the elements seen by one.                                       *)
(***************************************************************************)
EXTENDS SearchIndex, TLAPS

(* Every variable keeps its type: i never passes n and index is -1 or the  *)
(* position of an element of the array.                                    *)
THEOREM TypeCorrect == Spec => []TypeOK
<1> USE MaxPartitionsAssumption, FreeSpacesAssumption, SizesAssumption
<1>1. Init => TypeOK
  BY DEF Init, TypeOK, NotReturned
<1>2. TypeOK /\ [Next]_vars => TypeOK'
  <2> SUFFICES ASSUME TypeOK, [Next]_vars PROVE TypeOK'
    OBVIOUS
  <2> USE DEF TypeOK, Looping, Continue, NotReturned
  <2>1. CASE PassOver
    BY <2>1 DEF PassOver
  <2>2. CASE BestFit
    BY <2>2 DEF BestFit
  <2>3. CASE WorstFit
    BY <2>3 DEF WorstFit
  <2>4. CASE FirstFit
    BY <2>4 DEF FirstFit
  <2>5. CASE Return
    BY <2>5 DEF Return
  <2>6. CASE Done \/ UNCHANGED vars
    BY <2>6 DEF Done, vars
  <2>7. QED
    BY <2>1, <2>2, <2>3, <2>4, <2>5, <2>6 DEF Next
<1>3. QED
  BY <1>1, <1>2, PTL DEF Spec

(* Every element of the array holds an integer; while the loop runs, i is  *)
(* the position of one.                                                    *)
LEMMA Elements ==
  ASSUME TypeOK
  PROVE  /\ n \in Nat
         /\ \A q \in 0..n-1 : free[q] \in Int
         /\ Looping => i \in 0..n-1
<1>1. n \in Nat /\ i \in 0..n
  BY MaxPartitionsAssumption DEF TypeOK
<1>2. \A q \in 0..n-1 : free[q] \in FreeSpaces
  BY DEF TypeOK
<1>3. \A q \in 0..n-1 : free[q] \in Int
  BY <1>2, FreeSpacesAssumption
<1>4. Looping => i \in 0..n-1
  BY <1>1 DEF Looping
<1>5. QED
  BY <1>1, <1>3, <1>4

(* One more element: the fitting ones seen are those seen before, with     *)
(* element i if it fits.                                                   *)
LEMMA SeenGrows ==
  ASSUME TypeOK, Looping, Continue, UNCHANGED <<n, free, size>>
  PROVE  /\ Fits(free, i, size) => Seen' = Seen \cup {i}
         /\ ~Fits(free, i, size) => Seen' = Seen
         /\ \A q \in Seen : q \in 0..n-1 /\ q < i /\ free[q] \in Int
<1>1. /\ n \in Nat /\ i \in 0..n-1 /\ i' = i + 1
      /\ \A q \in 0..n-1 : free[q] \in Int
  BY Elements DEF Continue
<1>2. Seen' = {q \in 0..i : Fits(free, q, size)}
  BY <1>1 DEF Seen, Fits
<1>3. 0..i = (0..i-1) \cup {i}
  BY <1>1
<1>4. \A q \in Seen : q \in 0..n-1 /\ q < i
  BY <1>1 DEF Seen
<1>5. QED
  BY <1>1, <1>2, <1>3, <1>4 DEF Seen

(* After the last element, what has been seen is the whole array.          *)
LEMMA SeenAll ==
  ASSUME TypeOK, i = n
  PROVE  Seen = Fitting(free, size)
BY Elements DEF TypeOK, Seen, Fitting

(* An iteration of the loop that keeps the candidate or takes element i    *)
(* leaves the best candidate, when it takes i exactly if no candidate      *)
(* precedes it.                                                            *)
LEMMA CandidateStep ==
  ASSUME TypeOK, CandidateIsBest, Looping, Continue,
         UNCHANGED <<n, free, size, algorithm, result>>,
         algorithm # FIRST_FIT, Fits(free, i, size),
         index' = IF index = -1 \/ ~Preferred(free, algorithm, index, i)
                  THEN i ELSE index
  PROVE  CandidateIsBest'
<1>1. /\ Seen' = Seen \cup {i}
      /\ \A q \in Seen : q \in 0..n-1 /\ q < i /\ free[q] \in Int
  BY SeenGrows
<1>2. /\ n \in Nat /\ i \in 0..n-1 /\ free[i] \in Int
      /\ algorithm = BEST_FIT \/ algorithm = WORST_FIT
      /\ algorithm' = algorithm /\ free' = free /\ result' = result
      /\ result = NotReturned
  BY Elements DEF TypeOK, Algorithm, Looping
<1> USE DEF BEST_FIT, FIRST_FIT, WORST_FIT
<1>3. CASE Seen = {}
  <2>1. index' = i
    BY <1>2, <1>3 DEF CandidateIsBest
  <2>2. Preferred(free, algorithm, i, i)
    BY <1>2 DEF Preferred
  <2>3. Seen' = {i}
    BY <1>1, <1>3
  <2>4. QED
    BY <1>2, <2>1, <2>2, <2>3 DEF CandidateIsBest
<1>4. CASE Seen # {}
  <2>1. /\ index \in Seen
        /\ index \in 0..n-1 /\ free[index] \in Int
        /\ \A q \in Seen : Preferred(free, algorithm, index, q)
    BY <1>1, <1>2, <1>4 DEF CandidateIsBest
  <2>2. CASE Preferred(free, algorithm, index, i)
    <3>1. index' = index
      BY <1>2, <2>1, <2>2
    <3>2. QED
      BY <1>1, <1>2, <2>1, <2>2, <3>1 DEF CandidateIsBest
  <2>3. CASE ~Preferred(free, algorithm, index, i)
    <3>1. index' = i
      BY <2>3
    <3>2. \A q \in Seen : Preferred(free, algorithm, i, q)
      BY <1>1, <1>2, <2>1, <2>3 DEF Preferred
    <3>3. Preferred(free, algorithm, i, i)
      BY <1>2 DEF Preferred
    <3>4. QED
      BY <1>1, <1>2, <3>1, <3>2, <3>3 DEF CandidateIsBest
  <2>4. QED
    BY <2>2, <2>3
<1>5. QED
  BY <1>3, <1>4

(* The loop invariant and the answer: search_index returns a partition     *)
(* that Returns allows, whatever the array, the size and the algorithm.    *)
THEOREM SearchCorrect == Spec => [](CandidateIsBest /\ ResultCorrect)
<1>1. Init => CandidateIsBest /\ ResultCorrect
  <2>1. Init => Seen = {}
    BY DEF Init, Seen
  <2>2. QED
    BY <2>1 DEF Init, CandidateIsBest, ResultCorrect
<1>2. /\ TypeOK /\ CandidateIsBest /\ ResultCorrect
      /\ [Next]_vars
      => (CandidateIsBest /\ ResultCorrect)'
  <2> SUFFICES ASSUME TypeOK, CandidateIsBest, ResultCorrect, [Next]_vars
               PROVE  (CandidateIsBest /\ ResultCorrect)'
    OBVIOUS
  <2>1. CASE PassOver
    <3>1. Seen' = Seen
      BY <2>1, SeenGrows DEF PassOver
    <3>2. CandidateIsBest'
      BY <2>1, <3>1 DEF PassOver, CandidateIsBest, Preferred
    <3>3. ResultCorrect'
      BY <2>1 DEF PassOver, Looping, ResultCorrect
    <3>4. QED
      BY <3>2, <3>3
  <2>2. CASE BestFit
    <3>1. CandidateIsBest'
      <4>1. index # -1 =>
              (~Preferred(free, algorithm, index, i) <=> free[index] > free[i])
        <5> SUFFICES ASSUME index # -1
                     PROVE  ~Preferred(free, algorithm, index, i)
                              <=> free[index] > free[i]
          OBVIOUS
        <5>1. index \in Seen
          BY <2>2 DEF BestFit, Looping, CandidateIsBest
        <5>2. index < i /\ i \in 0..n-1 /\ n \in Nat /\ index \in 0..n-1
              /\ free[index] \in Int /\ free[i] \in Int
          BY <2>2, <5>1, Elements, SeenGrows DEF BestFit
        <5>3. QED
          BY <2>2, <5>2 DEF BestFit, Preferred, BEST_FIT, WORST_FIT, FIRST_FIT
      <4>2. QED
        BY <2>2, <4>1, CandidateStep DEF BestFit, BEST_FIT, FIRST_FIT
    <3>2. ResultCorrect'
      BY <2>2 DEF BestFit, Looping, ResultCorrect
    <3>3. QED
      BY <3>1, <3>2
  <2>3. CASE WorstFit
    <3>1. CandidateIsBest'
      <4>1. index # -1 =>
              (~Preferred(free, algorithm, index, i) <=> free[index] < free[i])
        <5> SUFFICES ASSUME index # -1
                     PROVE  ~Preferred(free, algorithm, index, i)
                              <=> free[index] < free[i]
          OBVIOUS
        <5>1. index \in Seen
          BY <2>3 DEF WorstFit, Looping, CandidateIsBest
        <5>2. index < i /\ i \in 0..n-1 /\ n \in Nat /\ index \in 0..n-1
              /\ free[index] \in Int /\ free[i] \in Int
          BY <2>3, <5>1, Elements, SeenGrows DEF WorstFit
        <5>3. QED
          BY <2>3, <5>2 DEF WorstFit, Preferred, BEST_FIT, WORST_FIT, FIRST_FIT
      <4>2. QED
        BY <2>3, <4>1, CandidateStep DEF WorstFit, WORST_FIT, FIRST_FIT
    <3>2. ResultCorrect'
      BY <2>3 DEF WorstFit, Looping, ResultCorrect
    <3>3. QED
      BY <3>1, <3>2
  <2>4. CASE FirstFit
    <3>1. Seen = {}
      BY <2>4 DEF FirstFit, Looping, CandidateIsBest
    <3>2. i \in 0..n-1 /\ n \in Nat
      BY <2>4, Elements DEF FirstFit
    <3>3. \A q \in Fitting(free, size) : q \in 0..n-1 /\ i <= q
      BY <3>1, <3>2 DEF Seen, Fitting, TypeOK
    <3>4. i \in Fitting(free, size)
      BY <2>4, <3>2 DEF FirstFit, Fitting, TypeOK
    <3>5. Returns(free, size, algorithm, i)
      BY <2>4, <3>3, <3>4 DEF FirstFit, Returns, Preferred
    <3>6. ResultCorrect'
      BY <2>4, <3>5 DEF FirstFit, ResultCorrect
    <3>7. CandidateIsBest'
      BY <2>4, <3>2 DEF FirstFit, CandidateIsBest, NotReturned
    <3>8. QED
      BY <3>6, <3>7
  <2>5. CASE Return
    <3>1. Seen = Fitting(free, size)
      BY <2>5, SeenAll DEF Return
    <3>2. Returns(free, size, algorithm, index)
      BY <2>5, <3>1 DEF Return, Returns, CandidateIsBest
    <3>3. ResultCorrect'
      BY <2>5, <3>2 DEF Return, ResultCorrect
    <3>4. result' # NotReturned
      BY <2>5, Elements DEF Return, TypeOK, NotReturned
    <3>5. CandidateIsBest'
      BY <3>4 DEF CandidateIsBest, NotReturned
    <3>6. QED
      BY <3>3, <3>5
  <2>6. CASE Done \/ UNCHANGED vars
    BY <2>6 DEF Done, vars, CandidateIsBest, ResultCorrect, Seen
  <2>7. QED
    BY <2>1, <2>2, <2>3, <2>4, <2>5, <2>6 DEF Next
<1>3. QED
  BY TypeCorrect, <1>1, <1>2, PTL DEF Spec

(* At every turn of the loop the candidate is the answer for the part of   *)
(* the array already seen.                                                 *)
THEOREM BestSoFar == Spec => []CandidateIsBest
BY SearchCorrect, PTL

(* search_index returns the partition its algorithm names.                 *)
THEOREM ReturnsBest == Spec => []ResultCorrect
BY SearchCorrect, PTL
================================================================================
